----------------------------- MODULE DelayLine -----------------------------
(* What the delay of packets (sv_minping) promises: the packets the server *)
(* takes from its socket for a client are run in the order of arrival, or  *)
(* lost, or forgotten with the client; none is run twice or overtaken.     *)
EXTENDS Naturals, Sequences

CONSTANTS
    Clients,
    Packets     \* the numbers of packets, a subset of Nat

VARIABLES
    pending,    \* packets waiting to be run, by client
    last        \* the last packet run, by client

Init ==
    /\ pending = [c \in Clients |-> <<>>]
    /\ last = [c \in Clients |-> 0]

(* Packets are numbered as they arrive; n is newer than all before it.     *)
Newer(c, n) ==
    /\ n > last[c]
    /\ \A i \in DOMAIN pending[c] : n > pending[c][i]

Wait(c, n) ==
    /\ Newer(c, n)
    /\ pending' = [pending EXCEPT ![c] = Append(@, n)]
    /\ UNCHANGED last

RunAtOnce(c, n) ==
    /\ pending[c] = <<>> /\ Newer(c, n)
    /\ last' = [last EXCEPT ![c] = n]
    /\ UNCHANGED pending

RunFirst(c) ==
    /\ pending[c] # <<>>
    /\ last' = [last EXCEPT ![c] = Head(pending[c])]
    /\ pending' = [pending EXCEPT ![c] = Tail(@)]

Forget(c) ==
    /\ pending' = [pending EXCEPT ![c] = <<>>]
    /\ UNCHANGED last

Next ==
    \E c \in Clients :
        \/ RunFirst(c) \/ Forget(c)
        \/ \E n \in Packets : Wait(c, n) \/ RunAtOnce(c, n)

Spec == Init /\ [][Next]_<<pending, last>>

=============================================================================
