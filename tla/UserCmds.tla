------------------------------ MODULE UserCmds ------------------------------
(* The moves of a player: made and sent by CL_SendCmd (cl_input.c), each   *)
(* with the two before it, and run by SV_ExecuteClientMove (sv_user.c),    *)
(* which makes up for packets that were lost or, with cl_c2spps, skipped.  *)
(*                                                                         *)
(* A move is the number of the packet it was made for.  What it does to    *)
(* the player is left out, but for its impulse.  The client has spawned.   *)
(***************************************************************************)
EXTENDS Naturals, FiniteSets, Functions

CONSTANTS
    cl_c2sImpulseBackup,
    MAX_NET_DROP,       \* 20: longest loss made up for
    MaxSequence         \* bound: the moves

ASSUME UserCmdsAssumption ==
    {cl_c2sImpulseBackup, MAX_NET_DROP, MaxSequence} \subseteq Nat

VARIABLES
    outgoing_sequence,  \* cls.netchan.outgoing_sequence
    impulses,           \* the moves made with an impulse
    sent,               \* the packets sent, which may still arrive
    dropcount,          \* packets skipped in a row
    paused,             \* sv.paused
    incoming_sequence,  \* of the server's channel
    lastcmd,            \* cl->lastcmd; 0 is no move
    accepted,           \* packets the server took, while paused or not
    runs,               \* how often each move was run
    replays             \* how often it was run as lastcmd

client == <<outgoing_sequence, impulses, sent, dropcount>>
server == <<incoming_sequence, lastcmd, accepted, runs, replays>>
moveVars == <<client, server, paused>>

MAX_DROPCOUNT == 2  \* packets skipped in a row

Move == 1 .. MaxSequence

MovesInit ==
    /\ outgoing_sequence = 1
    /\ impulses = {} /\ sent = {} /\ dropcount = 0
    /\ paused = FALSE
    /\ incoming_sequence = 0 /\ lastcmd = 0
    /\ accepted = [n \in Move |-> "no"]
    /\ runs = [n \in Move |-> 0]
    /\ replays = [n \in 0 .. MaxSequence |-> 0]

-----------------------------------------------------------------------------
(* The client.                                                             *)

(* Mutant of DontDrop: the middle one of the three moves is forgotten.     *)
DontDrop_Middle(n, imp) ==
    \/ cl_c2sImpulseBackup >= 1 /\ n \in imp
    \/ cl_c2sImpulseBackup >= 2 /\ n - 2 \in imp

(* The packet is sent for an impulse among its moves.                      *)
DontDrop(n, imp) ==
    \/ cl_c2sImpulseBackup >= 1 /\ n \in imp
    \/ cl_c2sImpulseBackup >= 2 /\ n > 2 /\ n - 2 \in imp
    \/ cl_c2sImpulseBackup >= 3 /\ n - 1 \in imp

(* Mutant of MaySkip: one skipped packet too many.                         *)
MaySkip_OneMore(n, imp) == dropcount <= MAX_DROPCOUNT /\ ~DontDrop(n, imp)

(* pps_balance decides among the packets that may be skipped.              *)
MaySkip(n, imp) == dropcount < MAX_DROPCOUNT /\ ~DontDrop(n, imp)

CL_SendCmd(impulse) ==
    /\ outgoing_sequence <= MaxSequence
    /\ impulses' = IF impulse THEN impulses \cup {outgoing_sequence}
                              ELSE impulses
    /\ \/ /\ sent' = sent \cup {outgoing_sequence}
          /\ dropcount' = 0
       \/ /\ MaySkip(outgoing_sequence, impulses')
          /\ dropcount' = dropcount + 1
          /\ UNCHANGED sent
    /\ outgoing_sequence' = outgoing_sequence + 1
    /\ UNCHANGED <<server, paused>>

-----------------------------------------------------------------------------
(* The server.                                                             *)

(* Mutant of Carried: a lost move is run from the next packet only.        *)
Carried_One(n, dropped) == IF dropped > 0 THEN {n - 1, n} ELSE {n}

(* The moves of packet n that are run: oldest, oldcmd, newcmd.             *)
Carried(n, dropped) ==
    {n} \cup (IF dropped > 0 THEN {n - 1} ELSE {})
        \cup (IF dropped > 1 THEN {n - 2} ELSE {})

(* Mutant of Replays: net_drop counts the moves still in the packet.       *)
Replays_TooMany(dropped) ==
    IF dropped > 2 /\ dropped < MAX_NET_DROP THEN dropped ELSE 0

(* How often lastcmd is run for the moves that are gone.                   *)
Replays(dropped) ==
    IF dropped > 2 /\ dropped < MAX_NET_DROP THEN dropped - 2 ELSE 0

SV_ExecuteClientMove(n, dropped) ==
    IF paused THEN UNCHANGED <<runs, replays>>
    ELSE /\ runs' = [m \in Move |->
                        IF m \in Carried(n, dropped) THEN runs[m] + 1
                                                     ELSE runs[m]]
         /\ replays' = [replays EXCEPT ![lastcmd] = @ + Replays(dropped)]

(* Mutant of Stale: duplicates are taken.                                  *)
Stale_Older(n) == n < incoming_sequence

Stale(n) == n <= incoming_sequence

(* clc_move, in a packet that the channel takes.                           *)
SV_ExecuteClientMessage(n) ==
    /\ n \in sent /\ ~Stale(n)
    /\ SV_ExecuteClientMove(n, n - (incoming_sequence + 1))
    /\ incoming_sequence' = n
    /\ lastcmd' = n
    /\ accepted' = [accepted EXCEPT ![n] = IF paused THEN "paused" ELSE "run"]
    /\ UNCHANGED <<client, paused>>

SV_TogglePause ==
    /\ paused' = ~paused
    /\ UNCHANGED <<client, server>>

MovesNext ==
    \/ \E impulse \in BOOLEAN : CL_SendCmd(impulse)
    \/ \E n \in Move : SV_ExecuteClientMessage(n)
    \/ SV_TogglePause

MovesSpec == MovesInit /\ [][MovesNext]_moveVars

-----------------------------------------------------------------------------
(* Properties.                                                             *)

(* Types; the client skips no more packets than it may, as CL_SendCmd says *)
(* ("never drop more than 2 messages in a row -- that'll cause PL").       *)
MovesTypeOK ==
    /\ outgoing_sequence \in 1 .. MaxSequence + 1
    /\ impulses \subseteq Move /\ sent \subseteq Move
    /\ dropcount \in 0 .. MAX_DROPCOUNT
    /\ paused \in BOOLEAN
    /\ incoming_sequence \in 0 .. MaxSequence
    /\ lastcmd \in 0 .. MaxSequence
    /\ accepted \in [Move -> {"no", "run", "paused"}]
    /\ runs \in [Move -> Nat]
    /\ replays \in [0 .. MaxSequence -> Nat]

(* No move is run twice from the packets, however they are lost, repeated  *)
(* or overtaken, and though each is in three of them.                      *)
OnceEach == \A n \in Move : runs[n] <= 1

(* A move that passed without being run was in no packet that arrived, or  *)
(* in one that came during a pause: two lost or skipped packets in a row   *)
(* cost nothing.                                                           *)
TwoLossesRecovered ==
    \A n \in Move, m \in Move :
        /\ n <= incoming_sequence /\ runs[n] = 0
        /\ n <= m /\ m <= n + 2 /\ accepted[m] = "run"
        => \E k \in Move : n <= k /\ k < m /\ accepted[k] = "paused"

(* Without a loss in the network skipped packets cost no move: of three    *)
(* packets in a row one is sent.                                           *)
EveryMoveSent ==
    \A n \in Move : n + MAX_DROPCOUNT < outgoing_sequence
                    => \E m \in sent : n <= m /\ m <= n + MAX_DROPCOUNT

(* Made-up moves never gain a player time: no more moves are run than the  *)
(* client made up to the last packet that arrived.                         *)
NotFaster ==
    SumFunction(runs) + SumFunction(replays) <= incoming_sequence

(* cl_c2sImpulseBackup is the number of packets that carry an impulse: of  *)
(* the three that can, as many are sent, or all if more are wanted.        *)
Wanted == IF cl_c2sImpulseBackup < 3 THEN cl_c2sImpulseBackup ELSE 3

ImpulseBackedUp ==
    MovesTypeOK /\ \A n \in impulses :
        n + 2 < outgoing_sequence
        => Cardinality(sent \cap n .. n + 2) >= Wanted

(* "avoid multiple fires on lag": a move that is run again for lost ones   *)
(* repeats no action of the player, impulse or button.  It does not hold:  *)
(* only the buttons of the move that is kept are cleared.                  *)
NoActionTwice ==
    \A n \in impulses : runs[n] + replays[n] <= 1

=============================================================================
