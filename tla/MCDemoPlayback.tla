-------------------------- MODULE MCDemoPlayback --------------------------
(* The files TLC plays. *)
EXTENDS DemoPlayback

File(kinds, times) ==
    [i \in DOMAIN kinds |-> [since |-> times[i], kind |-> kinds[i]]]

Plain == File(<<"serverdata", "entities", "entities", "mark", "entities", "entities", "disconnect">>,
              <<0, 1, 1, 1, 2, 0, 1>>)
Paused == File(<<"serverdata", "entities", "pause", "entities", "unpause", "entities", "disconnect">>,
               <<0, 1, 1, 1, 1, 1, 1>>)
Levels == File(<<"serverdata", "entities", "entities", "serverdata", "entities", "entities", "disconnect">>,
               <<0, 1, 1, 1, 1, 1, 1>>)
CutOff == SubSeq(Plain, 1, 6)

Files == {Plain, Paused, Levels, CutOff}
===========================================================================
