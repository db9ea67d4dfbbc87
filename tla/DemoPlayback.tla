--------------------------- MODULE DemoPlayback ---------------------------
(***************************************************************************)
(* Playback of a QWD or MVD file that was read into memory, with jumps:    *)
(* CL_GetDemoMessage of cl_demo.c and the commands that move cls.demotime. *)
(* A jump only sets the clock; the next frame reads on up to it, or, when  *)
(* it lies behind, starts the file over.  Times are integers; a message is *)
(* the time since the one before it and what it does to the playback.      *)
(***************************************************************************)
EXTENDS Integers, Sequences, FiniteSets, FiniteSetsExt

CONSTANTS
    Demos,       \* the files: sequences of messages
    Second,      \* a second
    ServerTime,  \* the server's clock when an MVD begins
    LeftTimes,   \* the times an earlier demo may have left in demopackettime
    JumpRewind,  \* -demo_jump_rewind: how far to go back from a mark
    MaxClock,    \* bound: the clock is not set beyond it
    MaxJumps     \* bound: jumps of the user

ASSUME DemoAssumption ==
    /\ LeftTimes \cup {ServerTime, JumpRewind, MaxClock, MaxJumps} \subseteq Nat
    /\ Second \in Nat \ {0}
    /\ \A f \in Demos : f \in Seq([since : Nat, kind : STRING])

VARIABLES
    played, mvd, \* the file and whether it is an MVD
    cls,         \* what cls, cl and cl_demo.c know of the playback
    demo_paused, \* PAUSED_DEMO of cl.paused: the user's pause
    kept,        \* history: demopackettime when the file was last begun
    asked,       \* history: the time the last jump named, since demostarttime
    clean,       \* history: nothing known to bend that jump has happened
    jumps        \* history: how many jumps there were

playVars == <<played, mvd, cls, demo_paused, kept, asked, clean, jumps>>

(* CL_DemoPlaybackInit, at the start of the file.  It does not reset        *)
(* demopackettime: a demo begins with the time t of the one before it.      *)
Fresh(t) ==
    [pos |-> 1, state |-> "demostart", demotime |-> 0, demostarttime |-> -1,
     nextdemotime |-> 0, demopackettime |-> t, paused |-> FALSE,
     demoseeking |-> "none", demorewinding |-> FALSE, demo_rewindtime |-> 0,
     skipframe |-> FALSE, at |-> "drawn"]

PlayInit ==
    /\ played \in Demos /\ mvd \in BOOLEAN
    /\ kept \in LeftTimes /\ cls = Fresh(kept) /\ demo_paused = FALSE
    /\ asked = 0 /\ clean = TRUE /\ jumps = 0

Playing(d) == d.state \in {"demostart", "onserver", "active"}
Active(d) == d.state = "active"
Seeking(d) == d.demoseeking # "none"

(* CL_Frame: the clock runs, slower or faster by cl_demospeed, unless the  *)
(* user has paused it or host_skipframe is set; then commands are executed *)
(* and messages read.                                                      *)
Frame ==
    /\ cls.at = "drawn" /\ Playing(cls)
    /\ \E dt \in 0 .. 1 :
          /\ cls.demotime + dt <= MaxClock
          /\ demo_paused => dt = 0
          /\ cls' = [cls EXCEPT !.demotime = IF cls.skipframe THEN @ ELSE @ + dt,
                             !.skipframe = FALSE, !.at = "commands"]
    /\ UNCHANGED <<played, mvd, demo_paused, kept, asked, clean, jumps>>

CL_Pause_f ==
    /\ cls.at = "commands" /\ Playing(cls)
    /\ demo_paused' = ~demo_paused
    /\ UNCHANGED <<played, mvd, cls, kept, asked, clean, jumps>>

---------------------------------------------------------------------------
(* The times of the messages, played from the start of the file: each is   *)
(* counted from the one before it, after svc_serverdata from the server's, *)
(* the first of an MVD from the time t that is kept.                       *)
CountedFrom(f, m, k, t) ==
    IF k > 0 /\ m /\ f[k].kind = "serverdata" THEN Max({t, ServerTime}) ELSE t

TimesOf(f, m, t) ==
    LET at[k \in 0 .. Len(f)] ==
            IF k = 0 THEN t
            ELSE CountedFrom(f, m, k - 1, at[k - 1]) + f[k].since
    IN  at

TimeFrom(t, i) == TimesOf(played, mvd, IF mvd THEN t ELSE 0)[i]

Time(i) == TimeFrom(kept, i)

Unread == {i \in DOMAIN played : i >= cls.pos}
ReadSoFar == {i \in DOMAIN played : i < cls.pos}

---------------------------------------------------------------------------
(* Jumps.                                                                  *)

(* CL_Demo_Jump                                                            *)
CL_Demo_Jump(d, newdemotime, seeking) ==
    [d EXCEPT !.demo_rewindtime =
                  IF newdemotime < d.demotime THEN newdemotime - d.demostarttime
                                              ELSE @,
              !.demotime = newdemotime, !.demoseeking = seeking]

(* Mutant: the time of the last message is kept.                           *)
Restarted_Kept(d) ==
    [Fresh(d.demopackettime)
        EXCEPT !.paused = d.paused, !.demoseeking = d.demoseeking,
               !.demo_rewindtime = d.demo_rewindtime,
               !.skipframe = d.skipframe, !.at = d.at, !.demorewinding = TRUE]

(* Starts the file over.  What cl holds goes with the next svc_serverdata. *)
Restarted(d) ==
    [Fresh(0) EXCEPT !.paused = d.paused, !.demoseeking = d.demoseeking,
                     !.demo_rewindtime = d.demo_rewindtime,
                     !.skipframe = d.skipframe, !.at = d.at,
                     !.demorewinding = TRUE]

(* Mutant: a rewind under way is not seen.                                 *)
NeedsRewind_Again(d) == Seeking(d) /\ d.demotime < d.nextdemotime

NeedsRewind(d) == Seeking(d) /\ ~d.demorewinding /\ d.demotime < d.nextdemotime

(* Once the level is there again, the clock is set to where to go to.      *)
CL_Demo_Check_For_Rewind(d) ==
    LET r == IF NeedsRewind(d) THEN Restarted(d) ELSE d
    IN  IF r.demorewinding /\ Active(r)
        THEN [r EXCEPT !.demotime = r.demostarttime + r.demo_rewindtime,
                       !.demoseeking = "normal"]
        ELSE r

Rewinds(t) == t < cls.nextdemotime /\ t < cls.demotime
LiesBehind(t) ==
    t < cls.nextdemotime \/ \E i \in ReadSoFar : Time(i) > Max({t, cls.demostarttime})

FirstLevel == Cardinality({i \in ReadSoFar : played[i].kind = "serverdata"}) = 1

JumpTo(newdemotime, seeking) ==
    /\ cls.at = "commands" /\ Active(cls) /\ jumps < MaxJumps
    /\ cls' = CL_Demo_Jump(cls, newdemotime, seeking)
    /\ asked' = newdemotime - cls.demostarttime
    /\ clean' = /\ clean /\ ~Seeking(cls) /\ FirstLevel
                /\ Rewinds(newdemotime) = LiesBehind(newdemotime)
    /\ jumps' = jumps + 1
    /\ UNCHANGED <<played, mvd, demo_paused, kept>>

(* Relative or from the beginning, any time may be named.                  *)
CL_Demo_Jump_f == \E t \in -1 .. MaxClock : JumpTo(t, "normal")

(* "as far as possible, we have NO idea about time, we search MARK"        *)
CL_Demo_Jump_Mark == JumpTo(MaxClock, "mark")

---------------------------------------------------------------------------
(* Reading.                                                                *)

AtEnd(d) == d.pos > Len(played)

(* An MVD's messages say the time since the last, those of a QWD the time. *)
CL_PeekDemoTime(d) ==
    IF mvd THEN d.demopackettime + played[d.pos].since ELSE TimeFrom(0, d.pos)

Peeked(d, t) ==
    [d EXCEPT !.nextdemotime =
        IF IF mvd THEN d.demotime > @ /\ @ # t ELSE t < d.demotime
        THEN t ELSE @]

(* An MVD's clock is never more than a second behind the next message.     *)
Adjusted(d) ==
    IF ~mvd THEN d
    ELSE [d EXCEPT !.demopackettime = Max({@, d.nextdemotime}),
                   !.demotime = Max({@, d.nextdemotime - Second})]

(* There the time of an MVD moves on to a message that was only peeked at, *)
(* when a jump comes between a mark that was found and the rewind to it.   *)
Drifts(d) ==
    /\ mvd /\ d.demopackettime < d.nextdemotime
    /\ ~(d.pos > 1 /\ played[d.pos - 1].kind = "serverdata")

(* "If we've reached our seek goal, stop seeking."                         *)
AtGoal(d, t) ==
    IF Seeking(d) /\ d.demotime <= t /\ Active(d)
    THEN [d EXCEPT !.demoseeking = "none", !.demorewinding = FALSE]
    ELSE d

Found(d) == d.demoseeking = "found"

(* Not before fully connected, nor while the server is paused, is there a  *)
(* reason to wait: "We're warping."                                        *)
Warps(d) == d.paused \/ ~Active(d)

(* Mutant: the second a clock may be behind is taken for the time to wait. *)
TooEarly_Second(d, t) ==
    ~Warps(d) /\ (IF mvd THEN d.nextdemotime < t ELSE d.demotime + Second < t)

TooEarly(d, t) ==
    ~Warps(d) /\ (IF mvd THEN d.nextdemotime < t ELSE d.demotime < t)

(* What CL_DemoShouldWeReadNextMessage makes of the clock.                 *)
Timed(d, t) ==
    IF Warps(d) THEN [d EXCEPT !.demotime = t]
    ELSE IF ~mvd /\ d.demotime + Second < t
    THEN [d EXCEPT !.demotime = t - Second]
    ELSE d

CL_MakeActive(d) ==
    [d EXCEPT !.state = "active", !.skipframe = TRUE,
              !.demostarttime = d.demotime]

CL_StopPlayback(d) == [Fresh(d.demopackettime) EXCEPT !.state = "none"]

CL_ParseServerData(d) ==
    [d EXCEPT !.state = "onserver", !.paused = FALSE,
              !.nextdemotime = IF mvd THEN ServerTime ELSE @]

CL_ParseStufftext(d) ==    \* "//demomark"
    [d EXCEPT !.demoseeking = IF @ = "mark" THEN "found" ELSE @]

Disconnected(d) == IF d.state = "demostart" THEN d ELSE CL_StopPlayback(d)

(* The first entities of a level (CL_ParsePacketEntities).                 *)
Entities(d) == IF d.state = "onserver" THEN CL_MakeActive(d) ELSE d

(* CL_ParseServerMessage, as far as it concerns the playback.              *)
Parsed(d) ==
    LET e == [d EXCEPT !.pos = @ + 1]
    IN  CASE played[d.pos].kind = "serverdata" -> CL_ParseServerData(e)
          [] played[d.pos].kind = "entities" -> Entities(e)
          [] played[d.pos].kind = "mark" -> CL_ParseStufftext(e)
          [] played[d.pos].kind = "disconnect" -> Disconnected(e)
          [] OTHER -> [e EXCEPT !.paused = played[d.pos].kind = "pause"]

(* "Demo paused, don't read anything."                                     *)
ReadPaused ==
    /\ cls.at = "commands" /\ demo_paused
    /\ cls' = [cls EXCEPT !.at = "drawn"]
    /\ UNCHANGED <<played, mvd, demo_paused, kept, asked, clean, jumps>>

(* One turn of CL_ReadPackets: CL_GetDemoMessage and what is done with the *)
(* message.                                                                *)
Read ==
    /\ cls.at \in {"commands", "reading"} /\ ~demo_paused
    /\ LET r == CL_Demo_Check_For_Rewind(cls)
           a == Adjusted(r)
           t == CL_PeekDemoTime(a)
           b == Peeked(a, t)
           c == IF Found(b) THEN [b EXCEPT !.demotime = t] ELSE b
           g == AtGoal(c, t)
       IN  /\ cls' = IF AtEnd(a)
                       THEN [a EXCEPT !.at = "drawn"]
                     ELSE IF Found(b) /\ JumpRewind > 0
                       THEN [CL_Demo_Jump(c, t - JumpRewind, "normal")
                                 EXCEPT !.at = "drawn"]
                     ELSE IF TooEarly(g, t)
                       THEN [Timed(g, t) EXCEPT !.at = "drawn"]
                     ELSE Parsed([Timed(g, t) EXCEPT !.at = "reading",
                                                       !.demopackettime = t])
           /\ kept' = IF NeedsRewind(cls) THEN 0 ELSE kept
           /\ asked' = IF ~AtEnd(a) /\ Found(b)
                         THEN t - JumpRewind - a.demostarttime ELSE asked
           /\ clean' = (/\ clean /\ ~Drifts(r)
                        /\ Seeking(a) /\ ~a.demorewinding => ~Warps(a))
    /\ UNCHANGED <<played, mvd, demo_paused, jumps>>

PlayNext ==
    Frame \/ CL_Pause_f \/ CL_Demo_Jump_f \/ CL_Demo_Jump_Mark \/ ReadPaused \/ Read

PlaySpec == PlayInit /\ [][PlayNext]_playVars

(* The client runs its frames, and a frame reads to its end.               *)
PlayFairSpec ==
    PlaySpec /\ WF_playVars(Frame) /\ WF_playVars(ReadPaused) /\ WF_playVars(Read)

---------------------------------------------------------------------------
PlayTypeOK ==
    /\ cls.pos \in 1 .. Len(played) + 1
    /\ cls.state \in {"demostart", "onserver", "active", "none"}
    /\ {cls.demotime, cls.demostarttime, cls.nextdemotime, cls.demopackettime,
        cls.demo_rewindtime} \subseteq Int
    /\ cls.demoseeking \in {"none", "normal", "mark", "found"}
    /\ {cls.paused, cls.demorewinding, cls.skipframe, demo_paused} \subseteq BOOLEAN
    /\ cls.at \in {"drawn", "commands", "reading"}

(* Does not hold (Drifts): the time of the message of an MVD that was read *)
(* last is the file's, counted from the time it was begun with, whatever   *)
(* the jumps.                                                              *)
AlwaysKeepsTime ==
    mvd /\ cls.at = "reading" => cls.demopackettime = Time(cls.pos - 1)

(* The time of a message of an MVD is what the file says, counted from the *)
(* time it was begun with: "Save the previous time for MVD playback (for   *)
(* the next message), it is needed to calculate the demotime"              *)
(* (CL_GetDemoMessage).                                                    *)
KeepsTime == clean => AlwaysKeepsTime

(* Does not hold: nor is that the time a first demo has.  The clock of an  *)
(* MVD that is begun with a later time than its server's runs ahead by the *)
(* difference, all of it alike, until it is rewound.                       *)
ServersTime ==
    mvd /\ clean /\ cls.at = "reading" => cls.demopackettime = TimeFrom(0, cls.pos - 1)

(* While a demo plays nothing is left behind and nothing shown too early:  *)
(* after a frame every message up to the clock has been read, and of those *)
(* ahead an MVD has read the next ones only, which it interpolates towards.*)
(* At any moment the times it goes by are those of the file, counted from  *)
(* what the demo before it left; from the server's when that is earlier.   *)
PlaysOnTime ==
    /\ PlayTypeOK /\ KeepsTime
    /\ cls.at = "drawn" /\ Active(cls) /\ ~Seeking(cls) /\ ~cls.paused
       /\ ~demo_paused /\ clean
       => /\ \A i \in Unread : cls.demotime < Time(i)
          /\ \A i \in ReadSoFar :
                Time(i) > Max({cls.demotime, cls.demostarttime})
                => mvd /\ Time(i) = cls.nextdemotime

Goal == cls.demostarttime + Max({asked, 0})

(* "Jumps to a specified time in a demo": a seek ends with all read that   *)
(* comes before the time and nothing that comes after it, also when the    *)
(* way there is through the start of the file and its times are others now.*)
Landed ==
    /\ \A i \in Unread : Time(i) >= Goal
    /\ \A i \in ReadSoFar : Time(i) > Goal => mvd /\ Time(i) = cls.nextdemotime

SeekLands ==
    [][Seeking(cls) /\ ~Seeking(cls)' /\ Active(cls)' /\ clean' => Landed']_playVars

(* A seek ends, forward or back, unless the file is cut off or the user    *)
(* goes on pausing.                                                        *)
WholeFile == played[Len(played)].kind = "disconnect"

SeekEnds ==
    WholeFile /\ <>[]~demo_paused => (Seeking(cls) ~> ~Seeking(cls))

===========================================================================
