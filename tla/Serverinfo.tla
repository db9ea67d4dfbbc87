---------------------------- MODULE Serverinfo ----------------------------
(***************************************************************************)
(* The panel of the server browser that shows one server (EX_browser.c)    *)
(* and the threads beside it (EX_browser_net.c): the one Serverinfo_Start  *)
(* creates asks the server again every second and replaces what is known   *)
(* of it; the refresh of the whole list does the same for every server.    *)
(* The main thread draws what is known, serverinfo_semaphore is to keep    *)
(* drawing and replacing apart.                                            *)
(*                                                                         *)
(* Each step is what a thread does between two points at which another can *)
(* get in.  The POSIX semaphore is modelled: destroying it does nothing,   *)
(* initialising it again sets its count.                                   *)
(***************************************************************************)
EXTENDS Naturals, FiniteSets

CONSTANTS
  Servers,    \* servers of the list
  Updaters,   \* threads AutoupdateProc may run in
  None,       \* NULL
  MaxOpens    \* bound: times the panel is opened

ASSUME NoneAssumption == None \notin Servers
ASSUME ThreadAssumption ==
  MaxOpens \in Nat /\ IsFiniteSet(Updaters) /\ MaxOpens <= Cardinality(Updaters)

VARIABLES
  show_serverinfo,        \* the server the panel shows
  autoupdate_serverinfo,  \* whether updaters are to go on
  autoupdate_server,      \* the server they ask
  semaphore,              \* count of serverinfo_semaphore
  server_during_update,
  main,                   \* where the main thread is
  updater,                \* where each updater is, and its serv
  refreshing,             \* the server GetServerInfosProc replaces
  opens

shared == <<show_serverinfo, autoupdate_serverinfo, autoupdate_server>>
panelVars == <<show_serverinfo, autoupdate_serverinfo, autoupdate_server,
               semaphore, server_during_update, main, updater, refreshing, opens>>

PanelInit ==
  /\ show_serverinfo = None
  /\ autoupdate_serverinfo = FALSE
  /\ autoupdate_server = None
  /\ semaphore = 0
  /\ server_during_update = FALSE
  /\ main = "idle"
  /\ updater = [u \in Updaters |-> [at |-> "off", serv |-> None]]
  /\ refreshing = None
  /\ opens = 0

---------------------------------------------------------------------------
(* The main thread, between frames. *)

\* Serverinfo_Start, with the Serverinfo_Stop and Start_Autoupdate in it.
Open(s) ==
  /\ main = "idle"
  /\ opens < MaxOpens
  /\ \E u \in Updaters :
       /\ updater[u].at = "off"
       /\ updater' = [updater EXCEPT ![u].at = "loop"]
  /\ show_serverinfo' = s
  /\ autoupdate_serverinfo' = TRUE
  /\ autoupdate_server' = s
  /\ semaphore' = 1
  /\ opens' = opens + 1
  /\ UNCHANGED <<server_during_update, main, refreshing>>

\* Serverinfo_Change: another server in the panel that is open.
Change(s) ==
  /\ main = "idle"
  /\ show_serverinfo # None
  /\ show_serverinfo' = s
  /\ autoupdate_server' = s
  /\ UNCHANGED <<autoupdate_serverinfo, semaphore, server_during_update, main,
                 updater, refreshing, opens>>

\* A variation of Stop: the updaters are not told.
Stop_Untold ==
  /\ main = "idle"
  /\ show_serverinfo # None
  /\ show_serverinfo' = None
  /\ UNCHANGED <<autoupdate_serverinfo, autoupdate_server, semaphore,
                 server_during_update, main, updater, refreshing, opens>>

\* Serverinfo_Stop.
Stop ==
  /\ main = "idle"
  /\ show_serverinfo # None
  /\ show_serverinfo' = None
  /\ autoupdate_serverinfo' = FALSE
  /\ UNCHANGED <<autoupdate_server, semaphore, server_during_update, main,
                 updater, refreshing, opens>>

(* The main thread in a frame: the status line of the list, then the panel. *)

\* SB_Servers_Draw waits for the semaphore, if the list has a status line.
DrawStatus ==
  /\ main = "idle"
  /\ show_serverinfo # None
  /\ semaphore > 0
  /\ semaphore' = semaphore - 1
  /\ main' = "status"
  /\ UNCHANGED <<shared, server_during_update, updater, refreshing, opens>>

StatusDrawn ==
  /\ main = "status"
  /\ semaphore' = semaphore + 1
  /\ main' = "polling"
  /\ UNCHANGED <<shared, server_during_update, updater, refreshing, opens>>

NoStatus ==
  /\ main = "idle"
  /\ show_serverinfo # None
  /\ main' = "polling"
  /\ UNCHANGED <<shared, semaphore, server_during_update, updater, refreshing,
                 opens>>

\* Serverinfo_Draw sleeps while server_during_update, then draws the name.
DrawName ==
  /\ main = "polling"
  /\ ~server_during_update
  /\ main' = "named"
  /\ UNCHANGED <<shared, semaphore, server_during_update, updater, refreshing,
                 opens>>

\* Serverinfo_Draw waits for the semaphore and draws players, rules or sources.
DrawPanel ==
  /\ main = "named"
  /\ semaphore > 0
  /\ semaphore' = semaphore - 1
  /\ main' = "panel"
  /\ UNCHANGED <<shared, server_during_update, updater, refreshing, opens>>

PanelDrawn ==
  /\ main = "panel"
  /\ semaphore' = semaphore + 1
  /\ main' = "idle"
  /\ UNCHANGED <<shared, server_during_update, updater, refreshing, opens>>

---------------------------------------------------------------------------
(* AutoupdateProc. *)

Goes(u, from, to) ==
  /\ updater[u].at = from
  /\ updater' = [updater EXCEPT ![u].at = to]

\* The loop's condition; it is too early to ask, or the menu is not up.
Sleep(u) ==
  /\ updater[u].at = "loop"
  /\ updater' = [updater EXCEPT ![u].at =
                   IF autoupdate_serverinfo THEN "awake" ELSE "off"]
  /\ UNCHANGED <<shared, semaphore, server_during_update, main, refreshing,
                 opens>>

Early(u) ==
  /\ Goes(u, "awake", "loop")
  /\ UNCHANGED <<shared, semaphore, server_during_update, main, refreshing,
                 opens>>

\* A variation of Wait: the semaphore is not waited for.
Wait_Not(u) ==
  /\ Goes(u, "awake", "in")
  /\ UNCHANGED <<shared, semaphore, server_during_update, main, refreshing,
                 opens>>

Wait(u) ==
  /\ Goes(u, "awake", "in")
  /\ semaphore > 0
  /\ semaphore' = semaphore - 1
  /\ UNCHANGED <<shared, server_during_update, main, refreshing, opens>>

\* serv is read, and GetServerInfo asks it.
Ask(u) ==
  /\ updater[u].at = "in"
  /\ updater' = [updater EXCEPT ![u] = [at |-> "asked", serv |-> autoupdate_server]]
  /\ UNCHANGED <<shared, semaphore, server_during_update, main, refreshing,
                 opens>>

\* A variation of NoAnswer: the semaphore is kept.
NoAnswer_Keep(u) ==
  /\ Goes(u, "asked", "loop")
  /\ UNCHANGED <<shared, semaphore, server_during_update, main, refreshing,
                 opens>>

\* The request cannot be sent, or the answer does not come in time.
NoAnswer(u) ==
  /\ Goes(u, "asked", "done")
  /\ UNCHANGED <<shared, semaphore, server_during_update, main, refreshing,
                 opens>>

\* The answer: Reset_Server and Parse_Serverinfo, in the middle of them.
Answer(u) ==
  /\ Goes(u, "asked", "parsing")
  /\ server_during_update' = TRUE
  /\ UNCHANGED <<shared, semaphore, main, refreshing, opens>>

Parsed(u) ==
  /\ Goes(u, "parsing", "done")
  /\ server_during_update' = FALSE
  /\ UNCHANGED <<shared, semaphore, main, refreshing, opens>>

Post(u) ==
  /\ Goes(u, "done", "loop")
  /\ semaphore' = semaphore + 1
  /\ UNCHANGED <<shared, server_during_update, main, refreshing, opens>>

\* GetServerInfosProc, in the thread of a refresh, resets a server or parses an
\* answer of it.
RefreshAnswer(s) ==
  /\ refreshing = None
  /\ refreshing' = s
  /\ UNCHANGED <<shared, semaphore, server_during_update, main, updater, opens>>

RefreshParsed ==
  /\ refreshing # None
  /\ refreshing' = None
  /\ UNCHANGED <<shared, semaphore, server_during_update, main, updater, opens>>

---------------------------------------------------------------------------
Draw == DrawStatus \/ StatusDrawn \/ NoStatus \/ DrawName \/ DrawPanel \/ PanelDrawn

UpdaterStep(u) ==
  \/ Sleep(u) \/ Early(u) \/ Wait(u) \/ Ask(u) \/ NoAnswer(u)
  \/ Answer(u) \/ Parsed(u) \/ Post(u)

PanelNext ==
  \/ \E s \in Servers : Open(s) \/ Change(s)
  \/ Stop
  \/ Draw
  \/ \E u \in Updaters : UpdaterStep(u)
  \/ \E s \in Servers : RefreshAnswer(s)
  \/ RefreshParsed

PanelSpec == PanelInit /\ [][PanelNext]_panelVars

\* Threads run.  An updater sleeps a second between two takes of the
\* semaphore while the main thread only waits for it, or polls every 5 ms: a
\* frame that is let through again and again gets through.
PanelFairSpec ==
  /\ PanelSpec
  /\ WF_panelVars(StatusDrawn) /\ SF_panelVars(DrawName)
  /\ SF_panelVars(DrawPanel) /\ WF_panelVars(PanelDrawn)
  /\ \A u \in Updaters : WF_panelVars(UpdaterStep(u))
  /\ WF_panelVars(RefreshParsed)

---------------------------------------------------------------------------
(* Properties. *)

\* The state's types.
PanelTypeOK ==
  /\ show_serverinfo \in Servers \cup {None}
  /\ autoupdate_server \in Servers \cup {None}
  /\ autoupdate_serverinfo \in BOOLEAN /\ server_during_update \in BOOLEAN
  /\ semaphore \in 0 .. MaxOpens + 1
  /\ main \in {"idle", "status", "polling", "named", "panel"}
  /\ updater \in [Updaters ->
       [at : {"off", "loop", "awake", "in", "asked", "parsing", "done"},
        serv : Servers \cup {None}]]
  /\ refreshing \in Servers \cup {None}
  /\ opens \in 0 .. MaxOpens

\* What is being drawn: the server of the panel, or the one the list is at.
Drawn == CASE main = "panel" -> {show_serverinfo}
           [] main = "status" -> Servers
           [] OTHER -> {}

\* s is being reset and parsed by an updater.
Replaced(s) == \E u \in Updaters : updater[u].at = "parsing" /\ updater[u].serv = s

\* The updaters between sem_wait and sem_post, and the main thread there.
Held == {"in", "asked", "parsing", "done"}
Holders == {u \in Updaters : updater[u].at \in Held}
Holding == IF main \in {"status", "panel"} THEN 1 ELSE 0

\* Every opening gives the semaphore one more that may hold it: its count is
\* set to one whoever is in.
Tokens == semaphore + Holding + Cardinality(Holders) <= opens

\* However the panel is opened, closed and opened again, no more threads are
\* under the semaphore, or may still get it, than it was opened times.  One
\* opening keeps drawing and replacing apart: what is drawn no updater replaces
\* meanwhile, whatever the panel is changed to while the updater waits for its
\* answer (AutoupdateProc, SB_Servers_Draw, Serverinfo_Draw).  After two it
\* may: Serverinfo_Start sets the count again while an old thread is in.
DrawsWhole ==
  /\ PanelTypeOK /\ Tokens
  /\ opens <= 1 => \A s \in Drawn : ~Replaced(s)

\* Nor does the refresh of the list, which takes no semaphore: does not hold.
DrawsNoRefresh == refreshing \notin Drawn

\* There is one thread that updates the panel, however it is left and opened:
\* does not hold, Serverinfo_Start may set the flag back before the old thread
\* has seen that it was cleared.
SingleUpdater == Cardinality({u \in Updaters : updater[u].at # "off"}) <= 1

\* A panel that stays closed has no updater left in the end: whatever the
\* thread was doing when it was closed, Serverinfo_Stop reaches it.
UpdatersEnd ==
  (<>[](show_serverinfo = None)) => <>[](\A u \in Updaters : updater[u].at = "off")

\* A frame that has begun is drawn to its end: no update, no reopening and no
\* missing answer leaves the main thread waiting for ever.
FrameEnds == main # "idle" ~> main = "idle"

\* Nobody is left running or waiting.
AllEnd == UpdatersEnd /\ FrameEnds
=============================================================================
