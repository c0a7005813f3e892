--------------------------- MODULE WindowTracking ---------------------------
(***************************************************************************)
(* How the reactor learns which windows there are.                          *)
(*                                                                         *)
(* Three sources tell it, each on a thread of its own: the window server    *)
(* (one thread per kind of event, silent while displays are reconfigured),  *)
(* the application's thread (which hears of its windows from Accessibility  *)
(* and lists them on request), and snapshots of the displays.  During a     *)
(* reconfiguration, until a snapshot after its end has been applied, the    *)
(* reactor drops what the first two say; the snapshot is to make up for it. *)
(*                                                                         *)
(* Abstracted: one application, whose windows are ordinary, visible and on  *)
(* a space that is shown; the notification centre is the sequence of events *)
(* DisplayChurn shows it to send, with complete snapshots.  Two windows do  *)
(* not share an id.  discover's removal of stale windows removes none here: *)
(* it concerns windows that the window server still has on a shown space    *)
(* (window_discovery.rs:185-219).                                           *)
(***************************************************************************)
EXTENDS Naturals, Sequences, FiniteSets, SequencesExt

CONSTANTS
  Windows,
  MaxChurns  \* bound on reconfigurations

VARIABLES
  app, alive, born,            \* the application and its windows
  ACTIVE, owed, churns,        \* notification centre: in a churn, snapshot due
  notices,                     \* notifications not delivered yet
  thread, elements, requests,  \* the application's thread
  channel,                     \* the reactor's channel
  topology, pre_known,         \* reactor: DisplayTopologyManager
  known, windows,              \* reactor: application, WindowRegistry
  tracked, info, observed,     \*   ids that name a window, have server info,
                               \*   were observed
  dropped, late                \* history: windows whose WindowDestroyed was dropped
                               \*   and not made up for; that came in a quarantine

worldVars == <<app, alive, born>>
threadVars == <<thread, elements>>
registryVars == <<known, windows, tracked, info, observed>>
centreVars == <<ACTIVE, owed, churns>>
reactorVars == <<topology, pre_known, registryVars, dropped, late>>
vars == <<worldVars, centreVars, notices, threadVars, requests, channel, reactorVars>>

Note(kind, w) == [kind |-> kind, window |-> w]
Event(op) == [op |-> op]
About(op, w) == [op |-> op, window |-> w]
Listed(S) == [op |-> "Discovered", windows |-> S]

(***************************************************************************)
(* The application and the window server                                   *)
(***************************************************************************)
Launch ==
  /\ app = "none"
  /\ app' = "running"
  /\ thread' = "starting"
  /\ UNCHANGED <<alive, born, centreVars, notices, elements, requests, channel,
                 reactorVars>>

Open(w) ==
  /\ app = "running" /\ w \notin born
  /\ alive' = alive \cup {w}
  /\ born' = born \cup {w}
  /\ notices' = notices \cup {Note("ServerAppeared", w), Note("Created", w)}
  /\ UNCHANGED <<app, centreVars, threadVars, requests, channel, reactorVars>>

\* Some applications never tell that a window is destroyed (src/src/actor/app.rs:1001);
\* `told` says whether this one does.
Close(w, told) ==
  /\ w \in alive
  /\ alive' = alive \ {w}
  /\ notices' = notices \cup {Note("ServerDestroyed", w)}
                        \cup (IF told THEN {Note("Destroyed", w)} ELSE {})
  /\ UNCHANGED <<app, born, centreVars, threadVars, requests, channel, reactorVars>>

\* The process ends, and the workspace tells the window manager controller.
Quit ==
  /\ app = "running"
  /\ app' = "ended"
  /\ alive' = {}
  /\ notices' = notices \cup {Note("ServerDestroyed", w) : w \in alive}
  /\ channel' = Append(channel, Event("ApplicationTerminated"))
  /\ UNCHANGED <<born, centreVars, threadVars, requests, reactorVars>>

\* WindowNotify::subscribe: the threads of SpaceWindowCreated and SpaceWindowDestroyed.
ServerSays(n) ==
  /\ n \in notices /\ n.kind \in {"ServerAppeared", "ServerDestroyed"}
  /\ notices' = notices \ {n}
  /\ channel' = IF ACTIVE THEN channel ELSE Append(channel, About(n.kind, n.window))
  /\ UNCHANGED <<worldVars, centreVars, threadVars, requests, reactorVars>>

(***************************************************************************)
(* The notification centre                                                 *)
(***************************************************************************)
ChurnBegins ==
  /\ ~ACTIVE /\ churns < MaxChurns
  /\ ACTIVE' = TRUE
  /\ churns' = churns + 1
  /\ channel' = Append(channel, Event("DisplayChurnBegin"))
  /\ UNCHANGED <<worldVars, owed, notices, threadVars, requests, reactorVars>>

ChurnEnds ==
  /\ ACTIVE
  /\ ACTIVE' = FALSE
  /\ owed' = TRUE
  /\ channel' = Append(channel, Event("DisplayChurnEnd"))
  /\ UNCHANGED <<worldVars, churns, notices, threadVars, requests, reactorVars>>

SendSnapshot ==
  /\ owed /\ ~ACTIVE
  /\ owed' = FALSE
  /\ channel' = Append(channel, Event("ScreenParametersChanged"))
  /\ UNCHANGED <<worldVars, ACTIVE, churns, notices, threadVars, requests, reactorVars>>

(***************************************************************************)
(* The application's thread                                                *)
(***************************************************************************)
\* State::init, which fails when the application has ended.
Start ==
  /\ thread = "starting"
  /\ thread' = IF app = "ended" THEN "stopped" ELSE "up"
  /\ elements' = alive
  /\ channel' = IF app = "ended" THEN channel
                ELSE Append(channel, [op |-> "ApplicationLaunched", windows |-> alive])
  /\ UNCHANGED <<worldVars, centreVars, notices, requests, reactorVars>>

\* handle_request: GetVisibleWindows and WindowMaybeDestroyed both list the windows
\* (refresh_visible_windows), Terminate stops the thread, and so does, once it is
\* noticed, the end of the application.
HandleRequest(noticed) ==
  LET r     == requests[1]
      lists == r.op = "GetVisibleWindows" \/ (r.op = "WindowMaybeDestroyed" /\ r.window \in elements)
      stops == r.op = "Terminate" \/ (lists /\ app = "ended" /\ noticed)
  IN  /\ thread = "up" /\ requests # <<>>
      /\ requests' = IF stops THEN <<>> ELSE Tail(requests)
      /\ thread' = IF stops THEN "stopped" ELSE thread
      /\ elements' = IF lists THEN elements \cup alive ELSE elements
      /\ channel' = channel \o (IF lists THEN <<Listed(alive)>> ELSE <<>>)
                           \o (IF stops THEN <<Event("ApplicationThreadTerminated")>> ELSE <<>>)
      /\ UNCHANGED <<worldVars, centreVars, notices, reactorVars>>

\* handle_notification: WindowCreated (register_window fails when the window is
\* gone) and WindowDestroyed.
HandleNotification(n) ==
  LET w       == n.window
      created == n.kind = "Created" /\ w \notin elements /\ w \in alive
      gone    == n.kind = "Destroyed" /\ w \in elements
  IN  /\ thread = "up"
      /\ n \in notices /\ n.kind \in {"Created", "Destroyed"}
      /\ notices' = notices \ {n}
      /\ elements' = IF created THEN elements \cup {w} ELSE IF gone THEN elements \ {w} ELSE elements
      /\ channel' = IF created THEN Append(channel, About("WindowCreated", w))
                    ELSE IF gone THEN Append(channel, About("WindowDestroyed", w)) ELSE channel
      /\ UNCHANGED <<worldVars, centreVars, thread, requests, reactorVars>>

\* handle_notification, MainWindowChanged: remove_stale_windows
RemoveStale ==
  /\ thread = "up" /\ app = "running" /\ elements \ alive # {}
  /\ \E w \in elements \ alive :
       /\ elements' = elements \ {w}
       /\ channel' = Append(channel, About("WindowDestroyed", w))
  /\ UNCHANGED <<worldVars, centreVars, notices, thread, requests, reactorVars>>

(***************************************************************************)
(* The reactor: handlers of `channel[1]`.  A handler that queues an event   *)
(* appends it to what is left of the channel.                               *)
(***************************************************************************)
Rest == Tail(channel)

\* A request reaches the application's thread while the reactor has its handle and
\* the thread runs.
Asked(known_now, q) == IF known_now /\ thread = "up" THEN requests \o q ELSE requests

Refresh == <<Event("GetVisibleWindows")>>
MaybeDestroyed(S) == [i \in 1..Cardinality(S) |-> About("WindowMaybeDestroyed", SetToSeq(S)[i])]
Destroyed(S) == [i \in 1..Cardinality(S) |-> About("WindowDestroyed", SetToSeq(S)[i])]

\* WindowRegistry::remove_window_server_state
Forget(S) ==
  /\ tracked' = tracked \ S
  /\ info' = info \ S
  /\ observed' = observed \ S

\* Windows that the application has listed or created; those in `seen` have info
\* from the window server.
Learn(S, seen, quarantined) ==
  /\ windows' = windows \cup S
  /\ tracked' = tracked \cup S
  /\ info' = info \cup seen
  /\ observed' = observed \ seen
  /\ late' = IF quarantined THEN late \cup (S \ windows) ELSE late

\* handle_window_server_appeared: nothing for a window that is known or was observed,
\* nor for one that is gone.
HandleAppeared(w) ==
  LET new == w \notin info \cup observed
  IN  /\ info' = IF new /\ w \in alive THEN info \cup {w} ELSE info
      /\ observed' = IF new /\ w \notin alive THEN observed \cup {w} ELSE observed
      /\ requests' = IF new /\ w \in alive THEN Asked(known, Refresh) ELSE requests
      /\ channel' = Rest
      /\ UNCHANGED <<known, windows, tracked, topology, pre_known, dropped, late>>

\* handle_window_server_destroyed: the id is forgotten at once, the window by the
\* WindowDestroyed that is queued.
HandleServerDestroyed(w) ==
  /\ Forget({w})
  /\ requests' = IF w \in tracked THEN Asked(known, MaybeDestroyed({w})) ELSE requests
  /\ channel' = IF w \in tracked THEN Append(Rest, About("WindowDestroyed", w)) ELSE Rest
  /\ UNCHANGED <<known, windows, topology, pre_known, dropped, late>>

\* handle_window_created
HandleCreated(w) ==
  /\ Learn({w}, {w}, FALSE)
  /\ channel' = Rest
  /\ UNCHANGED <<known, requests, topology, pre_known, dropped>>

\* handle_window_destroyed
HandleDestroyed(w) ==
  /\ IF w \in windows THEN Forget({w}) ELSE UNCHANGED <<tracked, info, observed>>
  /\ windows' = windows \ {w}
  /\ channel' = Rest
  /\ UNCHANGED <<known, requests, topology, pre_known, dropped, late>>

\* handle_windows_discovered
HandleDiscovered(S) ==
  /\ Learn(S, {}, FALSE)
  /\ channel' = Rest
  /\ UNCHANGED <<known, requests, topology, pre_known, dropped>>

\* handle_application_launched
HandleLaunched(S) ==
  /\ known' = TRUE
  /\ Learn(S, S, topology # "Stable")
  /\ channel' = Rest
  /\ UNCHANGED <<requests, topology, pre_known, dropped>>

\* handle_application_terminated
HandleTerminated ==
  /\ requests' = Asked(known, <<Event("Terminate")>>)
  /\ channel' = Rest
  /\ UNCHANGED <<registryVars, topology, pre_known, dropped, late>>

\* handle_application_thread_terminated: remove_windows_for_terminated_app
HandleThreadTerminated ==
  /\ known' = FALSE
  /\ windows' = {}
  /\ Forget(windows)
  /\ channel' = Rest
  /\ UNCHANGED <<requests, topology, pre_known, dropped, late>>

\* DisplayChurnBegin and DisplayChurnEnd
HandleBegin ==
  /\ topology' = "Churning"
  /\ pre_known' = tracked \cup info \cup observed
  /\ channel' = Rest
  /\ UNCHANGED <<registryVars, requests, dropped, late>>

HandleEnd ==
  /\ topology' = "Awaiting"
  /\ channel' = Rest
  /\ UNCHANGED <<registryVars, requests, pre_known, dropped, late>>

\* reconcile_windows_after_topology_commit
Disappeared == pre_known \ alive

\* Mutant: the commit leaves the refresh to somebody else.
FaultyCommitRequests(gone) == MaybeDestroyed(gone)

CommitRequests(gone) == MaybeDestroyed(gone) \o Refresh

\* handle_screen_parameters_changed with a complete snapshot: finalize_space_change
\* and, when one is awaited, the commit of the topology.  `moved` says whether the
\* displays are others than before.
HandleSnapshot(moved) ==
  LET commit == topology = "Awaiting"
      lost   == IF commit THEN Disappeared ELSE {}
      gone   == lost \cap tracked
      first  == IF moved THEN <<>> ELSE Refresh
      later  == IF commit THEN CommitRequests(gone) ELSE IF moved THEN Refresh ELSE <<>>
  IN  /\ topology' = IF commit THEN "Stable" ELSE topology
      /\ tracked' = tracked \ lost
      /\ info' = (info \cup alive) \ lost
      /\ observed' = (observed \ alive) \ lost
      /\ requests' = Asked(known, first \o (IF commit \/ topology = "Stable" THEN later ELSE <<>>))
      /\ channel' = Rest \o Destroyed(gone)
      /\ dropped' = dropped \ gone
      /\ UNCHANGED <<known, windows, pre_known, late>>

\* maybe_quarantine_during_churn
Quarantined == {"ServerAppeared", "ServerDestroyed", "WindowCreated", "WindowDestroyed",
                "Discovered"}

Drop(e) ==
  /\ channel' = Rest
  /\ dropped' = IF e.op = "WindowDestroyed" THEN dropped \cup ({e.window} \cap windows)
                                            ELSE dropped
  /\ UNCHANGED <<registryVars, requests, topology, pre_known, late>>

Handle(e) ==
  CASE e.op = "ServerAppeared"              -> HandleAppeared(e.window)
    [] e.op = "ServerDestroyed"             -> HandleServerDestroyed(e.window)
    [] e.op = "WindowCreated"               -> HandleCreated(e.window)
    [] e.op = "WindowDestroyed"             -> HandleDestroyed(e.window)
    [] e.op = "Discovered"                  -> HandleDiscovered(e.windows)
    [] e.op = "ApplicationLaunched"         -> HandleLaunched(e.windows)
    [] e.op = "ApplicationTerminated"       -> HandleTerminated
    [] e.op = "ApplicationThreadTerminated" -> HandleThreadTerminated
    [] e.op = "DisplayChurnBegin"           -> HandleBegin
    [] e.op = "DisplayChurnEnd"             -> HandleEnd
    [] e.op = "ScreenParametersChanged"     -> \E moved \in BOOLEAN : HandleSnapshot(moved)

React ==
  /\ channel # <<>>
  /\ IF topology # "Stable" /\ channel[1].op \in Quarantined THEN Drop(channel[1])
                                                             ELSE Handle(channel[1])
  /\ UNCHANGED <<worldVars, centreVars, notices, threadVars>>

Init ==
  /\ app = "none" /\ alive = {} /\ born = {}
  /\ ACTIVE = FALSE /\ owed = FALSE /\ churns = 0
  /\ notices = {}
  /\ thread = "none" /\ elements = {} /\ requests = <<>>
  /\ channel = <<>>
  /\ topology = "Stable" /\ pre_known = {}
  /\ known = FALSE /\ windows = {} /\ tracked = {} /\ info = {} /\ observed = {}
  /\ dropped = {} /\ late = {}

Next ==
  \/ Launch
  \/ \E w \in Windows : Open(w)
  \/ \E w \in Windows, told \in BOOLEAN : Close(w, told)
  \/ Quit
  \/ \E n \in notices : ServerSays(n)
  \/ ChurnBegins \/ ChurnEnds \/ SendSnapshot
  \/ Start
  \/ \E noticed \in BOOLEAN : HandleRequest(noticed)
  \/ \E n \in notices : HandleNotification(n)
  \/ RemoveStale
  \/ React

Spec == Init /\ [][Next]_vars

(***************************************************************************)
(* Properties                                                              *)
(***************************************************************************)
\* Nothing is under way; notifications to a thread that does not run are lost.
AtRest ==
  /\ channel = <<>> /\ requests = <<>> /\ ~ACTIVE /\ ~owed
  /\ thread # "starting"
  /\ \A n \in notices : thread # "up" /\ n.kind \in {"Created", "Destroyed"}

TypeOK ==
  /\ alive \subseteq born /\ born \subseteq Windows
  /\ elements \subseteq born /\ windows \subseteq born
  /\ tracked \subseteq born /\ info \subseteq born /\ observed \subseteq born
  /\ topology \in {"Stable", "Churning", "Awaiting"}
  /\ app \in {"none", "running", "ended"}
  /\ thread \in {"none", "starting", "up", "stopped"}
  /\ known \in BOOLEAN
  /\ (requests # <<>> => thread = "up") /\ (app = "ended" => alive = {})

\* Whatever a reconfiguration made the reactor drop: once everything has settled
\* it has every window of the application, each under its id and with what the
\* window server says of it.
NothingMissed ==
  (AtRest /\ thread = "up" /\ app = "running") =>
    /\ topology = "Stable" /\ alive \subseteq windows
    /\ alive \subseteq tracked

\* A window that is gone stays with the reactor only if it came during a quarantine,
\* or if its WindowDestroyed was dropped by a quarantine whose snapshot did not
\* make up for it.
GhostsAreExplained ==
  (AtRest /\ app = "running") => (windows \ alive) \subseteq (dropped \cup late)

\* src/src/actor/app.rs:706-707: "If the window is gone, the reactor will detect it
\* via missing membership and tear down state."
\* (Said of the listing that WindowMaybeDestroyed asks for.)
NoGhosts == (AtRest /\ elements \subseteq alive) => windows \subseteq alive
=============================================================================
