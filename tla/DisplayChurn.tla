---------------------------- MODULE DisplayChurn ----------------------------
(***************************************************************************)
(* Display reconfigurations, from the window system to the reactor.         *)
(*                                                                         *)
(* The notification centre runs on the main thread.  It turns a burst of    *)
(* reconfigurations (a churn) into DisplayChurnBegin, DisplayChurnEnd and a *)
(* snapshot of the displays, using timers of the main queue that it cannot  *)
(* cancel.  The atomics of src/src/sys/display_churn.rs, written one by one, *)
(* tell the other threads of what kind it is.                               *)
(* The reactor, behind a FIFO channel, drops window events from a Begin     *)
(* until a complete snapshot that follows the End has been applied.         *)
(*                                                                         *)
(* Abstracted: a display's identity is its number, which is also its place  *)
(* from left to right; its spaces are <<display, 1>> and <<display, 2>>;    *)
(* flags are "Remove" (removed or disabled) and "Add"; `geometry` stands    *)
(* for everything that decides the displays' usable frames; the relay by    *)
(* the window manager controller is part of the channel; timers of          *)
(* different delays may run in any order.  Left out: Mission Control,       *)
(* fullscreen spaces, and the windows themselves (see WindowTracking).      *)
(***************************************************************************)
EXTENDS Naturals, Sequences, FiniteSets

CONSTANTS
  NumDisplays,  \* the displays that may be online
  First,        \* those that are online at the start
  Sets,         \* the sets of displays that may be online later
  Retries,      \* REFRESH_MAX_RETRIES
  Attempts,     \* DISPLAY_STABILIZE_MAX_ATTEMPTS
  MaxInputs,    \* bound on reconfigurations and other changes
  None

Displays == 1..NumDisplays
Flags == {"Add", "Remove"}

ASSUME DisplayAssumption ==
  /\ {NumDisplays, Retries, Attempts} \subseteq Nat
  /\ First \subseteq Displays /\ Sets \subseteq SUBSET Displays
  /\ None \notin {"Begin", "End"} /\ None \notin Displays \X {1, 2}

VARIABLES
  online, shown, geometry, readable,   \* window system
  callbacks, notes,                    \* what it has posted
  active, seen_once, refresh_pending, last_sent,   \* notification centre
  checks, refreshes,                   \* its timers: stabilisation, refresh
  cache, dirty,                        \* its ScreenCache
  FLAGS, COMPLETED, writes,            \* the atomics, and what is left to write
  channel,                             \* events on their way to the reactor
  topology, screens, frame, removed, relayout, has_seen,  \* reactor
  inputs, flags_now, given_up  \* bounds and history

systemVars == <<online, shown, geometry, readable>>
centreVars == <<active, seen_once, refresh_pending, last_sent, checks,
                refreshes, cache, dirty>>
atomicVars == <<FLAGS, COMPLETED>>
reactorVars == <<topology, screens, frame, removed, relayout, has_seen>>
vars == <<systemVars, callbacks, notes, centreVars, atomicVars, writes, channel,
          reactorVars, inputs, flags_now, given_up>>

InOrder(S) ==
  CHOOSE s \in [1..Cardinality(S) -> S] : \A i, j \in 1..Cardinality(S) : i < j => s[i] < s[j]

(***************************************************************************)
(* The screen cache.  The displays and their frames are read again only     *)
(* when the cache is dirty; the current space of each display always is.    *)
(***************************************************************************)
Stale == dirty \/ cache = None

CanRead == ~Stale \/ readable

ScreensOf(c) ==
  [i \in 1..Cardinality(c.online) |->
     LET d == InOrder(c.online)[i]
     IN  [id |-> d,
          space |-> IF d \in online /\ shown[d] # 0 THEN <<d, shown[d]>> ELSE None]]

Fresh == [online |-> online, geometry |-> geometry]
Current == IF Stale THEN Fresh ELSE cache

Refreshed == /\ cache' = IF CanRead THEN Current ELSE cache
             /\ dirty' = (dirty /\ ~CanRead)

Ids(s) == {s[i].id : i \in DOMAIN s}
Spaces(s) == [i \in DOMAIN s |-> s[i].space]
AllSpaces(s) == \A i \in DOMAIN s : s[i].space # None
Unique(v) == \A i, j \in DOMAIN v : (v[i] = v[j] /\ v[i] # None) => i = j

(***************************************************************************)
(* The main thread: its handlers run one at a time, and one that writes the *)
(* atomics is done when `writes` is empty.                                  *)
(***************************************************************************)
Idle == writes = <<>>

\* Stabilisation checks that were scheduled under an older epoch.
Outdated(S) == {[current |-> FALSE, attempt |-> 0] : c \in S}

\* schedule_screen_refresh_after(_, 0), in a state where the churn is `churning`.
Schedule(churning, pending) ==
  IF churning \/ pending
  THEN UNCHANGED <<refresh_pending, refreshes>>
  ELSE refresh_pending' = TRUE /\ refreshes' = refreshes \cup {0}

\* What begin(flags) and end() write, in program order; the event that follows is
\* sent with the last write.
BeginWrites(flags) ==
  IF ~active
  THEN << [op |-> "COMPLETED", to |-> {}, then |-> None],
          [op |-> "FLAGS", to |-> flags, then |-> "Begin"] >>
  ELSE << [op |-> "FLAGS", to |-> FLAGS \cup flags, then |-> None] >>

\* Mutant: end() clears the flags before it keeps them.
FaultyEndWrites ==
  << [op |-> "FLAGS", to |-> {}, then |-> None],
     [op |-> "COMPLETED", to |-> {}, then |-> "End"] >>

EndWrites ==
  << [op |-> "FLAGS", to |-> {}, then |-> None],
     [op |-> "COMPLETED", to |-> FLAGS, then |-> "End"] >>

\* display_churn::begin and end, one atomic operation at a time.
Write ==
  LET w == writes[1]
  IN  /\ ~Idle
      /\ writes' = Tail(writes)
      /\ FLAGS' = IF w.op = "FLAGS" THEN w.to ELSE FLAGS
      /\ COMPLETED' = IF w.op = "COMPLETED" THEN w.to ELSE COMPLETED
      /\ channel' = IF w.then = None THEN channel ELSE Append(channel, [op |-> w.then])
      /\ UNCHANGED <<systemVars, callbacks, notes, centreVars, reactorVars,
                     inputs, flags_now, given_up>>

\* handle_display_reconfig_event
Reconfigured ==
  /\ Idle /\ callbacks # <<>>
  /\ callbacks' = Tail(callbacks)
  /\ active' = TRUE
  /\ seen_once' = None
  /\ last_sent' = None
  /\ dirty' = TRUE
  /\ checks' = Outdated(checks) \cup {[current |-> TRUE, attempt |-> 0]}
  /\ writes' = BeginWrites(callbacks[1])
  /\ flags_now' = IF active THEN flags_now \cup callbacks[1] ELSE callbacks[1]
  /\ UNCHANGED <<systemVars, notes, refresh_pending, refreshes, cache, atomicVars,
                 channel, reactorVars, inputs, given_up>>

\* finish_display_churn
Finish(rest) ==
  /\ active' = FALSE
  /\ seen_once' = None
  /\ checks' = Outdated(rest)
  /\ writes' = EndWrites
  /\ Schedule(FALSE, refresh_pending)

\* attempt_finish_display_churn: two readings of the same displays, one after the
\* other, and a quiet window server end the churn, and so do too many attempts.
Check(c, quiet) ==
  LET rest      == checks \ {c}
      again     == rest \cup {[c EXCEPT !.attempt = @ + 1]}
      different == CanRead /\ Current.online # {} /\ seen_once # Current
      settled   == CanRead /\ Current.online # {} /\ ~different /\ quiet
      late      == ~different /\ ~settled /\ c.attempt >= Attempts
  IN  /\ Idle /\ c \in checks
      /\ IF ~c.current \/ ~active
         THEN /\ checks' = rest
              /\ UNCHANGED <<active, seen_once, refresh_pending, refreshes,
                             cache, dirty, writes>>
         ELSE /\ Refreshed
              /\ IF settled \/ late
                 THEN Finish(rest)
                 ELSE /\ checks' = again
                      /\ seen_once' = IF different THEN Current ELSE seen_once
                      /\ UNCHANGED <<active, refresh_pending, refreshes, writes>>
      /\ UNCHANGED <<systemVars, callbacks, notes, last_sent, atomicVars, channel,
                     reactorVars, inputs, flags_now, given_up>>

\* process_screen_refresh; `kept` says whether a refresh that a churn puts off
\* stays pending.
RefreshStep(n, kept) ==
  LET s        == ScreensOf(Current)
      complete == CanRead /\ s # <<>> /\ AllSpaces(s)
      retry    == ~active /\ ~complete /\ n < Retries
      sent     == ~active /\ CanRead /\ s # <<>> /\ ~retry
  IN  /\ Idle /\ n \in refreshes
      /\ refreshes' = (refreshes \ {n}) \cup (IF retry THEN {n + 1} ELSE {})
      /\ refresh_pending' = (retry \/ (active /\ kept))
      /\ IF active THEN UNCHANGED <<cache, dirty, given_up>>
                   ELSE Refreshed /\ given_up' = (~complete /\ (given_up \/ ~retry))
      /\ channel' = IF sent THEN Append(channel, [op |-> "Screens", screens |-> s,
                                                  frame |-> Current.geometry])
                            ELSE channel
      /\ UNCHANGED <<systemVars, callbacks, notes, active, seen_once, last_sent,
                     checks, atomicVars, writes, reactorVars, inputs, flags_now>>

\* Mutant: a refresh that a churn puts off stays pending.
FaultyRefresh(n) == RefreshStep(n, TRUE)

Refresh(n) == RefreshStep(n, FALSE)

\* send_current_space, with the refresh pending as given.
SendSpaces(pending) ==
  IF pending \/ active
  THEN UNCHANGED <<cache, dirty, last_sent, channel>>
  ELSE LET v == Spaces(ScreensOf(Current))
       IN  /\ Refreshed
           /\ IF CanRead /\ v # <<>> /\ v # last_sent
              THEN /\ last_sent' = v
                   /\ channel' = Append(channel, [op |-> "Spaces", spaces |-> v])
              ELSE UNCHANGED <<last_sent, channel>>

\* handle_screen_changed_event, recv_wake_event, handle_dock_pref_changed and
\* handle_menu_bar_pref_changed
Notified(n) ==
  /\ Idle /\ n \in notes
  /\ notes' = notes \ {n}
  /\ CASE n = "Space"   -> /\ SendSpaces(refresh_pending)
                           /\ UNCHANGED <<refresh_pending, refreshes>>
       [] n = "Display" -> /\ Schedule(active, refresh_pending)
                           /\ SendSpaces(refresh_pending')
       [] n = "Frame"   -> /\ Schedule(active, refresh_pending)
                           /\ UNCHANGED <<cache, dirty, last_sent, channel>>
       [] n = "Wake"    -> /\ dirty' = TRUE
                           /\ Schedule(active, refresh_pending)
                           /\ UNCHANGED <<cache, last_sent, channel>>
  /\ UNCHANGED <<systemVars, callbacks, active, seen_once, checks, atomicVars,
                 writes, reactorVars, inputs, flags_now, given_up>>

(***************************************************************************)
(* The reactor                                                             *)
(***************************************************************************)
Waiting == topology.state = "Awaiting"

\* maybe_commit_display_topology_snapshot and finish_pending_topology_relayout_if_ready,
\* with the screens and the pending removals as the handler leaves them.
Commit(s, gone, re) ==
  LET ready  == s # <<>> /\ AllSpaces(s) /\ Unique(Spaces(s)) /\ gone = {}
      stable == (Waiting /\ ready) \/ topology.state = "Stable"
  IN  /\ topology' = IF stable THEN [state |-> "Stable", flags |-> {}] ELSE topology
      /\ relayout' = (re /\ ~(ready /\ stable))

\* handle_event, DisplayChurnBegin: begin_churn
HandleBegin ==
  /\ topology' = [state |-> "Churning", flags |-> FLAGS]
  /\ UNCHANGED <<screens, frame, removed, relayout, has_seen>>

\* handle_event, DisplayChurnEnd: end_churn_to_awaiting
HandleEnd ==
  /\ topology' = [state |-> "Awaiting",
                  flags |-> COMPLETED \cup (IF topology.state = "Churning"
                                            THEN topology.flags ELSE {})]
  /\ UNCHANGED <<screens, frame, removed, relayout, has_seen>>

\* handle_screen_parameters_changed
HandleScreens(e) ==
  LET before  == Ids(screens)
      now     == Ids(e.screens)
      missing == before \ now
      allowed == "Remove" \in topology.flags
      gone    == (removed \ now) \cup (IF allowed THEN missing ELSE {})
      moved   == [i \in DOMAIN screens |-> screens[i].id] # [i \in DOMAIN e.screens |-> e.screens[i].id]
      re      == relayout \/ (moved /\ (has_seen \/ before # {})) \/ gone # {}
      whole   == e.screens # <<>> /\ AllSpaces(e.screens) /\ Unique(Spaces(e.screens))
      left    == IF whole THEN {} ELSE gone
  IN  IF missing # {} /\ ~allowed
      THEN /\ removed' = removed \ now
           /\ UNCHANGED <<topology, screens, frame, relayout, has_seen>>
      ELSE /\ screens' = e.screens
           /\ frame' = e.frame
           /\ removed' = left
           /\ has_seen' = (has_seen \/ now # {})
           /\ Commit(e.screens, left, re)

WithSpaces(v) == [i \in DOMAIN screens |-> [screens[i] EXCEPT !.space = v[i]]]

\* handle_space_changed
HandleSpaces(v) ==
  LET whole == \A i \in DOMAIN v : v[i] # None
      fits  == Len(v) = Len(screens)
      same  == v = Spaces(screens) /\ ~relayout /\ topology.state = "Stable"
      left  == IF whole /\ Unique(v) THEN {} ELSE removed
  IN  /\ UNCHANGED <<frame, has_seen>>
      /\ IF ~fits \/ same
         THEN UNCHANGED <<topology, screens, removed, relayout>>
         ELSE /\ screens' = WithSpaces(v)
              /\ removed' = left
              /\ IF left # {} \/ \A i \in DOMAIN v : v[i] = None
                 THEN UNCHANGED <<topology, relayout>>
                 ELSE Commit(screens', left, relayout)

React ==
  LET e == channel[1]
  IN  /\ channel # <<>>
      /\ channel' = Tail(channel)
      /\ CASE e.op = "Begin"   -> HandleBegin
           [] e.op = "End"     -> HandleEnd
           [] e.op = "Screens" -> HandleScreens(e)
           [] e.op = "Spaces"  -> HandleSpaces(e.spaces)
      /\ UNCHANGED <<systemVars, callbacks, notes, centreVars, atomicVars, writes,
                     inputs, flags_now, given_up>>

(***************************************************************************)
(* The window system.  A display that comes online may have no space for a  *)
(* while, and the displays may be unreadable for a while; when this is over *)
(* the active space is notified.                                            *)
(***************************************************************************)
Reconfigure(S) ==
  LET gone  == online \ S
      added == S \ online
  IN  /\ Idle /\ inputs < MaxInputs /\ S # online
      /\ inputs' = inputs + 1
      /\ online' = S
      /\ \E first \in {0, 1} :
           shown' = [d \in Displays |-> IF d \in added THEN first
                                       ELSE IF d \in gone THEN 0 ELSE shown[d]]
      /\ readable' \in BOOLEAN
      /\ callbacks' = callbacks \o (IF gone # {} THEN <<{"Remove"}>> ELSE <<>>)
                               \o (IF added # {} THEN <<{"Add"}>> ELSE <<>>)
      /\ UNCHANGED <<geometry, notes, centreVars, atomicVars, writes, channel,
                     reactorVars, flags_now, given_up>>

Settled == readable /\ \A d \in online : shown[d] # 0

Settle ==
  /\ Idle /\ ~Settled
  /\ readable' = TRUE
  /\ shown' = [d \in Displays |-> IF d \in online /\ shown[d] = 0 THEN 1 ELSE shown[d]]
  /\ notes' = notes \cup {"Space"}
  /\ UNCHANGED <<online, geometry, callbacks, centreVars, atomicVars, writes, channel,
                 reactorVars, inputs, flags_now, given_up>>

\* Changes that come with a notification but without a reconfiguration.
Notify(n) ==
  /\ Idle /\ inputs < MaxInputs
  /\ inputs' = inputs + 1
  /\ notes' = notes \cup {n}
  /\ IF n = "Space" THEN \E d \in online : shown[d] # 0 /\ shown' = [shown EXCEPT ![d] = 3 - @]
                    ELSE UNCHANGED shown
  /\ geometry' = IF n = "Frame" THEN geometry + 1 ELSE geometry
  /\ UNCHANGED <<online, readable, callbacks, centreVars, atomicVars, writes, channel,
                 reactorVars, flags_now, given_up>>

Init ==
  /\ online = First
  /\ shown = [d \in Displays |-> IF d \in online THEN 1 ELSE 0]
  /\ geometry = 0 /\ readable = TRUE
  /\ callbacks = <<>> /\ notes = {}
  /\ active = FALSE /\ seen_once = None
  /\ refresh_pending = FALSE /\ last_sent = None
  /\ checks = {} /\ refreshes = {0}
  /\ cache = None /\ dirty = FALSE
  /\ FLAGS = {} /\ COMPLETED = {} /\ writes = <<>>
  /\ channel = <<>>
  /\ topology = [state |-> "Stable", flags |-> {}]
  /\ screens = <<>> /\ frame = 0 /\ removed = {} /\ relayout = FALSE /\ has_seen = FALSE
  /\ inputs = 0 /\ flags_now = {} /\ given_up = FALSE

Next ==
  \/ Write
  \/ Reconfigured
  \/ \E c \in checks, quiet \in BOOLEAN : Check(c, quiet)
  \/ \E n \in refreshes : Refresh(n)
  \/ \E n \in notes : Notified(n)
  \/ React
  \/ \E S \in Sets : Reconfigure(S)
  \/ Settle
  \/ \E n \in {"Space", "Display", "Frame", "Wake"} : Notify(n)

Spec == Init /\ [][Next]_vars

(***************************************************************************)
(* Properties                                                              *)
(***************************************************************************)
AtRest ==
  /\ Idle /\ callbacks = <<>> /\ notes = {} /\ checks = {} /\ refreshes = {}
  /\ channel = <<>> /\ Settled

TypeOK ==
  /\ online \subseteq Displays /\ shown \in [Displays -> 0..2]
  /\ active \in BOOLEAN /\ refresh_pending \in BOOLEAN
  /\ refreshes \subseteq 0..Retries /\ Cardinality(refreshes) <= 1
  /\ FLAGS \subseteq Flags /\ COMPLETED \subseteq Flags
  /\ topology.state \in {"Stable", "Churning", "Awaiting"}
  /\ topology.flags \subseteq Flags
  /\ Ids(screens) \subseteq Displays
  /\ removed \subseteq Displays

\* However late the reactor reads the atomics, and however often a churn ends and
\* the next one begins meanwhile: when it has handled the last Begin and End it
\* knows every kind of change of the last churn.
KnowsTheLastFlags ==
  (Idle /\ ~active /\ topology.state = "Awaiting"
   /\ \A i \in DOMAIN channel : channel[i].op \notin {"Begin", "End"})
    => flags_now \subseteq topology.flags

\* The spaces of a SpaceChanged come without the displays they belong to: when
\* all is at rest no display has the space of another one, unless the refresh had
\* given up or the displays are not those of the window system.
ScreensShowOwnSpaces ==
  (AtRest /\ ~given_up /\ Ids(screens) = online)
    => \A i \in DOMAIN screens : /\ screens[i].space # None
                                 /\ screens[i].space[1] = screens[i].id

\* The quarantine ends: when nothing is under way and the displays are in order,
\* the reactor takes window events again, unless the refresh had given up on the
\* displays, there are none, or one it still has went offline in a churn other
\* than the last one.
QuarantineEnds ==
  AtRest => \/ topology.state = "Stable"
            \/ given_up \/ online = {}
            \/ ~(Ids(screens) \subseteq online) /\ "Remove" \notin topology.flags

\* src/src/actor/notification_center.rs:269: while a refresh is pending spaces
\* are not sent, for "The refresh will emit a consistent SpaceChanged afterward".
\* When all is at rest the reactor has the spaces that are shown.
SpacesFollow ==
  (AtRest /\ ~given_up /\ Ids(screens) = online)
    => \A i \in DOMAIN screens : screens[i].space = <<screens[i].id, shown[screens[i].id]>>

\* src/src/actor/reactor/events/space.rs:174-175: "allow topology changes that pass
\* through empty (all displays unplugged/replugged)".  When all is at rest the
\* reactor has the displays that are online.
ReplugIsApplied ==
  (AtRest /\ ~given_up /\ online # {}) => Ids(screens) = online
=============================================================================
