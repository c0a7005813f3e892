---------------------------- MODULE AppVisibility ----------------------------
(***************************************************************************)
(* Hidden applications and minimised windows: how the thread of an          *)
(* application (actor/app.rs) reports the windows of a hidden application   *)
(* as minimised, and what the reactor (reactor/events/window.rs and         *)
(* window_discovery.rs) then takes for minimised.                           *)
(*                                                                         *)
(* One application.  Its notifications reach the thread in their order, as  *)
(* do requests, and the thread's events the reactor.  A window minimises    *)
(* only while the application is shown; one that is taken from the Dock     *)
(* shows its application.  Every window is an ordinary one, so that a       *)
(* window that is not minimised is in the layout.                           *)
(***************************************************************************)
EXTENDS Naturals, SequencesExt

CONSTANTS
  AppWindows,     \* windows of the application
  MaxWishes,      \* bound: what the user does
  MaxListings,    \* bound: GetVisibleWindows requests
  MaxMisreadings  \* bound: how often the minimised attribute cannot be read

AppVisibilityAssumption == IsFiniteSet(AppWindows)

VARIABLES
  hidden,       \* the application is hidden
  open,         \* its windows
  miniaturised, \* those of them that are in the Dock
  news,         \* Accessibility's notifications on their way to the thread
  refreshes,    \* the GetVisibleWindows requests that wait
  isHidden,     \* State::is_hidden
  registered,   \* the keys of State::windows
  hiddenByApp,  \* those of them with hidden_by_app
  sent,         \* the thread's events on their way to the reactor
  tracked,      \* WindowManager: windows
  minimised,    \* those of them with info.is_minimized
  wishes, listings, misreadings,
  exposed,      \* history: windows that the thread listed or found while it knew the
                \* application hidden, and those that were there at a start in hiding
  misread       \* history: windows whose minimised attribute could not be read

world == <<hidden, open, miniaturised, wishes>>
thread == <<isHidden, registered, hiddenByApp>>
reactor == <<tracked, minimised>>
vars == <<world, news, refreshes, thread, sent, reactor, listings, misreadings, exposed, misread>>

Note(kind, w) == [kind |-> kind, window |-> w]
Minimized(w) == [kind |-> "WindowMinimized", window |-> w]
Deminiaturized(w) == [kind |-> "WindowDeminiaturized", window |-> w]

\* The windows of `infos` that were read as minimised are `mini`.
Listed(kind, infos, mini) == [kind |-> kind, infos |-> infos, mini |-> mini]

\* One event for each window; nothing depends on the order of the windows.
InTurn(windows, About(_)) ==
  LET seq == SetToSeq(windows) IN [i \in DOMAIN seq |-> About(seq[i])]
-----------------------------------------------------------------------------
(* The user and the application. *)

Wish == wishes < MaxWishes /\ wishes' = wishes + 1
ReactorIdle == UNCHANGED <<refreshes, thread, sent, reactor, listings, misreadings, exposed, misread>>

Hide ==
  /\ Wish /\ ~hidden /\ hidden' = TRUE
  /\ news' = Append(news, [kind |-> "ApplicationHidden"])
  /\ UNCHANGED <<open, miniaturised>> /\ ReactorIdle

Show ==
  /\ Wish /\ hidden /\ hidden' = FALSE
  /\ news' = Append(news, [kind |-> "ApplicationShown"])
  /\ UNCHANGED <<open, miniaturised>> /\ ReactorIdle

Miniaturise(w) ==
  /\ Wish /\ ~hidden /\ w \in open \ miniaturised
  /\ miniaturised' = miniaturised \union {w}
  /\ news' = Append(news, Note("WindowMiniaturized", w))
  /\ UNCHANGED <<hidden, open>> /\ ReactorIdle

\* From the Dock: the two notifications come in either order.
Restore(w) ==
  /\ Wish /\ w \in miniaturised
  /\ miniaturised' = miniaturised \ {w} /\ hidden' = FALSE
  /\ LET n == Note("WindowDeminiaturized", w)
         s == [kind |-> "ApplicationShown"]
     IN IF hidden THEN news' \in {news \o <<n, s>>, news \o <<s, n>>} ELSE news' = Append(news, n)
  /\ UNCHANGED open /\ ReactorIdle

\* A hidden application may open a window, too.
Open(w) ==
  /\ Wish /\ w \notin open \union registered
  /\ ~ \E i \in DOMAIN news : news[i].kind = "WindowDestroyed" /\ news[i].window = w
  /\ open' = open \union {w}
  /\ news' = Append(news, Note("WindowCreated", w))
  /\ UNCHANGED <<hidden, miniaturised>> /\ ReactorIdle

Close(w) ==
  /\ Wish /\ w \in open
  /\ open' = open \ {w} /\ miniaturised' = miniaturised \ {w}
  /\ news' = Append(news, Note("WindowDestroyed", w))
  /\ UNCHANGED hidden /\ ReactorIdle

\* The reactor asks for the windows, at a change of spaces for one.
Ask ==
  /\ listings < MaxListings /\ listings' = listings + 1
  /\ refreshes' = refreshes + 1
  /\ UNCHANGED <<world, news, thread, sent, reactor, misreadings, exposed, misread>>
-----------------------------------------------------------------------------
(* The thread. *)

\* on_application_hidden
OnApplicationHidden ==
  /\ IF isHidden THEN UNCHANGED <<isHidden, hiddenByApp, sent, exposed>>
     ELSE /\ isHidden' = TRUE
          /\ hiddenByApp' = registered
          /\ sent' = sent \o InTurn(registered \ hiddenByApp, Minimized)
          /\ exposed' = {}
  /\ UNCHANGED <<registered, misreadings, misread>>

\* Mutant of Restorable: every window comes back.
FaultyRestorable(candidates, failing) == candidates

\* The windows of `candidates` that come back: those that are not minimised, or whose
\* attribute cannot be read.
Restorable(candidates, failing) == candidates \ (miniaturised \ failing)

\* on_application_shown
OnApplicationShown ==
  IF ~isHidden THEN UNCHANGED <<thread, sent, exposed, misreadings, misread>>
  ELSE \E failing \in SUBSET (hiddenByApp \intersect miniaturised) :
         /\ misreadings + Cardinality(failing) <= MaxMisreadings
         /\ misreadings' = misreadings + Cardinality(failing)
         /\ misread' = misread \union failing
         /\ isHidden' = FALSE /\ hiddenByApp' = {}
         /\ sent' = sent \o InTurn(Restorable(hiddenByApp, failing), Deminiaturized)
         /\ UNCHANGED <<registered, exposed>>

\* WindowMiniaturized and WindowDeminiaturized, which a window that is gone may still cause.
OnDock(w, event) ==
  /\ hiddenByApp' = hiddenByApp \ {w}
  /\ sent' = Append(sent, event)
  /\ UNCHANGED <<isHidden, registered, exposed, misreadings, misread>>

\* register_window tells of a new window of a hidden application before the window itself
\* is told of.
Register(windows) ==
  /\ registered' = registered \union windows
  /\ hiddenByApp' = IF isHidden THEN hiddenByApp \union windows ELSE hiddenByApp
  /\ exposed' = IF hidden THEN exposed \union windows ELSE exposed
  /\ UNCHANGED <<isHidden, misreadings, misread>>
Announcements(windows) == IF isHidden THEN InTurn(windows, Minimized) ELSE <<>>

OnWindowCreated(w) ==
  IF w \in registered \/ w \notin open THEN UNCHANGED <<thread, sent, exposed, misreadings, misread>>
  ELSE /\ Register({w})
       /\ sent' = (sent \o Announcements({w}))
                    \o <<Listed("WindowCreated", {w}, {w} \intersect miniaturised)>>

OnWindowDestroyed(w) ==
  /\ registered' = registered \ {w} /\ hiddenByApp' = hiddenByApp \ {w}
  /\ sent' = IF w \in registered
             THEN Append(sent, [kind |-> "WindowDestroyed", window |-> w]) ELSE sent
  /\ UNCHANGED <<isHidden, exposed, misreadings, misread>>

\* handle_notification
HandleNotification ==
  /\ news # <<>> /\ news' = Tail(news)
  /\ LET n == Head(news)
     IN CASE n.kind = "ApplicationHidden" -> OnApplicationHidden
          [] n.kind = "ApplicationShown" -> OnApplicationShown
          [] n.kind = "WindowMiniaturized" -> OnDock(n.window, Minimized(n.window))
          [] n.kind = "WindowDeminiaturized" -> OnDock(n.window, Deminiaturized(n.window))
          [] n.kind = "WindowCreated" -> OnWindowCreated(n.window)
          [] n.kind = "WindowDestroyed" -> OnWindowDestroyed(n.window)
  /\ UNCHANGED <<world, refreshes, reactor, listings>>

\* refresh_visible_windows: the window server knows the windows of a hidden application,
\* and nothing asks whether the application is hidden.
RefreshVisibleWindows ==
  /\ refreshes > 0 /\ refreshes' = refreshes - 1
  /\ registered' = registered \union open
  /\ hiddenByApp' = IF isHidden THEN hiddenByApp \union (open \ registered) ELSE hiddenByApp
  /\ sent' = (sent \o Announcements(open \ registered))
               \o <<Listed("WindowsDiscovered", open, miniaturised)>>
  /\ exposed' = IF hidden THEN exposed \union open ELSE exposed
  /\ UNCHANGED <<world, news, isHidden, reactor, listings, misreadings, misread>>
-----------------------------------------------------------------------------
(* The reactor. *)

\* A window that is not known is passed over, as is one that is minimised already.
HandleWindowMinimized(w) ==
  minimised' = minimised \union ({w} \intersect tracked) /\ UNCHANGED tracked

HandleWindowDeminiaturized(w) ==
  minimised' = minimised \ {w} /\ UNCHANGED tracked

HandleWindowDestroyed(w) ==
  tracked' = tracked \ {w} /\ minimised' = minimised \ {w}

\* A window that is created is new to the reactor, ...
HandleWindowCreated(infos, mini) ==
  tracked' = tracked \union infos /\ minimised' = (minimised \ infos) \union mini

\* ... one that is discovered may be known: sync_existing_window_state follows what was read.
HandleDiscovery(infos, mini) ==
  tracked' = tracked \union infos /\ minimised' = (minimised \ infos) \union mini

ReactorStep ==
  /\ sent # <<>> /\ sent' = Tail(sent)
  /\ LET e == Head(sent)
     IN CASE e.kind = "WindowMinimized" -> HandleWindowMinimized(e.window)
          [] e.kind = "WindowDeminiaturized" -> HandleWindowDeminiaturized(e.window)
          [] e.kind = "WindowDestroyed" -> HandleWindowDestroyed(e.window)
          [] e.kind = "WindowCreated" -> HandleWindowCreated(e.infos, e.mini)
          [] e.kind = "WindowsDiscovered" -> HandleDiscovery(e.infos, e.mini)
  /\ UNCHANGED <<world, news, refreshes, thread, listings, misreadings, exposed, misread>>
-----------------------------------------------------------------------------
\* The thread starts with the windows that are there; whether the application is hidden it
\* does not ask.
Init ==
  /\ hidden \in BOOLEAN /\ open \in SUBSET AppWindows /\ miniaturised \in SUBSET open
  /\ registered = open /\ isHidden = FALSE /\ hiddenByApp = {}
  /\ tracked = open /\ minimised = miniaturised
  /\ news = <<>> /\ refreshes = 0 /\ sent = <<>>
  /\ wishes = 0 /\ listings = 0 /\ misreadings = 0
  /\ exposed = (IF hidden THEN open ELSE {}) /\ misread = {}

Next ==
  \/ Hide \/ Show
  \/ \E w \in AppWindows : Miniaturise(w) \/ Restore(w) \/ Open(w) \/ Close(w)
  \/ Ask \/ HandleNotification \/ RefreshVisibleWindows \/ ReactorStep

Spec == Init /\ [][Next]_vars
-----------------------------------------------------------------------------
AtRest == news = <<>> /\ refreshes = 0 /\ sent = <<>>

\* When everything was told and the application is shown, the reactor takes for minimised
\* exactly the windows that are in the Dock, however hiding, minimising and listing were
\* interleaved; but a window whose attribute could not be read may count as shown.
DockIsKnown ==
  AtRest /\ ~hidden =>
    /\ tracked = open
    /\ minimised \subseteq miniaturised
    /\ miniaturised \ minimised \subseteq misread

\* When everything was told and the application is hidden, no window of it takes part in
\* the layout that the thread did not list or find in the meantime.
HiddenAreLeftOut ==
  AtRest /\ hidden => tracked = open /\ tracked \ minimised \subseteq exposed

\* What does not hold: a listing brings the windows of a hidden application back.
HiddenStayLeftOut == AtRest /\ hidden => tracked \subseteq minimised
=============================================================================
