----------------------------- MODULE Activation -----------------------------
(***************************************************************************)
(* Who follows whom when an application becomes the frontmost one           *)
(* (src/src/actor/reactor.rs, reactor/main_window.rs, reactor/managers.rs,  *)
(* app.rs).  A switch of workspaces raises windows, which activates their   *)
(* applications; an activation by the user switches workspaces.  Lift must  *)
(* tell the two apart although the news of one activation comes twice, from *)
(* the application's thread, which knows whether Lift asked for it, and     *)
(* from the workspace notifications, which do not.                          *)
(*                                                                         *)
(* One display, windows that stay on their workspaces, and at most one      *)
(* window of an application on each; the cursor is over no window.  The     *)
(* grace periods of a second are over only when nothing is under way.       *)
(***************************************************************************)
EXTENDS Naturals, Sequences, FiniteSets, SequencesExt

CONSTANTS
  Apps, Windows, Workspaces,
  App,            \* the application of a window
  Home,           \* the workspace of a window
  Cases,          \* who the user is, and which windows there are
  MaxCommands, MaxPicks,
  None

\* What the constants are.
ActivationAssumption ==
  /\ App \in [Windows -> Apps] /\ Home \in [Windows -> Workspaces]
  /\ \A v, w \in Windows : App[v] = App[w] /\ Home[v] = Home[w] => v = w
  /\ None \notin Apps /\ None \notin Windows
  /\ Workspaces \subseteq Nat
  /\ Cases \subseteq [patient : BOOLEAN, windows : SUBSET Windows]
  /\ MaxCommands \in Nat /\ MaxPicks \in Nat

VARIABLES
  (* the system *)
  front,          \* the frontmost application
  axMain,         \* the main window of each application
  notes,          \* accessibility notifications an application's thread has not handled
  globals,        \* workspace notifications on their way to the reactor
  (* the threads of the applications: State *)
  isFront, seen,  \* is_frontmost, main_window
  expecting,      \* last_activated, while it is less than a second old
  raises,         \* Request::Raise to each thread
  raising,        \* the raise that holds the mutex
  (* the raise manager *)
  messages, queued, active, tokens,
  (* the reactor *)
  events, shown, laid,
  apps, global,   \* MainWindowTracker
  switching,      \* active_workspace_switch
  generation,     \* workspace_switch_generation
  grace,          \* quiet_activation_deadlines
  lastFocus,      \* last_tiled_by_workspace
  (* the user: the case, the last input, and how many there were *)
  case, wanted, commands, picks

systemVars == <<front, axMain, notes, globals>>
threadVars == <<isFront, seen, expecting, raises, raising>>
managerVars == <<messages, queued, active, tokens>>
reactorVars == <<shown, laid, apps, global, switching, generation, grace, lastFocus>>
userVars == <<case, wanted, commands, picks>>
vars == <<systemVars, threadVars, managerVars, events, reactorVars, userVars>>

Opt(S) == S \cup {None}
WindowsOf(a) == {w \in case.windows : App[w] = a}
On(k) == {w \in case.windows : Home[w] = k}

-----------------------------------------------------------------------------
(* The system *)

\* Application `a` becomes the frontmost one with `w` as its main window.
ComesToFront(a, w) ==
  /\ front' = a
  /\ axMain' = [axMain EXCEPT ![a] = w]
  /\ notes' = [b \in Apps |->
                 notes[b] \cup (IF front # a /\ b \in {a, front} THEN {"activation"} ELSE {})
                          \cup (IF b = a /\ axMain[a] # w THEN {"main"} ELSE {})]
  /\ globals' = IF front = a THEN globals
                ELSE globals \o (IF front = None THEN <<>> ELSE <<[kind |-> "off", app |-> front]>>)
                             \o <<[kind |-> "on", app |-> a]>>

-----------------------------------------------------------------------------
(* An application's thread *)

Event(kind, a, w, quiet) == [kind |-> kind, app |-> a, window |-> w, quiet |-> quiet]
Completed(r) == [kind |-> "completed", window |-> r.window, token |-> r.token]

\* What the thread remembers of a raise that must activate its application.
Expecting(r) == [quiet |-> r.quiet, window |-> IF r.quiet THEN r.window ELSE None]

\* on_main_window_changed
MainChanged(a, quiet_if) ==
  IF seen[a] = axMain'[a] THEN <<>> ELSE <<Event("main", a, axMain'[a], quiet_if = axMain'[a])>>

\* on_activation_changed: what it reads is what is so when it runs.
ActivationChanged(a) ==
  LET is == front = a
      quiet == expecting[a] # None /\ expecting[a].quiet
      quiet_window == IF expecting[a] = None THEN None ELSE expecting[a].window
  IN  /\ isFront' = [isFront EXCEPT ![a] = is]
      /\ IF is
         THEN /\ expecting' = [expecting EXCEPT ![a] = None]
              /\ seen' = [seen EXCEPT ![a] = axMain[a]]
              /\ events' = events \o MainChanged(a, quiet_window)
                             \o (IF isFront[a] THEN <<>> ELSE <<Event("activated", a, None, quiet)>>)
         ELSE /\ events' = IF isFront[a] THEN Append(events, Event("deactivated", a, None, FALSE))
                           ELSE events
              /\ UNCHANGED <<seen, expecting>>

HandleNotification(a) ==
  /\ \/ /\ "activation" \in notes[a]
        /\ notes' = [notes EXCEPT ![a] = @ \ {"activation"}]
        /\ UNCHANGED axMain
        /\ ActivationChanged(a)
     \/ /\ "main" \in notes[a]
        /\ notes' = [notes EXCEPT ![a] = @ \ {"main"}]
        /\ UNCHANGED axMain
        /\ events' = events \o MainChanged(a, None)
        /\ seen' = [seen EXCEPT ![a] = axMain[a]]
        /\ UNCHANGED <<isFront, expecting>>
  /\ UNCHANGED <<front, globals, raises, raising, managerVars, reactorVars, userVars>>

Live(token) == active # None /\ active.token = token

\* handle_raise_request up to make_key_window, which makes the application frontmost.
\* An application that was not is waited for.
BeginRaise(a) ==
  /\ raises[a] # <<>> /\ raising = None
  /\ raises' = [raises EXCEPT ![a] = Tail(@)]
  /\ LET r == Head(raises[a])
         waits == front # a
     IN  IF Live(r.token)
         THEN /\ ComesToFront(a, r.window)
              /\ raising' = [request |-> r, waits |-> waits]
              /\ expecting' = IF ~waits THEN expecting
                              ELSE [expecting EXCEPT ![a] = Expecting(r)]
         ELSE UNCHANGED <<systemVars, raising, expecting>>
  /\ UNCHANGED <<isFront, seen, managerVars, events, reactorVars, userVars>>

\* wait_for_activation: the notification was handled, or polling finds the application
\* frontmost, or the token was cancelled, and the raise is given up.
Activated ==
  /\ raising # None /\ raising.waits
  /\ LET a == App[raising.request.window]
     IN  \/ /\ expecting[a] = None \/ front = a
            /\ raising' = [raising EXCEPT !.waits = FALSE]
         \/ ~Live(raising.request.token) /\ raising' = None
  /\ UNCHANGED <<systemVars, isFront, seen, expecting, raises, managerVars, events,
                 reactorVars, userVars>>

\* The rest of handle_raise_request: the raise, its completion, the main window.
FinishRaise ==
  /\ raising # None /\ ~raising.waits
  /\ LET r == raising.request
         a == App[r.window]
     IN  /\ axMain' = [axMain EXCEPT ![a] = r.window]
         /\ notes' = IF axMain[a] = r.window THEN notes ELSE [notes EXCEPT ![a] = @ \cup {"main"}]
         /\ seen' = [seen EXCEPT ![a] = r.window]
         /\ events' = Append(events, Completed(r))
                        \o MainChanged(a, IF r.quiet THEN r.window ELSE None)
  /\ raising' = None
  /\ UNCHANGED <<front, globals, isFront, expecting, raises, managerVars, reactorVars, userVars>>

-----------------------------------------------------------------------------
(* The raise manager (module RaiseManager has it in full): one sequence at a time,  *)
(* the focus last, and a switch supersedes those of earlier switches.               *)

Untagged == SelectSeq(queued, LAMBDA r : r.tag = 0)
Superseded == IF active # None /\ active.tag # 0 THEN None ELSE active

HandleMessage ==
  /\ messages # <<>>
  /\ messages' = Tail(messages)
  /\ LET m == Head(messages)
     IN  \/ m.kind = "started" /\ queued' = Untagged /\ active' = Superseded
         \/ /\ m.kind = "request"
            /\ IF m.request.tag = 0
               THEN queued' = Append(queued, m.request) /\ UNCHANGED active
               ELSE queued' = Append(Untagged, m.request) /\ active' = Superseded
         \/ /\ m.kind = "completed"
            /\ active' = IF Live(m.token) THEN [active EXCEPT !.pending = @ \ {m.window}] ELSE active
            /\ UNCHANGED queued
  /\ UNCHANGED <<tokens, raises>>

\* The raises of `windows`, in any order of their applications.
Sent(windows, quiet, token) ==
  [a \in Apps |-> raises[a] \o
     SetToSeq({[window |-> w, quiet |-> quiet, token |-> token] : w \in windows \cap WindowsOf(a)})]

Iterate ==
  \/ /\ active # None /\ active.pending = {} /\ active.focus # None
     /\ raises' = Sent({active.focus}, active.quiet, active.token)
     /\ active' = [active EXCEPT !.pending = {active.focus}, !.focus = None]
     /\ UNCHANGED <<queued, tokens>>
  \/ /\ active # None /\ active.pending = {} /\ active.focus = None
     /\ active' = None
     /\ UNCHANGED <<queued, tokens, raises>>
  \/ /\ active = None /\ queued # <<>>
     /\ LET r == Head(queued)
            first == r.windows \ {r.focus}
        IN  /\ queued' = Tail(queued)
            /\ tokens' = tokens + 1
            /\ raises' = Sent(first, TRUE, tokens + 1)
            /\ active' = IF first = {} /\ r.focus = None THEN None
                         ELSE [pending |-> first, focus |-> r.focus, quiet |-> r.quiet,
                               tag |-> r.tag, token |-> tokens + 1]

Busy == (active # None /\ active.pending = {}) \/ (active = None /\ queued # <<>>)

ManagerStep ==
  /\ \/ Busy /\ Iterate /\ UNCHANGED messages
     \/ ~Busy /\ HandleMessage
  /\ UNCHANGED <<systemVars, isFront, seen, expecting, raising, events, reactorVars, userVars>>

-----------------------------------------------------------------------------
(* MainWindowTracker *)

MainWindow(t, g) == IF g # None /\ t[g].front THEN t[g].main ELSE None

\* begin_activation, and what its callers do: the window that was main before the
\* application was left, or that Lift selected, is preferred to what it says now.
Activation(t, a) ==
  LET stable == IF t[a].preferred # None THEN t[a].preferred ELSE t[a].left
  IN  [t EXCEPT ![a] = [@ EXCEPT !.front = TRUE,
                                 !.main = IF stable # None THEN stable ELSE @,
                                 !.left = None, !.preferred = stable]]

Deactivation(t, a) ==
  [t EXCEPT ![a] = [@ EXCEPT !.front = FALSE, !.left = t[a].main, !.preferred = None]]

\* A change by the application is not believed while its activation settles.
Changed(t, a, w, quiet) ==
  LET held == ~quiet /\ t[a].front /\ t[a].preferred # None /\ w # t[a].preferred
  IN  [t EXCEPT ![a] = IF held THEN [@ EXCEPT !.main = t[a].preferred]
                       ELSE [@ EXCEPT !.main = w, !.preferred = None]]

\* expect_authoritative_focus
Expected(t, w) ==
  [t EXCEPT ![App[w]] = [@ EXCEPT !.main = w, !.preferred = w,
                                  !.left = IF t[App[w]].front THEN @ ELSE w]]

-----------------------------------------------------------------------------
(* The reactor *)

Started == [kind |-> "started"]
Ask(windows, focus, quiet, tag) ==
  [kind |-> "request",
   request |-> [windows |-> windows, focus |-> focus, quiet |-> quiet, tag |-> tag]]

\* preferred_workspace_window
Preferred(k) == IF lastFocus[k] # None THEN {lastFocus[k]}
                ELSE IF On(k) = {} THEN {None} ELSE On(k)

\* Mutant of Finalize: a switch without further changes of the layout is not over.
FaultyFinalize(t, g, switched) ==
  /\ apps' = t /\ global' = g
  /\ laid' = shown'
  /\ switching' = (switched \/ switching)
  /\ LET w == MainWindow(t, g)
     IN  lastFocus' = IF w = None THEN lastFocus ELSE [lastFocus EXCEPT ![Home[w]] = w]

\* finalize_event_processing with tracker `t` and `g`.  The layout changes with the
\* workspace that is shown; the core is told the main window before it lays out.
Finalize(t, g, switched) ==
  /\ apps' = t /\ global' = g
  /\ laid' = shown'
  /\ switching' = (shown' # laid /\ (switched \/ switching))
  /\ LET w == MainWindow(t, g)
     IN  lastFocus' = IF w = None THEN lastFocus ELSE [lastFocus EXCEPT ![Home[w]] = w]

\* should_suppress_global_activation
Suppressed(a) == a \in grace

\* handle_app_activation_workspace_switch
Follows(a) ==
  /\ ~switching
  /\ \A w \in WindowsOf(a) : Home[w] # shown

\* The event loop's handling of an activation of `a`, that is followed or not, with
\* tracker `t` and `g` and the window that it raises in the layout.  When a switch was
\* started, that window's focus makes handle_layout_response announce the switch once
\* more, and ask for nothing in its name.
Activates(a, follow, t, g, raised) ==
  IF follow /\ Follows(a)
  THEN \E w \in IF MainWindow(t, g) \in WindowsOf(a) THEN {MainWindow(t, g)} ELSE WindowsOf(a) :
         LET k == Home[w]
             frontmost == MainWindow(t, g)
         IN  /\ shown' = k
             /\ generation' = generation + 1
             /\ grace' = IF frontmost # None /\ App[frontmost] = a THEN grace ELSE grace \cup {a}
             /\ messages' = messages \o <<Started, Ask(On(k), w, TRUE, generation')>>
                              \o (IF raised = None THEN <<>>
                                  ELSE <<Started, Ask({}, None, FALSE, generation')>>)
             /\ Finalize(Expected(t, w), g, TRUE)
  ELSE /\ UNCHANGED <<shown, generation, grace, messages>>
       /\ Finalize(t, g, FALSE)

Edge(a, g, t, quiet) == IF a = g /\ ~quiet THEN MainWindow(t, g) ELSE None

HandleEvent ==
  /\ events # <<>>
  /\ events' = Tail(events)
  /\ LET e == Head(events)
     IN  \/ /\ e.kind = "activated"
            /\ LET t == [Activation(apps, e.app) EXCEPT ![e.app].quiet = e.quiet]
               IN  Activates(e.app, ~e.quiet, t, global, Edge(e.app, global, t, e.quiet))
         \/ /\ e.kind = "deactivated"
            /\ UNCHANGED <<shown, generation, grace, messages>>
            /\ Finalize(Deactivation(apps, e.app), global, FALSE)
         \/ /\ e.kind = "main"
            /\ UNCHANGED <<shown, generation, grace, messages>>
            /\ Finalize(Changed(apps, e.app, e.window, e.quiet), global, FALSE)
         \/ /\ e.kind = "completed"
            /\ messages' = Append(messages, e)
            /\ UNCHANGED <<shown, generation, grace>>
            /\ Finalize(apps, global, FALSE)
  /\ UNCHANGED <<systemVars, threadVars, queued, active, tokens, userVars>>

HandleGlobal ==
  /\ globals # <<>>
  /\ globals' = Tail(globals)
  /\ LET a == Head(globals).app
     IN  \/ /\ Head(globals).kind = "on"
            /\ LET t == Activation(apps, a)
               IN  Activates(a, ~Suppressed(a), t, a, Edge(a, a, t, t[a].quiet))
         \/ /\ Head(globals).kind = "off"
            /\ UNCHANGED <<shown, generation, grace, messages>>
            /\ Finalize(Deactivation(apps, a), IF global = a THEN None ELSE global, FALSE)
  /\ UNCHANGED <<front, axMain, notes, threadVars, queued, active, tokens, events, userVars>>

-----------------------------------------------------------------------------
(* The user *)

Quiet ==
  /\ \A a \in Apps : notes[a] = {} /\ raises[a] = <<>>
  /\ globals = <<>> /\ events = <<>> /\ messages = <<>> /\ queued = <<>>
  /\ raising = None /\ active = None

\* SwitchToGlobalSlot: a switch, or the focus of the workspace that is shown.
Command(k) ==
  /\ commands < MaxCommands /\ commands' = commands + 1
  /\ case.patient => Quiet
  /\ wanted' = [kind |-> "workspace", value |-> k]
  /\ \E w \in Preferred(k) :
       IF shown = k
       THEN /\ messages' = IF w = None THEN messages ELSE Append(messages, Ask({}, w, FALSE, 0))
            /\ UNCHANGED <<shown, generation, grace>>
            /\ Finalize(apps, global, FALSE)
       ELSE LET frontmost == MainWindow(apps, global)
            IN  /\ shown' = k
                /\ generation' = generation + 1
                /\ grace' = IF w = None \/ (frontmost # None /\ App[frontmost] = App[w])
                            THEN grace ELSE grace \cup {App[w]}
                /\ messages' = messages \o <<Started, Ask(On(k), w, TRUE, generation')>>
                /\ Finalize(IF w = None THEN apps ELSE Expected(apps, w), global, TRUE)
  /\ UNCHANGED <<systemVars, threadVars, queued, active, tokens, events, case, picks>>

\* The user picks an application, whose main window comes to the front.
Pick(a) ==
  /\ picks < MaxPicks /\ picks' = picks + 1
  /\ case.patient /\ Quiet
  /\ front # a
  /\ wanted' = [kind |-> "application", value |-> a]
  /\ ComesToFront(a, axMain[a])
  /\ UNCHANGED <<threadVars, managerVars, events, reactorVars, case, commands>>

\* A second without anything under way: the graces are over.
SecondPasses ==
  /\ Quiet
  /\ grace' = {}
  /\ expecting' = [a \in Apps |-> None]
  /\ apps' = [a \in Apps |-> [apps[a] EXCEPT !.preferred = None]]
  /\ UNCHANGED <<systemVars, isFront, seen, raises, raising, managerVars, events, shown, laid,
                 global, switching, generation, lastFocus, userVars>>

-----------------------------------------------------------------------------

Init ==
  /\ case \in Cases
  /\ \E w \in case.windows :
       /\ front = App[w]
       /\ axMain \in {m \in [Apps -> case.windows] : \A a \in Apps : App[m[a]] = a}
       /\ axMain[App[w]] = w
       /\ shown = Home[w]
  /\ notes = [a \in Apps |-> {}] /\ globals = <<>>
  /\ isFront = [a \in Apps |-> a = front] /\ seen = axMain
  /\ expecting = [a \in Apps |-> None] /\ raises = [a \in Apps |-> <<>>] /\ raising = None
  /\ messages = <<>> /\ queued = <<>> /\ active = None /\ tokens = 0
  /\ events = <<>> /\ laid = shown
  /\ apps = [a \in Apps |-> [front |-> a = front, quiet |-> FALSE, main |-> axMain[a],
                             left |-> None, preferred |-> None]]
  /\ global = front /\ switching = FALSE /\ generation = 0 /\ grace = {}
  /\ lastFocus = [k \in Workspaces |-> IF k = shown THEN axMain[front] ELSE None]
  /\ wanted = [kind |-> "workspace", value |-> shown] /\ commands = 0 /\ picks = 0

Next ==
  \/ \E a \in Apps : HandleNotification(a) \/ BeginRaise(a) \/ Pick(a)
  \/ Activated \/ FinishRaise \/ ManagerStep \/ SecondPasses
  \/ ~Busy /\ (HandleEvent \/ HandleGlobal \/ \E k \in Workspaces : Command(k))

Spec == Init /\ [][Next]_vars

-----------------------------------------------------------------------------
(* What it must come to *)

\* Once all is quiet after a command, the workspace that it named is still the one that is
\* shown, one of its windows has the focus, and the reactor knows which: no late news of
\* the activations that the switch's own raises made has led away from it.
CommandTakesEffect ==
  (Quiet /\ wanted.kind = "workspace") =>
    /\ shown = wanted.value
    /\ On(shown) # {} => /\ Home[axMain[front]] = shown
                         /\ MainWindow(apps, global) = axMain[front]

\* Once all is quiet after the user picked an application, a workspace with one of its
\* windows is shown: the activation was taken for the user's, though its second notice
\* comes when the first has started a switch, or within the grace of an earlier one.
PickIsFollowed ==
  (Quiet /\ wanted.kind = "application") => \E w \in WindowsOf(wanted.value) : Home[w] = shown

\* Both: whatever the windows report by themselves, the user's last input stands.
UserIsObeyed == CommandTakesEffect /\ PickIsFollowed

\* An input switches once at most: the raises of a switch do not lead to another.
SwitchesEnd == generation <= commands + picks

\* raise_manager.rs:43 has it that "stale focus cannot reactivate a workspace that the user
\* has already left".  It can: only the application of the focus has a grace.
StaysWhereCommanded == (Quiet /\ wanted.kind = "workspace") => shown = wanted.value

\* raise_manager.rs:42 has it that "Newer switch requests supersede older tagged work".
\* The window that an automatic switch reports as raised supersedes the switch's own.
OnlyNewerSupersedes ==
  [][(active # None /\ active.tag # 0 /\ active' = None
        /\ (active.pending # {} \/ active.focus # None)) => generation > active.tag]_vars
=============================================================================
