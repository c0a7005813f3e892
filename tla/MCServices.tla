----------------------------- MODULE MCServices -----------------------------
(***************************************************************************)
(* What goes on between the reactor and its neighbours, side by side: a     *)
(* behaviour is one of the subscriptions (Ipc), one of a change of the      *)
(* configuration (Configuration), one of an application that comes and goes *)
(* (Launch), one of an application that is hidden and shown                 *)
(* (AppVisibility), or one of applications that are switched to             *)
(* (Activation).                                                            *)
(***************************************************************************)
EXTENDS Ipc

CONSTANTS Keys, Settings, Contents, Changes, MaxEdits, MaxCommands, MaxInputs,
          MaxPolicies, MaxRefusals, AppWindows, MaxWishes, MaxListings, MaxMisreadings,
          Apps, Windows, Workspaces, App, Home, Cases, MaxSwitches, MaxPicks
VARIABLES
  part,
  file, changed, watcher, enabled, asks, answers, config, queues, wmKnown, installed,
  hotkeys, request, told, done, edits, fresh, early,
  proc, regular, finished, announced, discovery, wm, policyObserver, finishObserver,
  notified, threads, rx, app, policies, refusals, dropped,
  hidden, open, miniaturised, news, refreshes, isHidden, registered, hiddenByApp, sent, tracked,
  minimised, wishes, listings, misreadings, exposed, misread,
  front, axMain, notes, globals, isFront, seen, expecting, raises, raising, messages, queued,
  active, tokens, events, shown, laid, apps, global, switching, generation, grace, lastFocus,
  case, wanted, commands, picks

Conf == INSTANCE Configuration WITH inbox <- queues
Launching == INSTANCE Launch
Hiding == INSTANCE AppVisibility
Switching == INSTANCE Activation WITH MaxCommands <- MaxSwitches

ASSUME SwitchingAssumption == Switching!ActivationAssumption
ASSUME ChangesAssumption == Conf!ConfigurationAssumption
ASSUME HidingAssumption == Hiding!AppVisibilityAssumption

confVars ==
  <<file, changed, watcher, enabled, asks, answers, config, queues, wmKnown, installed,
    hotkeys, request, told, done, edits, fresh, early>>
appVars ==
  <<proc, regular, finished, announced, discovery, wm, policyObserver, finishObserver,
    notified, threads, rx, app, policies, refusals, dropped>>
hideVars ==
  <<hidden, open, miniaturised, news, refreshes, isHidden, registered, hiddenByApp, sent, tracked,
    minimised, wishes, listings, misreadings, exposed, misread>>
switchVars ==
  <<front, axMain, notes, globals, isFront, seen, expecting, raises, raising, messages, queued,
    active, tokens, events, shown, laid, apps, global, switching, generation, grace, lastFocus,
    case, wanted, commands, picks>>

\* What a part does not use stays as it began, in one of its initial states.
MCInit ==
  /\ part \in {"ipc", "config", "apps", "hiding", "switches"}
  /\ Init /\ Conf!Init /\ Launching!Init /\ Hiding!Init /\ Switching!Init
  /\ part # "apps" => proc = "none"
  /\ part # "hiding" => open = {} /\ ~hidden
  /\ part # "switches" =>
       /\ case = CHOOSE c \in Cases : TRUE
       /\ axMain = CHOOSE m \in [Apps -> case.windows] : \A a \in Apps : App[m[a]] = a
       /\ front = CHOOSE a \in Apps : TRUE

MCNext ==
  \/ part = "ipc" /\ Next /\ UNCHANGED <<part, confVars, appVars, hideVars, switchVars>>
  \/ part = "config" /\ Conf!Next /\ UNCHANGED <<part, vars, appVars, hideVars, switchVars>>
  \/ part = "apps" /\ Launching!Next /\ UNCHANGED <<part, vars, confVars, hideVars, switchVars>>
  \/ part = "hiding" /\ Hiding!Next /\ UNCHANGED <<part, vars, confVars, appVars, switchVars>>
  \/ part = "switches" /\ Switching!Next /\ UNCHANGED <<part, vars, confVars, appVars, hideVars>>

MCSpec == MCInit /\ [][MCNext]_<<part, vars, confVars, appVars, hideVars, switchVars>>

View ==
  CASE part = "ipc" -> <<part, vars>>
    [] part = "config" -> <<part, confVars>>
    [] part = "apps" -> <<part, appVars>>
    [] part = "hiding" -> <<part, hideVars>>
    [] part = "switches" -> <<part, switchVars>>

\* The user breaks the file, binds other keys, or turns hot reloading off; a command
\* sets a pattern that does not compile.
Old == [keys |-> CHOOSE k \in Keys : TRUE, setting |-> CHOOSE s \in Settings : TRUE,
        compiles |-> TRUE, hot |-> TRUE]
OtherKeys == CHOOSE k \in Keys : k # Old.keys
SomeContents == {None, [Old EXCEPT !.keys = OtherKeys], [Old EXCEPT !.hot = FALSE]}
SomeChanges == [compiles : {FALSE}]

\* Two applications on two workspaces: a user who waits, with an application on both
\* workspaces; a user who does not, with an application on each.
p1 == <<"p", 1>>
p2 == <<"p", 2>>
q2 == <<"q", 2>>
MCWindows == {p1, p2, q2}
MCApp == [w \in Windows |-> w[1]]
MCHome == [w \in Windows |-> w[2]]
MCCases == {[patient |-> TRUE, windows |-> {p1, p2, q2}], [patient |-> FALSE, windows |-> {p1, q2}]}

\* A user who does not wait, and a workspace with two applications.
HurriedCases == {[patient |-> FALSE, windows |-> {p1, p2, q2}]}

\* The maps of subscriptions agree, and what they promise arrives.
SubscriptionsHold == MapsAgree /\ MessagesArrive

\* The reactor, the panels and the hotkeys follow the configuration, the configuration
\* follows the file, and who changed it was told the truth.
ConfigurationArrives == Conf!EveryoneFollows /\ Conf!FileIsLoaded /\ Conf!TheTruthIsTold

\* Applications that are there are managed, unless they were refused or not announced, and
\* those that are gone are not.
AppsAreFollowed == Launching!NobodyIsForgotten /\ Launching!GoneIsForgotten

\* The reactor knows which windows are out of sight, in the Dock or with their application.
HidingIsSeen == Hiding!DockIsKnown /\ Hiding!HiddenAreLeftOut

\* What the user switches to stays, and a switch leads to no other.
UserIsObeyed == Switching!UserIsObeyed /\ Switching!SwitchesEnd
=============================================================================
