------------------------------- MODULE Launch -------------------------------
(***************************************************************************)
(* How an application gets a thread, and loses it: the Carbon events       *)
(* (actor/process.rs), the window manager controller (wm_controller.rs),   *)
(* the observers that wait until an application is regular and has         *)
(* finished launching (sys/app.rs), the thread (actor/app.rs) and the      *)
(* reactor's table of applications (reactor/events/app.rs).                *)
(*                                                                         *)
(* One application, other than the login window, which need not be         *)
(* regular.  Carbon events, observers and the controller run on the main   *)
(* thread, whose run loop has to run for the policy and the launch of an   *)
(* application to change (the documentation of NSRunningApplication), so   *)
(* that neither changes within a handler.                                  *)
(***************************************************************************)
EXTENDS Naturals, SequencesExt

CONSTANTS
  MaxPolicies,  \* bound: changes of the activation policy
  MaxRefusals   \* bound: how often Accessibility refuses a new thread

VARIABLES
  proc,       \* the application: "none", "running" or "ended"
  regular,    \* its activation policy is NSApplicationActivationPolicyRegular
  finished,   \* isFinishedLaunching
  announced,  \* Carbon's launch event was sent
  discovery,  \* DiscoverRunningApps: "due", or "done" when its timer has fired
  wm,         \* the controller's channel
  policyObserver, finishObserver, \* ACTIVATION_POLICY_OBSERVERS, FINISHED_LAUNCHING_OBSERVERS
  notified,   \* READY_CALLBACK_NOTIFIED
  threads,    \* the application's threads, in the order in which they were spawned
  rx,         \* the reactor's channel
  app,        \* AppManager: the thread of the handle in `apps`, 0 when there is none
  policies, refusals,
  dropped     \* history: the application was ready and notify_ready_once kept silent

observers == <<policyObserver, finishObserver, notified>>
world == <<proc, regular, finished, announced, policies>>
vars == <<world, discovery, wm, observers, threads, rx, app, refusals, dropped>>

Event(kind, thread) == [kind |-> kind, thread |-> thread]
-----------------------------------------------------------------------------
(* The observers. *)

\* notify_ready_once, after both observers were removed.
NotifyReadyOnce ==
  /\ policyObserver' = FALSE /\ finishObserver' = FALSE
  /\ notified' = TRUE
  /\ wm' = IF notified THEN wm ELSE Append(wm, "AppLaunch")
  /\ dropped' = (dropped \/ notified)

\* handle_activation_policy
PolicyChanges ==
  /\ proc = "running" /\ policies < MaxPolicies
  /\ policies' = policies + 1
  /\ regular' = ~regular
  /\ IF policyObserver /\ regular' THEN NotifyReadyOnce ELSE UNCHANGED <<observers, wm, dropped>>
  /\ UNCHANGED <<proc, finished, announced, discovery, threads, rx, app, refusals>>

\* handle_finished_launching
Finishes ==
  /\ proc = "running" /\ ~finished
  /\ finished' = TRUE
  /\ IF finishObserver THEN NotifyReadyOnce ELSE UNCHANGED <<observers, wm, dropped>>
  /\ UNCHANGED <<proc, regular, announced, policies, discovery, threads, rx, app, refusals>>
-----------------------------------------------------------------------------
(* The application, and Carbon. *)

Launched ==
  /\ proc = "none"
  /\ proc' = "running"
  /\ regular' \in BOOLEAN /\ finished' \in BOOLEAN
  /\ UNCHANGED <<announced, policies, discovery, wm, observers, threads, rx, app, refusals, dropped>>

Announced ==
  /\ proc = "running" /\ ~announced
  /\ announced' = TRUE
  /\ wm' = Append(wm, "AppLaunch")
  /\ UNCHANGED <<proc, regular, finished, policies, discovery, observers, threads, rx, app,
                 refusals, dropped>>

Ended ==
  /\ proc = "running" /\ announced
  /\ proc' = "ended"
  /\ wm' = Append(wm, "AppTerminated")
  /\ UNCHANGED <<regular, finished, announced, policies, discovery, observers, threads, rx, app,
                 refusals, dropped>>

\* AppEventsRegistered starts a timer of 250 ms.
DiscoveryDue ==
  /\ discovery = "due"
  /\ discovery' = "done"
  /\ wm' = Append(wm, "DiscoverRunningApps")
  /\ UNCHANGED <<world, observers, threads, rx, app, refusals, dropped>>
-----------------------------------------------------------------------------
(* The controller. *)

\* new_app: an observer, at most one of each kind, or a thread, without asking whether
\* there is one.
NewApp ==
  IF proc # "running" THEN UNCHANGED <<observers, threads>>
  ELSE IF ~regular
  THEN policyObserver' = TRUE /\ UNCHANGED <<finishObserver, notified, threads>>
  ELSE IF ~finished
  THEN finishObserver' = TRUE /\ UNCHANGED <<policyObserver, notified, threads>>
  ELSE threads' = Append(threads, "starting") /\ UNCHANGED observers

\* Mutant of RunningApp: an application that is not regular yet is passed over.
FaultyRunningApp == IF proc = "running" /\ ~regular THEN UNCHANGED <<observers, threads>> ELSE NewApp

\* running_apps, which observes an application that is not regular, and new_app.
RunningApp ==
  IF proc = "running" /\ ~regular
  THEN policyObserver' = TRUE /\ UNCHANGED <<finishObserver, notified, threads>>
  ELSE NewApp

Terminated ==
  /\ policyObserver' = FALSE /\ finishObserver' = FALSE /\ notified' = FALSE
  /\ rx' = Append(rx, Event("ApplicationTerminated", 0))
  /\ UNCHANGED threads

ControllerStep ==
  /\ wm # <<>>
  /\ wm' = Tail(wm)
  /\ CASE Head(wm) = "AppLaunch" -> NewApp /\ UNCHANGED rx
       [] Head(wm) = "DiscoverRunningApps" -> RunningApp /\ UNCHANGED rx
       [] Head(wm) = "AppTerminated" -> Terminated
  /\ UNCHANGED <<world, discovery, app, refusals, dropped>>
-----------------------------------------------------------------------------
(* The threads. *)

\* app_thread_main and init: the application may have ended, or refuse a notification,
\* and is then left alone.
Start(t) ==
  /\ threads[t] = "starting"
  /\ \/ /\ proc = "running"
        /\ threads' = [threads EXCEPT ![t] = "up"]
        /\ rx' = Append(rx, Event("ApplicationLaunched", t)) /\ UNCHANGED refusals
     \/ /\ IF proc = "running"
           THEN refusals < MaxRefusals /\ refusals' = refusals + 1 ELSE UNCHANGED refusals
        /\ threads' = [threads EXCEPT ![t] = "failed"]
        /\ UNCHANGED rx
  /\ UNCHANGED <<world, discovery, wm, observers, app, dropped>>

\* A Terminate request, or the end of the application that a request brings to light.
Stops(t) ==
  /\ threads[t] = "told"
  /\ threads' = [threads EXCEPT ![t] = "stopped"]
  /\ rx' = Append(rx, Event("ApplicationThreadTerminated", t))
  /\ UNCHANGED <<world, discovery, wm, observers, app, refusals, dropped>>
-----------------------------------------------------------------------------
(* The reactor. *)

\* When the handle goes, handle_incoming ends; handle_raises waits for a channel that the
\* thread itself keeps open, and so does the thread.
Dropped(t) == IF t # 0 /\ threads[t] = "up" THEN [threads EXCEPT ![t] = "deaf"] ELSE threads

ReactorStep ==
  /\ rx # <<>>
  /\ rx' = Tail(rx)
  /\ LET e == Head(rx)
     IN CASE e.kind = "ApplicationLaunched" -> app' = e.thread /\ threads' = Dropped(app)
          [] e.kind = "ApplicationThreadTerminated" -> app' = 0 /\ threads' = Dropped(app)
          [] e.kind = "ApplicationTerminated" ->
               /\ threads' = IF app # 0 /\ threads[app] = "up"
                             THEN [threads EXCEPT ![app] = "told"] ELSE threads
               /\ UNCHANGED app
  /\ UNCHANGED <<world, discovery, wm, observers, refusals, dropped>>

\* Any request that Accessibility cannot complete because the application has ended.
RequestFails ==
  /\ app # 0 /\ threads[app] = "up" /\ proc = "ended"
  /\ threads' = [threads EXCEPT ![app] = "told"]
  /\ UNCHANGED <<world, discovery, wm, observers, rx, app, refusals, dropped>>
-----------------------------------------------------------------------------
\* The application may have been launched before Lift, in which case Carbon says nothing.
Init ==
  /\ proc \in {"none", "running"}
  /\ regular \in BOOLEAN /\ finished \in BOOLEAN /\ announced \in BOOLEAN
  /\ announced => proc = "running"
  /\ proc = "none" => ~regular /\ ~finished
  /\ discovery = "due"
  /\ wm = <<>> /\ policyObserver = FALSE /\ finishObserver = FALSE /\ notified = FALSE
  /\ threads = <<>> /\ rx = <<>> /\ app = 0
  /\ policies = 0 /\ refusals = 0 /\ dropped = FALSE

Next ==
  \/ PolicyChanges \/ Finishes \/ Launched \/ Announced \/ Ended \/ DiscoveryDue
  \/ ControllerStep \/ ReactorStep \/ RequestFails
  \/ \E t \in DOMAIN threads : Start(t) \/ Stops(t)

Spec == Init /\ [][Next]_vars
-----------------------------------------------------------------------------
AtRest ==
  /\ wm = <<>> /\ rx = <<>> /\ discovery = "done"
  /\ proc = "running" => announced
  /\ \A t \in DOMAIN threads : threads[t] \notin {"starting", "told"}

Managed == app # 0 /\ threads[app] = "up"

\* When nothing is under way, an application that runs, is regular and has finished
\* launching has a thread that the reactor can reach, whichever of the launch event, the
\* observers and the discovery came first and however often it was found; unless
\* Accessibility refused, or the news that it was ready was dropped.
NobodyIsForgotten ==
  AtRest /\ proc = "running" /\ regular /\ finished => Managed \/ refusals > 0 \/ dropped

\* What does not hold: the exception for dropped news.  An application that becomes
\* regular before it has finished launching is never heard of again.
ReadyIsHeard ==
  AtRest /\ proc = "running" /\ regular /\ finished => Managed \/ refusals > 0

\* What does not hold: of the threads of an application that was found twice, the first
\* never ends.
NoThreadIsLeft == AtRest => \A t \in DOMAIN threads : threads[t] # "deaf"

\* When nothing is under way, the reactor keeps no application that has ended.
GoneIsForgotten == AtRest /\ proc = "ended" => app = 0
=============================================================================
