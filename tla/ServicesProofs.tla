-------------------------- MODULE ServicesProofs --------------------------
(***************************************************************************)
(* The reactor and its neighbours, for any bounds: the threads of an       *)
(* application that comes and goes (Launch), the copies of the             *)
(* configuration behind the reactor's queue and the controller's           *)
(* (Configuration), and the maps and messages of subscriptions (Ipc).      *)
(* HidingProofs has the hidden applications.                               *)
(***************************************************************************)
EXTENDS MCServices, FiniteSetTheorems, TLAPS

-----------------------------------------------------------------------------
(* Queues. *)

LEMMA AppendElements ==
  ASSUME NEW S, NEW s \in Seq(S), NEW e \in S
  PROVE  /\ Append(s, e) \in Seq(S) /\ Append(s, e) # <<>>
         /\ DOMAIN s = 1..Len(s) /\ DOMAIN Append(s, e) = 1..Len(s) + 1 /\ Len(s) \in Nat
         /\ \A i \in 1..Len(s) : Append(s, e)[i] = s[i]
         /\ Append(s, e)[Len(s) + 1] = e
OBVIOUS

LEMMA TailElements ==
  ASSUME NEW S, NEW s \in Seq(S), s # <<>>
  PROVE  /\ Tail(s) \in Seq(S) /\ Head(s) = s[1] /\ Head(s) \in S
         /\ DOMAIN s = 1..Len(s) /\ DOMAIN Tail(s) = 1..Len(s) - 1 /\ Len(s) \in Nat \ {0}
         /\ \A i \in 1..Len(s) - 1 : Tail(s)[i] = s[i + 1]
OBVIOUS

-----------------------------------------------------------------------------
(* Launch. *)

Told == {"AppLaunch", "DiscoverRunningApps", "AppTerminated"}
Kinds == {"ApplicationLaunched", "ApplicationThreadTerminated", "ApplicationTerminated"}
Lives == {"starting", "up", "failed", "told", "stopped", "deaf"}

LaunchTypeOK ==
  /\ proc \in {"none", "running", "ended"} /\ discovery \in {"due", "done"}
  /\ {regular, finished, announced, policyObserver, finishObserver, notified, dropped} \subseteq BOOLEAN
  /\ wm \in Seq(Told) /\ threads \in Seq(Lives)
  /\ rx \in Seq([kind : Kinds, thread : Nat])
  /\ app \in Nat /\ refusals \in Nat

\* Nobody ends before the application does.
NobodyEnds ==
  proc # "ended" =>
    /\ \A i \in DOMAIN wm : wm[i] # "AppTerminated"
    /\ \A i \in DOMAIN rx : rx[i].kind = "ApplicationLaunched"
    /\ \A t \in DOMAIN threads : threads[t] \notin {"told", "stopped"}

\* An observer waits for what has not happened yet, and only what runs is announced.
ObserversWait ==
  /\ announced => proc # "none"
  /\ policyObserver => ~regular /\ proc # "none"
  /\ finishObserver => ~finished /\ proc # "none"

\* The reactor hears of every thread once, while it is up, and keeps no thread that is gone
\* unless it is about to hear of that.
ThreadsAreHeardOf ==
  \A i \in DOMAIN rx : rx[i].kind = "ApplicationLaunched" =>
    /\ rx[i].thread \in DOMAIN threads /\ threads[rx[i].thread] = "up" /\ rx[i].thread # app
    /\ \A j \in DOMAIN rx : rx[j].kind = "ApplicationLaunched" /\ rx[j].thread = rx[i].thread => i = j
HandleIsLive ==
  app # 0 =>
    /\ app \in DOMAIN threads /\ threads[app] \in {"up", "told", "stopped"}
    /\ threads[app] = "stopped" => \E i \in DOMAIN rx : rx[i].kind = "ApplicationThreadTerminated"

\* Somebody will still look at a running application, or it has its thread.
OnItsWay(t) ==
  \/ threads[t] = "starting"
  \/ /\ threads[t] = "up"
     /\ t = app \/ \E i \in DOMAIN rx : rx[i].kind = "ApplicationLaunched" /\ rx[i].thread = t
IsFollowed ==
  proc = "running" =>
    \/ wm # <<>> \/ discovery = "due" \/ ~announced
    \/ dropped \/ refusals > 0 \/ policyObserver \/ finishObserver
    \/ \E t \in DOMAIN threads : OnItsWay(t)

\* The end of an application reaches the reactor after its last thread did.
EndsAfterLaunches(k) ==
  /\ rx[k].kind = "ApplicationTerminated"
  /\ \A i \in DOMAIN rx : rx[i].kind = "ApplicationLaunched" => i < k
EndIsHeardOf ==
  proc = "ended" =>
    \/ \E i \in DOMAIN wm : wm[i] = "AppTerminated"
    \/ \E k \in DOMAIN rx : EndsAfterLaunches(k)
    \/ /\ \A i \in DOMAIN rx : rx[i].kind # "ApplicationLaunched"
       /\ app # 0 => threads[app] \in {"told", "stopped"}

LaunchInv ==
  LaunchTypeOK /\ NobodyEnds /\ ObserversWait /\ ThreadsAreHeardOf /\ HandleIsLive /\ IsFollowed
  /\ EndIsHeardOf

LEMMA LaunchFollows == LaunchInv => AppsAreFollowed
<1>. SUFFICES ASSUME LaunchInv, Launching!AtRest
              PROVE  /\ proc = "running" /\ regular /\ finished => Launching!Managed \/ refusals > 0 \/ dropped
                     /\ proc = "ended" => app = 0
  BY DEF AppsAreFollowed, Launching!NobodyIsForgotten, Launching!GoneIsForgotten
<1>1. /\ wm = <<>> /\ rx = <<>> /\ discovery = "done" /\ (proc = "running" => announced)
      /\ \A t \in DOMAIN threads : threads[t] \notin {"starting", "told"}
  BY DEF Launching!AtRest
<1>2. DOMAIN rx = {} /\ DOMAIN wm = {}
  BY <1>1
<1>3. ASSUME proc = "running", regular, finished
      PROVE  Launching!Managed \/ refusals > 0 \/ dropped
  <2>1. CASE \E t \in DOMAIN threads : OnItsWay(t)
    <3>1. PICK t \in DOMAIN threads : OnItsWay(t)
      BY <2>1
    <3>2. threads[t] = "up" /\ t = app
      BY <1>1, <1>2, <3>1 DEF OnItsWay
    <3>3. t # 0
      BY <3>1 DEF LaunchInv, LaunchTypeOK
    <3>. QED  BY <3>2, <3>3 DEF Launching!Managed
  <2>2. CASE ~\E t \in DOMAIN threads : OnItsWay(t)
    BY <1>1, <1>3, <2>2 DEF LaunchInv, IsFollowed, ObserversWait
  <2>. QED  BY <2>1, <2>2
<1>4. ASSUME proc = "ended"  PROVE app = 0
  BY <1>1, <1>2, <1>4 DEF LaunchInv, EndIsHeardOf, HandleIsLive
<1>. QED  BY <1>3, <1>4

\* Steps of the application and its observers, which leave threads and the reactor alone.
LEMMA ReactorUnmoved ==
  ASSUME LaunchInv, UNCHANGED <<rx, threads, app>>
  PROVE  ThreadsAreHeardOf' /\ HandleIsLive'
BY DEF LaunchInv, ThreadsAreHeardOf, HandleIsLive

\* What is appended to the controller's queue is known to be there.
LEMMA ControllerTold ==
  ASSUME LaunchInv, NEW e \in Told, wm' = Append(wm, e)
  PROVE  /\ wm' \in Seq(Told) /\ wm' # <<>>
         /\ e # "AppTerminated" /\ (\A i \in DOMAIN wm : wm[i] # "AppTerminated")
              => \A i \in DOMAIN wm' : wm'[i] # "AppTerminated"
         /\ (\E i \in DOMAIN wm : wm[i] = "AppTerminated") => \E i \in DOMAIN wm' : wm'[i] = "AppTerminated"
         /\ e = "AppTerminated" => \E i \in DOMAIN wm' : wm'[i] = "AppTerminated"
<1>1. wm \in Seq(Told)
  BY DEF LaunchInv, LaunchTypeOK
<1>2. /\ wm' \in Seq(Told) /\ wm' # <<>>
      /\ DOMAIN wm = 1..Len(wm) /\ DOMAIN wm' = 1..Len(wm) + 1 /\ Len(wm) \in Nat
      /\ \A i \in 1..Len(wm) : wm'[i] = wm[i]
      /\ wm'[Len(wm) + 1] = e
  BY <1>1, AppendElements
<1>. QED  BY <1>2

\* Both observers go; the controller hears of it, or the news is dropped.
LEMMA Notifies ==
  ASSUME LaunchInv, Launching!NotifyReadyOnce
  PROVE  /\ policyObserver' = FALSE /\ finishObserver' = FALSE
         /\ notified' \in BOOLEAN /\ dropped' \in BOOLEAN
         /\ wm' \in Seq(Told) /\ (wm' # <<>> \/ dropped')
         /\ (\A i \in DOMAIN wm : wm[i] # "AppTerminated") => \A i \in DOMAIN wm' : wm'[i] # "AppTerminated"
<1>1. wm \in Seq(Told) /\ notified \in BOOLEAN /\ dropped \in BOOLEAN
  BY DEF LaunchInv, LaunchTypeOK
<1>2. CASE notified
  BY <1>1, <1>2 DEF Launching!NotifyReadyOnce
<1>3. CASE ~notified
  <2>1. wm' = Append(wm, "AppLaunch") /\ "AppLaunch" \in Told
    BY <1>3 DEF Launching!NotifyReadyOnce, Told
  <2>. QED  BY <1>1, <2>1, ControllerTold DEF Launching!NotifyReadyOnce
<1>. QED  BY <1>2, <1>3

LEMMA LaunchPolicy == LaunchInv /\ Launching!PolicyChanges => LaunchInv'
<1>. SUFFICES ASSUME LaunchInv, Launching!PolicyChanges  PROVE LaunchInv'
  OBVIOUS
<1>. USE DEF Launching!PolicyChanges, Launching!observers
<1>0. /\ proc = "running" /\ regular' = ~regular
      /\ UNCHANGED <<proc, finished, announced, discovery, threads, rx, app, refusals>>
  OBVIOUS
<1>1. CASE policyObserver /\ regular'
  <2>0. Launching!NotifyReadyOnce
    BY <1>1
  <2>1. LaunchTypeOK' /\ NobodyEnds' /\ ObserversWait'
    BY <1>0, <2>0, Notifies DEF LaunchInv, LaunchTypeOK, NobodyEnds, ObserversWait
  <2>2. IsFollowed' /\ EndIsHeardOf'
    BY <1>0, <2>0, Notifies DEF IsFollowed, EndIsHeardOf
  <2>. QED  BY <1>0, <2>1, <2>2, ReactorUnmoved DEF LaunchInv
<1>2. CASE ~(policyObserver /\ regular')
  <2>0. UNCHANGED <<policyObserver, finishObserver, notified, wm, dropped>>
    BY <1>2
  <2>1. LaunchTypeOK' /\ NobodyEnds' /\ ObserversWait'
    BY <1>0, <1>2, <2>0 DEF LaunchInv, LaunchTypeOK, NobodyEnds, ObserversWait
  <2>2. IsFollowed' /\ EndIsHeardOf'
    BY <1>0, <2>0 DEF LaunchInv, IsFollowed, EndIsHeardOf, OnItsWay
  <2>. QED  BY <1>0, <2>1, <2>2, ReactorUnmoved DEF LaunchInv
<1>. QED  BY <1>1, <1>2

LEMMA LaunchFinishes == LaunchInv /\ Launching!Finishes => LaunchInv'
<1>. SUFFICES ASSUME LaunchInv, Launching!Finishes  PROVE LaunchInv'
  OBVIOUS
<1>. USE DEF Launching!Finishes, Launching!observers
<1>0. /\ proc = "running" /\ finished' = TRUE
      /\ UNCHANGED <<proc, regular, announced, discovery, threads, rx, app, refusals>>
  OBVIOUS
<1>1. CASE finishObserver
  <2>0. Launching!NotifyReadyOnce
    BY <1>1
  <2>1. LaunchTypeOK' /\ NobodyEnds' /\ ObserversWait'
    BY <1>0, <2>0, Notifies DEF LaunchInv, LaunchTypeOK, NobodyEnds, ObserversWait
  <2>2. IsFollowed' /\ EndIsHeardOf'
    BY <1>0, <2>0, Notifies DEF IsFollowed, EndIsHeardOf
  <2>. QED  BY <1>0, <2>1, <2>2, ReactorUnmoved DEF LaunchInv
<1>2. CASE ~finishObserver
  <2>0. UNCHANGED <<policyObserver, finishObserver, notified, wm, dropped>>
    BY <1>2
  <2>1. LaunchTypeOK' /\ NobodyEnds' /\ ObserversWait'
    BY <1>0, <1>2, <2>0 DEF LaunchInv, LaunchTypeOK, NobodyEnds, ObserversWait
  <2>2. IsFollowed' /\ EndIsHeardOf'
    BY <1>0, <2>0 DEF LaunchInv, IsFollowed, EndIsHeardOf, OnItsWay
  <2>. QED  BY <1>0, <2>1, <2>2, ReactorUnmoved DEF LaunchInv
<1>. QED  BY <1>1, <1>2

\* An application that is launched has nothing under way but the timer of the discovery, ...
LEMMA LaunchLaunched == LaunchInv /\ Launching!Launched => LaunchInv'
<1>. SUFFICES ASSUME LaunchInv, Launching!Launched  PROVE LaunchInv'
  OBVIOUS
<1>0. /\ proc = "none" /\ proc' = "running" /\ regular' \in BOOLEAN /\ finished' \in BOOLEAN
      /\ UNCHANGED <<announced, discovery, wm, policyObserver, finishObserver, notified, threads, rx,
                     app, refusals, dropped>>
  BY DEF Launching!Launched, Launching!observers
<1>1. LaunchTypeOK' /\ NobodyEnds' /\ ObserversWait'
  BY <1>0 DEF LaunchInv, LaunchTypeOK, NobodyEnds, ObserversWait
<1>2. IsFollowed' /\ EndIsHeardOf'
  BY <1>0 DEF LaunchInv, ObserversWait, LaunchTypeOK, IsFollowed, EndIsHeardOf
<1>. QED  BY <1>0, <1>1, <1>2, ReactorUnmoved DEF LaunchInv

LEMMA LaunchAnnounced == LaunchInv /\ Launching!Announced => LaunchInv'
<1>. SUFFICES ASSUME LaunchInv, Launching!Announced  PROVE LaunchInv'
  OBVIOUS
<1>0. /\ proc = "running" /\ announced' = TRUE /\ wm' = Append(wm, "AppLaunch") /\ "AppLaunch" \in Told
      /\ UNCHANGED <<proc, regular, finished, discovery, policyObserver, finishObserver, notified,
                     threads, rx, app, refusals, dropped>>
  BY DEF Launching!Announced, Launching!observers, Told
<1>1. LaunchTypeOK' /\ NobodyEnds' /\ ObserversWait'
  BY <1>0, ControllerTold DEF LaunchInv, LaunchTypeOK, NobodyEnds, ObserversWait
<1>2. IsFollowed' /\ EndIsHeardOf'
  BY <1>0, ControllerTold DEF IsFollowed, EndIsHeardOf
<1>. QED  BY <1>0, <1>1, <1>2, ReactorUnmoved DEF LaunchInv

LEMMA LaunchDiscovery == LaunchInv /\ Launching!DiscoveryDue => LaunchInv'
<1>. SUFFICES ASSUME LaunchInv, Launching!DiscoveryDue  PROVE LaunchInv'
  OBVIOUS
<1>0. /\ discovery' = "done" /\ wm' = Append(wm, "DiscoverRunningApps") /\ "DiscoverRunningApps" \in Told
      /\ UNCHANGED <<proc, regular, finished, announced, policyObserver, finishObserver, notified,
                     threads, rx, app, refusals, dropped>>
  BY DEF Launching!DiscoveryDue, Launching!observers, Launching!world, Told
<1>1. LaunchTypeOK' /\ NobodyEnds' /\ ObserversWait'
  BY <1>0, ControllerTold DEF LaunchInv, LaunchTypeOK, NobodyEnds, ObserversWait
<1>2. IsFollowed'
  BY <1>0, ControllerTold DEF IsFollowed
<1>3. EndIsHeardOf'
  <2>1. (\E i \in DOMAIN wm : wm[i] = "AppTerminated") => \E i \in DOMAIN wm' : wm'[i] = "AppTerminated"
    BY <1>0, ControllerTold
  <2>2. \A k : EndsAfterLaunches(k)' <=> EndsAfterLaunches(k)
    BY <1>0 DEF EndsAfterLaunches
  <2>. QED  BY <1>0, <2>1, <2>2 DEF LaunchInv, EndIsHeardOf
<1>. QED  BY <1>0, <1>1, <1>2, <1>3, ReactorUnmoved DEF LaunchInv

\* ... and its end is put into the controller's queue.
LEMMA LaunchEnded == LaunchInv /\ Launching!Ended => LaunchInv'
<1>. SUFFICES ASSUME LaunchInv, Launching!Ended  PROVE LaunchInv'
  OBVIOUS
<1>0. /\ proc = "running" /\ proc' = "ended" /\ wm' = Append(wm, "AppTerminated") /\ "AppTerminated" \in Told
      /\ UNCHANGED <<regular, finished, announced, discovery, policyObserver, finishObserver, notified,
                     threads, rx, app, refusals, dropped>>
  BY DEF Launching!Ended, Launching!observers, Told
<1>1. LaunchTypeOK' /\ NobodyEnds' /\ ObserversWait' /\ IsFollowed'
  BY <1>0, ControllerTold DEF LaunchInv, LaunchTypeOK, NobodyEnds, ObserversWait, IsFollowed
<1>2. EndIsHeardOf'
  BY <1>0, ControllerTold DEF EndIsHeardOf
<1>. QED  BY <1>0, <1>1, <1>2, ReactorUnmoved DEF LaunchInv

\* new_app finds an application that is not running, or leaves somebody who will look at it.
LEMMA LaunchNewApp ==
  ASSUME LaunchInv, Launching!NewApp \/ Launching!RunningApp
  PROVE  \/ proc # "running" /\ UNCHANGED <<policyObserver, finishObserver, notified, threads>>
         \/ /\ proc = "running" /\ ~regular /\ policyObserver' = TRUE
            /\ UNCHANGED <<finishObserver, notified, threads>>
         \/ /\ proc = "running" /\ ~finished /\ finishObserver' = TRUE
            /\ UNCHANGED <<policyObserver, notified, threads>>
         \/ /\ proc = "running" /\ threads' = Append(threads, "starting")
            /\ UNCHANGED <<policyObserver, finishObserver, notified>>
BY DEF Launching!NewApp, Launching!RunningApp, Launching!observers

\* What is taken from the controller's queue was its first entry.
LEMMA ControllerTakes ==
  ASSUME LaunchInv, wm # <<>>, wm' = Tail(wm)
  PROVE  /\ wm' \in Seq(Told) /\ Head(wm) \in Told
         /\ (\A i \in DOMAIN wm : wm[i] # "AppTerminated")
              => Head(wm) # "AppTerminated" /\ \A i \in DOMAIN wm' : wm'[i] # "AppTerminated"
         /\ Head(wm) # "AppTerminated" /\ (\E i \in DOMAIN wm : wm[i] = "AppTerminated")
              => \E i \in DOMAIN wm' : wm'[i] = "AppTerminated"
<1>1. wm \in Seq(Told)
  BY DEF LaunchInv, LaunchTypeOK
<1>2. /\ wm' \in Seq(Told) /\ Head(wm) = wm[1] /\ Head(wm) \in Told
      /\ DOMAIN wm = 1..Len(wm) /\ DOMAIN wm' = 1..Len(wm) - 1 /\ Len(wm) \in Nat \ {0}
      /\ \A i \in 1..Len(wm) - 1 : wm'[i] = wm[i + 1]
  BY <1>1, TailElements
<1>3. ASSUME \A i \in DOMAIN wm : wm[i] # "AppTerminated"
      PROVE  Head(wm) # "AppTerminated" /\ \A i \in DOMAIN wm' : wm'[i] # "AppTerminated"
  BY <1>2, <1>3
<1>4. ASSUME Head(wm) # "AppTerminated", NEW i \in DOMAIN wm, wm[i] = "AppTerminated"
      PROVE  \E j \in DOMAIN wm' : wm'[j] = "AppTerminated"
  <2>1. i # 1 /\ i - 1 \in 1..Len(wm) - 1 /\ (i - 1) + 1 = i
    BY <1>2, <1>4
  <2>2. wm'[i - 1] = wm[i]
    BY <1>2, <2>1
  <2>. QED  BY <1>2, <1>4, <2>1, <2>2
<1>. QED  BY <1>2, <1>3, <1>4

\* What a new thread changes: nothing for the others.
LEMMA ThreadAdded ==
  ASSUME LaunchInv, threads' = Append(threads, "starting")
  PROVE  /\ threads' \in Seq(Lives) /\ DOMAIN threads \subseteq DOMAIN threads'
         /\ \A t \in DOMAIN threads : threads'[t] = threads[t]
         /\ \E t \in DOMAIN threads' : threads'[t] = "starting"
         /\ \A t \in DOMAIN threads' : t \in DOMAIN threads \/ threads'[t] = "starting"
<1>1. threads \in Seq(Lives) /\ "starting" \in Lives
  BY DEF LaunchInv, LaunchTypeOK, Lives
<1>2. /\ threads' \in Seq(Lives) /\ DOMAIN threads = 1..Len(threads) /\ Len(threads) \in Nat
      /\ DOMAIN threads' = 1..Len(threads) + 1
      /\ \A i \in 1..Len(threads) : threads'[i] = threads[i]
      /\ threads'[Len(threads) + 1] = "starting"
  BY <1>1, AppendElements
<1>. QED  BY <1>2

\* A launch or the discovery, ...
LEMMA LaunchFound ==
  ASSUME LaunchInv, wm # <<>>, wm' = Tail(wm), Head(wm) # "AppTerminated",
         Launching!NewApp \/ Launching!RunningApp,
         UNCHANGED <<proc, regular, finished, announced, discovery, rx, app, refusals, dropped>>
  PROVE  LaunchInv'
<1>1. /\ wm' \in Seq(Told)
      /\ (\A i \in DOMAIN wm : wm[i] # "AppTerminated") => \A i \in DOMAIN wm' : wm'[i] # "AppTerminated"
      /\ (\E i \in DOMAIN wm : wm[i] = "AppTerminated") => \E i \in DOMAIN wm' : wm'[i] = "AppTerminated"
  BY ControllerTakes
<1>0. /\ {policyObserver', finishObserver', notified'} \subseteq BOOLEAN
      /\ ObserversWait'
  <2>1. /\ {policyObserver, finishObserver, notified} \subseteq BOOLEAN
        /\ ObserversWait
    BY DEF LaunchInv, LaunchTypeOK
  <2>2. CASE UNCHANGED <<policyObserver, finishObserver, notified>>
    BY <2>1, <2>2 DEF ObserversWait
  <2>3. CASE /\ proc = "running" /\ ~regular /\ policyObserver' = TRUE
             /\ UNCHANGED <<finishObserver, notified>>
    BY <2>1, <2>3 DEF ObserversWait
  <2>4. CASE /\ proc = "running" /\ ~finished /\ finishObserver' = TRUE
             /\ UNCHANGED <<policyObserver, notified>>
    BY <2>1, <2>4 DEF ObserversWait
  <2>. QED  BY <2>2, <2>3, <2>4, LaunchNewApp
<1>2. CASE UNCHANGED threads
  <2>1. LaunchTypeOK' /\ NobodyEnds'
    BY <1>0, <1>1, <1>2 DEF LaunchInv, LaunchTypeOK, NobodyEnds
  <2>2. IsFollowed'
    <3>1. CASE \E t \in DOMAIN threads : threads[t] = "starting"
      BY <1>2, <3>1 DEF IsFollowed, OnItsWay
    <3>2. proc # "running" \/ policyObserver' \/ finishObserver' \/ threads' = Append(threads, "starting")
      BY LaunchNewApp
    <3>3. threads' # Append(threads, "starting")
      <4>1. threads \in Seq(Lives) /\ "starting" \in Lives
        BY DEF LaunchInv, LaunchTypeOK, Lives
      <4>2. Len(Append(threads, "starting")) = Len(threads) + 1 /\ Len(threads) \in Nat
        BY <4>1
      <4>. QED  BY <1>2, <4>2
    <3>. QED  BY <3>2, <3>3 DEF IsFollowed
  <2>3. \A k : EndsAfterLaunches(k)' <=> EndsAfterLaunches(k)
    BY DEF EndsAfterLaunches
  <2>4. EndIsHeardOf'
    BY <1>1, <1>2, <2>3 DEF LaunchInv, EndIsHeardOf
  <2>. QED  BY <1>0, <1>2, <2>1, <2>2, <2>4, ReactorUnmoved DEF LaunchInv
<1>3. CASE threads' = Append(threads, "starting")
  <2>1. /\ threads' \in Seq(Lives) /\ DOMAIN threads \subseteq DOMAIN threads'
        /\ \A t \in DOMAIN threads : threads'[t] = threads[t]
        /\ \E t \in DOMAIN threads' : threads'[t] = "starting"
        /\ \A t \in DOMAIN threads' : t \in DOMAIN threads \/ threads'[t] = "starting"
    BY <1>3, ThreadAdded
  <2>2. LaunchTypeOK'
    BY <1>0, <1>1, <2>1 DEF LaunchInv, LaunchTypeOK
  <2>3. NobodyEnds'
    BY <1>1, <2>1 DEF LaunchInv, NobodyEnds
  <2>4. ThreadsAreHeardOf' /\ HandleIsLive'
    BY <2>1 DEF LaunchInv, ThreadsAreHeardOf, HandleIsLive
  <2>5. IsFollowed'
    BY <2>1 DEF IsFollowed, OnItsWay
  <2>6. \A k : EndsAfterLaunches(k)' <=> EndsAfterLaunches(k)
    BY DEF EndsAfterLaunches
  <2>7. EndIsHeardOf'
    BY <1>1, <2>1, <2>6 DEF LaunchInv, EndIsHeardOf, HandleIsLive
  <2>. QED  BY <1>0, <2>2, <2>3, <2>4, <2>5, <2>7 DEF LaunchInv
<1>. QED  BY <1>2, <1>3, LaunchNewApp

\* What is sent to the reactor is the last in its queue.
Sent(e) == rx' = Append(rx, e) /\ e \in [kind : Kinds, thread : Nat]

LEMMA ReactorSent ==
  ASSUME LaunchInv, NEW e, Sent(e)
  PROVE  /\ rx' \in Seq([kind : Kinds, thread : Nat])
         /\ DOMAIN rx = 1..Len(rx) /\ DOMAIN rx' = 1..Len(rx) + 1 /\ Len(rx) \in Nat
         /\ \A i \in 1..Len(rx) : rx'[i] = rx[i]
         /\ rx'[Len(rx) + 1] = e
<1>1. rx \in Seq([kind : Kinds, thread : Nat])
  BY DEF LaunchInv, LaunchTypeOK
<1>. QED  BY <1>1, AppendElements DEF Sent

\* ... and the end: it is sent to the reactor after every launch that was.
LEMMA LaunchTerminated ==
  ASSUME LaunchInv, wm # <<>>, wm' = Tail(wm), Head(wm) = "AppTerminated", Launching!Terminated,
         UNCHANGED <<proc, regular, finished, announced, discovery, app, refusals, dropped>>
  PROVE  LaunchInv'
<1>1. proc = "ended" /\ wm' \in Seq(Told)
  BY ControllerTakes DEF LaunchInv, NobodyEnds
<1>. DEFINE e == [kind |-> "ApplicationTerminated", thread |-> 0]
<1>2. /\ Sent(e) /\ UNCHANGED threads
      /\ policyObserver' = FALSE /\ finishObserver' = FALSE /\ notified' = FALSE
  BY DEF Launching!Terminated, Launching!Event, Sent, Kinds
<1>3. e.kind = "ApplicationTerminated"
  OBVIOUS
<1>. HIDE DEF e
<1>4. /\ rx' \in Seq([kind : Kinds, thread : Nat])
      /\ DOMAIN rx = 1..Len(rx) /\ DOMAIN rx' = 1..Len(rx) + 1 /\ Len(rx) \in Nat
      /\ \A i \in 1..Len(rx) : rx'[i] = rx[i]
      /\ rx'[Len(rx) + 1] = e
  BY <1>2, ReactorSent
<1>5. LaunchTypeOK' /\ NobodyEnds' /\ ObserversWait' /\ IsFollowed'
  BY <1>1, <1>2, <1>4 DEF LaunchInv, LaunchTypeOK, NobodyEnds, ObserversWait, IsFollowed
<1>6. \A i \in DOMAIN rx' : rx'[i].kind = "ApplicationLaunched" => i \in DOMAIN rx /\ rx'[i] = rx[i]
  BY <1>3, <1>4
<1>7. ThreadsAreHeardOf'
  BY <1>2, <1>6 DEF LaunchInv, ThreadsAreHeardOf
<1>8. HandleIsLive'
  BY <1>2, <1>4 DEF LaunchInv, HandleIsLive
<1>9. EndIsHeardOf'
  <2>1. PICK k : k = Len(rx) + 1
    OBVIOUS
  <2>2. EndsAfterLaunches(k)' /\ k \in DOMAIN rx'
    BY <1>3, <1>4, <1>6, <2>1 DEF EndsAfterLaunches
  <2>. QED  BY <2>2 DEF EndIsHeardOf
<1>. QED  BY <1>5, <1>7, <1>8, <1>9 DEF LaunchInv

LEMMA LaunchController == LaunchInv /\ Launching!ControllerStep => LaunchInv'
<1>. SUFFICES ASSUME LaunchInv, Launching!ControllerStep  PROVE LaunchInv'
  OBVIOUS
<1>1. /\ wm # <<>> /\ wm' = Tail(wm)
      /\ UNCHANGED <<proc, regular, finished, announced, discovery, app, refusals, dropped>>
  BY DEF Launching!ControllerStep, Launching!world
<1>2. Head(wm) \in {"AppLaunch", "DiscoverRunningApps", "AppTerminated"}
  BY <1>1, ControllerTakes DEF Told
<1>3. CASE Head(wm) # "AppTerminated"
  <2>1. (Launching!NewApp \/ Launching!RunningApp) /\ UNCHANGED rx
    BY <1>2, <1>3 DEF Launching!ControllerStep
  <2>. QED  BY <1>1, <1>3, <2>1, LaunchFound
<1>4. CASE Head(wm) = "AppTerminated"
  <2>1. Launching!Terminated
    BY <1>4 DEF Launching!ControllerStep
  <2>. QED  BY <1>1, <1>4, <2>1, LaunchTerminated
<1>. QED  BY <1>3, <1>4

\* A thread is up and tells the reactor, or it fails because the application has ended or
\* Accessibility refuses.
LEMMA LaunchStart ==
  ASSUME LaunchInv, NEW t \in DOMAIN threads, Launching!Start(t)
  PROVE  LaunchInv'
<1>1. /\ threads[t] = "starting" /\ threads \in Seq(Lives)
      /\ UNCHANGED <<proc, regular, finished, announced, discovery, wm, policyObserver, finishObserver,
                     notified, app, dropped>>
  BY DEF Launching!Start, Launching!world, Launching!observers, LaunchInv, LaunchTypeOK
<1>2. CASE /\ proc = "running" /\ threads' = [threads EXCEPT ![t] = "up"]
           /\ rx' = Append(rx, Launching!Event("ApplicationLaunched", t)) /\ UNCHANGED refusals
  <2>. DEFINE e == [kind |-> "ApplicationLaunched", thread |-> t]
  <2>1. Sent(e)
    BY <1>1, <1>2 DEF Launching!Event, Sent, Kinds
  <2>2. e.kind = "ApplicationLaunched" /\ e.thread = t
    OBVIOUS
  <2>. HIDE DEF e
  <2>3. /\ rx' \in Seq([kind : Kinds, thread : Nat])
        /\ DOMAIN rx = 1..Len(rx) /\ DOMAIN rx' = 1..Len(rx) + 1 /\ Len(rx) \in Nat
        /\ \A i \in 1..Len(rx) : rx'[i] = rx[i]
        /\ rx'[Len(rx) + 1] = e
    BY <2>1, ReactorSent
  <2>4. /\ threads' \in Seq(Lives) /\ DOMAIN threads' = DOMAIN threads
        /\ threads'[t] = "up" /\ \A u \in DOMAIN threads \ {t} : threads'[u] = threads[u]
    BY <1>1, <1>2 DEF Lives
  <2>5. LaunchTypeOK' /\ NobodyEnds' /\ ObserversWait'
    <3>1. LaunchTypeOK' /\ ObserversWait'
      BY <1>1, <1>2, <2>3, <2>4 DEF LaunchInv, LaunchTypeOK, ObserversWait
    <3>2. \A i \in DOMAIN rx' : rx'[i].kind = "ApplicationLaunched"
      BY <1>2, <2>2, <2>3 DEF LaunchInv, NobodyEnds
    <3>3. \A u \in DOMAIN threads' : threads'[u] \notin {"told", "stopped"}
      BY <1>2, <2>4 DEF LaunchInv, NobodyEnds
    <3>. QED  BY <1>1, <3>1, <3>2, <3>3 DEF LaunchInv, NobodyEnds
  <2>6. \A i \in DOMAIN rx : rx[i].kind = "ApplicationLaunched" => rx[i].thread # t
    BY <1>1 DEF LaunchInv, ThreadsAreHeardOf
  <2>7. app # t
    BY <1>1 DEF LaunchInv, HandleIsLive, LaunchTypeOK
  <2>8. ThreadsAreHeardOf'
    <3>1. ASSUME NEW i \in DOMAIN rx', rx'[i].kind = "ApplicationLaunched"
          PROVE  /\ rx'[i].thread \in DOMAIN threads' /\ threads'[rx'[i].thread] = "up" /\ rx'[i].thread # app'
                 /\ \A j \in DOMAIN rx' : rx'[j].kind = "ApplicationLaunched" /\ rx'[j].thread = rx'[i].thread => i = j
      <4>1. CASE i \in DOMAIN rx
        <5>1. /\ rx'[i] = rx[i] /\ rx[i].thread \in DOMAIN threads \ {t} /\ threads[rx[i].thread] = "up"
              /\ rx[i].thread # app
          BY <2>3, <2>6, <3>1, <4>1 DEF LaunchInv, ThreadsAreHeardOf
        <5>2. \A j \in DOMAIN rx' : rx'[j].thread # t => j \in DOMAIN rx /\ rx'[j] = rx[j]
          BY <2>2, <2>3
        <5>3. \A j \in DOMAIN rx : rx[j].kind = "ApplicationLaunched" /\ rx[j].thread = rx[i].thread => i = j
          BY <3>1, <4>1, <5>1 DEF LaunchInv, ThreadsAreHeardOf
        <5>. QED  BY <1>1, <2>4, <5>1, <5>2, <5>3
      <4>2. CASE i \notin DOMAIN rx
        <5>1. i = Len(rx) + 1 /\ rx'[i].thread = t
          BY <2>2, <2>3, <4>2
        <5>2. \A j \in DOMAIN rx' : rx'[j].kind = "ApplicationLaunched" /\ rx'[j].thread = t => j = i
          BY <2>3, <2>6, <5>1
        <5>. QED  BY <1>1, <2>4, <2>7, <5>1, <5>2
      <4>. QED  BY <4>1, <4>2
    <3>. QED  BY <3>1 DEF ThreadsAreHeardOf
  <2>9. HandleIsLive'
    BY <1>1, <2>3, <2>4, <2>7 DEF LaunchInv, HandleIsLive
  <2>10. IsFollowed'
    BY <2>2, <2>3, <2>4 DEF IsFollowed, OnItsWay
  <2>11. EndIsHeardOf'
    BY <1>1, <1>2 DEF EndIsHeardOf
  <2>. QED  BY <2>5, <2>8, <2>9, <2>10, <2>11 DEF LaunchInv
<1>3. CASE /\ proc = "running" => refusals' = refusals + 1
           /\ proc # "running" => UNCHANGED refusals
           /\ threads' = [threads EXCEPT ![t] = "failed"] /\ UNCHANGED rx
  <2>1. /\ threads' \in Seq(Lives) /\ DOMAIN threads' = DOMAIN threads
        /\ threads'[t] = "failed" /\ \A u \in DOMAIN threads \ {t} : threads'[u] = threads[u]
    BY <1>1, <1>3 DEF Lives
  <2>2. LaunchTypeOK' /\ NobodyEnds' /\ ObserversWait'
    BY <1>1, <1>3, <2>1 DEF LaunchInv, LaunchTypeOK, NobodyEnds, ObserversWait
  <2>3. ThreadsAreHeardOf' /\ HandleIsLive'
    BY <1>1, <1>3, <2>1 DEF LaunchInv, ThreadsAreHeardOf, HandleIsLive
  <2>4. IsFollowed'
    BY <1>1, <1>3 DEF LaunchInv, LaunchTypeOK, IsFollowed
  <2>5. \A k : EndsAfterLaunches(k)' <=> EndsAfterLaunches(k)
    BY <1>3 DEF EndsAfterLaunches
  <2>6. EndIsHeardOf'
    BY <1>1, <1>3, <2>1, <2>5 DEF LaunchInv, EndIsHeardOf, HandleIsLive
  <2>. QED  BY <2>2, <2>3, <2>4, <2>6 DEF LaunchInv
<1>. QED  BY <1>2, <1>3 DEF Launching!Start

\* A thread that was told to stop does, and says so.
LEMMA LaunchStops ==
  ASSUME LaunchInv, NEW t \in DOMAIN threads, Launching!Stops(t)
  PROVE  LaunchInv'
<1>1. /\ threads[t] = "told" /\ threads' = [threads EXCEPT ![t] = "stopped"] /\ threads \in Seq(Lives)
      /\ UNCHANGED <<proc, regular, finished, announced, discovery, wm, policyObserver, finishObserver,
                     notified, app, refusals, dropped>>
  BY DEF Launching!Stops, Launching!world, Launching!observers, LaunchInv, LaunchTypeOK
<1>. DEFINE e == [kind |-> "ApplicationThreadTerminated", thread |-> t]
<1>2. Sent(e)
  BY <1>1 DEF Launching!Stops, Launching!Event, Sent, Kinds
<1>3. e.kind = "ApplicationThreadTerminated"
  OBVIOUS
<1>. HIDE DEF e
<1>4. /\ rx' \in Seq([kind : Kinds, thread : Nat])
      /\ DOMAIN rx = 1..Len(rx) /\ DOMAIN rx' = 1..Len(rx) + 1 /\ Len(rx) \in Nat
      /\ \A i \in 1..Len(rx) : rx'[i] = rx[i]
      /\ rx'[Len(rx) + 1] = e
  BY <1>2, ReactorSent
<1>5. /\ threads' \in Seq(Lives) /\ DOMAIN threads' = DOMAIN threads
      /\ threads'[t] = "stopped" /\ \A u \in DOMAIN threads \ {t} : threads'[u] = threads[u]
  BY <1>1 DEF Lives
<1>6. proc = "ended"
  BY <1>1 DEF LaunchInv, NobodyEnds
<1>7. LaunchTypeOK' /\ NobodyEnds' /\ ObserversWait' /\ IsFollowed'
  BY <1>1, <1>4, <1>5, <1>6 DEF LaunchInv, LaunchTypeOK, NobodyEnds, ObserversWait, IsFollowed
<1>8. \A i \in DOMAIN rx' : rx'[i].kind = "ApplicationLaunched" => i \in DOMAIN rx /\ rx'[i] = rx[i]
  BY <1>3, <1>4
<1>9. ThreadsAreHeardOf'
  BY <1>1, <1>5, <1>8 DEF LaunchInv, ThreadsAreHeardOf
<1>10. HandleIsLive'
  BY <1>1, <1>3, <1>4, <1>5 DEF LaunchInv, HandleIsLive
<1>11. EndIsHeardOf'
  <2>1. \A k \in DOMAIN rx : EndsAfterLaunches(k) => k \in DOMAIN rx' /\ EndsAfterLaunches(k)'
    BY <1>4, <1>8 DEF EndsAfterLaunches
  <2>2. app # 0 => app \in DOMAIN threads
    BY DEF LaunchInv, HandleIsLive
  <2>. QED  BY <1>1, <1>5, <1>8, <2>1, <2>2 DEF LaunchInv, EndIsHeardOf
<1>. QED  BY <1>7, <1>9, <1>10, <1>11 DEF LaunchInv

\* A request that finds its application gone ends the thread.
LEMMA LaunchRequestFails == LaunchInv /\ Launching!RequestFails => LaunchInv'
<1>. SUFFICES ASSUME LaunchInv, Launching!RequestFails  PROVE LaunchInv'
  OBVIOUS
<1>1. /\ app # 0 /\ threads[app] = "up" /\ threads' = [threads EXCEPT ![app] = "told"]
      /\ proc = "ended" /\ threads \in Seq(Lives) /\ app \in DOMAIN threads
      /\ UNCHANGED <<proc, regular, finished, announced, discovery, wm, policyObserver, finishObserver,
                     notified, rx, app, refusals, dropped>>
  BY DEF Launching!RequestFails, Launching!world, Launching!observers, LaunchInv, LaunchTypeOK, HandleIsLive
<1>2. /\ threads' \in Seq(Lives) /\ DOMAIN threads' = DOMAIN threads
      /\ threads'[app] = "told" /\ \A u \in DOMAIN threads \ {app} : threads'[u] = threads[u]
  BY <1>1 DEF Lives
<1>3. LaunchTypeOK' /\ NobodyEnds' /\ ObserversWait' /\ IsFollowed'
  BY <1>1, <1>2 DEF LaunchInv, LaunchTypeOK, NobodyEnds, ObserversWait, IsFollowed
<1>4. ThreadsAreHeardOf' /\ HandleIsLive'
  BY <1>1, <1>2 DEF LaunchInv, ThreadsAreHeardOf, HandleIsLive
<1>5. \A k : EndsAfterLaunches(k)' <=> EndsAfterLaunches(k)
  BY <1>1 DEF EndsAfterLaunches
<1>6. EndIsHeardOf'
  BY <1>1, <1>2, <1>5 DEF LaunchInv, EndIsHeardOf
<1>. QED  BY <1>3, <1>4, <1>6 DEF LaunchInv

\* Dropping a handle concerns only the thread that had it.
LEMMA HandleDropped ==
  ASSUME LaunchInv, threads' = Launching!Dropped(app)
  PROVE  /\ threads' \in Seq(Lives) /\ DOMAIN threads' = DOMAIN threads
         /\ \A t \in DOMAIN threads \ {app} : threads'[t] = threads[t]
         /\ proc # "ended" => \A t \in DOMAIN threads : threads'[t] \notin {"told", "stopped"}
<1>1. threads \in Seq(Lives) /\ (app # 0 => app \in DOMAIN threads)
  BY DEF LaunchInv, LaunchTypeOK, HandleIsLive
<1>2. CASE app # 0 /\ threads[app] = "up"
  <2>1. threads' = [threads EXCEPT ![app] = "deaf"]
    BY <1>2 DEF Launching!Dropped
  <2>. QED  BY <1>1, <1>2, <2>1 DEF Lives, LaunchInv, NobodyEnds
<1>3. CASE ~(app # 0 /\ threads[app] = "up")
  <2>1. threads' = threads
    BY <1>3 DEF Launching!Dropped
  <2>. QED  BY <1>1, <2>1 DEF LaunchInv, NobodyEnds
<1>. QED  BY <1>2, <1>3

\* What the reactor takes was the first in its queue.
Taken == rx # <<>> /\ rx' = Tail(rx)

LEMMA ReactorTakes ==
  ASSUME LaunchInv, Taken
  PROVE  /\ rx' \in Seq([kind : Kinds, thread : Nat]) /\ Head(rx) = rx[1] /\ rx[1].kind \in Kinds
         /\ rx[1].thread \in Nat
         /\ DOMAIN rx = 1..Len(rx) /\ DOMAIN rx' = 1..Len(rx) - 1 /\ Len(rx) \in Nat \ {0}
         /\ \A i \in DOMAIN rx' : i + 1 \in DOMAIN rx /\ rx'[i] = rx[i + 1]
         /\ \A i \in DOMAIN rx : i = 1 \/ (i - 1 \in DOMAIN rx' /\ rx'[i - 1] = rx[i])
<1>1. rx \in Seq([kind : Kinds, thread : Nat])
  BY DEF LaunchInv, LaunchTypeOK
<1>2. /\ rx' \in Seq([kind : Kinds, thread : Nat]) /\ Head(rx) = rx[1]
      /\ Head(rx) \in [kind : Kinds, thread : Nat]
      /\ DOMAIN rx = 1..Len(rx) /\ DOMAIN rx' = 1..Len(rx) - 1 /\ Len(rx) \in Nat \ {0}
      /\ \A i \in 1..Len(rx) - 1 : rx'[i] = rx[i + 1]
  BY <1>1, TailElements DEF Taken
<1>3. \A i \in DOMAIN rx' : i + 1 \in DOMAIN rx /\ rx'[i] = rx[i + 1]
  BY <1>2
<1>4. \A i \in DOMAIN rx : i = 1 \/ (i - 1 \in DOMAIN rx' /\ rx'[i - 1] = rx[i])
  BY <1>2
<1>. QED  BY <1>2, <1>3, <1>4

\* What is true of the queue stays true of its tail.
LEMMA EndStaysAfter ==
  ASSUME LaunchInv, Taken, NEW k \in DOMAIN rx, k # 1, EndsAfterLaunches(k)
  PROVE  \E j \in DOMAIN rx' : EndsAfterLaunches(j)'
<1>. USE ReactorTakes
<1>1. PICK j : j = k - 1
  OBVIOUS
<1>2. j \in DOMAIN rx' /\ rx'[j].kind = "ApplicationTerminated"
  BY <1>1 DEF EndsAfterLaunches
<1>3. ASSUME NEW i \in DOMAIN rx', rx'[i].kind = "ApplicationLaunched"
      PROVE  i < j
  <2>1. i + 1 \in DOMAIN rx /\ rx[i + 1].kind = "ApplicationLaunched" /\ i \in Nat /\ k \in Nat
    BY <1>3
  <2>2. i + 1 < k
    BY <2>1 DEF EndsAfterLaunches
  <2>. QED  BY <1>1, <2>1, <2>2
<1>. QED  BY <1>2, <1>3 DEF EndsAfterLaunches

\* The launches that are still in the queue are news of other threads that are up.
LEMMA LaunchesStay ==
  ASSUME LaunchInv, Taken, NEW i \in DOMAIN rx', rx'[i].kind = "ApplicationLaunched"
  PROVE  /\ rx'[i].thread \in DOMAIN threads /\ threads[rx'[i].thread] = "up" /\ rx'[i].thread # app
         /\ \A j \in DOMAIN rx' : rx'[j].kind = "ApplicationLaunched" /\ rx'[j].thread = rx'[i].thread => i = j
         /\ rx[1].kind = "ApplicationLaunched" => rx'[i].thread # rx[1].thread
<1>. USE ReactorTakes
<1>1. i + 1 \in DOMAIN rx /\ rx'[i] = rx[i + 1] /\ 1 \in DOMAIN rx /\ i + 1 # 1
  OBVIOUS
<1>2. /\ rx[i + 1].thread \in DOMAIN threads /\ threads[rx[i + 1].thread] = "up"
      /\ rx[i + 1].thread # app
  BY <1>1 DEF LaunchInv, ThreadsAreHeardOf
<1>3. rx[1].kind = "ApplicationLaunched" => rx[i + 1].thread # rx[1].thread
  BY <1>1 DEF LaunchInv, ThreadsAreHeardOf
<1>4. ASSUME NEW j \in DOMAIN rx', rx'[j].kind = "ApplicationLaunched", rx'[j].thread = rx'[i].thread
      PROVE  i = j
  <2>1. j + 1 \in DOMAIN rx /\ rx'[j] = rx[j + 1]
    BY <1>4
  <2>2. PICK k, l : k = i + 1 /\ l = j + 1
    OBVIOUS
  <2>3. /\ k \in DOMAIN rx /\ rx[k].kind = "ApplicationLaunched"
        /\ l \in DOMAIN rx /\ rx[l].kind = "ApplicationLaunched" /\ rx[l].thread = rx[k].thread
    BY <1>1, <1>4, <2>1, <2>2
  <2>4. k = l
    BY <2>3 DEF LaunchInv, ThreadsAreHeardOf
  <2>. QED  BY <2>2, <2>4
<1>. QED  BY <1>1, <1>2, <1>3, <1>4

\* The handle of a new thread takes the place of the old one, ...
LEMMA ReactorHearsLaunch ==
  ASSUME LaunchInv, Taken, rx[1].kind = "ApplicationLaunched",
         app' = rx[1].thread, threads' = Launching!Dropped(app),
         UNCHANGED <<proc, regular, finished, announced, discovery, wm, policyObserver, finishObserver,
                     notified, refusals, dropped>>
  PROVE  LaunchInv'
<1>. USE ReactorTakes
<1>1. /\ threads' \in Seq(Lives) /\ DOMAIN threads' = DOMAIN threads
      /\ \A t \in DOMAIN threads \ {app} : threads'[t] = threads[t]
      /\ proc # "ended" => \A t \in DOMAIN threads : threads'[t] \notin {"told", "stopped"}
  BY HandleDropped
<1>2. /\ 1 \in DOMAIN rx /\ app' \in DOMAIN threads /\ threads[app'] = "up" /\ app' # app
      /\ \A j \in DOMAIN rx : rx[j].kind = "ApplicationLaunched" /\ rx[j].thread = app' => j = 1
  BY DEF LaunchInv, ThreadsAreHeardOf
<1>3. LaunchTypeOK' /\ ObserversWait'
  BY <1>1 DEF LaunchInv, LaunchTypeOK, ObserversWait
<1>4. NobodyEnds'
  BY <1>1 DEF LaunchInv, NobodyEnds
<1>5. ThreadsAreHeardOf'
  <2>1. ASSUME NEW i \in DOMAIN rx', rx'[i].kind = "ApplicationLaunched"
        PROVE  /\ rx'[i].thread \in DOMAIN threads' /\ threads'[rx'[i].thread] = "up" /\ rx'[i].thread # app'
               /\ \A j \in DOMAIN rx' :
                    rx'[j].kind = "ApplicationLaunched" /\ rx'[j].thread = rx'[i].thread => i = j
    BY <1>1, <2>1, LaunchesStay
  <2>. QED  BY <2>1 DEF ThreadsAreHeardOf
<1>6. HandleIsLive'
  BY <1>1, <1>2 DEF HandleIsLive
<1>7. IsFollowed'
  <2>1. threads'[app'] = "up"
    BY <1>1, <1>2
  <2>2. \E t \in DOMAIN threads' : OnItsWay(t)'
    BY <1>1, <1>2, <2>1 DEF OnItsWay
  <2>. QED  BY <2>2 DEF IsFollowed
<1>8. EndIsHeardOf'
  <2>1. \A k \in DOMAIN rx : EndsAfterLaunches(k) => k # 1
    BY DEF EndsAfterLaunches
  <2>2. (\E k \in DOMAIN rx : EndsAfterLaunches(k)) => \E k \in DOMAIN rx' : EndsAfterLaunches(k)'
    BY <2>1, EndStaysAfter
  <2>. QED  BY <1>2, <2>2 DEF LaunchInv, EndIsHeardOf
<1>. QED  BY <1>3, <1>4, <1>5, <1>6, <1>7, <1>8 DEF LaunchInv

\* ... that of a thread that is gone is dropped, ...
LEMMA ReactorHearsThreadEnd ==
  ASSUME LaunchInv, Taken, rx[1].kind = "ApplicationThreadTerminated",
         app' = 0, threads' = Launching!Dropped(app),
         UNCHANGED <<proc, regular, finished, announced, discovery, wm, policyObserver, finishObserver,
                     notified, refusals, dropped>>
  PROVE  LaunchInv'
<1>. USE ReactorTakes
<1>1. /\ threads' \in Seq(Lives) /\ DOMAIN threads' = DOMAIN threads
      /\ \A t \in DOMAIN threads \ {app} : threads'[t] = threads[t]
      /\ proc # "ended" => \A t \in DOMAIN threads : threads'[t] \notin {"told", "stopped"}
  BY HandleDropped
<1>2. proc = "ended" /\ threads \in Seq(Lives)
  BY DEF LaunchInv, NobodyEnds, LaunchTypeOK
<1>3. LaunchTypeOK' /\ NobodyEnds' /\ ObserversWait' /\ HandleIsLive' /\ IsFollowed'
  BY <1>1, <1>2 DEF LaunchInv, LaunchTypeOK, NobodyEnds, ObserversWait, HandleIsLive, IsFollowed
<1>4. ThreadsAreHeardOf'
  <2>1. \A t \in DOMAIN threads : t # 0
    BY <1>2
  <2>. QED  BY <1>1, <2>1, LaunchesStay DEF ThreadsAreHeardOf
<1>5. EndIsHeardOf'
  <2>1. \A k \in DOMAIN rx : EndsAfterLaunches(k) => k # 1
    BY DEF EndsAfterLaunches
  <2>2. (\E k \in DOMAIN rx : EndsAfterLaunches(k)) => \E k \in DOMAIN rx' : EndsAfterLaunches(k)'
    BY <2>1, EndStaysAfter
  <2>3. (\A i \in DOMAIN rx : rx[i].kind # "ApplicationLaunched")
          => \A i \in DOMAIN rx' : rx'[i].kind # "ApplicationLaunched"
    OBVIOUS
  <2>. QED  BY <2>2, <2>3 DEF LaunchInv, EndIsHeardOf
<1>. QED  BY <1>3, <1>4, <1>5 DEF LaunchInv

\* ... and when the application has ended, its thread is told.
LEMMA ReactorHearsEnd ==
  ASSUME LaunchInv, Taken, rx[1].kind = "ApplicationTerminated",
         threads' = IF app # 0 /\ threads[app] = "up" THEN [threads EXCEPT ![app] = "told"] ELSE threads,
         UNCHANGED <<proc, regular, finished, announced, discovery, wm, policyObserver, finishObserver,
                     notified, app, refusals, dropped>>
  PROVE  LaunchInv'
<1>. USE ReactorTakes
<1>1. proc = "ended" /\ threads \in Seq(Lives)
  BY DEF LaunchInv, NobodyEnds, LaunchTypeOK
<1>2. /\ threads' \in Seq(Lives) /\ DOMAIN threads' = DOMAIN threads
      /\ \A t \in DOMAIN threads \ {app} : threads'[t] = threads[t]
      /\ app # 0 => app \in DOMAIN threads /\ threads'[app] \in {"told", threads[app]} \ {"up"}
  <2>1. app # 0 => app \in DOMAIN threads
    BY DEF LaunchInv, HandleIsLive
  <2>2. CASE app # 0 /\ threads[app] = "up"
    BY <1>1, <2>1, <2>2 DEF Lives
  <2>3. CASE ~(app # 0 /\ threads[app] = "up")
    BY <1>1, <2>1, <2>3
  <2>. QED  BY <2>2, <2>3
<1>3. LaunchTypeOK' /\ NobodyEnds' /\ ObserversWait' /\ IsFollowed'
  BY <1>1, <1>2 DEF LaunchInv, LaunchTypeOK, NobodyEnds, ObserversWait, IsFollowed
<1>4. HandleIsLive'
  <2>1. ASSUME app # 0, threads'[app] = "stopped"
        PROVE  \E i \in DOMAIN rx' : rx'[i].kind = "ApplicationThreadTerminated"
    <3>1. threads[app] = "stopped"
      BY <1>2, <2>1
    <3>2. PICK i \in DOMAIN rx : rx[i].kind = "ApplicationThreadTerminated"
      BY <2>1, <3>1 DEF LaunchInv, HandleIsLive
    <3>. QED  BY <3>2
  <2>. QED  BY <1>2, <2>1 DEF LaunchInv, HandleIsLive
<1>5. ThreadsAreHeardOf'
  BY <1>2, LaunchesStay DEF ThreadsAreHeardOf
<1>6. EndIsHeardOf'
  <2>1. CASE EndsAfterLaunches(1)
    <3>1. \A i \in DOMAIN rx' : rx'[i].kind # "ApplicationLaunched"
      BY <2>1 DEF EndsAfterLaunches
    <3>2. app # 0 => threads'[app] \in {"told", "stopped"}
      BY <1>2 DEF LaunchInv, HandleIsLive
    <3>. QED  BY <3>1, <3>2 DEF EndIsHeardOf
  <2>2. CASE \E k \in DOMAIN rx : k # 1 /\ EndsAfterLaunches(k)
    BY <2>2, EndStaysAfter DEF EndIsHeardOf
  <2>3. CASE ~\E k \in DOMAIN rx : EndsAfterLaunches(k)
    <3>1. (\A i \in DOMAIN rx : rx[i].kind # "ApplicationLaunched")
            => \A i \in DOMAIN rx' : rx'[i].kind # "ApplicationLaunched"
      OBVIOUS
    <3>. QED  BY <1>1, <1>2, <2>3, <3>1 DEF LaunchInv, EndIsHeardOf
  <2>. QED  BY <2>1, <2>2, <2>3
<1>. QED  BY <1>3, <1>4, <1>5, <1>6 DEF LaunchInv

LEMMA LaunchReactor == LaunchInv /\ Launching!ReactorStep => LaunchInv'
<1>. SUFFICES ASSUME LaunchInv, Launching!ReactorStep  PROVE LaunchInv'
  OBVIOUS
<1>1. /\ Taken
      /\ UNCHANGED <<proc, regular, finished, announced, discovery, wm, policyObserver, finishObserver,
                     notified, refusals, dropped>>
  BY DEF Launching!ReactorStep, Launching!world, Launching!observers, Taken
<1>2. Head(rx) = rx[1] /\ rx[1].kind \in Kinds
  BY <1>1, ReactorTakes
<1>3. CASE rx[1].kind = "ApplicationLaunched"
  <2>1. app' = rx[1].thread /\ threads' = Launching!Dropped(app)
    BY <1>2, <1>3 DEF Launching!ReactorStep
  <2>. QED  BY <1>1, <1>3, <2>1, ReactorHearsLaunch
<1>4. CASE rx[1].kind = "ApplicationThreadTerminated"
  <2>1. app' = 0 /\ threads' = Launching!Dropped(app)
    BY <1>2, <1>4 DEF Launching!ReactorStep
  <2>. QED  BY <1>1, <1>4, <2>1, ReactorHearsThreadEnd
<1>5. CASE rx[1].kind = "ApplicationTerminated"
  <2>1. /\ threads' = IF app # 0 /\ threads[app] = "up" THEN [threads EXCEPT ![app] = "told"] ELSE threads
        /\ UNCHANGED app
    BY <1>2, <1>5 DEF Launching!ReactorStep
  <2>. QED  BY <1>1, <1>5, <2>1, ReactorHearsEnd
<1>. QED  BY <1>2, <1>3, <1>4, <1>5 DEF Kinds

LEMMA LaunchInit == MCInit => LaunchInv
<1>. SUFFICES ASSUME MCInit  PROVE LaunchInv
  OBVIOUS
<1>0. Launching!Init
  BY DEF MCInit
<1>1. wm \in Seq(Told) /\ threads \in Seq(Lives) /\ rx \in Seq([kind : Kinds, thread : Nat])
  BY <1>0 DEF Launching!Init
<1>2. DOMAIN wm = {} /\ DOMAIN threads = {} /\ DOMAIN rx = {}
  BY <1>0 DEF Launching!Init
<1>. QED  BY <1>0, <1>1, <1>2 DEF Launching!Init, LaunchInv, LaunchTypeOK, NobodyEnds, ObserversWait,
            ThreadsAreHeardOf, HandleIsLive, IsFollowed, EndIsHeardOf

LEMMA LaunchStep == LaunchInv /\ [MCNext]_<<part, vars, confVars, appVars, hideVars, switchVars>> => LaunchInv'
<1>. SUFFICES ASSUME LaunchInv, [MCNext]_<<part, vars, confVars, appVars, hideVars, switchVars>>
              PROVE  LaunchInv'
  OBVIOUS
<1>1. CASE UNCHANGED appVars
  <2>1. UNCHANGED <<proc, regular, finished, announced, discovery, wm, policyObserver, finishObserver,
                    notified, threads, rx, app, policies, refusals, dropped>>
    BY <1>1 DEF appVars
  <2>2. \A k : EndsAfterLaunches(k)' <=> EndsAfterLaunches(k)
    BY <2>1 DEF EndsAfterLaunches
  <2>3. \A k : OnItsWay(k)' <=> OnItsWay(k)
    BY <2>1 DEF OnItsWay
  <2>. QED  BY <2>1, <2>2, <2>3 DEF LaunchInv, LaunchTypeOK, NobodyEnds, ObserversWait,
              ThreadsAreHeardOf, HandleIsLive, IsFollowed, EndIsHeardOf
<1>2. CASE Launching!Next
  BY <1>2, LaunchPolicy, LaunchFinishes, LaunchLaunched, LaunchAnnounced, LaunchEnded, LaunchDiscovery,
     LaunchController, LaunchReactor, LaunchRequestFails, LaunchStart, LaunchStops DEF Launching!Next
<1>. QED  BY <1>1, <1>2 DEF MCNext

\* An application that runs, is regular and has finished launching has a thread that the reactor
\* knows in the end, whoever found it and however often, unless Accessibility refused it or the
\* news that it was ready was dropped; and the reactor keeps none that has ended: for any number
\* of changes of its policy and refusals.
THEOREM AppsFollowed == MCSpec => []AppsAreFollowed
BY LaunchInit, LaunchStep, LaunchFollows, PTL DEF MCSpec

-----------------------------------------------------------------------------
(* Configuration. *)

Asks == {a \in [from : Nat, kind : {"reload", "set", "save", "query"}, change : Changes \cup {<<>>}] :
           a.kind = "set" => a.change \in Changes}
Answers == [to : Nat, ok : BOOLEAN, config : Conf!Configs \cup {None}]
News == {m \in [kind : {"updated", "register"}, config : Conf!Configs \cup {None}] :
           m.kind = "updated" => m.config \in Conf!Configs}

ConfTypeOK ==
  /\ file \in Conf!Configs \cup {None}
  /\ config \in [Conf!Keepers -> Conf!Configs]
  /\ asks \in Seq(Asks) /\ answers \in Seq(Answers)
  /\ DOMAIN queues = {"reactor", "wm"}
  /\ queues["reactor"] \in Seq(News) /\ queues["wm"] \in Seq({m \in News : m.kind = "updated"})
  /\ told \in Seq({"ok", "error", "timeout", "nothing"}) /\ request \in Nat

\* The last configuration is the last in the reactor's queue, or the reactor has it unless its
\* patterns do not compile.
LastAt(k) ==
  /\ queues["reactor"][k] = Conf!Updated(config["config"])
  /\ \A i \in DOMAIN queues["reactor"] : i > k => queues["reactor"][i].kind # "updated"
ReactorFollows ==
  \/ \E k \in DOMAIN queues["reactor"] : LastAt(k)
  \/ /\ \A i \in DOMAIN queues["reactor"] : queues["reactor"][i].kind # "updated"
     /\ config["config"].compiles => config["reactor"] = config["config"]

PanelsFollow == \A p \in Conf!Panels : config[p] = config["reactor"]

\* The reactor's bindings are the last in the controller's queue, or the controller has them.
LastBindings ==
  IF queues["wm"] = <<>> THEN config["wm"].keys ELSE queues["wm"][Len(queues["wm"])].config.keys
BindingsFollow ==
  /\ early \/ LastBindings = config["reactor"].keys
  /\ installed => hotkeys = config["wm"].keys

\* A change of the file that was not taken over will still be noticed or reloaded.
ReloadDue == \E i \in DOMAIN asks : asks[i].kind = "reload"
FileFollowed ==
  file # None /\ fresh /\ config["config"] # file =>
    changed \/ ReloadDue \/ (~enabled /\ watcher \notin {"reload", "refresh"})

\* A number is given to one request, which is in the queue until it takes effect or fails.
Given == IF request = 0 THEN Len(told) ELSE Len(told) + 1
Pending(n) == \E i \in DOMAIN asks : asks[i].from = n
Numbered ==
  /\ request # 0 => request = Len(told) + 1
  /\ done \subseteq 0..Given
  /\ \A i \in DOMAIN asks : asks[i].from > 0 =>
       /\ asks[i].from <= Given /\ asks[i].from \notin done
       /\ \A j \in DOMAIN asks : asks[j].from = asks[i].from => i = j
  /\ \A i \in DOMAIN answers : answers[i].to > 0 =>
       /\ answers[i].to <= Given
       /\ answers[i].ok => answers[i].to \in done
       /\ ~answers[i].ok => answers[i].to \notin done /\ ~Pending(answers[i].to)
TruthTold ==
  \A n \in DOMAIN told :
    /\ told[n] = "ok" => n \in done
    /\ told[n] = "error" => n \notin done /\ ~Pending(n)

ConfInv ==
  ConfTypeOK /\ ReactorFollows /\ PanelsFollow /\ BindingsFollow /\ FileFollowed /\ Numbered /\ TruthTold

LEMMA ConfFollows == ConfInv => ConfigurationArrives
<1>. SUFFICES ASSUME ConfInv  PROVE ConfigurationArrives
  OBVIOUS
<1>1. ASSUME Conf!Settled
      PROVE  /\ config["config"].compiles => config["reactor"] = config["config"]
             /\ \A p \in Conf!Panels : config[p] = config["reactor"]
             /\ hotkeys = config["reactor"].keys \/ early
             /\ fresh /\ enabled /\ file # None => config["config"] = file
  <2>1. /\ ~changed /\ watcher = "idle" /\ asks = <<>> /\ installed
        /\ queues["reactor"] = <<>> /\ queues["wm"] = <<>>
    BY <1>1 DEF Conf!Settled, ConfInv, ConfTypeOK
  <2>2. DOMAIN queues["reactor"] = {} /\ DOMAIN asks = {}
    BY <2>1
  <2>. QED  BY <2>1, <2>2 DEF ConfInv, ReactorFollows, PanelsFollow, BindingsFollow, LastBindings,
              FileFollowed, ReloadDue
<1>2. Conf!EveryoneFollows /\ Conf!FileIsLoaded
  BY <1>1 DEF Conf!EveryoneFollows, Conf!FileIsLoaded
<1>3. Conf!TheTruthIsTold
  BY DEF ConfInv, TruthTold, Conf!TheTruthIsTold
<1>. QED  BY <1>2, <1>3 DEF ConfigurationArrives

LEMMA ConfFields ==
  /\ \A c \in Conf!Configs : c.keys \in Keys
  /\ Conf!Default \in Conf!Configs
  /\ None \notin Conf!Configs /\ Contents \subseteq Conf!Configs \cup {None}
  /\ \A key \in Keys : key \notin {"idle", "reload", "refresh"}
<1>1. Keys # {} /\ Settings # {}
  BY ChangesAssumption DEF Conf!ConfigurationAssumption
<1>2. (CHOOSE k \in Keys : TRUE) \in Keys /\ (CHOOSE s \in Settings : TRUE) \in Settings
  BY <1>1
<1>3. Conf!Default \in Conf!Configs
  BY <1>2 DEF Conf!Default, Conf!Configs
<1>4. \A c \in Conf!Configs : c.keys \in Keys
  BY DEF Conf!Configs
<1>. QED  BY <1>3, <1>4, ChangesAssumption DEF Conf!ConfigurationAssumption

\* Steps of the watcher and of those who ask leave those who follow alone, ...
LEMMA PartiesRest ==
  ASSUME ConfInv, UNCHANGED Conf!parties
  PROVE  /\ ReactorFollows' /\ PanelsFollow' /\ BindingsFollow'
         /\ config' \in [Conf!Keepers -> Conf!Configs] /\ DOMAIN queues' = {"reactor", "wm"}
         /\ queues'["reactor"] \in Seq(News) /\ queues'["wm"] \in Seq({m \in News : m.kind = "updated"})
<1>1. UNCHANGED <<config, queues, wmKnown, installed, hotkeys, early>>
  BY DEF Conf!parties
<1>2. \A k : LastAt(k)' <=> LastAt(k)
  BY <1>1 DEF LastAt
<1>. QED  BY <1>1, <1>2 DEF ConfInv, ConfTypeOK, ReactorFollows, PanelsFollow, BindingsFollow, LastBindings

\* ... and the other way round.
LEMMA AskersRest ==
  ASSUME ConfInv, Conf!Following
  PROVE  /\ Numbered' /\ TruthTold'
         /\ config'["config"] = config["config"] => FileFollowed'
         /\ file' \in Conf!Configs \cup {None} /\ asks' \in Seq(Asks) /\ answers' \in Seq(Answers)
         /\ told' \in Seq({"ok", "error", "timeout", "nothing"}) /\ request' \in Nat
<1>0. UNCHANGED <<file, Conf!watching, asks, answers, Conf!asking, done, edits, fresh>>
  BY DEF Conf!Following
<1>1. UNCHANGED <<file, changed, watcher, enabled, asks, answers, request, told, done, edits, fresh>>
  BY <1>0 DEF Conf!watching, Conf!asking
<1>2. \A n : Pending(n)' <=> Pending(n)
  BY <1>1 DEF Pending
<1>. QED  BY <1>1, <1>2 DEF ConfInv, ConfTypeOK, Numbered, Given, TruthTold, FileFollowed, ReloadDue

\* What is asked is the last in the actor's queue.
LEMMA IsAsked ==
  ASSUME ConfInv, NEW a \in Asks, asks' = Append(asks, a)
  PROVE  /\ asks' \in Seq(Asks)
         /\ DOMAIN asks = 1..Len(asks) /\ DOMAIN asks' = 1..Len(asks) + 1 /\ Len(asks) \in Nat
         /\ \A i \in 1..Len(asks) : asks'[i] = asks[i]
         /\ asks'[Len(asks) + 1] = a
         /\ ReloadDue \/ a.kind = "reload" => ReloadDue'
         /\ \A n : Pending(n)' <=> Pending(n) \/ n = a.from
<1>1. asks \in Seq(Asks)
  BY DEF ConfInv, ConfTypeOK
<1>2. /\ asks' \in Seq(Asks)
      /\ DOMAIN asks = 1..Len(asks) /\ DOMAIN asks' = 1..Len(asks) + 1 /\ Len(asks) \in Nat
      /\ \A i \in 1..Len(asks) : asks'[i] = asks[i]
      /\ asks'[Len(asks) + 1] = a
  BY <1>1, AppendElements
<1>3. ReloadDue \/ a.kind = "reload" => ReloadDue'
  BY <1>2 DEF ReloadDue
<1>4. ASSUME NEW n  PROVE Pending(n)' <=> Pending(n) \/ n = a.from
  <2>1. ASSUME Pending(n)'  PROVE Pending(n) \/ n = a.from
    <3>1. PICK i \in DOMAIN asks' : asks'[i].from = n
      BY <2>1 DEF Pending
    <3>. QED  BY <1>2, <3>1 DEF Pending
  <2>2. ASSUME Pending(n) \/ n = a.from  PROVE Pending(n)'
    BY <1>2, <2>2 DEF Pending
  <2>. QED  BY <2>1, <2>2
<1>. QED  BY <1>2, <1>3, <1>4

\* Nothing new about the requests: the watcher asks, an answer is taken.
LEMMA NumbersStay ==
  ASSUME ConfInv, UNCHANGED <<request, told, done>>,
         \A i \in DOMAIN asks' : asks'[i].from > 0 => i \in DOMAIN asks /\ asks'[i] = asks[i],
         \A i \in DOMAIN answers' : \E j \in DOMAIN answers : answers'[i] = answers[j]
  PROVE  Numbered' /\ TruthTold'
<1>1. \A n : n > 0 /\ Pending(n)' => Pending(n)
  BY DEF Pending
<1>2. Given' = Given
  BY DEF Given
<1>3. Numbered'
  <2>1. ASSUME NEW i \in DOMAIN asks', asks'[i].from > 0
        PROVE  /\ asks'[i].from <= Given' /\ asks'[i].from \notin done'
               /\ \A j \in DOMAIN asks' : asks'[j].from = asks'[i].from => i = j
    BY <1>2, <2>1 DEF ConfInv, Numbered
  <2>2. ASSUME NEW i \in DOMAIN answers', answers'[i].to > 0
        PROVE  /\ answers'[i].to <= Given'
               /\ answers'[i].ok => answers'[i].to \in done'
               /\ ~answers'[i].ok => /\ answers'[i].to \notin done'
                                     /\ \A k \in DOMAIN asks' : asks'[k].from # answers'[i].to
    <3>1. PICK j \in DOMAIN answers : answers'[i] = answers[j]
      OBVIOUS
    <3>2. /\ answers[j].to <= Given
          /\ answers[j].ok => answers[j].to \in done
          /\ ~answers[j].ok => answers[j].to \notin done /\ ~Pending(answers[j].to)
      BY <2>2, <3>1 DEF ConfInv, Numbered
    <3>3. ~Pending(answers[j].to) => \A k \in DOMAIN asks' : asks'[k].from # answers[j].to
      BY <2>2, <3>1 DEF Pending
    <3>. QED  BY <1>2, <3>1, <3>2, <3>3
  <2>3. (request' # 0 => request' = Len(told') + 1) /\ done' \subseteq 0..Given'
    BY <1>2 DEF ConfInv, Numbered
  <2>. QED  BY <2>1, <2>2, <2>3 DEF Numbered, Pending
<1>4. TruthTold'
  <2>1. told \in Seq({"ok", "error", "timeout", "nothing"})
    BY DEF ConfInv, ConfTypeOK
  <2>2. \A n \in DOMAIN told : n > 0
    BY <2>1
  <2>. QED  BY <1>1, <2>2 DEF ConfInv, TruthTold
<1>. QED  BY <1>3, <1>4

\* A request gets a number that nobody has.
LEMMA NewNumber ==
  ASSUME ConfInv, request = 0, NEW a \in Asks, a.from = Len(told) + 1, asks' = Append(asks, a),
         UNCHANGED <<answers, done>>,
         \/ told' = told /\ request' = Len(told) + 1
         \/ told' = Append(told, "nothing") /\ request' = request
  PROVE  Numbered' /\ TruthTold' /\ told' \in Seq({"ok", "error", "timeout", "nothing"}) /\ request' \in Nat
<1>0. told \in Seq({"ok", "error", "timeout", "nothing"})
  BY DEF ConfInv, ConfTypeOK
<1>1. /\ told' \in Seq({"ok", "error", "timeout", "nothing"}) /\ Len(told) \in Nat /\ DOMAIN told = 1..Len(told)
      /\ \A n \in DOMAIN told' : n \in Nat /\ (told'[n] \in {"ok", "error"} => n \in DOMAIN told /\ told'[n] = told[n])
      /\ request' \in Nat /\ (request' # 0 => request' = Len(told') + 1)
  <2>1. CASE told' = told /\ request' = Len(told) + 1
    BY <1>0, <2>1
  <2>2. CASE told' = Append(told, "nothing") /\ request' = request
    <3>1. /\ told' \in Seq({"ok", "error", "timeout", "nothing"}) /\ Len(told) \in Nat
          /\ DOMAIN told = 1..Len(told) /\ DOMAIN told' = 1..Len(told) + 1
          /\ \A n \in 1..Len(told) : told'[n] = told[n]
          /\ told'[Len(told) + 1] = "nothing"
      BY <1>0, <2>2
    <3>. QED  BY <2>2, <3>1
  <2>. QED  BY <2>1, <2>2
<1>2. Given = Len(told) /\ Given' = Len(told) + 1
  BY <1>0 DEF Given
<1>3. /\ DOMAIN asks = 1..Len(asks) /\ DOMAIN asks' = 1..Len(asks) + 1 /\ Len(asks) \in Nat
      /\ \A i \in 1..Len(asks) : asks'[i] = asks[i]
      /\ asks'[Len(asks) + 1] = a
      /\ \A n : Pending(n)' <=> Pending(n) \/ n = a.from
  BY IsAsked
<1>4. \A i \in DOMAIN asks : asks[i].from \in Nat /\ asks[i].from # Len(told) + 1
  <2>1. asks \in Seq(Asks)
    BY DEF ConfInv, ConfTypeOK
  <2>2. \A i \in DOMAIN asks : asks[i].from \in Nat
    BY <2>1 DEF Asks
  <2>. QED  BY <1>1, <1>2, <2>2 DEF ConfInv, Numbered
<1>5. Len(told) + 1 \notin done
  BY <1>1, <1>2 DEF ConfInv, Numbered
<1>6. ASSUME NEW i \in DOMAIN asks', asks'[i].from > 0
      PROVE  /\ asks'[i].from <= Given' /\ asks'[i].from \notin done'
             /\ \A j \in DOMAIN asks' : asks'[j].from = asks'[i].from => i = j
  <2>1. CASE i \in DOMAIN asks
    <3>1. /\ asks[i].from <= Given /\ asks[i].from \notin done
          /\ \A j \in DOMAIN asks : asks[j].from = asks[i].from => i = j
      BY <1>3, <1>6, <2>1 DEF ConfInv, Numbered
    <3>. QED  BY <1>1, <1>2, <1>3, <1>4, <2>1, <3>1
  <2>2. CASE i \notin DOMAIN asks
    <3>1. i = Len(asks) + 1 /\ asks'[i].from = Len(told) + 1
      BY <1>3, <2>2
    <3>. QED  BY <1>1, <1>2, <1>3, <1>4, <1>5, <3>1
  <2>. QED  BY <2>1, <2>2
<1>7. ASSUME NEW i \in DOMAIN answers, answers[i].to > 0
      PROVE  /\ answers[i].to <= Given'
             /\ answers[i].ok => answers[i].to \in done
             /\ ~answers[i].ok => answers[i].to \notin done /\ \A k \in DOMAIN asks' : asks'[k].from # answers[i].to
  <2>1. /\ answers[i].to <= Given
        /\ answers[i].ok => answers[i].to \in done
        /\ ~answers[i].ok => answers[i].to \notin done /\ ~Pending(answers[i].to)
    BY <1>7 DEF ConfInv, Numbered
  <2>2. answers[i].to \in Nat
    <3>1. answers[i] \in Answers
      BY DEF ConfInv, ConfTypeOK
    <3>. QED  BY <3>1 DEF Answers
  <2>3. answers[i].to # Len(told) + 1 /\ answers[i].to <= Len(told) + 1
    BY <1>1, <1>2, <2>1, <2>2
  <2>4. ~Pending(answers[i].to) => \A k \in DOMAIN asks' : asks'[k].from # answers[i].to
    BY <1>3, <2>3 DEF Pending
  <2>. QED  BY <1>2, <2>1, <2>3, <2>4
<1>8. Numbered'
  <2>1. done' \subseteq 0..Given'
    BY <1>1, <1>2 DEF ConfInv, Numbered
  <2>2. \A i \in DOMAIN answers' : answers'[i] = answers[i] /\ i \in DOMAIN answers
    OBVIOUS
  <2>. QED  BY <1>1, <1>6, <1>7, <2>1, <2>2 DEF Numbered, Pending
<1>9. TruthTold'
  <2>1. \A n \in DOMAIN told : Pending(n)' => Pending(n)
    BY <1>1, <1>3
  <2>. QED  BY <1>1, <2>1 DEF ConfInv, TruthTold
<1>. QED  BY <1>1, <1>8, <1>9

\* The number of a request that is over is not given again.
LEMMA NumberTold ==
  ASSUME ConfInv, request # 0, request' = 0, NEW x \in {"ok", "error", "timeout"}, told' = Append(told, x),
         UNCHANGED <<asks, done>>,
         \A i \in DOMAIN answers' : \E j \in DOMAIN answers : answers'[i] = answers[j],
         x = "ok" => request \in done,
         x = "error" => request \notin done /\ ~Pending(request)
  PROVE  Numbered' /\ TruthTold' /\ told' \in Seq({"ok", "error", "timeout", "nothing"}) /\ request' \in Nat
<1>0. told \in Seq({"ok", "error", "timeout", "nothing"})
  BY DEF ConfInv, ConfTypeOK
<1>1. /\ told' \in Seq({"ok", "error", "timeout", "nothing"}) /\ Len(told) \in Nat /\ DOMAIN told = 1..Len(told)
      /\ Len(told') = Len(told) + 1 /\ DOMAIN told' = 1..Len(told) + 1
      /\ \A n \in 1..Len(told) : told'[n] = told[n]
      /\ told'[Len(told) + 1] = x
  BY <1>0
<1>2. request = Len(told) + 1
  BY DEF ConfInv, Numbered
<1>3. Given' = Given
  BY <1>1 DEF Given
<1>4. \A n : Pending(n)' <=> Pending(n)
  BY DEF Pending
<1>5. Numbered'
  <2>1. ASSUME NEW i \in DOMAIN answers', answers'[i].to > 0
        PROVE  /\ answers'[i].to <= Given'
               /\ answers'[i].ok => answers'[i].to \in done'
               /\ ~answers'[i].ok => /\ answers'[i].to \notin done'
                                     /\ \A k \in DOMAIN asks' : asks'[k].from # answers'[i].to
    <3>1. PICK j \in DOMAIN answers : answers'[i] = answers[j]
      OBVIOUS
    <3>. QED  BY <1>3, <2>1, <3>1 DEF ConfInv, Numbered, Pending
  <2>2. \A i \in DOMAIN asks' : asks'[i].from > 0 =>
          /\ asks'[i].from <= Given' /\ asks'[i].from \notin done'
          /\ \A j \in DOMAIN asks' : asks'[j].from = asks'[i].from => i = j
    BY <1>3 DEF ConfInv, Numbered
  <2>3. done' \subseteq 0..Given'
    BY <1>3 DEF ConfInv, Numbered
  <2>. QED  BY <2>1, <2>2, <2>3 DEF Numbered, Pending
<1>6. TruthTold'
  BY <1>1, <1>2, <1>4 DEF ConfInv, TruthTold
<1>. QED  BY <1>1, <1>5, <1>6

LEMMA ConfEdit == ASSUME ConfInv, NEW content \in Contents, Conf!Edit(content)  PROVE ConfInv'
<1>1. /\ file' = content /\ changed' = TRUE
      /\ UNCHANGED <<watcher, enabled, asks, answers, Conf!parties, Conf!asking, done>>
  BY DEF Conf!Edit
<1>2. UNCHANGED <<asks, answers, request, told, done>> /\ UNCHANGED Conf!parties
  BY <1>1 DEF Conf!asking
<1>3. Numbered' /\ TruthTold'
  BY <1>2, NumbersStay
<1>4. FileFollowed'
  BY <1>1 DEF FileFollowed
<1>5. file' \in Conf!Configs \cup {None}
  BY <1>1, ConfFields
<1>. QED  BY <1>2, <1>3, <1>4, <1>5, PartiesRest DEF ConfInv, ConfTypeOK

\* What the watcher asks.
LEMMA WatcherAsks ==
  ASSUME ConfInv, NEW kind \in {"reload", "query"}, asks' = Append(asks, Conf!Ask(0, kind)),
         UNCHANGED <<request, told, done>>,
         answers' = answers \/ (answers # <<>> /\ answers' = Tail(answers))
  PROVE  /\ asks' \in Seq(Asks) /\ Numbered' /\ TruthTold'
         /\ ReloadDue \/ kind = "reload" => ReloadDue'
<1>. DEFINE a == [from |-> 0, kind |-> kind, change |-> <<>>]
<1>1. a \in Asks /\ a.from = 0 /\ a.kind = kind /\ asks' = Append(asks, a)
  BY DEF Asks, Conf!Ask
<1>. HIDE DEF a
<1>2. /\ asks' \in Seq(Asks)
      /\ DOMAIN asks = 1..Len(asks) /\ DOMAIN asks' = 1..Len(asks) + 1 /\ Len(asks) \in Nat
      /\ \A i \in 1..Len(asks) : asks'[i] = asks[i]
      /\ asks'[Len(asks) + 1] = a
      /\ ReloadDue \/ a.kind = "reload" => ReloadDue'
  BY <1>1, IsAsked
<1>3. \A i \in DOMAIN asks' : asks'[i].from > 0 => i \in DOMAIN asks /\ asks'[i] = asks[i]
  BY <1>1, <1>2
<1>4. \A i \in DOMAIN answers' : \E j \in DOMAIN answers : answers'[i] = answers[j]
  <2>1. answers \in Seq(Answers)
    BY DEF ConfInv, ConfTypeOK
  <2>. QED  BY <2>1, TailElements
<1>. QED  BY <1>1, <1>2, <1>3, <1>4, NumbersStay

LEMMA ConfNotice == ConfInv /\ Conf!Notice => ConfInv'
<1>. SUFFICES ASSUME ConfInv, Conf!Notice  PROVE ConfInv'
  OBVIOUS
<1>1. UNCHANGED <<file, enabled, answers, Conf!parties, Conf!asking, done, edits, fresh>>
  BY DEF Conf!Notice
<1>2. UNCHANGED <<file, enabled, answers, request, told, done, fresh>> /\ UNCHANGED Conf!parties
  BY <1>1 DEF Conf!asking
<1>3. CASE ~enabled /\ file = None /\ UNCHANGED <<watcher, asks>>
  <2>1. \A i \in DOMAIN asks' : asks'[i].from > 0 => i \in DOMAIN asks /\ asks'[i] = asks[i]
    BY <1>3
  <2>2. \A i \in DOMAIN answers' : \E j \in DOMAIN answers : answers'[i] = answers[j]
    BY <1>2
  <2>3. Numbered' /\ TruthTold'
    BY <1>2, <2>1, <2>2, NumbersStay
  <2>4. FileFollowed'
    BY <1>2, <1>3 DEF FileFollowed
  <2>. QED  BY <1>2, <1>3, <2>3, <2>4, PartiesRest DEF ConfInv, ConfTypeOK
<1>4. CASE enabled /\ asks' = Append(asks, Conf!Ask(0, "reload"))
  <2>1. asks' \in Seq(Asks) /\ Numbered' /\ TruthTold' /\ ReloadDue'
    BY <1>2, <1>4, WatcherAsks
  <2>2. FileFollowed'
    BY <2>1 DEF FileFollowed
  <2>. QED  BY <1>2, <2>1, <2>2, PartiesRest DEF ConfInv, ConfTypeOK
<1>5. CASE ~enabled /\ file # None /\ watcher' = file.keys /\ asks' = Append(asks, Conf!Ask(0, "query"))
  <2>1. asks' \in Seq(Asks) /\ Numbered' /\ TruthTold'
    BY <1>2, <1>5, WatcherAsks
  <2>2. file.keys \in Keys
    BY <1>5, ConfFields DEF ConfInv, ConfTypeOK
  <2>3. FileFollowed'
    BY <1>2, <1>5, <2>2, ConfFields DEF FileFollowed
  <2>. QED  BY <1>2, <2>1, <2>3, PartiesRest DEF ConfInv, ConfTypeOK
<1>. QED  BY <1>3, <1>4, <1>5 DEF Conf!Notice

\* An answer that the watcher takes: a reload that is due stays due.
LEMMA WatcherHears ==
  ASSUME ConfInv, Conf!Heard(0),
         UNCHANGED asks \/ (\E kind \in {"reload", "query"} : asks' = Append(asks, Conf!Ask(0, kind)))
  PROVE  /\ asks' \in Seq(Asks) /\ answers' \in Seq(Answers) /\ Numbered' /\ TruthTold'
         /\ ReloadDue => ReloadDue'
         /\ UNCHANGED <<file, changed, request, told, done, fresh>> /\ UNCHANGED Conf!parties
<1>0. UNCHANGED <<file, changed, Conf!parties, Conf!asking, done, edits, fresh>>
  BY DEF Conf!Heard
<1>1. UNCHANGED <<file, changed, request, told, done, fresh>> /\ UNCHANGED Conf!parties
  BY <1>0 DEF Conf!asking
<1>2. answers \in Seq(Answers) /\ answers # <<>> /\ answers' = Tail(answers)
  BY DEF Conf!Heard, ConfInv, ConfTypeOK
<1>3. answers' \in Seq(Answers)
  BY <1>2
<1>4. CASE UNCHANGED asks
  <2>1. \A i \in DOMAIN asks' : asks'[i].from > 0 => i \in DOMAIN asks /\ asks'[i] = asks[i]
    BY <1>4
  <2>2. \A i \in DOMAIN answers' : \E j \in DOMAIN answers : answers'[i] = answers[j]
    BY <1>2, TailElements
  <2>3. Numbered' /\ TruthTold'
    BY <1>1, <2>1, <2>2, NumbersStay
  <2>4. ReloadDue' <=> ReloadDue
    BY <1>4 DEF ReloadDue
  <2>. QED  BY <1>1, <1>3, <1>4, <2>3, <2>4 DEF ConfInv, ConfTypeOK
<1>5. ASSUME NEW kind \in {"reload", "query"}, asks' = Append(asks, Conf!Ask(0, kind))
      PROVE  asks' \in Seq(Asks) /\ Numbered' /\ TruthTold' /\ (ReloadDue => ReloadDue')
  BY <1>1, <1>2, <1>5, WatcherAsks
<1>. QED  BY <1>1, <1>3, <1>4, <1>5

LEMMA ConfWatcher == ConfInv /\ (Conf!Compare \/ Conf!Reloaded \/ Conf!Refresh) => ConfInv'
<1>. SUFFICES ASSUME ConfInv, Conf!Compare \/ Conf!Reloaded \/ Conf!Refresh  PROVE ConfInv'
  OBVIOUS
<1>1. /\ Conf!Heard(0)
      /\ UNCHANGED asks \/ (\E kind \in {"reload", "query"} : asks' = Append(asks, Conf!Ask(0, kind)))
  BY DEF Conf!Compare, Conf!Reloaded, Conf!Refresh
<1>2. /\ asks' \in Seq(Asks) /\ answers' \in Seq(Answers) /\ Numbered' /\ TruthTold'
      /\ ReloadDue => ReloadDue'
      /\ UNCHANGED <<file, changed, request, told, done, fresh>> /\ UNCHANGED Conf!parties
  BY <1>1, WatcherHears
<1>3. UNCHANGED config
  BY <1>2 DEF Conf!parties
<1>4. CASE Conf!Compare
  <2>1. UNCHANGED enabled
    BY <1>4 DEF Conf!Compare
  <2>2. FileFollowed'
    <3>1. CASE asks' = Append(asks, Conf!Ask(0, "reload"))
      <4>1. ReloadDue'
        BY <1>1, <1>2, <3>1, WatcherAsks DEF Conf!Heard
      <4>. QED  BY <4>1 DEF FileFollowed
    <3>2. CASE watcher' = "idle"
      BY <1>2, <1>3, <2>1, <3>2 DEF ConfInv, FileFollowed
    <3>. QED  BY <1>4, <3>1, <3>2 DEF Conf!Compare
  <2>. QED  BY <1>2, <2>2, PartiesRest DEF ConfInv, ConfTypeOK
<1>5. CASE Conf!Reloaded \/ Conf!Refresh
  <2>1. watcher \in {"reload", "refresh"}
    BY <1>5 DEF Conf!Reloaded, Conf!Refresh
  <2>2. FileFollowed'
    BY <1>2, <1>3, <2>1 DEF ConfInv, FileFollowed
  <2>. QED  BY <1>2, <2>2, PartiesRest DEF ConfInv, ConfTypeOK
<1>. QED  BY <1>4, <1>5

\* A request of a program or from the menu.
LEMMA ConfAsked ==
  ASSUME ConfInv,
         \/ \E kind \in {"reload", "save"} : Conf!Command(kind, <<>>)
         \/ \E change \in Changes : Conf!Command("set", change)
         \/ Conf!Menu
  PROVE  ConfInv'
<1>1. \E a \in Asks :
        /\ a.from = Len(told) + 1 /\ asks' = Append(asks, a)
        /\ request = 0
        /\ \/ told' = told /\ request' = Len(told) + 1
           \/ told' = Append(told, "nothing") /\ request' = request
        /\ UNCHANGED <<file, Conf!watching, answers, Conf!parties, done, edits, fresh>>
  <2>0. Len(told) + 1 \in Nat
    BY DEF ConfInv, ConfTypeOK
  <2>1. ASSUME NEW kind \in {"reload", "save", "set"}, NEW change \in Changes \cup {<<>>},
               kind = "set" => change \in Changes
        PROVE  LET a == [Conf!Ask(Len(told) + 1, kind) EXCEPT !.change = change]
               IN  a \in Asks /\ a.from = Len(told) + 1
    BY <2>0, <2>1 DEF Asks, Conf!Ask
  <2>2. ASSUME NEW kind \in {"reload", "save"}, Conf!Command(kind, <<>>)
        PROVE  /\ asks' = Append(asks, [Conf!Ask(Len(told) + 1, kind) EXCEPT !.change = <<>>])
               /\ request = 0 /\ told' = told /\ request' = Len(told) + 1
               /\ UNCHANGED <<file, Conf!watching, answers, Conf!parties, done, edits, fresh>>
    BY <2>2 DEF Conf!Command, Conf!Number
  <2>3. ASSUME NEW change \in Changes, Conf!Command("set", change)
        PROVE  /\ asks' = Append(asks, [Conf!Ask(Len(told) + 1, "set") EXCEPT !.change = change])
               /\ request = 0 /\ told' = told /\ request' = Len(told) + 1
               /\ UNCHANGED <<file, Conf!watching, answers, Conf!parties, done, edits, fresh>>
    BY <2>3 DEF Conf!Command, Conf!Number
  <2>4. ASSUME Conf!Menu
        PROVE  /\ asks' = Append(asks, Conf!Ask(Len(told) + 1, "reload"))
               /\ request = 0 /\ told' = Append(told, "nothing") /\ request' = request
               /\ UNCHANGED <<file, Conf!watching, answers, Conf!parties, done, edits, fresh>>
    BY <2>4 DEF Conf!Menu, Conf!Number
  <2>5. Conf!Ask(Len(told) + 1, "reload") \in Asks /\ Conf!Ask(Len(told) + 1, "reload").from = Len(told) + 1
    BY <2>0 DEF Asks, Conf!Ask
  <2>6. ASSUME NEW kind \in {"reload", "save"}, Conf!Command(kind, <<>>)
        PROVE  \E a \in Asks :
                 /\ a.from = Len(told) + 1 /\ asks' = Append(asks, a)
                 /\ request = 0 /\ told' = told /\ request' = Len(told) + 1
                 /\ UNCHANGED <<file, Conf!watching, answers, Conf!parties, done, edits, fresh>>
    BY <2>1, <2>2, <2>6
  <2>7. ASSUME NEW change \in Changes, Conf!Command("set", change)
        PROVE  \E a \in Asks :
                 /\ a.from = Len(told) + 1 /\ asks' = Append(asks, a)
                 /\ request = 0 /\ told' = told /\ request' = Len(told) + 1
                 /\ UNCHANGED <<file, Conf!watching, answers, Conf!parties, done, edits, fresh>>
    BY <2>1, <2>3, <2>7
  <2>. QED  BY <2>4, <2>5, <2>6, <2>7
<1>2. PICK a \in Asks :
        /\ a.from = Len(told) + 1 /\ asks' = Append(asks, a)
        /\ request = 0
        /\ \/ told' = told /\ request' = Len(told) + 1
           \/ told' = Append(told, "nothing") /\ request' = request
        /\ UNCHANGED <<file, Conf!watching, answers, Conf!parties, done, edits, fresh>>
  BY <1>1
<1>3. UNCHANGED <<file, changed, watcher, enabled, answers, done, fresh>> /\ UNCHANGED Conf!parties
  BY <1>2 DEF Conf!watching
<1>4. Numbered' /\ TruthTold' /\ told' \in Seq({"ok", "error", "timeout", "nothing"}) /\ request' \in Nat
  BY <1>2, <1>3, NewNumber
<1>5. asks' \in Seq(Asks) /\ (ReloadDue => ReloadDue')
  BY <1>2, IsAsked
<1>6. UNCHANGED config
  BY <1>3 DEF Conf!parties
<1>7. FileFollowed'
  BY <1>3, <1>5, <1>6 DEF ConfInv, FileFollowed
<1>. QED  BY <1>3, <1>4, <1>5, <1>7, PartiesRest DEF ConfInv, ConfTypeOK

\* A request ends with its answer, or without.
LEMMA ConfAnswered == ConfInv /\ (Conf!Hear \/ Conf!Timeout) => ConfInv'
<1>. SUFFICES ASSUME ConfInv, Conf!Hear \/ Conf!Timeout  PROVE ConfInv'
  OBVIOUS
<1>1. /\ UNCHANGED <<file, Conf!watching, asks, Conf!parties, done, edits, fresh>>
      /\ answers' = answers \/ (answers # <<>> /\ answers' = Tail(answers))
  BY DEF Conf!Hear, Conf!Timeout
<1>2. UNCHANGED <<file, changed, watcher, enabled, asks, done, fresh>> /\ UNCHANGED Conf!parties
  BY <1>1 DEF Conf!watching
<1>3. answers \in Seq(Answers)
  BY DEF ConfInv, ConfTypeOK
<1>4. answers' \in Seq(Answers) /\ \A i \in DOMAIN answers' : \E j \in DOMAIN answers : answers'[i] = answers[j]
  BY <1>1, <1>3, TailElements
<1>5. UNCHANGED config /\ (ReloadDue' <=> ReloadDue)
  BY <1>2 DEF Conf!parties, ReloadDue
<1>6. FileFollowed'
  BY <1>2, <1>5 DEF ConfInv, FileFollowed
<1>7. Numbered' /\ TruthTold' /\ told' \in Seq({"ok", "error", "timeout", "nothing"}) /\ request' \in Nat
  <2>1. CASE UNCHANGED Conf!asking
    <3>1. UNCHANGED <<request, told, done>>
      BY <1>2, <2>1 DEF Conf!asking
    <3>2. \A i \in DOMAIN asks' : asks'[i].from > 0 => i \in DOMAIN asks /\ asks'[i] = asks[i]
      BY <1>2
    <3>. QED  BY <1>4, <3>1, <3>2, NumbersStay DEF ConfInv, ConfTypeOK
  <2>2. CASE Conf!Timeout
    <3>1. request # 0 /\ request' = 0 /\ told' = Append(told, "timeout")
      BY <2>2 DEF Conf!Timeout
    <3>. QED  BY <1>2, <1>4, <3>1, NumberTold
  <2>3. CASE /\ request # 0 /\ Conf!Awaited(Conf!Reply) /\ answers # <<>> /\ request' = 0
             /\ told' = Append(told, IF Conf!Reply.ok THEN "ok" ELSE "error")
    <3>1. 1 \in DOMAIN answers /\ answers[1].to = request /\ answers[1].to > 0
      BY <1>3, <2>3 DEF Conf!Awaited, Conf!Reply, ConfInv, ConfTypeOK
    <3>2. /\ answers[1].ok => request \in done
          /\ ~answers[1].ok => request \notin done /\ ~Pending(request)
      BY <3>1 DEF ConfInv, Numbered
    <3>3. CASE answers[1].ok
      <4>1. told' = Append(told, "ok")
        BY <1>3, <2>3, <3>3 DEF Conf!Reply
      <4>. QED  BY <1>2, <1>4, <2>3, <3>2, <3>3, <4>1, NumberTold
    <3>4. CASE ~answers[1].ok
      <4>1. told' = Append(told, "error")
        BY <1>3, <2>3, <3>4 DEF Conf!Reply
      <4>. QED  BY <1>2, <1>4, <2>3, <3>2, <3>4, <4>1, NumberTold
    <3>. QED  BY <3>3, <3>4
  <2>. QED  BY <2>1, <2>2, <2>3 DEF Conf!Hear
<1>. QED  BY <1>2, <1>4, <1>6, <1>7, PartiesRest DEF ConfInv, ConfTypeOK

\* What the actor takes was the first in its queue.
LEMMA ActorTakes ==
  ASSUME ConfInv, asks # <<>>, asks' = Tail(asks)
  PROVE  /\ asks' \in Seq(Asks) /\ Head(asks) = asks[1] /\ asks[1] \in Asks /\ 1 \in DOMAIN asks
         /\ \A i \in DOMAIN asks' : i + 1 \in DOMAIN asks /\ i + 1 # 1 /\ asks'[i] = asks[i + 1]
         /\ asks[1].kind # "reload" /\ ReloadDue => ReloadDue'
         /\ \A n : Pending(n)' => Pending(n)
         /\ asks[1].from > 0 => \A i \in DOMAIN asks' : asks'[i].from # asks[1].from
<1>1. asks \in Seq(Asks)
  BY DEF ConfInv, ConfTypeOK
<1>2. /\ asks' \in Seq(Asks) /\ Head(asks) = asks[1] /\ asks[1] \in Asks
      /\ DOMAIN asks = 1..Len(asks) /\ DOMAIN asks' = 1..Len(asks) - 1 /\ Len(asks) \in Nat \ {0}
      /\ \A i \in 1..Len(asks) - 1 : asks'[i] = asks[i + 1]
  BY <1>1, TailElements
<1>3. 1 \in DOMAIN asks /\ \A i \in DOMAIN asks' : i + 1 \in DOMAIN asks /\ i + 1 # 1 /\ asks'[i] = asks[i + 1]
  BY <1>2
<1>4. ASSUME asks[1].kind # "reload", ReloadDue  PROVE ReloadDue'
  <2>1. PICK i \in DOMAIN asks : asks[i].kind = "reload"
    BY <1>4 DEF ReloadDue
  <2>2. i - 1 \in DOMAIN asks' /\ asks'[i - 1] = asks[i]
    BY <1>2, <1>4, <2>1
  <2>. QED  BY <2>1, <2>2 DEF ReloadDue
<1>5. \A n : Pending(n)' => Pending(n)
  BY <1>3 DEF Pending
<1>6. ASSUME asks[1].from > 0, NEW i \in DOMAIN asks', asks'[i].from = asks[1].from  PROVE FALSE
  BY <1>3, <1>6 DEF ConfInv, Numbered
<1>. QED  BY <1>2, <1>3, <1>4, <1>5, <1>6

LEMMA MadeType ==
  ASSUME ConfInv, NEW a \in Asks
  PROVE  /\ Conf!Made(a) \in Conf!Configs \cup {None}
         /\ a.kind = "reload" => Conf!Made(a) = file
         /\ config["config"] \in Conf!Configs
<1>1. file \in Conf!Configs \cup {None} /\ config["config"] \in Conf!Configs
  BY DEF ConfInv, ConfTypeOK, Conf!Keepers
<1>2. CASE a.kind = "reload"
  BY <1>1, <1>2 DEF Conf!Made
<1>3. CASE a.kind = "set"
  <2>1. a.change \in Changes
    BY <1>3 DEF Asks
  <2>2. a.change @@ config["config"] \in Conf!Configs
    BY <1>1, <2>1, ChangesAssumption DEF Conf!ConfigurationAssumption
  <2>3. Conf!Made(a) = a.change @@ config["config"]
    BY <1>3 DEF Conf!Made
  <2>. QED  BY <1>1, <1>3, <2>2, <2>3
<1>4. CASE a.kind \notin {"reload", "set"}
  BY <1>1, <1>4 DEF Conf!Made
<1>. QED  BY <1>2, <1>3, <1>4

LEMMA ConfAct == ConfInv /\ Conf!Act => ConfInv'
<1>. SUFFICES ASSUME ConfInv, Conf!Act  PROVE ConfInv'
  OBVIOUS
<1>. DEFINE a == asks[1]
            M == Conf!Made(a)
            answer == [to |-> a.from, ok |-> M # None, config |-> M]
<1>1. asks # <<>> /\ asks' = Tail(asks)
  BY DEF Conf!Act
<1>2. /\ asks' \in Seq(Asks) /\ Head(asks) = a /\ a \in Asks /\ 1 \in DOMAIN asks
      /\ \A i \in DOMAIN asks' : i + 1 \in DOMAIN asks /\ i + 1 # 1 /\ asks'[i] = asks[i + 1]
      /\ a.kind # "reload" /\ ReloadDue => ReloadDue'
      /\ \A n : Pending(n)' => Pending(n)
      /\ a.from > 0 => \A i \in DOMAIN asks' : asks'[i].from # a.from
  BY <1>1, ActorTakes
<1>3. /\ IF Conf!Commits(a)
         THEN /\ config' = [config EXCEPT !["config"] = M]
              /\ queues' = [queues EXCEPT !["reactor"] = Append(@, Conf!Updated(M))]
         ELSE UNCHANGED <<config, queues>>
      /\ IF a.kind = "save" THEN file' = config["config"] /\ changed' = TRUE ELSE UNCHANGED <<file, changed>>
      /\ answers' = Append(answers, answer)
      /\ done' = IF M = None THEN done ELSE done \cup {a.from}
      /\ fresh' = (fresh /\ a.kind # "set")
  BY <1>2 DEF Conf!Act
<1>4. UNCHANGED <<watcher, enabled, wmKnown, installed, hotkeys, early, Conf!asking, edits>>
  BY DEF Conf!Act
<1>5. UNCHANGED <<watcher, enabled, installed, hotkeys, early, request, told>>
  BY <1>4 DEF Conf!asking
<1>6. /\ M \in Conf!Configs \cup {None} /\ config["config"] \in Conf!Configs
      /\ a.kind = "reload" => M = file
      /\ a.from \in Nat
  BY <1>2, MadeType DEF Asks
<1>7. /\ answer.to = a.from /\ (answer.ok <=> M # None) /\ answer \in Answers
  BY <1>6 DEF Answers
<1>8. Conf!Commits(a) <=> a.kind \in {"reload", "set"} /\ M # None
  BY DEF Conf!Commits
<1>. HIDE DEF a, M, answer
<1>9. answers' \in Seq(Answers) /\ file' \in Conf!Configs \cup {None}
  <2>1. answers \in Seq(Answers) /\ file \in Conf!Configs \cup {None}
    BY DEF ConfInv, ConfTypeOK
  <2>. QED  BY <1>3, <1>6, <1>7, <2>1
<1>10. /\ config' \in [Conf!Keepers -> Conf!Configs] /\ DOMAIN queues' = {"reactor", "wm"}
       /\ queues'["reactor"] \in Seq(News) /\ queues'["wm"] = queues["wm"]
       /\ \A p \in Conf!Keepers \ {"config"} : config'[p] = config[p]
       /\ ReactorFollows'
  <2>0. /\ config \in [Conf!Keepers -> Conf!Configs] /\ DOMAIN queues = {"reactor", "wm"}
        /\ queues["reactor"] \in Seq(News)
    BY DEF ConfInv, ConfTypeOK
  <2>1. CASE Conf!Commits(a)
    <3>1. M \in Conf!Configs /\ "config" \in Conf!Keepers
      BY <1>6, <1>8, <2>1 DEF Conf!Keepers
    <3>2. /\ config' = [config EXCEPT !["config"] = M]
          /\ queues' = [queues EXCEPT !["reactor"] = Append(queues["reactor"], Conf!Updated(M))]
      BY <1>3, <2>1
    <3>3. Conf!Updated(M) \in News
      BY <3>1 DEF Conf!Updated, News
    <3>4. /\ config' \in [Conf!Keepers -> Conf!Configs] /\ config'["config"] = M
          /\ \A p \in Conf!Keepers \ {"config"} : config'[p] = config[p]
      BY <2>0, <3>1, <3>2
    <3>. DEFINE q == queues["reactor"]
                e == Conf!Updated(M)
    <3>5. queues'["reactor"] = Append(q, e) /\ queues'["wm"] = queues["wm"] /\ DOMAIN queues' = {"reactor", "wm"}
      BY <2>0, <3>2
    <3>. HIDE DEF q, e
    <3>6. /\ queues'["reactor"] \in Seq(News)
          /\ DOMAIN queues'["reactor"] = 1..Len(q) + 1 /\ Len(q) \in Nat
          /\ queues'["reactor"][Len(q) + 1] = e
      BY <2>0, <3>3, <3>5, AppendElements DEF q, e
    <3>7. ReactorFollows'
      <4>1. PICK k : k = Len(q) + 1
        OBVIOUS
      <4>2. k \in DOMAIN queues'["reactor"] /\ LastAt(k)'
        BY <3>4, <3>6, <4>1 DEF LastAt, e
      <4>. QED  BY <4>2 DEF ReactorFollows
    <3>. QED  BY <3>4, <3>5, <3>6, <3>7
  <2>2. CASE ~Conf!Commits(a)
    <3>1. UNCHANGED <<config, queues>>
      BY <1>3, <2>2
    <3>2. \A k : LastAt(k)' <=> LastAt(k)
      BY <3>1 DEF LastAt
    <3>. QED  BY <2>0, <3>1, <3>2 DEF ConfInv, ReactorFollows
  <2>. QED  BY <2>1, <2>2
<1>11. PanelsFollow' /\ BindingsFollow'
  <2>1. /\ Conf!Panels \subseteq Conf!Keepers \ {"config"}
        /\ {"reactor", "wm"} \subseteq Conf!Keepers \ {"config"}
    BY DEF Conf!Keepers, Conf!Panels
  <2>2. LastBindings' = LastBindings
    BY <1>10, <2>1 DEF LastBindings
  <2>. QED  BY <1>5, <1>10, <2>1, <2>2 DEF ConfInv, PanelsFollow, BindingsFollow
<1>12. FileFollowed'
  <2>1. CASE a.kind = "reload"
    <3>1. file # None => config'["config"] = file
      <4>1. "config" \in DOMAIN config
        BY DEF ConfInv, ConfTypeOK, Conf!Keepers
      <4>. QED  BY <1>3, <1>6, <1>8, <2>1, <4>1
    <3>. QED  BY <1>3, <2>1, <3>1 DEF FileFollowed
  <2>2. CASE a.kind \in {"set", "save"}
    BY <1>3, <2>2 DEF FileFollowed
  <2>3. CASE a.kind = "query"
    <3>1. UNCHANGED <<config, file, changed>> /\ (fresh' => fresh)
      BY <1>3, <1>8, <2>3
    <3>. QED  BY <1>2, <1>3, <1>5, <2>3, <3>1 DEF ConfInv, FileFollowed
  <2>. QED  BY <1>2, <2>1, <2>2, <2>3 DEF Asks
<1>13. Numbered'
  <2>0. Given' = Given
    BY <1>5 DEF Given
  <2>1. a.from > 0 => a.from <= Given /\ a.from \notin done
    BY <1>2 DEF ConfInv, Numbered, a
  <2>2. done \subseteq 0..Given /\ (request # 0 => request = Len(told) + 1) /\ Given \in Nat
    BY DEF ConfInv, ConfTypeOK, Numbered, Given
  <2>3. done' \subseteq 0..Given' /\ done \subseteq done'
    <3>1. a.from \in 0..Given
      BY <1>6, <2>1, <2>2
    <3>2. done' \subseteq done \cup {a.from} /\ done \subseteq done'
      BY <1>3
    <3>. QED  BY <2>0, <2>2, <3>1, <3>2
  <2>4. ASSUME NEW i \in DOMAIN asks', asks'[i].from > 0
        PROVE  /\ asks'[i].from <= Given' /\ asks'[i].from \notin done'
               /\ \A j \in DOMAIN asks' : asks'[j].from = asks'[i].from => i = j
    <3>1. /\ asks[i + 1].from <= Given /\ asks[i + 1].from \notin done /\ asks[i + 1].from # a.from
          /\ \A j \in DOMAIN asks : asks[j].from = asks[i + 1].from => i + 1 = j
      <4>1. i + 1 \in DOMAIN asks /\ asks[i + 1].from > 0
        BY <1>2, <2>4
      <4>. QED  BY <1>2, <2>4, <4>1 DEF ConfInv, Numbered
    <3>2. \A j \in DOMAIN asks' : asks'[j].from = asks'[i].from => i + 1 = j + 1
      BY <1>2, <3>1
    <3>3. i \in Nat /\ \A j \in DOMAIN asks' : j \in Nat
      BY <1>2
    <3>. QED  BY <1>2, <1>3, <2>0, <3>1, <3>2, <3>3
  <2>5. ASSUME NEW i \in DOMAIN answers', answers'[i].to > 0
        PROVE  /\ answers'[i].to <= Given'
               /\ answers'[i].ok => answers'[i].to \in done'
               /\ ~answers'[i].ok => /\ answers'[i].to \notin done'
                                     /\ \A k \in DOMAIN asks' : asks'[k].from # answers'[i].to
    <3>0. answers \in Seq(Answers)
      BY DEF ConfInv, ConfTypeOK
    <3>1. /\ DOMAIN answers = 1..Len(answers) /\ DOMAIN answers' = 1..Len(answers) + 1 /\ Len(answers) \in Nat
          /\ \A j \in 1..Len(answers) : answers'[j] = answers[j]
          /\ answers'[Len(answers) + 1] = answer
      BY <1>3, <1>7, <3>0, AppendElements
    <3>2. CASE i \in DOMAIN answers
      <4>1. /\ answers[i].to <= Given
            /\ answers[i].ok => answers[i].to \in done
            /\ ~answers[i].ok => answers[i].to \notin done /\ ~Pending(answers[i].to)
            /\ answers'[i] = answers[i]
        BY <2>5, <3>1, <3>2 DEF ConfInv, Numbered
      <4>2. ~Pending(answers[i].to) => answers[i].to # a.from /\ \A k \in DOMAIN asks' : asks'[k].from # answers[i].to
        BY <1>2 DEF Pending, a
      <4>. QED  BY <1>3, <2>0, <2>3, <4>1, <4>2
    <3>3. CASE i \notin DOMAIN answers
      <4>1. answers'[i] = answer
        BY <3>1, <3>3
      <4>. QED  BY <1>2, <1>3, <1>7, <2>0, <2>1, <2>5, <4>1
    <3>. QED  BY <3>2, <3>3
  <2>. QED  BY <1>5, <2>0, <2>2, <2>3, <2>4, <2>5 DEF Numbered, Pending
<1>14. TruthTold'
  <2>1. ASSUME NEW n \in DOMAIN told, told[n] = "error"
        PROVE  n \notin done' /\ ~Pending(n)'
    <3>1. n \notin done /\ ~Pending(n)
      BY <2>1 DEF ConfInv, TruthTold
    <3>2. n # a.from
      BY <1>2, <3>1 DEF Pending, a
    <3>. QED  BY <1>2, <1>3, <3>1, <3>2
  <2>2. \A n \in DOMAIN told : told[n] = "ok" => n \in done'
    BY <1>3 DEF ConfInv, TruthTold
  <2>. QED  BY <1>5, <2>1, <2>2 DEF TruthTold
<1>15. ConfTypeOK'
  BY <1>2, <1>5, <1>9, <1>10 DEF ConfInv, ConfTypeOK
<1>. QED  BY <1>10, <1>11, <1>12, <1>13, <1>14, <1>15 DEF ConfInv

\* What a party takes was the first in its queue, and is passed on to others.
LEMMA ReactorPasses ==
  ASSUME ConfInv, queues["reactor"] # <<>>, NEW to \in {{}, {"wm"}}, queues' = Conf!Passed("reactor", to)
  PROVE  /\ DOMAIN queues' = {"reactor", "wm"} /\ queues'["reactor"] = Tail(queues["reactor"])
         /\ queues'["wm"] = IF to = {} THEN queues["wm"] ELSE Append(queues["wm"], Head(queues["reactor"]))
         /\ queues'["reactor"] \in Seq(News) /\ Head(queues["reactor"]) = queues["reactor"][1]
         /\ queues["reactor"][1] \in News /\ 1 \in DOMAIN queues["reactor"]
         /\ \A i \in DOMAIN queues'["reactor"] :
              /\ i + 1 \in DOMAIN queues["reactor"] /\ i + 1 > 1
              /\ queues'["reactor"][i] = queues["reactor"][i + 1]
<1>1. DOMAIN queues = {"reactor", "wm"} /\ queues["reactor"] \in Seq(News)
  BY DEF ConfInv, ConfTypeOK
<1>2. /\ DOMAIN queues' = {"reactor", "wm"} /\ queues'["reactor"] = Tail(queues["reactor"])
      /\ queues'["wm"] = IF to = {} THEN queues["wm"] ELSE Append(queues["wm"], Head(queues["reactor"]))
  BY <1>1 DEF Conf!Passed
<1>3. PICK q : q = queues["reactor"]
  OBVIOUS
<1>4. /\ Tail(q) \in Seq(News) /\ Head(q) = q[1] /\ Head(q) \in News
      /\ DOMAIN q = 1..Len(q) /\ DOMAIN Tail(q) = 1..Len(q) - 1 /\ Len(q) \in Nat \ {0}
      /\ \A i \in 1..Len(q) - 1 : Tail(q)[i] = q[i + 1]
  BY <1>1, <1>3, TailElements
<1>5. 1 \in DOMAIN q /\ \A i \in DOMAIN Tail(q) : i + 1 \in DOMAIN q /\ i + 1 > 1 /\ Tail(q)[i] = q[i + 1]
  BY <1>4
<1>. QED  BY <1>2, <1>3, <1>4, <1>5

\* The last configuration is still under way when another message was taken.
LEMMA LastStays ==
  ASSUME ConfInv, queues["reactor"] # <<>>, NEW to \in {{}, {"wm"}}, queues' = Conf!Passed("reactor", to),
         NEW k \in DOMAIN queues["reactor"], k # 1, LastAt(k), config'["config"] = config["config"]
  PROVE  ReactorFollows'
<1>1. PICK j : j = k - 1
  OBVIOUS
<1>2. queues["reactor"] \in Seq(News)
  BY DEF ConfInv, ConfTypeOK
<1>3. k \in Nat /\ k > 1 /\ k <= Len(queues["reactor"]) /\ Len(queues["reactor"]) \in Nat
  BY <1>2
<1>4. /\ queues'["reactor"] = Tail(queues["reactor"])
      /\ \A i \in DOMAIN queues'["reactor"] : queues'["reactor"][i] = queues["reactor"][i + 1]
      /\ \A i \in DOMAIN queues'["reactor"] : i + 1 \in DOMAIN queues["reactor"]
  BY ReactorPasses
<1>5. DOMAIN queues'["reactor"] = 1..Len(queues["reactor"]) - 1
  BY <1>2, <1>4, TailElements
<1>6. j \in DOMAIN queues'["reactor"] /\ j + 1 = k
  BY <1>1, <1>3, <1>5
<1>7. LastAt(j)'
  <2>1. queues'["reactor"][j] = Conf!Updated(config'["config"])
    BY <1>4, <1>6 DEF LastAt
  <2>2. ASSUME NEW i \in DOMAIN queues'["reactor"], i > j  PROVE queues'["reactor"][i].kind # "updated"
    <3>1. i + 1 > k
      BY <1>3, <1>5, <1>6, <2>2
    <3>. QED  BY <1>4, <2>2, <3>1 DEF LastAt
  <2>. QED  BY <2>1, <2>2 DEF LastAt
<1>. QED  BY <1>6, <1>7 DEF ReactorFollows

\* A message is appended to a queue of the controller's.
LEMMA ControllerGets ==
  ASSUME ConfInv, NEW m \in News, m.kind = "updated", queues'["wm"] = Append(queues["wm"], m)
  PROVE  queues'["wm"] \in Seq({n \in News : n.kind = "updated"}) /\ LastBindings' = m.config.keys
<1>1. PICK q : q = queues["wm"]
  OBVIOUS
<1>2. q \in Seq({n \in News : n.kind = "updated"})
  BY <1>1 DEF ConfInv, ConfTypeOK
<1>3. /\ Append(q, m) \in Seq({n \in News : n.kind = "updated"}) /\ Append(q, m) # <<>>
      /\ Len(Append(q, m)) = Len(q) + 1 /\ Append(q, m)[Len(q) + 1] = m
  <2>1. PICK S : S = {n \in News : n.kind = "updated"}
    OBVIOUS
  <2>2. q \in Seq(S) /\ m \in S
    BY <1>2, <2>1
  <2>3. /\ Append(q, m) \in Seq(S) /\ Append(q, m) # <<>>
        /\ Len(Append(q, m)) = Len(q) + 1 /\ Append(q, m)[Len(q) + 1] = m
    BY <2>2
  <2>. QED  BY <2>1, <2>3
<1>. QED  BY <1>1, <1>3 DEF LastBindings

LEMMA ConfStartUp == ConfInv /\ Conf!StartUp => ConfInv'
<1>. SUFFICES ASSUME ConfInv, Conf!StartUp  PROVE ConfInv'
  OBVIOUS
<1>1. /\ Conf!Following /\ UNCHANGED <<config, wmKnown, installed, hotkeys, early>>
      /\ queues' = [queues EXCEPT !["reactor"] = Append(queues["reactor"], Conf!Register)]
  BY DEF Conf!StartUp
<1>2. DOMAIN queues = {"reactor", "wm"} /\ queues["reactor"] \in Seq(News) /\ Conf!Register \in News
  BY DEF ConfInv, ConfTypeOK, Conf!Register, News
<1>3. PICK q : q = queues["reactor"]
  OBVIOUS
<1>4. queues'["reactor"] = Append(q, Conf!Register) /\ queues'["wm"] = queues["wm"] /\ DOMAIN queues' = {"reactor", "wm"}
  BY <1>1, <1>2, <1>3
<1>5. /\ queues'["reactor"] \in Seq(News)
      /\ DOMAIN q = 1..Len(q) /\ DOMAIN queues'["reactor"] = 1..Len(q) + 1 /\ Len(q) \in Nat
      /\ \A i \in 1..Len(q) : queues'["reactor"][i] = q[i]
      /\ queues'["reactor"][Len(q) + 1] = Conf!Register
  BY <1>2, <1>3, <1>4, AppendElements
<1>6. Conf!Register.kind # "updated"
  BY DEF Conf!Register
<1>7. ReactorFollows'
  <2>1. \A i \in DOMAIN queues'["reactor"] : queues'["reactor"][i].kind = "updated" => i \in DOMAIN q
    BY <1>5, <1>6
  <2>2. \A k \in DOMAIN q : LastAt(k) => k \in DOMAIN queues'["reactor"] /\ LastAt(k)'
    BY <1>1, <1>3, <1>5, <2>1 DEF LastAt
  <2>. QED  BY <1>1, <1>3, <1>5, <2>1, <2>2 DEF ConfInv, ReactorFollows
<1>8. LastBindings' = LastBindings
  BY <1>1, <1>4 DEF LastBindings
<1>9. PanelsFollow' /\ BindingsFollow'
  BY <1>1, <1>8 DEF ConfInv, PanelsFollow, BindingsFollow
<1>. QED  BY <1>1, <1>4, <1>5, <1>7, <1>9, AskersRest DEF ConfInv, ConfTypeOK

LEMMA ConfIntroduce == ConfInv /\ Conf!Introduce => ConfInv'
<1>. SUFFICES ASSUME ConfInv, Conf!Introduce  PROVE ConfInv'
  OBVIOUS
<1>1. /\ Conf!Following /\ UNCHANGED <<config, installed, hotkeys, early>>
      /\ queues["reactor"] # <<>> /\ Head(queues["reactor"]).kind = "register"
      /\ queues' = Conf!Passed("reactor", {})
  BY DEF Conf!Introduce, Conf!Take
<1>2. /\ DOMAIN queues' = {"reactor", "wm"}
      /\ queues'["wm"] = queues["wm"]
      /\ queues'["reactor"] \in Seq(News) /\ Head(queues["reactor"]) = queues["reactor"][1]
      /\ \A i \in DOMAIN queues'["reactor"] :
           /\ i + 1 \in DOMAIN queues["reactor"] /\ i + 1 > 1
           /\ queues'["reactor"][i] = queues["reactor"][i + 1]
  BY <1>1, ReactorPasses
<1>3. ReactorFollows'
  <2>1. CASE \E k \in DOMAIN queues["reactor"] : LastAt(k)
    <3>1. PICK k \in DOMAIN queues["reactor"] : LastAt(k)
      BY <2>1
    <3>2. k # 1
      BY <1>1, <1>2, <3>1 DEF LastAt, Conf!Updated
    <3>. QED  BY <1>1, <3>1, <3>2, LastStays
  <2>2. CASE ~\E k \in DOMAIN queues["reactor"] : LastAt(k)
    BY <1>1, <1>2, <2>2 DEF ConfInv, ReactorFollows
  <2>. QED  BY <2>1, <2>2
<1>4. LastBindings' = LastBindings
  BY <1>1, <1>2 DEF LastBindings
<1>5. PanelsFollow' /\ BindingsFollow'
  BY <1>1, <1>4 DEF ConfInv, PanelsFollow, BindingsFollow
<1>. QED  BY <1>1, <1>2, <1>3, <1>5, AskersRest DEF ConfInv, ConfTypeOK

\* Whoever adopts a configuration has it, and nobody else.
LEMMA Adopts ==
  ASSUME ConfInv, NEW new \in Conf!Configs, NEW by, config' = Conf!Adopted(by, new)
  PROVE  /\ config' \in [Conf!Keepers -> Conf!Configs]
         /\ \A p \in Conf!Keepers : config'[p] = IF p \in by THEN new ELSE config[p]
         /\ Conf!Panels \subseteq Conf!Keepers /\ {"reactor", "wm", "config"} \subseteq Conf!Keepers
<1>1. config \in [Conf!Keepers -> Conf!Configs]
  BY DEF ConfInv, ConfTypeOK
<1>2. config' = [p \in Conf!Keepers |-> IF p \in by THEN new ELSE config[p]]
  BY DEF Conf!Adopted
<1>3. Conf!Panels \subseteq Conf!Keepers /\ {"reactor", "wm", "config"} \subseteq Conf!Keepers
  BY DEF Conf!Keepers
<1>. QED  BY <1>1, <1>2, <1>3

LEMMA ConfUpdated == ConfInv /\ Conf!ConfigUpdated => ConfInv'
<1>. SUFFICES ASSUME ConfInv, Conf!ConfigUpdated  PROVE ConfInv'
  OBVIOUS
<1>. DEFINE new == queues["reactor"][1].config
            to == IF new.compiles THEN Conf!Told(new) ELSE {}
<1>0. queues["reactor"] # <<>> /\ Head(queues["reactor"]).kind = "updated"
  BY DEF Conf!ConfigUpdated, Conf!Take
<1>1. Head(queues["reactor"]) = queues["reactor"][1] /\ 1 \in DOMAIN queues["reactor"] /\ queues["reactor"][1] \in News
  <2>1. queues["reactor"] \in Seq(News)
    BY DEF ConfInv, ConfTypeOK
  <2>. QED  BY <1>0, <2>1, TailElements
<1>2. new \in Conf!Configs /\ queues["reactor"][1].kind = "updated"
  BY <1>0, <1>1 DEF News
<1>3. /\ Conf!Following /\ UNCHANGED <<installed, hotkeys>>
      /\ queues' = Conf!Passed("reactor", to)
      /\ new.compiles => /\ config' = Conf!Adopted({"reactor"} \cup Conf!Panels, new)
                         /\ early' = (early \/ (~wmKnown /\ new.keys # config["reactor"].keys))
      /\ ~new.compiles => UNCHANGED <<config, early>>
  BY <1>1 DEF Conf!ConfigUpdated
<1>4. to \in {{}, {"wm"}} /\ (to = {"wm"} <=> new.compiles /\ new.keys # config["reactor"].keys /\ wmKnown)
  <2>1. CASE new.compiles /\ new.keys # config["reactor"].keys /\ wmKnown
    <3>1. to = {"wm"}
      BY <2>1 DEF Conf!Told
    <3>. HIDE DEF to
    <3>. QED  BY <2>1, <3>1
  <2>2. CASE ~(new.compiles /\ new.keys # config["reactor"].keys /\ wmKnown)
    <3>1. to = {}
      BY <2>2 DEF Conf!Told
    <3>. HIDE DEF to
    <3>. QED  BY <2>2, <3>1
  <2>. QED  BY <2>1, <2>2, Zenon
<1>5. /\ DOMAIN queues' = {"reactor", "wm"}
      /\ queues'["wm"] = IF to = {} THEN queues["wm"] ELSE Append(queues["wm"], queues["reactor"][1])
      /\ queues'["reactor"] \in Seq(News)
      /\ \A i \in DOMAIN queues'["reactor"] :
           /\ i + 1 \in DOMAIN queues["reactor"] /\ i + 1 > 1
           /\ queues'["reactor"][i] = queues["reactor"][i + 1]
  BY <1>0, <1>1, <1>3, <1>4, ReactorPasses, Zenon
<1>. HIDE DEF new, to
<1>6. /\ config' \in [Conf!Keepers -> Conf!Configs] /\ config'["config"] = config["config"]
      /\ config'["wm"] = config["wm"]
      /\ IF new.compiles THEN config'["reactor"] = new /\ \A p \in Conf!Panels : config'[p] = new
                         ELSE UNCHANGED config
  <2>1. CASE new.compiles
    <3>1. PICK by : by = {"reactor"} \cup Conf!Panels
      OBVIOUS
    <3>2. "config" \notin by /\ "wm" \notin by /\ "reactor" \in by /\ \A p \in Conf!Panels : p \in by
      BY <3>1 DEF Conf!Panels
    <3>3. config' = Conf!Adopted(by, new) /\ new \in Conf!Configs
      BY <1>2, <1>3, <2>1, <3>1
    <3>4. /\ config' \in [Conf!Keepers -> Conf!Configs]
          /\ \A p \in Conf!Keepers : config'[p] = IF p \in by THEN new ELSE config[p]
          /\ Conf!Panels \subseteq Conf!Keepers /\ {"reactor", "wm", "config"} \subseteq Conf!Keepers
      BY <3>3, Adopts
    <3>. QED  BY <2>1, <3>2, <3>4
  <2>2. CASE ~new.compiles
    BY <1>3, <2>2 DEF ConfInv, ConfTypeOK
  <2>. QED  BY <2>1, <2>2
<1>7. ReactorFollows'
  <2>1. CASE \E k \in DOMAIN queues["reactor"] : k # 1 /\ LastAt(k)
    BY <1>0, <1>3, <1>4, <1>6, <2>1, LastStays
  <2>2. CASE LastAt(1)
    <3>1. new = config["config"]
      BY <2>2 DEF LastAt, Conf!Updated, new
    <3>2. \A i \in DOMAIN queues'["reactor"] : queues'["reactor"][i].kind # "updated"
      BY <1>5, <2>2 DEF LastAt
    <3>. QED  BY <1>6, <3>1, <3>2 DEF ReactorFollows
  <2>. QED  BY <1>1, <1>2, <2>1, <2>2 DEF ConfInv, ReactorFollows
<1>8. PanelsFollow'
  BY <1>6 DEF ConfInv, PanelsFollow
<1>9. queues'["wm"] \in Seq({m \in News : m.kind = "updated"}) /\ BindingsFollow'
  <2>1. CASE to = {}
    <3>1. queues'["wm"] = queues["wm"]
      BY <1>5, <2>1
    <3>2. LastBindings' = LastBindings
      BY <1>6, <3>1 DEF LastBindings
    <3>3. new.compiles => new.keys = config["reactor"].keys \/ ~wmKnown
      BY <1>4, <2>1
    <3>4. early \/ LastBindings = config["reactor"].keys
      BY DEF ConfInv, BindingsFollow
    <3>5. early' \/ LastBindings' = config'["reactor"].keys
      <4>1. CASE ~new.compiles
        BY <1>3, <1>6, <3>2, <3>4, <4>1
      <4>2. CASE new.compiles
        <5>1. early' = (early \/ (~wmKnown /\ new.keys # config["reactor"].keys)) /\ config'["reactor"] = new
          BY <1>3, <1>6, <4>2
        <5>2. CASE new.keys = config["reactor"].keys
          <6>1. early => early'
            BY <5>1, Zenon
          <6>. QED  BY <3>2, <3>4, <5>1, <5>2, <6>1
        <5>3. CASE new.keys # config["reactor"].keys /\ ~wmKnown
          BY <5>1, <5>3
        <5>. QED  BY <3>3, <4>2, <5>2, <5>3
      <4>. QED  BY <4>1, <4>2
    <3>. QED  BY <1>3, <1>6, <3>1, <3>5 DEF ConfInv, ConfTypeOK, BindingsFollow
  <2>2. CASE to = {"wm"}
    <3>1. queues'["wm"] = Append(queues["wm"], queues["reactor"][1])
      BY <1>5, <2>2
    <3>2. queues'["wm"] \in Seq({m \in News : m.kind = "updated"}) /\ LastBindings' = new.keys
      BY <1>1, <1>2, <3>1, ControllerGets DEF new
    <3>. QED  BY <1>3, <1>4, <1>6, <2>2, <3>2 DEF ConfInv, BindingsFollow
  <2>. QED  BY <1>4, <2>1, <2>2
<1>. QED  BY <1>3, <1>5, <1>6, <1>7, <1>8, <1>9, AskersRest DEF ConfInv, ConfTypeOK

LEMMA ConfController == ConfInv /\ (Conf!WmUpdated \/ Conf!AppEventsRegistered) => ConfInv'
<1>. SUFFICES ASSUME ConfInv, Conf!WmUpdated \/ Conf!AppEventsRegistered  PROVE ConfInv'
  OBVIOUS
<1>1. Conf!Following
  BY DEF Conf!WmUpdated, Conf!AppEventsRegistered
<1>2. CASE Conf!AppEventsRegistered
  <2>1. installed' = TRUE /\ hotkeys' = config["wm"].keys /\ UNCHANGED <<config, queues, wmKnown, early>>
    BY <1>2 DEF Conf!AppEventsRegistered
  <2>2. \A k : LastAt(k)' <=> LastAt(k)
    BY <2>1 DEF LastAt
  <2>3. ReactorFollows' /\ PanelsFollow' /\ BindingsFollow'
    BY <2>1, <2>2 DEF ConfInv, ReactorFollows, PanelsFollow, BindingsFollow, LastBindings
  <2>. QED  BY <1>1, <2>1, <2>3, AskersRest DEF ConfInv, ConfTypeOK
<1>3. CASE Conf!WmUpdated
  <2>q. PICK q : q = queues["wm"]
    OBVIOUS
  <2>. DEFINE S == {m \in News : m.kind = "updated"}
              new == q[1].config
  <2>0. q \in Seq({m \in News : m.kind = "updated"}) /\ q # <<>> /\ DOMAIN queues = {"reactor", "wm"}
    BY <1>3, <2>q DEF Conf!WmUpdated, Conf!Take, ConfInv, ConfTypeOK
  <2>1. /\ Tail(q) \in Seq({m \in News : m.kind = "updated"}) /\ Head(q) = q[1]
        /\ q[1] \in News /\ q[1].kind = "updated"
        /\ Len(q) \in Nat \ {0} /\ Len(Tail(q)) = Len(q) - 1 /\ (Tail(q) = <<>> <=> Len(q) = 1)
        /\ \A i \in 1..Len(q) - 1 : Tail(q)[i] = q[i + 1]
    <3>1. q \in Seq(S) /\ q # <<>>
      BY <2>0
    <3>. HIDE DEF S
    <3>2. /\ Tail(q) \in Seq(S) /\ Head(q) = q[1] /\ q[1] \in S
          /\ Len(q) \in Nat \ {0} /\ Len(Tail(q)) = Len(q) - 1 /\ (Tail(q) = <<>> <=> Len(q) = 1)
          /\ \A i \in 1..Len(q) - 1 : Tail(q)[i] = q[i + 1]
      <4>1. /\ Tail(q) \in Seq(S) /\ Head(q) = q[1]
            /\ Len(q) \in Nat \ {0} /\ Len(Tail(q)) = Len(q) - 1
        BY <3>1
      <4>2. q[1] \in S /\ \A i \in 1..Len(q) - 1 : Tail(q)[i] = q[i + 1]
        BY <3>1
      <4>3. Tail(q) = <<>> <=> Len(Tail(q)) = 0
        BY <4>1
      <4>. QED  BY <4>1, <4>2, <4>3
    <3>. QED  BY <3>2 DEF S
  <2>2. new \in Conf!Configs
    BY <2>1 DEF News
  <2>3. /\ config' = Conf!Adopted({"wm"} \cup Conf!Taps, new)
        /\ hotkeys' = IF installed /\ new.keys # config["wm"].keys THEN new.keys ELSE hotkeys
        /\ queues' = Conf!Passed("wm", {})
        /\ UNCHANGED <<wmKnown, installed, early>>
    BY <1>3, <2>q, <2>1 DEF Conf!WmUpdated
  <2>4. DOMAIN queues' = {"reactor", "wm"} /\ queues'["wm"] = Tail(q) /\ queues'["reactor"] = queues["reactor"]
    BY <2>q, <2>0, <2>3 DEF Conf!Passed
  <2>5. /\ config' \in [Conf!Keepers -> Conf!Configs]
        /\ config'["wm"] = new /\ config'["config"] = config["config"] /\ config'["reactor"] = config["reactor"]
        /\ \A p \in Conf!Panels : config'[p] = config[p]
    <3>1. {"config", "reactor"} \cup Conf!Panels \subseteq Conf!Keepers \ ({"wm"} \cup Conf!Taps)
      BY DEF Conf!Keepers, Conf!Taps, Conf!Panels
    <3>. DEFINE by == {"wm"} \cup Conf!Taps
    <3>2. /\ config' \in [Conf!Keepers -> Conf!Configs]
          /\ \A p \in Conf!Keepers : config'[p] = IF p \in by THEN new ELSE config[p]
          /\ "wm" \in Conf!Keepers /\ "wm" \in by
      BY <2>2, <2>3, Adopts
    <3>. HIDE DEF by, new
    <3>. QED  BY <3>1, <3>2 DEF by
  <2>6. LastBindings' = LastBindings
    <3>1. CASE Tail(q) = <<>>
      BY <2>q, <2>0, <2>1, <2>4, <2>5, <3>1 DEF LastBindings
    <3>2. CASE Tail(q) # <<>>
      <4>1. Tail(q)[Len(Tail(q))] = q[Len(q)]
        BY <2>1, <3>2
      <4>. QED  BY <2>q, <2>0, <2>4, <3>2, <4>1 DEF LastBindings
    <3>. QED  BY <3>1, <3>2
  <2>. HIDE DEF new
  <2>7. \A k : LastAt(k)' <=> LastAt(k)
    BY <2>4, <2>5 DEF LastAt
  <2>8. ReactorFollows' /\ PanelsFollow'
    BY <2>4, <2>5, <2>7 DEF ConfInv, ReactorFollows, PanelsFollow
  <2>9. BindingsFollow'
    BY <2>3, <2>5, <2>6 DEF ConfInv, BindingsFollow
  <2>. QED  BY <1>1, <2>1, <2>4, <2>5, <2>8, <2>9, AskersRest DEF ConfInv, ConfTypeOK
<1>. QED  BY <1>2, <1>3

LEMMA ConfInit == MCInit => ConfInv
<1>. SUFFICES ASSUME MCInit  PROVE ConfInv
  OBVIOUS
<1>0. Conf!Init
  BY DEF MCInit
<1>1. /\ file \in Conf!Configs /\ config = [p \in Conf!Keepers |-> Conf!Default] /\ Conf!Default \in Conf!Configs
      /\ queues = [p \in {"reactor", "wm"} |-> <<>>]
      /\ asks = <<>> /\ answers = <<>> /\ told = <<>> /\ request = 0 /\ done = {} /\ ~installed
      /\ file = Conf!Default
  BY <1>0, ConfFields DEF Conf!Init
<1>2. queues["reactor"] = <<>> /\ queues["wm"] = <<>>
  BY <1>1
<1>3. {"config", "reactor", "wm"} \cup Conf!Panels \subseteq Conf!Keepers
  BY DEF Conf!Keepers
<1>4. ConfTypeOK
  BY <1>1, <1>2 DEF ConfTypeOK
<1>5. ReactorFollows /\ PanelsFollow /\ BindingsFollow /\ FileFollowed
  BY <1>1, <1>2, <1>3 DEF ReactorFollows, PanelsFollow, BindingsFollow, LastBindings, FileFollowed
<1>6. Numbered /\ TruthTold
  BY <1>1 DEF Numbered, Given, TruthTold
<1>. QED  BY <1>4, <1>5, <1>6 DEF ConfInv

LEMMA ConfStep == ConfInv /\ [MCNext]_<<part, vars, confVars, appVars, hideVars, switchVars>> => ConfInv'
<1>. SUFFICES ASSUME ConfInv, [MCNext]_<<part, vars, confVars, appVars, hideVars, switchVars>>
              PROVE  ConfInv'
  OBVIOUS
<1>1. CASE UNCHANGED confVars
  <2>1. UNCHANGED <<file, changed, watcher, enabled, asks, answers, config, queues, wmKnown, installed,
                    hotkeys, request, told, done, edits, fresh, early>>
    BY <1>1 DEF confVars
  <2>2. Conf!Following /\ UNCHANGED Conf!parties
    BY <2>1 DEF Conf!Following, Conf!parties, Conf!watching, Conf!asking
  <2>. QED  BY <2>1, <2>2, PartiesRest, AskersRest DEF ConfInv, ConfTypeOK
<1>2. CASE Conf!Next
  BY <1>2, ConfEdit, ConfNotice, ConfWatcher, ConfAsked, ConfAnswered, ConfAct, ConfStartUp, ConfIntroduce,
     ConfUpdated, ConfController DEF Conf!Next
<1>. QED  BY <1>1, <1>2 DEF MCNext

\* In the end the reactor has the last configuration that compiles, the panels the reactor's and the
\* event tap its hotkeys, unless they changed before the controller was known; a change of the file
\* was taken over, if hot reloading was on and no command came after it; and who asked was told the
\* truth, whichever changes, commands and timeouts met: for any contents, changes and bounds.
THEOREM ConfigurationFollowed == MCSpec => []ConfigurationArrives
BY ConfInit, ConfStep, ConfFollows, PTL DEF MCSpec

-----------------------------------------------------------------------------
(***************************************************************************)
(* Subscriptions.  Four threads and two concurrent maps: the invariant     *)
(* says how the maps differ while a subscription is made or removed, where *)
(* a request and its reply are, and where the broadcasts are that a client *)
(* must still get.                                                         *)
(***************************************************************************)
AskKinds    == {"subscribe", "unsubscribe", "query"}
Messages == {"event", "reply"}
Requests == [from : Clients, kind : AskKinds, name : Names]
Jobs     == [from : Clients, kind : AskKinds, name : Names,
             pc : AskKinds \cup {"retain", "index", "drop", "unindex", "sweep", "release", "reply"},
             dropped : BOOLEAN, fits : BOOLEAN]
Batches  == [to : SUBSET Clients, size : {"fits", "large"}]
Bridges  == [pc : {"any"}, name : Topics, targets : SUBSET Clients]
Workers  == [pc : {"send", "forget", "unlist", "clear"}, left : SUBSET Clients, size : {"fits", "large"},
             to : Clients \cup {None}, names : SUBSET Names, name : Names \cup {None}]

IpcTyped ==
  /\ phase \in [Clients -> {"new", "asking", "waiting", "listening", "gone"}]
  /\ inbox \in [Clients -> Seq(Messages)]
  /\ requests \in Seq(Requests) /\ batches \in Seq(Batches)
  /\ main \in Jobs \cup {Idle} /\ bridge \in Bridges \cup {Idle} /\ worker \in Workers \cup {Idle}
  /\ byClient \in [Clients -> (SUBSET Names) \cup {None}]
  /\ byEvent \in [Names -> (SUBSET Clients) \cup {None}]
  /\ held \in [Clients -> Int] /\ due \in [Clients -> Nat]

\* What the main thread does is what it was asked to; a client to which a send failed is known.
JobsFit ==
  /\ main.pc \in {"subscribe", "retain", "index"} => main.kind = "subscribe"
  /\ main.pc \in {"unsubscribe", "drop", "unindex", "sweep", "release"} => main.kind = "unsubscribe"
  /\ main.pc = "query" => main.kind = "query"
  /\ main.pc # "idle" => main.fits \/ main.kind = "query"
  /\ main.pc \in {"subscribe", "retain", "index", "unsubscribe", "drop"} => ~main.dropped
  /\ worker.pc \in {"forget", "unlist", "clear"} => worker.to \in worker.left \cap mishap
  /\ worker.pc = "clear" => worker.name \in worker.names

\* A request of the client, in the server's queue or in the main thread's hands.
Handles(c) == main.pc # "idle" /\ main.from = c
Requested(c)   == Handles(c) \/ \E i \in DOMAIN requests : requests[i].from = c
Leaving(c) == \/ Handles(c) /\ main.kind = "unsubscribe"
              \/ \E i \in DOMAIN requests : requests[i].from = c /\ requests[i].kind = "unsubscribe"
Querying(c) == \/ Handles(c) /\ main.kind = "query"
               \/ \E i \in DOMAIN requests : requests[i].from = c /\ requests[i].kind = "query"

\* A client has one request or one reply under way while it waits, and none while it listens;
\* who is about to be unsubscribed is promised nothing.
RequestsFit ==
  /\ \A i, j \in DOMAIN requests : requests[i].from = requests[j].from => i = j
  /\ \A i \in DOMAIN requests : ~Handles(requests[i].from)
  /\ \A c \in Clients :
       /\ \A i, j \in Queued(c, "reply") : i = j
       /\ phase[c] \in {"new", "listening"} => ~Requested(c) /\ Queued(c, "reply") = {}
       /\ phase[c] # "gone" /\ Requested(c) => Queued(c, "reply") = {}
       /\ phase[c] = "waiting" => Requested(c) \/ Queued(c, "reply") # {}
       /\ Querying(c) => phase[c] \in {"asking", "gone"}
       /\ phase[c] \in {"new", "asking", "gone"} \/ Leaving(c) => due[c] = 0

\* The name is the client's, but not yet the other way round; the client no longer has the
\* name that still has it; the worker has not come to the name.
Entered(c, n)  == main.pc \in {"retain", "index"} /\ main.from = c /\ main.name = n
Struck(c, n)   == main.pc \in {"drop", "unindex"} /\ main.from = c /\ main.name = n
Unlisting(c, n) == Removing /\ worker.to = c /\ n \in worker.names /\ (worker.pc = "clear" => n # worker.name)
Owned(c) == \/ byClient[c] # None /\ ~(main.pc = "retain" /\ main.from = c)
            \/ main.pc \in {"unindex", "sweep", "release"} /\ main.dropped /\ main.from = c
            \/ Removing /\ worker.to = c

Listings ==
  \A c \in Clients, n \in Names :
    /\ c \in ListedFor(n) <=> \/ Subscribed(c, n) /\ ~Entered(c, n)
                              \/ Struck(c, n) \/ Unlisting(c, n)
    /\ Entered(c, n) => Subscribed(c, n)
    /\ Struck(c, n) \/ Unlisting(c, n) => ~Subscribed(c, n)
Entries ==
  /\ \A c \in Clients : byClient[c] = {} <=> main.pc = "drop" /\ main.from = c
  /\ \A n \in Names : byEvent[n] = {} <=> \/ main.pc = "sweep" /\ main.name = n
                                          \/ worker.pc = "clear" /\ worker.name = n
  /\ main.pc \in {"unindex", "sweep", "release"} /\ main.dropped => byClient[main.from] = None
  /\ Removing => byClient[worker.to] = None
Rights == \A c \in Clients : held[c] = IF Owned(c) THEN 1 ELSE 0

MapsFit == "overlap" \notin mishap => ~(Changing /\ Removing) /\ Listings /\ Entries /\ Rights

\* The broadcasts on their way to a client.
Count(s, these) == Cardinality({i \in DOMAIN s : s[i] \in these})
For(c) == {x \in Batches : c \in x.to}
InHand(c) == IF worker.pc # "idle" /\ c \in worker.left THEN 1 ELSE 0
Announced(c) == IF bridge.pc # "idle" /\ c \in Targets THEN 1 ELSE 0
Coming(c) == Count(inbox[c], {"event"}) + Count(batches, For(c)) + InHand(c) + Announced(c)
Spared(c) == mishap \cap {"full", "overlap", "swept", c} = {}

BroadcastsCome == \A c \in Clients : Spared(c) => due[c] <= Coming(c)

IpcInv == IpcTyped /\ JobsFit /\ RequestsFit /\ MapsFit /\ BroadcastsCome

\* How many of some elements a queue has, and where the messages of a kind are in it.
LEMMA CountIs ==
  ASSUME NEW S, NEW s \in Seq(S), NEW these
  PROVE  /\ IsFiniteSet({i \in DOMAIN s : s[i] \in these}) /\ {i \in DOMAIN s : s[i] \in these} \subseteq Nat
         /\ Count(s, these) \in Nat
<1>1. {i \in DOMAIN s : s[i] \in these} \in SUBSET (1..Len(s)) /\ Len(s) \in Nat
  OBVIOUS
<1>2. IsFiniteSet(1..Len(s))
  BY <1>1, FS_Interval
<1>. QED  BY <1>1, <1>2, FS_Subset, FS_CardinalityType DEF Count

LEMMA CountAppend ==
  ASSUME NEW S, NEW s \in Seq(S), NEW e \in S, NEW these
  PROVE  Count(Append(s, e), these) = Count(s, these) + (IF e \in these THEN 1 ELSE 0)
<1>. DEFINE D == {i \in DOMAIN s : s[i] \in these}
            E == {i \in DOMAIN Append(s, e) : Append(s, e)[i] \in these}
<1>1. IsFiniteSet(D) /\ Cardinality(D) \in Nat
  <2>1. IsFiniteSet(D)
    BY CountIs
  <2>. HIDE DEF D
  <2>. QED  BY <2>1, FS_CardinalityType
<1>2. Len(s) + 1 \notin D /\ E = IF e \in these THEN D \cup {Len(s) + 1} ELSE D
  BY AppendElements
<1>3. Count(s, these) = Cardinality(D) /\ Count(Append(s, e), these) = Cardinality(E)
  BY DEF Count
<1>. HIDE DEF D, E
<1>4. e \in these => Cardinality(E) = Cardinality(D) + 1
  BY <1>1, <1>2, FS_AddElement
<1>. QED  BY <1>1, <1>2, <1>3, <1>4

LEMMA CountTail ==
  ASSUME NEW S, NEW s \in Seq(S), s # <<>>, NEW these
  PROVE  Count(s, these) = Count(Tail(s), these) + (IF Head(s) \in these THEN 1 ELSE 0)
<1>. DEFINE D == {i \in DOMAIN s : s[i] \in these}
            T == {i \in DOMAIN Tail(s) : Tail(s)[i] \in these}
            R == D \ {1}
            move == [i \in T |-> i + 1]
<1>1. /\ IsFiniteSet(D) /\ IsFiniteSet(T) /\ T \subseteq Nat
      /\ Cardinality(D) \in Nat /\ Cardinality(T) \in Nat
  <2>1. IsFiniteSet(D)
    BY CountIs
  <2>2. Tail(s) \in Seq(S)
    BY TailElements
  <2>3. IsFiniteSet(T) /\ T \subseteq Nat
    BY <2>2, CountIs
  <2>. HIDE DEF D, T
  <2>. QED  BY <2>1, <2>3, FS_CardinalityType
<1>2. 1 \in D <=> Head(s) \in these
  BY TailElements
<1>3. move \in [T -> R]
  BY TailElements
<1>4. \A i, j \in T : move[i] = move[j] => i = j
  BY <1>1
<1>5. ASSUME NEW k \in R PROVE \E i \in T : move[i] = k
  <2>1. k \in 1..Len(s) /\ s[k] \in these /\ k # 1 /\ Len(s) \in Nat
    BY <1>5, TailElements
  <2>2. k - 1 \in 1..Len(s) - 1 /\ (k - 1) + 1 = k
    BY <2>1
  <2>3. k - 1 \in T
    BY <2>1, <2>2, TailElements
  <2>. QED  BY <2>2, <2>3
<1>6. Count(s, these) = Cardinality(D) /\ Count(Tail(s), these) = Cardinality(T)
  BY DEF Count
<1>. HIDE DEF D, T, move
<1>7. ExistsBijection(T, R)
  BY <1>3, <1>4, <1>5 DEF ExistsBijection, Bijection, Injection, Surjection, IsInjective
<1>8. Cardinality(R) = Cardinality(T)
  BY <1>1, <1>7, FS_Bijection
<1>9. Cardinality(R) = IF 1 \in D THEN Cardinality(D) - 1 ELSE Cardinality(D)
  BY <1>1, FS_RemoveElement
<1>. QED  BY <1>1, <1>2, <1>6, <1>8, <1>9

LEMMA QueuedAppend ==
  ASSUME NEW S, NEW s \in Seq(S), NEW e \in S, NEW m
  PROVE  {i \in DOMAIN Append(s, e) : Append(s, e)[i] = m} =
           {i \in DOMAIN s : s[i] = m} \cup (IF e = m THEN {Len(s) + 1} ELSE {})
BY AppendElements

LEMMA QueuedTail ==
  ASSUME NEW S, NEW s \in Seq(S), s # <<>>, NEW m
  PROVE  /\ \A i \in DOMAIN Tail(s) : Tail(s)[i] = m => i + 1 \in {j \in DOMAIN s : s[j] = m} /\ i \in Nat
         /\ \A j \in DOMAIN s : s[j] = m => IF j = 1 THEN Head(s) = m ELSE j - 1 \in DOMAIN Tail(s) /\ Tail(s)[j - 1] = m
         /\ 1 \in DOMAIN s
<1>1. \A i \in DOMAIN Tail(s) : Tail(s)[i] = m => i + 1 \in {j \in DOMAIN s : s[j] = m} /\ i \in Nat
  BY TailElements
<1>2. ASSUME NEW j \in DOMAIN s, s[j] = m
      PROVE  IF j = 1 THEN Head(s) = m ELSE j - 1 \in DOMAIN Tail(s) /\ Tail(s)[j - 1] = m
  <2>1. j \in 1..Len(s) /\ Len(s) \in Nat /\ Head(s) = s[1]
    BY <1>2, TailElements
  <2>2. j # 1 => j - 1 \in 1..Len(s) - 1 /\ (j - 1) + 1 = j
    BY <2>1
  <2>. QED  BY <1>2, <2>1, <2>2, TailElements
<1>. QED  BY <1>1, <1>2, TailElements


-----------------------------------------------------------------------------
LEMMA IpcPcs ==
  ASSUME IpcTyped
  PROVE  /\ main = Idle <=> main.pc = "idle"
         /\ bridge = Idle <=> bridge.pc = "idle"
         /\ worker = Idle <=> worker.pc = "idle"
         /\ main.pc # "idle" => main \in Jobs
         /\ bridge.pc # "idle" => bridge \in Bridges
         /\ worker.pc # "idle" => worker \in Workers
BY DEF IpcTyped, Idle, Jobs, AskKinds, Bridges, Workers

\* What the main thread does with a request changes nothing between it and the clients.
LEMMA RequestsKept ==
  ASSUME RequestsFit, main.pc # "idle", main'.pc # "idle", main'.from = main.from, main'.kind = main.kind,
         UNCHANGED <<phase, inbox, requests, due>>
  PROVE  RequestsFit'
BY DEF RequestsFit, Requested, Handles, Leaving, Querying, Queued

\* Nor do broadcasts.
LEMMA RepliesKept ==
  ASSUME IpcTyped, RequestsFit, UNCHANGED <<phase, requests, main>>,
         \A c \in Clients : due'[c] = due[c] \/ phase[c] = "listening",
         UNCHANGED inbox \/ \E c \in Clients : Deliver(c, "event")
  PROVE  RequestsFit'
<1>1. ASSUME NEW c \in Clients PROVE Queued(c, "reply")' = Queued(c, "reply")
  <2>1. inbox[c] \in Seq(Messages) /\ "event" \in Messages
    BY DEF IpcTyped, Messages
  <2>2. inbox'[c] = inbox[c] \/ inbox'[c] = Append(inbox[c], "event")
    BY DEF Deliver, IpcTyped
  <2>. QED  BY <2>1, <2>2, QueuedAppend DEF Queued
<1>. QED  BY <1>1 DEF RequestsFit, Requested, Handles, Leaving, Querying

\* What is not the maps' business.
LEMMA MapsKept ==
  ASSUME MapsFit, mishap \subseteq mishap', UNCHANGED maps,
         \/ UNCHANGED main
         \/ {main.pc, main'.pc} \subseteq {"idle", "subscribe", "unsubscribe", "query", "reply"},
         \/ UNCHANGED worker
         \/ {worker.pc, worker'.pc} \subseteq {"idle", "send", "forget"}
  PROVE  MapsFit'
<1>. USE DEF maps
<1>1. UNCHANGED <<byClient, byEvent, held>>
  OBVIOUS
<1>2. Changing' = Changing /\ Removing' = Removing
  BY DEF Changing, Removing
<1>3. \A c, n : /\ Entered(c, n)' = Entered(c, n) /\ Struck(c, n)' = Struck(c, n)
                /\ Unlisting(c, n)' = Unlisting(c, n) /\ ListedFor(n)' = ListedFor(n)
                /\ Subscribed(c, n)' = Subscribed(c, n) /\ Owned(c)' = Owned(c)
  BY <1>1 DEF Entered, Struck, Unlisting, ListedFor, Subscribed, Owned, Removing
<1>4. Listings => Listings'
  BY <1>3 DEF Listings
<1>5. Entries => Entries'
  BY <1>1 DEF Entries, Removing
<1>6. Rights => Rights'
  BY <1>1, <1>3 DEF Rights
<1>. QED  BY <1>2, <1>4, <1>5, <1>6 DEF MapsFit

\* What a client still gets is unchanged but for a change of who listens to everything.
LEMMA ComingKept ==
  ASSUME IpcTyped, BroadcastsCome, mishap \subseteq mishap',
         UNCHANGED <<due, inbox, batches, bridge>>,
         UNCHANGED worker \/ \A c \in Clients : Spared(c)' => InHand(c)' = InHand(c),
         \A c \in Clients : Spared(c)' /\ due[c] # 0 /\ c \in ListedFor(Star) => c \in ListedFor(Star)'
  PROVE  BroadcastsCome'
<1>. SUFFICES ASSUME NEW c \in Clients, Spared(c)' PROVE due[c] <= Coming(c)'
  BY DEF BroadcastsCome
<1>1. inbox[c] \in Seq(Messages) /\ batches \in Seq(Batches) /\ due[c] \in Nat
  BY DEF IpcTyped
<1>2. /\ Count(inbox[c], {"event"}) \in Nat /\ Count(batches, For(c)) \in Nat
      /\ Count(inbox[c], {"event"})' = Count(inbox[c], {"event"}) /\ Count(batches, For(c))' = Count(batches, For(c))
  <2>1. Count(inbox[c], {"event"}) \in Nat /\ Count(batches, For(c)) \in Nat
    BY <1>1, CountIs
  <2>. QED  BY <2>1 DEF Count, For, Batches
<1>3. due[c] <= Coming(c)
  BY DEF BroadcastsCome, Spared
<1>4. InHand(c)' = InHand(c) /\ InHand(c) \in {0, 1}
  <2>1. InHand(c) \in {0, 1} /\ (UNCHANGED worker => InHand(c)' = InHand(c))
    BY DEF InHand
  <2>. QED  BY <2>1
<1>5. Announced(c) \in {0, 1} /\ Announced(c)' \in {0, 1}
  BY DEF Announced
<1>6. due[c] # 0 /\ Announced(c) = 1 => Announced(c)' = 1
  BY DEF Announced, Targets
<1>. QED  BY <1>1, <1>2, <1>3, <1>4, <1>5, <1>6 DEF Coming

-----------------------------------------------------------------------------
(* The main thread. *)

LEMMA ReceiveStep == IpcInv /\ Receive => IpcInv'
<1>. SUFFICES ASSUME IpcInv, Receive PROVE IpcInv'
  OBVIOUS
<1>. DEFINE r == Head(requests)
<1>1. /\ requests # <<>> /\ main.pc = "idle" /\ main' = Job(r) /\ requests' = Tail(requests)
      /\ UNCHANGED <<phase, inbox, asked, bridge, worker, batches, byClient, byEvent, held, published, due, mishap>>
  BY DEF Receive, clients, maps, history, Idle
<1>2. /\ r \in Requests /\ r = requests[1] /\ Tail(requests) \in Seq(Requests) /\ Len(requests) \in Nat \ {0}
      /\ DOMAIN requests = 1..Len(requests) /\ DOMAIN requests' = 1..Len(requests) - 1
      /\ \A i \in 1..Len(requests) - 1 : requests'[i] = requests[i + 1]
  <2>1. requests \in Seq(Requests)
    BY DEF IpcInv, IpcTyped
  <2>. QED  BY <1>1, <2>1, TailElements
<1>3. /\ r.from \in Clients /\ r.kind \in AskKinds /\ r.name \in Names
      /\ main' \in Jobs /\ main'.from = r.from /\ main'.kind = r.kind /\ main'.pc = r.kind
      /\ main'.fits /\ ~main'.dropped
  BY <1>1, <1>2 DEF Job, Requests, Jobs
<1>. HIDE DEF r
<1>4. IpcTyped'
  BY <1>1, <1>2, <1>3 DEF IpcInv, IpcTyped
<1>5. JobsFit'
  BY <1>1, <1>3 DEF IpcInv, JobsFit, AskKinds
<1>6. RequestsFit'
  <2>1. \A c : Handles(c)' <=> c = r.from
    BY <1>3 DEF Handles, AskKinds
  <2>2. \A i \in DOMAIN requests' : i \in Nat /\ i + 1 \in DOMAIN requests /\ requests'[i] = requests[i + 1] /\ i + 1 # 1
    BY <1>2
  <2>3. /\ 1 \in DOMAIN requests /\ requests[1] = r
        /\ \A i, j \in DOMAIN requests : requests[i].from = requests[j].from => i = j
    BY <1>2 DEF IpcInv, RequestsFit
  <2>4. \A c : /\ Requested(c)' => Requested(c)
               /\ Requested(c) => Requested(c)'
    <3>1. \A i \in DOMAIN requests : i = 1 \/ (i - 1 \in DOMAIN requests' /\ requests'[i - 1] = requests[i])
      BY <1>2
    <3>2. ~Handles(r.from) /\ \A c : ~Handles(c)
      BY <1>1 DEF Handles
    <3>3. ASSUME NEW c, Requested(c)' PROVE Requested(c)
      BY <3>2, <3>3, <2>1, <2>2, <2>3 DEF Requested
    <3>4. ASSUME NEW c, Requested(c) PROVE Requested(c)'
      <4>1. PICK i \in DOMAIN requests : requests[i].from = c
        BY <3>2, <3>4 DEF Requested
      <4>2. CASE i = 1
        BY <4>1, <4>2, <2>1, <2>3 DEF Requested
      <4>3. CASE i # 1
        BY <4>1, <4>3, <3>1 DEF Requested
      <4>. QED  BY <4>2, <4>3
    <3>. QED  BY <3>3, <3>4
  <2>5. \A c : (Leaving(c)' => Leaving(c)) /\ (Querying(c)' => Querying(c))
    BY <1>1, <1>3, <2>1, <2>2, <2>3 DEF Leaving, Querying
  <2>6. \A c \in Clients : Queued(c, "reply")' = Queued(c, "reply")
    BY <1>1 DEF Queued
  <2>7. /\ \A i, j \in DOMAIN requests' : requests'[i].from = requests'[j].from => i = j
        /\ \A i \in DOMAIN requests' : requests'[i].from # r.from
    BY <2>2, <2>3
  <2>. QED  BY <1>1, <2>1, <2>4, <2>5, <2>6, <2>7 DEF IpcInv, RequestsFit
<1>7. MapsFit'
  BY <1>1, <1>3, MapsKept DEF IpcInv, maps, AskKinds
<1>8. BroadcastsCome'
  BY <1>1, ComingKept DEF IpcInv, ListedFor
<1>. QED  BY <1>4, <1>5, <1>6, <1>7, <1>8 DEF IpcInv

\* The main thread at work: what it leaves alone.
LEMMA MainAt ==
  ASSUME IpcInv, NEW p, p # "idle", AtMain(p)
  PROVE  /\ main \in Jobs /\ main.pc = p /\ main.from \in Clients /\ main.name \in Names
         /\ UNCHANGED <<phase, inbox, asked, requests, bridge, worker, batches, published, due>>
         /\ \A q : GoMain(q) => /\ main' = [main EXCEPT !.pc = q] /\ main'.pc = q
                                /\ main'.from = main.from /\ main'.kind = main.kind /\ main'.name = main.name
                                /\ main'.fits = main.fits /\ main'.dropped = main.dropped
BY IpcPcs DEF IpcInv, AtMain, GoMain, clients, Jobs

LEMMA EnterStep == IpcInv /\ Enter => IpcInv'
<1>. SUFFICES ASSUME IpcInv, Enter, NEW c, c = main.from, NEW n, n = main.name PROVE IpcInv'
  OBVIOUS
<1>. DEFINE q == IF byClient[c] = None THEN "retain" ELSE IF n \in byClient[c] THEN "reply" ELSE "index"
<1>1. /\ main \in Jobs /\ main.pc = "subscribe" /\ c \in Clients /\ n \in Names
      /\ UNCHANGED <<phase, inbox, asked, requests, bridge, worker, batches, published, due>>
      /\ main' = [main EXCEPT !.pc = q] /\ main'.pc = q
      /\ main'.from = c /\ main'.kind = main.kind /\ main'.name = n
      /\ main'.fits = main.fits /\ main'.dropped = main.dropped
  BY MainAt DEF Enter
<1>2. /\ byClient' = [byClient EXCEPT ![c] = IF byClient[c] = None THEN {n} ELSE byClient[c] \cup {n}]
      /\ mishap \subseteq mishap' /\ (Removing => "overlap" \in mishap') /\ UNCHANGED <<byEvent, held>>
  BY DEF Enter, Noting
<1>3. q \in {"retain", "reply", "index"} /\ main.kind = "subscribe"
  BY <1>1 DEF IpcInv, JobsFit
<1>4. byClient \in [Clients -> (SUBSET Names) \cup {None}] /\ None \notin SUBSET Names
  BY IpcAssumption DEF IpcInv, IpcTyped
<1>5. IpcTyped'
  <2>1. main' \in Jobs
    BY <1>1, <1>3 DEF Jobs, AskKinds
  <2>2. byClient' \in [Clients -> (SUBSET Names) \cup {None}]
    BY <1>1, <1>2, <1>4
  <2>. QED  BY <1>1, <1>2, <2>1, <2>2 DEF IpcInv, IpcTyped
<1>6. JobsFit'
  BY <1>1, <1>2, <1>3 DEF IpcInv, JobsFit
<1>7. RequestsFit'
  BY <1>1, <1>3, RequestsKept DEF IpcInv
<1>8. MapsFit'
  <2>. SUFFICES ASSUME "overlap" \notin mishap' PROVE MapsFit'
    BY DEF MapsFit
  <2>1. ~Removing /\ ~Removing' /\ Listings /\ Entries /\ Rights
    BY <1>1, <1>2 DEF IpcInv, MapsFit, Removing
  <2>2. byClient'[c] # None /\ byClient'[c] # {} /\ n \in byClient'[c] /\ \A x \in Names \ {n} : Subscribed(c, x)' <=> Subscribed(c, x)
    BY <1>1, <1>2, <1>4 DEF Subscribed
  <2>3. \A d \in Clients \ {c} : byClient'[d] = byClient[d]
    BY <1>1, <1>2, <1>4
  <2>4. Listings'
    <3>. SUFFICES ASSUME NEW d \in Clients, NEW x \in Names
                  PROVE  (/\ d \in ListedFor(x) <=> (Subscribed(d, x) /\ ~Entered(d, x)) \/ Struck(d, x) \/ Unlisting(d, x)
                          /\ Entered(d, x) => Subscribed(d, x)
                          /\ Struck(d, x) \/ Unlisting(d, x) => ~Subscribed(d, x))'
      BY DEF Listings
    <3>1. /\ d \in ListedFor(x) <=> Subscribed(d, x)
          /\ ListedFor(x)' = ListedFor(x)
      BY <1>1, <1>2, <2>1 DEF Listings, Entered, Struck, Unlisting, ListedFor
    <3>2. ~Struck(d, x)' /\ ~Unlisting(d, x)'
      BY <1>1, <1>3, <2>1 DEF Struck, Unlisting
    <3>3. Entered(d, x)' <=> d = c /\ x = n /\ q # "reply"
      BY <1>1, <1>3 DEF Entered
    <3>4. Subscribed(d, x)' <=> Subscribed(d, x) \/ (d = c /\ x = n)
      <4>1. CASE d = c
        <5>1. Subscribed(c, n)'
          BY <2>2 DEF Subscribed
        <5>. QED  BY <4>1, <5>1, <2>2
      <4>2. CASE d # c
        BY <4>2, <2>3 DEF Subscribed
      <4>. QED  BY <4>1, <4>2
    <3>5. Subscribed(c, n) <=> q = "reply"
      BY <1>4 DEF Subscribed
    <3>. QED  BY <3>1, <3>2, <3>3, <3>4, <3>5
  <2>5. Entries'
    BY <1>1, <1>2, <1>3, <2>1, <2>2, <2>3 DEF Entries
  <2>6. Rights'
    BY <1>1, <1>2, <1>3, <2>1, <2>2, <2>3 DEF Rights, Owned
  <2>. QED  BY <2>1, <2>4, <2>5, <2>6 DEF MapsFit
<1>9. BroadcastsCome'
  BY <1>1, <1>2, ComingKept DEF IpcInv, ListedFor
<1>. QED  BY <1>5, <1>6, <1>7, <1>8, <1>9 DEF IpcInv

LEMMA RetainStep == IpcInv /\ Retain => IpcInv'
<1>. SUFFICES ASSUME IpcInv, Retain, NEW c, c = main.from, NEW n, n = main.name PROVE IpcInv'
  OBVIOUS
<1>1. /\ main \in Jobs /\ main.pc = "retain" /\ c \in Clients /\ n \in Names
      /\ UNCHANGED <<phase, inbox, asked, requests, bridge, worker, batches, published, due>>
      /\ main' = [main EXCEPT !.pc = "index"] /\ main'.pc = "index"
      /\ main'.from = c /\ main'.kind = main.kind /\ main'.name = n
      /\ main'.fits = main.fits /\ main'.dropped = main.dropped
  BY MainAt DEF Retain
<1>2. held' = [held EXCEPT ![c] = @ + 1] /\ UNCHANGED <<byClient, byEvent, mishap>>
  BY DEF Retain
<1>3. main.kind = "subscribe"
  BY <1>1 DEF IpcInv, JobsFit
<1>4. IpcTyped'
  <2>1. main' \in Jobs
    BY <1>1 DEF Jobs
  <2>2. held' \in [Clients -> Int]
    BY <1>1, <1>2 DEF IpcInv, IpcTyped
  <2>. QED  BY <1>1, <1>2, <2>1, <2>2 DEF IpcInv, IpcTyped
<1>5. JobsFit'
  BY <1>1, <1>2, <1>3 DEF IpcInv, JobsFit
<1>6. RequestsFit'
  BY <1>1, RequestsKept DEF IpcInv
<1>7. MapsFit'
  <2>. SUFFICES ASSUME "overlap" \notin mishap PROVE MapsFit'
    BY <1>2 DEF MapsFit
  <2>1. ~Removing /\ ~Removing' /\ Listings /\ Entries /\ Rights
    BY <1>1 DEF IpcInv, MapsFit, Changing, Removing
  <2>2. Listings'
    <3>1. \A d \in Clients, x \in Names :
            /\ Entered(d, x)' = Entered(d, x) /\ ~Struck(d, x)' /\ ~Unlisting(d, x)'
            /\ Subscribed(d, x)' = Subscribed(d, x) /\ ListedFor(x)' = ListedFor(x) /\ ~Struck(d, x)
            /\ ~Unlisting(d, x)
      BY <1>1, <1>2, <2>1 DEF Entered, Struck, Unlisting, Subscribed, ListedFor
    <3>. QED  BY <2>1, <3>1 DEF Listings
  <2>3. Entries'
    BY <1>1, <1>2, <2>1 DEF Entries
  <2>4. Rights'
    <3>1. byClient[c] # None
      <4>1. Entered(c, n)
        BY <1>1 DEF Entered
      <4>. QED  BY <1>1, <2>1, <4>1 DEF Listings, Subscribed
    <3>2. held[c] = 0 /\ held'[c] = 1 /\ \A d \in Clients \ {c} : held'[d] = held[d]
      <4>1. held[c] = 0
        BY <1>1, <2>1 DEF Rights, Owned
      <4>. QED  BY <1>1, <1>2, <4>1 DEF IpcInv, IpcTyped
    <3>3. Owned(c)' /\ \A d \in Clients \ {c} : Owned(d)' = Owned(d)
      BY <1>1, <1>2, <2>1, <3>1 DEF Owned
    <3>. QED  BY <2>1, <3>2, <3>3 DEF Rights
  <2>. QED  BY <2>1, <2>2, <2>3, <2>4 DEF MapsFit
<1>8. BroadcastsCome'
  BY <1>1, <1>2, ComingKept DEF IpcInv, ListedFor
<1>. QED  BY <1>4, <1>5, <1>6, <1>7, <1>8 DEF IpcInv

LEMMA IndexStep == IpcInv /\ Index => IpcInv'
<1>. SUFFICES ASSUME IpcInv, Index, NEW c, c = main.from, NEW n, n = main.name PROVE IpcInv'
  OBVIOUS
<1>1. /\ main \in Jobs /\ main.pc = "index" /\ c \in Clients /\ n \in Names
      /\ UNCHANGED <<phase, inbox, asked, requests, bridge, worker, batches, published, due>>
      /\ main' = [main EXCEPT !.pc = "reply"] /\ main'.pc = "reply"
      /\ main'.from = c /\ main'.kind = main.kind /\ main'.name = n
      /\ main'.fits = main.fits /\ main'.dropped = main.dropped
  BY MainAt DEF Index
<1>2. byEvent' = [byEvent EXCEPT ![n] = (IF @ = None THEN {} ELSE @) \cup {c}] /\ UNCHANGED <<byClient, held, mishap>>
  BY DEF Index
<1>3. main.kind = "subscribe"
  BY <1>1 DEF IpcInv, JobsFit
<1>4. byEvent \in [Names -> (SUBSET Clients) \cup {None}] /\ None \notin SUBSET Clients
  BY IpcAssumption DEF IpcInv, IpcTyped
<1>5. /\ byEvent' \in [Names -> (SUBSET Clients) \cup {None}] /\ byEvent'[n] # {}
      /\ ListedFor(n)' = ListedFor(n) \cup {c}
      /\ \A x \in Names \ {n} : ListedFor(x)' = ListedFor(x) /\ byEvent'[x] = byEvent[x]
  <2>1. byEvent'[n] = ListedFor(n) \cup {c} /\ \A x \in Names \ {n} : byEvent'[x] = byEvent[x]
    BY <1>1, <1>2, <1>4 DEF ListedFor
  <2>2. ListedFor(n) \in SUBSET Clients
    BY <1>1, <1>4 DEF ListedFor
  <2>3. byEvent'[n] # None /\ byEvent' \in [Names -> (SUBSET Clients) \cup {None}]
    BY <1>1, <1>2, <1>4, <2>1, <2>2
  <2>. QED  BY <2>1, <2>3, <1>1 DEF ListedFor
<1>6. IpcTyped'
  <2>1. main' \in Jobs
    BY <1>1 DEF Jobs
  <2>. QED  BY <1>1, <1>2, <1>5, <2>1 DEF IpcInv, IpcTyped
<1>7. JobsFit'
  BY <1>1, <1>2, <1>3 DEF IpcInv, JobsFit
<1>8. RequestsFit'
  BY <1>1, RequestsKept DEF IpcInv
<1>9. MapsFit'
  <2>. SUFFICES ASSUME "overlap" \notin mishap PROVE MapsFit'
    BY <1>2 DEF MapsFit
  <2>1. ~Removing /\ ~Removing' /\ Listings /\ Entries /\ Rights
    BY <1>1 DEF IpcInv, MapsFit, Changing, Removing
  <2>2. Listings'
    <3>. SUFFICES ASSUME NEW d \in Clients, NEW x \in Names
                  PROVE  (/\ d \in ListedFor(x) <=> (Subscribed(d, x) /\ ~Entered(d, x)) \/ Struck(d, x) \/ Unlisting(d, x)
                          /\ Entered(d, x) => Subscribed(d, x)
                          /\ Struck(d, x) \/ Unlisting(d, x) => ~Subscribed(d, x))'
      BY DEF Listings
    <3>1. /\ d \in ListedFor(x) <=> Subscribed(d, x) /\ ~(d = c /\ x = n)
          /\ d = c /\ x = n => Subscribed(d, x)
      BY <1>1, <2>1 DEF Listings, Entered, Struck, Unlisting
    <3>2. ~Struck(d, x)' /\ ~Unlisting(d, x)' /\ ~Entered(d, x)' /\ Subscribed(d, x)' = Subscribed(d, x)
      BY <1>1, <1>2, <2>1 DEF Struck, Unlisting, Entered, Subscribed
    <3>. QED  BY <1>5, <3>1, <3>2
  <2>3. Entries'
    BY <1>1, <1>2, <1>5, <2>1 DEF Entries, Removing
  <2>4. Rights'
    BY <1>1, <1>2, <2>1 DEF Rights, Owned
  <2>. QED  BY <2>1, <2>2, <2>3, <2>4 DEF MapsFit
<1>10. BroadcastsCome'
  <2>1. Star \in Names /\ \A d \in ListedFor(Star) : d \in ListedFor(Star)'
    BY <1>5 DEF Names
  <2>. QED  BY <1>1, <1>2, <2>1, ComingKept DEF IpcInv
<1>. QED  BY <1>6, <1>7, <1>8, <1>9, <1>10 DEF IpcInv

LEMMA StrikeStep == IpcInv /\ Strike => IpcInv'
<1>. SUFFICES ASSUME IpcInv, Strike, NEW c, c = main.from, NEW n, n = main.name PROVE IpcInv'
  OBVIOUS
<1>. DEFINE left == byClient[c] \ {n}
            q == IF byClient[c] = None THEN "reply" ELSE IF left = {} THEN "drop"
                 ELSE IF n \in byClient[c] THEN "unindex" ELSE "reply"
<1>1. /\ main \in Jobs /\ main.pc = "unsubscribe" /\ c \in Clients /\ n \in Names
      /\ UNCHANGED <<phase, inbox, asked, requests, bridge, worker, batches, published, due>>
      /\ main' = [main EXCEPT !.pc = q] /\ main'.pc = q
      /\ main'.from = c /\ main'.kind = main.kind /\ main'.name = n
      /\ main'.fits = main.fits /\ main'.dropped = main.dropped
  <2>1. GoMain(q)
    BY DEF Strike
  <2>. QED  BY <2>1, MainAt DEF Strike
<1>2. /\ byClient' = IF byClient[c] = None THEN byClient ELSE [byClient EXCEPT ![c] = left]
      /\ mishap \subseteq mishap' /\ (Removing => "overlap" \in mishap') /\ UNCHANGED <<byEvent, held>>
  BY DEF Strike, Noting
<1>3. q \in {"reply", "drop", "unindex"} /\ main.kind = "unsubscribe" /\ ~main.dropped
  BY <1>1 DEF IpcInv, JobsFit
<1>4. byClient \in [Clients -> (SUBSET Names) \cup {None}] /\ None \notin SUBSET Names
  BY IpcAssumption DEF IpcInv, IpcTyped
<1>5. IpcTyped'
  <2>1. main' \in Jobs
    BY <1>1, <1>3 DEF Jobs, AskKinds
  <2>2. byClient' \in [Clients -> (SUBSET Names) \cup {None}]
    BY <1>1, <1>2, <1>4
  <2>. QED  BY <1>1, <1>2, <2>1, <2>2 DEF IpcInv, IpcTyped
<1>6. JobsFit'
  BY <1>1, <1>2, <1>3 DEF IpcInv, JobsFit
<1>7. RequestsFit'
  BY <1>1, <1>3, RequestsKept DEF IpcInv
<1>8. MapsFit'
  <2>. SUFFICES ASSUME "overlap" \notin mishap' PROVE MapsFit'
    BY DEF MapsFit
  <2>1. ~Removing /\ ~Removing' /\ Listings /\ Entries /\ Rights
    BY <1>1, <1>2 DEF IpcInv, MapsFit, Removing
  <2>2. \A d \in Clients \ {c} : byClient'[d] = byClient[d]
    BY <1>1, <1>2, <1>4
  <2>3. CASE byClient[c] = None
    <3>1. q = "reply" /\ UNCHANGED byClient
      BY <1>2, <2>3
    <3>. QED  BY <1>1, <1>2, <3>1, MapsKept DEF IpcInv, maps
  <2>4. CASE byClient[c] # None
    <3>1. byClient'[c] = left /\ byClient[c] \in SUBSET Names /\ byClient[c] # {} /\ left # None
      BY <1>1, <1>2, <1>4, <2>1, <2>4 DEF Entries
    <3>2. (q = "reply" <=> n \notin byClient[c]) /\ (q = "drop" <=> left = {})
      BY <2>4, <3>1
    <3>3. Listings'
      <4>. SUFFICES ASSUME NEW d \in Clients, NEW x \in Names
                    PROVE  (/\ d \in ListedFor(x) <=> (Subscribed(d, x) /\ ~Entered(d, x)) \/ Struck(d, x) \/ Unlisting(d, x)
                            /\ Entered(d, x) => Subscribed(d, x)
                            /\ Struck(d, x) \/ Unlisting(d, x) => ~Subscribed(d, x))'
        BY DEF Listings
      <4>1. /\ d \in ListedFor(x) <=> Subscribed(d, x)
            /\ ListedFor(x)' = ListedFor(x)
        BY <1>1, <1>2, <2>1 DEF Listings, Entered, Struck, Unlisting, ListedFor
      <4>2. ~Entered(d, x)' /\ ~Unlisting(d, x)'
        BY <1>1, <1>3, <2>1 DEF Entered, Unlisting
      <4>3. Struck(d, x)' <=> d = c /\ x = n /\ q # "reply"
        BY <1>1, <1>3 DEF Struck
      <4>4. Subscribed(d, x)' <=> Subscribed(d, x) /\ ~(d = c /\ x = n)
        <5>1. CASE d = c
          <6>1. Subscribed(d, x)' <=> x \in left
            BY <3>1, <5>1 DEF Subscribed
          <6>. QED  BY <2>4, <5>1, <6>1 DEF Subscribed
        <5>2. CASE d # c
          BY <5>2, <2>2 DEF Subscribed
        <5>. QED  BY <5>1, <5>2
      <4>5. Subscribed(c, n) <=> q # "reply"
        BY <2>4, <3>2 DEF Subscribed
      <4>. QED  BY <4>1, <4>2, <4>3, <4>4, <4>5
    <3>. HIDE DEF q, left
    <3>4. Entries'
      BY <1>1, <1>2, <1>3, <2>1, <2>2, <3>1, <3>2 DEF Entries
    <3>5. Rights'
      BY <1>1, <1>2, <1>3, <2>1, <2>2, <2>4, <3>1 DEF Rights, Owned
    <3>. QED  BY <2>1, <3>3, <3>4, <3>5 DEF MapsFit
  <2>. QED  BY <2>3, <2>4
<1>9. BroadcastsCome'
  BY <1>1, <1>2, ComingKept DEF IpcInv, ListedFor
<1>. QED  BY <1>5, <1>6, <1>7, <1>8, <1>9 DEF IpcInv

LEMMA DropClientStep == IpcInv /\ DropClient => IpcInv'
<1>. SUFFICES ASSUME IpcInv, DropClient, NEW c, c = main.from, NEW n, n = main.name PROVE IpcInv'
  OBVIOUS
<1>1. /\ main \in Jobs /\ main.pc = "drop" /\ c \in Clients /\ n \in Names
      /\ UNCHANGED <<phase, inbox, asked, requests, bridge, worker, batches, published, due>>
      /\ main' = [main EXCEPT !.pc = "unindex", !.dropped = TRUE] /\ main'.pc = "unindex"
      /\ main'.from = c /\ main'.kind = main.kind /\ main'.name = n
      /\ main'.fits = main.fits /\ main'.dropped
  BY MainAt DEF DropClient, Jobs
<1>2. byClient' = [byClient EXCEPT ![c] = None] /\ UNCHANGED <<byEvent, held, mishap>>
  BY DEF DropClient
<1>3. main.kind = "unsubscribe"
  BY <1>1 DEF IpcInv, JobsFit
<1>4. byClient \in [Clients -> (SUBSET Names) \cup {None}] /\ None # {}
  BY IpcAssumption DEF IpcInv, IpcTyped
<1>5. IpcTyped'
  <2>1. main' \in Jobs
    BY <1>1 DEF Jobs
  <2>2. byClient' \in [Clients -> (SUBSET Names) \cup {None}]
    BY <1>1, <1>2, <1>4
  <2>. QED  BY <1>1, <1>2, <2>1, <2>2 DEF IpcInv, IpcTyped
<1>6. JobsFit'
  BY <1>1, <1>2, <1>3 DEF IpcInv, JobsFit
<1>7. RequestsFit'
  BY <1>1, RequestsKept DEF IpcInv
<1>8. MapsFit'
  <2>. SUFFICES ASSUME "overlap" \notin mishap PROVE MapsFit'
    BY <1>2 DEF MapsFit
  <2>1. ~Removing /\ ~Removing' /\ Listings /\ Entries /\ Rights
    BY <1>1 DEF IpcInv, MapsFit, Changing, Removing
  <2>2. byClient'[c] = None /\ byClient[c] = {} /\ \A d \in Clients \ {c} : byClient'[d] = byClient[d]
    BY <1>1, <1>2, <1>4, <2>1 DEF Entries
  <2>3. Listings'
    <3>1. \A d \in Clients, x \in Names :
            /\ ~Entered(d, x)' /\ ~Unlisting(d, x)' /\ ~Entered(d, x) /\ ~Unlisting(d, x)
            /\ Struck(d, x)' = Struck(d, x)
            /\ Subscribed(d, x)' = Subscribed(d, x) /\ ListedFor(x)' = ListedFor(x)
      BY <1>1, <1>2, <2>1, <2>2 DEF Entered, Struck, Unlisting, Subscribed, ListedFor
    <3>. QED  BY <2>1, <3>1 DEF Listings
  <2>4. Entries'
    BY <1>1, <1>2, <1>4, <2>1, <2>2 DEF Entries
  <2>5. Rights'
    BY <1>1, <1>2, <1>4, <2>1, <2>2 DEF Rights, Owned
  <2>. QED  BY <2>1, <2>3, <2>4, <2>5 DEF MapsFit
<1>9. BroadcastsCome'
  BY <1>1, <1>2, ComingKept DEF IpcInv, ListedFor
<1>. QED  BY <1>5, <1>6, <1>7, <1>8, <1>9 DEF IpcInv

\* An entry of the second map that loses a client.
LEMMA WithoutIs ==
  ASSUME IpcTyped, NEW n \in Names, NEW c \in Clients, byEvent' = [byEvent EXCEPT ![n] = Without(byEvent[n], c)]
  PROVE  /\ byEvent' \in [Names -> (SUBSET Clients) \cup {None}]
         /\ ListedFor(n)' = ListedFor(n) \ {c} /\ byEvent'[n] = Without(byEvent[n], c)
         /\ \A x \in Names \ {n} : ListedFor(x)' = ListedFor(x) /\ byEvent'[x] = byEvent[x]
<1>1. byEvent \in [Names -> (SUBSET Clients) \cup {None}] /\ None \notin SUBSET Clients
  BY IpcAssumption DEF IpcTyped
<1>2. /\ Without(byEvent[n], c) \in (SUBSET Clients) \cup {None}
      /\ Without(byEvent[n], c) = None <=> byEvent[n] = None
      /\ byEvent[n] # None => Without(byEvent[n], c) = byEvent[n] \ {c}
  BY <1>1 DEF Without
<1>3. byEvent'[n] = Without(byEvent[n], c) /\ \A x \in Names \ {n} : byEvent'[x] = byEvent[x]
  BY <1>1
<1>4. byEvent' \in [Names -> (SUBSET Clients) \cup {None}]
  BY <1>1, <1>2
<1>5. ListedFor(n)' = ListedFor(n) \ {c}
  BY <1>2, <1>3 DEF ListedFor
<1>. QED  BY <1>3, <1>4, <1>5 DEF ListedFor

LEMMA UnindexStep == IpcInv /\ Unindex => IpcInv'
<1>. SUFFICES ASSUME IpcInv, Unindex, NEW c, c = main.from, NEW n, n = main.name PROVE IpcInv'
  OBVIOUS
<1>. DEFINE w == Without(byEvent[n], c)
            q == IF w = {} THEN "sweep" ELSE "release"
<1>1. /\ main \in Jobs /\ main.pc = "unindex" /\ c \in Clients /\ n \in Names
      /\ UNCHANGED <<phase, inbox, asked, requests, bridge, worker, batches, published, due>>
      /\ main' = [main EXCEPT !.pc = q] /\ main'.pc = q
      /\ main'.from = c /\ main'.kind = main.kind /\ main'.name = n
      /\ main'.fits = main.fits /\ main'.dropped = main.dropped
  <2>1. GoMain(q)
    BY DEF Unindex
  <2>. QED  BY <2>1, MainAt DEF Unindex
<1>2. byEvent' = [byEvent EXCEPT ![n] = w] /\ UNCHANGED <<byClient, held, mishap>>
  BY DEF Unindex
<1>3. q \in {"sweep", "release"} /\ (q = "sweep" <=> w = {}) /\ main.kind = "unsubscribe"
  BY <1>1 DEF IpcInv, JobsFit
<1>4. /\ byEvent' \in [Names -> (SUBSET Clients) \cup {None}]
      /\ ListedFor(n)' = ListedFor(n) \ {c} /\ byEvent'[n] = w
      /\ \A x \in Names \ {n} : ListedFor(x)' = ListedFor(x) /\ byEvent'[x] = byEvent[x]
  BY <1>1, <1>2, WithoutIs DEF IpcInv
<1>. HIDE DEF q, w
<1>5. IpcTyped'
  <2>1. main' \in Jobs
    BY <1>1, <1>3 DEF Jobs
  <2>. QED  BY <1>1, <1>2, <1>4, <2>1 DEF IpcInv, IpcTyped
<1>6. JobsFit'
  BY <1>1, <1>2, <1>3 DEF IpcInv, JobsFit
<1>7. RequestsFit'
  BY <1>1, <1>3, RequestsKept DEF IpcInv
<1>8. MapsFit'
  <2>. SUFFICES ASSUME "overlap" \notin mishap PROVE MapsFit'
    BY <1>2 DEF MapsFit
  <2>1. ~Removing /\ ~Removing' /\ Listings /\ Entries /\ Rights
    BY <1>1 DEF IpcInv, MapsFit, Changing, Removing
  <2>2. Listings'
    <3>1. \A d \in Clients, x \in Names :
            /\ ~Entered(d, x)' /\ ~Unlisting(d, x)' /\ ~Entered(d, x) /\ ~Unlisting(d, x)
            /\ ~Struck(d, x)' /\ (Struck(d, x) <=> d = c /\ x = n)
            /\ Subscribed(d, x)' = Subscribed(d, x)
      BY <1>1, <1>2, <1>3, <2>1 DEF Entered, Struck, Unlisting, Subscribed
    <3>2. \A d \in Clients, x \in Names : d \in ListedFor(x)' <=> d \in ListedFor(x) /\ ~(d = c /\ x = n)
      BY <1>4
    <3>. QED  BY <2>1, <3>1, <3>2 DEF Listings
  <2>3. Entries'
    <3>1. \A x \in Names : byEvent[x] # {}
      BY <1>1, <2>1 DEF Entries, Removing
    <3>2. worker.pc # "clear" /\ UNCHANGED worker
      BY <1>1, <2>1 DEF Removing
    <3>3. \A x \in Names : byEvent'[x] = {} <=> main'.pc = "sweep" /\ main'.name = x
      BY <1>1, <1>3, <1>4, <3>1
    <3>. QED  BY <1>1, <1>2, <1>3, <2>1, <3>2, <3>3 DEF Entries
  <2>4. Rights'
    BY <1>1, <1>2, <1>3, <2>1 DEF Rights, Owned
  <2>. QED  BY <2>1, <2>2, <2>3, <2>4 DEF MapsFit
<1>9. BroadcastsCome'
  <2>1. Leaving(c)
    BY <1>1, <1>3 DEF Leaving, Handles
  <2>2. due[c] = 0
    BY <1>1, <2>1 DEF IpcInv, RequestsFit
  <2>3. Star \in Names
    BY DEF Names
  <2>. QED  BY <1>1, <1>2, <1>4, <2>2, <2>3, ComingKept DEF IpcInv
<1>. QED  BY <1>5, <1>6, <1>7, <1>8, <1>9 DEF IpcInv

LEMMA SweepStep == IpcInv /\ Sweep => IpcInv'
<1>. SUFFICES ASSUME IpcInv, Sweep, NEW c, c = main.from, NEW n, n = main.name PROVE IpcInv'
  OBVIOUS
<1>1. /\ main \in Jobs /\ main.pc = "sweep" /\ c \in Clients /\ n \in Names
      /\ UNCHANGED <<phase, inbox, asked, requests, bridge, worker, batches, published, due>>
      /\ main' = [main EXCEPT !.pc = "release"] /\ main'.pc = "release"
      /\ main'.from = c /\ main'.kind = main.kind /\ main'.name = n
      /\ main'.fits = main.fits /\ main'.dropped = main.dropped
  BY MainAt DEF Sweep
<1>2. /\ byEvent' = [byEvent EXCEPT ![n] = None] /\ UNCHANGED <<byClient, held>>
      /\ mishap \subseteq mishap' /\ ("swept" \notin mishap' => byEvent[n] \in {None, {}})
      /\ "overlap" \in mishap' <=> "overlap" \in mishap
  BY DEF Sweep
<1>3. main.kind = "unsubscribe"
  BY <1>1 DEF IpcInv, JobsFit
<1>4. byEvent \in [Names -> (SUBSET Clients) \cup {None}] /\ None # {}
  BY IpcAssumption DEF IpcInv, IpcTyped
<1>5. /\ byEvent' \in [Names -> (SUBSET Clients) \cup {None}]
      /\ byEvent'[n] = None /\ ListedFor(n)' = {}
      /\ \A x \in Names \ {n} : ListedFor(x)' = ListedFor(x) /\ byEvent'[x] = byEvent[x]
  BY <1>1, <1>2, <1>4 DEF ListedFor
<1>6. IpcTyped'
  <2>1. main' \in Jobs
    BY <1>1 DEF Jobs
  <2>. QED  BY <1>1, <1>2, <1>5, <2>1 DEF IpcInv, IpcTyped
<1>7. JobsFit'
  BY <1>1, <1>2, <1>3 DEF IpcInv, JobsFit
<1>8. RequestsFit'
  BY <1>1, RequestsKept DEF IpcInv
<1>9. MapsFit'
  <2>. SUFFICES ASSUME "overlap" \notin mishap PROVE MapsFit'
    BY <1>2 DEF MapsFit
  <2>1. ~Removing /\ ~Removing' /\ Listings /\ Entries /\ Rights
    BY <1>1 DEF IpcInv, MapsFit, Changing, Removing
  <2>2. byEvent[n] = {} /\ ListedFor(n) = {}
    BY <1>1, <1>4, <2>1 DEF Entries, ListedFor
  <2>3. Listings'
    <3>1. \A d \in Clients, x \in Names :
            /\ ~Entered(d, x)' /\ ~Unlisting(d, x)' /\ ~Entered(d, x) /\ ~Unlisting(d, x)
            /\ ~Struck(d, x)' /\ ~Struck(d, x)
            /\ Subscribed(d, x)' = Subscribed(d, x)
      BY <1>1, <1>2, <2>1 DEF Entered, Struck, Unlisting, Subscribed
    <3>2. \A x \in Names : ListedFor(x)' = ListedFor(x)
      BY <1>5, <2>2
    <3>. QED  BY <2>1, <3>1, <3>2 DEF Listings
  <2>4. Entries'
    <3>1. \A x \in Names \ {n} : byEvent[x] # {}
      BY <1>1, <2>1 DEF Entries, Removing
    <3>2. worker.pc # "clear" /\ UNCHANGED worker
      BY <1>1, <2>1 DEF Removing
    <3>3. \A x \in Names : byEvent'[x] # {}
      BY <1>4, <1>5, <3>1
    <3>. QED  BY <1>1, <1>2, <2>1, <3>2, <3>3 DEF Entries
  <2>5. Rights'
    BY <1>1, <1>2, <2>1 DEF Rights, Owned
  <2>. QED  BY <2>1, <2>3, <2>4, <2>5 DEF MapsFit
<1>10. BroadcastsCome'
  <2>1. ASSUME NEW d \in Clients, Spared(d)', d \in ListedFor(Star) PROVE d \in ListedFor(Star)'
    <3>1. byEvent[n] \in {None, {}}
      BY <1>2, <2>1 DEF Spared
    <3>2. Star # n
      BY <2>1, <3>1 DEF ListedFor
    <3>. QED  BY <1>5, <2>1, <3>2 DEF Names
  <2>. QED  BY <1>1, <1>2, <2>1, ComingKept DEF IpcInv
<1>. QED  BY <1>6, <1>7, <1>8, <1>9, <1>10 DEF IpcInv

LEMMA ReleaseStep == IpcInv /\ Release => IpcInv'
<1>. SUFFICES ASSUME IpcInv, Release, NEW c, c = main.from, NEW n, n = main.name PROVE IpcInv'
  OBVIOUS
<1>1. /\ main \in Jobs /\ main.pc = "release" /\ c \in Clients /\ n \in Names
      /\ UNCHANGED <<phase, inbox, asked, requests, bridge, worker, batches, published, due>>
      /\ main' = [main EXCEPT !.pc = "reply"] /\ main'.pc = "reply"
      /\ main'.from = c /\ main'.kind = main.kind /\ main'.name = n
      /\ main'.fits = main.fits /\ main'.dropped = main.dropped
  BY MainAt DEF Release
<1>2. held' = [held EXCEPT ![c] = IF main.dropped THEN @ - 1 ELSE @] /\ UNCHANGED <<byClient, byEvent, mishap>>
  BY DEF Release
<1>3. main.kind = "unsubscribe"
  BY <1>1 DEF IpcInv, JobsFit
<1>4. IpcTyped'
  <2>1. main' \in Jobs
    BY <1>1 DEF Jobs
  <2>2. held' \in [Clients -> Int]
    BY <1>1, <1>2 DEF IpcInv, IpcTyped
  <2>. QED  BY <1>1, <1>2, <2>1, <2>2 DEF IpcInv, IpcTyped
<1>5. JobsFit'
  BY <1>1, <1>2, <1>3 DEF IpcInv, JobsFit
<1>6. RequestsFit'
  BY <1>1, RequestsKept DEF IpcInv
<1>7. MapsFit'
  <2>. SUFFICES ASSUME "overlap" \notin mishap PROVE MapsFit'
    BY <1>2 DEF MapsFit
  <2>1. ~Removing /\ ~Removing' /\ Listings /\ Entries /\ Rights
    BY <1>1 DEF IpcInv, MapsFit, Changing, Removing
  <2>2. Listings'
    <3>1. \A d \in Clients, x \in Names :
            /\ ~Entered(d, x)' /\ ~Unlisting(d, x)' /\ ~Entered(d, x) /\ ~Unlisting(d, x)
            /\ ~Struck(d, x)' /\ ~Struck(d, x)
            /\ Subscribed(d, x)' = Subscribed(d, x) /\ ListedFor(x)' = ListedFor(x)
      BY <1>1, <1>2, <2>1 DEF Entered, Struck, Unlisting, Subscribed, ListedFor
    <3>. QED  BY <2>1, <3>1 DEF Listings
  <2>3. Entries'
    BY <1>1, <1>2, <2>1 DEF Entries
  <2>4. Rights'
    <3>1. \A d \in Clients : held[d] = IF Owned(d) THEN 1 ELSE 0
      BY <2>1 DEF Rights
    <3>2. \A d \in Clients \ {c} : held'[d] = held[d] /\ (Owned(d)' <=> Owned(d))
      BY <1>1, <1>2, <2>1 DEF IpcInv, IpcTyped, Owned
    <3>3. main.dropped => held'[c] = 0 /\ ~Owned(c)'
      <4>1. main.dropped => Owned(c) /\ byClient[c] = None
        BY <1>1, <2>1 DEF Owned, Entries
      <4>. QED  BY <1>1, <1>2, <2>1, <3>1, <4>1 DEF IpcInv, IpcTyped, Owned
    <3>4. ~main.dropped => held'[c] = held[c] /\ (Owned(c)' <=> Owned(c))
      BY <1>1, <1>2, <2>1 DEF IpcInv, IpcTyped, Owned
    <3>. QED  BY <3>1, <3>2, <3>3, <3>4 DEF Rights
  <2>. QED  BY <2>1, <2>2, <2>3, <2>4 DEF MapsFit
<1>8. BroadcastsCome'
  BY <1>1, <1>2, ComingKept DEF IpcInv, ListedFor
<1>. QED  BY <1>4, <1>5, <1>6, <1>7, <1>8 DEF IpcInv

LEMMA AnswerStep == ASSUME NEW size PROVE IpcInv /\ Answer(size) => IpcInv'
<1>. SUFFICES ASSUME IpcInv, Answer(size), NEW c, c = main.from PROVE IpcInv'
  OBVIOUS
<1>1. /\ main \in Jobs /\ main.pc = "query" /\ c \in Clients
      /\ UNCHANGED <<phase, inbox, asked, requests, bridge, worker, batches, published, due>>
      /\ main' \in Jobs /\ main'.pc = "reply"
      /\ main'.from = c /\ main'.kind = main.kind /\ main'.name = main.name /\ main'.dropped = main.dropped
  BY MainAt DEF Answer, Jobs
<1>2. UNCHANGED <<byClient, byEvent, held, mishap>>
  BY DEF Answer, maps
<1>3. main.kind = "query"
  BY <1>1 DEF IpcInv, JobsFit
<1>4. IpcTyped'
  BY <1>1, <1>2 DEF IpcInv, IpcTyped
<1>5. JobsFit'
  BY <1>1, <1>2, <1>3 DEF IpcInv, JobsFit
<1>6. RequestsFit'
  BY <1>1, RequestsKept DEF IpcInv
<1>7. MapsFit'
  BY <1>1, <1>2, MapsKept DEF IpcInv, maps
<1>8. BroadcastsCome'
  BY <1>1, <1>2, ComingKept DEF IpcInv, ListedFor
<1>. QED  BY <1>4, <1>5, <1>6, <1>7, <1>8 DEF IpcInv

LEMMA ReplyStep == IpcInv /\ Reply => IpcInv'
<1>. SUFFICES ASSUME IpcInv, Reply, NEW c, c = main.from PROVE IpcInv'
  OBVIOUS
<1>. DEFINE answered == Reachable(c) /\ main.fits
<1>1. /\ main \in Jobs /\ main.pc = "reply" /\ c \in Clients /\ main' = Idle /\ main'.pc = "idle"
      /\ UNCHANGED <<phase, asked, requests, bridge, worker, batches, byClient, byEvent, held, published, due, mishap>>
      /\ inbox' = IF answered THEN [inbox EXCEPT ![c] = Append(@, "reply")] ELSE inbox
  BY IpcPcs DEF IpcInv, Reply, Jobs, maps, history, Idle, Deliver
<1>2. inbox \in [Clients -> Seq(Messages)] /\ "reply" \in Messages
  BY DEF IpcInv, IpcTyped, Messages
<1>3. /\ inbox' \in [Clients -> Seq(Messages)] /\ \A d \in Clients \ {c} : inbox'[d] = inbox[d]
      /\ inbox'[c] = IF answered THEN Append(inbox[c], "reply") ELSE inbox[c]
  BY <1>1, <1>2
<1>4. IpcTyped'
  BY <1>1, <1>3 DEF IpcInv, IpcTyped
<1>5. JobsFit'
  BY <1>1 DEF IpcInv, JobsFit
<1>6. RequestsFit'
  <2>1. /\ \A d : ~Handles(d)' /\ (Handles(d) <=> d = c)
        /\ \A d : Requested(d)' <=> Requested(d) /\ d # c
        /\ Requested(c)
        /\ \A d : (Leaving(d)' => Leaving(d)) /\ (Querying(d)' => Querying(d))
    <3>1. \A d : ~Handles(d)' /\ (Handles(d) <=> d = c)
      BY <1>1 DEF Handles
    <3>2. \A i \in DOMAIN requests : requests[i].from # c
      BY <3>1 DEF IpcInv, RequestsFit
    <3>. QED  BY <1>1, <3>1, <3>2 DEF Requested, Leaving, Querying
  <2>2. /\ \A d \in Clients \ {c} : Queued(d, "reply")' = Queued(d, "reply")
        /\ ~answered => Queued(c, "reply")' = Queued(c, "reply")
        /\ answered => Queued(c, "reply")' = Queued(c, "reply") \cup {Len(inbox[c]) + 1}
    BY <1>1, <1>2, <1>3, QueuedAppend DEF Queued
  <2>3. phase[c] = "waiting" => answered
    <3>1. main.kind = "query" => Querying(c)
      BY <1>1 DEF Querying, Handles
    <3>. QED  BY <1>1, <3>1 DEF IpcInv, RequestsFit, JobsFit, Reachable
  <2>4. answered => Queued(c, "reply") = {} /\ phase[c] \notin {"new", "listening"}
    BY <1>1, <2>1 DEF IpcInv, RequestsFit, Reachable
  <2>. HIDE DEF answered
  <2>5. \A i, j \in DOMAIN requests' : requests'[i].from = requests'[j].from => i = j
    BY <1>1 DEF IpcInv, RequestsFit
  <2>6. ASSUME NEW d \in Clients
        PROVE  (/\ \A i, j \in Queued(d, "reply") : i = j
                /\ phase[d] \in {"new", "listening"} => ~Requested(d) /\ Queued(d, "reply") = {}
                /\ phase[d] # "gone" /\ Requested(d) => Queued(d, "reply") = {}
                /\ phase[d] = "waiting" => Requested(d) \/ Queued(d, "reply") # {}
                /\ Querying(d) => phase[d] \in {"asking", "gone"}
                /\ phase[d] \in {"new", "asking", "gone"} \/ Leaving(d) => due[d] = 0)'
    <3>0. /\ \A i, j \in Queued(d, "reply") : i = j
          /\ phase[d] \in {"new", "listening"} => ~Requested(d) /\ Queued(d, "reply") = {}
          /\ phase[d] # "gone" /\ Requested(d) => Queued(d, "reply") = {}
          /\ phase[d] = "waiting" => Requested(d) \/ Queued(d, "reply") # {}
          /\ Querying(d) => phase[d] \in {"asking", "gone"}
          /\ phase[d] \in {"new", "asking", "gone"} \/ Leaving(d) => due[d] = 0
      BY DEF IpcInv, RequestsFit
    <3>1. CASE d # c
      BY <1>1, <2>1, <2>2, <3>0, <3>1
    <3>2. CASE d = c
      <4>1. /\ UNCHANGED <<phase, due>> /\ ~Requested(c)' /\ Requested(c)
            /\ (Leaving(c)' => Leaving(c)) /\ (Querying(c)' => Querying(c))
        BY <1>1, <2>1
      <4>2. CASE answered
        <5>1. Queued(c, "reply")' = {Len(inbox[c]) + 1}
          BY <2>2, <2>4, <4>2
        <5>. QED  BY <2>4, <3>0, <3>2, <4>1, <4>2, <5>1
      <4>3. CASE ~answered
        BY <2>2, <2>3, <3>0, <3>2, <4>1, <4>3
      <4>. QED  BY <4>2, <4>3
    <3>. QED  BY <3>1, <3>2
  <2>. QED  BY <2>1, <2>5, <2>6 DEF RequestsFit
<1>7. MapsFit'
  BY <1>1, MapsKept DEF IpcInv, maps
<1>8. BroadcastsCome'
  <2>. SUFFICES ASSUME NEW d \in Clients, Spared(d) PROVE due[d] <= Coming(d)'
    BY <1>1 DEF BroadcastsCome, Spared
  <2>1. Count(inbox'[d], {"event"}) = Count(inbox[d], {"event"})
    <3>1. Count(Append(inbox[d], "reply"), {"event"}) = Count(inbox[d], {"event"})
      <4>1. inbox[d] \in Seq(Messages) /\ "reply" \notin {"event"} /\ Count(inbox[d], {"event"}) \in Nat
        BY <1>2, CountIs
      <4>. QED  BY <1>2, <4>1, CountAppend
    <3>2. inbox'[d] = inbox[d] \/ inbox'[d] = Append(inbox[d], "reply")
      BY <1>3
    <3>. QED  BY <3>1, <3>2
  <2>2. Count(batches, For(d))' = Count(batches, For(d)) /\ InHand(d)' = InHand(d) /\ Announced(d)' = Announced(d)
    BY <1>1 DEF Count, For, Batches, InHand, Announced, Targets, ListedFor
  <2>3. Coming(d)' = Coming(d)
    BY <2>1, <2>2 DEF Coming
  <2>. QED  BY <2>3 DEF IpcInv, BroadcastsCome
<1>. QED  BY <1>4, <1>5, <1>6, <1>7, <1>8 DEF IpcInv

-----------------------------------------------------------------------------
(* The clients. *)

\* What a client does leaves the threads and their maps alone.
LEMMA ClientsKeep ==
  ASSUME IpcInv, UNCHANGED <<main, bridge, worker, batches, byClient, byEvent, held, mishap>>
  PROVE  /\ JobsFit' /\ MapsFit'
         /\ \A d : /\ Count(batches, For(d))' = Count(batches, For(d)) /\ InHand(d)' = InHand(d)
                   /\ Announced(d)' = Announced(d) /\ Spared(d)' = Spared(d)
         /\ \A d \in Clients : /\ Count(inbox[d], {"event"}) \in Nat /\ Count(batches, For(d)) \in Nat
                               /\ InHand(d) \in {0, 1} /\ Announced(d) \in {0, 1} /\ due[d] \in Nat
                               /\ Coming(d) \in Nat
<1>1. JobsFit'
  BY DEF IpcInv, JobsFit
<1>2. MapsFit'
  BY MapsKept DEF IpcInv, maps
<1>3. \A d : /\ Count(batches, For(d))' = Count(batches, For(d)) /\ InHand(d)' = InHand(d)
             /\ Announced(d)' = Announced(d) /\ Spared(d)' = Spared(d)
  BY DEF Count, For, Batches, InHand, Announced, Targets, ListedFor, Spared
<1>4. ASSUME NEW d \in Clients
      PROVE  /\ Count(inbox[d], {"event"}) \in Nat /\ Count(batches, For(d)) \in Nat
             /\ InHand(d) \in {0, 1} /\ Announced(d) \in {0, 1} /\ due[d] \in Nat /\ Coming(d) \in Nat
  <2>1. inbox[d] \in Seq(Messages) /\ batches \in Seq(Batches) /\ due[d] \in Nat
    BY DEF IpcInv, IpcTyped
  <2>2. Count(inbox[d], {"event"}) \in Nat /\ Count(batches, For(d)) \in Nat
    BY <2>1, CountIs
  <2>3. InHand(d) \in {0, 1} /\ Announced(d) \in {0, 1}
    BY DEF InHand, Announced
  <2>. QED  BY <2>1, <2>2, <2>3 DEF Coming
<1>. QED  BY <1>1, <1>2, <1>3, <1>4

LEMMA AskStep ==
  ASSUME NEW c \in Clients, NEW n \in Names, NEW kind \in {"subscribe", "unsubscribe", "query"}
  PROVE  IpcInv /\ Ask(c, kind, n) => IpcInv'
<1>. SUFFICES ASSUME IpcInv, Ask(c, kind, n) PROVE IpcInv'
  OBVIOUS
<1>. DEFINE r == [from |-> c, kind |-> kind, name |-> n]
            p == IF kind = "query" THEN "asking" ELSE "waiting"
<1>1. /\ requests' = Append(requests, r) /\ phase' = [phase EXCEPT ![c] = p]
      /\ due' = [due EXCEPT ![c] = IF kind = "unsubscribe" THEN 0 ELSE @]
      /\ UNCHANGED <<inbox, main, bridge, worker, batches, byClient, byEvent, held, published, mishap>>
      /\ \/ phase[c] = "new" /\ kind # "unsubscribe"
         \/ phase[c] = "listening" /\ kind # "query"
  BY DEF Ask, maps
<1>2. /\ requests \in Seq(Requests) /\ r \in Requests /\ r.from = c /\ r.kind = kind
      /\ phase \in [Clients -> {"new", "asking", "waiting", "listening", "gone"}] /\ due \in [Clients -> Nat]
  BY DEF IpcInv, IpcTyped, Requests, AskKinds
<1>3. /\ requests' \in Seq(Requests) /\ DOMAIN requests = 1..Len(requests) /\ Len(requests) \in Nat
      /\ DOMAIN requests' = 1..Len(requests) + 1
      /\ \A i \in DOMAIN requests : requests'[i] = requests[i]
      /\ requests'[Len(requests) + 1] = r
  BY <1>1, <1>2, AppendElements
<1>4. /\ phase'[c] = p /\ \A d \in Clients \ {c} : phase'[d] = phase[d] /\ due'[d] = due[d]
      /\ due'[c] = IF kind = "unsubscribe" THEN 0 ELSE due[c]
      /\ phase' \in [Clients -> {"new", "asking", "waiting", "listening", "gone"}] /\ due' \in [Clients -> Nat]
  BY <1>1, <1>2
<1>. HIDE DEF r
<1>5. IpcTyped'
  BY <1>1, <1>3, <1>4 DEF IpcInv, IpcTyped
<1>6. RequestsFit'
  <2>1. ~Requested(c) /\ Queued(c, "reply") = {} /\ (phase[c] = "new" => due[c] = 0)
    BY <1>1 DEF IpcInv, RequestsFit
  <2>2. \A i \in DOMAIN requests' : i \in DOMAIN requests \/ (i = Len(requests) + 1 /\ requests'[i] = r)
    BY <1>3
  <2>3. DOMAIN requests \subseteq DOMAIN requests' /\ Len(requests) + 1 \in DOMAIN requests'
    BY <1>3
  <2>4. \A d : Handles(d)' = Handles(d) /\ Queued(d, "reply")' = Queued(d, "reply")
    BY <1>1 DEF Handles, Queued
  <2>5. \A d : Requested(d)' <=> Requested(d) \/ d = c
    BY <1>2, <1>3, <2>2, <2>3, <2>4 DEF Requested
  <2>6. /\ \A d : Leaving(d)' => Leaving(d) \/ (d = c /\ kind = "unsubscribe")
        /\ \A d : Querying(d)' => Querying(d) \/ (d = c /\ kind = "query")
    BY <1>1, <1>2, <1>3, <2>2, <2>4 DEF Leaving, Querying
  <2>7. /\ \A i, j \in DOMAIN requests' : requests'[i].from = requests'[j].from => i = j
        /\ main'.pc # "idle" => \A i \in DOMAIN requests' : main'.from # requests'[i].from
    <3>1. /\ \A i \in DOMAIN requests : requests[i].from # c /\ ~Handles(requests[i].from)
          /\ ~Handles(c) /\ \A i, j \in DOMAIN requests : requests[i].from = requests[j].from => i = j
      BY <2>1 DEF Requested, IpcInv, RequestsFit
    <3>3. \A i, j \in DOMAIN requests' : requests'[i].from = requests'[j].from => i = j
      BY <1>2, <1>3, <2>2, <3>1
    <3>4. ASSUME NEW i \in DOMAIN requests', main'.pc # "idle" PROVE main'.from # requests'[i].from
      <4>1. requests'[i].from = c \/ (i \in DOMAIN requests /\ requests'[i].from = requests[i].from)
        BY <1>2, <1>3, <2>2
      <4>. QED  BY <1>1, <3>1, <3>4, <4>1 DEF Handles
    <3>. QED  BY <3>3, <3>4
  <2>8. ASSUME NEW d \in Clients
        PROVE  (/\ \A i, j \in Queued(d, "reply") : i = j
                /\ phase[d] \in {"new", "listening"} => ~Requested(d) /\ Queued(d, "reply") = {}
                /\ phase[d] # "gone" /\ Requested(d) => Queued(d, "reply") = {}
                /\ phase[d] = "waiting" => Requested(d) \/ Queued(d, "reply") # {}
                /\ Querying(d) => phase[d] \in {"asking", "gone"}
                /\ phase[d] \in {"new", "asking", "gone"} \/ Leaving(d) => due[d] = 0)'
    <3>0. /\ \A i, j \in Queued(d, "reply") : i = j
          /\ phase[d] \in {"new", "listening"} => ~Requested(d) /\ Queued(d, "reply") = {}
          /\ phase[d] # "gone" /\ Requested(d) => Queued(d, "reply") = {}
          /\ phase[d] = "waiting" => Requested(d) \/ Queued(d, "reply") # {}
          /\ Querying(d) => phase[d] \in {"asking", "gone"}
          /\ phase[d] \in {"new", "asking", "gone"} \/ Leaving(d) => due[d] = 0
      BY DEF IpcInv, RequestsFit
    <3>1. CASE d # c
      BY <1>4, <2>4, <2>5, <2>6, <3>0, <3>1
    <3>2. CASE d = c
      BY <1>1, <1>4, <2>1, <2>4, <2>5, <2>6, <3>0, <3>2
    <3>. QED  BY <3>1, <3>2
  <2>. QED  BY <2>7, <2>8 DEF RequestsFit, Handles
<1>7. BroadcastsCome'
  <2>. SUFFICES ASSUME NEW d \in Clients, Spared(d)' PROVE (due[d] <= Coming(d))'
    BY DEF BroadcastsCome
  <2>1. Coming(d)' = Coming(d) /\ Coming(d) \in Nat /\ due[d] <= Coming(d) /\ due[d] \in Nat
    BY <1>1, ClientsKeep DEF IpcInv, BroadcastsCome, Coming
  <2>2. due'[d] = due[d] \/ due'[d] = 0
    BY <1>4
  <2>. QED  BY <2>1, <2>2
<1>. QED  BY <1>1, <1>5, <1>6, <1>7, ClientsKeep DEF IpcInv

LEMMA ReadStep == ASSUME NEW c \in Clients PROVE IpcInv /\ Read(c) => IpcInv'
<1>. SUFFICES ASSUME IpcInv, Read(c) PROVE IpcInv'
  OBVIOUS
<1>. DEFINE message == Head(inbox[c])
            overtaken == phase[c] = "waiting" /\ message = "event" /\ c \in Library
            p == IF overtaken \/ phase[c] = "asking" THEN "gone"
                 ELSE IF message = "reply" THEN "listening" ELSE phase[c]
            left == IF overtaken THEN <<>> ELSE Tail(inbox[c])
            owes == IF overtaken THEN 0 ELSE IF message = "event" /\ due[c] > 0 THEN due[c] - 1 ELSE due[c]
<1>1. /\ phase[c] # "gone" /\ inbox[c] # <<>>
      /\ UNCHANGED <<requests, main, bridge, worker, batches, byClient, byEvent, held, mishap>>
  BY DEF Read, Reachable, maps
<1>2. /\ phase \in [Clients -> {"new", "asking", "waiting", "listening", "gone"}] /\ due \in [Clients -> Nat]
      /\ inbox \in [Clients -> Seq(Messages)] /\ message \in Messages /\ left \in Seq(Messages)
  <2>1. /\ phase \in [Clients -> {"new", "asking", "waiting", "listening", "gone"}] /\ due \in [Clients -> Nat]
        /\ inbox \in [Clients -> Seq(Messages)]
    BY DEF IpcInv, IpcTyped
  <2>. QED  BY <1>1, <2>1, TailElements
<1>3. /\ phase' = [phase EXCEPT ![c] = p] /\ inbox' = [inbox EXCEPT ![c] = left] /\ due' = [due EXCEPT ![c] = owes]
  <2>1. inbox' = [inbox EXCEPT ![c] = left] /\ due' = [due EXCEPT ![c] = owes]
    BY DEF Read
  <2>2. phase' = [phase EXCEPT ![c] = p]
    BY DEF Read
  <2>. QED  BY <2>1, <2>2
<1>4. p \in {"new", "asking", "waiting", "listening", "gone"} /\ owes \in Nat
  BY <1>2
<1>5. /\ phase'[c] = p /\ inbox'[c] = left /\ due'[c] = owes
      /\ \A d \in Clients \ {c} : phase'[d] = phase[d] /\ inbox'[d] = inbox[d] /\ due'[d] = due[d]
      /\ phase' \in [Clients -> {"new", "asking", "waiting", "listening", "gone"}] /\ due' \in [Clients -> Nat]
      /\ inbox' \in [Clients -> Seq(Messages)]
  BY <1>2, <1>3, <1>4
<1>6. IpcTyped'
  BY <1>1, <1>5 DEF IpcInv, IpcTyped
<1>7. RequestsFit'
  <2>1. \A d : /\ Handles(d)' = Handles(d) /\ Requested(d)' = Requested(d) /\ Leaving(d)' = Leaving(d)
               /\ Querying(d)' = Querying(d)
    BY <1>1 DEF Handles, Requested, Leaving, Querying
  <2>2. \A d \in Clients \ {c} : Queued(d, "reply")' = Queued(d, "reply")
    BY <1>5 DEF Queued
  <2>3. /\ \A i \in Queued(c, "reply")' : i \in Nat /\ i + 1 \in Queued(c, "reply")
        /\ message = "reply" => 1 \in Queued(c, "reply")
        /\ message # "reply" /\ ~overtaken /\ Queued(c, "reply") # {} => Queued(c, "reply")' # {}
    <3>1. CASE overtaken
      <4>1. Queued(c, "reply")' = {}
        BY <1>5, <3>1 DEF Queued
      <4>. QED  BY <3>1, <4>1
    <3>2. CASE ~overtaken
      <4>1. /\ Queued(c, "reply")' = {i \in DOMAIN Tail(inbox[c]) : Tail(inbox[c])[i] = "reply"}
            /\ Queued(c, "reply") = {i \in DOMAIN inbox[c] : inbox[c][i] = "reply"}
        BY <1>5, <3>2 DEF Queued
      <4>. DEFINE s == inbox[c]
      <4>2. s \in Seq(Messages) /\ s # <<>>
        BY <1>1, <1>2
      <4>3. /\ \A i \in DOMAIN Tail(s) : Tail(s)[i] = "reply" => i + 1 \in {j \in DOMAIN s : s[j] = "reply"} /\ i \in Nat
            /\ \A j \in DOMAIN s : s[j] = "reply" =>
                 IF j = 1 THEN Head(s) = "reply" ELSE j - 1 \in DOMAIN Tail(s) /\ Tail(s)[j - 1] = "reply"
            /\ 1 \in DOMAIN s /\ Head(s) = s[1]
        <5>. HIDE DEF s
        <5>. QED  BY <4>2, QueuedTail, TailElements
      <4>. QED  BY <3>2, <4>1, <4>3
    <3>. QED  BY <3>1, <3>2
  <2>. HIDE DEF message, left
  <2>4. ASSUME NEW d \in Clients
        PROVE  (/\ \A i, j \in Queued(d, "reply") : i = j
                /\ phase[d] \in {"new", "listening"} => ~Requested(d) /\ Queued(d, "reply") = {}
                /\ phase[d] # "gone" /\ Requested(d) => Queued(d, "reply") = {}
                /\ phase[d] = "waiting" => Requested(d) \/ Queued(d, "reply") # {}
                /\ Querying(d) => phase[d] \in {"asking", "gone"}
                /\ phase[d] \in {"new", "asking", "gone"} \/ Leaving(d) => due[d] = 0)'
    <3>0. /\ \A i, j \in Queued(d, "reply") : i = j
          /\ phase[d] \in {"new", "listening"} => ~Requested(d) /\ Queued(d, "reply") = {}
          /\ phase[d] # "gone" /\ Requested(d) => Queued(d, "reply") = {}
          /\ phase[d] = "waiting" => Requested(d) \/ Queued(d, "reply") # {}
          /\ Querying(d) => phase[d] \in {"asking", "gone"}
          /\ phase[d] \in {"new", "asking", "gone"} \/ Leaving(d) => due[d] = 0
      BY DEF IpcInv, RequestsFit
    <3>1. CASE d # c
      BY <1>5, <2>1, <2>2, <3>0, <3>1
    <3>2. CASE d = c
      <4>1. \A i, j \in Queued(c, "reply")' : i = j
        <5>1. \A i, j \in Queued(c, "reply")' : i + 1 = j + 1 /\ i \in Nat /\ j \in Nat
          BY <2>3, <3>0, <3>2
        <5>. QED  BY <5>1
      <4>2. message = "reply" => Queued(c, "reply")' = {} /\ ~Requested(c)
        <5>1. message = "reply" => \A i \in Queued(c, "reply")' : i + 1 = 1 /\ i \in Nat /\ i # 0
          <6>1. inbox'[c] \in Seq(Messages)
            BY <1>5
          <6>2. DOMAIN inbox'[c] = 1..Len(inbox'[c]) /\ Len(inbox'[c]) \in Nat
            BY <6>1
          <6>. QED  BY <2>3, <3>0, <3>2, <6>2 DEF Queued
        <5>2. message = "reply" => Queued(c, "reply")' = {}
          BY <5>1
        <5>3. message = "reply" => Queued(c, "reply") # {}
          BY <2>3
        <5>. QED  BY <1>1, <3>0, <3>2, <5>2, <5>3
      <4>3. Queued(c, "reply") = {} => Queued(c, "reply")' = {}
        BY <2>3
      <4>4. phase[c] = "waiting" /\ p = "waiting" => message # "reply" /\ ~overtaken
        OBVIOUS
      <4>5. /\ phase'[c] \in {"new", "listening"} => ~Requested(c) /\ Queued(c, "reply")' = {}
            /\ phase'[c] # "gone" /\ Requested(c) => Queued(c, "reply")' = {}
        <5>1. p \in {"new", "listening"} => phase[c] = p \/ message = "reply"
          OBVIOUS
        <5>. QED  BY <1>1, <1>5, <3>0, <3>2, <4>2, <4>3, <5>1
      <4>6. phase'[c] = "waiting" => Requested(c) \/ Queued(c, "reply")' # {}
        <5>1. p = "waiting" => phase[c] = "waiting"
          OBVIOUS
        <5>. QED  BY <1>5, <2>3, <3>0, <3>2, <4>4, <5>1
      <4>7. Querying(c) => phase'[c] \in {"asking", "gone"}
        BY <1>1, <1>5, <3>0, <3>2
      <4>8. phase'[c] \in {"new", "asking", "gone"} \/ Leaving(c) => due'[c] = 0
        BY <1>5, <3>0, <3>2
      <4>. QED  BY <2>1, <3>2, <4>1, <4>5, <4>6, <4>7, <4>8
    <3>. QED  BY <3>1, <3>2
  <2>. QED  BY <1>1, <2>1, <2>4 DEF IpcInv, RequestsFit
<1>8. BroadcastsCome'
  <2>. SUFFICES ASSUME NEW d \in Clients, Spared(d)' PROVE (due[d] <= Coming(d))'
    BY DEF BroadcastsCome
  <2>1. /\ due[d] <= Coming(d) /\ due[d] \in Nat /\ Count(inbox[d], {"event"}) \in Nat
        /\ Count(batches, For(d)) \in Nat /\ InHand(d) \in {0, 1} /\ Announced(d) \in {0, 1}
        /\ Count(batches, For(d))' = Count(batches, For(d)) /\ InHand(d)' = InHand(d) /\ Announced(d)' = Announced(d)
    BY <1>1, ClientsKeep DEF IpcInv, BroadcastsCome
  <2>2. Coming(d)' = Count(inbox'[d], {"event"}) + Count(batches, For(d)) + InHand(d) + Announced(d)
    BY <2>1 DEF Coming
  <2>3. Count(inbox'[d], {"event"}) \in Nat
    BY <1>5, CountIs
  <2>4. CASE d # c
    BY <1>5, <2>1, <2>2, <2>4 DEF Coming
  <2>5. CASE d = c /\ overtaken
    BY <1>5, <2>1, <2>2, <2>3, <2>5
  <2>6. CASE d = c /\ ~overtaken
    <3>1. Count(inbox[c], {"event"}) = Count(inbox'[c], {"event"}) + (IF message = "event" THEN 1 ELSE 0)
      <4>1. Count(inbox[c], {"event"}) = Count(Tail(inbox[c]), {"event"}) + (IF message \in {"event"} THEN 1 ELSE 0)
        BY <1>1, <1>2, CountTail
      <4>. QED  BY <1>5, <2>6, <4>1
    <3>. HIDE DEF message
    <3>2. due'[c] = IF message = "event" /\ due[c] > 0 THEN due[c] - 1 ELSE due[c]
      BY <1>5, <2>6
    <3>. QED  BY <2>1, <2>2, <2>3, <2>6, <3>1, <3>2 DEF Coming
  <2>. QED  BY <2>4, <2>5, <2>6
<1>. QED  BY <1>1, <1>6, <1>7, <1>8, ClientsKeep DEF IpcInv

LEMMA QuitStep == ASSUME NEW c \in Clients PROVE IpcInv /\ Quit(c) => IpcInv'
<1>. SUFFICES ASSUME IpcInv, Quit(c) PROVE IpcInv'
  OBVIOUS
<1>1. /\ phase[c] = "listening"
      /\ UNCHANGED <<requests, main, bridge, worker, batches, byClient, byEvent, held, mishap>>
      /\ phase' = [phase EXCEPT ![c] = "gone"] /\ inbox' = [inbox EXCEPT ![c] = <<>>] /\ due' = [due EXCEPT ![c] = 0]
  BY DEF Quit, maps
<1>2. /\ phase'[c] = "gone" /\ inbox'[c] = <<>> /\ due'[c] = 0
      /\ \A d \in Clients \ {c} : phase'[d] = phase[d] /\ inbox'[d] = inbox[d] /\ due'[d] = due[d]
      /\ phase' \in [Clients -> {"new", "asking", "waiting", "listening", "gone"}] /\ due' \in [Clients -> Nat]
      /\ inbox' \in [Clients -> Seq(Messages)]
  <2>1. /\ phase \in [Clients -> {"new", "asking", "waiting", "listening", "gone"}] /\ due \in [Clients -> Nat]
        /\ inbox \in [Clients -> Seq(Messages)] /\ <<>> \in Seq(Messages)
    BY DEF IpcInv, IpcTyped
  <2>. QED  BY <1>1, <2>1
<1>3. IpcTyped'
  BY <1>1, <1>2 DEF IpcInv, IpcTyped
<1>4. RequestsFit'
  <2>1. \A d : /\ Handles(d)' = Handles(d) /\ Requested(d)' = Requested(d) /\ Leaving(d)' = Leaving(d)
               /\ Querying(d)' = Querying(d)
    BY <1>1 DEF Handles, Requested, Leaving, Querying
  <2>2. /\ \A d \in Clients \ {c} : Queued(d, "reply")' = Queued(d, "reply")
        /\ Queued(c, "reply")' = {}
    BY <1>2 DEF Queued
  <2>. QED  BY <1>1, <1>2, <2>1, <2>2 DEF IpcInv, RequestsFit
<1>5. BroadcastsCome'
  <2>. SUFFICES ASSUME NEW d \in Clients, Spared(d)' PROVE (due[d] <= Coming(d))'
    BY DEF BroadcastsCome
  <2>1. /\ due[d] <= Coming(d) /\ due[d] \in Nat /\ Count(inbox[d], {"event"}) \in Nat
        /\ Count(batches, For(d)) \in Nat /\ InHand(d) \in {0, 1} /\ Announced(d) \in {0, 1}
        /\ Count(batches, For(d))' = Count(batches, For(d)) /\ InHand(d)' = InHand(d) /\ Announced(d)' = Announced(d)
    BY <1>1, ClientsKeep DEF IpcInv, BroadcastsCome
  <2>2. Coming(d)' = Count(inbox'[d], {"event"}) + Count(batches, For(d)) + InHand(d) + Announced(d)
    BY <2>1 DEF Coming
  <2>3. Count(inbox'[d], {"event"}) \in Nat
    BY <1>2, CountIs
  <2>4. CASE d = c
    BY <1>2, <2>1, <2>2, <2>3, <2>4
  <2>5. CASE d # c
    BY <1>2, <2>1, <2>2, <2>5 DEF Coming
  <2>. QED  BY <2>4, <2>5
<1>. QED  BY <1>1, <1>3, <1>4, <1>5, ClientsKeep DEF IpcInv

-----------------------------------------------------------------------------
(* The bridge. *)

LEMMA Counted ==
  ASSUME IpcTyped
  PROVE  /\ \A n \in Names : ListedFor(n) \in SUBSET Clients
         /\ \A d \in Clients : /\ Count(inbox[d], {"event"}) \in Nat /\ Count(batches, For(d)) \in Nat
                               /\ InHand(d) \in {0, 1} /\ Announced(d) \in {0, 1} /\ due[d] \in Nat
<1>1. \A n \in Names : ListedFor(n) \in SUBSET Clients
  BY IpcAssumption DEF IpcTyped, ListedFor
<1>2. ASSUME NEW d \in Clients
      PROVE  /\ Count(inbox[d], {"event"}) \in Nat /\ Count(batches, For(d)) \in Nat
             /\ InHand(d) \in {0, 1} /\ Announced(d) \in {0, 1} /\ due[d] \in Nat
  <2>1. inbox[d] \in Seq(Messages) /\ batches \in Seq(Batches) /\ due[d] \in Nat
    BY DEF IpcTyped
  <2>2. Count(inbox[d], {"event"}) \in Nat /\ Count(batches, For(d)) \in Nat
    BY <2>1, CountIs
  <2>3. InHand(d) \in {0, 1} /\ Announced(d) \in {0, 1}
    BY DEF InHand, Announced
  <2>. QED  BY <2>1, <2>2, <2>3
<1>. QED  BY <1>1, <1>2

LEMMA PublishStep == ASSUME NEW n \in Topics PROVE IpcInv /\ Publish(n) => IpcInv'
<1>. SUFFICES ASSUME IpcInv, Publish(n) PROVE IpcInv'
  OBVIOUS
<1>. DEFINE hears(c) == phase[c] = "listening" /\ byClient[c] # None /\ {n, Star} \cap byClient[c] # {}
<1>1. /\ bridge.pc = "idle" /\ bridge' = [pc |-> "any", name |-> n, targets |-> ListedFor(n)]
      /\ UNCHANGED <<phase, inbox, requests, main, worker, batches, byClient, byEvent, held, mishap>>
      /\ due' = [c \in Clients |-> IF hears(c) THEN due[c] + 1 ELSE due[c]]
  BY DEF Publish, clients, maps, Idle
<1>2. n \in Names /\ Star \in Names
  BY DEF Names
<1>3. IpcTyped'
  <2>1. bridge' \in Bridges
    BY <1>1, <1>2, Counted DEF IpcInv, Bridges
  <2>2. due' \in [Clients -> Nat]
    BY <1>1 DEF IpcInv, IpcTyped
  <2>. QED  BY <1>1, <2>1, <2>2 DEF IpcInv, IpcTyped
<1>4. JobsFit'
  BY <1>1 DEF IpcInv, JobsFit
<1>5. RequestsFit'
  <2>1. \A c \in Clients : due'[c] = due[c] \/ phase[c] = "listening"
    BY <1>1
  <2>. QED  BY <1>1, <2>1, RepliesKept DEF IpcInv
<1>6. MapsFit'
  BY <1>1, MapsKept DEF IpcInv, maps
<1>7. BroadcastsCome'
  <2>. SUFFICES ASSUME NEW c \in Clients, Spared(c) PROVE (due[c] <= Coming(c))'
    BY <1>1 DEF BroadcastsCome, Spared
  <2>1. /\ due[c] <= Coming(c) /\ Count(inbox[c], {"event"}) \in Nat /\ Count(batches, For(c)) \in Nat
        /\ InHand(c) \in {0, 1} /\ due[c] \in Nat
    BY Counted DEF IpcInv, BroadcastsCome
  <2>2. Count(inbox[c], {"event"})' = Count(inbox[c], {"event"}) /\ Count(batches, For(c))' = Count(batches, For(c))
        /\ InHand(c)' = InHand(c)
    BY <1>1 DEF Count, For, Batches, InHand
  <2>3. Announced(c) = 0 /\ Announced(c)' \in {0, 1}
    BY <1>1 DEF Announced
  <2>4. hears(c) => Announced(c)' = 1
    <3>. SUFFICES ASSUME hears(c) PROVE Announced(c)' = 1
      OBVIOUS
    <3>1. PICK m \in {n, Star} : Subscribed(c, m)
      BY DEF Subscribed
    <3>2. ~Entered(c, m)
      <4>1. ~Handles(c)
        BY DEF IpcInv, RequestsFit, Requested
      <4>. QED  BY <4>1 DEF Entered, Handles
    <3>3. c \in ListedFor(m)
      BY <1>2, <3>1, <3>2 DEF IpcInv, MapsFit, Listings, Spared
    <3>4. c \in Targets'
      BY <1>1, <3>1, <3>3 DEF Targets, ListedFor
    <3>. QED  BY <1>1, <3>4 DEF Announced
  <2>5. due'[c] = IF hears(c) THEN due[c] + 1 ELSE due[c]
    BY <1>1
  <2>. HIDE DEF hears
  <2>. QED  BY <2>1, <2>2, <2>3, <2>4, <2>5 DEF Coming
<1>. QED  BY <1>3, <1>4, <1>5, <1>6, <1>7 DEF IpcInv

LEMMA ForwardStep == ASSUME NEW size \in {"fits", "large"} PROVE IpcInv /\ Forward(size) => IpcInv'
<1>. SUFFICES ASSUME IpcInv, Forward(size) PROVE IpcInv'
  OBVIOUS
<1>. DEFINE b == [to |-> Targets, size |-> size]
<1>1. /\ bridge.pc # "idle" /\ bridge' = Idle /\ bridge'.pc = "idle"
      /\ UNCHANGED <<phase, inbox, requests, main, worker, byClient, byEvent, held, due>>
      /\ mishap \subseteq mishap'
      /\ \/ Targets = {} /\ batches' = batches
         \/ batches' = Append(batches, b)
         \/ "full" \in mishap' /\ batches' = batches
  BY IpcPcs DEF IpcInv, Forward, clients, maps, Idle
<1>2. b \in Batches /\ batches \in Seq(Batches)
  <2>1. Targets \in SUBSET Clients
    BY <1>1, IpcPcs, Counted DEF IpcInv, Targets, Bridges, Names
  <2>. QED  BY <2>1 DEF IpcInv, IpcTyped, Batches
<1>3. batches' \in Seq(Batches)
  BY <1>1, <1>2, AppendElements
<1>4. IpcTyped'
  BY <1>1, <1>3 DEF IpcInv, IpcTyped
<1>5. JobsFit'
  BY <1>1 DEF IpcInv, JobsFit
<1>6. RequestsFit'
  BY <1>1, RepliesKept DEF IpcInv
<1>7. MapsFit'
  BY <1>1, MapsKept DEF IpcInv, maps
<1>8. BroadcastsCome'
  <2>. SUFFICES ASSUME NEW c \in Clients, Spared(c)' PROVE (due[c] <= Coming(c))'
    BY DEF BroadcastsCome
  <2>1. /\ due[c] <= Coming(c) /\ Count(inbox[c], {"event"}) \in Nat /\ Count(batches, For(c)) \in Nat
        /\ InHand(c) \in {0, 1} /\ due[c] \in Nat /\ Announced(c) = IF c \in Targets THEN 1 ELSE 0
    BY <1>1, Counted DEF IpcInv, BroadcastsCome, Spared, Announced
  <2>2. /\ Count(inbox[c], {"event"})' = Count(inbox[c], {"event"}) /\ InHand(c)' = InHand(c)
        /\ Announced(c)' = 0 /\ due'[c] = due[c] /\ For(c)' = For(c)
    BY <1>1 DEF Count, InHand, Announced, For, Batches
  <2>3. Count(batches', For(c)) = Count(batches, For(c)) + Announced(c)
    <3>1. "full" \notin mishap'
      BY DEF Spared
    <3>2. CASE Targets = {} /\ batches' = batches
      BY <2>1, <3>2
    <3>3. CASE batches' = Append(batches, b)
      <4>1. b \in For(c) <=> c \in Targets
        BY <1>2 DEF For
      <4>2. Count(Append(batches, b), For(c)) = Count(batches, For(c)) + (IF b \in For(c) THEN 1 ELSE 0)
        BY <1>2, CountAppend
      <4>. QED  BY <2>1, <3>3, <4>1, <4>2
    <3>. QED  BY <1>1, <3>1, <3>2, <3>3
  <2>. QED  BY <2>1, <2>2, <2>3 DEF Coming
<1>. QED  BY <1>4, <1>5, <1>6, <1>7, <1>8 DEF IpcInv

-----------------------------------------------------------------------------
(* The worker. *)

\* What the worker leaves alone, and to whom it sends next.
LEMMA WorkerAt ==
  ASSUME IpcInv, NEW p, p # "idle", AtWorker(p)
  PROVE  /\ worker \in Workers /\ worker.pc = p
         /\ UNCHANGED <<phase, asked, requests, main, bridge, published, due>>
         /\ UNCHANGED inbox => RequestsFit'
<1>1. /\ worker \in Workers /\ worker.pc = p
      /\ UNCHANGED <<phase, asked, requests, main, bridge, published, due>>
  BY IpcPcs DEF IpcInv, AtWorker
<1>2. UNCHANGED inbox => RequestsFit'
  BY <1>1, RepliesKept DEF IpcInv
<1>. QED  BY <1>1, <1>2

LEMMA NextIs ==
  ASSUME worker \in Workers, NEW c \in Clients, NEW next, next = NextTarget(c)
  PROVE  /\ next \in Workers \cup {Idle} /\ next.pc \in {"idle", "send"}
         /\ \A d \in Clients \ {c} : d \in worker.left <=> next.pc # "idle" /\ d \in next.left
         /\ ~(next.pc # "idle" /\ c \in next.left)
<1>1. CASE worker.left = {c}
  BY <1>1 DEF NextTarget, Idle
<1>2. CASE worker.left # {c}
  BY <1>2 DEF NextTarget, Sending, Workers
<1>. QED  BY <1>1, <1>2

LEMMA TakeStep == IpcInv /\ Take => IpcInv'
<1>. SUFFICES ASSUME IpcInv, Take PROVE IpcInv'
  OBVIOUS
<1>. DEFINE b == Head(batches)
<1>1. /\ worker.pc = "idle" /\ batches # <<>> /\ worker' = Sending(b.to, b.size) /\ batches' = Tail(batches)
      /\ UNCHANGED <<phase, inbox, requests, main, bridge, byClient, byEvent, held, due, mishap>>
  BY DEF Take, AtWorker, maps
<1>2. batches \in Seq(Batches) /\ b \in Batches /\ batches' \in Seq(Batches)
  <2>1. batches \in Seq(Batches)
    BY DEF IpcInv, IpcTyped
  <2>. QED  BY <1>1, <2>1, TailElements
<1>3. worker' \in Workers /\ worker'.pc = "send" /\ worker'.left = b.to
  BY <1>1, <1>2 DEF Sending, Workers, Batches
<1>4. IpcTyped'
  BY <1>1, <1>2, <1>3 DEF IpcInv, IpcTyped
<1>5. JobsFit'
  BY <1>1, <1>3 DEF IpcInv, JobsFit
<1>6. RequestsFit'
  BY <1>1, RepliesKept DEF IpcInv
<1>7. MapsFit'
  BY <1>1, <1>3, MapsKept DEF IpcInv, maps
<1>8. BroadcastsCome'
  <2>. SUFFICES ASSUME NEW c \in Clients, Spared(c) PROVE (due[c] <= Coming(c))'
    BY <1>1 DEF BroadcastsCome, Spared
  <2>1. /\ due[c] <= Coming(c) /\ Count(inbox[c], {"event"}) \in Nat /\ Count(batches, For(c)) \in Nat
        /\ InHand(c) = 0 /\ Announced(c) \in {0, 1} /\ due[c] \in Nat
    BY <1>1, Counted DEF IpcInv, BroadcastsCome, InHand
  <2>2. /\ Count(inbox[c], {"event"})' = Count(inbox[c], {"event"}) /\ Announced(c)' = Announced(c)
        /\ due'[c] = due[c] /\ For(c)' = For(c)
    BY <1>1 DEF Count, Announced, Targets, ListedFor, For, Batches
  <2>3. InHand(c)' = IF b \in For(c) THEN 1 ELSE 0
    BY <1>2, <1>3 DEF InHand, For
  <2>4. Count(batches, For(c)) = Count(batches', For(c)) + (IF b \in For(c) THEN 1 ELSE 0)
    BY <1>1, <1>2, CountTail
  <2>5. Count(batches', For(c)) \in Nat
    BY <1>2, CountIs
  <2>. HIDE DEF b
  <2>. QED  BY <2>1, <2>2, <2>3, <2>4, <2>5 DEF Coming
<1>. QED  BY <1>4, <1>5, <1>6, <1>7, <1>8 DEF IpcInv

LEMMA SendStep == ASSUME NEW c \in Clients PROVE IpcInv /\ Send(c) => IpcInv'
<1>. SUFFICES ASSUME IpcInv, Send(c) PROVE IpcInv'
  OBVIOUS
<1>1. /\ worker \in Workers /\ worker.pc = "send" /\ c \in worker.left
      /\ UNCHANGED <<phase, requests, main, bridge, due, batches, byClient, byEvent, held>>
  BY WorkerAt DEF Send, maps
<1>2. CASE Sends(c)
  <2>1. Deliver(c, "event") /\ worker' = NextTarget(c) /\ UNCHANGED mishap
    BY <1>2 DEF Send
  <2>2. /\ inbox \in [Clients -> Seq(Messages)] /\ "event" \in Messages
        /\ inbox' \in [Clients -> Seq(Messages)] /\ inbox'[c] = Append(inbox[c], "event")
        /\ \A d \in Clients \ {c} : inbox'[d] = inbox[d]
    BY <2>1 DEF IpcInv, IpcTyped, Messages, Deliver
  <2>3. /\ worker' \in Workers \cup {Idle} /\ worker'.pc \in {"idle", "send"}
        /\ \A d \in Clients \ {c} : d \in worker.left <=> worker'.pc # "idle" /\ d \in worker'.left
        /\ ~(worker'.pc # "idle" /\ c \in worker'.left)
    BY <1>1, <2>1, NextIs
  <2>4. IpcTyped'
    BY <1>1, <2>1, <2>2, <2>3 DEF IpcInv, IpcTyped
  <2>5. JobsFit'
    BY <1>1, <2>1, <2>3 DEF IpcInv, JobsFit
  <2>6. RequestsFit'
    BY <1>1, <2>1, RepliesKept DEF IpcInv
  <2>7. MapsFit'
    BY <1>1, <2>1, <2>3, MapsKept DEF IpcInv, maps
  <2>8. BroadcastsCome'
    <3>. SUFFICES ASSUME NEW d \in Clients, Spared(d) PROVE (due[d] <= Coming(d))'
      BY <2>1 DEF BroadcastsCome, Spared
    <3>1. /\ due[d] <= Coming(d) /\ Count(inbox[d], {"event"}) \in Nat /\ Count(batches, For(d)) \in Nat
          /\ InHand(d) \in {0, 1} /\ Announced(d) \in {0, 1} /\ due[d] \in Nat
      BY Counted DEF IpcInv, BroadcastsCome
    <3>2. /\ Count(batches, For(d))' = Count(batches, For(d)) /\ Announced(d)' = Announced(d) /\ due'[d] = due[d]
      BY <1>1 DEF Count, Announced, Targets, ListedFor, For, Batches
    <3>3. Count(inbox'[d], {"event"}) + InHand(d)' = Count(inbox[d], {"event"}) + InHand(d)
      <4>1. CASE d = c
        <5>1. Count(Append(inbox[c], "event"), {"event"}) = Count(inbox[c], {"event"}) + 1
          <6>1. inbox[c] \in Seq(Messages)
            BY <2>2
          <6>. QED  BY <2>2, <6>1, CountAppend
        <5>2. InHand(c) = 1 /\ InHand(c)' = 0
          BY <1>1, <2>3 DEF InHand
        <5>3. Count(inbox'[c], {"event"}) = Count(inbox[c], {"event"}) + 1
          BY <2>2, <5>1
        <5>4. Count(inbox[c], {"event"}) \in Nat
          BY <3>1, <4>1
        <5>5. Count(inbox'[c], {"event"}) + InHand(c)' = Count(inbox[c], {"event"}) + InHand(c)
          BY <5>2, <5>3, <5>4
        <5>. QED  BY <4>1, <5>5
      <4>2. CASE d # c
        <5>1. InHand(d)' = InHand(d)
          BY <1>1, <2>3, <4>2 DEF InHand
        <5>. QED  BY <2>2, <3>1, <4>2, <5>1
      <4>. QED  BY <4>1, <4>2
    <3>4. Count(inbox'[d], {"event"}) \in Nat /\ InHand(d)' \in {0, 1}
      BY <2>2, CountIs DEF InHand
    <3>. QED  BY <3>1, <3>2, <3>3, <3>4 DEF Coming
  <2>. QED  BY <2>4, <2>5, <2>6, <2>7, <2>8 DEF IpcInv
<1>3. CASE ~Sends(c)
  <2>1. /\ worker' = [worker EXCEPT !.pc = "forget", !.to = c] /\ mishap' = mishap \cup {c} /\ UNCHANGED inbox
    BY <1>3 DEF Send
  <2>2. /\ worker' \in Workers /\ worker'.pc = "forget" /\ worker'.to = c /\ worker'.left = worker.left
        /\ c \in mishap' /\ mishap \subseteq mishap'
    BY <1>1, <2>1 DEF Workers
  <2>3. IpcTyped'
    BY <1>1, <2>1, <2>2 DEF IpcInv, IpcTyped
  <2>4. JobsFit'
    BY <1>1, <2>2 DEF IpcInv, JobsFit
  <2>5. RequestsFit'
    BY <1>1, <2>1, RepliesKept DEF IpcInv
  <2>6. MapsFit'
    BY <1>1, <2>2, MapsKept DEF IpcInv, maps
  <2>7. BroadcastsCome'
    <3>1. \A d \in Clients : InHand(d)' = InHand(d)
      BY <1>1, <2>2 DEF InHand
    <3>. QED  BY <1>1, <2>1, <2>2, <3>1, ComingKept DEF IpcInv, ListedFor
  <2>. QED  BY <2>3, <2>4, <2>5, <2>6, <2>7 DEF IpcInv
<1>. QED  BY <1>2, <1>3

\* The worker at a client that it removes.
LEMMA RemovingAt ==
  ASSUME IpcInv, NEW p \in {"forget", "unlist", "clear"}, AtWorker(p), UNCHANGED inbox
  PROVE  /\ worker \in Workers /\ worker.pc = p /\ worker.to \in Clients /\ worker.to \in worker.left
         /\ worker.to \in mishap
         /\ UNCHANGED <<phase, inbox, requests, main, bridge, due>> /\ RequestsFit'
<1>1. worker \in Workers /\ worker.pc = p /\ UNCHANGED <<phase, requests, main, bridge, due>> /\ RequestsFit'
  BY WorkerAt
<1>2. worker.to \in worker.left /\ worker.to \in mishap
  BY <1>1 DEF IpcInv, JobsFit
<1>3. worker.left \in SUBSET Clients
  BY <1>1 DEF Workers
<1>. QED  BY <1>1, <1>2, <1>3

LEMMA ForgetStep == IpcInv /\ Forget => IpcInv'
<1>. SUFFICES ASSUME IpcInv, Forget, NEW c, c = worker.to PROVE IpcInv'
  OBVIOUS
<1>1. /\ worker \in Workers /\ worker.pc = "forget" /\ c \in Clients /\ c \in worker.left /\ c \in mishap
      /\ UNCHANGED <<phase, inbox, requests, main, bridge, batches, byEvent, held, due>> /\ RequestsFit'
  BY RemovingAt DEF Forget
<1>2. /\ byClient' = [byClient EXCEPT ![c] = None]
      /\ worker' = IF byClient[c] = None THEN NextTarget(c)
                   ELSE [worker EXCEPT !.pc = "unlist", !.names = byClient[c]]
      /\ mishap \subseteq mishap' /\ (Changing => "overlap" \in mishap')
  BY DEF Forget, Noting
<1>3. byClient \in [Clients -> (SUBSET Names) \cup {None}] /\ None # {}
  BY IpcAssumption DEF IpcInv, IpcTyped
<1>4. /\ byClient' \in [Clients -> (SUBSET Names) \cup {None}] /\ byClient'[c] = None
      /\ \A d \in Clients \ {c} : byClient'[d] = byClient[d]
  BY <1>1, <1>2, <1>3
<1>5. CASE byClient[c] = None
  <2>1. UNCHANGED byClient /\ worker' = NextTarget(c)
    BY <1>2, <1>3, <1>5
  <2>2. /\ worker' \in Workers \cup {Idle} /\ worker'.pc \in {"idle", "send"}
        /\ \A d \in Clients \ {c} : d \in worker.left <=> worker'.pc # "idle" /\ d \in worker'.left
    BY <1>1, <2>1, NextIs
  <2>3. IpcTyped'
    BY <1>1, <2>1, <2>2 DEF IpcInv, IpcTyped
  <2>4. JobsFit'
    BY <1>1, <1>2, <2>2 DEF IpcInv, JobsFit
  <2>5. MapsFit'
    BY <1>1, <1>2, <2>1, <2>2, MapsKept DEF IpcInv, maps
  <2>6. BroadcastsCome'
    <3>1. \A d \in Clients : Spared(d)' => InHand(d)' = InHand(d)
      <4>1. ~Spared(c)'
        BY <1>1, <1>2 DEF Spared
      <4>2. \A d \in Clients \ {c} : InHand(d)' = InHand(d)
        BY <1>1, <2>2 DEF InHand
      <4>. QED  BY <4>1, <4>2
    <3>. QED  BY <1>1, <1>2, <3>1, ComingKept DEF IpcInv, ListedFor
  <2>. QED  BY <1>1, <2>3, <2>4, <2>5, <2>6 DEF IpcInv
<1>6. CASE byClient[c] # None
  <2>1. /\ worker' = [worker EXCEPT !.pc = "unlist", !.names = byClient[c]] /\ byClient[c] \in SUBSET Names
    BY <1>1, <1>2, <1>3, <1>6
  <2>2. /\ worker' \in Workers /\ worker'.pc = "unlist" /\ worker'.names = byClient[c] /\ worker'.to = c
        /\ worker'.left = worker.left
    BY <1>1, <2>1 DEF Workers
  <2>3. IpcTyped'
    BY <1>1, <1>4, <2>2 DEF IpcInv, IpcTyped
  <2>4. JobsFit'
    BY <1>1, <1>2, <2>2 DEF IpcInv, JobsFit
  <2>5. MapsFit'
    <3>. SUFFICES ASSUME "overlap" \notin mishap' PROVE MapsFit'
      BY DEF MapsFit
    <3>1. ~Changing /\ ~Changing' /\ ~Removing /\ Removing' /\ Listings /\ Entries /\ Rights
      BY <1>1, <1>2, <2>2 DEF IpcInv, MapsFit, Changing, Removing
    <3>2. main.pc \notin {"retain", "index", "drop", "unindex", "sweep", "release"} /\ UNCHANGED main
      BY <1>1, <3>1 DEF Changing
    <3>3. Listings'
      <4>. SUFFICES ASSUME NEW d \in Clients, NEW x \in Names
                    PROVE  (/\ d \in ListedFor(x) <=> (Subscribed(d, x) /\ ~Entered(d, x)) \/ Struck(d, x) \/ Unlisting(d, x)
                            /\ Entered(d, x) => Subscribed(d, x)
                            /\ Struck(d, x) \/ Unlisting(d, x) => ~Subscribed(d, x))'
        BY DEF Listings
      <4>1. /\ d \in ListedFor(x) <=> Subscribed(d, x)
            /\ ListedFor(x)' = ListedFor(x)
        BY <1>1, <3>1, <3>2 DEF Listings, Entered, Struck, Unlisting, ListedFor
      <4>2. ~Entered(d, x)' /\ ~Struck(d, x)'
        BY <3>2 DEF Entered, Struck
      <4>3. Unlisting(d, x)' <=> d = c /\ x \in byClient[c]
        BY <2>2, <3>1 DEF Unlisting
      <4>4. Subscribed(d, x)' <=> Subscribed(d, x) /\ d # c
        BY <1>4 DEF Subscribed
      <4>5. Subscribed(c, x) <=> x \in byClient[c]
        BY <1>6 DEF Subscribed
      <4>. QED  BY <4>1, <4>2, <4>3, <4>4, <4>5
    <3>4. Entries'
      BY <1>1, <1>3, <1>4, <2>2, <3>1, <3>2 DEF Entries
    <3>5. Rights'
      BY <1>1, <1>4, <1>6, <2>2, <3>1, <3>2 DEF Rights, Owned
    <3>. QED  BY <3>1, <3>3, <3>4, <3>5 DEF MapsFit
  <2>6. BroadcastsCome'
    <3>1. \A d \in Clients : InHand(d)' = InHand(d)
      BY <1>1, <2>2 DEF InHand
    <3>. QED  BY <1>1, <1>2, <3>1, ComingKept DEF IpcInv, ListedFor
  <2>. QED  BY <1>1, <2>3, <2>4, <2>5, <2>6 DEF IpcInv
<1>. QED  BY <1>5, <1>6

\* While the worker is at the maps and nobody else is.
LEMMA RemovingAlone ==
  ASSUME IpcInv, Removing, UNCHANGED main, "overlap" \notin mishap
  PROVE  /\ ~Changing /\ ~Changing' /\ Listings /\ Entries /\ Rights
         /\ main.pc \notin {"retain", "index", "drop", "unindex", "sweep", "release"}
         /\ \A c, n : ~Entered(c, n) /\ ~Struck(c, n) /\ ~Entered(c, n)' /\ ~Struck(c, n)'
         /\ \A c \in Clients : byClient[c] # {}
<1>1. ~Changing /\ ~Changing' /\ Listings /\ Entries /\ Rights
  BY DEF IpcInv, MapsFit, Changing
<1>2. main.pc \notin {"retain", "index", "drop", "unindex", "sweep", "release"}
  BY <1>1 DEF Changing
<1>3. \A c, n : ~Entered(c, n) /\ ~Struck(c, n) /\ ~Entered(c, n)' /\ ~Struck(c, n)'
  BY <1>2 DEF Entered, Struck
<1>4. \A c \in Clients : byClient[c] # {}
  BY <1>1, <1>2 DEF Entries
<1>. QED  BY <1>1, <1>2, <1>3, <1>4

LEMMA UnlistStep == ASSUME NEW n \in Names PROVE IpcInv /\ Unlist(n) => IpcInv'
<1>. SUFFICES ASSUME IpcInv, Unlist(n), NEW c, c = worker.to PROVE IpcInv'
  OBVIOUS
<1>. DEFINE w == Without(byEvent[n], c)
<1>1. /\ worker \in Workers /\ worker.pc = "unlist" /\ c \in Clients /\ c \in worker.left /\ c \in mishap
      /\ UNCHANGED <<phase, inbox, requests, main, bridge, batches, byClient, held, due, mishap>> /\ RequestsFit'
  BY RemovingAt DEF Unlist
<1>2. /\ n \in worker.names /\ byEvent' = [byEvent EXCEPT ![n] = w]
      /\ worker' = IF w = {} THEN [worker EXCEPT !.pc = "clear", !.name = n]
                   ELSE [worker EXCEPT !.names = @ \ {n}]
  BY DEF Unlist
<1>3. /\ byEvent' \in [Names -> (SUBSET Clients) \cup {None}]
      /\ ListedFor(n)' = ListedFor(n) \ {c} /\ byEvent'[n] = w
      /\ \A x \in Names \ {n} : ListedFor(x)' = ListedFor(x) /\ byEvent'[x] = byEvent[x]
  BY <1>1, <1>2, WithoutIs DEF IpcInv
<1>. HIDE DEF w
<1>4. /\ worker' \in Workers /\ worker'.to = c /\ worker'.left = worker.left
      /\ \/ w = {} /\ worker'.pc = "clear" /\ worker'.name = n /\ worker'.names = worker.names
         \/ w # {} /\ worker'.pc = "unlist" /\ worker'.names = worker.names \ {n}
  <2>1. CASE w = {}
    BY <1>1, <1>2, <2>1 DEF Workers
  <2>2. CASE w # {}
    BY <1>1, <1>2, <2>2 DEF Workers
  <2>. QED  BY <2>1, <2>2
<1>5. IpcTyped'
  BY <1>1, <1>3, <1>4 DEF IpcInv, IpcTyped
<1>6. JobsFit'
  BY <1>1, <1>2, <1>4 DEF IpcInv, JobsFit
<1>7. MapsFit'
  <2>. SUFFICES ASSUME "overlap" \notin mishap PROVE MapsFit'
    BY <1>1 DEF MapsFit
  <2>1. Removing /\ Removing'
    BY <1>1, <1>4 DEF Removing
  <2>2. /\ ~Changing /\ ~Changing' /\ Listings /\ Entries /\ Rights
        /\ main.pc \notin {"retain", "index", "drop", "unindex", "sweep", "release"}
        /\ \A d, x : ~Entered(d, x) /\ ~Struck(d, x) /\ ~Entered(d, x)' /\ ~Struck(d, x)'
        /\ \A d \in Clients : byClient[d] # {}
    BY <1>1, <2>1, RemovingAlone
  <2>3. Listings'
    <3>1. \A d \in Clients, x \in Names :
            /\ Unlisting(d, x) <=> d = c /\ x \in worker.names
            /\ Unlisting(d, x)' <=> d = c /\ x \in worker.names /\ x # n
            /\ Subscribed(d, x)' = Subscribed(d, x)
      BY <1>1, <1>4, <2>1 DEF Unlisting, Subscribed
    <3>2. \A d \in Clients, x \in Names : d \in ListedFor(x)' <=> d \in ListedFor(x) /\ ~(d = c /\ x = n)
      BY <1>3
    <3>3. ASSUME NEW d \in Clients, NEW x \in Names
          PROVE  /\ d \in ListedFor(x) <=> Subscribed(d, x) \/ Unlisting(d, x)
                 /\ Unlisting(d, x) => ~Subscribed(d, x)
      BY <2>2 DEF Listings
    <3>4. ASSUME NEW d \in Clients, NEW x \in Names
          PROVE  /\ d \in ListedFor(x)' <=> Subscribed(d, x)' \/ Unlisting(d, x)'
                 /\ Unlisting(d, x)' => ~Subscribed(d, x)'
      BY <1>2, <3>1, <3>2, <3>3
    <3>. QED  BY <2>2, <3>4 DEF Listings
  <2>4. Entries'
    <3>1. \A x \in Names : byEvent[x] # {}
      BY <1>1, <2>2 DEF Entries
    <3>2. \A x \in Names : byEvent'[x] = {} <=> worker'.pc = "clear" /\ worker'.name = x
      BY <1>3, <1>4, <3>1
    <3>. QED  BY <1>1, <1>4, <2>1, <2>2, <3>2 DEF Entries
  <2>5. Rights'
    BY <1>1, <1>4, <2>1, <2>2 DEF Rights, Owned
  <2>. QED  BY <2>2, <2>3, <2>4, <2>5 DEF MapsFit
<1>8. BroadcastsCome'
  <2>1. \A d \in Clients : InHand(d)' = InHand(d)
    BY <1>1, <1>4 DEF InHand
  <2>2. ~Spared(c)' /\ Star \in Names
    BY <1>1 DEF Spared, Names
  <2>3. \A d \in Clients : Spared(d)' /\ d \in ListedFor(Star) => d \in ListedFor(Star)'
    BY <1>3, <2>2
  <2>. QED  BY <1>1, <2>1, <2>3, ComingKept DEF IpcInv
<1>. QED  BY <1>1, <1>5, <1>6, <1>7, <1>8 DEF IpcInv

LEMMA ClearStep == IpcInv /\ Clear => IpcInv'
<1>. SUFFICES ASSUME IpcInv, Clear, NEW c, c = worker.to, NEW n, n = worker.name PROVE IpcInv'
  OBVIOUS
<1>1. /\ worker \in Workers /\ worker.pc = "clear" /\ c \in Clients /\ c \in worker.left /\ c \in mishap
      /\ UNCHANGED <<phase, inbox, requests, main, bridge, batches, byClient, held, due>> /\ RequestsFit'
  BY RemovingAt DEF Clear
<1>2. /\ byEvent' = [byEvent EXCEPT ![n] = None]
      /\ mishap \subseteq mishap' /\ ("swept" \notin mishap' => byEvent[n] \in {None, {}})
      /\ "overlap" \in mishap' <=> "overlap" \in mishap
      /\ worker' = [worker EXCEPT !.pc = "unlist", !.names = @ \ {n}]
  BY DEF Clear
<1>3. n \in worker.names /\ n \in Names
  BY <1>1 DEF IpcInv, JobsFit, Workers
<1>4. byEvent \in [Names -> (SUBSET Clients) \cup {None}] /\ None # {}
  BY IpcAssumption DEF IpcInv, IpcTyped
<1>5. /\ byEvent' \in [Names -> (SUBSET Clients) \cup {None}]
      /\ byEvent'[n] = None /\ ListedFor(n)' = {}
      /\ \A x \in Names \ {n} : ListedFor(x)' = ListedFor(x) /\ byEvent'[x] = byEvent[x]
  BY <1>2, <1>3, <1>4 DEF ListedFor
<1>6. /\ worker' \in Workers /\ worker'.to = c /\ worker'.left = worker.left
      /\ worker'.pc = "unlist" /\ worker'.names = worker.names \ {n}
  BY <1>1, <1>2 DEF Workers
<1>7. IpcTyped'
  BY <1>1, <1>5, <1>6 DEF IpcInv, IpcTyped
<1>8. JobsFit'
  BY <1>1, <1>2, <1>6 DEF IpcInv, JobsFit
<1>9. MapsFit'
  <2>. SUFFICES ASSUME "overlap" \notin mishap PROVE MapsFit'
    BY <1>2 DEF MapsFit
  <2>1. Removing /\ Removing'
    BY <1>1, <1>6 DEF Removing
  <2>2. /\ ~Changing /\ ~Changing' /\ Listings /\ Entries /\ Rights
        /\ main.pc \notin {"retain", "index", "drop", "unindex", "sweep", "release"}
        /\ \A d, x : ~Entered(d, x) /\ ~Struck(d, x) /\ ~Entered(d, x)' /\ ~Struck(d, x)'
        /\ \A d \in Clients : byClient[d] # {}
    BY <1>1, <2>1, RemovingAlone
  <2>3. byEvent[n] = {} /\ ListedFor(n) = {}
    BY <1>1, <1>3, <1>4, <2>2 DEF Entries, ListedFor
  <2>4. Listings'
    <3>1. \A d \in Clients, x \in Names :
            /\ Unlisting(d, x) <=> d = c /\ x \in worker.names /\ x # n
            /\ Unlisting(d, x)' <=> d = c /\ x \in worker.names /\ x # n
            /\ Subscribed(d, x)' = Subscribed(d, x)
      BY <1>1, <1>6, <2>1 DEF Unlisting, Subscribed
    <3>2. \A x \in Names : ListedFor(x)' = ListedFor(x)
      BY <1>5, <2>3
    <3>3. ASSUME NEW d \in Clients, NEW x \in Names
          PROVE  /\ d \in ListedFor(x) <=> Subscribed(d, x) \/ Unlisting(d, x)
                 /\ Unlisting(d, x) => ~Subscribed(d, x)
      BY <2>2 DEF Listings
    <3>4. ASSUME NEW d \in Clients, NEW x \in Names
          PROVE  /\ d \in ListedFor(x)' <=> Subscribed(d, x)' \/ Unlisting(d, x)'
                 /\ Unlisting(d, x)' => ~Subscribed(d, x)'
      BY <3>1, <3>2, <3>3
    <3>. QED  BY <2>2, <3>4 DEF Listings
  <2>5. Entries'
    <3>1. \A x \in Names \ {n} : byEvent[x] # {}
      BY <1>1, <2>2 DEF Entries
    <3>2. \A x \in Names : byEvent'[x] # {}
      BY <1>4, <1>5, <3>1
    <3>. QED  BY <1>1, <1>6, <2>1, <2>2, <3>2 DEF Entries
  <2>6. Rights'
    BY <1>1, <1>6, <2>1, <2>2 DEF Rights, Owned
  <2>. QED  BY <2>2, <2>4, <2>5, <2>6 DEF MapsFit
<1>10. BroadcastsCome'
  <2>1. \A d \in Clients : InHand(d)' = InHand(d)
    BY <1>1, <1>6 DEF InHand
  <2>2. ASSUME NEW d \in Clients, Spared(d)', d \in ListedFor(Star) PROVE d \in ListedFor(Star)'
    <3>1. byEvent[n] \in {None, {}}
      BY <1>2, <2>2 DEF Spared
    <3>2. Star # n
      BY <2>2, <3>1 DEF ListedFor
    <3>. QED  BY <1>5, <2>2, <3>2 DEF Names
  <2>. QED  BY <1>1, <1>2, <2>1, <2>2, ComingKept DEF IpcInv
<1>. QED  BY <1>1, <1>7, <1>8, <1>9, <1>10 DEF IpcInv

LEMMA DisownStep == IpcInv /\ Disown => IpcInv'
<1>. SUFFICES ASSUME IpcInv, Disown, NEW c, c = worker.to PROVE IpcInv'
  OBVIOUS
<1>1. /\ worker \in Workers /\ worker.pc = "unlist" /\ c \in Clients /\ c \in worker.left /\ c \in mishap
      /\ UNCHANGED <<phase, inbox, requests, main, bridge, batches, byClient, byEvent, due, mishap>> /\ RequestsFit'
  BY RemovingAt DEF Disown
<1>2. held' = [held EXCEPT ![c] = @ - 1] /\ worker.names = {} /\ worker' = NextTarget(c)
  BY DEF Disown
<1>3. /\ worker' \in Workers \cup {Idle} /\ worker'.pc \in {"idle", "send"}
      /\ \A d \in Clients \ {c} : d \in worker.left <=> worker'.pc # "idle" /\ d \in worker'.left
  BY <1>1, <1>2, NextIs
<1>4. held \in [Clients -> Int] /\ held'[c] = held[c] - 1 /\ \A d \in Clients \ {c} : held'[d] = held[d]
  BY <1>1, <1>2 DEF IpcInv, IpcTyped
<1>5. IpcTyped'
  <2>1. held' \in [Clients -> Int]
    BY <1>1, <1>2, <1>4
  <2>. QED  BY <1>1, <1>3, <2>1 DEF IpcInv, IpcTyped
<1>6. JobsFit'
  BY <1>1, <1>3 DEF IpcInv, JobsFit
<1>7. MapsFit'
  <2>. SUFFICES ASSUME "overlap" \notin mishap PROVE MapsFit'
    BY <1>1 DEF MapsFit
  <2>1. Removing /\ ~Removing'
    BY <1>1, <1>3 DEF Removing
  <2>2. /\ ~Changing /\ ~Changing' /\ Listings /\ Entries /\ Rights
        /\ main.pc \notin {"retain", "index", "drop", "unindex", "sweep", "release"}
        /\ \A d, x : ~Entered(d, x) /\ ~Struck(d, x) /\ ~Entered(d, x)' /\ ~Struck(d, x)'
        /\ \A d \in Clients : byClient[d] # {}
    BY <1>1, <2>1, RemovingAlone
  <2>3. Listings'
    <3>1. \A d \in Clients, x \in Names :
            /\ ~Unlisting(d, x) /\ ~Unlisting(d, x)'
            /\ Subscribed(d, x)' = Subscribed(d, x) /\ ListedFor(x)' = ListedFor(x)
      BY <1>1, <1>2, <2>1 DEF Unlisting, Subscribed, ListedFor
    <3>. QED  BY <2>2, <3>1 DEF Listings
  <2>4. Entries'
    BY <1>1, <1>3, <2>1, <2>2 DEF Entries
  <2>5. Rights'
    <3>1. byClient[c] = None /\ UNCHANGED <<byClient, main>>
      BY <1>1, <2>1, <2>2 DEF Entries
    <3>2. Owned(c) /\ ~Owned(c)'
      BY <1>1, <2>1, <2>2, <3>1 DEF Owned
    <3>3. \A d \in Clients \ {c} : Owned(d)' <=> Owned(d)
      BY <1>1, <2>1, <3>1 DEF Owned
    <3>4. held[c] = 1
      BY <1>1, <2>2, <3>2 DEF Rights
    <3>. QED  BY <1>4, <2>2, <3>2, <3>3, <3>4 DEF Rights
  <2>. QED  BY <2>1, <2>3, <2>4, <2>5 DEF MapsFit
<1>8. BroadcastsCome'
  <2>1. ~Spared(c)'
    BY <1>1 DEF Spared
  <2>2. \A d \in Clients \ {c} : InHand(d)' = InHand(d)
    BY <1>1, <1>3 DEF InHand
  <2>. QED  BY <1>1, <2>1, <2>2, ComingKept DEF IpcInv, ListedFor
<1>. QED  BY <1>1, <1>5, <1>6, <1>7, <1>8 DEF IpcInv

LEMMA IpcInit == Init => IpcInv
<1>. SUFFICES ASSUME Init PROVE IpcInv
  OBVIOUS
<1>1. /\ phase = [c \in Clients |-> "new"] /\ inbox = [c \in Clients |-> <<>>]
      /\ requests = <<>> /\ batches = <<>>
      /\ main = Idle /\ bridge = Idle /\ worker = Idle /\ main.pc = "idle" /\ bridge.pc = "idle" /\ worker.pc = "idle"
      /\ byClient = [c \in Clients |-> None] /\ byEvent = [n \in Names |-> None]
      /\ held = [c \in Clients |-> 0] /\ due = [c \in Clients |-> 0] /\ mishap = {}
  BY DEF Init, Idle
<1>2. <<>> \in Seq(Messages) /\ <<>> \in Seq(Requests) /\ <<>> \in Seq(Batches)
  OBVIOUS
<1>3. IpcTyped
  BY <1>1, <1>2 DEF IpcTyped
<1>4. JobsFit
  BY <1>1 DEF JobsFit
<1>5. RequestsFit
  <2>1. DOMAIN requests = {}
    BY <1>1
  <2>2. \A c \in Clients : Queued(c, "reply") = {} /\ ~Requested(c) /\ ~Leaving(c) /\ ~Querying(c)
    BY <1>1, <2>1 DEF Queued, Requested, Handles, Leaving, Querying
  <2>. QED  BY <1>1, <2>1, <2>2 DEF RequestsFit, Handles
<1>6. MapsFit
  <2>1. None # {}
    BY IpcAssumption
  <2>2. Listings
    BY <1>1 DEF Listings, ListedFor, Subscribed, Entered, Struck, Unlisting, Removing
  <2>3. Entries /\ Rights /\ ~Removing
    BY <1>1, <2>1 DEF Entries, Rights, Owned, Removing
  <2>. QED  BY <2>2, <2>3 DEF MapsFit
<1>7. BroadcastsCome
  <2>1. ASSUME NEW c \in Clients PROVE due[c] <= Coming(c)
    <3>1. /\ due[c] = 0 /\ Count(inbox[c], {"event"}) \in Nat /\ Count(batches, For(c)) \in Nat
          /\ InHand(c) \in {0, 1} /\ Announced(c) \in {0, 1}
      BY <1>1, <1>3, Counted
    <3>. QED  BY <3>1 DEF Coming
  <2>. QED  BY <2>1 DEF BroadcastsCome
<1>. QED  BY <1>3, <1>4, <1>5, <1>6, <1>7 DEF IpcInv

LEMMA IpcStep == IpcInv /\ Next => IpcInv'
<1>. SUFFICES ASSUME IpcInv, Next PROVE IpcInv'
  OBVIOUS
<1>1. CASE \E c \in Clients : Read(c) \/ Quit(c)
  BY <1>1, ReadStep, QuitStep
<1>2. CASE \E c \in Clients, n \in Names, kind \in {"subscribe", "unsubscribe", "query"} : Ask(c, kind, n)
  BY <1>2, AskStep DEF AskKinds
<1>3. CASE \E n \in Topics : Publish(n)
  BY <1>3, PublishStep
<1>4. CASE \E size \in {"fits", "large"} : Forward(size) \/ Answer(size)
  BY <1>4, ForwardStep, AnswerStep
<1>5. CASE Main
  BY <1>5, ReceiveStep, EnterStep, RetainStep, IndexStep, StrikeStep, DropClientStep, UnindexStep, SweepStep,
     ReleaseStep, ReplyStep DEF Main
<1>6. CASE Worker
  BY <1>6, TakeStep, ForgetStep, ClearStep, DisownStep, SendStep, UnlistStep DEF Worker
<1>. QED  BY <1>1, <1>2, <1>3, <1>4, <1>5, <1>6 DEF Next

LEMMA IpcNext ==
  IpcInv /\ [MCNext]_<<part, vars, confVars, appVars, hideVars, switchVars>> => IpcInv'
<1>. SUFFICES ASSUME IpcInv, [MCNext]_<<part, vars, confVars, appVars, hideVars, switchVars>> PROVE IpcInv'
  OBVIOUS
<1>1. CASE Next
  BY <1>1, IpcStep
<1>2. CASE UNCHANGED vars
  <2>1. UNCHANGED <<phase, inbox, requests, main, bridge, worker, batches, byClient, byEvent, held, due, mishap>>
    BY <1>2 DEF vars, clients, maps, history
  <2>2. IpcTyped' /\ JobsFit'
    BY <2>1 DEF IpcInv, IpcTyped, JobsFit
  <2>3. RequestsFit'
    BY <2>1, RepliesKept DEF IpcInv
  <2>4. MapsFit'
    BY <2>1, MapsKept DEF IpcInv, maps
  <2>5. BroadcastsCome'
    BY <2>1, ComingKept DEF IpcInv, ListedFor
  <2>. QED  BY <2>2, <2>3, <2>4, <2>5 DEF IpcInv
<1>. QED  BY <1>1, <1>2 DEF MCNext

\* Once nothing is under way, what is on the way to a client is in its inbox.
LEMMA IpcHolds == IpcInv => SubscriptionsHold
<1>. SUFFICES ASSUME IpcInv PROVE SubscriptionsHold
  OBVIOUS
<1>1. ASSUME Calm
      PROVE main.pc = "idle" /\ bridge.pc = "idle" /\ worker.pc = "idle" /\ requests = <<>> /\ batches = <<>>
  BY <1>1 DEF Calm, Idle
<1>2. ASSUME Calm, "overlap" \notin mishap
      PROVE  /\ \A c \in Clients :
                  /\ \A n \in Names : Subscribed(c, n) <=> c \in ListedFor(n)
                  /\ byClient[c] # {}
                  /\ held[c] = IF byClient[c] = None THEN 0 ELSE 1
             /\ \A n \in Names : byEvent[n] # {}
  <2>1. Listings /\ Entries /\ Rights
    BY <1>2 DEF IpcInv, MapsFit
  <2>2. \A c \in Clients, n \in Names : Subscribed(c, n) <=> c \in ListedFor(n)
    BY <1>1, <1>2, <2>1 DEF Listings, Entered, Struck, Unlisting, Removing
  <2>3. (\A c \in Clients : byClient[c] # {}) /\ (\A n \in Names : byEvent[n] # {})
    BY <1>1, <1>2, <2>1 DEF Entries
  <2>4. \A c \in Clients : held[c] = IF byClient[c] = None THEN 0 ELSE 1
    BY <1>1, <1>2, <2>1 DEF Rights, Owned, Removing
  <2>. QED  BY <2>2, <2>3, <2>4
<1>3. ASSUME Calm, NEW c \in Clients
      PROVE  /\ phase[c] = "waiting" => Queued(c, "reply") # {}
             /\ mishap \cap {"full", "overlap", "swept", c} = {} => due[c] <= Cardinality(Queued(c, "event"))
  <2>1. ~Requested(c)
    BY <1>1, <1>3 DEF Requested, Handles
  <2>2. InHand(c) = 0 /\ Announced(c) = 0
    BY <1>1, <1>3 DEF InHand, Announced
  <2>3. Count(batches, For(c)) = 0
    <3>1. {i \in DOMAIN batches : batches[i] \in For(c)} = {}
      BY <1>1, <1>3
    <3>. QED  BY <3>1, FS_EmptySet DEF Count
  <2>4. Count(inbox[c], {"event"}) \in Nat
    BY Counted DEF IpcInv
  <2>5. Count(inbox[c], {"event"}) = Cardinality(Queued(c, "event"))
    <3>1. {i \in DOMAIN inbox[c] : inbox[c][i] \in {"event"}} = Queued(c, "event")
      BY DEF Queued
    <3>. QED  BY <3>1 DEF Count
  <2>6. Spared(c) => due[c] <= Coming(c)
    BY DEF IpcInv, BroadcastsCome
  <2>7. Coming(c) = Cardinality(Queued(c, "event"))
    BY <2>2, <2>3, <2>4, <2>5 DEF Coming
  <2>. QED  BY <2>1, <2>6, <2>7 DEF IpcInv, RequestsFit, Spared
<1>. QED  BY <1>2, <1>3 DEF SubscriptionsHold, MapsAgree, MessagesArrive

\* Whatever order the four threads and the clients take their steps in: when nothing is
\* under way, the two maps of subscriptions tell the same and one send right is held for
\* every client in them, unless the worker forgot a client while the main thread was at the
\* maps; whoever waits to be subscribed has its reply, and every broadcast that was promised
\* to a client whose sends did not fail is in its port (ipc/subscriptions.rs).
THEOREM SubscriptionsRight == MCSpec => []SubscriptionsHold
<1>1. MCInit => IpcInv
  BY IpcInit DEF MCInit
<1>. QED  BY <1>1, IpcNext, IpcHolds, PTL DEF MCSpec
=============================================================================
