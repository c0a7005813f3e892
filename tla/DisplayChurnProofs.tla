------------------------- MODULE DisplayChurnProofs -------------------------
(***************************************************************************)
(* The flags of display churns, for any displays, retries and attempts:    *)
(* what the main thread keeps, the reactor learns.  And the windows, for    *)
(* any windows and any number of reconfigurations: what a quarantine drops  *)
(* the reactor makes up for, or the exceptions that the model names explain *)
(* it.  And the screens at rest: each shows a space of its own display, and *)
(* the quarantine is over, or the exceptions that the model names hold.     *)
(***************************************************************************)
EXTENDS MCDisplays, FiniteSetTheorems, WellFoundedInduction, TLAPS

Ops == {"Begin", "End", "Screens", "Spaces"}
IsQueue(s) == \E S : s \in Seq(S) /\ \A e \in S : e.op \in Ops
Marks == {"Begin", "End"}
Unmarked(s) == \A i \in DOMAIN s : s[i].op \notin Marks

\* What is left to write, and what was kept: during a churn the flags since its Begin, and
\* after it, until the next one begins, those of the whole churn.
Beginning(ws) ==
  \E w : /\ w.op = "FLAGS" /\ w.to = flags_now /\ w.then \in {None, "Begin"}
         /\ \/ ws = <<w>>
            \/ \E v : v.op = "COMPLETED" /\ v.then = None /\ ws = <<v, w>>
Ending(ws) ==
  \E v, w : /\ v.op = "FLAGS" /\ v.then = None
            /\ w.op = "COMPLETED" /\ w.to = flags_now /\ w.then = "End"
            /\ ws \in {<<w>>, <<v, w>>}
Kept ==
  IF active THEN (Idle /\ FLAGS = flags_now) \/ Beginning(writes)
            ELSE (Idle /\ COMPLETED = flags_now) \/ Ending(writes)

Noted == notes \subseteq {"Space", "Display", "Frame", "Wake"}

Flagged == IsQueue(channel) /\ Kept /\ KnowsTheLastFlags

IInv == Noted /\ Flagged

-----------------------------------------------------------------------------
(* The channel. *)

LEMMA AppendMarks ==
  ASSUME NEW s, IsQueue(s), NEW e, e.op \in Ops
  PROVE  /\ IsQueue(Append(s, e))
         /\ Unmarked(Append(s, e)) => Unmarked(s) /\ e.op \notin Marks
<1>1. PICK S : s \in Seq(S) /\ \A x \in S : x.op \in Ops
  BY DEF IsQueue
<1>2. Append(s, e) \in Seq(S \cup {e})
  <2>1. s \in Seq(S \cup {e}) /\ e \in S \cup {e}
    BY <1>1
  <2>. QED  BY <2>1
<1>3. /\ DOMAIN Append(s, e) = 1..Len(s) + 1 /\ DOMAIN s = 1..Len(s) /\ Len(s) \in Nat
      /\ \A i \in 1..Len(s) : Append(s, e)[i] = s[i]
      /\ Append(s, e)[Len(s) + 1] = e
  BY <1>1
<1>4. ASSUME Unmarked(Append(s, e))  PROVE Unmarked(s) /\ e.op \notin Marks
  <2>1. \A i \in 1..Len(s) : s[i].op \notin Marks
    BY <1>3, <1>4 DEF Unmarked
  <2>2. Len(s) + 1 \in 1..Len(s) + 1
    BY <1>3
  <2>. QED  BY <1>3, <1>4, <2>1, <2>2 DEF Unmarked
<1>5. \A x \in S \cup {e} : x.op \in Ops
  BY <1>1
<1>. HIDE DEF Ops
<1>. QED  BY <1>2, <1>4, <1>5 DEF IsQueue

LEMMA TailMarks ==
  ASSUME NEW s, IsQueue(s), s # <<>>
  PROVE  /\ IsQueue(Tail(s))
         /\ Unmarked(Tail(s)) /\ s[1].op \notin Marks => Unmarked(s)
<1>1. PICK S : s \in Seq(S) /\ \A x \in S : x.op \in Ops
  BY DEF IsQueue
<1>2. Tail(s) \in Seq(S)
  BY <1>1
<1>3. /\ DOMAIN Tail(s) = 1..Len(s) - 1 /\ DOMAIN s = 1..Len(s) /\ Len(s) \in Nat \ {0}
      /\ \A i \in 1..Len(s) - 1 : Tail(s)[i] = s[i + 1]
  BY <1>1
<1>4. ASSUME Unmarked(Tail(s)), s[1].op \notin Marks, NEW i \in 1..Len(s)
      PROVE  s[i].op \notin Marks
  <2>1. CASE i = 1
    BY <1>4, <2>1
  <2>2. CASE i # 1
    <3>1. i - 1 \in 1..Len(s) - 1 /\ Tail(s)[i - 1] = s[i]
      BY <1>3, <1>4, <2>2
    <3>. QED  BY <1>3, <1>4, <3>1 DEF Unmarked
  <2>. QED  BY <2>1, <2>2
<1>. QED  BY <1>2, <1>3, <1>4 DEF IsQueue, Unmarked

\* KnowsTheLastFlags in the words of this module.
LEMMA Knows ==
  KnowsTheLastFlags <=>
    (Idle /\ ~active /\ topology.state = "Awaiting" /\ Unmarked(channel) => flags_now \subseteq topology.flags)
BY DEF KnowsTheLastFlags, Unmarked, Marks

\* Steps that neither write nor mark anything.
LEMMA Unnoticed ==
  ASSUME Flagged, UNCHANGED <<active, writes, FLAGS, COMPLETED, flags_now, topology>>,
         channel' = channel \/ \E e : e.op \in Ops \ Marks /\ channel' = Append(channel, e)
  PROVE  Flagged'
<1>1. Kept'
  BY DEF Flagged, Kept, Beginning, Ending, Idle
<1>2. IsQueue(channel') /\ (Unmarked(channel') => Unmarked(channel))
  BY AppendMarks DEF Flagged
<1>3. KnowsTheLastFlags'
  BY <1>2, Knows DEF Flagged, Idle, KnowsTheLastFlags, Unmarked, Marks
<1>. QED  BY <1>1, <1>2, <1>3 DEF Flagged

LEMMA InitInv == Init => IInv
<1>. SUFFICES ASSUME Init PROVE IInv
  OBVIOUS
<1>1. <<>> \in Seq({})
  OBVIOUS
<1>. QED  BY <1>1 DEF Init, IInv, Noted, Flagged, IsQueue, Kept, Idle, KnowsTheLastFlags

\* One atomic operation: the last of a churn that begins leaves its flags in FLAGS, and the
\* last of one that ends leaves them in COMPLETED, with an End on its way.
LEMMA WriteStep == Flagged /\ Write => Flagged'
<1>. SUFFICES ASSUME Flagged, Write PROVE Flagged'
  OBVIOUS
<1>0. /\ ~Idle /\ writes' = Tail(writes)
      /\ FLAGS' = IF writes[1].op = "FLAGS" THEN writes[1].to ELSE FLAGS
      /\ COMPLETED' = IF writes[1].op = "COMPLETED" THEN writes[1].to ELSE COMPLETED
      /\ channel' = IF writes[1].then = None THEN channel ELSE Append(channel, [op |-> writes[1].then])
      /\ UNCHANGED <<active, flags_now, topology>>
  BY DEF Write, centreVars, reactorVars
<1>2. CASE active
  <2>0. IsQueue(channel')
    <3>1. writes[1].then \in {None, "Begin"}
      BY <1>0, <1>2 DEF Flagged, Kept, Beginning
    <3>2. [op |-> "Begin"].op \in Ops
      BY DEF Ops
    <3>. QED  BY <1>0, <3>1, <3>2, AppendMarks DEF Flagged
  <2>1. Kept'
    <3>1. PICK w : /\ w.op = "FLAGS" /\ w.to = flags_now
                   /\ w.then \in {None, "Begin"}
                   /\ \/ writes = <<w>>
                      \/ \E v : v.op = "COMPLETED" /\ v.then = None /\ writes = <<v, w>>
      BY <1>0, <1>2 DEF Flagged, Kept, Beginning
    <3>2. CASE writes = <<w>>
      <4>1. writes' = <<>> /\ writes[1] = w
        BY <1>0, <3>2
      <4>. QED  BY <1>0, <1>2, <3>1, <4>1 DEF Kept, Idle
    <3>3. ASSUME NEW v, v.op = "COMPLETED", v.then = None, writes = <<v, w>>  PROVE Kept'
      <4>1. writes' = <<w>>
        BY <1>0, <3>3
      <4>. QED  BY <1>0, <1>2, <3>1, <4>1 DEF Kept, Beginning
    <3>. QED  BY <3>1, <3>2, <3>3
  <2>. QED  BY <1>0, <1>2, <2>0, <2>1 DEF Flagged, KnowsTheLastFlags
<1>3. CASE ~active
  <2>1. PICK v, w : /\ v.op = "FLAGS" /\ v.then = None
                    /\ w.op = "COMPLETED" /\ w.to = flags_now /\ w.then = "End"
                    /\ writes \in {<<w>>, <<v, w>>}
    BY <1>0, <1>3 DEF Flagged, Kept, Ending
  <2>2. CASE writes = <<v, w>>
    <3>1. writes' = <<w>>
      BY <1>0, <2>2
    <3>2. Kept' /\ ~Idle'
      <4>1. /\ v.op = "FLAGS" /\ v.then = None
            /\ w.op = "COMPLETED" /\ w.to = flags_now' /\ w.then = "End"
            /\ writes' \in {<<w>>, <<v, w>>}
        BY <1>0, <2>1, <3>1
      <4>2. Ending(writes)'
        BY <4>1, Zenon DEF Ending
      <4>3. ~Idle' /\ ~active'
        BY <1>0, <1>3, <3>1 DEF Idle
      <4>. QED  BY <4>2, <4>3 DEF Kept
    <3>3. IsQueue(channel')
      BY <1>0, <2>1, <2>2 DEF Flagged
    <3>. QED  BY <3>2, <3>3 DEF Flagged, KnowsTheLastFlags
  <2>3. CASE writes = <<w>>
    <3>1. writes' = <<>> /\ COMPLETED' = flags_now
      BY <1>0, <2>1, <2>3
    <3>2. channel' = Append(channel, [op |-> "End"])
      BY <1>0, <2>1, <2>3, DisplayAssumption
    <3>3. IsQueue(channel') /\ ~Unmarked(channel')
      BY <3>2, AppendMarks DEF Flagged, Marks, Ops
    <3>4. KnowsTheLastFlags'
      BY <3>3 DEF KnowsTheLastFlags, Unmarked, Marks
    <3>. QED  BY <1>0, <1>3, <3>1, <3>3, <3>4 DEF Flagged, Kept, Idle
  <2>. QED  BY <2>1, <2>2, <2>3
<1>. QED  BY <1>2, <1>3

\* The reactor: an End makes it know what is kept, and nothing else lets it wait.
LEMMA ReactStep == Flagged /\ React => Flagged'
<1>. SUFFICES ASSUME Flagged, React PROVE Flagged'
  OBVIOUS
<1>. DEFINE e == channel[1]
<1>0. /\ channel # <<>> /\ channel' = Tail(channel)
      /\ CASE e.op = "Begin"   -> HandleBegin
           [] e.op = "End"     -> HandleEnd
           [] e.op = "Screens" -> HandleScreens(e)
           [] e.op = "Spaces"  -> HandleSpaces(e.spaces)
      /\ UNCHANGED <<active, writes, FLAGS, COMPLETED, flags_now>>
  BY DEF React, centreVars, atomicVars
<1>1. Kept'
  BY <1>0 DEF Flagged, Kept, Beginning, Ending, Idle
<1>2. IsQueue(channel') /\ (Unmarked(channel') /\ e.op \notin Marks => Unmarked(channel))
  BY <1>0, TailMarks DEF Flagged
<1>3. CASE e.op = "Begin"
  <2>1. topology'.state # "Awaiting"
    BY <1>0, <1>3 DEF HandleBegin
  <2>. QED  BY <1>1, <1>2, <2>1 DEF Flagged, KnowsTheLastFlags
<1>4. CASE e.op = "End"
  <2>1. COMPLETED \subseteq topology'.flags
    BY <1>0, <1>4 DEF HandleEnd
  <2>2. Idle /\ ~active => COMPLETED = flags_now
    BY DEF Flagged, Kept, Ending, Idle
  <2>3. KnowsTheLastFlags'
    BY <1>0, <2>1, <2>2 DEF KnowsTheLastFlags, Idle
  <2>. QED  BY <1>1, <1>2, <2>3 DEF Flagged
<1>5. ASSUME e.op # "Begin", e.op # "End", topology' = topology \/ topology'.state = "Stable"
      PROVE  Flagged'
  <2>1. KnowsTheLastFlags'
    BY <1>0, <1>2, <1>5, Knows DEF Flagged, Idle, KnowsTheLastFlags, Unmarked, Marks
  <2>. QED  BY <1>1, <1>2, <2>1 DEF Flagged
<1>6. ASSUME NEW s, NEW gone, NEW re, Commit(s, gone, re)
      PROVE  topology' = topology \/ topology'.state = "Stable"
  BY <1>6 DEF Commit
<1>7. CASE e.op = "Screens"
  <2>1. topology' = topology \/ topology'.state = "Stable"
    BY <1>0, <1>6, <1>7 DEF HandleScreens
  <2>. QED  BY <1>5, <1>7, <2>1
<1>8. CASE e.op = "Spaces"
  <2>1. topology' = topology \/ topology'.state = "Stable"
    BY <1>0, <1>6, <1>8 DEF HandleSpaces
  <2>. QED  BY <1>5, <1>8, <2>1
<1>9. e.op \in Ops
  BY <1>0 DEF Flagged, IsQueue
<1>. QED  BY <1>3, <1>4, <1>7, <1>8, <1>9 DEF Ops

\* A churn begins, or another reconfiguration joins it.
LEMMA ReconfiguredStep == Flagged /\ Reconfigured => Flagged'
<1>. SUFFICES ASSUME Flagged, Reconfigured PROVE Flagged'
  OBVIOUS
<1>1. /\ Idle /\ active' = TRUE /\ writes' = BeginWrites(callbacks[1])
      /\ flags_now' = IF active THEN flags_now \cup callbacks[1] ELSE callbacks[1]
      /\ channel' = channel
  BY DEF Reconfigured
<1>2. CASE active
  <2>1. FLAGS = flags_now
    <3>1. ~Beginning(writes)
      BY <1>1 DEF Beginning, Idle
    <3>. QED  BY <1>2, <3>1 DEF Flagged, Kept
  <2>. DEFINE w == [op |-> "FLAGS", to |-> FLAGS \cup callbacks[1], then |-> None]
  <2>2. writes' = <<w>>
    BY <1>1, <1>2 DEF BeginWrites
  <2>3. w.op = "FLAGS" /\ w.to = flags_now' /\ w.then \in {None, "Begin"}
    BY <1>1, <1>2, <2>1
  <2>. HIDE DEF w
  <2>4. Beginning(writes)'
    BY <2>2, <2>3, Zenon DEF Beginning
  <2>. QED  BY <1>1, <2>4 DEF Flagged, Kept, KnowsTheLastFlags
<1>3. CASE ~active
  <2>. DEFINE v == [op |-> "COMPLETED", to |-> {}, then |-> None]
              w == [op |-> "FLAGS", to |-> callbacks[1], then |-> "Begin"]
  <2>1. writes' = <<v, w>>
    BY <1>1, <1>3 DEF BeginWrites
  <2>2. /\ w.op = "FLAGS" /\ w.to = flags_now' /\ w.then \in {None, "Begin"}
        /\ v.op = "COMPLETED" /\ v.then = None
    BY <1>1, <1>3
  <2>. HIDE DEF v, w
  <2>3. Beginning(writes)'
    BY <2>1, <2>2, Zenon DEF Beginning
  <2>. QED  BY <1>1, <2>3 DEF Flagged, Kept, KnowsTheLastFlags
<1>. QED  BY <1>2, <1>3

\* A check leaves the churn alone, or ends it with the flags that it has.
LEMMA CheckStep == ASSUME Flagged, NEW c, NEW quiet, Check(c, quiet)  PROVE Flagged'
<1>1. /\ Idle /\ UNCHANGED <<channel, FLAGS, COMPLETED, flags_now, topology>>
      /\ UNCHANGED <<active, writes>> \/ (active /\ ~active' /\ writes' = EndWrites)
  <2>0. /\ Idle
        /\ UNCHANGED <<systemVars, callbacks, notes, last_sent, atomicVars, channel,
                       reactorVars, inputs, flags_now, given_up>>
    BY DEF Check
  <2>1. Idle /\ UNCHANGED <<channel, FLAGS, COMPLETED, flags_now, topology>>
    BY <2>0 DEF systemVars, atomicVars, reactorVars
  <2>2. CASE ~c.current \/ ~active
    <3>1. UNCHANGED <<active, writes>>
      BY <2>2 DEF Check
    <3>. QED  BY <2>1, <3>1
  <2>3. CASE ~(~c.current \/ ~active)
    <3>1. UNCHANGED <<active, writes>> \/ Finish(checks \ {c})
      BY <2>3 DEF Check
    <3>. QED  BY <2>1, <2>3, <3>1 DEF Finish, atomicVars, reactorVars
  <2>. QED  BY <2>1, <2>2, <2>3 DEF atomicVars, reactorVars
<1>2. CASE UNCHANGED <<active, writes>>
  BY <1>1, <1>2, Unnoticed
<1>3. CASE active /\ ~active' /\ writes' = EndWrites
  <2>1. FLAGS = flags_now
    <3>1. ~Beginning(writes)
      BY <1>1 DEF Beginning, Idle
    <3>. QED  BY <1>3, <3>1 DEF Flagged, Kept
  <2>. DEFINE v == [op |-> "FLAGS", to |-> {}, then |-> None]
              w == [op |-> "COMPLETED", to |-> FLAGS, then |-> "End"]
  <2>2. writes' = <<v, w>>
    BY <1>3 DEF EndWrites
  <2>3. /\ v.op = "FLAGS" /\ v.then = None
        /\ w.op = "COMPLETED" /\ w.to = flags_now' /\ w.then = "End"
    BY <1>1, <2>1
  <2>. HIDE DEF v, w
  <2>4. Ending(writes)'
    BY <2>2, <2>3, Zenon DEF Ending
  <2>5. ~Idle'
    BY <2>2 DEF Idle
  <2>. QED  BY <1>1, <1>3, <2>4, <2>5 DEF Flagged, Kept, KnowsTheLastFlags
<1>. QED  BY <1>1, <1>2, <1>3

\* What the notification centre sends besides is no mark.
LEMMA RefreshStepKeeps == ASSUME Flagged, NEW n, Refresh(n)  PROVE Flagged'
<1>. DEFINE e == [op |-> "Screens", screens |-> ScreensOf(Current), frame |-> Current.geometry]
<1>1. /\ UNCHANGED <<active, writes, FLAGS, COMPLETED, flags_now, topology>>
      /\ channel' = channel \/ channel' = Append(channel, e)
  BY DEF Refresh, RefreshStep, atomicVars, reactorVars
<1>2. e.op \in Ops \ Marks
  BY DEF Ops, Marks
<1>. HIDE DEF e
<1>. QED  BY <1>1, <1>2, Unnoticed

LEMMA NotifiedStep == ASSUME IInv, NEW n, Notified(n)  PROVE Flagged'
<1>. DEFINE e == [op |-> "Spaces", spaces |-> Spaces(ScreensOf(Current))]
<1>0. UNCHANGED <<active, writes, FLAGS, COMPLETED, flags_now, topology>>
  BY DEF Notified, atomicVars, reactorVars
<1>1. ASSUME NEW b, SendSpaces(b)
      PROVE  channel' = channel \/ channel' = Append(channel, e)
  BY <1>1 DEF SendSpaces
<1>2. n \in {"Space", "Display", "Frame", "Wake"} => channel' = channel \/ channel' = Append(channel, e)
  <2>1. CASE n = "Space" \/ n = "Display"
    <3>1. \E b : SendSpaces(b)
      BY <2>1 DEF Notified
    <3>. QED  BY <1>1, <3>1
  <2>2. CASE n = "Frame" \/ n = "Wake"
    BY <2>2 DEF Notified
  <2>. QED  BY <2>1, <2>2
<1>3. e.op \in Ops \ Marks
  BY DEF Ops, Marks
<1>. HIDE DEF e
<1>4. n \in {"Space", "Display", "Frame", "Wake"}
  BY DEF IInv, Noted, Notified
<1>. QED  BY <1>0, <1>2, <1>3, <1>4, Unnoticed DEF IInv

LEMMA StepInv == IInv /\ [Next]_vars => IInv'
<1>. SUFFICES ASSUME IInv, [Next]_vars PROVE IInv'
  OBVIOUS
<1>. USE DEF IInv
<1>1. ASSUME NEW S \in Sets, Reconfigure(S)  PROVE Flagged' /\ UNCHANGED notes
  BY <1>1, Unnoticed DEF Reconfigure, centreVars, atomicVars, reactorVars
<1>2. CASE Settle
  BY <1>2, Unnoticed DEF Settle, centreVars, atomicVars, reactorVars, Noted
<1>3. ASSUME NEW n \in {"Space", "Display", "Frame", "Wake"}, Notify(n)  PROVE IInv'
  BY <1>3, Unnoticed DEF Notify, centreVars, atomicVars, reactorVars, Noted
<1>4. CASE UNCHANGED vars
  BY <1>4, Unnoticed DEF vars, centreVars, atomicVars, reactorVars, Noted
<1>5. ASSUME NEW n \in notes, Notified(n)  PROVE IInv'
  <2>1. notes' \subseteq notes
    BY <1>5 DEF Notified
  <2>. QED  BY <1>5, <2>1, NotifiedStep DEF Noted
<1>6. CASE Write \/ Reconfigured \/ React
  <2>1. UNCHANGED notes
    BY <1>6 DEF Write, Reconfigured, React
  <2>. QED  BY <1>6, <2>1, WriteStep, ReconfiguredStep, ReactStep DEF Noted
<1>7. ASSUME NEW c \in checks, NEW quiet \in BOOLEAN, Check(c, quiet)  PROVE IInv'
  BY <1>7, CheckStep DEF Check, Noted
<1>8. ASSUME NEW n \in refreshes, Refresh(n)  PROVE IInv'
  BY <1>8, RefreshStepKeeps DEF Refresh, RefreshStep, Noted
<1>. QED
  BY <1>1, <1>2, <1>3, <1>4, <1>5, <1>6, <1>7, <1>8 DEF Next, Noted

\* The invariant of the protocol of the flags.
THEOREM Invariance == Spec => []IInv
BY InitInv, StepInv, PTL DEF Spec

\* However late the reactor reads what the main thread writes piece by piece: when it has
\* handled the last Begin and End it knows every kind of change of the last churn.
THEOREM LastFlags == Spec => []KnowsTheLastFlags
<1>1. IInv => KnowsTheLastFlags
  BY DEF IInv, Flagged
<1>. QED  BY <1>1, Invariance, PTL

-----------------------------------------------------------------------------
(* The windows (WindowTracking). *)

NoticeKinds == {"ServerAppeared", "ServerDestroyed", "Created", "Destroyed"}
Deaths == {"ServerDestroyed", "WindowDestroyed"}
Tellings == {"WindowCreated", "Discovered", "ApplicationLaunched"}
Farewells == [op : {"WindowDestroyed"}, window : Windows]
WindowEvents ==
  [op : {"ApplicationTerminated", "ApplicationThreadTerminated", "DisplayChurnBegin",
         "DisplayChurnEnd", "ScreenParametersChanged"}]
  \cup [op : {"ServerAppeared", "ServerDestroyed", "WindowCreated", "WindowDestroyed"},
        window : Windows]
  \cup [op : {"Discovered", "ApplicationLaunched"}, windows : SUBSET Windows]
Requests ==
  [op : {"GetVisibleWindows", "Terminate"}] \cup [op : {"WindowMaybeDestroyed"}, window : Windows]

\* The event tells the reactor that the window is there.
Tells(e, w) ==
  \/ e.op = "WindowCreated" /\ e.window = w
  \/ e.op \in {"Discovered", "ApplicationLaunched"} /\ w \in e.windows

EventIsBorn(e) ==
  /\ e.op \in {"ServerAppeared", "ServerDestroyed", "WindowCreated", "WindowDestroyed"} =>
       e.window \in born
  /\ e.op \in {"Discovered", "ApplicationLaunched"} => e.windows \subseteq born

TrackingTypeOK ==
  /\ Tracking!TypeOK /\ IsFiniteSet(born)
  /\ window_channel \in Seq(WindowEvents) /\ requests \in Seq(Requests)
  /\ notices \subseteq [kind : NoticeKinds, window : born]
  /\ \A i \in DOMAIN window_channel : EventIsBorn(window_channel[i])

\* Nothing announces the end of a window that is there.
DeadStayDead ==
  /\ \A i \in DOMAIN window_channel :
       window_channel[i].op \in Deaths => window_channel[i].window \notin alive
  /\ \A n \in notices : n.kind \in {"ServerDestroyed", "Destroyed"} => n.window \notin alive

\* Only the end of the application ends its thread.
OnlyAtTheEnd ==
  app # "ended" =>
    /\ \A i \in DOMAIN window_channel :
         window_channel[i].op \notin {"ApplicationTerminated", "ApplicationThreadTerminated"}
    /\ \A i \in DOMAIN requests : requests[i].op # "Terminate"
    /\ thread # "stopped"

\* The thread announces the application before it tells of windows.
LaunchedFirst ==
  app # "ended" =>
    /\ app = "none" => thread = "none" /\ born = {}
    /\ ~known => windows = {} /\ tracked = {}
    /\ thread # "up" =>
         ~known /\ \A i \in DOMAIN window_channel : window_channel[i].op \notin Tellings
    /\ thread = "up" =>
         known \/ \E i \in DOMAIN window_channel : window_channel[i].op = "ApplicationLaunched"
    /\ \A i \in DOMAIN window_channel : window_channel[i].op = "ApplicationLaunched" =>
         ~known /\ \A j \in DOMAIN window_channel : j < i => window_channel[j].op \notin Tellings

\* When the reactor comes to the i-th event it will be in a quarantine.
QuarantinedAt(i) ==
  \/ \E j \in DOMAIN window_channel :
       /\ j < i /\ window_channel[j].op = "DisplayChurnBegin"
       /\ \A k \in DOMAIN window_channel :
            j < k /\ k < i => window_channel[k].op # "ScreenParametersChanged"
  \/ /\ window_topology # "Stable"
     /\ \A k \in DOMAIN window_channel :
          k < i => window_channel[k].op # "ScreenParametersChanged"

Later(i, ops) == \E j \in DOMAIN window_channel : i < j /\ window_channel[j].op \in ops

\* A quarantine lasts while the displays change, and its end is on its way.
QuarantinesEnd ==
  /\ ACTIVE => QuarantinedAt(Len(window_channel) + 1)
  /\ \A i \in DOMAIN window_channel :
       /\ window_channel[i].op = "DisplayChurnEnd" => QuarantinedAt(i)
       /\ window_channel[i].op = "DisplayChurnBegin" => ACTIVE \/ Later(i, {"DisplayChurnEnd"})
       /\ window_channel[i].op = "DisplayChurnEnd" =>
            owed \/ Later(i, {"DisplayChurnBegin", "ScreenParametersChanged"})
  /\ window_topology = "Churning" => ACTIVE \/ Later(0, {"DisplayChurnEnd"})
  /\ window_topology = "Awaiting" =>
       owed \/ Later(0, {"DisplayChurnBegin", "ScreenParametersChanged"})

Told(w) == \E i \in DOMAIN window_channel : Tells(window_channel[i], w)
Asking == \E i \in DOMAIN requests : requests[i].op = "GetVisibleWindows"

\* A window that is there and not known will be told of, or asked for.
WindowsCome ==
  app = "running" /\ thread = "up" => \A w \in alive :
    \/ w \in windows /\ w \in tracked
    \/ Told(w)
    \/ known /\ window_topology # "Stable"
    \/ known /\ Asking
    \/ w \notin elements /\ Tracking!Note("Created", w) \in notices

\* After the i-th event the window server tells of the window's end, or the windows are
\* compared with those before a reconfiguration.
Mortal(w, i) ==
  \/ Tracking!Note("ServerDestroyed", w) \in notices
  \/ \E j \in DOMAIN window_channel :
       /\ i < j
       /\ \/ window_channel[j].op = "DisplayChurnBegin"
          \/ window_channel[j].op = "ServerDestroyed" /\ window_channel[j].window = w

Dying(w) ==
  \E i \in DOMAIN window_channel :
    window_channel[i].op = "WindowDestroyed" /\ window_channel[i].window = w

\* Before it is forgotten.
Compared ==
  /\ alive \cap windows \subseteq tracked
  /\ window_topology # "Stable" => windows \cap tracked \subseteq pre_known \cup late

Known(w) ==
  \/ w \in dropped \cup late
  \/ Dying(w)
  \/ w \in tracked /\ Mortal(w, 0)
  \/ w \in tracked /\ window_topology # "Stable" /\ w \in pre_known

\* What is told of a window that is gone is told before its end is, or not believed.
ToldInTime(i, w) ==
  /\ Mortal(w, i) \/ QuarantinedAt(i)
  /\ \A j \in DOMAIN window_channel :
       j < i => ~(window_channel[j].op \in Deaths /\ window_channel[j].window = w)

\* A window that is gone will be removed, unless it is one of the exceptions.
WindowsGo ==
  app = "running" =>
    /\ Compared
    /\ \A w \in windows \ alive : Known(w)
    /\ \A i \in DOMAIN window_channel, w \in born \ alive :
         Tells(window_channel[i], w) => ToldInTime(i, w)

TrackingInv ==
  /\ TrackingTypeOK /\ DeadStayDead /\ OnlyAtTheEnd /\ LaunchedFirst /\ QuarantinesEnd
  /\ WindowsCome /\ WindowsGo

-----------------------------------------------------------------------------
(* Sequences. *)

\* What is left of the channel when an event is handled and others are appended.
LEMMA TailThenAppended ==
  ASSUME NEW S, NEW c \in Seq(S), c # <<>>, NEW q \in Seq(S)
  PROVE  /\ Tail(c) \o q \in Seq(S) /\ Len(c) \in Nat \ {0}
         /\ DOMAIN c = 1..Len(c) /\ c[1] \in S
         /\ DOMAIN (Tail(c) \o q) = 1..(Len(c) - 1 + Len(q))
         /\ Len(Tail(c) \o q) = Len(c) - 1 + Len(q)
         /\ \A j \in DOMAIN c : j > 1 => /\ j - 1 \in DOMAIN (Tail(c) \o q)
                                         /\ (Tail(c) \o q)[j - 1] = c[j]
         /\ \A i \in DOMAIN (Tail(c) \o q) :
              \/ i + 1 \in DOMAIN c /\ (Tail(c) \o q)[i] = c[i + 1]
              \/ i >= Len(c) /\ \E k \in DOMAIN q : (Tail(c) \o q)[i] = q[k]
         /\ \A k \in DOMAIN q : /\ Len(c) - 1 + k \in DOMAIN (Tail(c) \o q)
                                /\ (Tail(c) \o q)[Len(c) - 1 + k] = q[k]
<1>1. /\ Len(c) \in Nat \ {0} /\ DOMAIN c = 1..Len(c) /\ c[1] \in S
      /\ Tail(c) \in Seq(S) /\ Len(Tail(c)) = Len(c) - 1
      /\ \A j \in 1..(Len(c) - 1) : Tail(c)[j] = c[j + 1]
  OBVIOUS
<1>2. Len(q) \in Nat /\ DOMAIN q = 1..Len(q)
  OBVIOUS
<1> DEFINE t == Tail(c)
<1>3. t \in Seq(S) /\ Len(t) = Len(c) - 1
  BY <1>1
<1>4. \A j \in 1..(Len(c) - 1) : t[j] = c[j + 1]
  BY <1>1
<1> HIDE DEF t
<1>5. /\ t \o q \in Seq(S) /\ Len(t \o q) = Len(t) + Len(q)
      /\ DOMAIN (t \o q) = 1..(Len(t) + Len(q))
      /\ \A i \in 1..Len(t) : (t \o q)[i] = t[i]
      /\ \A k \in 1..Len(q) : (t \o q)[Len(t) + k] = q[k]
  BY <1>3
<1>6. \A j \in DOMAIN c : j > 1 => j - 1 \in DOMAIN (t \o q) /\ (t \o q)[j - 1] = c[j]
  BY <1>1, <1>2, <1>3, <1>4, <1>5
<1>7. \A i \in DOMAIN (t \o q) :
        \/ i + 1 \in DOMAIN c /\ (t \o q)[i] = c[i + 1]
        \/ i >= Len(c) /\ \E k \in DOMAIN q : (t \o q)[i] = q[k]
  <2> SUFFICES ASSUME NEW i \in 1..(Len(c) - 1 + Len(q))
               PROVE  \/ i + 1 \in DOMAIN c /\ (t \o q)[i] = c[i + 1]
                      \/ i >= Len(c) /\ \E k \in DOMAIN q : (t \o q)[i] = q[k]
    BY <1>3, <1>5
  <2>1. CASE i <= Len(c) - 1
    <3>1. i \in 1..Len(t) /\ i \in 1..(Len(c) - 1) /\ i + 1 \in 1..Len(c)
      BY <2>1, <1>1, <1>2, <1>3
    <3>2. (t \o q)[i] = t[i] /\ t[i] = c[i + 1]
      BY <3>1, <1>4, <1>5
    <3> QED
      BY <3>1, <3>2, <1>1
  <2>2. CASE i > Len(c) - 1
    <3>1. PICK k \in 1..Len(q) : i = Len(t) + k
      <4>1. i - (Len(c) - 1) \in 1..Len(q) /\ i = Len(t) + (i - (Len(c) - 1))
        BY <2>2, <1>1, <1>2, <1>3
      <4> QED
        BY <4>1
    <3>2. (t \o q)[i] = q[k] /\ i >= Len(c)
      BY <3>1, <2>2, <1>1, <1>2, <1>5
    <3> QED
      BY <3>2, <1>2
  <2>3. i \in Int /\ Len(c) \in Int
    BY <1>1, <1>2
  <2>4. i <= Len(c) - 1 \/ i > Len(c) - 1
    BY <2>3
  <2> QED
    BY <2>1, <2>2, <2>4
<1>8. \A k \in DOMAIN q : Len(c) - 1 + k \in DOMAIN (t \o q) /\ (t \o q)[Len(c) - 1 + k] = q[k]
  BY <1>1, <1>2, <1>3, <1>5
<1> QED
  BY <1>1, <1>3, <1>5, <1>6, <1>7, <1>8 DEF t

\* What the channel is when events are appended.
LEMMA ThenAppended ==
  ASSUME NEW S, NEW c \in Seq(S), NEW q \in Seq(S)
  PROVE  /\ c \o q \in Seq(S) /\ Len(c) \in Nat /\ DOMAIN c = 1..Len(c)
         /\ Len(q) \in Nat /\ DOMAIN q = 1..Len(q)
         /\ Len(c \o q) = Len(c) + Len(q) /\ DOMAIN (c \o q) = 1..(Len(c) + Len(q))
         /\ \A j \in DOMAIN c : j \in DOMAIN (c \o q) /\ (c \o q)[j] = c[j]
         /\ \A i \in DOMAIN (c \o q) :
              i \in DOMAIN c \/ (i > Len(c) /\ \E k \in DOMAIN q : (c \o q)[i] = q[k])
         /\ \A k \in DOMAIN q : /\ Len(c) + k \in DOMAIN (c \o q)
                                /\ (c \o q)[Len(c) + k] = q[k]
<1>1. /\ Len(c) \in Nat /\ DOMAIN c = 1..Len(c) /\ Len(q) \in Nat /\ DOMAIN q = 1..Len(q)
      /\ c \o q \in Seq(S) /\ Len(c \o q) = Len(c) + Len(q)
      /\ DOMAIN (c \o q) = 1..(Len(c) + Len(q))
      /\ \A j \in 1..Len(c) : (c \o q)[j] = c[j]
      /\ \A k \in 1..Len(q) : (c \o q)[Len(c) + k] = q[k]
  OBVIOUS
<1>2. \A i \in DOMAIN (c \o q) :
        i \in DOMAIN c \/ (i > Len(c) /\ \E k \in DOMAIN q : (c \o q)[i] = q[k])
  <2> SUFFICES ASSUME NEW i \in 1..(Len(c) + Len(q)), ~(i <= Len(c))
               PROVE  i > Len(c) /\ \E k \in DOMAIN q : (c \o q)[i] = q[k]
    BY <1>1
  <2>1. i - Len(c) \in 1..Len(q) /\ i = Len(c) + (i - Len(c))
    BY <1>1
  <2> QED
    BY <2>1, <1>1
<1> QED
  BY <1>1, <1>2

\* A function on an initial segment is a sequence.
LEMMA FunctionIsSequence ==
  ASSUME NEW S, NEW n \in Nat, NEW f \in [1..n -> S]
  PROVE  f \in Seq(S)
OBVIOUS

\* SetToSeq lists a finite set.
LEMMA SetToSeqLists ==
  ASSUME NEW S, IsFiniteSet(S)
  PROVE  /\ Cardinality(S) \in Nat
         /\ \A i \in 1..Cardinality(S) : Tracking!SetToSeq(S)[i] \in S
         /\ \A w \in S : \E i \in 1..Cardinality(S) : Tracking!SetToSeq(S)[i] = w
<1>1. Cardinality(S) \in Nat /\ ExistsBijection(1..Cardinality(S), S)
  BY FS_CardinalityType
<1>2. \E f \in [1..Cardinality(S) -> S] : IsInjective(f)
  BY <1>1 DEF ExistsBijection, Bijection, Injection
<1> DEFINE s == CHOOSE f \in [1..Cardinality(S) -> S] : IsInjective(f)
<1>3. s \in [1..Cardinality(S) -> S] /\ IsInjective(s)
  BY <1>2
<1> HIDE DEF s
<1>4. IsFiniteSet(1..Cardinality(S)) /\ Cardinality(1..Cardinality(S)) = Cardinality(S)
  BY <1>1, FS_Interval
<1>5. s \in Surjection(1..Cardinality(S), S)
  BY <1>3, <1>4, FS_Injection DEF Injection
<1>6. \A w \in S : \E i \in 1..Cardinality(S) : s[i] = w
  BY <1>5 DEF Surjection
<1>7. Tracking!SetToSeq(S) = s
  BY DEF s, Tracking!SetToSeq, Tracking!Cardinality, Cardinality, Tracking!IsInjective, IsInjective
<1> QED
  BY <1>1, <1>3, <1>6, <1>7

-----------------------------------------------------------------------------
(* What the handlers of the reactor do to each part of the invariant. *)

\* The first event is taken, and ends of windows that are gone may be appended.
Shifts ==
  /\ window_channel' \in Seq(WindowEvents)
  /\ Len(window_channel) \in Nat \ {0} /\ DOMAIN window_channel = 1..Len(window_channel)
  /\ Len(window_channel') \in Nat /\ DOMAIN window_channel' = 1..Len(window_channel')
  /\ Len(window_channel') >= Len(window_channel) - 1
  /\ \A j \in DOMAIN window_channel : j > 1 =>
       j - 1 \in DOMAIN window_channel' /\ window_channel'[j - 1] = window_channel[j]
  /\ \A i \in DOMAIN window_channel' :
       \/ i + 1 \in DOMAIN window_channel /\ window_channel'[i] = window_channel[i + 1]
       \/ /\ i >= Len(window_channel) /\ window_channel'[i].op = "WindowDestroyed"
          /\ window_channel'[i].window \in born \ alive

Elsewhere == UNCHANGED <<app, alive, born, ACTIVE, owed, churns, notices, thread, elements>>

TopologyReacts(e) ==
  /\ e.op = "DisplayChurnBegin" => window_topology' = "Churning"
  /\ e.op = "DisplayChurnEnd" => window_topology' = "Awaiting"
  /\ e.op = "ScreenParametersChanged" =>
       window_topology' = IF window_topology = "Awaiting" THEN "Stable" ELSE window_topology
  /\ e.op \notin {"DisplayChurnBegin", "DisplayChurnEnd", "ScreenParametersChanged"} =>
       window_topology' = window_topology

RequestsReact(e) ==
  /\ requests' \in Seq(Requests) /\ (requests' # <<>> => thread = "up")
  /\ \A i \in DOMAIN requests : i \in DOMAIN requests' /\ requests'[i] = requests[i]
  /\ e.op # "ApplicationTerminated" =>
       \A i \in DOMAIN requests' : i \in DOMAIN requests \/ requests'[i].op # "Terminate"
  /\ e.op = "ScreenParametersChanged" /\ window_topology = "Awaiting" /\ known /\ thread = "up" =>
       Asking'

Believed(e, w) == Tells(e, w) /\ (window_topology = "Stable" \/ e.op = "ApplicationLaunched")

RegistryReacts(e) ==
  /\ known' \in BOOLEAN
  /\ windows' \subseteq born /\ tracked' \subseteq born /\ info' \subseteq born
  /\ observed' \subseteq born
  /\ e.op = "ApplicationLaunched" => known'
  /\ e.op \notin {"ApplicationLaunched", "ApplicationThreadTerminated"} => known' = known
  /\ \A w \in windows' : w \in windows \/ Believed(e, w)
  /\ \A w \in tracked' : w \in tracked \/ Believed(e, w)
  /\ \A w : Believed(e, w) => w \in windows' /\ w \in tracked'
  /\ e.op # "ApplicationThreadTerminated" =>
       /\ \A w \in windows \ windows' : e.op = "WindowDestroyed" /\ e.window = w
       /\ \A w \in tracked \ tracked' : w \notin alive /\ (w \notin windows' \/ Dying(w)')

MemoryReacts(e) ==
  /\ e.op = "DisplayChurnBegin" => tracked \subseteq pre_known'
  /\ e.op # "DisplayChurnBegin" => pre_known' = pre_known
  /\ late \subseteq late'
  /\ e.op = "ApplicationLaunched" /\ window_topology # "Stable" =>
       \A w \in e.windows : w \in windows \/ w \in late'
  /\ \A w \in dropped \ dropped' : Dying(w)'
  /\ e.op = "WindowDestroyed" =>
       IF window_topology = "Stable" THEN e.window \notin windows'
       ELSE \A w \in windows : e.window = w => w \in dropped'
  /\ e.op = "ServerDestroyed" /\ window_topology = "Stable" /\ e.window \in tracked =>
       Dying(e.window)'
  /\ e.op = "ScreenParametersChanged" /\ window_topology = "Awaiting" =>
       \A w \in tracked : w \in pre_known /\ w \notin alive => Dying(w)'

Reaction(e) ==
  Shifts /\ Elsewhere /\ TopologyReacts(e) /\ RequestsReact(e) /\ RegistryReacts(e) /\ MemoryReacts(e)

\* The ends of windows that a handler queues.
LEMMA AppendedShifts ==
  ASSUME TrackingInv, window_channel # <<>>,
         NEW q \in Seq(Farewells), \A k \in DOMAIN q : q[k].window \in born \ alive,
         window_channel' = Tail(window_channel) \o q
  PROVE  /\ Shifts
         /\ \A k \in DOMAIN q : \E i \in DOMAIN window_channel' : window_channel'[i] = q[k]
<1> DEFINE c == window_channel
           d == Tail(c) \o q
<1>1. c \in Seq(WindowEvents) /\ c # <<>>
  BY DEF TrackingInv, TrackingTypeOK
<1>2. q \in Seq(WindowEvents)
  <2>1. Farewells \subseteq WindowEvents
    BY DEF WindowEvents, Farewells
  <2> QED
    BY <2>1
<1> HIDE DEF c
<1>3. /\ d \in Seq(WindowEvents) /\ Len(c) \in Nat \ {0} /\ DOMAIN c = 1..Len(c)
      /\ DOMAIN d = 1..(Len(c) - 1 + Len(q)) /\ Len(d) = Len(c) - 1 + Len(q)
      /\ \A j \in DOMAIN c : j > 1 => j - 1 \in DOMAIN d /\ d[j - 1] = c[j]
      /\ \A i \in DOMAIN d : \/ i + 1 \in DOMAIN c /\ d[i] = c[i + 1]
                             \/ i >= Len(c) /\ \E k \in DOMAIN q : d[i] = q[k]
      /\ \A k \in DOMAIN q : Len(c) - 1 + k \in DOMAIN d /\ d[Len(c) - 1 + k] = q[k]
  BY <1>1, <1>2, TailThenAppended
<1>4. Len(q) \in Nat /\ \A k \in DOMAIN q : q[k].op = "WindowDestroyed"
  <2>1. Len(q) \in Nat /\ \A k \in DOMAIN q : q[k] \in Farewells
    OBVIOUS
  <2> QED
    BY <2>1 DEF Farewells
<1> HIDE DEF d
<1>5. \A i \in DOMAIN d :
         \/ i + 1 \in DOMAIN c /\ d[i] = c[i + 1]
         \/ i >= Len(c) /\ d[i].op = "WindowDestroyed" /\ d[i].window \in born \ alive
  BY <1>3, <1>4
<1>6. window_channel' = d /\ window_channel = c
  BY DEF c, d
<1>7. \A k \in DOMAIN q : \E i \in DOMAIN d : d[i] = q[k]
  BY <1>3
<1>8. Len(d) \in Nat /\ DOMAIN d = 1..Len(d) /\ Len(d) >= Len(c) - 1
  BY <1>3, <1>4
<1>9. Shifts
  BY <1>3, <1>5, <1>6, <1>8 DEF Shifts
<1> QED
  BY <1>6, <1>7, <1>9

\* A handler that queues nothing.
LEMMA PlainShifts ==
  ASSUME TrackingInv, window_channel # <<>>, window_channel' = Tail(window_channel)
  PROVE  Shifts
<1>1. window_channel' = Tail(window_channel) \o << >>
  <2>1. Tail(window_channel) \in Seq(WindowEvents)
    BY DEF TrackingInv, TrackingTypeOK
  <2> QED
    BY <2>1
<1>2. << >> \in Seq(Farewells) /\ \A k \in DOMAIN << >> : << >>[k].window \in born \ alive
  OBVIOUS
<1> QED
  BY <1>1, <1>2, AppendedShifts

\* The requests that a handler makes.
LEMMA AskedRequests ==
  ASSUME TrackingInv, NEW q \in Seq(Requests), requests' = Tracking!Asked(known, q)
  PROVE  /\ requests' \in Seq(Requests) /\ (requests' # <<>> => thread = "up")
         /\ \A i \in DOMAIN requests : i \in DOMAIN requests' /\ requests'[i] = requests[i]
         /\ \A i \in DOMAIN requests' : i \in DOMAIN requests \/ \E k \in DOMAIN q : requests'[i] = q[k]
         /\ known /\ thread = "up" =>
              \A k \in DOMAIN q : \E i \in DOMAIN requests' : requests'[i] = q[k]
<1>1. requests \in Seq(Requests) /\ (requests # <<>> => thread = "up")
  BY DEF TrackingInv, TrackingTypeOK, Tracking!TypeOK
<1>2. CASE known /\ thread = "up"
  <2>1. requests' = requests \o q
    BY <1>2 DEF Tracking!Asked
  <2> DEFINE r == requests \o q
  <2>2. /\ r \in Seq(Requests)
        /\ \A j \in DOMAIN requests : j \in DOMAIN r /\ r[j] = requests[j]
        /\ \A i \in DOMAIN r : i \in DOMAIN requests
                               \/ (i > Len(requests) /\ \E k \in DOMAIN q : r[i] = q[k])
        /\ \A k \in DOMAIN q : Len(requests) + k \in DOMAIN r /\ r[Len(requests) + k] = q[k]
    BY <1>1, ThenAppended
  <2>3. requests' = r
    BY <2>1
  <2> HIDE DEF r
  <2> QED
    BY <1>2, <2>2, <2>3
<1>3. CASE ~(known /\ thread = "up")
  <2>1. requests' = requests
    BY <1>3 DEF Tracking!Asked
  <2> QED
    BY <1>1, <1>3, <2>1
<1> QED
  BY <1>2, <1>3

\* The lists of the windows that a commit takes for gone.
LEMMA ListsOfTheGone ==
  ASSUME TrackingInv, NEW S \in SUBSET born
  PROVE  /\ Tracking!Destroyed(S) \in Seq(Farewells)
         /\ \A k \in DOMAIN Tracking!Destroyed(S) : Tracking!Destroyed(S)[k].window \in S
         /\ \A w \in S : \E k \in DOMAIN Tracking!Destroyed(S) :
              Tracking!Destroyed(S)[k] = [op |-> "WindowDestroyed", window |-> w]
         /\ Tracking!MaybeDestroyed(S) \in Seq(Requests)
         /\ \A k \in DOMAIN Tracking!MaybeDestroyed(S) :
              Tracking!MaybeDestroyed(S)[k].op = "WindowMaybeDestroyed"
<1>1. IsFiniteSet(S) /\ S \subseteq Windows
  <2>1. IsFiniteSet(born) /\ born \subseteq Windows
    BY DEF TrackingInv, TrackingTypeOK, Tracking!TypeOK
  <2> QED
    BY <2>1, FS_Subset
<1>2. PICK n \in Nat : n = Cardinality(S)
  BY <1>1, SetToSeqLists
<1>3. PICK s : s = Tracking!SetToSeq(S)
  OBVIOUS
<1>4. (\A i \in 1..n : s[i] \in S) /\ \A w \in S : \E i \in 1..n : s[i] = w
  BY <1>1, <1>2, <1>3, SetToSeqLists
<1>5. Tracking!Cardinality(S) = n
  BY <1>2 DEF Tracking!Cardinality, Cardinality
<1>6. Tracking!Destroyed(S) = [i \in 1..n |-> [op |-> "WindowDestroyed", window |-> s[i]]]
  BY <1>3, <1>5 DEF Tracking!Destroyed, Tracking!About
<1>7. Tracking!MaybeDestroyed(S) = [i \in 1..n |-> [op |-> "WindowMaybeDestroyed", window |-> s[i]]]
  BY <1>3, <1>5 DEF Tracking!MaybeDestroyed, Tracking!About
<1>8. \A i \in 1..n : /\ [op |-> "WindowDestroyed", window |-> s[i]] \in Farewells
                      /\ [op |-> "WindowMaybeDestroyed", window |-> s[i]] \in Requests
  BY <1>1, <1>4 DEF Farewells, Requests
<1>9. Tracking!Destroyed(S) \in Seq(Farewells)
  <2>1. Tracking!Destroyed(S) \in [1..n -> Farewells]
    BY <1>6, <1>8
  <2> QED
    BY <2>1, FunctionIsSequence
<1>10. Tracking!MaybeDestroyed(S) \in Seq(Requests)
  <2>1. Tracking!MaybeDestroyed(S) \in [1..n -> Requests]
    BY <1>7, <1>8
  <2> QED
    BY <2>1, FunctionIsSequence
<1>11. \A w \in S : \E k \in DOMAIN Tracking!Destroyed(S) :
         Tracking!Destroyed(S)[k] = [op |-> "WindowDestroyed", window |-> w]
  BY <1>4, <1>6
<1> QED
  BY <1>4, <1>6, <1>7, <1>9, <1>10, <1>11

\* A handler that makes no requests.
LEMMA NoRequests ==
  ASSUME TrackingInv, requests' = requests, NEW e,
         ~(e.op = "ScreenParametersChanged" /\ window_topology = "Awaiting")
  PROVE  RequestsReact(e)
BY DEF RequestsReact, TrackingInv, TrackingTypeOK, Tracking!TypeOK

\* A handler that leaves the registry alone.
LEMMA NothingLearned ==
  ASSUME TrackingInv, UNCHANGED <<known, windows, tracked, info, observed>>, NEW e,
         e.op # "ApplicationLaunched", \A w : ~Believed(e, w)
  PROVE  RegistryReacts(e)
<1>1. known \in BOOLEAN /\ windows \subseteq born /\ tracked \subseteq born /\ info \subseteq born
      /\ observed \subseteq born
  BY DEF TrackingInv, TrackingTypeOK, Tracking!TypeOK
<1>2. known' \in BOOLEAN
  BY <1>1
<1>3. windows' \subseteq born /\ tracked' \subseteq born /\ info' \subseteq born
      /\ observed' \subseteq born
  BY <1>1
<1> HIDE DEF Believed
<1> QED
  BY <1>2, <1>3 DEF RegistryReacts

\* An event that is dropped.
LEMMA DropReacts ==
  ASSUME TrackingInv, NEW e, e = window_channel[1], window_channel # <<>>, Elsewhere,
         window_topology # "Stable", e.op \in Tracking!Quarantined, Tracking!Drop(e)
  PROVE  Reaction(e)
<1>1. /\ window_channel' = Tail(window_channel)
      /\ UNCHANGED <<known, windows, tracked, info, observed, requests, window_topology,
                     pre_known, late>>
      /\ dropped' = IF e.op = "WindowDestroyed" THEN dropped \cup ({e.window} \cap windows)
                    ELSE dropped
  BY DEF Tracking!Drop, Tracking!Rest, Tracking!registryVars
<1>2. e.op \in {"ServerAppeared", "ServerDestroyed", "WindowCreated", "WindowDestroyed", "Discovered"}
  BY DEF Tracking!Quarantined
<1>3. Shifts
  BY <1>1, PlainShifts
<1>4. TopologyReacts(e)
  BY <1>1, <1>2 DEF TopologyReacts
<1>5. RequestsReact(e)
  BY <1>1, <1>2, NoRequests
<1>6. RegistryReacts(e)
  <2>1. \A w : ~Believed(e, w)
    BY <1>2 DEF Believed
  <2> QED
    BY <1>1, <1>2, <2>1, NothingLearned
<1>7. MemoryReacts(e)
  BY <1>1, <1>2 DEF MemoryReacts
<1> QED
  BY <1>3, <1>4, <1>5, <1>6, <1>7 DEF Reaction

\* A window of the window server.
LEMMA AppearedReacts ==
  ASSUME TrackingInv, NEW e, e = window_channel[1], window_channel # <<>>, Elsewhere,
         e.op = "ServerAppeared", Tracking!HandleAppeared(e.window)
  PROVE  Reaction(e)
<1>1. /\ window_channel' = Tail(window_channel)
      /\ UNCHANGED <<known, windows, tracked, window_topology, pre_known, dropped, late>>
      /\ info' \subseteq info \cup {e.window} /\ observed' \subseteq observed \cup {e.window}
  BY DEF Tracking!HandleAppeared, Tracking!Rest
<1>2. Shifts
  BY <1>1, PlainShifts
<1>3. TopologyReacts(e)
  BY <1>1 DEF TopologyReacts
<1>4. RequestsReact(e)
  <2>1. CASE requests' = requests
    BY <2>1, NoRequests
  <2>2. CASE requests' = Tracking!Asked(known, Tracking!Refresh)
    <3>1. PICK q : q = Tracking!Refresh
      OBVIOUS
    <3>2. q = <<[op |-> "GetVisibleWindows"]>>
      BY <3>1 DEF Tracking!Refresh, Tracking!Event
    <3>3. q \in Seq(Requests) /\ \A k \in DOMAIN q : q[k].op # "Terminate"
      BY <3>2 DEF Requests
    <3>4. requests' = Tracking!Asked(known, q)
      BY <2>2, <3>1
    <3> QED
      BY <3>3, <3>4, AskedRequests DEF RequestsReact
  <2> QED
    BY <2>1, <2>2 DEF Tracking!HandleAppeared
<1>5. RegistryReacts(e)
  <2>1. e.window \in born
    <3>1. 1 \in DOMAIN window_channel
      BY <1>2 DEF Shifts
    <3> QED
      BY <3>1 DEF TrackingInv, TrackingTypeOK, EventIsBorn
  <2>2. known \in BOOLEAN /\ windows \subseteq born /\ tracked \subseteq born /\ info \subseteq born
        /\ observed \subseteq born
    BY DEF TrackingInv, TrackingTypeOK, Tracking!TypeOK
  <2>3. \A w : ~Believed(e, w)
    BY DEF Believed, Tells
  <2>4. known' \in BOOLEAN
    BY <1>1, <2>2
  <2>5. info' \subseteq born /\ observed' \subseteq born
    BY <1>1, <2>1, <2>2
  <2> HIDE DEF Believed
  <2> QED
    BY <1>1, <2>2, <2>3, <2>4, <2>5 DEF RegistryReacts
<1>6. MemoryReacts(e)
  BY <1>1 DEF MemoryReacts
<1> QED
  BY <1>2, <1>3, <1>4, <1>5, <1>6 DEF Reaction

\* The window server's end of a window: the window's own end is queued.
LEMMA ServerDestroyedReacts ==
  ASSUME TrackingInv, NEW e, e = window_channel[1], window_channel # <<>>, Elsewhere,
         e.op = "ServerDestroyed", Tracking!HandleServerDestroyed(e.window)
  PROVE  Reaction(e)
<1>0. 1 \in DOMAIN window_channel
  BY DEF TrackingInv, TrackingTypeOK
<1>1. e.window \in born \ alive
  BY <1>0 DEF TrackingInv, TrackingTypeOK, EventIsBorn, DeadStayDead, Deaths
<1>2. /\ UNCHANGED <<known, windows, window_topology, pre_known, dropped, late>>
      /\ tracked' = tracked \ {e.window} /\ info' = info \ {e.window}
      /\ observed' = observed \ {e.window}
  BY DEF Tracking!HandleServerDestroyed, Tracking!Forget
<1>3. e.window \in Windows
  BY <1>1 DEF TrackingInv, TrackingTypeOK, Tracking!TypeOK
<1>4. Shifts /\ (e.window \in tracked => Dying(e.window)')
  <2>1. CASE e.window \in tracked
    <3>1. PICK f : f = [op |-> "WindowDestroyed", window |-> e.window]
      OBVIOUS
    <3>2. PICK q : q = <<f>>
      OBVIOUS
    <3>3. q \in Seq(Farewells) /\ (\A k \in DOMAIN q : q[k].window \in born \ alive)
          /\ 1 \in DOMAIN q /\ q[1] = f
      BY <1>1, <1>3, <3>1, <3>2 DEF Farewells
    <3>4. window_channel' = Tail(window_channel) \o q
      <4>1. window_channel' = Append(Tail(window_channel), f)
        BY <2>1, <3>1 DEF Tracking!HandleServerDestroyed, Tracking!Rest, Tracking!About
      <4>2. Tail(window_channel) \in Seq(WindowEvents)
        BY DEF TrackingInv, TrackingTypeOK
      <4>3. f \in WindowEvents
        BY <1>3, <3>1 DEF WindowEvents
      <4>4. PICK t \in Seq(WindowEvents) : t = Tail(window_channel)
        BY <4>2
      <4>5. Append(t, f) = t \o <<f>>
        BY <4>3
      <4> QED
        BY <3>2, <4>1, <4>4, <4>5
    <3>5. Shifts /\ \A k \in DOMAIN q : \E i \in DOMAIN window_channel' : window_channel'[i] = q[k]
      BY <3>3, <3>4, AppendedShifts
    <3>6. \E i \in DOMAIN window_channel' : window_channel'[i] = f
      BY <3>3, <3>5
    <3> QED
      BY <3>1, <3>5, <3>6 DEF Dying
  <2>2. CASE e.window \notin tracked
    <3>1. window_channel' = Tail(window_channel)
      BY <2>2 DEF Tracking!HandleServerDestroyed, Tracking!Rest
    <3> QED
      BY <2>2, <3>1, PlainShifts
  <2> QED
    BY <2>1, <2>2
<1>5. TopologyReacts(e)
  BY <1>2 DEF TopologyReacts
<1>6. RequestsReact(e)
  <2>1. CASE requests' = requests
    BY <2>1, NoRequests
  <2>2. CASE requests' = Tracking!Asked(known, Tracking!MaybeDestroyed({e.window}))
    <3>1. PICK q : q = Tracking!MaybeDestroyed({e.window})
      OBVIOUS
    <3>2. q \in Seq(Requests) /\ \A k \in DOMAIN q : q[k].op # "Terminate"
      BY <1>1, <3>1, ListsOfTheGone
    <3>3. requests' = Tracking!Asked(known, q)
      BY <2>2, <3>1
    <3> QED
      BY <3>2, <3>3, AskedRequests DEF RequestsReact
  <2> QED
    BY <2>1, <2>2 DEF Tracking!HandleServerDestroyed
<1>7. RegistryReacts(e)
  <2>1. known \in BOOLEAN /\ windows \subseteq born /\ tracked \subseteq born /\ info \subseteq born
        /\ observed \subseteq born
    BY DEF TrackingInv, TrackingTypeOK, Tracking!TypeOK
  <2>2. \A w : ~Believed(e, w)
    BY DEF Believed, Tells
  <2>3. known' \in BOOLEAN
    BY <1>2, <2>1
  <2> HIDE DEF Believed, Dying
  <2> QED
    BY <1>1, <1>2, <1>4, <2>1, <2>2, <2>3 DEF RegistryReacts
<1>8. MemoryReacts(e)
  BY <1>2, <1>4 DEF MemoryReacts
<1> QED
  BY <1>4, <1>5, <1>6, <1>7, <1>8 DEF Reaction

\* A window's own end.
LEMMA DestroyedReacts ==
  ASSUME TrackingInv, NEW e, e = window_channel[1], window_channel # <<>>, Elsewhere,
         window_topology = "Stable", e.op = "WindowDestroyed", Tracking!HandleDestroyed(e.window)
  PROVE  Reaction(e)
<1>0. 1 \in DOMAIN window_channel
  BY DEF TrackingInv, TrackingTypeOK
<1>1. e.window \in born \ alive
  BY <1>0 DEF TrackingInv, TrackingTypeOK, EventIsBorn, DeadStayDead, Deaths
<1>2. /\ window_channel' = Tail(window_channel)
      /\ UNCHANGED <<known, requests, window_topology, pre_known, dropped, late>>
      /\ windows' = windows \ {e.window}
      /\ tracked' \subseteq tracked /\ tracked \ {e.window} \subseteq tracked'
      /\ info' \subseteq info /\ observed' \subseteq observed
  BY DEF Tracking!HandleDestroyed, Tracking!Forget, Tracking!Rest
<1>3. Shifts
  BY <1>2, PlainShifts
<1>4. TopologyReacts(e) /\ RequestsReact(e)
  BY <1>2, NoRequests DEF TopologyReacts
<1>5. RegistryReacts(e)
  <2>1. known \in BOOLEAN /\ windows \subseteq born /\ tracked \subseteq born /\ info \subseteq born
        /\ observed \subseteq born
    BY DEF TrackingInv, TrackingTypeOK, Tracking!TypeOK
  <2>2. \A w : ~Believed(e, w)
    BY DEF Believed, Tells
  <2>3. known' \in BOOLEAN
    BY <1>2, <2>1
  <2> HIDE DEF Believed
  <2> QED
    BY <1>1, <1>2, <2>1, <2>2, <2>3 DEF RegistryReacts
<1>6. MemoryReacts(e)
  BY <1>2 DEF MemoryReacts
<1> QED
  BY <1>3, <1>4, <1>5, <1>6 DEF Reaction

\* Windows that the application created or listed.
LEMMA LearnReacts ==
  ASSUME TrackingInv, NEW e, e = window_channel[1], window_channel # <<>>, Elsewhere,
         NEW S, \A w : w \in S <=> Tells(e, w), NEW seen \in SUBSET S,
         e.op \in {"WindowCreated", "Discovered", "ApplicationLaunched"},
         e.op # "ApplicationLaunched" => window_topology = "Stable" /\ known' = known,
         e.op = "ApplicationLaunched" => known' = TRUE,
         Tracking!Learn(S, seen, e.op = "ApplicationLaunched" /\ window_topology # "Stable"),
         window_channel' = Tail(window_channel),
         UNCHANGED <<requests, window_topology, pre_known, dropped>>
  PROVE  Reaction(e)
<1>0. 1 \in DOMAIN window_channel
  BY DEF TrackingInv, TrackingTypeOK
<1>1. S \subseteq born
  BY <1>0 DEF TrackingInv, TrackingTypeOK, EventIsBorn, Tells
<1>2. /\ windows' = windows \cup S /\ tracked' = tracked \cup S
      /\ info' = info \cup seen /\ observed' = observed \ seen
      /\ late \subseteq late'
      /\ e.op = "ApplicationLaunched" /\ window_topology # "Stable" => late' = late \cup (S \ windows)
  BY DEF Tracking!Learn
<1>3. Shifts
  BY PlainShifts
<1>4. TopologyReacts(e) /\ RequestsReact(e)
  BY NoRequests DEF TopologyReacts
<1>5. \A w : Believed(e, w) <=> w \in S
  BY DEF Believed
<1>6. RegistryReacts(e)
  <2>1. known \in BOOLEAN /\ windows \subseteq born /\ tracked \subseteq born /\ info \subseteq born
        /\ observed \subseteq born
    BY DEF TrackingInv, TrackingTypeOK, Tracking!TypeOK
  <2>2. known' \in BOOLEAN
    BY <2>1
  <2> HIDE DEF Believed
  <2> QED
    BY <1>1, <1>2, <1>5, <2>1, <2>2 DEF RegistryReacts
<1>7. MemoryReacts(e)
  <2>1. e.op = "ApplicationLaunched" /\ window_topology # "Stable" =>
          \A w \in e.windows : w \in windows \/ w \in late'
    BY <1>2 DEF Tells
  <2> QED
    BY <1>2, <2>1 DEF MemoryReacts
<1> QED
  BY <1>3, <1>4, <1>6, <1>7 DEF Reaction

\* The end of the application, from the workspace or from its thread.
LEMMA EndReacts ==
  ASSUME TrackingInv, NEW e, e = window_channel[1], window_channel # <<>>, Elsewhere,
         \/ e.op = "ApplicationTerminated" /\ Tracking!HandleTerminated
         \/ e.op = "ApplicationThreadTerminated" /\ Tracking!HandleThreadTerminated
  PROVE  Reaction(e)
<1>1. /\ window_channel' = Tail(window_channel)
      /\ UNCHANGED <<window_topology, pre_known, dropped, late>>
      /\ e.op \in {"ApplicationTerminated", "ApplicationThreadTerminated"}
  BY DEF Tracking!HandleTerminated, Tracking!HandleThreadTerminated, Tracking!Rest
<1>2. Shifts
  BY <1>1, PlainShifts
<1>3. TopologyReacts(e)
  BY <1>1 DEF TopologyReacts
<1>4. RequestsReact(e)
  <2>1. CASE requests' = requests
    BY <1>1, <2>1, NoRequests
  <2>2. CASE requests' = Tracking!Asked(known, <<[op |-> "Terminate"]>>)
             /\ e.op = "ApplicationTerminated"
    <3>1. PICK q : q = <<[op |-> "Terminate"]>>
      OBVIOUS
    <3>2. q \in Seq(Requests)
      BY <3>1 DEF Requests
    <3>3. requests' = Tracking!Asked(known, q)
      BY <2>2, <3>1
    <3> QED
      BY <2>2, <3>2, <3>3, AskedRequests DEF RequestsReact
  <2> QED
    BY <1>1, <2>1, <2>2 DEF Tracking!HandleTerminated, Tracking!HandleThreadTerminated, Tracking!Event
<1>5. RegistryReacts(e)
  <2>1. known \in BOOLEAN /\ windows \subseteq born /\ tracked \subseteq born /\ info \subseteq born
        /\ observed \subseteq born
    BY DEF TrackingInv, TrackingTypeOK, Tracking!TypeOK
  <2>2. \A w : ~Believed(e, w)
    BY <1>1 DEF Believed, Tells
  <2>3. CASE e.op = "ApplicationTerminated"
    <3>1. UNCHANGED <<known, windows, tracked, info, observed>>
      BY <2>3 DEF Tracking!HandleTerminated, Tracking!registryVars
    <3> QED
      BY <2>2, <2>3, <3>1, NothingLearned
  <2>4. CASE e.op = "ApplicationThreadTerminated"
    <3>1. /\ known' = FALSE /\ windows' = {} /\ tracked' = tracked \ windows
          /\ info' = info \ windows /\ observed' = observed \ windows
      BY <2>4 DEF Tracking!HandleThreadTerminated, Tracking!Forget
    <3>2. known' \in BOOLEAN
      BY <3>1
    <3> HIDE DEF Believed
    <3> QED
      BY <2>1, <2>2, <2>4, <3>1, <3>2 DEF RegistryReacts
  <2> QED
    BY <1>1, <2>3, <2>4
<1>6. MemoryReacts(e)
  BY <1>1 DEF MemoryReacts
<1> QED
  BY <1>2, <1>3, <1>4, <1>5, <1>6 DEF Reaction

\* A reconfiguration begins or ends.
LEMMA ChurnReacts ==
  ASSUME TrackingInv, NEW e, e = window_channel[1], window_channel # <<>>, Elsewhere,
         \/ e.op = "DisplayChurnBegin" /\ Tracking!HandleBegin
         \/ e.op = "DisplayChurnEnd" /\ Tracking!HandleEnd
  PROVE  Reaction(e)
<1>1. /\ window_channel' = Tail(window_channel)
      /\ UNCHANGED <<known, windows, tracked, info, observed, requests, dropped, late>>
      /\ e.op \in {"DisplayChurnBegin", "DisplayChurnEnd"}
  BY DEF Tracking!HandleBegin, Tracking!HandleEnd, Tracking!Rest, Tracking!registryVars
<1>2. Shifts
  BY <1>1, PlainShifts
<1>3. TopologyReacts(e)
  BY <1>1 DEF TopologyReacts, Tracking!HandleBegin, Tracking!HandleEnd
<1>4. RequestsReact(e)
  BY <1>1, NoRequests
<1>5. RegistryReacts(e)
  <2>1. \A w : ~Believed(e, w)
    BY <1>1 DEF Believed, Tells
  <2> QED
    BY <1>1, <2>1, NothingLearned
<1>6. MemoryReacts(e)
  BY <1>1 DEF MemoryReacts, Tracking!HandleBegin, Tracking!HandleEnd
<1> QED
  BY <1>2, <1>3, <1>4, <1>5, <1>6 DEF Reaction

\* A snapshot of the displays, with which a quarantine may end.
LEMMA SnapshotReacts ==
  ASSUME TrackingInv, NEW e, e = window_channel[1], window_channel # <<>>, Elsewhere,
         e.op = "ScreenParametersChanged", NEW moved \in BOOLEAN, Tracking!HandleSnapshot(moved)
  PROVE  Reaction(e)
<1>0. /\ known \in BOOLEAN /\ windows \subseteq born /\ tracked \subseteq born
      /\ info \subseteq born /\ observed \subseteq born /\ alive \subseteq born
  BY DEF TrackingInv, TrackingTypeOK, Tracking!TypeOK
<1>1. PICK gone : gone = (IF window_topology = "Awaiting" THEN pre_known \ alive ELSE {}) \cap tracked
  OBVIOUS
<1>2. gone \in SUBSET born /\ \A w \in gone : w \in born \ alive
  BY <1>0, <1>1
<1>3. PICK q : q = Tracking!Destroyed(gone)
  OBVIOUS
<1>4. /\ q \in Seq(Farewells) /\ \A k \in DOMAIN q : q[k].window \in born \ alive
      /\ \A w \in gone : \E k \in DOMAIN q : q[k] = [op |-> "WindowDestroyed", window |-> w]
  BY <1>2, <1>3, ListsOfTheGone
<1>5. window_channel' = Tail(window_channel) \o q
  BY <1>1, <1>3 DEF Tracking!HandleSnapshot, Tracking!Rest, Tracking!Disappeared
<1>6. Shifts /\ \A k \in DOMAIN q : \E i \in DOMAIN window_channel' : window_channel'[i] = q[k]
  BY <1>4, <1>5, AppendedShifts
<1>7. \A w \in gone : Dying(w)'
  <2> SUFFICES ASSUME NEW w \in gone
               PROVE  \E i \in DOMAIN window_channel' :
                        window_channel'[i].op = "WindowDestroyed" /\ window_channel'[i].window = w
    BY DEF Dying
  <2>1. \E i \in DOMAIN window_channel' : window_channel'[i] = [op |-> "WindowDestroyed", window |-> w]
    BY <1>4, <1>6
  <2> QED
    BY <2>1
<1>8. /\ window_topology' = IF window_topology = "Awaiting" THEN "Stable" ELSE window_topology
      /\ UNCHANGED <<known, windows, pre_known, late>>
      /\ tracked' \subseteq tracked /\ tracked \ tracked' = gone
      /\ info' \subseteq info \cup alive /\ observed' \subseteq observed
      /\ dropped' = dropped \ gone
  BY <1>1 DEF Tracking!HandleSnapshot, Tracking!Disappeared
<1>9. TopologyReacts(e)
  BY <1>8 DEF TopologyReacts
<1>10. RequestsReact(e)
  <2>1. PICK first, later :
          /\ first = IF moved THEN << >> ELSE Tracking!Refresh
          /\ later = IF window_topology = "Awaiting" THEN Tracking!CommitRequests(gone)
                     ELSE IF window_topology = "Stable" /\ moved THEN Tracking!Refresh ELSE << >>
    OBVIOUS
  <2>2. requests' = Tracking!Asked(known, first \o later)
    <3>1. requests' = Tracking!Asked(known,
            (IF moved THEN << >> ELSE Tracking!Refresh) \o
            (IF window_topology = "Awaiting" \/ window_topology = "Stable"
             THEN IF window_topology = "Awaiting" THEN Tracking!CommitRequests(gone)
                  ELSE IF moved THEN Tracking!Refresh ELSE << >>
             ELSE << >>))
      BY <1>1 DEF Tracking!HandleSnapshot, Tracking!Disappeared
    <3>2. CASE window_topology = "Awaiting"
      BY <2>1, <3>1, <3>2
    <3>3. CASE window_topology = "Stable"
      BY <2>1, <3>1, <3>3
    <3>4. CASE window_topology \notin {"Awaiting", "Stable"}
      BY <2>1, <3>1, <3>4
    <3> QED
      BY <3>2, <3>3, <3>4
  <2>3. PICK r : r = Tracking!Refresh
    OBVIOUS
  <2>4. r \in Seq(Requests) /\ Len(r) = 1 /\ r[1].op = "GetVisibleWindows" /\ DOMAIN r = {1}
    BY <2>3 DEF Tracking!Refresh, Tracking!Event, Requests
  <2>5. PICK m : m = Tracking!MaybeDestroyed(gone)
    OBVIOUS
  <2>6. m \in Seq(Requests) /\ \A k \in DOMAIN m : m[k].op = "WindowMaybeDestroyed"
    BY <1>2, <2>5, ListsOfTheGone
  <2>0. PICK none : none = << >>
    OBVIOUS
  <2>7. first \in Seq(Requests) /\ \A k \in DOMAIN first : first[k].op # "Terminate"
    <3>0. none \in Seq(Requests) /\ \A k \in DOMAIN none : none[k].op # "Terminate"
      BY <2>0
    <3>1. CASE moved
      <4>1. first = none
        BY <2>0, <2>1, <3>1
      <4> QED
        BY <3>0, <4>1
    <3>2. CASE ~moved
      <4>1. first = r
        BY <2>1, <2>3, <3>2
      <4> QED
        BY <2>4, <4>1
    <3> QED
      BY <3>1, <3>2
  <2>8. PICK mr : mr = m \o r
    OBVIOUS
  <2>9. mr \in Seq(Requests) /\ (\A k \in DOMAIN mr : mr[k].op # "Terminate")
        /\ \E k \in DOMAIN mr : mr[k].op = "GetVisibleWindows"
    <3>0. /\ m \o r \in Seq(Requests)
          /\ \A j \in DOMAIN m : j \in DOMAIN (m \o r) /\ (m \o r)[j] = m[j]
          /\ \A i \in DOMAIN (m \o r) :
               i \in DOMAIN m \/ (i > Len(m) /\ \E k \in DOMAIN r : (m \o r)[i] = r[k])
          /\ \A k \in DOMAIN r : /\ Len(m) + k \in DOMAIN (m \o r)
                                 /\ (m \o r)[Len(m) + k] = r[k]
      BY <2>4, <2>6, ThenAppended
    <3>1. /\ mr \in Seq(Requests)
          /\ \A i \in DOMAIN mr : (i \in DOMAIN m /\ mr[i] = m[i]) \/ \E k \in DOMAIN r : mr[i] = r[k]
          /\ \A k \in DOMAIN r : \E i \in DOMAIN mr : mr[i] = r[k]
      BY <3>0, <2>8, Zenon
    <3> QED
      BY <2>4, <2>6, <3>1
  <2>10. later \in Seq(Requests) /\ (\A k \in DOMAIN later : later[k].op # "Terminate")
         /\ (window_topology = "Awaiting" => \E k \in DOMAIN later : later[k].op = "GetVisibleWindows")
    <3>1. CASE window_topology = "Awaiting"
      <4>1. later = mr
        BY <2>1, <2>3, <2>5, <2>8, <3>1 DEF Tracking!CommitRequests
      <4> QED
        BY <2>9, <4>1
    <3>2. CASE window_topology = "Stable" /\ moved
      <4>1. later = r
        BY <2>1, <2>3, <3>2
      <4> QED
        BY <2>4, <3>2, <4>1
    <3>3. CASE window_topology # "Awaiting" /\ ~(window_topology = "Stable" /\ moved)
      <4>1. later = none
        BY <2>0, <2>1, <3>3
      <4>2. none \in Seq(Requests) /\ \A k \in DOMAIN none : none[k].op # "Terminate"
        BY <2>0
      <4> QED
        BY <3>3, <4>1, <4>2
    <3> QED
      BY <3>1, <3>2, <3>3
  <2>11. PICK all : all = first \o later
    OBVIOUS
  <2>12. all \in Seq(Requests) /\ (\A k \in DOMAIN all : all[k].op # "Terminate")
         /\ (window_topology = "Awaiting" => \E k \in DOMAIN all : all[k].op = "GetVisibleWindows")
    <3>0. /\ first \o later \in Seq(Requests)
          /\ \A j \in DOMAIN first : j \in DOMAIN (first \o later) /\ (first \o later)[j] = first[j]
          /\ \A i \in DOMAIN (first \o later) :
               i \in DOMAIN first \/ (i > Len(first) /\ \E k \in DOMAIN later : (first \o later)[i] = later[k])
          /\ \A k \in DOMAIN later : /\ Len(first) + k \in DOMAIN (first \o later)
                                 /\ (first \o later)[Len(first) + k] = later[k]
      BY <2>7, <2>10, ThenAppended
    <3>1. /\ all \in Seq(Requests)
          /\ \A i \in DOMAIN all : (i \in DOMAIN first /\ all[i] = first[i]) \/ \E k \in DOMAIN later : all[i] = later[k]
          /\ \A k \in DOMAIN later : \E i \in DOMAIN all : all[i] = later[k]
      BY <3>0, <2>11, Zenon
    <3> QED
      BY <2>7, <2>10, <3>1
  <2>13. requests' = Tracking!Asked(known, all)
    BY <2>2, <2>11
  <2>14. /\ requests' \in Seq(Requests) /\ (requests' # <<>> => thread = "up")
         /\ \A i \in DOMAIN requests : i \in DOMAIN requests' /\ requests'[i] = requests[i]
         /\ \A i \in DOMAIN requests' : i \in DOMAIN requests \/ \E k \in DOMAIN all : requests'[i] = all[k]
         /\ known /\ thread = "up" => \A k \in DOMAIN all : \E i \in DOMAIN requests' : requests'[i] = all[k]
    BY <2>12, <2>13, AskedRequests
  <2>15. known /\ thread = "up" /\ window_topology = "Awaiting" => Asking'
    <3>1. known /\ thread = "up" /\ window_topology = "Awaiting" =>
            \E i \in DOMAIN requests' : requests'[i].op = "GetVisibleWindows"
      BY <2>12, <2>14
    <3> QED
      BY <3>1 DEF Asking
  <2> QED
    BY <2>12, <2>14, <2>15 DEF RequestsReact
<1>11. RegistryReacts(e)
  <2>1. \A w : ~Believed(e, w)
    BY DEF Believed, Tells
  <2>2. known' \in BOOLEAN
    BY <1>0, <1>8
  <2>3. info' \subseteq born /\ observed' \subseteq born /\ tracked' \subseteq born
    BY <1>0, <1>8
  <2> HIDE DEF Believed, Dying
  <2> QED
    BY <1>0, <1>2, <1>7, <1>8, <2>1, <2>2, <2>3 DEF RegistryReacts
<1>12. MemoryReacts(e)
  <2>1. window_topology = "Awaiting" => \A w \in tracked : w \in pre_known /\ w \notin alive => w \in gone
    BY <1>1
  <2> HIDE DEF Dying
  <2> QED
    BY <1>7, <1>8, <2>1 DEF MemoryReacts
<1> QED
  BY <1>6, <1>9, <1>10, <1>11, <1>12 DEF Reaction

\* Every step of the reactor.
LEMMA ReactReacts ==
  ASSUME TrackingInv, Tracking!React
  PROVE  Reaction(window_channel[1])
<1>1. PICK e : e = window_channel[1]
  OBVIOUS
<1>2. Elsewhere /\ window_channel # <<>>
  BY DEF Tracking!React, Tracking!worldVars, Tracking!centreVars, Tracking!threadVars, Elsewhere
<1>3. 1 \in DOMAIN window_channel /\ e \in WindowEvents
  BY <1>1, <1>2 DEF TrackingInv, TrackingTypeOK
<1>4. e.op \in {"ServerAppeared", "ServerDestroyed", "WindowCreated", "WindowDestroyed", "Discovered",
                "ApplicationLaunched", "ApplicationTerminated", "ApplicationThreadTerminated",
                "DisplayChurnBegin", "DisplayChurnEnd", "ScreenParametersChanged"}
  BY <1>3 DEF WindowEvents
<1>5. CASE window_topology # "Stable" /\ e.op \in Tracking!Quarantined
  BY <1>1, <1>2, <1>5, DropReacts DEF Tracking!React
<1>6. CASE ~(window_topology # "Stable" /\ e.op \in Tracking!Quarantined)
  <2>1. Tracking!Handle(e)
    BY <1>1, <1>6 DEF Tracking!React
  <2>2. e.op \in Tracking!Quarantined => window_topology = "Stable"
    BY <1>6
  <2>3. CASE e.op = "ServerAppeared"
    BY <1>1, <1>2, <2>1, <2>3, AppearedReacts DEF Tracking!Handle
  <2>4. CASE e.op = "ServerDestroyed"
    BY <1>1, <1>2, <2>1, <2>4, ServerDestroyedReacts DEF Tracking!Handle
  <2>5. CASE e.op = "WindowCreated"
    <3>1. Tracking!HandleCreated(e.window)
      BY <2>1, <2>5 DEF Tracking!Handle
    <3>2. window_topology = "Stable"
      BY <2>2, <2>5 DEF Tracking!Quarantined
    <3>3. PICK S : S = {e.window}
      OBVIOUS
    <3>4. \A w : w \in S <=> Tells(e, w)
      BY <2>5, <3>3 DEF Tells
    <3>5. Tracking!Learn(S, S, e.op = "ApplicationLaunched" /\ window_topology # "Stable")
      BY <2>5, <3>1, <3>3 DEF Tracking!HandleCreated, Tracking!Learn
    <3>6. /\ window_channel' = Tail(window_channel)
          /\ UNCHANGED <<known, requests, window_topology, pre_known, dropped>>
      BY <3>1 DEF Tracking!HandleCreated, Tracking!Rest
    <3> QED
      BY <1>1, <1>2, <2>5, <3>2, <3>4, <3>5, <3>6, LearnReacts
  <2>6. CASE e.op = "WindowDestroyed"
    <3>1. window_topology = "Stable"
      BY <2>2, <2>6 DEF Tracking!Quarantined
    <3>2. Tracking!HandleDestroyed(e.window)
      BY <2>1, <2>6 DEF Tracking!Handle
    <3> QED
      BY <1>1, <1>2, <2>6, <3>1, <3>2, DestroyedReacts
  <2>7. CASE e.op = "Discovered"
    <3>1. Tracking!HandleDiscovered(e.windows)
      BY <2>1, <2>7 DEF Tracking!Handle
    <3>2. window_topology = "Stable"
      BY <2>2, <2>7 DEF Tracking!Quarantined
    <3>3. PICK S : S = e.windows
      OBVIOUS
    <3>4. \A w : w \in S <=> Tells(e, w)
      BY <2>7, <3>3 DEF Tells
    <3>7. PICK seen \in SUBSET S : seen = {}
      OBVIOUS
    <3>5. Tracking!Learn(S, seen, e.op = "ApplicationLaunched" /\ window_topology # "Stable")
      BY <2>7, <3>1, <3>3, <3>7 DEF Tracking!HandleDiscovered, Tracking!Learn
    <3>6. /\ window_channel' = Tail(window_channel)
          /\ UNCHANGED <<known, requests, window_topology, pre_known, dropped>>
      BY <3>1 DEF Tracking!HandleDiscovered, Tracking!Rest
    <3> QED
      BY <1>1, <1>2, <2>7, <3>2, <3>4, <3>5, <3>6, LearnReacts
  <2>8. CASE e.op = "ApplicationLaunched"
    <3>1. Tracking!HandleLaunched(e.windows)
      BY <2>1, <2>8 DEF Tracking!Handle
    <3>3. PICK S : S = e.windows
      OBVIOUS
    <3>4. \A w : w \in S <=> Tells(e, w)
      BY <2>8, <3>3 DEF Tells
    <3>5. Tracking!Learn(S, S, e.op = "ApplicationLaunched" /\ window_topology # "Stable")
      BY <2>8, <3>1, <3>3 DEF Tracking!HandleLaunched, Tracking!Learn
    <3>6. /\ window_channel' = Tail(window_channel) /\ known' = TRUE
          /\ UNCHANGED <<requests, window_topology, pre_known, dropped>>
      BY <3>1 DEF Tracking!HandleLaunched, Tracking!Rest
    <3> QED
      BY <1>1, <1>2, <2>8, <3>4, <3>5, <3>6, LearnReacts
  <2>9. CASE e.op = "ApplicationTerminated"
    <3>1. Tracking!HandleTerminated
      BY <2>1, <2>9 DEF Tracking!Handle
    <3> QED
      BY <1>1, <1>2, <2>9, <3>1, EndReacts
  <2>10. CASE e.op = "ApplicationThreadTerminated"
    <3>1. Tracking!HandleThreadTerminated
      BY <2>1, <2>10 DEF Tracking!Handle
    <3> QED
      BY <1>1, <1>2, <2>10, <3>1, EndReacts
  <2>11. CASE e.op = "DisplayChurnBegin"
    <3>1. Tracking!HandleBegin
      BY <2>1, <2>11 DEF Tracking!Handle
    <3> QED
      BY <1>1, <1>2, <2>11, <3>1, ChurnReacts
  <2>12. CASE e.op = "DisplayChurnEnd"
    <3>1. Tracking!HandleEnd
      BY <2>1, <2>12 DEF Tracking!Handle
    <3> QED
      BY <1>1, <1>2, <2>12, <3>1, ChurnReacts
  <2>13. CASE e.op = "ScreenParametersChanged"
    <3>1. PICK moved \in BOOLEAN : Tracking!HandleSnapshot(moved)
      BY <2>1, <2>13 DEF Tracking!Handle
    <3> QED
      BY <1>1, <1>2, <2>13, <3>1, SnapshotReacts
  <2> QED
    BY <1>4, <2>3, <2>4, <2>5, <2>6, <2>7, <2>8, <2>9, <2>10, <2>11, <2>12, <2>13
<1> QED
  BY <1>1, <1>5, <1>6

-----------------------------------------------------------------------------
(* A step of the reactor keeps the invariant. *)

\* What is to come moves forward.
LEMMA LaterShifts ==
  ASSUME Shifts, NEW i \in Nat, NEW ops, Later(i + 1, ops)
  PROVE  Later(i, ops)'
<1>1. PICK j \in DOMAIN window_channel : i + 1 < j /\ window_channel[j].op \in ops
  BY DEF Later
<1>2. j - 1 \in DOMAIN window_channel' /\ window_channel'[j - 1] = window_channel[j] /\ i < j - 1
  BY <1>1 DEF Shifts
<1> QED
  BY <1>1, <1>2 DEF Later

LEMMA MortalShifts ==
  ASSUME Shifts, Elsewhere, NEW i \in Nat, NEW w, Mortal(w, i + 1)
  PROVE  Mortal(w, i)'
<1>1. CASE Tracking!Note("ServerDestroyed", w) \in notices
  BY <1>1 DEF Mortal, Elsewhere, Tracking!Note
<1>2. CASE \E j \in DOMAIN window_channel :
             /\ i + 1 < j
             /\ \/ window_channel[j].op = "DisplayChurnBegin"
                \/ window_channel[j].op = "ServerDestroyed" /\ window_channel[j].window = w
  <2>1. PICK j \in DOMAIN window_channel :
             /\ i + 1 < j
             /\ \/ window_channel[j].op = "DisplayChurnBegin"
                \/ window_channel[j].op = "ServerDestroyed" /\ window_channel[j].window = w
    BY <1>2
  <2>2. j - 1 \in DOMAIN window_channel' /\ window_channel'[j - 1] = window_channel[j] /\ i < j - 1
    BY <2>1 DEF Shifts
  <2> QED
    BY <2>1, <2>2 DEF Mortal
<1> QED
  BY <1>1, <1>2 DEF Mortal

LEMMA QuarantineShifts ==
  ASSUME Shifts, NEW e, e = window_channel[1], TopologyReacts(e),
         NEW i \in Nat \ {0}, QuarantinedAt(i + 1)
  PROVE  QuarantinedAt(i)'
<1>0. 1 \in DOMAIN window_channel
  BY DEF Shifts
<1>1. ASSUME NEW k \in DOMAIN window_channel', window_channel'[k].op = "ScreenParametersChanged"
      PROVE  k + 1 \in DOMAIN window_channel /\ window_channel[k + 1] = window_channel'[k]
  BY <1>1 DEF Shifts
<1>2. \A k \in DOMAIN window_channel' : k \in Nat \ {0}
  BY DEF Shifts
<1>3. ASSUME NEW j \in DOMAIN window_channel, j < i + 1,
             window_channel[j].op = "DisplayChurnBegin",
             \A k \in DOMAIN window_channel :
               j < k /\ k < i + 1 => window_channel[k].op # "ScreenParametersChanged"
      PROVE  QuarantinedAt(i)'
  <2>1. CASE j = 1
    <3>1. window_topology' # "Stable"
      BY <1>3, <2>1 DEF TopologyReacts
    <3>2. \A k \in DOMAIN window_channel' :
            k < i => window_channel'[k].op # "ScreenParametersChanged"
      BY <1>1, <1>2, <1>3, <2>1
    <3> QED
      BY <3>1, <3>2 DEF QuarantinedAt
  <2>2. CASE j > 1
    <3>1. j - 1 \in DOMAIN window_channel' /\ window_channel'[j - 1] = window_channel[j] /\ j - 1 < i
      BY <1>3, <2>2 DEF Shifts
    <3>2. j \in Nat
      BY <2>2 DEF Shifts
    <3>3. \A k \in DOMAIN window_channel' :
            j - 1 < k /\ k < i => window_channel'[k].op # "ScreenParametersChanged"
      BY <1>1, <1>2, <1>3, <3>2
    <3> QED
      BY <1>3, <3>1, <3>3 DEF QuarantinedAt
  <2>3. j = 1 \/ j > 1
    BY DEF Shifts
  <2> QED
    BY <2>1, <2>2, <2>3
<1>4. CASE window_topology # "Stable" /\ \A k \in DOMAIN window_channel :
             k < i + 1 => window_channel[k].op # "ScreenParametersChanged"
  <2>1. window_topology' # "Stable"
    BY <1>0, <1>4 DEF TopologyReacts
  <2>2. \A k \in DOMAIN window_channel' :
          k < i => window_channel'[k].op # "ScreenParametersChanged"
    BY <1>1, <1>2, <1>4
  <2> QED
    BY <2>1, <2>2 DEF QuarantinedAt
<1> QED
  BY <1>3, <1>4 DEF QuarantinedAt

LEMMA ReactionTypes ==
  ASSUME TrackingInv, NEW e, Reaction(e)
  PROVE  TrackingTypeOK' /\ DeadStayDead'
<1>1. TrackingTypeOK /\ DeadStayDead
  BY DEF TrackingInv
<1>2. Tracking!TypeOK'
  <2>1. window_topology' \in {"Stable", "Churning", "Awaiting"}
    BY <1>1 DEF TrackingTypeOK, Tracking!TypeOK, Reaction, TopologyReacts
  <2>2. known' \in BOOLEAN
    BY DEF Reaction, RegistryReacts
  <2>3. UNCHANGED <<app, alive, born, thread, elements>>
    BY DEF Reaction, Elsewhere
  <2> QED
    BY <1>1, <2>1, <2>2, <2>3
       DEF TrackingTypeOK, Tracking!TypeOK, Reaction, RegistryReacts, RequestsReact
<1>3. \A i \in DOMAIN window_channel' : EventIsBorn(window_channel[i])'
  <2> SUFFICES ASSUME NEW i \in DOMAIN window_channel'
               PROVE  EventIsBorn(window_channel[i])'
    OBVIOUS
  <2>1. born' = born /\ alive' = alive
    BY DEF Reaction, Elsewhere
  <2>2. CASE i + 1 \in DOMAIN window_channel /\ window_channel'[i] = window_channel[i + 1]
    BY <1>1, <2>1, <2>2 DEF TrackingTypeOK, EventIsBorn
  <2>3. CASE window_channel'[i].op = "WindowDestroyed" /\ window_channel'[i].window \in born \ alive
    BY <2>1, <2>3 DEF EventIsBorn
  <2> QED
    BY <2>2, <2>3 DEF Reaction, Shifts
<1>4. TrackingTypeOK'
  <2>1. UNCHANGED <<born, notices>>
    BY DEF Reaction, Elsewhere
  <2> QED
    BY <1>1, <1>2, <1>3, <2>1 DEF TrackingTypeOK, Reaction, Shifts, RequestsReact
<1>5. DeadStayDead'
  <2>1. alive' = alive /\ notices' = notices
    BY DEF Reaction, Elsewhere
  <2>2. ASSUME NEW i \in DOMAIN window_channel', window_channel'[i].op \in Deaths
        PROVE  window_channel'[i].window \notin alive'
    BY <1>1, <2>1, <2>2 DEF DeadStayDead, Reaction, Shifts
  <2> QED
    BY <1>1, <2>1, <2>2 DEF DeadStayDead
<1> QED
  BY <1>4, <1>5

LEMMA ReactionEnds ==
  ASSUME TrackingInv, NEW e, e = window_channel[1], Reaction(e)
  PROVE  OnlyAtTheEnd'
<1>1. app' = app /\ thread' = thread
  BY DEF Reaction, Elsewhere
<1> SUFFICES ASSUME app # "ended"
             PROVE  /\ \A i \in DOMAIN window_channel' :
                         window_channel'[i].op \notin {"ApplicationTerminated", "ApplicationThreadTerminated"}
                    /\ \A i \in DOMAIN requests' : requests'[i].op # "Terminate"
                    /\ thread # "stopped"
  BY <1>1 DEF OnlyAtTheEnd
<1>2. /\ \A i \in DOMAIN window_channel :
           window_channel[i].op \notin {"ApplicationTerminated", "ApplicationThreadTerminated"}
      /\ \A i \in DOMAIN requests : requests[i].op # "Terminate"
      /\ thread # "stopped"
  BY DEF TrackingInv, OnlyAtTheEnd
<1>3. e.op # "ApplicationTerminated"
  BY <1>2 DEF Reaction, Shifts
<1>4. \A i \in DOMAIN requests' : requests'[i].op # "Terminate"
  BY <1>2, <1>3 DEF Reaction, RequestsReact
<1> QED
  BY <1>2, <1>4 DEF Reaction, Shifts

\* While the application runs, the thread that is up has announced it before it told of windows.
LEMMA TellsWhenKnown ==
  ASSUME TrackingInv, NEW e, e = window_channel[1], 1 \in DOMAIN window_channel, app # "ended",
         e.op \in Tellings \ {"ApplicationLaunched"}, \A i \in DOMAIN window_channel : i = 1 \/ 1 < i
  PROVE  known
<1>1. thread = "up"
  BY DEF TrackingInv, LaunchedFirst
<1> QED
  BY <1>1 DEF TrackingInv, LaunchedFirst, Tellings

LEMMA ReactionLaunches ==
  ASSUME TrackingInv, NEW e, e = window_channel[1], Reaction(e)
  PROVE  LaunchedFirst'
<1>1. app' = app /\ thread' = thread /\ born' = born
  BY DEF Reaction, Elsewhere
<1>2. /\ 1 \in DOMAIN window_channel /\ \A i \in DOMAIN window_channel : i \in Nat \ {0}
      /\ \A i \in DOMAIN window_channel' : i \in Nat \ {0}
  BY DEF Reaction, Shifts
<1> SUFFICES ASSUME app # "ended"  PROVE LaunchedFirst'
  BY <1>1 DEF LaunchedFirst
<1>3. e.op \notin {"ApplicationTerminated", "ApplicationThreadTerminated"}
  BY <1>2 DEF TrackingInv, OnlyAtTheEnd
<1>4. LaunchedFirst
  BY DEF TrackingInv
<1>5. /\ e.op = "ApplicationLaunched" => known'
      /\ e.op # "ApplicationLaunched" => known' = known
  BY <1>3 DEF Reaction, RegistryReacts
<1>6. ~known' => windows' = {} /\ tracked' = {}
  <2> SUFFICES ASSUME ~known'  PROVE windows' = {} /\ tracked' = {}
    OBVIOUS
  <2>1. e.op # "ApplicationLaunched" /\ ~known
    BY <1>5
  <2>2. windows = {} /\ tracked = {}
    BY <1>4, <2>1 DEF LaunchedFirst
  <2>3. \A w : ~Tells(e, w)
    <3>1. e.op \notin Tellings
      BY <1>2, <2>1, TellsWhenKnown
    <3> QED
      BY <3>1 DEF Tells, Tellings
  <2> QED
    BY <2>2, <2>3 DEF Reaction, RegistryReacts, Believed
<1>7. ASSUME NEW i \in DOMAIN window_channel', window_channel'[i].op # "WindowDestroyed"
      PROVE  i + 1 \in DOMAIN window_channel /\ window_channel'[i] = window_channel[i + 1]
  BY <1>7 DEF Reaction, Shifts
<1>8. thread # "up" =>
        ~known' /\ \A i \in DOMAIN window_channel' : window_channel'[i].op \notin Tellings
  BY <1>2, <1>4, <1>5, <1>7 DEF LaunchedFirst, Tellings
<1>9. thread = "up" =>
        known' \/ \E i \in DOMAIN window_channel' : window_channel'[i].op = "ApplicationLaunched"
  <2> SUFFICES ASSUME thread = "up", ~known'
               PROVE  \E i \in DOMAIN window_channel' : window_channel'[i].op = "ApplicationLaunched"
    OBVIOUS
  <2>1. e.op # "ApplicationLaunched" /\ ~known
    BY <1>5
  <2>2. PICK i \in DOMAIN window_channel : window_channel[i].op = "ApplicationLaunched"
    BY <1>4, <2>1 DEF LaunchedFirst
  <2>3. i > 1
    BY <1>2, <2>1, <2>2
  <2> QED
    BY <2>2, <2>3 DEF Reaction, Shifts
<1>10. ASSUME NEW i \in DOMAIN window_channel', window_channel'[i].op = "ApplicationLaunched"
       PROVE  ~known' /\ \A j \in DOMAIN window_channel' : j < i => window_channel'[j].op \notin Tellings
  <2>1. i + 1 \in DOMAIN window_channel /\ window_channel[i + 1].op = "ApplicationLaunched"
    BY <1>7, <1>10
  <2>2. ~known /\ \A j \in DOMAIN window_channel : j < i + 1 => window_channel[j].op \notin Tellings
    BY <1>4, <2>1 DEF LaunchedFirst
  <2>3. e.op \notin Tellings
    BY <1>2, <2>2
  <2>4. ~known'
    BY <1>5, <2>2, <2>3 DEF Tellings
  <2> QED
    BY <1>2, <1>7, <2>2, <2>4 DEF Tellings
<1> QED
  BY <1>1, <1>4, <1>6, <1>8, <1>9, <1>10 DEF LaunchedFirst

LEMMA ReactionQuarantines ==
  ASSUME TrackingInv, NEW e, e = window_channel[1], Reaction(e)
  PROVE  QuarantinesEnd'
<1>1. Shifts /\ Elsewhere /\ TopologyReacts(e) /\ QuarantinesEnd
  BY DEF Reaction, TrackingInv
<1>2. ACTIVE' = ACTIVE /\ owed' = owed
  BY <1>1 DEF Elsewhere
<1>3. PICK n, m : n = Len(window_channel) /\ m = Len(window_channel')
  OBVIOUS
<1>4. /\ n \in Nat \ {0} /\ m \in Nat /\ m >= n - 1
      /\ DOMAIN window_channel = 1..n /\ DOMAIN window_channel' = 1..m
  BY <1>1, <1>3 DEF Shifts
<1>5. ACTIVE => QuarantinedAt(m + 1)'
  <2> SUFFICES ASSUME ACTIVE PROVE QuarantinedAt(m + 1)'
    OBVIOUS
  <2>1. QuarantinedAt(n)'
    <3>1. QuarantinedAt(n + 1)
      BY <1>1, <1>3 DEF QuarantinesEnd
    <3> QED
      BY <1>1, <1>4, <3>1, QuarantineShifts
  <2>2. ASSUME NEW k \in 1..m, k >= n  PROVE window_channel'[k].op # "ScreenParametersChanged"
    <3>1. k + 1 \notin DOMAIN window_channel
      BY <1>4, <2>2
    <3> QED
      BY <1>1, <1>4, <3>1 DEF Shifts
  <2>3. ASSUME NEW j \in 1..m, j < n, window_channel'[j].op = "DisplayChurnBegin",
               \A k \in 1..m : j < k /\ k < n => window_channel'[k].op # "ScreenParametersChanged"
        PROVE  QuarantinedAt(m + 1)'
    <3>1. j < m + 1 /\ \A k \in 1..m :
            j < k /\ k < m + 1 => window_channel'[k].op # "ScreenParametersChanged"
      BY <1>4, <2>2, <2>3
    <3> QED
      BY <1>4, <2>3, <3>1 DEF QuarantinedAt
  <2>4. CASE window_topology' # "Stable" /\ \A k \in 1..m :
               k < n => window_channel'[k].op # "ScreenParametersChanged"
    <3>1. \A k \in 1..m : k < m + 1 => window_channel'[k].op # "ScreenParametersChanged"
      BY <1>4, <2>2, <2>4
    <3> QED
      BY <1>4, <2>4, <3>1 DEF QuarantinedAt
  <2> QED
    BY <1>4, <2>1, <2>3, <2>4 DEF QuarantinedAt
<1>6. ASSUME NEW i \in 1..m
      PROVE  /\ window_channel'[i].op = "DisplayChurnEnd" => QuarantinedAt(i)'
             /\ window_channel'[i].op = "DisplayChurnBegin" => ACTIVE \/ Later(i, {"DisplayChurnEnd"})'
             /\ window_channel'[i].op = "DisplayChurnEnd" =>
                  owed \/ Later(i, {"DisplayChurnBegin", "ScreenParametersChanged"})'
  <2> SUFFICES ASSUME window_channel'[i].op \in {"DisplayChurnBegin", "DisplayChurnEnd"}
               PROVE  /\ window_channel'[i].op = "DisplayChurnEnd" => QuarantinedAt(i)'
                      /\ window_channel'[i].op = "DisplayChurnBegin" => ACTIVE \/ Later(i, {"DisplayChurnEnd"})'
                      /\ window_channel'[i].op = "DisplayChurnEnd" =>
                           owed \/ Later(i, {"DisplayChurnBegin", "ScreenParametersChanged"})'
    OBVIOUS
  <2>1. i + 1 \in DOMAIN window_channel /\ window_channel'[i] = window_channel[i + 1]
    BY <1>1, <1>4 DEF Shifts
  <2>2. i \in Nat \ {0} /\ i \in Nat
    BY <1>4
  <2>3. /\ window_channel[i + 1].op = "DisplayChurnEnd" => QuarantinedAt(i + 1)
        /\ window_channel[i + 1].op = "DisplayChurnBegin" => ACTIVE \/ Later(i + 1, {"DisplayChurnEnd"})
        /\ window_channel[i + 1].op = "DisplayChurnEnd" =>
             owed \/ Later(i + 1, {"DisplayChurnBegin", "ScreenParametersChanged"})
    BY <1>1, <2>1 DEF QuarantinesEnd
  <2> QED
    BY <1>1, <2>1, <2>2, <2>3, QuarantineShifts, LaterShifts
<1>7. \A ops : Later(1, ops) => Later(0, ops)'
  <2>1. 1 = 0 + 1 /\ 0 \in Nat
    OBVIOUS
  <2> QED
    BY <1>1, <2>1, LaterShifts
<1>8. \A ops : Later(0, ops) /\ e.op \notin ops => Later(1, ops)
  BY <1>4 DEF Later
<1>9. 1 \in DOMAIN window_channel
  BY <1>4
<1>10. window_topology' = "Churning" => ACTIVE \/ Later(0, {"DisplayChurnEnd"})'
  <2> SUFFICES ASSUME window_topology' = "Churning", ~ACTIVE  PROVE Later(0, {"DisplayChurnEnd"})'
    OBVIOUS
  <2>1. CASE e.op = "DisplayChurnBegin"
    BY <1>1, <1>7, <1>9, <2>1 DEF QuarantinesEnd
  <2>2. CASE e.op # "DisplayChurnBegin"
    <3>1. window_topology = "Churning" /\ e.op # "DisplayChurnEnd"
      BY <1>1, <2>2 DEF TopologyReacts
    <3>2. Later(0, {"DisplayChurnEnd"})
      BY <1>1, <3>1 DEF QuarantinesEnd
    <3> QED
      BY <1>7, <1>8, <3>1, <3>2
  <2> QED
    BY <2>1, <2>2
<1>11. window_topology' = "Awaiting" =>
         owed \/ Later(0, {"DisplayChurnBegin", "ScreenParametersChanged"})'
  <2> SUFFICES ASSUME window_topology' = "Awaiting", ~owed
               PROVE  Later(0, {"DisplayChurnBegin", "ScreenParametersChanged"})'
    OBVIOUS
  <2>1. CASE e.op = "DisplayChurnEnd"
    BY <1>1, <1>7, <1>9, <2>1 DEF QuarantinesEnd
  <2>2. CASE e.op # "DisplayChurnEnd"
    <3>1. window_topology = "Awaiting" /\ e.op \notin {"DisplayChurnBegin", "ScreenParametersChanged"}
      BY <1>1, <2>2 DEF TopologyReacts
    <3>2. Later(0, {"DisplayChurnBegin", "ScreenParametersChanged"})
      BY <1>1, <3>1 DEF QuarantinesEnd
    <3> QED
      BY <1>7, <1>8, <3>1, <3>2
  <2> QED
    BY <2>1, <2>2
<1>12. ACTIVE' => QuarantinedAt(Len(window_channel) + 1)'
  <2>1. ACTIVE' => /\ \/ \E j \in DOMAIN window_channel' :
                          /\ j < m + 1 /\ window_channel'[j].op = "DisplayChurnBegin"
                          /\ \A k \in DOMAIN window_channel' :
                               j < k /\ k < m + 1 => window_channel'[k].op # "ScreenParametersChanged"
                      \/ /\ window_topology' # "Stable"
                         /\ \A k \in DOMAIN window_channel' :
                              k < m + 1 => window_channel'[k].op # "ScreenParametersChanged"
    BY <1>2, <1>5 DEF QuarantinedAt
  <2> QED
    BY <1>3, <2>1 DEF QuarantinedAt
<1> QED
  BY <1>2, <1>4, <1>6, <1>10, <1>11, <1>12 DEF QuarantinesEnd

\* Windows that are there are kept, told of or asked for.
LEMMA ReactionComes ==
  ASSUME TrackingInv, NEW e, e = window_channel[1], Reaction(e)
  PROVE  WindowsCome'
<1>1. UNCHANGED <<app, thread, alive, elements, notices>>
  BY DEF Reaction, Elsewhere
<1>2. /\ 1 \in DOMAIN window_channel /\ \A i \in DOMAIN window_channel : i = 1 \/ 1 < i
  BY DEF Reaction, Shifts
<1> SUFFICES ASSUME app = "running", thread = "up", NEW w \in alive
             PROVE  \/ w \in windows' /\ w \in tracked'
                    \/ Told(w)'
                    \/ known' /\ window_topology' # "Stable"
                    \/ known' /\ Asking'
                    \/ w \notin elements' /\ Tracking!Note("Created", w) \in notices'
  BY <1>1 DEF WindowsCome, Tracking!Note
<1>3. e.op \notin {"ApplicationTerminated", "ApplicationThreadTerminated"}
  BY <1>2 DEF TrackingInv, OnlyAtTheEnd
<1>4. known => known'
  <2>1. known \in BOOLEAN /\ known' \in BOOLEAN
    BY DEF TrackingInv, TrackingTypeOK, Tracking!TypeOK, Reaction, RegistryReacts
  <2> QED
    BY <1>3, <2>1 DEF Reaction, RegistryReacts
<1>5. Believed(e, w) => w \in windows' /\ w \in tracked'
  BY DEF Reaction, RegistryReacts
<1>6. CASE w \in windows /\ w \in tracked
  <2>1. ~(e.op = "WindowDestroyed" /\ e.window = w)
    BY <1>2 DEF TrackingInv, DeadStayDead, Deaths
  <2> QED
    BY <1>3, <1>6, <2>1 DEF Reaction, RegistryReacts
<1>7. CASE Told(w)
  <2>1. PICK i \in DOMAIN window_channel : Tells(window_channel[i], w)
    BY <1>7 DEF Told
  <2>2. CASE i = 1
    <3>1. Tells(e, w)
      BY <2>1, <2>2
    <3>2. CASE ~Believed(e, w)
      <4>1. window_topology # "Stable" /\ e.op # "ApplicationLaunched"
        BY <3>1, <3>2 DEF Believed
      <4>2. e.op \in {"WindowCreated", "Discovered"}
        BY <3>1, <4>1 DEF Tells
      <4>3. known
        BY <1>2, <4>2, TellsWhenKnown DEF Tellings
      <4>4. window_topology' = window_topology
        BY <4>2 DEF Reaction, TopologyReacts
      <4> QED
        BY <1>4, <4>1, <4>3, <4>4
    <3> QED
      BY <1>5, <3>2
  <2>3. CASE i > 1
    <3>1. i - 1 \in DOMAIN window_channel' /\ window_channel'[i - 1] = window_channel[i]
      BY <2>3 DEF Reaction, Shifts
    <3>2. Tells(window_channel'[i - 1], w)
      BY <2>1, <3>1
    <3>3. Told(w)'
      BY <3>1, <3>2 DEF Told, Tells
    <3> QED
      BY <3>3
  <2> QED
    BY <1>2, <2>2, <2>3
<1>8. CASE known /\ window_topology # "Stable"
  <2>1. CASE e.op = "ScreenParametersChanged" /\ window_topology = "Awaiting"
    <3>1. Asking'
      BY <1>8, <2>1 DEF Reaction, RequestsReact
    <3> QED
      BY <1>4, <1>8, <3>1
  <2>2. CASE ~(e.op = "ScreenParametersChanged" /\ window_topology = "Awaiting")
    <3>1. window_topology' # "Stable"
      BY <1>8, <2>2 DEF Reaction, TopologyReacts
    <3> QED
      BY <1>4, <1>8, <3>1
  <2> QED
    BY <2>1, <2>2
<1>9. CASE known /\ Asking
  <2>1. Asking'
    BY <1>9 DEF Asking, Reaction, RequestsReact
  <2> QED
    BY <1>4, <1>9, <2>1
<1>10. CASE w \notin elements /\ Tracking!Note("Created", w) \in notices
  BY <1>1, <1>10 DEF Tracking!Note
<1> QED
  BY <1>6, <1>7, <1>8, <1>9, <1>10 DEF TrackingInv, WindowsCome

\* Windows that are gone are removed, or explained.
LEMMA ReactionGoes ==
  ASSUME TrackingInv, NEW e, e = window_channel[1], Reaction(e)
  PROVE  WindowsGo'
<1>1. UNCHANGED <<app, alive, born, notices>>
  BY DEF Reaction, Elsewhere
<1>2. /\ 1 \in DOMAIN window_channel /\ \A i \in DOMAIN window_channel : i = 1 \/ 1 < i
      /\ \A i \in DOMAIN window_channel : i \in Nat \ {0}
      /\ \A i \in DOMAIN window_channel' : i \in Nat \ {0}
  BY DEF Reaction, Shifts
<1> SUFFICES ASSUME app = "running"
             PROVE  /\ Compared'
                    /\ \A w \in windows' \ alive : Known(w)'
                    /\ \A i \in DOMAIN window_channel', w \in born \ alive :
                         Tells(window_channel'[i], w) => ToldInTime(i, w)'
  BY <1>1 DEF WindowsGo, Tells
<1>3. e.op \notin {"ApplicationTerminated", "ApplicationThreadTerminated"}
  BY <1>2 DEF TrackingInv, OnlyAtTheEnd
<1>4. Shifts /\ Elsewhere /\ TopologyReacts(e) /\ RegistryReacts(e) /\ MemoryReacts(e)
  BY DEF Reaction
<1>5. /\ Compared
      /\ \A w \in windows \ alive : Known(w)
      /\ \A i \in DOMAIN window_channel, w \in born \ alive :
           Tells(window_channel[i], w) => ToldInTime(i, w)
  BY DEF TrackingInv, WindowsGo
<1>6. QuarantinedAt(1) => window_topology # "Stable"
  BY <1>2 DEF QuarantinedAt
<1>7. e.op = "DisplayChurnEnd" => window_topology # "Stable"
  BY <1>2, <1>6 DEF TrackingInv, QuarantinesEnd
<1>8. /\ windows' \subseteq born /\ tracked' \subseteq born
      /\ \A w \in windows' : w \in windows \/ Believed(e, w)
      /\ \A w \in tracked' : w \in tracked \/ Believed(e, w)
      /\ \A w : Believed(e, w) => w \in windows' /\ w \in tracked'
      /\ \A w \in windows \ windows' : e.op = "WindowDestroyed" /\ e.window = w
      /\ \A w \in tracked \ tracked' : w \notin alive /\ (w \notin windows' \/ Dying(w)')
  BY <1>3, <1>4 DEF RegistryReacts
<1>9. \A w : Believed(e, w) =>
        /\ e.op \in {"WindowCreated", "Discovered", "ApplicationLaunched"} /\ Tells(e, w)
        /\ window_topology # "Stable" => e.op = "ApplicationLaunched"
        /\ e.op = "ApplicationLaunched" => w \in e.windows
  BY DEF Believed, Tells
<1>10. e.op = "ApplicationLaunched" => windows = {}
  BY <1>2 DEF TrackingInv, LaunchedFirst
<1>11. /\ alive \cap windows \subseteq tracked
       /\ window_topology # "Stable" => windows \cap tracked \subseteq pre_known \cup late
  BY <1>5 DEF Compared
<1>12. ASSUME NEW w, Believed(e, w), window_topology # "Stable"  PROVE w \in late'
  BY <1>4, <1>9, <1>10, <1>12 DEF MemoryReacts
<1>13. Compared'
  <2>1. ASSUME NEW w \in alive, w \in windows'  PROVE w \in tracked'
    <3>1. CASE w \in windows
      BY <1>8, <1>11, <2>1, <3>1
    <3>2. CASE Believed(e, w)
      BY <1>8, <3>2
    <3> QED
      BY <1>8, <2>1, <3>1, <3>2
  <2>2. ASSUME window_topology' # "Stable", NEW w \in windows', w \in tracked'
        PROVE  w \in pre_known' \/ w \in late'
    <3>1. CASE e.op = "DisplayChurnBegin"
      BY <1>4, <1>8, <1>9, <2>2, <3>1 DEF MemoryReacts
    <3>2. CASE e.op # "DisplayChurnBegin"
      <4>1. pre_known' = pre_known /\ late \subseteq late'
        BY <1>4, <3>2 DEF MemoryReacts
      <4>2. window_topology # "Stable"
        BY <1>4, <1>7, <2>2, <3>2 DEF TopologyReacts
      <4>3. CASE w \in windows
        <5>1. w \in tracked
          BY <1>8, <1>9, <1>10, <2>2, <4>2, <4>3
        <5> QED
          BY <1>11, <4>1, <4>2, <4>3, <5>1
      <4> QED
        BY <1>8, <1>12, <2>2, <4>2, <4>3
    <3> QED
      BY <3>1, <3>2
  <2>3. alive \cap windows' \subseteq tracked'
    BY <2>1
  <2>4. window_topology' # "Stable" => windows' \cap tracked' \subseteq pre_known' \cup late'
    BY <2>2
  <2> QED
    BY <1>1, <2>3, <2>4 DEF Compared
<1>14. \A w : Mortal(w, 1) => Mortal(w, 0)'
  <2>1. 1 = 0 + 1 /\ 0 \in Nat
    OBVIOUS
  <2> QED
    BY <1>4, <2>1, MortalShifts
<1>15. ASSUME NEW w \in windows', w \notin alive  PROVE Known(w)'
  <2>1. CASE w \in late' \/ w \in dropped'
    BY <2>1 DEF Known
  <2>2. CASE Dying(w)'
    BY <2>2 DEF Known
  <2>3. CASE w \in tracked' /\ Mortal(w, 0)'
    BY <2>3 DEF Known
  <2>4. CASE w \in tracked' /\ window_topology' # "Stable" /\ w \in pre_known'
    BY <2>4 DEF Known
  <2>5. CASE w \notin windows
    <3>1. Believed(e, w) /\ w \in tracked'
      BY <1>8, <1>15, <2>5
    <3>2. ToldInTime(1, w)
      <4>1. w \in born \ alive
        BY <1>8, <1>15
      <4>2. Tells(window_channel[1], w)
        BY <1>9, <3>1
      <4> QED
        BY <1>2, <1>5, <4>1, <4>2
    <3>3. CASE Mortal(w, 1)
      BY <1>14, <2>3, <3>1, <3>3
    <3>4. CASE QuarantinedAt(1)
      BY <1>6, <1>12, <2>1, <3>1, <3>4
    <3> QED
      BY <3>2, <3>3, <3>4 DEF ToldInTime
  <2>6. CASE w \in windows
    <3>0. late \subseteq late'
      BY <1>4 DEF MemoryReacts
    <3>1. CASE w \in dropped \cup late
      <4>1. w \in dropped /\ w \notin dropped' => Dying(w)'
        BY <1>4 DEF MemoryReacts
      <4> QED
        BY <2>1, <2>2, <3>0, <3>1, <4>1
    <3>2. CASE Dying(w)
      <4>1. PICK i \in DOMAIN window_channel :
              window_channel[i].op = "WindowDestroyed" /\ window_channel[i].window = w
        BY <3>2 DEF Dying
      <4>2. CASE i = 1
        <5>1. e.op = "WindowDestroyed" /\ e.window = w
          BY <4>1, <4>2
        <5>2. CASE window_topology = "Stable"
          <6>1. w \notin windows'
            BY <1>4, <5>1, <5>2 DEF MemoryReacts
          <6> QED
            BY <1>15, <6>1
        <5>3. CASE window_topology # "Stable"
          <6>1. w \in dropped'
            BY <1>4, <2>6, <5>1, <5>3 DEF MemoryReacts
          <6> QED
            BY <2>1, <6>1
        <5> QED
          BY <5>2, <5>3
      <4>3. CASE i > 1
        <5>1. i - 1 \in DOMAIN window_channel' /\ window_channel'[i - 1] = window_channel[i]
          BY <1>4, <4>3 DEF Shifts
        <5>2. Dying(w)'
          BY <4>1, <5>1 DEF Dying
        <5> QED
          BY <2>2, <5>2
      <4> QED
        BY <1>2, <4>2, <4>3
    <3>3. CASE w \in tracked /\ w \notin tracked'
      <4>1. w \notin windows' \/ Dying(w)'
        BY <1>8, <3>3
      <4> QED
        BY <1>15, <2>2, <4>1
    <3>4. CASE w \in tracked /\ w \in tracked' /\ window_topology # "Stable" /\ w \in pre_known
      <4>1. CASE window_topology' # "Stable"
        <5>1. w \in pre_known'
          BY <1>4, <3>4 DEF MemoryReacts
        <5> QED
          BY <2>4, <3>4, <4>1, <5>1
      <4>2. CASE window_topology' = "Stable"
        <5>1. e.op = "ScreenParametersChanged" /\ window_topology = "Awaiting"
          BY <1>4, <3>4, <4>2 DEF TopologyReacts
        <5>2. Dying(w)'
          BY <1>4, <1>15, <3>4, <5>1 DEF MemoryReacts
        <5> QED
          BY <2>2, <5>2
      <4> QED
        BY <4>1, <4>2
    <3>5. CASE w \in tracked /\ w \in tracked' /\ Mortal(w, 0)
      <4>1. CASE Tracking!Note("ServerDestroyed", w) \in notices
        <5>1. Mortal(w, 0)'
          BY <1>1, <4>1 DEF Mortal, Tracking!Note
        <5> QED
          BY <2>3, <3>5, <5>1
      <4>2. CASE \E j \in DOMAIN window_channel :
                   \/ window_channel[j].op = "DisplayChurnBegin"
                   \/ window_channel[j].op = "ServerDestroyed" /\ window_channel[j].window = w
        <5>1. PICK j \in DOMAIN window_channel :
                   \/ window_channel[j].op = "DisplayChurnBegin"
                   \/ window_channel[j].op = "ServerDestroyed" /\ window_channel[j].window = w
          BY <4>2
        <5>2. CASE j > 1
          <6>1. Mortal(w, 1)
            BY <5>1, <5>2 DEF Mortal
          <6> QED
            BY <1>14, <2>3, <3>5, <6>1
        <5>3. CASE j = 1 /\ e.op = "DisplayChurnBegin"
          <6>1. window_topology' # "Stable" /\ w \in pre_known'
            BY <1>4, <3>5, <5>3 DEF TopologyReacts, MemoryReacts
          <6> QED
            BY <2>4, <3>5, <6>1
        <5>4. CASE j = 1 /\ e.op = "ServerDestroyed" /\ e.window = w
          <6>1. CASE window_topology = "Stable"
            <7>1. Dying(w)'
              BY <1>4, <3>5, <5>4, <6>1 DEF MemoryReacts
            <7> QED
              BY <2>2, <7>1
          <6>2. CASE window_topology # "Stable"
            <7>1. w \in pre_known \/ w \in late
              BY <1>11, <2>6, <3>5, <6>2
            <7>2. w \in late => w \in late'
              BY <3>0
            <7> QED
              BY <2>1, <3>4, <3>5, <6>2, <7>1, <7>2
          <6> QED
            BY <6>1, <6>2
        <5>5. j = 1 \/ j > 1
          BY <1>2
        <5> QED
          BY <5>1, <5>2, <5>3, <5>4, <5>5
      <4> QED
        BY <3>5, <4>1, <4>2 DEF Mortal
    <3>6. Known(w)
      BY <1>5, <1>15, <2>6
    <3> QED
      BY <3>1, <3>2, <3>3, <3>4, <3>5, <3>6 DEF Known
  <2> QED
    BY <2>5, <2>6
<1>16. ASSUME NEW i \in DOMAIN window_channel', NEW w \in born \ alive, Tells(window_channel'[i], w)
       PROVE  ToldInTime(i, w)'
  <2>1. i + 1 \in DOMAIN window_channel /\ window_channel'[i] = window_channel[i + 1]
    <3>1. window_channel'[i].op # "WindowDestroyed"
      BY <1>16 DEF Tells
    <3> QED
      BY <1>4, <3>1 DEF Shifts
  <2>2. ToldInTime(i + 1, w)
    <3>1. Tells(window_channel[i + 1], w)
      BY <1>16, <2>1
    <3> QED
      BY <1>5, <2>1, <3>1
  <2>3. i \in Nat /\ i \in Nat \ {0}
    BY <1>2
  <2>4. Mortal(w, i)' \/ QuarantinedAt(i)'
    <3>1. Mortal(w, i + 1) \/ QuarantinedAt(i + 1)
      BY <2>2 DEF ToldInTime
    <3>2. CASE Mortal(w, i + 1)
      BY <1>4, <2>3, <3>2, MortalShifts
    <3>3. CASE QuarantinedAt(i + 1)
      BY <1>4, <2>3, <3>3, QuarantineShifts
    <3> QED
      BY <3>1, <3>2, <3>3
  <2>5. ASSUME NEW j \in DOMAIN window_channel', j < i
        PROVE  ~(window_channel'[j].op \in Deaths /\ window_channel'[j].window = w)
    <3>1. j + 1 \in DOMAIN window_channel /\ window_channel'[j] = window_channel[j + 1]
      BY <1>2, <1>4, <2>1, <2>5 DEF Shifts
    <3>2. j + 1 < i + 1
      BY <1>2, <2>5
    <3> QED
      BY <2>2, <3>1, <3>2 DEF ToldInTime
  <2> QED
    BY <2>4, <2>5 DEF ToldInTime
<1> QED
  BY <1>13, <1>15, <1>16

-----------------------------------------------------------------------------
(* What the steps of the others do to each part: they append events. *)

Grown(N) ==
  /\ window_channel' \in Seq(WindowEvents)
  /\ Len(window_channel) \in Nat /\ DOMAIN window_channel = 1..Len(window_channel)
  /\ Len(window_channel') \in Nat /\ DOMAIN window_channel' = 1..Len(window_channel')
  /\ Len(window_channel') >= Len(window_channel)
  /\ \A j \in DOMAIN window_channel :
       j \in DOMAIN window_channel' /\ window_channel'[j] = window_channel[j]
  /\ \A i \in DOMAIN window_channel' :
       i \in DOMAIN window_channel \/ (i > Len(window_channel) /\ window_channel'[i] \in N)
  /\ \A e \in N : \E i \in DOMAIN window_channel' :
       i > Len(window_channel) /\ window_channel'[i] = e

ReactorRests ==
  UNCHANGED <<window_topology, pre_known, known, windows, tracked, info, observed, dropped, late>>

LEMMA NothingGrows ==
  ASSUME TrackingInv, window_channel' = window_channel
  PROVE  Grown({})
BY DEF Grown, TrackingInv, TrackingTypeOK

LEMMA OneGrows ==
  ASSUME TrackingInv, NEW e \in WindowEvents, window_channel' = Append(window_channel, e)
  PROVE  Grown({e})
<1>1. PICK c \in Seq(WindowEvents) : c = window_channel
  BY DEF TrackingInv, TrackingTypeOK
<1>2. PICK d : d = Append(c, e)
  OBVIOUS
<1>3. /\ Len(c) \in Nat /\ DOMAIN c = 1..Len(c)
      /\ d \in Seq(WindowEvents) /\ Len(d) = Len(c) + 1 /\ DOMAIN d = 1..Len(c) + 1
      /\ \A j \in 1..Len(c) : d[j] = c[j]
      /\ d[Len(c) + 1] = e
  BY <1>2
<1>4. window_channel = c /\ window_channel' = d
  BY <1>1, <1>2
<1>5. \A i \in 1..Len(c) + 1 : i \in 1..Len(c) \/ i = Len(c) + 1
  BY <1>3
<1>6. Len(c) + 1 \in 1..Len(c) + 1 /\ Len(c) + 1 > Len(c) /\ Len(c) + 1 \in Nat
  BY <1>3
<1> QED
  BY <1>3, <1>4, <1>5, <1>6 DEF Grown

LEMMA TwoGrow ==
  ASSUME TrackingInv, NEW e \in WindowEvents, NEW f \in WindowEvents,
         window_channel' = Append(Append(window_channel, e), f)
  PROVE  Grown({e, f})
<1>1. PICK c \in Seq(WindowEvents) : c = window_channel
  BY DEF TrackingInv, TrackingTypeOK
<1>2. PICK b \in Seq(WindowEvents) : b = Append(c, e)
  <2>1. Append(c, e) \in Seq(WindowEvents)
    OBVIOUS
  <2> QED
    BY <2>1
<1>3. PICK d : d = Append(b, f)
  OBVIOUS
<1>4. /\ Len(c) \in Nat /\ DOMAIN c = 1..Len(c)
      /\ Len(b) = Len(c) + 1
      /\ \A j \in 1..Len(c) : b[j] = c[j]
      /\ b[Len(c) + 1] = e
  BY <1>2
<1>5. /\ d \in Seq(WindowEvents) /\ Len(d) = Len(b) + 1 /\ DOMAIN d = 1..Len(b) + 1
      /\ \A j \in 1..Len(b) : d[j] = b[j]
      /\ d[Len(b) + 1] = f
  BY <1>3
<1>6. /\ Len(d) = Len(c) + 2 /\ DOMAIN d = 1..Len(c) + 2
      /\ \A j \in 1..Len(c) : d[j] = c[j]
      /\ d[Len(c) + 1] = e /\ d[Len(c) + 2] = f
  BY <1>4, <1>5
<1>7. window_channel = c /\ window_channel' = d
  BY <1>1, <1>2, <1>3
<1>8. \A i \in 1..Len(c) + 2 : i \in 1..Len(c) \/ i = Len(c) + 1 \/ i = Len(c) + 2
  BY <1>4
<1>9. /\ Len(c) + 1 \in 1..Len(c) + 2 /\ Len(c) + 1 > Len(c)
      /\ Len(c) + 2 \in 1..Len(c) + 2 /\ Len(c) + 2 > Len(c) /\ Len(c) + 2 \in Nat
      /\ Len(c) + 2 >= Len(c)
  BY <1>4
<1> QED
  BY <1>4, <1>5, <1>6, <1>7, <1>8, <1>9 DEF Grown

LEMMA GrownTypes ==
  ASSUME TrackingInv, NEW N, Grown(N), Tracking!TypeOK', born \subseteq born', IsFiniteSet(born'),
         requests' \in Seq(Requests), notices' \subseteq [kind : NoticeKinds, window : born'],
         \A e \in N : EventIsBorn(e)'
  PROVE  TrackingTypeOK'
<1>1. ASSUME NEW i \in DOMAIN window_channel'  PROVE EventIsBorn(window_channel[i])'
  <2>1. CASE i \in DOMAIN window_channel
    <3>1. EventIsBorn(window_channel[i]) /\ window_channel'[i] = window_channel[i]
      BY <2>1 DEF TrackingInv, TrackingTypeOK, Grown
    <3> QED
      BY <3>1 DEF EventIsBorn
  <2>2. CASE window_channel'[i] \in N
    <3>1. PICK e \in N : e = window_channel'[i]
      BY <2>2
    <3>2. EventIsBorn(e)'
      OBVIOUS
    <3> QED
      BY <3>1, <3>2 DEF EventIsBorn
  <2> QED
    BY <2>1, <2>2 DEF Grown
<1> QED
  BY <1>1 DEF TrackingTypeOK, Grown

LEMMA GrownDead ==
  ASSUME TrackingInv, NEW N, Grown(N), alive' \cap born \subseteq alive,
         \A e \in N : e.op \in Deaths => e.window \notin alive',
         \A n \in notices' : n.kind \in {"ServerDestroyed", "Destroyed"} =>
                               n \in notices \/ n.window \notin alive'
  PROVE  DeadStayDead'
<1>1. ASSUME NEW i \in DOMAIN window_channel', window_channel'[i].op \in Deaths
      PROVE  window_channel'[i].window \notin alive'
  <2>1. CASE i \in DOMAIN window_channel
    <3>1. window_channel[i].window \in born /\ window_channel[i].window \notin alive
          /\ window_channel'[i] = window_channel[i]
      BY <1>1, <2>1 DEF TrackingInv, TrackingTypeOK, EventIsBorn, DeadStayDead, Deaths, Grown
    <3> QED
      BY <3>1
  <2>2. CASE window_channel'[i] \in N
    BY <1>1, <2>2
  <2> QED
    BY <2>1, <2>2 DEF Grown
<1>2. ASSUME NEW n \in notices', n.kind \in {"ServerDestroyed", "Destroyed"}
      PROVE  n.window \notin alive'
  <2>1. CASE n \in notices
    <3>1. n.window \in born /\ n.window \notin alive
      BY <1>2, <2>1 DEF TrackingInv, TrackingTypeOK, DeadStayDead
    <3> QED
      BY <3>1
  <2> QED
    BY <1>2, <2>1
<1> QED
  BY <1>1, <1>2 DEF DeadStayDead

LEMMA GrownEnds ==
  ASSUME TrackingInv, NEW N, Grown(N),
         app' # "ended" =>
           /\ app # "ended" /\ thread' # "stopped"
           /\ \A e \in N : e.op \notin {"ApplicationTerminated", "ApplicationThreadTerminated"}
           /\ \A i \in DOMAIN requests' : requests'[i].op # "Terminate"
  PROVE  OnlyAtTheEnd'
<1> SUFFICES ASSUME app' # "ended"  PROVE OnlyAtTheEnd'
  BY DEF OnlyAtTheEnd
<1>1. ASSUME NEW i \in DOMAIN window_channel'
      PROVE  window_channel'[i].op \notin {"ApplicationTerminated", "ApplicationThreadTerminated"}
  BY DEF TrackingInv, OnlyAtTheEnd, Grown
<1> QED
  BY <1>1 DEF OnlyAtTheEnd

LEMMA GrownLaunches ==
  ASSUME TrackingInv, NEW N, Grown(N), ReactorRests, app' = app, thread' = thread,
         app = "none" => born' = {},
         app # "ended" => \A e \in N : e.op # "ApplicationLaunched" /\ (e.op \in Tellings => thread = "up")
  PROVE  LaunchedFirst'
<1> SUFFICES ASSUME app # "ended"  PROVE LaunchedFirst'
  BY DEF LaunchedFirst
<1>1. LaunchedFirst /\ UNCHANGED <<known, windows, tracked>>
  BY DEF TrackingInv, ReactorRests
<1>2. ASSUME NEW i \in DOMAIN window_channel', window_channel'[i].op = "ApplicationLaunched"
      PROVE  i \in DOMAIN window_channel
  BY <1>2 DEF Grown
<1>3. ASSUME NEW i \in DOMAIN window_channel', window_channel'[i].op \in Tellings, thread # "up"
      PROVE  i \in DOMAIN window_channel
  BY <1>3 DEF Grown
<1>4. \A i \in DOMAIN window_channel :
        /\ i \in DOMAIN window_channel' /\ window_channel'[i] = window_channel[i]
        /\ \A j \in DOMAIN window_channel' : j < i => j \in DOMAIN window_channel
  BY DEF Grown
<1> QED
  BY <1>1, <1>2, <1>3, <1>4 DEF LaunchedFirst

LEMMA LaterGrows ==
  ASSUME NEW N, Grown(N), NEW i, NEW ops, Later(i, ops)
  PROVE  Later(i, ops)'
BY DEF Later, Grown

LEMMA QuarantineGrows ==
  ASSUME NEW N, Grown(N), window_topology' = window_topology,
         NEW i \in 1..Len(window_channel) + 1, QuarantinedAt(i)
  PROVE  QuarantinedAt(i)'
<1>1. ASSUME NEW k \in DOMAIN window_channel', k < i
      PROVE  k \in DOMAIN window_channel /\ window_channel'[k] = window_channel[k]
  BY <1>1 DEF Grown
<1>2. \A k \in DOMAIN window_channel :
        k \in DOMAIN window_channel' /\ window_channel'[k] = window_channel[k]
  BY DEF Grown
<1> QED
  BY <1>1, <1>2 DEF QuarantinedAt

\* Only a snapshot ends a quarantine.
LEMMA QuarantineLasts ==
  ASSUME NEW N, Grown(N), window_topology' = window_topology,
         QuarantinedAt(Len(window_channel) + 1), \A e \in N : e.op # "ScreenParametersChanged",
         NEW i \in Nat, i > Len(window_channel)
  PROVE  QuarantinedAt(i)'
<1>1. PICK n : n = Len(window_channel)
  OBVIOUS
<1>2. /\ n \in Nat /\ DOMAIN window_channel = 1..n /\ i \in Nat /\ i > n
      /\ \A j \in DOMAIN window_channel :
           j \in DOMAIN window_channel' /\ window_channel'[j] = window_channel[j]
      /\ \A k \in DOMAIN window_channel' :
           window_channel'[k].op = "ScreenParametersChanged" => k \in DOMAIN window_channel
  BY <1>1 DEF Grown
<1>3. ASSUME NEW j \in DOMAIN window_channel, window_channel[j].op = "DisplayChurnBegin",
             \A k \in DOMAIN window_channel :
               j < k /\ k < n + 1 => window_channel[k].op # "ScreenParametersChanged"
      PROVE  QuarantinedAt(i)'
  <2>1. /\ j \in DOMAIN window_channel' /\ j < i /\ window_channel'[j].op = "DisplayChurnBegin"
        /\ \A k \in DOMAIN window_channel' :
             j < k /\ k < i => window_channel'[k].op # "ScreenParametersChanged"
    BY <1>2, <1>3
  <2> QED
    BY <2>1 DEF QuarantinedAt
<1>4. CASE window_topology # "Stable" /\ \A k \in DOMAIN window_channel :
             k < n + 1 => window_channel[k].op # "ScreenParametersChanged"
  <2>1. \A k \in DOMAIN window_channel' :
          k < i => window_channel'[k].op # "ScreenParametersChanged"
    BY <1>2, <1>4
  <2> QED
    BY <1>4, <2>1 DEF QuarantinedAt
<1> QED
  BY <1>1, <1>3, <1>4 DEF QuarantinedAt

LEMMA GrownQuarantines ==
  ASSUME TrackingInv, NEW N, Grown(N), ReactorRests,
         ACTIVE' => QuarantinedAt(Len(window_channel) + 1)',
         \A i \in DOMAIN window_channel' :
           i > Len(window_channel) /\ window_channel'[i].op = "DisplayChurnEnd" =>
             QuarantinedAt(i)' /\ owed',
         \A e \in N : e.op = "DisplayChurnBegin" => ACTIVE',
         ACTIVE => ACTIVE' \/ \E e \in N : e.op = "DisplayChurnEnd",
         owed => owed' \/ \E e \in N : e.op = "ScreenParametersChanged"
  PROVE  QuarantinesEnd'
<1>1. QuarantinesEnd /\ window_topology' = window_topology
  BY DEF TrackingInv, ReactorRests
<1>2. \A i \in 0..Len(window_channel) : \A ops :
        (\E e \in N : e.op \in ops) => Later(i, ops)'
  BY DEF Later, Grown
<1>3. \A i, ops : Later(i, ops) => Later(i, ops)'
  BY LaterGrows
<1>4. ASSUME NEW i \in DOMAIN window_channel'
      PROVE  /\ window_channel'[i].op = "DisplayChurnEnd" => QuarantinedAt(i)'
             /\ window_channel'[i].op = "DisplayChurnBegin" => ACTIVE' \/ Later(i, {"DisplayChurnEnd"})'
             /\ window_channel'[i].op = "DisplayChurnEnd" =>
                  owed' \/ Later(i, {"DisplayChurnBegin", "ScreenParametersChanged"})'
  <2>1. CASE i \in DOMAIN window_channel
    <3>1. window_channel'[i] = window_channel[i] /\ i \in 0..Len(window_channel)
          /\ i \in 1..Len(window_channel) + 1
      BY <2>1 DEF Grown
    <3>2. /\ window_channel[i].op = "DisplayChurnEnd" => QuarantinedAt(i)
          /\ window_channel[i].op = "DisplayChurnBegin" => ACTIVE \/ Later(i, {"DisplayChurnEnd"})
          /\ window_channel[i].op = "DisplayChurnEnd" =>
               owed \/ Later(i, {"DisplayChurnBegin", "ScreenParametersChanged"})
      BY <1>1, <2>1 DEF QuarantinesEnd
    <3>3. QuarantinedAt(i) => QuarantinedAt(i)'
      BY <1>1, <3>1, QuarantineGrows
    <3> QED
      BY <1>2, <1>3, <3>1, <3>2, <3>3
  <2>2. CASE i > Len(window_channel) /\ window_channel'[i] \in N
    BY <2>2
  <2> QED
    BY <2>1, <2>2 DEF Grown
<1>5. 0 \in 0..Len(window_channel)
  BY DEF Grown
<1>6. window_topology = "Churning" => ACTIVE' \/ Later(0, {"DisplayChurnEnd"})'
  <2>1. window_topology = "Churning" => ACTIVE \/ Later(0, {"DisplayChurnEnd"})
    BY <1>1 DEF QuarantinesEnd
  <2> QED
    BY <1>2, <1>3, <1>5, <2>1
<1>7. window_topology = "Awaiting" =>
        owed' \/ Later(0, {"DisplayChurnBegin", "ScreenParametersChanged"})'
  <2>1. window_topology = "Awaiting" =>
          owed \/ Later(0, {"DisplayChurnBegin", "ScreenParametersChanged"})
    BY <1>1 DEF QuarantinesEnd
  <2> QED
    BY <1>2, <1>3, <1>5, <2>1
<1> QED
  BY <1>1, <1>4, <1>6, <1>7 DEF QuarantinesEnd

\* Steps that are not about reconfigurations.
LEMMA PlainQuarantines ==
  ASSUME TrackingInv, NEW N, Grown(N), ReactorRests, ACTIVE' = ACTIVE, owed' = owed,
         \A e \in N : e.op \notin {"DisplayChurnBegin", "DisplayChurnEnd", "ScreenParametersChanged"}
  PROVE  QuarantinesEnd'
<1>1. ACTIVE' => QuarantinedAt(Len(window_channel) + 1)'
  <2>1. PICK m : m = Len(window_channel')
    OBVIOUS
  <2>2. m + 1 \in Nat /\ m + 1 > Len(window_channel)
    BY <2>1 DEF Grown
  <2>3. ACTIVE => QuarantinedAt(Len(window_channel) + 1)
    BY DEF TrackingInv, QuarantinesEnd
  <2>4. ACTIVE => QuarantinedAt(m + 1)'
    BY <2>2, <2>3, QuarantineLasts DEF ReactorRests
  <2>5. QuarantinedAt(m + 1)' => QuarantinedAt(Len(window_channel) + 1)'
    BY <2>1 DEF QuarantinedAt
  <2> QED
    BY <2>4, <2>5
<1>2. \A i \in DOMAIN window_channel' :
        i > Len(window_channel) => window_channel'[i].op # "DisplayChurnEnd"
  BY DEF Grown
<1> QED
  BY <1>1, <1>2, GrownQuarantines

LEMMA ToldGrows ==
  ASSUME NEW N, Grown(N), NEW w, Told(w) \/ \E e \in N : Tells(e, w)
  PROVE  Told(w)'
<1>1. PICK i \in DOMAIN window_channel' : Tells(window_channel'[i], w)
  <2>1. CASE Told(w)
    BY <2>1 DEF Told, Grown
  <2>2. CASE \E e \in N : Tells(e, w)
    <3>1. PICK e \in N : Tells(e, w)
      BY <2>2
    <3>2. PICK i \in DOMAIN window_channel' : window_channel'[i] = e
      BY DEF Grown
    <3> QED
      BY <3>1, <3>2
  <2> QED
    BY <2>1, <2>2
<1> QED
  BY <1>1 DEF Told, Tells

LEMMA GrownComes ==
  ASSUME TrackingInv, NEW N, Grown(N), ReactorRests, app' = app, thread' = thread,
         app = "running" /\ thread = "up" =>
           /\ Asking => Asking' \/ \A w \in alive' : \E e \in N : Tells(e, w)
           /\ \A w \in alive' :
                \/ \E e \in N : Tells(e, w)
                \/ w \notin elements' /\ Tracking!Note("Created", w) \in notices'
                \/ w \in alive /\ ~(w \notin elements /\ Tracking!Note("Created", w) \in notices)
  PROVE  WindowsCome'
<1> SUFFICES ASSUME app = "running", thread = "up", NEW w \in alive'
             PROVE  \/ w \in windows' /\ w \in tracked'
                    \/ Told(w)'
                    \/ known' /\ window_topology' # "Stable"
                    \/ known' /\ Asking'
                    \/ w \notin elements' /\ Tracking!Note("Created", w) \in notices'
  BY DEF WindowsCome, Tracking!Note
<1>1. UNCHANGED <<windows, tracked, known, window_topology>>
  BY DEF ReactorRests
<1>2. CASE \E e \in N : Tells(e, w)
  BY <1>2, ToldGrows
<1>3. CASE w \notin elements' /\ Tracking!Note("Created", w) \in notices'
  BY <1>3
<1>4. CASE /\ ~\E e \in N : Tells(e, w)
           /\ w \in alive /\ ~(w \notin elements /\ Tracking!Note("Created", w) \in notices)
  <2>1. \/ w \in windows /\ w \in tracked
        \/ Told(w)
        \/ known /\ window_topology # "Stable"
        \/ known /\ Asking
    BY <1>4 DEF TrackingInv, WindowsCome
  <2>2. Asking => Asking'
    BY <1>4
  <2>3. Told(w) => Told(w)'
    BY ToldGrows
  <2> QED
    BY <1>1, <2>1, <2>2, <2>3
<1> QED
  BY <1>2, <1>3, <1>4

\* The window server still tells of a window's end, or a quarantine drops that.
LEMMA MortalGrows ==
  ASSUME TrackingInv, NEW N, Grown(N), NEW i \in 0..Len(window_channel),
         i # 0 => window_channel[i].op # "DisplayChurnBegin",
         NEW w, Mortal(w, i) \/ Tracking!Note("ServerDestroyed", w) \in notices',
         Tracking!Note("ServerDestroyed", w) \in notices =>
           \/ Tracking!Note("ServerDestroyed", w) \in notices'
           \/ \E e \in N : e.op = "ServerDestroyed" /\ e.window = w
           \/ QuarantinedAt(Len(window_channel) + 1)
  PROVE  Mortal(w, i)' \/ QuarantinedAt(i)
<1>1. CASE Tracking!Note("ServerDestroyed", w) \in notices'
  BY <1>1 DEF Mortal, Tracking!Note
<1>2. CASE \E j \in DOMAIN window_channel :
             /\ i < j
             /\ \/ window_channel[j].op = "DisplayChurnBegin"
                \/ window_channel[j].op = "ServerDestroyed" /\ window_channel[j].window = w
  <2>1. PICK j \in DOMAIN window_channel :
             /\ i < j
             /\ \/ window_channel[j].op = "DisplayChurnBegin"
                \/ window_channel[j].op = "ServerDestroyed" /\ window_channel[j].window = w
    BY <1>2
  <2>2. j \in DOMAIN window_channel' /\ window_channel'[j] = window_channel[j]
    BY DEF Grown
  <2> QED
    BY <2>1, <2>2 DEF Mortal
<1>3. CASE \E e \in N : e.op = "ServerDestroyed" /\ e.window = w
  <2>1. PICK e \in N : e.op = "ServerDestroyed" /\ e.window = w
    BY <1>3
  <2>2. PICK j \in DOMAIN window_channel' : j > Len(window_channel) /\ window_channel'[j] = e
    BY DEF Grown
  <2>3. i < j
    BY <2>2 DEF Grown
  <2> QED
    BY <2>1, <2>2, <2>3 DEF Mortal
<1>4. CASE QuarantinedAt(Len(window_channel) + 1)
  <2>1. PICK n : n = Len(window_channel)
    OBVIOUS
  <2>2. n \in Nat /\ DOMAIN window_channel = 1..n /\ i \in 0..n
    BY <2>1 DEF Grown
  <2>3. ASSUME NEW j \in 1..n, window_channel[j].op = "DisplayChurnBegin",
               \A k \in 1..n : j < k /\ k < n + 1 => window_channel[k].op # "ScreenParametersChanged"
        PROVE  Mortal(w, i)' \/ QuarantinedAt(i)
    <3>1. CASE i < j
      BY <1>2, <2>2, <2>3, <3>1
    <3>2. CASE j < i
      <4>1. \A k \in 1..n : j < k /\ k < i => window_channel[k].op # "ScreenParametersChanged"
        BY <2>2, <2>3
      <4> QED
        BY <2>2, <2>3, <3>2, <4>1 DEF QuarantinedAt
    <3>3. i # j
      BY <2>3
    <3>4. i < j \/ j < i
      BY <2>2, <3>3
    <3> QED
      BY <3>1, <3>2, <3>4
  <2>4. CASE window_topology # "Stable" /\ \A k \in 1..n :
               k < n + 1 => window_channel[k].op # "ScreenParametersChanged"
    <3>1. \A k \in 1..n : k < i => window_channel[k].op # "ScreenParametersChanged"
      BY <2>2, <2>4
    <3> QED
      BY <2>2, <2>4, <3>1 DEF QuarantinedAt
  <2> QED
    BY <1>4, <2>1, <2>2, <2>3, <2>4 DEF QuarantinedAt
<1> QED
  BY <1>1, <1>2, <1>3, <1>4 DEF Mortal

LEMMA GrownGoes ==
  ASSUME TrackingInv, NEW N, Grown(N), ReactorRests, app' = app,
         born \subseteq born', \A w \in born' \ alive' : w \in born, alive' \cap born \subseteq alive,
         app = "running" =>
           /\ \A e \in N : \A w : Tells(e, w) => w \in alive'
           /\ \A w \in born : w \notin alive' =>
                /\ w \in alive => Tracking!Note("ServerDestroyed", w) \in notices'
                /\ Tracking!Note("ServerDestroyed", w) \in notices =>
                     \/ Tracking!Note("ServerDestroyed", w) \in notices'
                     \/ \E e \in N : e.op = "ServerDestroyed" /\ e.window = w
                     \/ QuarantinedAt(Len(window_channel) + 1)
  PROVE  WindowsGo'
<1>1. UNCHANGED <<window_topology, pre_known, windows, tracked, dropped, late>>
  BY DEF ReactorRests
<1> SUFFICES ASSUME app = "running"
             PROVE  /\ Compared'
                    /\ \A w \in windows' \ alive' : Known(w)'
                    /\ \A i \in DOMAIN window_channel', w \in born' \ alive' :
                         Tells(window_channel'[i], w) => ToldInTime(i, w)'
  BY DEF WindowsGo, Tells
<1>2. /\ Compared
      /\ \A w \in windows \ alive : Known(w)
      /\ \A i \in DOMAIN window_channel, w \in born \ alive :
           Tells(window_channel[i], w) => ToldInTime(i, w)
  BY DEF TrackingInv, WindowsGo
<1>3. windows \subseteq born
  BY DEF TrackingInv, TrackingTypeOK, Tracking!TypeOK
<1>4. Compared'
  BY <1>1, <1>2, <1>3 DEF Compared
<1>5. ASSUME NEW w \in windows, w \notin alive'  PROVE Known(w)'
  <2>1. w \in born
    BY <1>3, <1>5
  <2>2. ASSUME w \in tracked, Mortal(w, 0) \/ Tracking!Note("ServerDestroyed", w) \in notices'
        PROVE  Known(w)'
    <3>1. 0 \in 0..Len(window_channel)
      BY DEF Grown
    <3>2. Mortal(w, 0)' \/ QuarantinedAt(0)
      BY <1>5, <2>1, <2>2, <3>1, MortalGrows
    <3>3. CASE Mortal(w, 0)'
      BY <1>1, <2>2, <3>3 DEF Known
    <3>4. CASE QuarantinedAt(0)
      <4>1. window_topology # "Stable"
        BY <3>4 DEF QuarantinedAt, Grown
      <4>2. w \in pre_known \/ w \in late
        BY <1>2, <1>5, <2>2, <4>1 DEF Compared
      <4> QED
        BY <1>1, <2>2, <4>1, <4>2 DEF Known
    <3> QED
      BY <3>2, <3>3, <3>4
  <2>3. CASE w \in alive
    <3>1. w \in tracked
      BY <1>2, <1>5, <2>3 DEF Compared
    <3> QED
      BY <1>5, <2>1, <2>2, <2>3, <3>1
  <2>4. CASE w \notin alive
    <3>1. Known(w)
      BY <1>2, <1>5, <2>4
    <3>2. Dying(w) => Dying(w)'
      BY DEF Dying, Grown
    <3>3. CASE w \in tracked /\ Mortal(w, 0)
      BY <2>2, <3>3
    <3>4. CASE \/ w \in dropped \cup late
               \/ Dying(w)'
               \/ w \in tracked /\ window_topology # "Stable" /\ w \in pre_known
      BY <1>1, <3>4 DEF Known
    <3> QED
      BY <3>1, <3>2, <3>3, <3>4 DEF Known
  <2> QED
    BY <2>3, <2>4
<1>6. ASSUME NEW i \in DOMAIN window_channel', NEW w \in born' \ alive', Tells(window_channel'[i], w)
      PROVE  ToldInTime(i, w)'
  <2>1. i \in DOMAIN window_channel /\ window_channel'[i] = window_channel[i]
    <3>1. window_channel'[i] \notin N
      BY <1>6
    <3> QED
      BY <3>1 DEF Grown
  <2>2. w \in born
    BY <1>6
  <2>3. i \in 0..Len(window_channel) /\ i \in 1..Len(window_channel) + 1
        /\ window_channel[i].op # "DisplayChurnBegin"
    <3>1. window_channel[i].op # "DisplayChurnBegin"
      BY <1>6, <2>1 DEF Tells
    <3> QED
      BY <2>1, <3>1 DEF Grown
  <2>4. /\ Mortal(w, i) \/ QuarantinedAt(i) \/ Tracking!Note("ServerDestroyed", w) \in notices'
        /\ \A j \in DOMAIN window_channel :
             j < i => ~(window_channel[j].op \in Deaths /\ window_channel[j].window = w)
    <3>1. CASE w \in alive
      BY <1>6, <2>2, <3>1 DEF TrackingInv, DeadStayDead
    <3>2. CASE w \notin alive
      <4>1. ToldInTime(i, w)
        BY <1>2, <1>6, <2>1, <2>2, <3>2
      <4> QED
        BY <4>1 DEF ToldInTime
    <3> QED
      BY <3>1, <3>2
  <2>5. Mortal(w, i)' \/ QuarantinedAt(i)
    <3>1. CASE Mortal(w, i) \/ Tracking!Note("ServerDestroyed", w) \in notices'
      BY <1>6, <2>2, <2>3, <3>1, MortalGrows
    <3> QED
      BY <2>4, <3>1
  <2>6. QuarantinedAt(i) => QuarantinedAt(i)'
    BY <1>1, <2>3, QuarantineGrows
  <2>7. ASSUME NEW j \in DOMAIN window_channel', j < i
        PROVE  ~(window_channel'[j].op \in Deaths /\ window_channel'[j].window = w)
    <3>1. j \in DOMAIN window_channel /\ window_channel'[j] = window_channel[j]
      BY <2>1, <2>7 DEF Grown
    <3> QED
      BY <2>4, <2>7, <3>1
  <2> QED
    BY <2>5, <2>6, <2>7 DEF ToldInTime
<1> QED
  BY <1>1, <1>4, <1>5, <1>6

-----------------------------------------------------------------------------
(* The steps of the application, the window server, the notification centre *)
(* and the application's thread keep the invariant.                         *)

LEMMA RestsUnfolds ==
  ASSUME UNCHANGED Tracking!reactorVars
  PROVE  ReactorRests
BY DEF Tracking!reactorVars, Tracking!registryVars, ReactorRests

LEMMA TypesOfTracking ==
  ASSUME TrackingInv
  PROVE  /\ alive \subseteq born /\ born \subseteq Windows /\ elements \subseteq born
         /\ windows \subseteq born /\ tracked \subseteq born /\ info \subseteq born
         /\ observed \subseteq born /\ IsFiniteSet(born)
         /\ window_topology \in {"Stable", "Churning", "Awaiting"}
         /\ app \in {"none", "running", "ended"}
         /\ thread \in {"none", "starting", "up", "stopped"}
         /\ known \in BOOLEAN /\ (requests # <<>> => thread = "up") /\ (app = "ended" => alive = {})
         /\ requests \in Seq(Requests)
         /\ notices \subseteq [kind : NoticeKinds, window : born]
BY DEF TrackingInv, TrackingTypeOK, Tracking!TypeOK

\* The types, where the registry rests.
LEMMA TypesRest ==
  ASSUME TrackingInv, ReactorRests, born \subseteq born', born' \subseteq Windows,
         alive' \subseteq born', elements' \subseteq born',
         app' \in {"none", "running", "ended"}, thread' \in {"none", "starting", "up", "stopped"},
         requests' # <<>> => thread' = "up", app' = "ended" => alive' = {}
  PROVE  Tracking!TypeOK'
<1>1. known' \in BOOLEAN
  BY TypesOfTracking DEF ReactorRests
<1> QED
  BY <1>1, TypesOfTracking DEF Tracking!TypeOK, ReactorRests

LEMMA LaunchTracked ==
  ASSUME TrackingInv, Tracking!Launch
  PROVE  TrackingInv'
<1>1. /\ app = "none" /\ app' = "running" /\ thread' = "starting"
      /\ UNCHANGED <<alive, born, ACTIVE, owed, churns, notices, elements, requests, window_channel>>
      /\ ReactorRests
  BY RestsUnfolds DEF Tracking!Launch, Tracking!centreVars
<1>2. Grown({})
  BY <1>1, NothingGrows
<1>3. born = {} /\ thread = "none"
  BY <1>1 DEF TrackingInv, LaunchedFirst
<1>4. requests = <<>> /\ alive = {} /\ windows = {} /\ notices = {}
  <2>1. [kind : NoticeKinds, window : {}] = {}
    OBVIOUS
  <2> QED
    BY <1>3, <2>1, TypesOfTracking
<1>5. Tracking!TypeOK'
  <2>1. requests' # <<>> => thread' = "up"
    BY <1>1, <1>4
  <2> QED
    BY <1>1, <2>1, TypesOfTracking, TypesRest
<1>6. TrackingTypeOK'
  BY <1>1, <1>2, <1>5, TypesOfTracking, GrownTypes
<1>7. DeadStayDead'
  BY <1>1, <1>2, GrownDead
<1>8. OnlyAtTheEnd'
  <2>1. \A i \in DOMAIN requests' : requests'[i].op # "Terminate"
    BY <1>1, <1>4
  <2> QED
    BY <1>1, <1>2, <2>1, GrownEnds
<1>9. LaunchedFirst'
  BY <1>1, <1>3 DEF TrackingInv, LaunchedFirst, ReactorRests
<1>10. QuarantinesEnd'
  BY <1>1, <1>2, PlainQuarantines
<1>11. WindowsCome'
  BY <1>1 DEF WindowsCome
<1>12. WindowsGo'
  <2>1. Compared' /\ \A w \in windows' \ alive' : Known(w)'
    BY <1>1, <1>4 DEF ReactorRests, Compared
  <2>2. \A i \in DOMAIN window_channel', w \in born' \ alive' :
          Tells(window_channel[i], w)' => ToldInTime(i, w)'
    BY <1>1, <1>3
  <2> QED
    BY <2>1, <2>2 DEF WindowsGo
<1> QED
  BY <1>6, <1>7, <1>8, <1>9, <1>10, <1>11, <1>12 DEF TrackingInv

LEMMA OpenTracked ==
  ASSUME TrackingInv, NEW v \in Windows, Tracking!Open(v)
  PROVE  TrackingInv'
<1>1. /\ app = "running" /\ v \notin born
      /\ alive' = alive \cup {v} /\ born' = born \cup {v}
      /\ notices' = notices \cup {Tracking!Note("ServerAppeared", v), Tracking!Note("Created", v)}
      /\ UNCHANGED <<app, ACTIVE, owed, churns, thread, elements, requests, window_channel>>
      /\ ReactorRests
  BY RestsUnfolds DEF Tracking!Open, Tracking!centreVars, Tracking!threadVars
<1>2. Grown({})
  BY <1>1, NothingGrows
<1>3. /\ Tracking!Note("ServerAppeared", v) = [kind |-> "ServerAppeared", window |-> v]
      /\ Tracking!Note("Created", v) = [kind |-> "Created", window |-> v]
  BY DEF Tracking!Note
<1>4. Tracking!TypeOK'
  BY <1>1, TypesOfTracking, TypesRest
<1>5. TrackingTypeOK'
  <2>1. IsFiniteSet(born')
    BY <1>1, TypesOfTracking, FS_AddElement
  <2>2. notices' \subseteq [kind : NoticeKinds, window : born']
    BY <1>1, <1>3, TypesOfTracking DEF NoticeKinds
  <2> QED
    BY <1>1, <1>2, <1>4, <2>1, <2>2, TypesOfTracking, GrownTypes
<1>6. DeadStayDead'
  BY <1>1, <1>2, <1>3, GrownDead
<1>7. OnlyAtTheEnd'
  BY <1>1, <1>2, GrownEnds DEF TrackingInv, OnlyAtTheEnd
<1>8. LaunchedFirst'
  BY <1>1, <1>2, GrownLaunches
<1>9. QuarantinesEnd'
  BY <1>1, <1>2, PlainQuarantines
<1>10. WindowsCome'
  <2>1. v \notin elements'
    BY <1>1, TypesOfTracking
  <2>2. Asking => Asking'
    BY <1>1 DEF Asking
  <2>3. \A w \in alive' :
          \/ w \notin elements' /\ Tracking!Note("Created", w) \in notices'
          \/ w \in alive /\ ~(w \notin elements /\ Tracking!Note("Created", w) \in notices)
    BY <1>1, <2>1
  <2> QED
    BY <1>1, <1>2, <2>2, <2>3, GrownComes
<1>11. WindowsGo'
  <2>1. alive' \cap born \subseteq alive /\ \A w \in born' \ alive' : w \in born
    BY <1>1
  <2>2. \A w \in born : w \notin alive' =>
          /\ w \in alive => Tracking!Note("ServerDestroyed", w) \in notices'
          /\ Tracking!Note("ServerDestroyed", w) \in notices =>
               Tracking!Note("ServerDestroyed", w) \in notices'
    BY <1>1
  <2> QED
    BY <1>1, <1>2, <2>1, <2>2, GrownGoes
<1> QED
  BY <1>5, <1>6, <1>7, <1>8, <1>9, <1>10, <1>11 DEF TrackingInv

LEMMA CloseTracked ==
  ASSUME TrackingInv, NEW v \in Windows, NEW told \in BOOLEAN, Tracking!Close(v, told)
  PROVE  TrackingInv'
<1>1. /\ v \in alive /\ alive' = alive \ {v}
      /\ UNCHANGED <<app, born, ACTIVE, owed, churns, thread, elements, requests, window_channel>>
      /\ ReactorRests
  BY RestsUnfolds DEF Tracking!Close, Tracking!centreVars, Tracking!threadVars
<1>2. Grown({})
  BY <1>1, NothingGrows
<1>3. /\ notices \subseteq notices' /\ Tracking!Note("ServerDestroyed", v) \in notices'
      /\ \A n \in notices' : n \in notices \/ n \in [kind : {"ServerDestroyed", "Destroyed"}, window : {v}]
  BY DEF Tracking!Close, Tracking!Note
<1>4. Tracking!TypeOK'
  BY <1>1, TypesOfTracking, TypesRest
<1>5. TrackingTypeOK'
  <2>1. notices' \subseteq [kind : NoticeKinds, window : born']
    <3>1. v \in born
      BY <1>1, TypesOfTracking
    <3>2. [kind : {"ServerDestroyed", "Destroyed"}, window : {v}] \subseteq [kind : NoticeKinds, window : born]
      BY <3>1 DEF NoticeKinds
    <3> QED
      BY <1>1, <1>3, <3>2, TypesOfTracking
  <2> QED
    BY <1>1, <1>2, <1>4, <2>1, TypesOfTracking, GrownTypes
<1>6. DeadStayDead'
  BY <1>1, <1>2, <1>3, GrownDead
<1>7. OnlyAtTheEnd'
  BY <1>1, <1>2, GrownEnds DEF TrackingInv, OnlyAtTheEnd
<1>8. LaunchedFirst'
  <2>1. app = "none" => born' = {}
    BY <1>1 DEF TrackingInv, LaunchedFirst
  <2> QED
    BY <1>1, <1>2, <2>1, GrownLaunches
<1>9. QuarantinesEnd'
  BY <1>1, <1>2, PlainQuarantines
<1>10. WindowsCome'
  <2>1. Asking => Asking'
    BY <1>1 DEF Asking
  <2>2. \A w \in alive' :
          \/ w \notin elements' /\ Tracking!Note("Created", w) \in notices'
          \/ w \in alive /\ ~(w \notin elements /\ Tracking!Note("Created", w) \in notices)
    BY <1>1, <1>3
  <2> QED
    BY <1>1, <1>2, <2>1, <2>2, GrownComes
<1>11. WindowsGo'
  <2>1. alive' \cap born \subseteq alive /\ \A w \in born' \ alive' : w \in born
    BY <1>1
  <2>2. \A w \in born : w \notin alive' =>
          /\ w \in alive => Tracking!Note("ServerDestroyed", w) \in notices'
          /\ Tracking!Note("ServerDestroyed", w) \in notices =>
               Tracking!Note("ServerDestroyed", w) \in notices'
    BY <1>1, <1>3
  <2> QED
    BY <1>1, <1>2, <2>1, <2>2, GrownGoes
<1> QED
  BY <1>5, <1>6, <1>7, <1>8, <1>9, <1>10, <1>11 DEF TrackingInv

LEMMA QuitTracked ==
  ASSUME TrackingInv, Tracking!Quit
  PROVE  TrackingInv'
<1>0. PICK e : e = [op |-> "ApplicationTerminated"]
  OBVIOUS
<1>1. /\ app = "running" /\ app' = "ended" /\ alive' = {}
      /\ window_channel' = Append(window_channel, e)
      /\ UNCHANGED <<born, ACTIVE, owed, churns, thread, elements, requests>>
      /\ ReactorRests
  BY <1>0, RestsUnfolds DEF Tracking!Quit, Tracking!centreVars, Tracking!threadVars, Tracking!Event
<1>2. Grown({e})
  <2>1. e \in WindowEvents
    BY <1>0 DEF WindowEvents
  <2> QED
    BY <1>1, <2>1, OneGrows
<1>3. notices' = notices \cup {[kind |-> "ServerDestroyed", window |-> w] : w \in alive}
  BY DEF Tracking!Quit, Tracking!Note
<1>4. Tracking!TypeOK'
  BY <1>1, TypesOfTracking, TypesRest
<1>5. TrackingTypeOK'
  <2>1. notices' \subseteq [kind : NoticeKinds, window : born']
    BY <1>1, <1>3, TypesOfTracking DEF NoticeKinds
  <2>2. EventIsBorn(e)'
    BY <1>0 DEF EventIsBorn
  <2> QED
    BY <1>1, <1>2, <1>4, <2>1, <2>2, TypesOfTracking, GrownTypes
<1>6. DeadStayDead'
  BY <1>0, <1>1, <1>2, GrownDead DEF Deaths
<1>7. OnlyAtTheEnd' /\ LaunchedFirst' /\ WindowsCome' /\ WindowsGo'
  BY <1>1 DEF OnlyAtTheEnd, LaunchedFirst, WindowsCome, WindowsGo
<1>8. QuarantinesEnd'
  BY <1>0, <1>1, <1>2, PlainQuarantines
<1> QED
  BY <1>5, <1>6, <1>7, <1>8 DEF TrackingInv

LEMMA ServerTracked ==
  ASSUME TrackingInv, NEW n \in notices, Tracking!ServerSays(n)
  PROVE  TrackingInv'
<1>1. /\ n.kind \in {"ServerAppeared", "ServerDestroyed"} /\ notices' = notices \ {n}
      /\ UNCHANGED <<app, alive, born, ACTIVE, owed, churns, thread, elements, requests>>
      /\ ReactorRests
  BY RestsUnfolds DEF Tracking!ServerSays, Tracking!centreVars, Tracking!threadVars, Tracking!worldVars
<1>2. PICK e : e = [op |-> n.kind, window |-> n.window]
  OBVIOUS
<1>3. n.window \in born /\ (n.kind = "ServerDestroyed" => n.window \notin alive)
      /\ n = [kind |-> n.kind, window |-> n.window]
  BY TypesOfTracking DEF TrackingInv, DeadStayDead
<1>4. PICK N : N = IF ACTIVE THEN {} ELSE {e}
  OBVIOUS
<1>5. Grown(N)
  <2>1. CASE ACTIVE
    <3>1. window_channel' = window_channel
      BY <2>1 DEF Tracking!ServerSays
    <3> QED
      BY <1>4, <2>1, <3>1, NothingGrows
  <2>2. CASE ~ACTIVE
    <3>1. window_channel' = Append(window_channel, e)
      BY <1>2, <2>2 DEF Tracking!ServerSays, Tracking!About
    <3>2. e \in WindowEvents
      BY <1>1, <1>2, <1>3, TypesOfTracking DEF WindowEvents
    <3> QED
      BY <1>4, <2>2, <3>1, <3>2, OneGrows
  <2> QED
    BY <2>1, <2>2
<1>6. \A f \in N : f = e
  BY <1>4
<1>7. Tracking!TypeOK'
  BY <1>1, TypesOfTracking, TypesRest
<1>8. TrackingTypeOK'
  <2>1. \A f \in N : EventIsBorn(f)'
    BY <1>1, <1>2, <1>3, <1>6 DEF EventIsBorn
  <2> QED
    BY <1>1, <1>5, <1>7, <2>1, TypesOfTracking, GrownTypes
<1>9. DeadStayDead'
  BY <1>1, <1>2, <1>3, <1>5, <1>6, GrownDead DEF Deaths
<1>10. OnlyAtTheEnd'
  BY <1>1, <1>2, <1>5, <1>6, GrownEnds DEF TrackingInv, OnlyAtTheEnd
<1>11. LaunchedFirst'
  <2>1. app = "none" => born' = {}
    BY <1>1 DEF TrackingInv, LaunchedFirst
  <2> QED
    BY <1>1, <1>2, <1>5, <1>6, <2>1, GrownLaunches DEF Tellings
<1>12. QuarantinesEnd'
  BY <1>1, <1>2, <1>5, <1>6, PlainQuarantines
<1>13. WindowsCome'
  <2>1. Asking => Asking'
    BY <1>1 DEF Asking
  <2>2. \A w : Tracking!Note("Created", w) # n
    BY <1>1 DEF Tracking!Note
  <2>3. \A w \in alive' :
          \/ w \notin elements' /\ Tracking!Note("Created", w) \in notices'
          \/ w \in alive /\ ~(w \notin elements /\ Tracking!Note("Created", w) \in notices)
    BY <1>1, <2>2
  <2> QED
    BY <1>1, <1>5, <2>1, <2>3, GrownComes
<1>14. WindowsGo'
  <2>1. alive' \cap born \subseteq alive /\ \A w \in born' \ alive' : w \in born
    BY <1>1
  <2>2. \A f \in N : \A w : ~Tells(f, w)
    BY <1>1, <1>2, <1>6 DEF Tells
  <2>3. ACTIVE => QuarantinedAt(Len(window_channel) + 1)
    BY DEF TrackingInv, QuarantinesEnd
  <2>4. ASSUME NEW w, Tracking!Note("ServerDestroyed", w) \in notices
        PROVE  \/ Tracking!Note("ServerDestroyed", w) \in notices'
               \/ \E f \in N : f.op = "ServerDestroyed" /\ f.window = w
               \/ QuarantinedAt(Len(window_channel) + 1)
    <3>1. CASE Tracking!Note("ServerDestroyed", w) # n
      BY <1>1, <2>4, <3>1
    <3>2. CASE Tracking!Note("ServerDestroyed", w) = n
      <4>1. n.kind = "ServerDestroyed" /\ n.window = w
        BY <3>2 DEF Tracking!Note
      <4>2. ~ACTIVE => e \in N /\ e.op = "ServerDestroyed" /\ e.window = w
        BY <1>2, <1>4, <4>1
      <4> QED
        BY <2>3, <4>2
    <3> QED
      BY <3>1, <3>2
  <2> QED
    BY <1>1, <1>5, <2>1, <2>2, <2>4, GrownGoes
<1> QED
  BY <1>8, <1>9, <1>10, <1>11, <1>12, <1>13, <1>14 DEF TrackingInv

\* Steps of the notification centre: what they append is not about windows.
LEMMA CentreTracked ==
  ASSUME TrackingInv, NEW e \in WindowEvents, window_channel' = Append(window_channel, e),
         UNCHANGED <<app, alive, born, notices, thread, elements, requests>>, ReactorRests,
         e.op \in {"DisplayChurnBegin", "DisplayChurnEnd", "ScreenParametersChanged"},
         QuarantinesEnd'
  PROVE  TrackingInv'
<1>1. Grown({e})
  BY OneGrows
<1>2. Tracking!TypeOK'
  BY TypesOfTracking, TypesRest
<1>3. TrackingTypeOK'
  <2>1. EventIsBorn(e)'
    BY DEF EventIsBorn
  <2> QED
    BY <1>1, <1>2, <2>1, TypesOfTracking, GrownTypes
<1>4. DeadStayDead'
  BY <1>1, GrownDead DEF Deaths
<1>5. OnlyAtTheEnd'
  BY <1>1, GrownEnds DEF TrackingInv, OnlyAtTheEnd
<1>6. LaunchedFirst'
  <2>1. app = "none" => born' = {}
    BY DEF TrackingInv, LaunchedFirst
  <2> QED
    BY <1>1, <2>1, GrownLaunches DEF Tellings
<1>7. WindowsCome'
  <2>1. Asking => Asking'
    BY DEF Asking
  <2>2. \A w \in alive' :
          \/ w \notin elements' /\ Tracking!Note("Created", w) \in notices'
          \/ w \in alive /\ ~(w \notin elements /\ Tracking!Note("Created", w) \in notices)
    OBVIOUS
  <2> QED
    BY <1>1, <2>1, <2>2, GrownComes
<1>8. WindowsGo'
  <2>1. \A w : ~Tells(e, w)
    BY DEF Tells
  <2> QED
    BY <1>1, <2>1, GrownGoes
<1> QED
  BY <1>3, <1>4, <1>5, <1>6, <1>7, <1>8 DEF TrackingInv

LEMMA BeginsTracked ==
  ASSUME TrackingInv, Tracking!ChurnBegins
  PROVE  TrackingInv'
<1>0. PICK e : e = [op |-> "DisplayChurnBegin"]
  OBVIOUS
<1>1. /\ ~ACTIVE /\ ACTIVE' /\ window_channel' = Append(window_channel, e)
      /\ UNCHANGED <<app, alive, born, owed, notices, thread, elements, requests>>
      /\ ReactorRests
  BY <1>0, RestsUnfolds DEF Tracking!ChurnBegins, Tracking!threadVars, Tracking!worldVars, Tracking!Event
<1>2. e \in WindowEvents
  BY <1>0 DEF WindowEvents
<1>3. Grown({e})
  BY <1>1, <1>2, OneGrows
<1>4. QuarantinedAt(Len(window_channel) + 1)'
  <2>1. PICK m : m = Len(window_channel')
    OBVIOUS
  <2>2. PICK c \in Seq(WindowEvents) : c = window_channel
    BY DEF TrackingInv, TrackingTypeOK
  <2>3. Len(Append(c, e)) = Len(c) + 1 /\ Append(c, e)[Len(c) + 1] = e /\ Len(c) \in Nat
        /\ DOMAIN Append(c, e) = 1..Len(c) + 1
    BY <1>2
  <2>4. m \in DOMAIN window_channel' /\ m \in Nat /\ window_channel'[m].op = "DisplayChurnBegin" /\ m < m + 1
    BY <1>0, <1>1, <2>1, <2>2, <2>3
  <2>5. \A k \in DOMAIN window_channel' : ~(m < k)
    BY <2>1, <2>4, <1>3 DEF Grown
  <2>6. QuarantinedAt(m + 1)'
    BY <2>4, <2>5 DEF QuarantinedAt
  <2> QED
    BY <2>1, <2>6 DEF QuarantinedAt
<1>5. QuarantinesEnd'
  <2>1. \A i \in DOMAIN window_channel' :
          i > Len(window_channel) => window_channel'[i].op # "DisplayChurnEnd"
    BY <1>0, <1>3 DEF Grown
  <2> QED
    BY <1>1, <1>3, <1>4, <2>1, GrownQuarantines
<1> QED
  BY <1>0, <1>1, <1>2, <1>5, CentreTracked

LEMMA EndsTracked ==
  ASSUME TrackingInv, Tracking!ChurnEnds
  PROVE  TrackingInv'
<1>0. PICK e : e = [op |-> "DisplayChurnEnd"]
  OBVIOUS
<1>1. /\ ACTIVE /\ ~ACTIVE' /\ owed' /\ window_channel' = Append(window_channel, e)
      /\ UNCHANGED <<app, alive, born, notices, thread, elements, requests>>
      /\ ReactorRests
  BY <1>0, RestsUnfolds DEF Tracking!ChurnEnds, Tracking!threadVars, Tracking!worldVars, Tracking!Event
<1>2. e \in WindowEvents
  BY <1>0 DEF WindowEvents
<1>3. Grown({e})
  BY <1>1, <1>2, OneGrows
<1>4. QuarantinedAt(Len(window_channel) + 1)
  BY <1>1 DEF TrackingInv, QuarantinesEnd
<1>5. QuarantinesEnd'
  <2>1. ASSUME NEW i \in DOMAIN window_channel', i > Len(window_channel)  PROVE QuarantinedAt(i)'
    <3>1. i \in Nat
      BY <1>3 DEF Grown
    <3>2. window_topology' = window_topology
      BY <1>1 DEF ReactorRests
    <3> QED
      BY <1>0, <1>3, <1>4, <2>1, <3>1, <3>2, QuarantineLasts
  <2> QED
    BY <1>0, <1>1, <1>3, <2>1, GrownQuarantines
<1> QED
  BY <1>0, <1>1, <1>2, <1>5, CentreTracked

LEMMA SendsTracked ==
  ASSUME TrackingInv, Tracking!SendSnapshot
  PROVE  TrackingInv'
<1>0. PICK e : e = [op |-> "ScreenParametersChanged"]
  OBVIOUS
<1>1. /\ ~ACTIVE /\ ~ACTIVE' /\ window_channel' = Append(window_channel, e)
      /\ UNCHANGED <<app, alive, born, notices, thread, elements, requests>>
      /\ ReactorRests
  BY <1>0, RestsUnfolds DEF Tracking!SendSnapshot, Tracking!threadVars, Tracking!worldVars, Tracking!Event
<1>2. e \in WindowEvents
  BY <1>0 DEF WindowEvents
<1>3. Grown({e})
  BY <1>1, <1>2, OneGrows
<1>4. QuarantinesEnd'
  <2>1. \A i \in DOMAIN window_channel' :
          i > Len(window_channel) => window_channel'[i].op # "DisplayChurnEnd"
    BY <1>0, <1>3 DEF Grown
  <2> QED
    BY <1>0, <1>1, <1>3, <2>1, GrownQuarantines
<1> QED
  BY <1>0, <1>1, <1>2, <1>4, CentreTracked

\* The thread starts, and announces the application with its windows.
LEMMA StartTracked ==
  ASSUME TrackingInv, Tracking!Start
  PROVE  TrackingInv'
<1>1. /\ thread = "starting" /\ elements' = alive
      /\ UNCHANGED <<app, alive, born, ACTIVE, owed, churns, notices, requests>>
      /\ ReactorRests
  BY RestsUnfolds DEF Tracking!Start, Tracking!centreVars, Tracking!worldVars
<1>2. PICK e : e = [op |-> "ApplicationLaunched", windows |-> alive]
  OBVIOUS
<1>3. e \in WindowEvents
  BY <1>2, TypesOfTracking DEF WindowEvents
<1>4. app # "none"
  BY <1>1 DEF TrackingInv, LaunchedFirst
<1>5. PICK N : N = IF app = "ended" THEN {} ELSE {e}
  OBVIOUS
<1>6. Grown(N) /\ thread' = IF app = "ended" THEN "stopped" ELSE "up"
  <2>1. CASE app = "ended"
    <3>1. window_channel' = window_channel /\ thread' = "stopped"
      BY <2>1 DEF Tracking!Start
    <3> QED
      BY <1>5, <2>1, <3>1, NothingGrows
  <2>2. CASE app # "ended"
    <3>1. window_channel' = Append(window_channel, e) /\ thread' = "up"
      BY <1>2, <2>2 DEF Tracking!Start
    <3> QED
      BY <1>3, <1>5, <2>2, <3>1, OneGrows
  <2> QED
    BY <2>1, <2>2
<1>7. \A f \in N : f = e
  BY <1>5
<1>8. requests = <<>>
  BY <1>1, TypesOfTracking
<1>9. Tracking!TypeOK'
  <2>1. requests' # <<>> => thread' = "up"
    BY <1>1, <1>8
  <2> QED
    BY <1>1, <1>6, <2>1, TypesOfTracking, TypesRest
<1>10. TrackingTypeOK'
  <2>1. \A f \in N : EventIsBorn(f)'
    BY <1>1, <1>2, <1>7, TypesOfTracking DEF EventIsBorn
  <2> QED
    BY <1>1, <1>6, <1>9, <2>1, TypesOfTracking, GrownTypes
<1>11. DeadStayDead'
  BY <1>1, <1>2, <1>6, <1>7, GrownDead DEF Deaths
<1>12. OnlyAtTheEnd'
  BY <1>1, <1>2, <1>6, <1>7, GrownEnds DEF TrackingInv, OnlyAtTheEnd
<1>13. QuarantinesEnd'
  BY <1>1, <1>2, <1>6, <1>7, PlainQuarantines
<1>14. WindowsGo'
  <2>1. \A f \in N : \A w : Tells(f, w) => w \in alive'
    BY <1>1, <1>2, <1>7 DEF Tells
  <2> QED
    BY <1>1, <1>6, <2>1, GrownGoes
<1>15. LaunchedFirst' /\ WindowsCome'
  <2> SUFFICES ASSUME app # "ended"  PROVE LaunchedFirst' /\ WindowsCome'
    BY <1>1 DEF LaunchedFirst, WindowsCome
  <2>1. thread' = "up" /\ N = {e}
    BY <1>5, <1>6
  <2>2. /\ ~known /\ windows = {} /\ tracked = {}
        /\ \A i \in DOMAIN window_channel : window_channel[i].op \notin Tellings
    BY <1>1 DEF TrackingInv, LaunchedFirst
  <2>3. /\ \A i \in DOMAIN window_channel' :
             i \in DOMAIN window_channel \/ (i > Len(window_channel) /\ window_channel'[i] = e)
        /\ \A i \in DOMAIN window_channel : window_channel'[i] = window_channel[i]
        /\ \E i \in DOMAIN window_channel' : window_channel'[i] = e
    BY <1>6, <2>1 DEF Grown
  <2>4. ASSUME NEW i \in DOMAIN window_channel', window_channel'[i].op = "ApplicationLaunched",
               NEW j \in DOMAIN window_channel', j < i
        PROVE  window_channel'[j].op \notin Tellings
    <3>1. PICK c \in Seq(WindowEvents) : c = window_channel
      BY DEF TrackingInv, TrackingTypeOK
    <3>2. window_channel' = Append(c, e)
      BY <1>2, <3>1 DEF Tracking!Start
    <3>3. DOMAIN Append(c, e) = 1..Len(c) + 1 /\ DOMAIN c = 1..Len(c) /\ Len(c) \in Nat
          /\ \A k \in 1..Len(c) : Append(c, e)[k] = c[k]
      BY <1>3
    <3>4. j \in DOMAIN c /\ window_channel'[j] = c[j]
      BY <2>4, <3>2, <3>3
    <3> QED
      BY <2>2, <3>1, <3>4
  <2>5. LaunchedFirst'
    BY <1>1, <1>2, <1>4, <2>1, <2>2, <2>3, <2>4 DEF LaunchedFirst, ReactorRests
  <2>6. WindowsCome'
    <3>1. ASSUME NEW w \in alive'  PROVE Told(w)'
      <4>1. e \in N /\ Tells(e, w)
        BY <1>1, <1>2, <2>1, <3>1 DEF Tells
      <4> QED
        BY <1>6, <4>1, ToldGrows
    <3> QED
      BY <3>1 DEF WindowsCome
  <2> QED
    BY <2>5, <2>6
<1> QED
  BY <1>10, <1>11, <1>12, <1>13, <1>14, <1>15 DEF TrackingInv

\* The thread lists the windows, or stops at the application's end.
LEMMA RequestTracked ==
  ASSUME TrackingInv, NEW noticed \in BOOLEAN, Tracking!HandleRequest(noticed)
  PROVE  TrackingInv'
<1>1. /\ thread = "up" /\ requests # <<>>
      /\ UNCHANGED <<app, alive, born, ACTIVE, owed, churns, notices>>
      /\ ReactorRests
  BY RestsUnfolds DEF Tracking!HandleRequest, Tracking!centreVars, Tracking!worldVars
<1>2. PICK r : r = requests[1]
  OBVIOUS
<1>3. PICK lists : lists = (r.op = "GetVisibleWindows" \/ (r.op = "WindowMaybeDestroyed" /\ r.window \in elements))
  OBVIOUS
<1>4. PICK stops : stops = (r.op = "Terminate" \/ (lists /\ app = "ended" /\ noticed))
  OBVIOUS
<1>5. /\ lists \in BOOLEAN /\ stops \in BOOLEAN
      /\ r.op = "GetVisibleWindows" => lists
      /\ stops => r.op = "Terminate" \/ app = "ended"
  BY <1>3, <1>4, Zenon
<1>6. PICK e, f : e = [op |-> "Discovered", windows |-> alive] /\ f = [op |-> "ApplicationThreadTerminated"]
  OBVIOUS
<1>7. e \in WindowEvents /\ f \in WindowEvents
  BY <1>6, TypesOfTracking DEF WindowEvents
<1>8. /\ requests' = (IF stops THEN <<>> ELSE Tail(requests))
      /\ thread' = (IF stops THEN "stopped" ELSE thread)
      /\ elements' = (IF lists THEN elements \cup alive ELSE elements)
      /\ window_channel' = window_channel \o (IF lists THEN <<e>> ELSE <<>>)
                                          \o (IF stops THEN <<f>> ELSE <<>>)
  BY <1>2, <1>3, <1>4, <1>6, Zenon DEF Tracking!HandleRequest, Tracking!Event, Tracking!Listed
<1>9. PICK N : N = (IF lists THEN {e} ELSE {}) \cup (IF stops THEN {f} ELSE {})
  OBVIOUS
<1>10. Grown(N)
  <2>1. PICK c \in Seq(WindowEvents) : c = window_channel
    BY DEF TrackingInv, TrackingTypeOK
  <2>2. PICK b : b = c \o (IF lists THEN <<e>> ELSE <<>>)
    OBVIOUS
  <2>3. b = (IF lists THEN Append(c, e) ELSE c) /\ b \in Seq(WindowEvents)
    <3>1. CASE lists
      <4>1. b = c \o <<e>>
        BY <2>2, <3>1
      <4>2. c \o <<e>> = Append(c, e) /\ Append(c, e) \in Seq(WindowEvents)
        BY <1>7
      <4> QED
        BY <3>1, <4>1, <4>2
    <3>2. CASE ~lists
      <4>1. b = c \o <<>>
        BY <2>2, <3>2
      <4>2. c \o <<>> = c
        OBVIOUS
      <4> QED
        BY <3>2, <4>1, <4>2
    <3> QED
      BY <3>1, <3>2
  <2>4. window_channel' = IF stops THEN Append(b, f) ELSE b
    <3>1. window_channel' = b \o (IF stops THEN <<f>> ELSE <<>>)
      BY <1>8, <2>1, <2>2
    <3>2. b \o <<f>> = Append(b, f) /\ b \o <<>> = b
      BY <1>7, <2>3
    <3> QED
      BY <3>1, <3>2
  <2>5. CASE lists /\ stops
    <3>1. window_channel' = Append(Append(window_channel, e), f)
      BY <2>1, <2>3, <2>4, <2>5
    <3>2. N = {e, f}
      BY <1>9, <2>5
    <3> QED
      BY <1>7, <3>1, <3>2, TwoGrow
  <2>6. CASE lists /\ ~stops
    <3>1. window_channel' = Append(window_channel, e) /\ N = {e}
      BY <1>9, <2>1, <2>3, <2>4, <2>6
    <3> QED
      BY <1>7, <3>1, OneGrows
  <2>7. CASE ~lists /\ stops
    <3>1. window_channel' = Append(window_channel, f) /\ N = {f}
      BY <1>9, <2>1, <2>3, <2>4, <2>7
    <3> QED
      BY <1>7, <3>1, OneGrows
  <2>8. CASE ~lists /\ ~stops
    <3>1. window_channel' = window_channel /\ N = {}
      BY <1>9, <2>1, <2>3, <2>4, <2>8
    <3> QED
      BY <3>1, NothingGrows
  <2> QED
    BY <2>5, <2>6, <2>7, <2>8
<1>11. app # "ended" => ~stops
  <2>1. app # "ended" => requests[1].op # "Terminate"
    <3>1. 1 \in DOMAIN requests
      BY <1>1, TypesOfTracking
    <3> QED
      BY <3>1 DEF TrackingInv, OnlyAtTheEnd
  <2> QED
    BY <1>2, <1>5, <2>1
<1>12. /\ app # "ended" => \A g \in N : g = e
       /\ \A g \in N : g = e \/ g = f
       /\ lists => e \in N
  BY <1>9, <1>11
<1>13. /\ requests' \in Seq(Requests) /\ (requests' # <<>> => thread' = "up")
       /\ ~stops => /\ \A i \in DOMAIN requests' : i + 1 \in DOMAIN requests /\ requests'[i] = requests[i + 1]
                    /\ \A i \in DOMAIN requests : i = 1 \/ (i - 1 \in DOMAIN requests' /\ requests'[i - 1] = requests[i])
  <2>1. CASE stops
    <3>1. requests' = <<>>
      BY <1>8, <2>1
    <3>2. requests' \in Seq(Requests)
      BY <3>1
    <3> QED
      BY <2>1, <3>1, <3>2
  <2>2. CASE ~stops
    <3>1. PICK q \in Seq(Requests) : q = requests
      BY TypesOfTracking
    <3>2. q # <<>> /\ requests' = Tail(q) /\ thread' = "up"
      BY <1>1, <1>8, <2>2, <3>1
    <3>3. /\ Tail(q) \in Seq(Requests) /\ DOMAIN q = 1..Len(q) /\ Len(q) \in Nat \ {0}
          /\ DOMAIN Tail(q) = 1..Len(q) - 1
          /\ \A i \in 1..Len(q) - 1 : Tail(q)[i] = q[i + 1]
      BY <3>2
    <3>4. \A i \in DOMAIN Tail(q) : i + 1 \in DOMAIN q /\ Tail(q)[i] = q[i + 1]
      BY <3>3
    <3>5. \A i \in DOMAIN q : i = 1 \/ (i - 1 \in DOMAIN Tail(q) /\ Tail(q)[i - 1] = q[i])
      BY <3>3
    <3> QED
      BY <2>2, <3>1, <3>2, <3>3, <3>4, <3>5
  <2> QED
    BY <1>5, <2>1, <2>2
<1>14. Tracking!TypeOK'
  <2>1. elements' \subseteq born' /\ thread' \in {"none", "starting", "up", "stopped"}
    BY <1>1, <1>8, TypesOfTracking
  <2> QED
    BY <1>1, <1>13, <2>1, TypesOfTracking, TypesRest
<1>15. TrackingTypeOK'
  <2>1. \A g \in N : EventIsBorn(g)'
    BY <1>1, <1>6, <1>12, TypesOfTracking DEF EventIsBorn
  <2> QED
    BY <1>1, <1>10, <1>13, <1>14, <2>1, TypesOfTracking, GrownTypes
<1>16. DeadStayDead'
  BY <1>1, <1>6, <1>10, <1>12, GrownDead DEF Deaths
<1>17. QuarantinesEnd'
  BY <1>1, <1>6, <1>10, <1>12, PlainQuarantines
<1>18. CASE app = "ended"
  <2>1. OnlyAtTheEnd' /\ LaunchedFirst' /\ WindowsCome' /\ WindowsGo'
    BY <1>1, <1>18 DEF OnlyAtTheEnd, LaunchedFirst, WindowsCome, WindowsGo
  <2> QED
    BY <1>15, <1>16, <1>17, <2>1 DEF TrackingInv
<1>19. CASE app # "ended"
  <2>0. thread' = thread /\ ~stops
    BY <1>8, <1>11, <1>19
  <2>1. OnlyAtTheEnd'
    <3>1. \A i \in DOMAIN requests' : requests'[i].op # "Terminate"
      BY <1>13, <1>19, <2>0 DEF TrackingInv, OnlyAtTheEnd
    <3>2. thread' # "stopped"
      BY <1>1, <2>0
    <3> QED
      BY <1>1, <1>6, <1>10, <1>12, <1>19, <3>1, <3>2, GrownEnds
  <2>2. LaunchedFirst'
    <3>1. app = "none" => born' = {}
      BY <1>1, <1>19 DEF TrackingInv, LaunchedFirst
    <3> QED
      BY <1>1, <1>6, <1>10, <1>12, <2>0, <3>1, GrownLaunches
  <2>3. WindowsCome'
    <3>1. CASE lists
      <4>1. \A w \in alive' : e \in N /\ Tells(e, w)
        BY <1>1, <1>6, <1>12, <3>1 DEF Tells
      <4> QED
        BY <1>1, <1>10, <2>0, <4>1, GrownComes
    <3>2. CASE ~lists
      <4>1. Asking => Asking'
        <5>1. r.op # "GetVisibleWindows"
          BY <1>5, <3>2
        <5>2. ASSUME NEW i \in DOMAIN requests, requests[i].op = "GetVisibleWindows"  PROVE Asking'
          <6>1. i # 1
            BY <1>2, <5>1, <5>2
          <6> QED
            BY <1>13, <2>0, <5>2, <6>1 DEF Asking
        <5> QED
          BY <5>2 DEF Asking
      <4>2. elements' = elements
        BY <1>8, <3>2
      <4>3. \A w \in alive' :
              \/ w \notin elements' /\ Tracking!Note("Created", w) \in notices'
              \/ w \in alive /\ ~(w \notin elements /\ Tracking!Note("Created", w) \in notices)
        BY <1>1, <4>2
      <4> QED
        BY <1>1, <1>10, <2>0, <4>1, <4>3, GrownComes
    <3> QED
      BY <1>5, <3>1, <3>2
  <2>4. WindowsGo'
    <3>1. \A g \in N : \A w : Tells(g, w) => w \in alive'
      BY <1>1, <1>6, <1>12, <1>19 DEF Tells
    <3> QED
      BY <1>1, <1>10, <3>1, GrownGoes
  <2> QED
    BY <1>15, <1>16, <1>17, <2>1, <2>2, <2>3, <2>4 DEF TrackingInv
<1> QED
  BY <1>18, <1>19

\* The thread tells of single windows.
LEMMA ThreadTracked ==
  ASSUME TrackingInv, thread = "up", NEW N, Grown(N), ReactorRests,
         UNCHANGED <<app, alive, born, ACTIVE, owed, churns, thread, requests>>,
         elements' \subseteq born, notices' \subseteq notices,
         \A e \in N : \/ e.op = "WindowCreated" /\ e.window \in alive
                      \/ e.op = "WindowDestroyed" /\ e.window \in born \ alive,
         \A w : Tracking!Note("ServerDestroyed", w) \in notices =>
                  Tracking!Note("ServerDestroyed", w) \in notices',
         \A w \in alive :
           \/ \E e \in N : Tells(e, w)
           \/ w \notin elements' /\ Tracking!Note("Created", w) \in notices'
           \/ ~(w \notin elements /\ Tracking!Note("Created", w) \in notices)
  PROVE  TrackingInv'
<1>1. Tracking!TypeOK'
  BY TypesOfTracking, TypesRest
<1>2. TrackingTypeOK'
  <2>1. \A e \in N : EventIsBorn(e)'
    BY TypesOfTracking DEF EventIsBorn
  <2> QED
    BY <1>1, <2>1, TypesOfTracking, GrownTypes
<1>3. DeadStayDead'
  BY GrownDead DEF Deaths
<1>4. OnlyAtTheEnd'
  BY GrownEnds DEF TrackingInv, OnlyAtTheEnd
<1>5. LaunchedFirst'
  <2>1. app = "none" => born' = {}
    BY DEF TrackingInv, LaunchedFirst
  <2> QED
    BY <2>1, GrownLaunches
<1>6. QuarantinesEnd'
  BY PlainQuarantines
<1>7. WindowsCome'
  <2>1. Asking => Asking'
    BY DEF Asking
  <2> QED
    BY <2>1, GrownComes
<1>8. WindowsGo'
  <2>1. \A e \in N : \A w : Tells(e, w) => w \in alive'
    BY DEF Tells
  <2> QED
    BY <2>1, GrownGoes
<1> QED
  BY <1>2, <1>3, <1>4, <1>5, <1>6, <1>7, <1>8 DEF TrackingInv

\* The thread is told of a window by Accessibility.
LEMMA NotificationTracked ==
  ASSUME TrackingInv, NEW n \in notices, Tracking!HandleNotification(n)
  PROVE  TrackingInv'
<1>1. /\ thread = "up" /\ n.kind \in {"Created", "Destroyed"} /\ notices' = notices \ {n}
      /\ UNCHANGED <<app, alive, born, ACTIVE, owed, churns, thread, requests>>
      /\ ReactorRests
  BY RestsUnfolds DEF Tracking!HandleNotification, Tracking!centreVars, Tracking!worldVars
<1>2. PICK w : w = n.window
  OBVIOUS
<1>3. PICK created : created = (n.kind = "Created" /\ w \notin elements /\ w \in alive)
  OBVIOUS
<1>4. PICK gone : gone = (n.kind = "Destroyed" /\ w \in elements)
  OBVIOUS
<1>5. /\ created \in BOOLEAN /\ gone \in BOOLEAN
      /\ created => n.kind = "Created" /\ w \in alive
      /\ gone => n.kind = "Destroyed"
      /\ n.kind = "Created" /\ w \notin elements /\ w \in alive => created
  BY <1>3, <1>4, Zenon
<1>6. PICK e, f : e = [op |-> "WindowCreated", window |-> w] /\ f = [op |-> "WindowDestroyed", window |-> w]
  OBVIOUS
<1>7. /\ elements' = (IF created THEN elements \cup {w} ELSE IF gone THEN elements \ {w} ELSE elements)
      /\ window_channel' = (IF created THEN Append(window_channel, e)
                            ELSE IF gone THEN Append(window_channel, f) ELSE window_channel)
  BY <1>2, <1>3, <1>4, <1>6, Zenon DEF Tracking!HandleNotification, Tracking!About
<1>8. w \in born /\ (gone => w \notin alive)
  BY <1>2, <1>5, TypesOfTracking DEF TrackingInv, DeadStayDead
<1>9. e \in WindowEvents /\ f \in WindowEvents
  BY <1>6, <1>8, TypesOfTracking DEF WindowEvents
<1>10. PICK N : N = IF created THEN {e} ELSE IF gone THEN {f} ELSE {}
  OBVIOUS
<1>11. Grown(N)
  <2>1. CASE created
    <3>1. N = {e} /\ window_channel' = Append(window_channel, e)
      BY <1>7, <1>10, <2>1
    <3> QED
      BY <1>9, <3>1, OneGrows
  <2>2. CASE ~created /\ gone
    <3>1. N = {f} /\ window_channel' = Append(window_channel, f)
      BY <1>7, <1>10, <2>2
    <3> QED
      BY <1>9, <3>1, OneGrows
  <2>3. CASE ~created /\ ~gone
    <3>1. N = {} /\ window_channel' = window_channel
      BY <1>7, <1>10, <2>3
    <3> QED
      BY <3>1, NothingGrows
  <2> QED
    BY <1>5, <2>1, <2>2, <2>3
<1>12. elements' \subseteq born
  BY <1>7, <1>8, TypesOfTracking
<1>13. ASSUME NEW g \in N
       PROVE  \/ g.op = "WindowCreated" /\ g.window \in alive
              \/ g.op = "WindowDestroyed" /\ g.window \in born \ alive
  BY <1>5, <1>6, <1>8, <1>10, <1>13
<1>14. \A v : Tracking!Note("ServerDestroyed", v) \in notices =>
                Tracking!Note("ServerDestroyed", v) \in notices'
  BY <1>1 DEF Tracking!Note
<1>15. ASSUME NEW v \in alive, v \notin elements, Tracking!Note("Created", v) \in notices,
              ~\E g \in N : Tells(g, v)
       PROVE  v \notin elements' /\ Tracking!Note("Created", v) \in notices'
  <2>1. v # w
    <3>1. CASE created
      <4>1. e \in N
        BY <1>10, <3>1
      <4> QED
        BY <1>6, <1>15, <4>1 DEF Tells
    <3>2. CASE ~created
      <4>1. SUFFICES ASSUME v = w  PROVE FALSE
        OBVIOUS
      <4>2. n.kind = "Destroyed"
        BY <1>1, <1>5, <1>15, <3>2, <4>1
      <4>3. w \notin alive
        BY <1>2, <4>2 DEF TrackingInv, DeadStayDead
      <4> QED
        BY <1>15, <4>1, <4>3
    <3> QED
      BY <1>5, <3>1, <3>2
  <2>2. Tracking!Note("Created", v) # n
    BY <1>2, <2>1 DEF Tracking!Note
  <2> QED
    BY <1>1, <1>7, <1>15, <2>1, <2>2
<1> QED
  BY <1>1, <1>11, <1>12, <1>13, <1>14, <1>15, ThreadTracked

LEMMA StaleTracked ==
  ASSUME TrackingInv, Tracking!RemoveStale
  PROVE  TrackingInv'
<1>1. /\ thread = "up"
      /\ UNCHANGED <<app, alive, born, ACTIVE, owed, churns, notices, thread, requests>>
      /\ ReactorRests
  BY RestsUnfolds DEF Tracking!RemoveStale, Tracking!centreVars, Tracking!worldVars
<1>2. PICK w \in elements \ alive :
        /\ elements' = elements \ {w}
        /\ window_channel' = Append(window_channel, Tracking!About("WindowDestroyed", w))
  BY DEF Tracking!RemoveStale
<1>3. PICK e : e = [op |-> "WindowDestroyed", window |-> w]
  OBVIOUS
<1>4. w \in born /\ elements' \subseteq born
  BY <1>2, TypesOfTracking
<1>5. Grown({e})
  <2>1. e \in WindowEvents /\ window_channel' = Append(window_channel, e)
    BY <1>2, <1>3, <1>4, TypesOfTracking DEF WindowEvents, Tracking!About
  <2> QED
    BY <2>1, OneGrows
<1>6. \A v \in alive : v \notin elements => v \notin elements'
  BY <1>2
<1> QED
  BY <1>1, <1>2, <1>3, <1>4, <1>5, <1>6, ThreadTracked

-----------------------------------------------------------------------------
(* Every step. *)

LEMMA ReactTracked ==
  ASSUME TrackingInv, Tracking!React
  PROVE  TrackingInv'
<1>1. PICK e : e = window_channel[1]
  OBVIOUS
<1>2. Reaction(e)
  BY <1>1, ReactReacts
<1>3. TrackingTypeOK' /\ DeadStayDead'
  BY <1>2, ReactionTypes
<1>4. OnlyAtTheEnd' /\ LaunchedFirst' /\ QuarantinesEnd' /\ WindowsCome' /\ WindowsGo'
  BY <1>1, <1>2, ReactionEnds, ReactionLaunches, ReactionQuarantines, ReactionComes, ReactionGoes
<1> QED
  BY <1>3, <1>4 DEF TrackingInv

LEMMA TrackingInit ==
  ASSUME Tracking!Init
  PROVE  TrackingInv
<1>1. /\ app = "none" /\ alive = {} /\ born = {} /\ ACTIVE = FALSE /\ owed = FALSE
      /\ notices = {} /\ thread = "none" /\ elements = {} /\ requests = <<>>
      /\ window_channel = <<>> /\ window_topology = "Stable" /\ known = FALSE
      /\ windows = {} /\ tracked = {} /\ info = {} /\ observed = {}
  BY DEF Tracking!Init
<1>2. DOMAIN window_channel = {} /\ DOMAIN requests = {}
  BY <1>1
<1>3. window_channel \in Seq(WindowEvents) /\ requests \in Seq(Requests)
  BY <1>1
<1>4. Tracking!TypeOK
  BY <1>1 DEF Tracking!TypeOK
<1>5. TrackingTypeOK
  BY <1>1, <1>2, <1>3, <1>4, FS_EmptySet DEF TrackingTypeOK
<1>6. DeadStayDead /\ OnlyAtTheEnd /\ LaunchedFirst
  BY <1>1, <1>2 DEF DeadStayDead, OnlyAtTheEnd, LaunchedFirst
<1>7. QuarantinesEnd
  BY <1>1, <1>2 DEF QuarantinesEnd
<1>8. WindowsCome /\ WindowsGo
  BY <1>1 DEF WindowsCome, WindowsGo
<1> QED
  BY <1>5, <1>6, <1>7, <1>8 DEF TrackingInv

LEMMA TrackingRests ==
  ASSUME TrackingInv, UNCHANGED trackingVars
  PROVE  TrackingInv'
<1>1. /\ UNCHANGED <<app, alive, born, ACTIVE, owed, churns, notices, thread, elements, requests,
                     window_channel>>
      /\ ReactorRests
  BY DEF trackingVars, ReactorRests
<1>2. UNCHANGED <<Tracking!TypeOK, Asking>>
  BY <1>1 DEF Tracking!TypeOK, Asking, ReactorRests
<1>3. TrackingTypeOK' /\ DeadStayDead' /\ OnlyAtTheEnd' /\ LaunchedFirst'
  BY <1>1, <1>2 DEF TrackingInv, TrackingTypeOK, DeadStayDead, OnlyAtTheEnd, LaunchedFirst,
                    EventIsBorn, ReactorRests
<1>4. Grown({})
  BY <1>1, NothingGrows
<1>5. QuarantinesEnd'
  BY <1>1, <1>4, PlainQuarantines
<1>6. WindowsCome'
  BY <1>1, <1>2, <1>4, GrownComes
<1>7. WindowsGo'
  BY <1>1, <1>4, TypesOfTracking, GrownGoes
<1> QED
  BY <1>3, <1>5, <1>6, <1>7 DEF TrackingInv

LEMMA TrackingSteps ==
  ASSUME TrackingInv, [MCNext]_<<part, vars, trackingVars>>
  PROVE  TrackingInv'
<1>1. CASE UNCHANGED trackingVars
  BY <1>1, TrackingRests
<1>2. CASE Tracking!Next
  <2>1. CASE Tracking!Launch
    BY <2>1, LaunchTracked
  <2>2. ASSUME NEW w \in Windows, Tracking!Open(w)  PROVE TrackingInv'
    BY <2>2, OpenTracked
  <2>3. ASSUME NEW w \in Windows, NEW told \in BOOLEAN, Tracking!Close(w, told)  PROVE TrackingInv'
    BY <2>3, CloseTracked
  <2>4. CASE Tracking!Quit
    BY <2>4, QuitTracked
  <2>5. ASSUME NEW n \in notices, Tracking!ServerSays(n)  PROVE TrackingInv'
    BY <2>5, ServerTracked
  <2>6. CASE Tracking!ChurnBegins
    BY <2>6, BeginsTracked
  <2>7. CASE Tracking!ChurnEnds
    BY <2>7, EndsTracked
  <2>8. CASE Tracking!SendSnapshot
    BY <2>8, SendsTracked
  <2>9. CASE Tracking!Start
    BY <2>9, StartTracked
  <2>10. ASSUME NEW noticed \in BOOLEAN, Tracking!HandleRequest(noticed)  PROVE TrackingInv'
    BY <2>10, RequestTracked
  <2>11. ASSUME NEW n \in notices, Tracking!HandleNotification(n)  PROVE TrackingInv'
    BY <2>11, NotificationTracked
  <2>12. CASE Tracking!RemoveStale
    BY <2>12, StaleTracked
  <2>13. CASE Tracking!React
    BY <2>13, ReactTracked
  <2> QED
    BY <1>2, <2>1, <2>2, <2>3, <2>4, <2>5, <2>6, <2>7, <2>8, <2>9, <2>10, <2>11, <2>12, <2>13
       DEF Tracking!Next
<1>3. UNCHANGED trackingVars \/ Tracking!Next
  BY DEF MCNext
<1> QED
  BY <1>1, <1>2, <1>3

\* Where nothing is under way the quarantine is over, no telling is due, and nothing that
\* the window server or a comparison would still say.
LEMMA WindowsAtRest ==
  ASSUME TrackingInv
  PROVE  WindowsAreKnown
<1>1. Tracking!TypeOK
  BY DEF TrackingInv, TrackingTypeOK
<1>2. ASSUME Tracking!AtRest
      PROVE  /\ DOMAIN window_channel = {} /\ DOMAIN requests = {}
             /\ window_topology = "Stable"
             /\ \A n \in notices : thread # "up" /\ n.kind \in {"Created", "Destroyed"}
  <2>1. /\ window_channel = <<>> /\ requests = <<>> /\ ~ACTIVE /\ ~owed
        /\ \A n \in notices : thread # "up" /\ n.kind \in {"Created", "Destroyed"}
    BY <1>2 DEF Tracking!AtRest
  <2>2. DOMAIN window_channel = {} /\ DOMAIN requests = {}
    BY <2>1
  <2>3. window_topology = "Stable"
    BY <2>1, <2>2, TypesOfTracking DEF TrackingInv, QuarantinesEnd, Later
  <2> QED
    BY <2>1, <2>2, <2>3
<1>3. Tracking!NothingMissed
  <2> SUFFICES ASSUME Tracking!AtRest, thread = "up", app = "running"
               PROVE  window_topology = "Stable" /\ alive \subseteq windows /\ alive \subseteq tracked
    BY DEF Tracking!NothingMissed
  <2> QED
    BY <1>2 DEF TrackingInv, WindowsCome, Told, Asking
<1>4. Tracking!GhostsAreExplained
  <2> SUFFICES ASSUME Tracking!AtRest, app = "running", NEW w \in windows \ alive
               PROVE  w \in dropped \cup late
    BY DEF Tracking!GhostsAreExplained
  <2>1. Known(w)
    BY DEF TrackingInv, WindowsGo
  <2>2. ~Dying(w) /\ ~Mortal(w, 0)
    BY <1>2 DEF Dying, Mortal, Tracking!Note
  <2> QED
    BY <1>2, <2>1, <2>2 DEF Known
<1> QED
  BY <1>1, <1>3, <1>4 DEF WindowsAreKnown

\* The invariant of the windows: of any reconfigurations, openings, closings and listings.
THEOREM TrackingInvariance == MCSpec => []TrackingInv
<1>1. MCInit => TrackingInv
  BY TrackingInit DEF MCInit
<1> QED
  BY <1>1, TrackingSteps, PTL DEF MCSpec

\* Whatever a reconfiguration makes the reactor drop, it ends up with every window of the
\* application, each under its id; and of the windows that are gone it keeps only those that
\* came during a quarantine, or whose end a quarantine dropped and its snapshot did not make
\* up for (handle_event's quarantine and reconcile_windows_after_topology_commit): for any
\* windows and any number of reconfigurations.
THEOREM WindowsKnown == MCSpec => []WindowsAreKnown
BY TrackingInvariance, WindowsAtRest, PTL

-----------------------------------------------------------------------------
(***************************************************************************)
(* Screens at rest.  What the reactor gets once a reconfiguration is over  *)
(* comes in a queue behind it: the last snapshot is of the displays that   *)
(* are online, and whatever follows it are spaces of these displays.       *)
(***************************************************************************)
SpaceIds    == Displays \X {1, 2}
Frames      == [online : SUBSET Displays, geometry : Nat]
ScreenSeqs  == Seq([id : Displays, space : SpaceIds \cup {None}])
SpaceSeqs   == Seq(SpaceIds \cup {None})
Events ==
  [op : Marks] \cup [op : {"Screens"}, screens : ScreenSeqs, frame : Nat]
  \cup [op : {"Spaces"}, spaces : SpaceSeqs]
Writes == [op : {"FLAGS", "COMPLETED"}, to : SUBSET Flags, then : {None, "Begin", "End"}]

SystemTyped ==
  /\ online \subseteq Displays /\ shown \in [Displays -> 0..2] /\ geometry \in Nat /\ readable \in BOOLEAN
  /\ callbacks \in Seq(SUBSET Flags)
CentreTyped ==
  /\ active \in BOOLEAN /\ refresh_pending \in BOOLEAN /\ dirty \in BOOLEAN
  /\ checks \in SUBSET [current : BOOLEAN, attempt : Nat]
  /\ cache \in Frames \cup {None}
  /\ refreshes = {} \/ \E n \in 0..Retries : refreshes = {n}
  /\ ~refresh_pending => refreshes \subseteq {0}
AtomicsTyped ==
  /\ FLAGS \in SUBSET Flags /\ COMPLETED \in SUBSET Flags /\ flags_now \in SUBSET Flags
  /\ writes \in Seq(Writes)
ReactorTyped ==
  /\ topology \in [state : {"Stable", "Churning", "Awaiting"}, flags : SUBSET Flags]
  /\ screens \in ScreenSeqs /\ removed \in SUBSET Displays /\ frame \in Nat

ScreensTyped == SystemTyped /\ CentreTyped /\ AtomicsTyped /\ channel \in Seq(Events) /\ ReactorTyped

\* A churn has a check of its own, and a refresh that was promised has a timer.
ChurnsEnd ==
  /\ active => \E c \in checks : c.current
  /\ refresh_pending => refreshes # {}
  /\ ~active /\ refreshes = {} => Idle

\* The cache is of the displays that are online, or it will be read again.
CacheIsTrue == callbacks = <<>> /\ ~dirty /\ cache # None => cache.online = online

\* The reactor is not in a churn for good.
ChurnIsOver ==
  ~active /\ Idle =>
    \/ \E i \in DOMAIN channel : channel[i].op = "End" /\ \A j \in DOMAIN channel : j > i => channel[j].op \notin Marks
    \/ Unmarked(channel) /\ topology.state # "Churning"

\* Screens, and spaces alone, of the displays that are online.
OwnSpaces(d) == {<<d, 1>>, <<d, 2>>}
Fit(s) ==
  /\ Len(s) = Cardinality(online)
  /\ \A i \in 1..Len(s) : s[i].id = InOrder(online)[i] /\ s[i].space \in OwnSpaces(s[i].id)
Follows(e) ==
  /\ e.op = "Spaces" /\ Len(e.spaces) = Cardinality(online)
  /\ \A i \in 1..Len(e.spaces) : e.spaces[i] \in OwnSpaces(InOrder(online)[i])

\* What the reactor has is of the displays that are online, or it refused the last snapshot.
Accepted ==
  /\ Ids(screens) = online => Fit(screens)
  /\ topology.state = "Stable" \/ (~(Ids(screens) \subseteq online) /\ "Remove" \notin topology.flags)

ScreensCome ==
  \E k \in 0..Len(channel) :
    /\ \A j \in 1..Len(channel) : j > k => Follows(channel[j])
    /\ IF k = 0 THEN Accepted ELSE channel[k].op = "Screens" /\ Fit(channel[k].screens)

Rested == callbacks = <<>> /\ ~active /\ refreshes = {}
ScreensArrive ==
  Rested /\ ~given_up => online # {} /\ (\A d \in online : shown[d] # 0) /\ ScreensCome

ScreensInv == ScreensTyped /\ ChurnsEnd /\ CacheIsTrue /\ ChurnIsOver /\ ScreensArrive
\* A set of numbers has a least one.
LEMMA LeastNumber ==
  ASSUME NEW T, T \subseteq Nat, T # {}
  PROVE  \E m \in T : \A n \in T : m <= n
<1>. DEFINE F == {0..n : n \in T}
<1>1. F \subseteq FiniteSubsetsOf(Nat)
  <2>1. \A n \in T : 0..n \subseteq Nat /\ IsFiniteSet(0..n)
    BY FS_Interval
  <2>. QED  BY <2>1 DEF FiniteSubsetsOf
<1>2. \E x \in F : \A y \in F : ~(<<y, x>> \in StrictSubsetOrdering(Nat))
  <2>1. IsWellFoundedOn(StrictSubsetOrdering(Nat), FiniteSubsetsOf(Nat))
    BY FS_StrictSubsetOrderingWellFounded
  <2>2. F # {}
    OBVIOUS
  <2>. HIDE DEF F
  <2>. QED  BY <1>1, <2>1, <2>2, WFMin
<1>3. PICK m \in T : \A n \in T : ~(<<0..n, 0..m>> \in StrictSubsetOrdering(Nat))
  BY <1>2
<1>4. ASSUME NEW n \in T, n < m PROVE FALSE
  <2>1. 0..n \subseteq 0..m /\ 0..n # 0..m /\ 0..n \in SUBSET Nat /\ 0..m \in SUBSET Nat
    BY <1>4, SMT
  <2>. QED  BY <1>3, <2>1 DEF StrictSubsetOrdering
<1>. QED  BY <1>4

\* A set of numbers with 0 and with the successor of each of them has every number.
LEMMA SetInduction ==
  ASSUME NEW T, 0 \in T, \A n \in Nat : n \in T => n + 1 \in T
  PROVE  Nat \subseteq T
<1>. SUFFICES ASSUME Nat \ T # {} PROVE FALSE
  OBVIOUS
<1>1. PICK m \in Nat \ T : \A n \in Nat \ T : m <= n
  BY LeastNumber
<1>2. m # 0 /\ m - 1 \in Nat /\ m - 1 \in T
  BY <1>1, SMT
<1>. QED  BY <1>1, <1>2, SMT

\* Any set of displays can be put in order, the last of them last.
Ordering(s, S) == s \in [1..Cardinality(S) -> S] /\ \A i, j \in 1..Cardinality(S) : i < j => s[i] < s[j]

LEMMA OrderingExists ==
  ASSUME NEW n \in Nat, \A S \in SUBSET (1..n) : \E s : Ordering(s, S), NEW S \in SUBSET (1..n + 1)
  PROVE  \E s : Ordering(s, S)
<1>1. CASE n + 1 \notin S
  <2>1. S \in SUBSET (1..n)
    BY <1>1
  <2>. QED  BY <2>1
<1>2. CASE n + 1 \in S
  <2>. DEFINE T == S \ {n + 1}
              c == Cardinality(T)
  <2>1. T \in SUBSET (1..n) /\ S = T \cup {n + 1}
    BY <1>2
  <2>2. IsFiniteSet(T) /\ c \in Nat /\ Cardinality(S) = c + 1
    <3>1. IsFiniteSet(T)
      <4>1. IsFiniteSet(1..n)
        BY FS_Interval
      <4>. HIDE DEF T
      <4>. QED  BY <2>1, <4>1, FS_Subset
    <3>2. c \in Nat /\ Cardinality(T \cup {n + 1}) = c + 1
      BY <3>1, FS_CardinalityType, FS_AddElement
    <3>. QED  BY <2>1, <3>1, <3>2
  <2>3. PICK t : Ordering(t, T)
    BY <2>1
  <2>. DEFINE s == [i \in 1..c + 1 |-> IF i = c + 1 THEN n + 1 ELSE t[i]]
  <2>4. t \in [1..c -> T] /\ \A i, j \in 1..c : i < j => t[i] < t[j]
    BY <2>3 DEF Ordering
  <2>. HIDE DEF c, T
  <2>5. s \in [1..c + 1 -> S]
    BY <2>1, <2>2, <2>4
  <2>6. ASSUME NEW i \in 1..c + 1, NEW j \in 1..c + 1, i < j PROVE s[i] < s[j]
    <3>1. i \in 1..c /\ i \in 1..c + 1 /\ i # c + 1
      BY <2>2, <2>6
    <3>2. s[i] = t[i] /\ t[i] \in T /\ t[i] \in 1..n
      BY <2>1, <2>4, <3>1
    <3>3. CASE j = c + 1
      BY <3>2, <3>3
    <3>4. CASE j # c + 1
      <4>1. j \in 1..c /\ s[j] = t[j]
        BY <2>2, <3>4
      <4>. QED  BY <2>4, <2>6, <3>1, <3>2, <4>1
    <3>. QED  BY <3>3, <3>4
  <2>. HIDE DEF s
  <2>. QED  BY <2>2, <2>5, <2>6 DEF Ordering
<1>. QED  BY <1>1, <1>2

\* InOrder numbers the displays.
LEMMA InOrderIs ==
  ASSUME NEW S, S \subseteq Displays
  PROVE  /\ IsFiniteSet(S) /\ Cardinality(S) \in Nat /\ (Cardinality(S) = 0 <=> S = {})
         /\ InOrder(S) \in [1..Cardinality(S) -> S]
         /\ \A i, j \in 1..Cardinality(S) : InOrder(S)[i] = InOrder(S)[j] => i = j
         /\ \A d \in S : \E i \in 1..Cardinality(S) : InOrder(S)[i] = d
<1>. DEFINE n == Cardinality(S)
            s == InOrder(S)
<1>1. NumDisplays \in Nat /\ S \in SUBSET (1..NumDisplays)
  BY DisplayAssumption DEF Displays
<1>2. IsFiniteSet(S) /\ n \in Nat /\ (n = 0 <=> S = {})
  <2>1. IsFiniteSet(1..NumDisplays)
    BY <1>1, FS_Interval
  <2>2. IsFiniteSet(S)
    BY <1>1, <2>1, FS_Subset
  <2>. QED  BY <2>2, FS_CardinalityType, FS_EmptySet
<1>3. \E t : Ordering(t, S)
  <2>. DEFINE N == {m \in Nat : \A R \in SUBSET (1..m) : \E t : Ordering(t, R)}
  <2>1. 0 \in N
    <3>1. ASSUME NEW R \in SUBSET (1..0) PROVE \E t : Ordering(t, R)
      <4>1. R = {}
        OBVIOUS
      <4>2. Cardinality(R) = 0
        BY <4>1, FS_EmptySet
      <4>3. Ordering([i \in 1..0 |-> 0], R)
        BY <4>2 DEF Ordering
      <4>. QED  BY <4>3
    <3>. QED  BY <3>1
  <2>2. ASSUME NEW m \in Nat, m \in N PROVE m + 1 \in N
    BY <2>2, OrderingExists
  <2>. HIDE DEF N
  <2>3. Nat \subseteq N
    BY <2>1, <2>2, SetInduction
  <2>. QED  BY <1>1, <2>3 DEF N
<1>4. s \in [1..n -> S] /\ \A i, j \in 1..n : i < j => s[i] < s[j]
  BY <1>3 DEF Ordering, InOrder
<1>5. ASSUME NEW i \in 1..n, NEW j \in 1..n, s[i] = s[j] PROVE i = j
  <2>1. i \in Int /\ j \in Int /\ s[i] \in Int /\ s[j] \in Int
    <3>1. s[i] \in S /\ s[j] \in S
      BY <1>4
    <3>2. \A d \in S : d \in Int
      BY <1>1
    <3>3. i \in Int /\ j \in Int
      OBVIOUS
    <3>. QED  BY <3>1, <3>2, <3>3
  <2>2. ~(s[i] < s[j]) /\ ~(s[j] < s[i])
    BY <1>5, <2>1
  <2>3. ~(i < j) /\ ~(j < i)
    BY <1>4, <2>2
  <2>. QED  BY <2>1, <2>3
<1>6. ASSUME NEW d \in S, \A i \in 1..n : s[i] # d PROVE FALSE
  <2>1. s \in [1..n -> S \ {d}]
    BY <1>4, <1>6
  <2>2. IsFiniteSet(S \ {d}) /\ Cardinality(S \ {d}) = n - 1
    BY <1>2, FS_RemoveElement
  <2>3. IsFiniteSet(1..n) /\ Cardinality(1..n) = n
    BY <1>2, FS_Interval
  <2>. HIDE DEF n, s
  <2>4. \E i, j \in 1..n : i # j /\ s[i] = s[j]
    BY <1>2, <2>1, <2>2, <2>3, FS_PigeonHole
  <2>. QED  BY <1>5, <2>4
<1>. QED  BY <1>2, <1>4, <1>5, <1>6
-----------------------------------------------------------------------------
\* What is read of the displays.

LEMMA ListIs ==
  ASSUME NEW S, NEW n \in Nat, NEW f, f = [i \in 1..n |-> f[i]], \A i \in 1..n : f[i] \in S
  PROVE  f \in Seq(S) /\ Len(f) = n /\ DOMAIN f = 1..n
<1>1. f \in [1..n -> S]
  OBVIOUS
<1>. QED  BY <1>1

LEMMA ScreensAre ==
  ASSUME SystemTyped, NEW c \in Frames
  PROVE  LET n == Cardinality(c.online)
             s == ScreensOf(c)
         IN  /\ n \in Nat /\ (n = 0 <=> c.online = {})
             /\ s \in ScreenSeqs /\ Len(s) = n /\ Ids(s) = c.online
             /\ \A i \in 1..n : /\ s[i].id = InOrder(c.online)[i] /\ InOrder(c.online)[i] \in c.online
                                /\ s[i].space \in OwnSpaces(s[i].id) \cup {None}
             /\ Spaces(s) \in SpaceSeqs /\ Len(Spaces(s)) = n /\ \A i \in 1..n : Spaces(s)[i] = s[i].space
<1>. DEFINE n == Cardinality(c.online)
            s == ScreensOf(c)
            o == InOrder(c.online)
<1>1. /\ c.online \subseteq Displays /\ n \in Nat /\ (n = 0 <=> c.online = {}) /\ o \in [1..n -> c.online]
      /\ \A d \in c.online : \E i \in 1..n : o[i] = d
  <2>1. c.online \subseteq Displays
    BY DEF Frames
  <2>. QED  BY <2>1, InOrderIs
<1>2. s = [i \in 1..n |-> [id |-> o[i], space |-> IF o[i] \in online /\ shown[o[i]] # 0
                                                  THEN <<o[i], shown[o[i]]>> ELSE None]]
  BY DEF ScreensOf
<1>. HIDE DEF n, o, s
<1>3. ASSUME NEW i \in 1..n
      PROVE  /\ s[i].id = o[i] /\ o[i] \in c.online /\ o[i] \in Displays
             /\ s[i] \in [id : Displays, space : SpaceIds \cup {None}]
             /\ s[i].space \in OwnSpaces(o[i]) \cup {None}
  <2>1. o[i] \in c.online /\ o[i] \in Displays
    BY <1>1
  <2>2. shown[o[i]] # 0 => shown[o[i]] \in {1, 2}
    BY <2>1 DEF SystemTyped
  <2>3. s[i] = [id |-> o[i], space |-> IF o[i] \in online /\ shown[o[i]] # 0
                                       THEN <<o[i], shown[o[i]]>> ELSE None]
    BY <1>2
  <2>4. s[i].space \in OwnSpaces(o[i]) \cup {None}
    BY <2>2, <2>3 DEF OwnSpaces
  <2>5. OwnSpaces(o[i]) \subseteq SpaceIds
    BY <2>1 DEF OwnSpaces, SpaceIds
  <2>. QED  BY <2>1, <2>3, <2>4, <2>5
<1>4. s \in ScreenSeqs /\ Len(s) = n /\ DOMAIN s = 1..n
  <2>1. s = [i \in 1..n |-> s[i]]
    BY <1>2
  <2>. QED  BY <1>1, <1>3, <2>1, ListIs DEF ScreenSeqs
<1>5. Ids(s) = c.online
  BY <1>1, <1>3, <1>4 DEF Ids
<1>6. Spaces(s) \in SpaceSeqs /\ Len(Spaces(s)) = n /\ \A i \in 1..n : Spaces(s)[i] = s[i].space
  <2>1. Spaces(s) = [i \in 1..n |-> s[i].space]
    BY <1>4 DEF Spaces
  <2>2. \A i \in 1..n : Spaces(s)[i] = s[i].space /\ s[i].space \in SpaceIds \cup {None}
    BY <1>3, <2>1
  <2>3. Spaces(s) = [i \in 1..n |-> Spaces(s)[i]]
    BY <2>1
  <2>. QED  BY <1>1, <2>2, <2>3, ListIs DEF SpaceSeqs
<1>. QED  BY <1>1, <1>3, <1>4, <1>5, <1>6 DEF n, o, s

LEMMA CurrentIs ==
  ASSUME SystemTyped, CentreTyped, CacheIsTrue
  PROVE  Current \in Frames /\ (callbacks = <<>> => Current.online = online)
<1>1. CASE Stale
  BY <1>1 DEF Current, Fresh, Frames, SystemTyped
<1>2. CASE ~Stale
  BY <1>2 DEF Current, Stale, CentreTyped, CacheIsTrue
<1>. QED  BY <1>1, <1>2

LEMMA RefreshedKeeps ==
  ASSUME SystemTyped, CentreTyped, CacheIsTrue, Refreshed, UNCHANGED <<online, callbacks>>
  PROVE  cache' \in Frames \cup {None} /\ dirty' \in BOOLEAN /\ CacheIsTrue'
<1>1. Current \in Frames /\ (callbacks = <<>> => Current.online = online)
  BY CurrentIs
<1>2. CASE CanRead
  <2>1. cache' = Current /\ ~dirty' /\ dirty' \in BOOLEAN
    BY <1>2 DEF Refreshed, CentreTyped
  <2>. QED  BY <1>1, <2>1 DEF CacheIsTrue
<1>3. CASE ~CanRead
  <2>1. cache' = cache /\ dirty' = dirty
    BY <1>3 DEF Refreshed, CentreTyped
  <2>. QED  BY <2>1 DEF CacheIsTrue, CentreTyped
<1>. QED  BY <1>2, <1>3

LEMMA ScheduleKeeps ==
  ASSUME CentreTyped, ChurnsEnd, NEW churning \in BOOLEAN, Schedule(churning, refresh_pending)
  PROVE  /\ refresh_pending' \in BOOLEAN
         /\ refreshes' = {} \/ \E n \in 0..Retries : refreshes' = {n}
         /\ ~refresh_pending' => refreshes' \subseteq {0}
         /\ refresh_pending' => refreshes' # {}
         /\ refreshes \subseteq refreshes' /\ (~churning => refreshes' # {} /\ refresh_pending')
<1>1. 0 \in 0..Retries
  BY DisplayAssumption
<1>2. CASE churning \/ refresh_pending
  BY <1>2 DEF Schedule, CentreTyped, ChurnsEnd
<1>3. CASE ~(churning \/ refresh_pending)
  <2>1. refresh_pending' = TRUE /\ refreshes' = refreshes \cup {0}
    BY <1>3 DEF Schedule
  <2>2. refreshes' = {0}
    BY <1>3, <2>1 DEF CentreTyped
  <2>. QED  BY <1>1, <2>1, <2>2
<1>. QED  BY <1>2, <1>3

-----------------------------------------------------------------------------
\* The queue of news.

LEMMA EventAppended ==
  ASSUME NEW s \in Seq(Events), NEW e \in Events
  PROVE  /\ Append(s, e) \in Seq(Events) /\ DOMAIN Append(s, e) = 1..Len(s) + 1 /\ DOMAIN s = 1..Len(s)
         /\ Len(s) \in Nat /\ Len(Append(s, e)) = Len(s) + 1
         /\ \A i \in 1..Len(s) : Append(s, e)[i] = s[i]
         /\ Append(s, e)[Len(s) + 1] = e
OBVIOUS

LEMMA EventTaken ==
  ASSUME NEW s \in Seq(Events), s # <<>>
  PROVE  /\ Tail(s) \in Seq(Events) /\ DOMAIN Tail(s) = 1..Len(s) - 1 /\ DOMAIN s = 1..Len(s)
         /\ Len(s) \in Nat \ {0} /\ Len(Tail(s)) = Len(s) - 1 /\ 1 \in 1..Len(s) /\ s[1] \in Events
         /\ \A i \in 1..Len(s) - 1 : Tail(s)[i] = s[i + 1]
OBVIOUS

\* A churn that is over stays so.
LEMMA OverStays ==
  ASSUME channel \in Seq(Events), ChurnIsOver, UNCHANGED topology, ~active' /\ Idle' => ~active /\ Idle,
         \/ channel' = channel
         \/ \E e \in Events : e.op \notin Marks /\ channel' = Append(channel, e)
  PROVE  ChurnIsOver'
<1>. SUFFICES ASSUME ~active', Idle' PROVE ChurnIsOver'
  BY DEF ChurnIsOver
<1>1. CASE channel' = channel
  BY <1>1 DEF ChurnIsOver, Unmarked
<1>2. ASSUME NEW e \in Events, e.op \notin Marks, channel' = Append(channel, e) PROVE ChurnIsOver'
  <2>1. /\ DOMAIN channel' = 1..Len(channel) + 1 /\ DOMAIN channel = 1..Len(channel) /\ Len(channel) \in Nat
        /\ \A i \in 1..Len(channel) : channel'[i] = channel[i]
        /\ channel'[Len(channel) + 1] = e
    BY <1>2, EventAppended
  <2>2. \A i \in DOMAIN channel' : i \in DOMAIN channel \/ (channel'[i] = e /\ i = Len(channel) + 1)
    BY <2>1
  <2>3. ASSUME NEW i \in DOMAIN channel, channel[i].op = "End",
               \A j \in DOMAIN channel : j > i => channel[j].op \notin Marks
        PROVE  ChurnIsOver'
    <3>1. i \in DOMAIN channel' /\ channel'[i].op = "End"
      BY <2>1, <2>3
    <3>2. \A j \in DOMAIN channel' : j > i => channel'[j].op \notin Marks
      BY <1>2, <2>1, <2>2, <2>3
    <3>. QED  BY <3>1, <3>2 DEF ChurnIsOver
  <2>4. Unmarked(channel) => Unmarked(channel')
    BY <1>2, <2>1, <2>2 DEF Unmarked
  <2>. QED  BY <2>3, <2>4 DEF ChurnIsOver
<1>. QED  BY <1>1, <1>2

\* So does what is on its way, with more spaces behind it.
LEMMA ComeStays ==
  ASSUME channel \in Seq(Events), ScreensCome, UNCHANGED <<online, screens, topology>>,
         channel' = channel \/ \E e \in Events : Follows(e) /\ channel' = Append(channel, e)
  PROVE  ScreensCome'
<1>1. PICK k \in 0..Len(channel) :
        /\ \A j \in 1..Len(channel) : j > k => Follows(channel[j])
        /\ IF k = 0 THEN Accepted ELSE channel[k].op = "Screens" /\ Fit(channel[k].screens)
  BY DEF ScreensCome
<1>2. Accepted => Accepted'
  BY DEF Accepted, Fit
<1>3. CASE channel' = channel
  BY <1>1, <1>2, <1>3 DEF ScreensCome, Follows, Fit
<1>4. ASSUME NEW e \in Events, Follows(e), channel' = Append(channel, e) PROVE ScreensCome'
  <2>1. /\ Len(channel') = Len(channel) + 1 /\ Len(channel) \in Nat
        /\ \A i \in 1..Len(channel) : channel'[i] = channel[i]
        /\ channel'[Len(channel) + 1] = e
    BY <1>4, EventAppended
  <2>2. k \in 0..Len(channel')
    BY <2>1
  <2>3. ASSUME NEW j \in 1..Len(channel'), j > k PROVE (Follows(channel[j]) /\ channel'[j] = channel[j]) \/ channel'[j] = e
    BY <1>1, <2>1, <2>3
  <2>4. (\A j \in 1..Len(channel) : j > k => Follows(channel[j]))'
    BY <1>4, <2>3 DEF Follows
  <2>5. k # 0 => channel'[k] = channel[k]
    BY <2>1
  <2>6. (IF k = 0 THEN Accepted ELSE channel[k].op = "Screens" /\ Fit(channel[k].screens))'
    BY <1>1, <1>2, <2>5 DEF Fit
  <2>. QED  BY <2>2, <2>4, <2>6 DEF ScreensCome
<1>. QED  BY <1>3, <1>4
-----------------------------------------------------------------------------
\* The main thread.

\* A step that leaves a churn, or a refresh, under way.
LEMMA NotAtRest ==
  ASSUME ~(callbacks' = <<>> /\ ~active' /\ refreshes' = {})
  PROVE  ScreensArrive'
BY DEF ScreensArrive, Rested

LEMMA WriteScreens == IInv /\ ScreensInv /\ Write => ScreensInv'
<1>. SUFFICES ASSUME IInv, ScreensInv, Write PROVE ScreensInv'
  OBVIOUS
<1>. DEFINE w == writes[1]
<1>1. /\ ~Idle /\ writes' = Tail(writes)
      /\ FLAGS' = IF w.op = "FLAGS" THEN w.to ELSE FLAGS
      /\ COMPLETED' = IF w.op = "COMPLETED" THEN w.to ELSE COMPLETED
      /\ channel' = IF w.then = None THEN channel ELSE Append(channel, [op |-> w.then])
      /\ UNCHANGED <<online, shown, geometry, readable, callbacks, active, refresh_pending, checks, refreshes,
                     cache, dirty, topology, screens, frame, removed, flags_now, given_up>>
  BY DEF Write, systemVars, centreVars, reactorVars
<1>2. writes \in Seq(Writes) /\ writes # <<>> /\ channel \in Seq(Events)
  BY <1>1 DEF ScreensInv, ScreensTyped, AtomicsTyped, Idle
<1>3. w \in Writes /\ writes' \in Seq(Writes)
  BY <1>1, <1>2
<1>. HIDE DEF w
<1>4. w.then # None => [op |-> w.then] \in Events /\ w.then \in Marks
  BY <1>3 DEF Events, Writes, Marks
<1>5. ScreensTyped'
  <2>1. channel' \in Seq(Events)
    BY <1>1, <1>2, <1>4, EventAppended
  <2>2. FLAGS' \in SUBSET Flags /\ COMPLETED' \in SUBSET Flags
    BY <1>1, <1>3 DEF Writes, ScreensInv, ScreensTyped, AtomicsTyped
  <2>3. SystemTyped' /\ CentreTyped' /\ ReactorTyped'
    BY <1>1 DEF ScreensInv, ScreensTyped, SystemTyped, CentreTyped, ReactorTyped
  <2>. QED  BY <1>1, <1>3, <2>1, <2>2, <2>3 DEF ScreensInv, ScreensTyped, AtomicsTyped
<1>6. active \/ refreshes # {}
  BY <1>1 DEF ScreensInv, ChurnsEnd
<1>7. ChurnsEnd'
  BY <1>1, <1>6 DEF ScreensInv, ChurnsEnd
<1>8. CacheIsTrue'
  BY <1>1 DEF ScreensInv, CacheIsTrue
<1>9. ChurnIsOver'
  <2>. SUFFICES ASSUME ~active', Idle' PROVE ChurnIsOver'
    BY DEF ChurnIsOver
  <2>1. w.then = "End"
    <3>1. Ending(writes)
      BY <1>1 DEF IInv, Flagged, Kept
    <3>2. PICK v, x : x.then = "End" /\ writes \in {<<x>>, <<v, x>>}
      BY <3>1 DEF Ending
    <3>3. Tail(writes) = <<>>
      BY <1>1 DEF Idle
    <3>4. writes # <<v, x>>
      <4>1. Tail(<<v, x>>) = <<x>> /\ <<x>> # <<>>
        OBVIOUS
      <4>. QED  BY <3>3, <4>1
    <3>. QED  BY <3>2, <3>4 DEF w
  <2>2. channel' = Append(channel, [op |-> "End"]) /\ [op |-> "End"] \in Events
    BY <1>1, <1>4, <2>1, DisplayAssumption
  <2>3. /\ DOMAIN channel' = 1..Len(channel) + 1 /\ Len(channel) \in Nat
        /\ channel'[Len(channel) + 1] = [op |-> "End"]
    BY <1>2, <2>2, EventAppended
  <2>4. /\ Len(channel) + 1 \in DOMAIN channel' /\ channel'[Len(channel) + 1].op = "End"
        /\ \A j \in DOMAIN channel' : ~(j > Len(channel) + 1)
    BY <2>3
  <2>. QED  BY <2>4 DEF ChurnIsOver
<1>10. ScreensArrive'
  BY <1>1, <1>6, NotAtRest
<1>. QED  BY <1>5, <1>7, <1>8, <1>9, <1>10 DEF ScreensInv

LEMMA ReconfiguredScreens == ScreensInv /\ Reconfigured => ScreensInv'
<1>. SUFFICES ASSUME ScreensInv, Reconfigured PROVE ScreensInv'
  OBVIOUS
<1>1. /\ callbacks # <<>> /\ callbacks' = Tail(callbacks) /\ active' = TRUE /\ dirty' = TRUE
      /\ checks' = Outdated(checks) \cup {[current |-> TRUE, attempt |-> 0]}
      /\ writes' = BeginWrites(callbacks[1])
      /\ flags_now' = IF active THEN flags_now \cup callbacks[1] ELSE callbacks[1]
      /\ UNCHANGED <<online, shown, geometry, readable, refresh_pending, refreshes, cache, FLAGS, COMPLETED,
                     channel, topology, screens, frame, removed, given_up>>
  BY DEF Reconfigured, systemVars, atomicVars, reactorVars
<1>2. callbacks \in Seq(SUBSET Flags)
  BY DEF ScreensInv, ScreensTyped, SystemTyped
<1>3. callbacks[1] \in SUBSET Flags /\ callbacks' \in Seq(SUBSET Flags)
  BY <1>1, <1>2
<1>4. SystemTyped'
  BY <1>1, <1>3 DEF ScreensInv, ScreensTyped, SystemTyped
<1>5. CentreTyped'
  <2>1. checks' \in SUBSET [current : BOOLEAN, attempt : Nat]
    <3>1. /\ [current |-> FALSE, attempt |-> 0] \in [current : BOOLEAN, attempt : Nat]
          /\ [current |-> TRUE, attempt |-> 0] \in [current : BOOLEAN, attempt : Nat]
      OBVIOUS
    <3>2. \A x \in Outdated(checks) : x = [current |-> FALSE, attempt |-> 0]
      BY DEF Outdated
    <3>. QED  BY <1>1, <3>1, <3>2
  <2>. QED  BY <1>1, <2>1 DEF ScreensInv, ScreensTyped, CentreTyped
<1>6. AtomicsTyped'
  <2>1. FLAGS \in SUBSET Flags /\ COMPLETED \in SUBSET Flags /\ flags_now \in SUBSET Flags
    BY DEF ScreensInv, ScreensTyped, AtomicsTyped
  <2>2. flags_now' \in SUBSET Flags
    BY <1>1, <1>3, <2>1
  <2>3. /\ [op |-> "COMPLETED", to |-> {}, then |-> None] \in Writes
        /\ [op |-> "FLAGS", to |-> callbacks[1], then |-> "Begin"] \in Writes
        /\ [op |-> "FLAGS", to |-> FLAGS \cup callbacks[1], then |-> None] \in Writes
    BY <1>3, <2>1 DEF Writes
  <2>4. BeginWrites(callbacks[1]) \in Seq(Writes)
    BY <2>3 DEF BeginWrites
  <2>. QED  BY <1>1, <2>1, <2>2, <2>4 DEF AtomicsTyped
<1>7. ScreensTyped'
  BY <1>1, <1>4, <1>5, <1>6 DEF ScreensInv, ScreensTyped, ReactorTyped
<1>8. ChurnsEnd'
  <2>1. [current |-> TRUE, attempt |-> 0] \in checks' /\ [current |-> TRUE, attempt |-> 0].current
    BY <1>1
  <2>2. \E c \in checks' : c.current
    BY <2>1
  <2>. QED  BY <1>1, <2>2 DEF ScreensInv, ChurnsEnd
<1>9. CacheIsTrue' /\ ChurnIsOver' /\ ScreensArrive'
  BY <1>1, NotAtRest DEF CacheIsTrue, ChurnIsOver
<1>. QED  BY <1>7, <1>8, <1>9 DEF ScreensInv

LEMMA CheckScreens == ASSUME NEW c \in checks, NEW quiet \in BOOLEAN PROVE ScreensInv /\ Check(c, quiet) => ScreensInv'
<1>. SUFFICES ASSUME ScreensInv, Check(c, quiet) PROVE ScreensInv'
  OBVIOUS
<1>. DEFINE rest == checks \ {c}
            again == rest \cup {[c EXCEPT !.attempt = @ + 1]}
<1>1. /\ Idle
      /\ UNCHANGED <<online, shown, geometry, readable, callbacks, FLAGS, COMPLETED, channel, topology, screens,
                     frame, removed, flags_now, given_up>>
      /\ \/ /\ ~c.current \/ ~active
            /\ checks' = rest
            /\ UNCHANGED <<active, refresh_pending, refreshes, cache, dirty, writes>>
         \/ /\ c.current /\ active /\ Refreshed
            /\ \/ Finish(rest)
               \/ checks' = again /\ UNCHANGED <<active, refresh_pending, refreshes, writes>>
  BY DEF Check, systemVars, atomicVars, reactorVars
<1>2. /\ SystemTyped /\ CentreTyped /\ AtomicsTyped /\ ReactorTyped /\ channel \in Seq(Events)
      /\ ChurnsEnd /\ CacheIsTrue /\ ChurnIsOver /\ ScreensArrive
  BY DEF ScreensInv, ScreensTyped
<1>3. c \in [current : BOOLEAN, attempt : Nat] /\ checks \in SUBSET [current : BOOLEAN, attempt : Nat]
  BY <1>2 DEF CentreTyped
<1>4. SystemTyped' /\ ReactorTyped' /\ channel' \in Seq(Events)
  BY <1>1, <1>2 DEF SystemTyped, ReactorTyped
<1>5. CASE /\ ~c.current \/ ~active
           /\ checks' = rest
           /\ UNCHANGED <<active, refresh_pending, refreshes, cache, dirty, writes>>
  <2>1. CentreTyped'
    BY <1>2, <1>5 DEF CentreTyped
  <2>2. AtomicsTyped'
    BY <1>1, <1>2, <1>5 DEF AtomicsTyped
  <2>3. ChurnsEnd'
    BY <1>2, <1>5 DEF ChurnsEnd, Idle
  <2>4. CacheIsTrue'
    BY <1>1, <1>2, <1>5 DEF CacheIsTrue
  <2>5. ChurnIsOver'
    BY <1>1, <1>2, <1>5, OverStays DEF Idle
  <2>6. ScreensArrive'
    <3>1. ScreensCome => ScreensCome'
      BY <1>1, <1>2, ComeStays
    <3>. QED  BY <1>1, <1>2, <1>5, <3>1 DEF ScreensArrive, Rested
  <2>. QED  BY <1>4, <2>1, <2>2, <2>3, <2>4, <2>5, <2>6 DEF ScreensInv, ScreensTyped
<1>6. CASE /\ c.current /\ active /\ Refreshed
           /\ checks' = again /\ UNCHANGED <<active, refresh_pending, refreshes, writes>>
  <2>1. cache' \in Frames \cup {None} /\ dirty' \in BOOLEAN /\ CacheIsTrue'
    BY <1>1, <1>2, <1>6, RefreshedKeeps
  <2>2. [c EXCEPT !.attempt = @ + 1] \in [current : BOOLEAN, attempt : Nat] /\ [c EXCEPT !.attempt = @ + 1].current
    BY <1>3, <1>6
  <2>3. CentreTyped'
    BY <1>2, <1>3, <1>6, <2>1, <2>2 DEF CentreTyped
  <2>4. AtomicsTyped'
    BY <1>1, <1>2, <1>6 DEF AtomicsTyped
  <2>5. ChurnsEnd'
    BY <1>2, <1>6, <2>2 DEF ChurnsEnd
  <2>6. ChurnIsOver' /\ ScreensArrive'
    BY <1>6, NotAtRest DEF ChurnIsOver
  <2>. QED  BY <1>4, <2>1, <2>3, <2>4, <2>5, <2>6 DEF ScreensInv, ScreensTyped
<1>7. CASE c.current /\ active /\ Refreshed /\ Finish(rest)
  <2>1. cache' \in Frames \cup {None} /\ dirty' \in BOOLEAN /\ CacheIsTrue'
    BY <1>1, <1>2, <1>7, RefreshedKeeps
  <2>2. active' = FALSE /\ checks' = Outdated(rest) /\ writes' = EndWrites /\ Schedule(FALSE, refresh_pending)
    BY <1>7 DEF Finish
  <2>3. /\ refresh_pending' \in BOOLEAN
        /\ refreshes' = {} \/ \E n \in 0..Retries : refreshes' = {n}
        /\ ~refresh_pending' => refreshes' \subseteq {0}
        /\ refresh_pending' => refreshes' # {}
        /\ refreshes' # {}
    BY <1>2, <2>2, ScheduleKeeps
  <2>4. checks' \in SUBSET [current : BOOLEAN, attempt : Nat]
    <3>1. [current |-> FALSE, attempt |-> 0] \in [current : BOOLEAN, attempt : Nat]
      OBVIOUS
    <3>2. \A x \in Outdated(rest) : x = [current |-> FALSE, attempt |-> 0]
      BY DEF Outdated
    <3>. HIDE DEF rest
    <3>. QED  BY <2>2, <3>1, <3>2
  <2>5. CentreTyped'
    BY <2>1, <2>2, <2>3, <2>4 DEF CentreTyped
  <2>6. writes' \in Seq(Writes) /\ writes' # <<>>
    <3>1. FLAGS \in SUBSET Flags
      BY <1>2 DEF AtomicsTyped
    <3>2. /\ [op |-> "FLAGS", to |-> {}, then |-> None] \in Writes
          /\ [op |-> "COMPLETED", to |-> FLAGS, then |-> "End"] \in Writes
      BY <3>1 DEF Writes
    <3>. QED  BY <2>2, <3>2 DEF EndWrites
  <2>7. AtomicsTyped'
    BY <1>1, <1>2, <2>6 DEF AtomicsTyped
  <2>8. ChurnsEnd' /\ ChurnIsOver' /\ ScreensArrive'
    BY <2>2, <2>3, <2>6, NotAtRest DEF ChurnsEnd, ChurnIsOver, Idle
  <2>. QED  BY <1>4, <2>1, <2>5, <2>7, <2>8 DEF ScreensInv, ScreensTyped
<1>. QED  BY <1>1, <1>5, <1>6, <1>7

\* What a step leaves alone keeps its type.
LEMMA OthersTyped ==
  ASSUME ScreensTyped, UNCHANGED <<online, shown, geometry, readable, callbacks, FLAGS, COMPLETED, writes, topology,
                                   screens, frame, removed, flags_now>>
  PROVE  SystemTyped' /\ AtomicsTyped' /\ ReactorTyped'
BY DEF ScreensTyped, SystemTyped, AtomicsTyped, ReactorTyped

\* What a reading of the displays gives, once the reconfigurations are through.
LEMMA ReadingIs ==
  ASSUME SystemTyped, CentreTyped, CacheIsTrue
  PROVE  LET s == ScreensOf(Current)
         IN  /\ [op |-> "Screens", screens |-> s, frame |-> Current.geometry] \in Events
             /\ [op |-> "Spaces", spaces |-> Spaces(s)] \in Events
             /\ callbacks = <<>> =>
                  /\ s # <<>> => online # {}
                  /\ AllSpaces(s) => \A d \in online : shown[d] # 0
                  /\ (\A d \in online : shown[d] # 0) => Fit(s) /\ Follows([op |-> "Spaces", spaces |-> Spaces(s)])
<1>. DEFINE s == ScreensOf(Current)
            n == Cardinality(Current.online)
            o == InOrder(Current.online)
<1>1. Current \in Frames /\ (callbacks = <<>> => Current.online = online)
  BY CurrentIs
<1>2. /\ n \in Nat /\ (n = 0 <=> Current.online = {})
      /\ s \in ScreenSeqs /\ Len(s) = n /\ Ids(s) = Current.online
      /\ \A i \in 1..n : /\ s[i].id = o[i] /\ o[i] \in Current.online
                         /\ s[i].space \in OwnSpaces(s[i].id) \cup {None}
      /\ Spaces(s) \in SpaceSeqs /\ Len(Spaces(s)) = n /\ \A i \in 1..n : Spaces(s)[i] = s[i].space
  BY <1>1, ScreensAre
<1>3. \A i \in 1..n : s[i].space = IF o[i] \in online /\ shown[o[i]] # 0 THEN <<o[i], shown[o[i]]>> ELSE None
  BY DEF ScreensOf
<1>4. Current.geometry \in Nat
  BY <1>1 DEF Frames
<1>. HIDE DEF s, n, o
<1>5. [op |-> "Screens", screens |-> s, frame |-> Current.geometry] \in Events
  BY <1>2, <1>4 DEF Events
<1>6. [op |-> "Spaces", spaces |-> Spaces(s)] \in Events
  BY <1>2 DEF Events
<1>7. DOMAIN s = 1..n
  BY <1>2 DEF ScreenSeqs
<1>8. s # <<>> => Current.online # {}
  BY <1>2 DEF ScreenSeqs
<1>9. ASSUME callbacks = <<>>, AllSpaces(s), NEW d \in online PROVE shown[d] # 0
  <2>1. d \in Ids(s)
    BY <1>1, <1>2, <1>9
  <2>2. PICK i \in 1..n : s[i].id = d
    BY <1>7, <2>1 DEF Ids
  <2>3. s[i].space # None /\ o[i] = d
    BY <1>2, <1>7, <1>9, <2>2 DEF AllSpaces
  <2>. QED  BY <1>3, <2>3
<1>10. ASSUME callbacks = <<>>, \A d \in online : shown[d] # 0
       PROVE  Fit(s) /\ Follows([op |-> "Spaces", spaces |-> Spaces(s)])
  <2>1. Current.online = online /\ n = Cardinality(online) /\ o = InOrder(online)
    BY <1>1, <1>10 DEF n, o
  <2>2. ASSUME NEW i \in 1..n PROVE s[i].id = o[i] /\ s[i].space \in OwnSpaces(o[i]) /\ Spaces(s)[i] = s[i].space
    <3>1. o[i] \in online /\ shown[o[i]] # 0 /\ s[i].id = o[i] /\ Spaces(s)[i] = s[i].space
      BY <1>2, <1>10, <2>1
    <3>2. shown[o[i]] \in {1, 2}
      BY <3>1 DEF SystemTyped
    <3>3. s[i].space = <<o[i], shown[o[i]]>>
      BY <1>3, <3>1
    <3>. QED  BY <3>1, <3>2, <3>3 DEF OwnSpaces
  <2>3. Fit(s)
    BY <1>2, <2>1, <2>2 DEF Fit
  <2>4. Follows([op |-> "Spaces", spaces |-> Spaces(s)])
    BY <1>2, <2>1, <2>2 DEF Follows
  <2>. QED  BY <2>3, <2>4
<1>. QED  BY <1>1, <1>5, <1>6, <1>8, <1>9, <1>10 DEF s, n, o

LEMMA RefreshScreens == ASSUME NEW n \in refreshes PROVE ScreensInv /\ Refresh(n) => ScreensInv'
<1>. SUFFICES ASSUME ScreensInv, Refresh(n) PROVE ScreensInv'
  OBVIOUS
<1>. DEFINE s        == ScreensOf(Current)
            complete == CanRead /\ s # <<>> /\ AllSpaces(s)
            retry    == ~active /\ ~complete /\ n < Retries
            sent     == ~active /\ CanRead /\ s # <<>> /\ ~retry
            e        == [op |-> "Screens", screens |-> s, frame |-> Current.geometry]
<1>1. /\ Idle
      /\ refreshes' = (refreshes \ {n}) \cup (IF retry THEN {n + 1} ELSE {})
      /\ refresh_pending' = (retry \/ (active /\ FALSE))
      /\ IF active THEN UNCHANGED <<cache, dirty, given_up>>
                   ELSE Refreshed /\ given_up' = (~complete /\ (given_up \/ ~retry))
      /\ channel' = IF sent THEN Append(channel, e) ELSE channel
      /\ UNCHANGED <<online, shown, geometry, readable, callbacks, active, checks, FLAGS, COMPLETED, writes, topology,
                     screens, frame, removed, flags_now>>
  BY DEF Refresh, RefreshStep, systemVars, atomicVars, reactorVars
<1>2. /\ SystemTyped /\ CentreTyped /\ AtomicsTyped /\ ReactorTyped /\ channel \in Seq(Events)
      /\ ChurnsEnd /\ CacheIsTrue /\ ChurnIsOver /\ ScreensArrive /\ ScreensTyped
  BY DEF ScreensInv, ScreensTyped
<1>3. /\ e \in Events
      /\ callbacks = <<>> => /\ s # <<>> => online # {}
                             /\ AllSpaces(s) => \A d \in online : shown[d] # 0
                             /\ (\A d \in online : shown[d] # 0) => Fit(s)
  BY <1>2, ReadingIs
<1>4. /\ e.op = "Screens" /\ e.screens = s /\ e.op \notin Marks
  BY DEF Marks
<1>5. complete => CanRead /\ s # <<>> /\ AllSpaces(s)
  OBVIOUS
<1>6. retry => ~active /\ n < Retries
  OBVIOUS
<1>7. ~retry /\ complete /\ ~active => sent
  OBVIOUS
<1>8. ~active /\ ~retry /\ ~given_up' => complete
  BY <1>1
<1>. HIDE DEF s, complete, retry, sent, e
<1>9. n \in 0..Retries /\ refreshes = {n} /\ Retries \in Nat /\ (retry => n + 1 \in 0..Retries)
  <2>1. n \in 0..Retries /\ refreshes = {n}
    BY <1>2 DEF CentreTyped
  <2>2. Retries \in Nat
    BY DisplayAssumption
  <2>. QED  BY <1>6, <2>1, <2>2
<1>10. SystemTyped' /\ AtomicsTyped' /\ ReactorTyped'
  BY <1>1, <1>2, OthersTyped
<1>11. cache' \in Frames \cup {None} /\ dirty' \in BOOLEAN /\ CacheIsTrue'
  <2>1. CASE active
    BY <1>1, <1>2, <2>1 DEF CentreTyped, CacheIsTrue
  <2>2. CASE ~active
    BY <1>1, <1>2, <2>2, RefreshedKeeps
  <2>. QED  BY <2>1, <2>2
<1>12. (retry /\ refreshes' = {n + 1} /\ refresh_pending') \/ (~retry /\ refreshes' = {} /\ ~refresh_pending')
  BY <1>1, <1>9
<1>13. CentreTyped'
  <2>1. refresh_pending' \in BOOLEAN
    BY <1>1, <1>12 DEF retry
  <2>2. refreshes' = {} \/ \E m \in 0..Retries : refreshes' = {m}
    BY <1>9, <1>12
  <2>3. ~refresh_pending' => refreshes' \subseteq {0}
    BY <1>12
  <2>. QED  BY <1>1, <1>2, <1>11, <2>1, <2>2, <2>3 DEF CentreTyped
<1>14. channel' \in Seq(Events) /\ (channel' = channel \/ channel' = Append(channel, e))
  BY <1>1, <1>2, <1>3, EventAppended
<1>15. ChurnsEnd'
  BY <1>1, <1>2, <1>12 DEF ChurnsEnd, Idle
<1>16. ChurnIsOver'
  BY <1>1, <1>2, <1>3, <1>4, <1>14, OverStays DEF Idle
<1>17. ScreensArrive'
  <2>. SUFFICES ASSUME callbacks' = <<>>, ~active', refreshes' = {}, ~given_up' PROVE ScreensArrive'
    BY DEF ScreensArrive, Rested
  <2>1. ~active /\ ~retry /\ callbacks = <<>>
    BY <1>1, <1>12
  <2>2. complete
    BY <1>8, <2>1
  <2>3. online # {} /\ (\A d \in online : shown[d] # 0) /\ Fit(s)
    BY <1>3, <1>5, <2>1, <2>2
  <2>4. channel' = Append(channel, e)
    BY <1>1, <1>7, <2>1, <2>2
  <2>5. Len(channel') = Len(channel) + 1 /\ Len(channel) \in Nat /\ channel'[Len(channel) + 1] = e
    BY <1>2, <1>3, <2>4, EventAppended
  <2>. DEFINE k == Len(channel')
  <2>6. k \in 0..Len(channel') /\ k # 0 /\ channel'[k] = e /\ \A j \in 1..Len(channel') : ~(j > k)
    BY <2>5
  <2>7. channel'[k].op = "Screens" /\ channel'[k].screens = s
    BY <1>4, <2>6
  <2>. HIDE DEF k
  <2>8. ScreensCome'
    BY <1>1, <2>3, <2>6, <2>7 DEF ScreensCome, Fit
  <2>. QED  BY <1>1, <2>3, <2>8 DEF ScreensArrive
<1>. QED  BY <1>10, <1>11, <1>13, <1>14, <1>15, <1>16, <1>17 DEF ScreensInv, ScreensTyped

LEMMA NotifiedScreens == ASSUME NEW n \in notes PROVE IInv /\ ScreensInv /\ Notified(n) => ScreensInv'
<1>. SUFFICES ASSUME IInv, ScreensInv, Notified(n) PROVE ScreensInv'
  OBVIOUS
<1>. DEFINE e == [op |-> "Spaces", spaces |-> Spaces(ScreensOf(Current))]
<1>1. /\ Idle
      /\ UNCHANGED <<online, shown, geometry, readable, callbacks, active, checks, FLAGS, COMPLETED, writes, topology,
                     screens, frame, removed, flags_now, given_up>>
      /\ CASE n = "Space"   -> /\ SendSpaces(refresh_pending)
                               /\ UNCHANGED <<refresh_pending, refreshes>>
           [] n = "Display" -> /\ Schedule(active, refresh_pending)
                               /\ SendSpaces(refresh_pending')
           [] n = "Frame"   -> /\ Schedule(active, refresh_pending)
                               /\ UNCHANGED <<cache, dirty, last_sent, channel>>
           [] n = "Wake"    -> /\ dirty' = TRUE
                               /\ Schedule(active, refresh_pending)
                               /\ UNCHANGED <<cache, last_sent, channel>>
  BY DEF Notified, systemVars, atomicVars, reactorVars
<1>2. /\ SystemTyped /\ CentreTyped /\ AtomicsTyped /\ ReactorTyped /\ channel \in Seq(Events)
      /\ ChurnsEnd /\ CacheIsTrue /\ ChurnIsOver /\ ScreensArrive /\ ScreensTyped
  BY DEF ScreensInv, ScreensTyped
<1>3. /\ e \in Events
      /\ callbacks = <<>> /\ (\A d \in online : shown[d] # 0) => Follows(e)
  BY <1>2, ReadingIs
<1>4. e.op = "Spaces" /\ e.op \notin Marks
  BY DEF Marks
<1>5. ASSUME NEW p, SendSpaces(p)
      PROVE  /\ channel' = channel \/ channel' = Append(channel, e)
             /\ UNCHANGED <<cache, dirty>> \/ Refreshed
  BY <1>5 DEF SendSpaces
<1>. HIDE DEF e
<1>6. n \in {"Space", "Display", "Frame", "Wake"}
  BY DEF IInv, Noted
<1>7. /\ channel' = channel \/ channel' = Append(channel, e)
      /\ UNCHANGED <<cache, dirty>> \/ Refreshed \/ (dirty' = TRUE /\ cache' = cache)
      /\ UNCHANGED <<refresh_pending, refreshes>> \/ Schedule(active, refresh_pending)
  <2>1. CASE n = "Space"
    <3>1. SendSpaces(refresh_pending) /\ UNCHANGED <<refresh_pending, refreshes>>
      BY <1>1, <2>1
    <3>. QED  BY <1>5, <3>1
  <2>2. CASE n = "Display"
    <3>1. Schedule(active, refresh_pending) /\ SendSpaces(refresh_pending')
      BY <1>1, <2>2
    <3>. QED  BY <1>5, <3>1
  <2>3. CASE n = "Frame"
    BY <1>1, <2>3
  <2>4. CASE n = "Wake"
    BY <1>1, <2>4
  <2>. QED  BY <1>6, <2>1, <2>2, <2>3, <2>4
<1>8. SystemTyped' /\ AtomicsTyped' /\ ReactorTyped'
  BY <1>1, <1>2, OthersTyped
<1>9. cache' \in Frames \cup {None} /\ dirty' \in BOOLEAN /\ CacheIsTrue'
  <2>1. CASE UNCHANGED <<cache, dirty>>
    BY <1>1, <1>2, <2>1 DEF CentreTyped, CacheIsTrue
  <2>2. CASE Refreshed
    BY <1>1, <1>2, <2>2, RefreshedKeeps
  <2>3. CASE dirty' = TRUE /\ cache' = cache
    BY <1>1, <1>2, <2>3 DEF CentreTyped, CacheIsTrue
  <2>. QED  BY <1>7, <2>1, <2>2, <2>3
<1>10. /\ refresh_pending' \in BOOLEAN
       /\ refreshes' = {} \/ \E m \in 0..Retries : refreshes' = {m}
       /\ ~refresh_pending' => refreshes' \subseteq {0}
       /\ refresh_pending' => refreshes' # {}
       /\ refreshes \subseteq refreshes'
  <2>1. CASE UNCHANGED <<refresh_pending, refreshes>>
    BY <1>2, <2>1 DEF CentreTyped, ChurnsEnd
  <2>2. CASE Schedule(active, refresh_pending)
    <3>1. active \in BOOLEAN
      BY <1>2 DEF CentreTyped
    <3>. QED  BY <1>2, <2>2, <3>1, ScheduleKeeps
  <2>. QED  BY <1>7, <2>1, <2>2
<1>11. CentreTyped'
  BY <1>1, <1>2, <1>9, <1>10 DEF CentreTyped
<1>12. channel' \in Seq(Events)
  BY <1>2, <1>3, <1>7, EventAppended
<1>13. ChurnsEnd'
  BY <1>1, <1>2, <1>10 DEF ChurnsEnd, Idle
<1>14. ChurnIsOver'
  BY <1>1, <1>2, <1>3, <1>4, <1>7, OverStays DEF Idle
<1>15. ScreensArrive'
  <2>. SUFFICES ASSUME callbacks' = <<>>, ~active', refreshes' = {}, ~given_up' PROVE ScreensArrive'
    BY DEF ScreensArrive, Rested
  <2>1. callbacks = <<>> /\ ~active /\ refreshes = {} /\ ~given_up
    BY <1>1, <1>10
  <2>2. online # {} /\ (\A d \in online : shown[d] # 0) /\ ScreensCome
    BY <1>2, <2>1 DEF ScreensArrive, Rested
  <2>3. Follows(e)
    BY <1>3, <2>1, <2>2
  <2>4. ScreensCome'
    BY <1>1, <1>2, <1>3, <1>7, <2>2, <2>3, ComeStays
  <2>. QED  BY <1>1, <2>2, <2>4 DEF ScreensArrive
<1>. QED  BY <1>8, <1>9, <1>11, <1>12, <1>13, <1>14, <1>15 DEF ScreensInv, ScreensTyped

LEMMA ReconfigureScreens == ASSUME NEW S \in Sets PROVE ScreensInv /\ Reconfigure(S) => ScreensInv'
<1>. SUFFICES ASSUME ScreensInv, Reconfigure(S) PROVE ScreensInv'
  OBVIOUS
<1>. DEFINE g == IF online \ S # {} THEN <<{"Remove"}>> ELSE <<>>
            a == IF S \ online # {} THEN <<{"Add"}>> ELSE <<>>
<1>1. /\ Idle /\ S # online /\ online' = S /\ readable' \in BOOLEAN
      /\ callbacks' = callbacks \o g \o a
      /\ UNCHANGED <<geometry, active, refresh_pending, checks, refreshes, cache, dirty, FLAGS, COMPLETED, writes,
                     channel, topology, screens, frame, removed, flags_now, given_up>>
  BY DEF Reconfigure, centreVars, atomicVars, reactorVars
<1>2. PICK first \in {0, 1} :
        shown' = [d \in Displays |-> IF d \in S \ online THEN first ELSE IF d \in online \ S THEN 0 ELSE shown[d]]
  BY DEF Reconfigure
<1>3. /\ SystemTyped /\ CentreTyped /\ AtomicsTyped /\ ReactorTyped /\ channel \in Seq(Events)
      /\ ChurnsEnd /\ CacheIsTrue /\ ChurnIsOver /\ ScreensArrive
  BY DEF ScreensInv, ScreensTyped
<1>4. S \subseteq Displays
  BY DisplayAssumption
<1>5. shown' \in [Displays -> 0..2]
  BY <1>2, <1>3 DEF SystemTyped
<1>6. g \in Seq(SUBSET Flags) /\ a \in Seq(SUBSET Flags) /\ (g # <<>> \/ a # <<>>)
  <2>1. {"Remove"} \in SUBSET Flags /\ {"Add"} \in SUBSET Flags
    BY DEF Flags
  <2>2. \A x \in SUBSET Flags : <<x>> \in Seq(SUBSET Flags) /\ <<x>> # <<>>
    OBVIOUS
  <2>3. /\ <<{"Remove"}>> \in Seq(SUBSET Flags) /\ <<{"Remove"}>> # <<>>
        /\ <<{"Add"}>> \in Seq(SUBSET Flags) /\ <<{"Add"}>> # <<>>
    BY <2>1, <2>2
  <2>4. <<>> \in Seq(SUBSET Flags)
    OBVIOUS
  <2>5. online \ S # {} \/ S \ online # {}
    BY <1>1
  <2>6. g \in Seq(SUBSET Flags) /\ (online \ S # {} => g # <<>>)
    BY <2>3, <2>4, Zenon
  <2>7. a \in Seq(SUBSET Flags) /\ (S \ online # {} => a # <<>>)
    BY <2>3, <2>4, Zenon
  <2>. QED  BY <2>5, <2>6, <2>7
<1>. HIDE DEF g, a
<1>7. callbacks' \in Seq(SUBSET Flags) /\ callbacks' # <<>>
  <2>1. callbacks \in Seq(SUBSET Flags)
    BY <1>3 DEF SystemTyped
  <2>2. callbacks' \in Seq(SUBSET Flags) /\ Len(callbacks') = Len(callbacks) + Len(g) + Len(a)
    BY <1>1, <1>6, <2>1
  <2>3. Len(g) \in Nat /\ Len(a) \in Nat /\ (Len(g) # 0 \/ Len(a) # 0) /\ Len(callbacks) \in Nat
    BY <1>6, <2>1
  <2>4. Len(callbacks') # 0
    BY <2>2, <2>3
  <2>. QED  BY <2>2, <2>4
<1>8. ScreensTyped'
  <2>1. SystemTyped'
    BY <1>1, <1>3, <1>4, <1>5, <1>7 DEF SystemTyped
  <2>2. CentreTyped' /\ AtomicsTyped' /\ ReactorTyped'
    BY <1>1, <1>3 DEF CentreTyped, AtomicsTyped, ReactorTyped
  <2>. QED  BY <1>1, <1>3, <2>1, <2>2 DEF ScreensTyped
<1>9. ChurnsEnd'
  BY <1>1, <1>3 DEF ChurnsEnd, Idle
<1>10. CacheIsTrue' /\ ScreensArrive'
  BY <1>7, NotAtRest DEF CacheIsTrue
<1>11. ChurnIsOver'
  BY <1>1, <1>3, OverStays DEF Idle
<1>. QED  BY <1>8, <1>9, <1>10, <1>11 DEF ScreensInv

\* The spaces that are shown change, or the frames, while the displays stay the same.
LEMMA ShownScreens ==
  ASSUME ScreensInv, shown' \in [Displays -> 0..2], \A d \in online : shown[d] # 0 => shown'[d] # 0,
         geometry' \in Nat, readable' \in BOOLEAN,
         UNCHANGED <<online, callbacks, centreVars, atomicVars, writes, channel, reactorVars, flags_now, given_up>>
  PROVE  ScreensInv'
<1>1. UNCHANGED <<active, refresh_pending, checks, refreshes, cache, dirty, FLAGS, COMPLETED,
                  topology, screens, frame, removed>>
  BY DEF centreVars, atomicVars, reactorVars
<1>2. /\ SystemTyped /\ CentreTyped /\ AtomicsTyped /\ ReactorTyped /\ channel \in Seq(Events)
      /\ ChurnsEnd /\ CacheIsTrue /\ ChurnIsOver /\ ScreensArrive
  BY DEF ScreensInv, ScreensTyped
<1>3. ScreensTyped'
  <2>1. SystemTyped'
    BY <1>2 DEF SystemTyped
  <2>2. CentreTyped' /\ AtomicsTyped' /\ ReactorTyped'
    BY <1>1, <1>2 DEF CentreTyped, AtomicsTyped, ReactorTyped
  <2>. QED  BY <1>2, <2>1, <2>2 DEF ScreensTyped
<1>4. ChurnsEnd' /\ CacheIsTrue'
  BY <1>1, <1>2 DEF ChurnsEnd, CacheIsTrue, Idle
<1>5. ChurnIsOver'
  BY <1>1, <1>2, OverStays DEF Idle
<1>6. ScreensCome => ScreensCome'
  BY <1>1, <1>2, ComeStays
<1>7. ScreensArrive'
  BY <1>1, <1>2, <1>6 DEF ScreensArrive, Rested
<1>. QED  BY <1>3, <1>4, <1>5, <1>7 DEF ScreensInv

LEMMA SettleScreens == ScreensInv /\ Settle => ScreensInv'
<1>. SUFFICES ASSUME ScreensInv, Settle PROVE ScreensInv'
  OBVIOUS
<1>1. SystemTyped
  BY DEF ScreensInv, ScreensTyped
<1>2. /\ readable' = TRUE /\ geometry' = geometry
      /\ shown' = [d \in Displays |-> IF d \in online /\ shown[d] = 0 THEN 1 ELSE shown[d]]
      /\ UNCHANGED <<online, callbacks, centreVars, atomicVars, writes, channel, reactorVars, flags_now, given_up>>
  BY DEF Settle
<1>3. shown' \in [Displays -> 0..2] /\ \A d \in online : shown[d] # 0 => shown'[d] # 0
  BY <1>1, <1>2 DEF SystemTyped
<1>. QED  BY <1>1, <1>2, <1>3, ShownScreens DEF SystemTyped

LEMMA NotifyScreens == ASSUME NEW n PROVE ScreensInv /\ Notify(n) => ScreensInv'
<1>. SUFFICES ASSUME ScreensInv, Notify(n) PROVE ScreensInv'
  OBVIOUS
<1>1. SystemTyped
  BY DEF ScreensInv, ScreensTyped
<1>2. /\ readable' = readable /\ geometry' \in {geometry, geometry + 1}
      /\ shown' = shown \/ \E d \in online : shown[d] # 0 /\ shown' = [shown EXCEPT ![d] = 3 - @]
      /\ UNCHANGED <<online, callbacks, centreVars, atomicVars, writes, channel, reactorVars, flags_now, given_up>>
  BY DEF Notify
<1>3. shown' \in [Displays -> 0..2] /\ \A d \in online : shown[d] # 0 => shown'[d] # 0
  <2>1. CASE shown' = shown
    BY <1>1, <2>1 DEF SystemTyped
  <2>2. ASSUME NEW d \in online, shown[d] # 0, shown' = [shown EXCEPT ![d] = 3 - @]
        PROVE  shown' \in [Displays -> 0..2] /\ \A x \in online : shown[x] # 0 => shown'[x] # 0
    <3>1. d \in Displays /\ online \subseteq Displays /\ shown \in [Displays -> 0..2]
      BY <1>1 DEF SystemTyped
    <3>2. shown[d] \in {1, 2}
      BY <2>2, <3>1
    <3>3. 3 - shown[d] \in {1, 2}
      BY <3>2
    <3>. QED  BY <2>2, <3>1, <3>3
  <2>. QED  BY <1>2, <2>1, <2>2
<1>4. geometry' \in Nat /\ readable' \in BOOLEAN
  BY <1>1, <1>2 DEF SystemTyped
<1>. QED  BY <1>2, <1>3, <1>4, ShownScreens

-----------------------------------------------------------------------------
\* The reactor.

\* What a handler does with the first of the events, when the rest of them stays.
Popped == channel # <<>> /\ channel' = Tail(channel)

LEMMA SpacesAreDistinct ==
  ASSUME SystemTyped, NEW v, Len(v) \in Nat, DOMAIN v = 1..Len(v), Len(v) = Cardinality(online),
         \A i \in 1..Len(v) : v[i] \in OwnSpaces(InOrder(online)[i])
  PROVE  Unique(v) /\ \A i \in 1..Len(v) : v[i] # None
<1>. DEFINE o == InOrder(online)
<1>1. /\ o \in [1..Len(v) -> online]
      /\ \A i, j \in 1..Len(v) : o[i] = o[j] => i = j
      /\ online \subseteq Displays
  <2>1. online \subseteq Displays
    BY DEF SystemTyped
  <2>. QED  BY <2>1, InOrderIs
<1>. HIDE DEF o
<1>2. \A i \in 1..Len(v) : v[i] = <<o[i], 1>> \/ v[i] = <<o[i], 2>>
  BY DEF OwnSpaces, o
<1>3. ASSUME NEW i \in 1..Len(v), NEW j \in 1..Len(v), v[i] = v[j] PROVE i = j
  <2>1. o[i] = o[j]
    BY <1>2, <1>3
  <2>. QED  BY <1>1, <2>1
<1>4. ASSUME NEW i \in 1..Len(v) PROVE v[i] # None
  <2>1. o[i] \in Displays
    BY <1>1
  <2>2. <<o[i], 1>> \in Displays \X {1, 2} /\ <<o[i], 2>> \in Displays \X {1, 2}
    BY <2>1
  <2>3. v[i] \in Displays \X {1, 2}
    BY <1>2, <2>2
  <2>. QED  BY <2>3, DisplayAssumption
<1>. QED  BY <1>3, <1>4 DEF Unique

\* A snapshot that fits is whole, and of the displays that are online.
LEMMA FitIsWhole ==
  ASSUME SystemTyped, NEW s \in ScreenSeqs, Fit(s), online # {}
  PROVE  s # <<>> /\ AllSpaces(s) /\ Unique(Spaces(s)) /\ Ids(s) = online
<1>. DEFINE n == Cardinality(online)
            o == InOrder(online)
            v == Spaces(s)
<1>1. /\ online \subseteq Displays /\ n \in Nat /\ (n = 0 <=> online = {}) /\ o \in [1..n -> online]
      /\ \A d \in online : \E i \in 1..n : o[i] = d
  <2>1. online \subseteq Displays
    BY DEF SystemTyped
  <2>. QED  BY <2>1, InOrderIs
<1>2. Len(s) = n /\ DOMAIN s = 1..n /\ \A i \in 1..n : s[i].id = o[i] /\ s[i].space \in OwnSpaces(o[i])
  BY DEF Fit, ScreenSeqs
<1>3. v = [i \in 1..n |-> s[i].space]
  BY <1>2 DEF Spaces
<1>. HIDE DEF n, o, v
<1>4. \A i \in 1..n : v[i] = s[i].space
  BY <1>3
<1>5. v = [i \in 1..n |-> v[i]]
  BY <1>3
<1>6. Len(v) = n /\ DOMAIN v = 1..n
  <2>. DEFINE V == {v[i] : i \in 1..n}
  <2>1. \A i \in 1..n : v[i] \in V
    OBVIOUS
  <2>. HIDE DEF V
  <2>. QED  BY <1>1, <1>5, <2>1, ListIs
<1>7. Unique(v) /\ \A i \in 1..n : v[i] # None
  <2>1. Len(v) \in Nat /\ DOMAIN v = 1..Len(v) /\ Len(v) = Cardinality(online)
    BY <1>1, <1>6 DEF n
  <2>2. \A i \in 1..Len(v) : v[i] \in OwnSpaces(InOrder(online)[i])
    BY <1>2, <1>4, <1>6 DEF o
  <2>. QED  BY <1>6, <2>1, <2>2, SpacesAreDistinct
<1>8. s # <<>>
  <2>1. n # 0
    BY <1>1
  <2>. QED  BY <1>2, <2>1
<1>9. AllSpaces(s)
  BY <1>2, <1>4, <1>7 DEF AllSpaces
<1>10. Ids(s) = online
  BY <1>1, <1>2 DEF Ids
<1>. QED  BY <1>7, <1>8, <1>9, <1>10 DEF v

LEMMA PoppedOver ==
  ASSUME channel \in Seq(Events), ChurnIsOver, Popped, UNCHANGED <<active, writes>>,
         channel[1].op = "End" => topology'.state # "Churning",
         channel[1].op \notin Marks /\ topology.state # "Churning" => topology'.state # "Churning"
  PROVE  ChurnIsOver'
<1>. SUFFICES ASSUME ~active', Idle' PROVE ChurnIsOver'
  BY DEF ChurnIsOver
<1>1. ~active /\ Idle
  BY DEF Idle
<1>2. /\ DOMAIN channel' = 1..Len(channel) - 1 /\ DOMAIN channel = 1..Len(channel) /\ Len(channel) \in Nat \ {0}
      /\ \A i \in 1..Len(channel) - 1 : channel'[i] = channel[i + 1]
  BY EventTaken DEF Popped
<1>3. \A i \in DOMAIN channel' : i \in Nat /\ i + 1 \in DOMAIN channel /\ channel'[i] = channel[i + 1] /\ i + 1 > 1
  BY <1>2
<1>4. ASSUME NEW i \in DOMAIN channel, channel[i].op = "End",
             \A j \in DOMAIN channel : j > i => channel[j].op \notin Marks
      PROVE  ChurnIsOver'
  <2>1. CASE i = 1
    <3>1. \A j \in DOMAIN channel' : channel'[j].op \notin Marks
      BY <1>3, <1>4, <2>1
    <3>. QED  BY <1>4, <2>1, <3>1 DEF ChurnIsOver, Unmarked
  <2>2. CASE i # 1
    <3>1. i - 1 \in DOMAIN channel' /\ channel'[i - 1] = channel[i]
      BY <1>2, <2>2
    <3>2. \A j \in DOMAIN channel' : j > i - 1 => channel'[j].op \notin Marks
      <4>. SUFFICES ASSUME NEW j \in DOMAIN channel', j > i - 1 PROVE channel'[j].op \notin Marks
        OBVIOUS
      <4>1. j + 1 \in DOMAIN channel /\ j + 1 > i /\ channel'[j] = channel[j + 1]
        BY <1>2, <1>3
      <4>. QED  BY <1>4, <4>1
    <3>. QED  BY <1>4, <3>1, <3>2 DEF ChurnIsOver
  <2>. QED  BY <2>1, <2>2
<1>5. ASSUME Unmarked(channel), topology.state # "Churning" PROVE ChurnIsOver'
  <2>1. channel[1].op \notin Marks
    BY <1>2, <1>5 DEF Unmarked
  <2>2. \A j \in DOMAIN channel' : channel'[j].op \notin Marks
    BY <1>3, <1>5 DEF Unmarked
  <2>. QED  BY <1>5, <2>1, <2>2 DEF ChurnIsOver, Unmarked
<1>. QED  BY <1>1, <1>4, <1>5 DEF ChurnIsOver

LEMMA CommitKeeps ==
  ASSUME ReactorTyped, NEW s, NEW gone, NEW re, Commit(s, gone, re)
  PROVE  /\ topology' \in [state : {"Stable", "Churning", "Awaiting"}, flags : SUBSET Flags]
         /\ topology' = topology \/ topology'.state = "Stable"
         /\ topology.state = "Stable" => topology'.state = "Stable"
         /\ s # <<>> /\ AllSpaces(s) /\ Unique(Spaces(s)) /\ gone = {} /\ topology.state # "Churning"
              => topology'.state = "Stable"
<1>1. topology \in [state : {"Stable", "Churning", "Awaiting"}, flags : SUBSET Flags]
  BY DEF ReactorTyped
<1>2. [state |-> "Stable", flags |-> {}] \in [state : {"Stable", "Churning", "Awaiting"}, flags : SUBSET Flags]
  OBVIOUS
<1>3. topology' = topology \/ topology' = [state |-> "Stable", flags |-> {}]
  BY DEF Commit
<1>4. topology.state = "Stable" => topology' = [state |-> "Stable", flags |-> {}]
  BY DEF Commit
<1>5. s # <<>> /\ AllSpaces(s) /\ Unique(Spaces(s)) /\ gone = {} /\ topology.state = "Awaiting"
        => topology' = [state |-> "Stable", flags |-> {}]
  BY DEF Commit, Waiting
<1>6. topology.state \in {"Stable", "Churning", "Awaiting"}
  BY <1>1
<1>. QED  BY <1>1, <1>2, <1>3, <1>4, <1>5, <1>6

LEMMA Elements == ASSUME NEW S, NEW s \in Seq(S) PROVE \A i \in DOMAIN s : s[i] \in S
OBVIOUS

LEMMA IdsTyped == ASSUME NEW s \in ScreenSeqs PROVE Ids(s) \in SUBSET Displays
<1>1. \A i \in DOMAIN s : s[i] \in [id : Displays, space : SpaceIds \cup {None}]
  BY Elements DEF ScreenSeqs
<1>2. \A i \in DOMAIN s : s[i].id \in Displays
  BY <1>1
<1>. QED  BY <1>2 DEF Ids

LEMMA HandledScreens ==
  ASSUME SystemTyped, ReactorTyped, NEW e \in Events, e.op = "Screens", HandleScreens(e)
  PROVE  /\ ReactorTyped'
         /\ topology' = topology \/ topology'.state = "Stable"
         /\ UNCHANGED online /\ Fit(e.screens) /\ online # {} /\ topology.state # "Churning" => Accepted'
<1>. DEFINE before  == Ids(screens)
            now     == Ids(e.screens)
            missing == before \ now
            allowed == "Remove" \in topology.flags
            gone    == (removed \ now) \cup (IF allowed THEN missing ELSE {})
            moved   == [i \in DOMAIN screens |-> screens[i].id] # [i \in DOMAIN e.screens |-> e.screens[i].id]
            re      == relayout \/ (moved /\ (has_seen \/ before # {})) \/ gone # {}
            whole   == e.screens # <<>> /\ AllSpaces(e.screens) /\ Unique(Spaces(e.screens))
            left    == IF whole THEN {} ELSE gone
<1>1. \/ /\ missing # {} /\ ~allowed
         /\ removed' = removed \ now
         /\ UNCHANGED <<topology, screens, frame>>
      \/ /\ screens' = e.screens /\ frame' = e.frame
         /\ removed' = left
         /\ Commit(e.screens, left, re)
  BY DEF HandleScreens
<1>2. e \in [op : {"Screens"}, screens : ScreenSeqs, frame : Nat]
  BY DEF Events, Marks
<1>3. e.screens \in ScreenSeqs /\ e.frame \in Nat
  BY <1>2
<1>4. /\ topology \in [state : {"Stable", "Churning", "Awaiting"}, flags : SUBSET Flags]
      /\ screens \in ScreenSeqs /\ removed \in SUBSET Displays /\ frame \in Nat
  BY DEF ReactorTyped
<1>5. Ids(screens) \in SUBSET Displays
  BY <1>4, IdsTyped
<1>6. gone \in SUBSET Displays /\ left \in SUBSET Displays /\ (whole => left = {})
  BY <1>4, <1>5
<1>. HIDE DEF gone, moved, re, left
<1>7. CASE /\ missing # {} /\ ~allowed
           /\ removed' = removed \ now
           /\ UNCHANGED <<topology, screens, frame>>
  <2>1. ReactorTyped'
    BY <1>4, <1>7 DEF ReactorTyped
  <2>2. ASSUME UNCHANGED online, Fit(e.screens), online # {} PROVE Accepted'
    <3>1. now = online
      BY <1>3, <2>2, FitIsWhole
    <3>2. ~(Ids(screens) \subseteq online) /\ "Remove" \notin topology.flags
      BY <1>7, <3>1
    <3>. QED  BY <1>7, <2>2, <3>2 DEF Accepted
  <2>. QED  BY <1>7, <2>1, <2>2
<1>8. CASE /\ screens' = e.screens /\ frame' = e.frame
           /\ removed' = left
           /\ Commit(e.screens, left, re)
  <2>1. /\ topology' \in [state : {"Stable", "Churning", "Awaiting"}, flags : SUBSET Flags]
        /\ topology' = topology \/ topology'.state = "Stable"
        /\ whole /\ left = {} /\ topology.state # "Churning" => topology'.state = "Stable"
    BY <1>8, CommitKeeps
  <2>2. ReactorTyped'
    BY <1>3, <1>6, <1>8, <2>1 DEF ReactorTyped
  <2>3. ASSUME UNCHANGED online, Fit(e.screens), online # {}, topology.state # "Churning" PROVE Accepted'
    <3>1. whole
      BY <1>3, <2>3, FitIsWhole
    <3>2. topology'.state = "Stable"
      BY <1>6, <2>1, <2>3, <3>1
    <3>3. Fit(screens)'
      BY <1>8, <2>3 DEF Fit
    <3>. QED  BY <3>2, <3>3 DEF Accepted
  <2>. QED  BY <2>1, <2>2, <2>3
<1>. QED  BY <1>1, <1>7, <1>8

LEMMA SpaceReplaced ==
  ASSUME NEW A, NEW B, NEW r \in [id : A, space : B], NEW x \in B
  PROVE  [r EXCEPT !.space = x] \in [id : A, space : B] /\ [r EXCEPT !.space = x].id = r.id
         /\ [r EXCEPT !.space = x].space = x
OBVIOUS

LEMMA HandledSpaces ==
  ASSUME SystemTyped, ReactorTyped, NEW e \in Events, e.op = "Spaces", HandleSpaces(e.spaces)
  PROVE  /\ ReactorTyped'
         /\ topology' = topology \/ topology'.state = "Stable"
         /\ UNCHANGED online /\ Follows(e) /\ online # {} /\ Accepted => Accepted'
<1>. DEFINE v     == e.spaces
            whole == \A i \in DOMAIN v : v[i] # None
            left  == IF whole /\ Unique(v) THEN {} ELSE removed
            none  == left # {} \/ \A i \in DOMAIN v : v[i] = None
<1>1. /\ UNCHANGED frame
      /\ \/ UNCHANGED <<topology, screens, removed>>
         \/ /\ Len(v) = Len(screens)
            /\ screens' = WithSpaces(v) /\ removed' = left
            /\ \/ none /\ UNCHANGED topology
               \/ ~none /\ Commit(screens', left, relayout)
  BY DEF HandleSpaces
<1>2. e \in [op : {"Spaces"}, spaces : SpaceSeqs]
  BY DEF Events, Marks
<1>3. v \in Seq(SpaceIds \cup {None}) /\ Len(v) \in Nat /\ DOMAIN v = 1..Len(v)
  BY <1>2 DEF SpaceSeqs
<1>4. /\ topology \in [state : {"Stable", "Churning", "Awaiting"}, flags : SUBSET Flags]
      /\ screens \in Seq([id : Displays, space : SpaceIds \cup {None}])
      /\ removed \in SUBSET Displays /\ frame \in Nat
  BY DEF ReactorTyped, ScreenSeqs
<1>5. left \in SUBSET Displays
  BY <1>4
<1>6. Follows(e) => Unique(v) /\ whole
  <2>1. Follows(e) => Len(v) = Cardinality(online) /\ \A i \in 1..Len(v) : v[i] \in OwnSpaces(InOrder(online)[i])
    BY DEF Follows
  <2>. QED  BY <1>3, <2>1, SpacesAreDistinct
<1>7. Follows(e) => left = {}
  BY <1>6
<1>8. Follows(e) /\ online # {} => ~none
  <2>1. Follows(e) /\ online # {} => Len(v) # 0
    <3>1. online \subseteq Displays
      BY DEF SystemTyped
    <3>. QED  BY <3>1, InOrderIs DEF Follows
  <2>2. Len(v) # 0 => 1 \in DOMAIN v
    BY <1>3
  <2>. QED  BY <1>6, <1>7, <2>1, <2>2
<1>9. CASE UNCHANGED <<topology, screens, removed>>
  <2>1. ReactorTyped'
    BY <1>1, <1>9 DEF ReactorTyped
  <2>2. UNCHANGED online /\ Accepted => Accepted'
    BY <1>9 DEF Accepted, Fit
  <2>. QED  BY <1>9, <2>1, <2>2
<1>10. CASE /\ Len(v) = Len(screens)
            /\ screens' = WithSpaces(v) /\ removed' = left
            /\ \/ none /\ UNCHANGED topology
               \/ ~none /\ Commit(screens', left, relayout)
  <2>. DEFINE n == Len(screens)
              t == WithSpaces(v)
  <2>1. n \in Nat /\ DOMAIN screens = 1..n /\ DOMAIN v = 1..n /\ Len(v) = n
    BY <1>3, <1>4, <1>10
  <2>2. \A i \in 1..n : /\ screens[i] \in [id : Displays, space : SpaceIds \cup {None}]
                        /\ v[i] \in SpaceIds \cup {None}
    <3>1. \A i \in DOMAIN screens : screens[i] \in [id : Displays, space : SpaceIds \cup {None}]
      BY <1>4, Elements
    <3>2. \A i \in DOMAIN v : v[i] \in SpaceIds \cup {None}
      BY <1>3, Elements
    <3>. HIDE DEF v, n
    <3>. QED  BY <2>1, <3>1, <3>2
  <2>3. t = [i \in 1..n |-> [screens[i] EXCEPT !.space = v[i]]]
    BY <2>1 DEF WithSpaces
  <2>4. \A i \in 1..n : /\ t[i] \in [id : Displays, space : SpaceIds \cup {None}]
                        /\ t[i].id = screens[i].id /\ t[i].space = v[i]
    <3>. SUFFICES ASSUME NEW i \in 1..n
                  PROVE  /\ t[i] \in [id : Displays, space : SpaceIds \cup {None}]
                         /\ t[i].id = screens[i].id /\ t[i].space = v[i]
      OBVIOUS
    <3>1. t[i] = [screens[i] EXCEPT !.space = v[i]]
      BY <2>3
    <3>. HIDE DEF t, n
    <3>. QED  BY <2>2, <3>1, SpaceReplaced
  <2>5. t \in ScreenSeqs /\ Len(t) = n /\ DOMAIN t = 1..n
    <3>1. t = [i \in 1..n |-> t[i]]
      BY <2>3
    <3>. DEFINE R == [id : Displays, space : SpaceIds \cup {None}]
    <3>2. \A i \in 1..n : t[i] \in R
      BY <2>4
    <3>3. ScreenSeqs = Seq(R)
      BY DEF ScreenSeqs
    <3>. HIDE DEF t, n, R
    <3>. QED  BY <2>1, <3>1, <3>2, <3>3, ListIs
  <2>. HIDE DEF t, n
  <2>6. Ids(t) = Ids(screens)
    BY <2>1, <2>4, <2>5 DEF Ids
  <2>7. screens' = t
    BY <1>10 DEF t
  <2>8. /\ topology' \in [state : {"Stable", "Churning", "Awaiting"}, flags : SUBSET Flags]
        /\ topology' = topology \/ topology'.state = "Stable"
        /\ topology.state = "Stable" => topology'.state = "Stable"
    <3>1. CASE UNCHANGED topology
      BY <1>4, <3>1
    <3>2. CASE Commit(screens', left, relayout)
      <4>1. Commit(t, left, relayout)
        BY <2>7, <3>2 DEF Commit
      <4>. HIDE DEF left
      <4>. QED  BY <4>1, CommitKeeps
    <3>. QED  BY <1>10, <3>1, <3>2
  <2>9. ReactorTyped'
    BY <1>1, <1>4, <1>5, <1>10, <2>5, <2>7, <2>8 DEF ReactorTyped
  <2>10. ASSUME UNCHANGED online, Follows(e), online # {}, Accepted PROVE Accepted'
    <3>1. Ids(screens) = online => Fit(t)
      <4>. SUFFICES ASSUME Ids(screens) = online PROVE Fit(t)
        OBVIOUS
      <4>1. n = Cardinality(online) /\ \A i \in 1..n : screens[i].id = InOrder(online)[i]
        BY <2>10 DEF Accepted, Fit, n
      <4>2. \A i \in 1..n : v[i] \in OwnSpaces(InOrder(online)[i])
        BY <2>1, <2>10 DEF Follows
      <4>. QED  BY <2>4, <2>5, <4>1, <4>2 DEF Fit
    <3>2. (Ids(screens) = online)' => Fit(screens)'
      BY <2>6, <2>7, <2>10, <3>1 DEF Fit
    <3>3. topology'.state = "Stable" \/ (~(Ids(screens') \subseteq online) /\ "Remove" \notin topology'.flags)
      BY <2>6, <2>7, <2>8, <2>10 DEF Accepted
    <3>. QED  BY <2>10, <3>2, <3>3 DEF Accepted
  <2>. QED  BY <2>8, <2>9, <2>10
<1>. QED  BY <1>1, <1>9, <1>10

LEMMA ReactScreens == ScreensInv /\ React => ScreensInv'
<1>. SUFFICES ASSUME ScreensInv, React PROVE ScreensInv'
  OBVIOUS
<1>. DEFINE e == channel[1]
<1>1. /\ Popped
      /\ CASE e.op = "Begin"   -> HandleBegin
           [] e.op = "End"     -> HandleEnd
           [] e.op = "Screens" -> HandleScreens(e)
           [] e.op = "Spaces"  -> HandleSpaces(e.spaces)
      /\ UNCHANGED <<online, shown, geometry, readable, callbacks, active, refresh_pending, checks, refreshes,
                     cache, dirty, FLAGS, COMPLETED, writes, flags_now, given_up>>
  BY DEF React, Popped, systemVars, centreVars, atomicVars
<1>2. /\ SystemTyped /\ CentreTyped /\ AtomicsTyped /\ ReactorTyped /\ channel \in Seq(Events)
      /\ ChurnsEnd /\ CacheIsTrue /\ ChurnIsOver /\ ScreensArrive
  BY DEF ScreensInv, ScreensTyped
<1>3. /\ channel' \in Seq(Events) /\ Len(channel) \in Nat \ {0} /\ Len(channel') = Len(channel) - 1
      /\ e \in Events /\ 1 \in 1..Len(channel) /\ DOMAIN channel = 1..Len(channel)
      /\ \A i \in 1..Len(channel) - 1 : channel'[i] = channel[i + 1]
  BY <1>1, <1>2, EventTaken DEF Popped
<1>. HIDE DEF e
<1>4. e.op \in {"Begin", "End", "Screens", "Spaces"}
  BY <1>3 DEF Events, Marks
<1>5. e.op = "Begin" => HandleBegin
  BY <1>1
<1>6. e.op = "End" => HandleEnd
  BY <1>1
<1>7. e.op = "Screens" => HandleScreens(e)
  BY <1>1
<1>8. e.op = "Spaces" => HandleSpaces(e.spaces)
  BY <1>1
<1>9. /\ ReactorTyped'
      /\ e.op = "End" => topology'.state # "Churning"
      /\ e.op \notin Marks /\ topology.state # "Churning" => topology'.state # "Churning"
  <2>1. CASE e.op \in Marks
    <3>1. FLAGS \in SUBSET Flags /\ COMPLETED \in SUBSET Flags
      BY <1>2 DEF AtomicsTyped
    <3>2. topology \in [state : {"Stable", "Churning", "Awaiting"}, flags : SUBSET Flags]
      BY <1>2 DEF ReactorTyped
    <3>3. topology.flags \in SUBSET Flags
      BY <3>2
    <3>4. /\ topology' \in [state : {"Stable", "Churning", "Awaiting"}, flags : SUBSET Flags]
          /\ e.op = "End" => topology'.state # "Churning"
          /\ UNCHANGED <<screens, frame, removed>>
      <4>1. CASE e.op = "Begin"
        BY <1>5, <3>1, <4>1 DEF HandleBegin
      <4>2. CASE e.op = "End"
        <5>1. COMPLETED \cup (IF topology.state = "Churning" THEN topology.flags ELSE {}) \in SUBSET Flags
          BY <3>1, <3>3
        <5>. QED  BY <1>6, <4>2, <5>1 DEF HandleEnd
      <4>. QED  BY <2>1, <4>1, <4>2 DEF Marks
    <3>. QED  BY <1>2, <2>1, <3>4 DEF ReactorTyped
  <2>2. CASE e.op = "Screens"
    BY <1>2, <1>3, <1>7, <2>2, HandledScreens
  <2>3. CASE e.op = "Spaces"
    BY <1>2, <1>3, <1>8, <2>3, HandledSpaces
  <2>. QED  BY <1>4, <2>1, <2>2, <2>3 DEF Marks
<1>10. ScreensTyped'
  <2>1. SystemTyped' /\ CentreTyped' /\ AtomicsTyped'
    BY <1>1, <1>2 DEF SystemTyped, CentreTyped, AtomicsTyped
  <2>. QED  BY <1>3, <1>9, <2>1 DEF ScreensTyped
<1>11. ChurnsEnd' /\ CacheIsTrue'
  BY <1>1, <1>2 DEF ChurnsEnd, CacheIsTrue, Idle
<1>12. ChurnIsOver'
  BY <1>1, <1>2, <1>9, PoppedOver DEF e
<1>13. ScreensArrive'
  <2>. SUFFICES ASSUME Rested, ~given_up PROVE ScreensArrive'
    BY <1>1 DEF ScreensArrive, Rested
  <2>1. online # {} /\ (\A d \in online : shown[d] # 0) /\ ScreensCome
    BY <1>2 DEF ScreensArrive
  <2>2. PICK k \in 0..Len(channel) :
          /\ \A j \in 1..Len(channel) : j > k => Follows(channel[j])
          /\ IF k = 0 THEN Accepted ELSE channel[k].op = "Screens" /\ Fit(channel[k].screens)
    BY <2>1 DEF ScreensCome
  <2>3. CASE k > 1
    <3>1. k - 1 \in 0..Len(channel') /\ k - 1 # 0 /\ channel'[k - 1] = channel[k]
      BY <1>3, <2>3
    <3>2. \A j \in 1..Len(channel') : j > k - 1 => Follows(channel'[j])
      <4>. SUFFICES ASSUME NEW j \in 1..Len(channel'), j > k - 1 PROVE Follows(channel'[j])
        OBVIOUS
      <4>1. j + 1 \in 1..Len(channel) /\ j + 1 > k /\ channel'[j] = channel[j + 1]
        BY <1>3
      <4>. QED  BY <2>2, <4>1
    <3>3. \A j \in 1..Len(channel') : j > k - 1 => Follows(channel[j])'
      BY <1>1, <3>2 DEF Follows
    <3>4. channel'[k - 1].op = "Screens" /\ Fit(channel[k - 1].screens)'
      BY <1>1, <2>2, <2>3, <3>1 DEF Fit
    <3>5. ScreensCome'
      BY <3>1, <3>3, <3>4 DEF ScreensCome
    <3>. QED  BY <1>1, <2>1, <3>5 DEF ScreensArrive
  <2>4. CASE k <= 1
    <3>1. \A j \in 1..Len(channel') : Follows(channel'[j])
      <4>. SUFFICES ASSUME NEW j \in 1..Len(channel') PROVE Follows(channel'[j])
        OBVIOUS
      <4>1. j + 1 \in 1..Len(channel) /\ j + 1 > k /\ channel'[j] = channel[j + 1]
        BY <1>3, <2>4
      <4>. QED  BY <2>2, <4>1
    <3>2. Accepted'
      <4>1. CASE k = 1
        <5>1. e.op = "Screens" /\ Fit(e.screens)
          BY <2>2, <4>1 DEF e
        <5>2. ~active /\ Idle
          BY <1>2 DEF ChurnsEnd, Rested
        <5>3. topology.state # "Churning"
          <6>1. \A i \in DOMAIN channel : channel[i].op # "End"
            <7>. SUFFICES ASSUME NEW i \in DOMAIN channel PROVE channel[i].op # "End"
              OBVIOUS
            <7>1. CASE i = 1
              BY <5>1, <7>1 DEF e
            <7>2. CASE i # 1
              <8>1. i \in 1..Len(channel) /\ i > k
                BY <1>3, <4>1, <7>2
              <8>. QED  BY <2>2, <8>1 DEF Follows
            <7>. QED  BY <7>1, <7>2
          <6>. QED  BY <1>2, <5>2, <6>1 DEF ChurnIsOver
        <5>. QED  BY <1>1, <1>2, <1>3, <1>7, <2>1, <5>1, <5>3, HandledScreens
      <4>2. CASE k = 0
        <5>1. 1 > k
          BY <4>2
        <5>2. Follows(e) /\ Accepted
          BY <1>3, <2>2, <4>2, <5>1 DEF e
        <5>3. e.op = "Spaces"
          BY <5>2 DEF Follows
        <5>. QED  BY <1>1, <1>2, <1>3, <1>8, <2>1, <5>2, <5>3, HandledSpaces
      <4>. QED  BY <2>4, <4>1, <4>2
    <3>3. \A j \in 1..Len(channel') : Follows(channel[j])'
      BY <1>1, <3>1 DEF Follows
    <3>4. 0 \in 0..Len(channel')
      BY <1>3
    <3>5. ScreensCome'
      BY <3>2, <3>3, <3>4 DEF ScreensCome
    <3>. QED  BY <1>1, <2>1, <3>5 DEF ScreensArrive
  <2>. QED  BY <2>3, <2>4
<1>. QED  BY <1>10, <1>11, <1>12, <1>13 DEF ScreensInv

-----------------------------------------------------------------------------
LEMMA ScreensInit == Init => ScreensInv
<1>. SUFFICES ASSUME Init PROVE ScreensInv
  OBVIOUS
<1>1. /\ online = First /\ shown = [d \in Displays |-> IF d \in online THEN 1 ELSE 0]
      /\ geometry = 0 /\ readable = TRUE /\ callbacks = <<>>
      /\ active = FALSE /\ refresh_pending = FALSE /\ checks = {} /\ refreshes = {0} /\ cache = None /\ dirty = FALSE
      /\ FLAGS = {} /\ COMPLETED = {} /\ writes = <<>> /\ flags_now = {} /\ channel = <<>>
      /\ topology = [state |-> "Stable", flags |-> {}] /\ screens = <<>> /\ frame = 0 /\ removed = {}
  BY DEF Init
<1>2. First \subseteq Displays /\ 0 \in 0..Retries
  BY DisplayAssumption
<1>3. SystemTyped
  BY <1>1, <1>2 DEF SystemTyped
<1>4. CentreTyped
  BY <1>1, <1>2 DEF CentreTyped
<1>5. AtomicsTyped /\ ReactorTyped
  BY <1>1 DEF AtomicsTyped, ReactorTyped, ScreenSeqs
<1>6. ScreensTyped
  BY <1>1, <1>3, <1>4, <1>5 DEF ScreensTyped
<1>7. ChurnsEnd /\ CacheIsTrue /\ ScreensArrive
  BY <1>1 DEF ChurnsEnd, CacheIsTrue, ScreensArrive, Rested
<1>8. ChurnIsOver
  BY <1>1 DEF ChurnIsOver, Unmarked
<1>. QED  BY <1>6, <1>7, <1>8 DEF ScreensInv

LEMMA ScreensStep == IInv /\ ScreensInv /\ [Next]_vars => ScreensInv'
<1>. SUFFICES ASSUME IInv, ScreensInv, [Next]_vars PROVE ScreensInv'
  OBVIOUS
<1>1. CASE Write
  BY <1>1, WriteScreens
<1>2. CASE Reconfigured
  BY <1>2, ReconfiguredScreens
<1>3. ASSUME NEW c \in checks, NEW quiet \in BOOLEAN, Check(c, quiet) PROVE ScreensInv'
  BY <1>3, CheckScreens
<1>4. ASSUME NEW n \in refreshes, Refresh(n) PROVE ScreensInv'
  BY <1>4, RefreshScreens
<1>5. ASSUME NEW n \in notes, Notified(n) PROVE ScreensInv'
  BY <1>5, NotifiedScreens
<1>6. CASE React
  BY <1>6, ReactScreens
<1>7. ASSUME NEW S \in Sets, Reconfigure(S) PROVE ScreensInv'
  BY <1>7, ReconfigureScreens
<1>8. CASE Settle
  BY <1>8, SettleScreens
<1>9. ASSUME NEW n, Notify(n) PROVE ScreensInv'
  BY <1>9, NotifyScreens
<1>10. CASE UNCHANGED vars
  <2>1. SystemTyped
    BY DEF ScreensInv, ScreensTyped
  <2>2. /\ shown' \in [Displays -> 0..2] /\ \A d \in online : shown[d] # 0 => shown'[d] # 0
        /\ geometry' \in Nat /\ readable' \in BOOLEAN
    BY <1>10, <2>1 DEF SystemTyped, vars, systemVars
  <2>3. UNCHANGED <<online, callbacks, centreVars, atomicVars, writes, channel, reactorVars, flags_now, given_up>>
    BY <1>10 DEF vars, systemVars
  <2>. QED  BY <2>2, <2>3, ShownScreens
<1>. QED  BY <1>1, <1>2, <1>3, <1>4, <1>5, <1>6, <1>7, <1>8, <1>9, <1>10 DEF Next

LEMMA SettledAtRest == ScreensInv => ScreensSettle
<1>. SUFFICES ASSUME ScreensInv PROVE ScreensSettle
  OBVIOUS
<1>1. /\ SystemTyped /\ CentreTyped /\ AtomicsTyped /\ ReactorTyped /\ ChurnsEnd /\ ScreensArrive
  BY DEF ScreensInv, ScreensTyped
<1>2. TypeOK
  <2>1. refreshes \subseteq 0..Retries /\ Cardinality(refreshes) <= 1
    <3>1. CASE refreshes = {}
      <4>1. Cardinality(refreshes) = 0
        BY <3>1, FS_EmptySet
      <4>. QED  BY <3>1, <4>1
    <3>2. ASSUME NEW n \in 0..Retries, refreshes = {n} PROVE refreshes \subseteq 0..Retries /\ Cardinality(refreshes) <= 1
      <4>1. Cardinality(refreshes) = 1
        BY <3>2, FS_Singleton
      <4>. QED  BY <3>2, <4>1
    <3>. QED  BY <1>1, <3>1, <3>2 DEF CentreTyped
  <2>2. /\ topology.state \in {"Stable", "Churning", "Awaiting"} /\ topology.flags \in SUBSET Flags
        /\ screens \in ScreenSeqs /\ removed \in SUBSET Displays
    BY <1>1 DEF ReactorTyped
  <2>3. Ids(screens) \in SUBSET Displays
    BY <2>2, IdsTyped
  <2>. QED  BY <1>1, <2>1, <2>2, <2>3 DEF TypeOK, SystemTyped, CentreTyped, AtomicsTyped
<1>3. AtRest /\ ~given_up => Accepted
  <2>. SUFFICES ASSUME AtRest, ~given_up PROVE Accepted
    OBVIOUS
  <2>1. ~active
    BY <1>1 DEF AtRest, ChurnsEnd
  <2>2. ScreensCome
    BY <1>1, <2>1 DEF AtRest, ScreensArrive, Rested
  <2>3. Len(channel) = 0
    BY DEF AtRest
  <2>. QED  BY <2>2, <2>3 DEF ScreensCome
<1>4. ScreensShowOwnSpaces
  <2>. SUFFICES ASSUME AtRest, ~given_up, Ids(screens) = online, NEW i \in DOMAIN screens
                PROVE  screens[i].space # None /\ screens[i].space[1] = screens[i].id
    BY DEF ScreensShowOwnSpaces
  <2>1. Fit(screens) /\ screens \in ScreenSeqs
    BY <1>1, <1>3 DEF Accepted, ReactorTyped
  <2>2. screens[i].space \in OwnSpaces(screens[i].id)
    BY <2>1 DEF Fit, ScreenSeqs
  <2>3. screens[i].id \in Displays
    BY <1>1 DEF SystemTyped, Ids
  <2>4. <<screens[i].id, 1>> \in Displays \X {1, 2} /\ <<screens[i].id, 2>> \in Displays \X {1, 2}
    BY <2>3
  <2>5. screens[i].space \in {<<screens[i].id, 1>>, <<screens[i].id, 2>>}
    BY <2>2 DEF OwnSpaces
  <2>. QED  BY <2>4, <2>5, DisplayAssumption
<1>5. QuarantineEnds
  BY <1>3 DEF QuarantineEnds, Accepted
<1>. QED  BY <1>2, <1>4, <1>5 DEF ScreensSettle

\* When nothing is under way any more, each screen that the reactor has shows a space of
\* its own display, and window events are no longer quarantined, but for the exceptions
\* that ScreensSettle names; and every variable of the displays has its type
\* (src/src/actor/notification_center.rs, and reactor/events/space.rs).
THEOREM ScreensSettled == MCSpec => []ScreensSettle
<1>1. MCInit => IInv /\ ScreensInv
  BY InitInv, ScreensInit DEF MCInit
<1>2. IInv /\ ScreensInv /\ [MCNext]_<<part, vars, trackingVars>> => IInv' /\ ScreensInv'
  <2>1. [MCNext]_<<part, vars, trackingVars>> => [Next]_vars
    BY DEF MCNext
  <2>. QED  BY <2>1, StepInv, ScreensStep
<1>3. IInv /\ ScreensInv => ScreensSettle
  BY SettledAtRest
<1>. QED  BY <1>1, <1>2, <1>3, PTL DEF MCSpec
=============================================================================
