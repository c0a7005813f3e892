---------------------------- MODULE WindowFrames ----------------------------
(***************************************************************************)
(* How Lift moves windows, and how it tells its own frame changes from     *)
(* those of the user and of the applications.                              *)
(*                                                                         *)
(* Four parties run concurrently: the reactor, which lays windows out after *)
(* every event and believes that a window stands at `frame_monotonic`; the *)
(* animation manager, a task of its own that sends intermediate frames; an *)
(* application's thread, which applies the requests it receives in batches *)
(* and reports frames; and the window system, which keeps the actual frame *)
(* and posts a notification, without the frame, for every change.  The     *)
(* reactor and the thread share the record of the last transaction         *)
(* (src/src/model/tx_store.rs): its id and, while it is pending, its       *)
(* target.                                                                 *)
(*                                                                         *)
(* Abstracted: frames are values that differ in size (a change of position *)
(* alone only spares the animation's size writes); every window has a      *)
(* window-server id and belongs to one application; `layout` is what the   *)
(* core plans, chosen here among Layouts; a window whose planned frame is  *)
(* Hidden is on a workspace that is not shown.  The windows are there from *)
(* the start, created a moment ago or found in a listing.                  *)
(***************************************************************************)
EXTENDS Naturals, Sequences, FiniteSets, SequencesExt, FiniteSetsExt

CONSTANTS
  NumWindows,   \* windows of the application, numbered as their ids sort
  Frames,       \* the frames a window can have
  Hidden,       \* the frame of a window on a workspace that is not shown
  Midway,       \* a frame of an animation between its ends
  Layouts,      \* the plans of the core: functions from windows to frames
  Stubborn,     \* the windows that refuse a frame, and take Own instead
  Own,          \* the frame a stubborn window insists on
  TxIds,        \* number of transaction ids: 2^32 in the code
  Steps,        \* frames of an animation
  MaxInputs,    \* bound on commands, frame changes from outside, presses and listings
  None

Windows == 1..NumWindows
NoFrames == [w \in {} |-> None]

VARIABLES
  layout, switching, drag,         \* reactor: plan, workspace switch, drag
  frame_monotonic, store,          \* reactor: believed frames; shared records
  messages, active,                \* animation manager: channel, animation
  requests, batched, pending,      \* application thread: channel, batch, frames
  last_seen, animating, lastFrame, \* application thread: per window
  actual, notes, mouse,            \* window system
  events,                          \* reactor's channel
  inputs,                          \* how many inputs there were
  created                          \* history: their record is that of their creation

reactorVars == <<layout, switching, drag, frame_monotonic>>
appVars == <<batched, pending, last_seen, animating, lastFrame>>
systemVars == <<actual, notes>>
program == <<reactorVars, store, messages, active, requests, appVars, systemVars,
             mouse, events, inputs>>
vars == <<program, created>>

NextId(t) == (t + 1) % TxIds

(***************************************************************************)
(* Laying out.  A layout reads and writes the beliefs and the records and  *)
(* sends requests and messages: `r` is that part of the reactor's state.   *)
(***************************************************************************)
Reactor == [mono |-> frame_monotonic, store |-> store, requests |-> requests,
            messages |-> messages]

\* Windows that do not stand, and are not on their way to, where the plan has
\* them; the dragged one is left out.
Misplaced(r, plan, skip) ==
  {w \in Windows \ skip : plan[w] # r.mono[w] /\ r.store[w].target # plan[w]}

Ordered(S) == SetToSortSeq(S, <)

Believe(mono, plan, S) == [w \in Windows |-> IF w \in S THEN plan[w] ELSE mono[w]]

\* AnimationManager::animate_layout: visible windows are animated (or sent to
\* the end of the animation at once), hidden ones positioned directly; all of
\* them, and the dragged one, are marked as handled.
Animate(r, plan, skip, kind) ==
  LET S       == Misplaced(r, plan, skip)
      away    == {w \in S : plan[w] = Hidden}
      id(w)   == NextId(r.store[w].txid)
      direct  == [i \in 1..Cardinality(away) |->
                    LET w == Ordered(away)[i]
                    IN  [op |-> "SetFrames", frames |-> (w :> plan[w]), txid |-> id(w)]]
      message == [kind |-> kind, handled |-> S \cup skip,
                  windows |-> [w \in S \ away |-> [finish |-> plan[w], txid |-> id(w)]]]
  IN  [mono     |-> Believe(r.mono, plan, S),
       store    |-> [w \in Windows |-> IF w \in S THEN [txid |-> id(w), target |-> plan[w]]
                                                  ELSE r.store[w]],
       requests |-> r.requests \o direct,
       messages |-> IF S = away THEN r.messages ELSE Append(r.messages, message)]

\* AnimationManager::instant_layout: one request for the application's windows,
\* under the next id of the first of them.
Instant(r, plan, skip) ==
  LET S  == Misplaced(r, plan, skip)
      id == NextId(r.store[Min(S)].txid)
  IN  IF S = {} THEN r
      ELSE [r EXCEPT !.mono = Believe(r.mono, plan, S),
                     !.store = [w \in Windows |-> IF w \in S THEN [txid |-> id, target |-> plan[w]]
                                                             ELSE @[w]],
                     !.requests = Append(@, [op |-> "SetFrames", txid |-> id,
                                             frames |-> [w \in S |-> plan[w]]])]

LayOut(r, plan, skip, instant, kind) ==
  IF instant THEN Instant(r, plan, skip) ELSE Animate(r, plan, skip, kind)

\* The end of every event: the plan is applied unless a drag is in progress, and
\* a workspace switch is over when there was nothing left to change.
Finalize(r, plan, dragged, switch, kind) ==
  LET idle == dragged # None \/ Misplaced(r, plan, {}) = {}
      end  == IF dragged # None THEN r ELSE LayOut(r, plan, {}, switch, kind)
  IN  /\ frame_monotonic' = end.mono
      /\ store' = end.store
      /\ requests' = end.requests
      /\ messages' = end.messages
      /\ switching' = (switch /\ ~idle)

\* The end of a drag: the plan is applied without the dragged window, then to it
\* as well.
Drop(r, plan, dragged, switch, kind) ==
  LayOut(LayOut(r, plan, {dragged}, switch, kind), plan, {}, switch, kind)

Kinds == {"Replace", "SkipToEnd"}

\* The plan shows and hides the same windows as the one in force.
SameShown(plan) == \A w \in Windows : (plan[w] = Hidden) = (layout[w] = Hidden)

\* handle_window_created records the window's own frame as a pending target, under the
\* last id; a window that a listing brings has no record.  One that is created elsewhere
\* than planned is laid out at once, as after a command.
InitialRecord(w) == [txid : {0}, target : {None, layout[w]}]

Init ==
  /\ layout \in Layouts
  /\ frame_monotonic = layout
  /\ actual = layout
  /\ store \in [Windows -> [txid : {0}, target : Frames \cup {None}]]
  /\ \A w \in Windows : store[w] \in InitialRecord(w)
  /\ created = {w \in Windows : store[w].target # None}
  /\ switching = FALSE /\ drag = None /\ mouse = "Up"
  /\ messages = <<>> /\ active = None
  /\ requests = <<>> /\ batched = 0 /\ pending = NoFrames
  /\ last_seen = [w \in Windows |-> 0]
  /\ animating = {}
  /\ lastFrame = [w \in Windows |-> None]
  /\ notes = {} /\ events = <<>>
  /\ inputs = 0

(***************************************************************************)
(* The reactor                                                             *)
(***************************************************************************)
\* A command changes the plan.  A workspace switch is laid out at once, any
\* other command is animated or, as configured, skips the animation.
Command(plan, switch, kind) ==
  /\ inputs < MaxInputs
  /\ inputs' = inputs + 1
  /\ plan # layout
  /\ layout' = plan
  /\ Finalize(Reactor, plan, drag, switch \/ switching, kind)
  /\ UNCHANGED <<drag, active, appVars, systemVars, mouse, events>>

\* What handle_window_frame_changed makes of a report: the pending transaction
\* and the id that the report carries decide whose change it was.
Cleared(r, w) == [r EXCEPT !.store[w].target = None]
Believed(r, w, f) == [r EXCEPT !.mono[w] = f]
Record(w) == store[w]
ButtonAt(e) == IF e.mouse = None THEN mouse ELSE e.mouse
Triggered(e) == Record(e.window).target # None /\ e.seen = Record(e.window).txid
\* The user takes hold of the window while a request is pending: it is given up.
Grabbed(e) == Triggered(e) /\ ButtonAt(e) = "Down"
Stale(e) ==
  /\ Record(e.window).target # None /\ ~Grabbed(e)
  /\ e.seen \notin {None, Record(e.window).txid}

\* The report is not Lift's doing: a user's or an application's change.
External(e) == ~Stale(e) /\ (Triggered(e) => Grabbed(e)) /\ ~e.requested

\* Mutant: a report of another frame than the one asked for is believed.
FaultyJudge(e) ==
  LET r == IF Grabbed(e) THEN Cleared(Reactor, e.window) ELSE Reactor
  IN  IF Stale(e) THEN r ELSE Cleared(Believed(r, e.window, e.frame), e.window)

Judge(e) ==
  LET w == e.window
      r == IF Grabbed(e) THEN Cleared(Reactor, w) ELSE Reactor
  IN  CASE Stale(e) -> r
        [] Triggered(e) /\ ~Grabbed(e) ->
             IF e.frame = Record(w).target THEN Cleared(Believed(r, w, e.frame), w) ELSE r
        [] ~Stale(e) /\ (Triggered(e) => Grabbed(e)) /\ e.requested ->
             Cleared(Believed(r, w, e.frame), w)
        [] OTHER -> Believed(r, w, e.frame)

Drags(e) ==
  /\ External(e) /\ frame_monotonic[e.window] # e.frame
  /\ ButtonAt(e) = "Down" \/ drag # None

\* A report: it may start or go on with a drag, by which the core resizes the
\* tiles; a released button ends the drag, on which the core may have swapped
\* windows.
HandleReport(kind) ==
  /\ events # <<>> /\ Head(events).type = "FrameChanged"
  /\ events' = Tail(events)
  /\ LET e    == Head(events)
         held == IF Drags(e) THEN e.window ELSE drag
     IN  IF held # None /\ ButtonAt(e) = "Up"
         THEN /\ drag' = None
              /\ \E plan \in Layouts :
                   /\ SameShown(plan)
                   /\ layout' = plan
                   /\ Finalize(Drop(Judge(e), plan, held, switching, kind), plan, None,
                               switching, kind)
         ELSE /\ drag' = held
              /\ layout' \in IF Drags(e) THEN {p \in Layouts : SameShown(p)} ELSE {layout}
              /\ Finalize(Judge(e), layout, held, switching, kind)
  /\ UNCHANGED <<active, appVars, systemVars, mouse, inputs>>

HandleMouseUp(kind) ==
  /\ events # <<>> /\ Head(events).type = "MouseUp"
  /\ events' = Tail(events)
  /\ drag' = None
  /\ IF drag = None
     THEN /\ UNCHANGED layout
          /\ Finalize(Reactor, layout, None, switching, kind)
     ELSE \E plan \in Layouts :
            /\ SameShown(plan)
            /\ layout' = plan
            /\ Finalize(Drop(Reactor, plan, drag, switching, kind), plan, None, switching, kind)
  /\ UNCHANGED <<active, appVars, systemVars, mouse, inputs>>

\* sync_existing_window_state: what a listing of the application says is believed.
HandleListed ==
  /\ events # <<>> /\ Head(events).type = "Listed"
  /\ events' = Tail(events)
  /\ Finalize([Reactor EXCEPT !.mono = Head(events).frames], layout, drag, switching, "SkipToEnd")
  /\ UNCHANGED <<layout, drag, active, appVars, systemVars, mouse, inputs>>

\* update_partial_window_server_info: so are the frames that the window server has of
\* some windows, when the spaces change.
Refresh(S, kind) ==
  /\ inputs < MaxInputs /\ inputs' = inputs + 1
  /\ \E w \in S : frame_monotonic[w] # actual[w]
  /\ Finalize([Reactor EXCEPT !.mono = Believe(@, actual, S)], layout, drag, switching, kind)
  /\ UNCHANGED <<layout, drag, active, appVars, systemVars, mouse, events>>

\* request_visible_windows: the reactor asks the application for a listing.
AskForListing ==
  /\ inputs < MaxInputs /\ inputs' = inputs + 1
  /\ requests' = Append(requests, [op |-> "List"])
  /\ UNCHANGED <<reactorVars, store, messages, active, appVars, systemVars, mouse, events>>

(***************************************************************************)
(* The animation manager                                                   *)
(***************************************************************************)
Frame(w, f, id) == [op |-> "AnimationFrame", window |-> w, frame |-> f, txid |-> id]
Begin(w) == [op |-> "Begin", window |-> w]
End(w) == [op |-> "End", window |-> w]

\* One request, or a few in a row, for each window of S.
ForEach(S, Requests(_)) == FlattenSeq([i \in 1..Cardinality(S) |-> Requests(Ordered(S)[i])])

Finish(windows) ==
  ForEach(DOMAIN windows, LAMBDA w : <<Frame(w, windows[w].finish, windows[w].txid), End(w)>>)

\* A layout that is animated replaces the animation in progress.  Windows of
\* the old one go on, except those that the new layout handled itself.
Replace(new) ==
  LET old     == IF active = None THEN NoFrames ELSE active.windows
      carried == DOMAIN old \ (new.handled \cup DOMAIN new.windows)
      begun   == DOMAIN new.windows \ DOMAIN old
  IN  /\ active' = [windows |-> [w \in DOMAIN new.windows \cup carried |->
                                   IF w \in carried THEN old[w] ELSE new.windows[w]],
                    next    |-> 1]
      /\ requests' = requests \o ForEach(begun, LAMBDA w : <<Begin(w)>>)

\* A layout that is not animated first takes the animation in progress to its
\* end.
SkipToEnd(new) ==
  /\ active' = None
  /\ requests' = requests \o (IF active = None THEN <<>> ELSE Finish(active.windows))
                          \o ForEach(DOMAIN new.windows, LAMBDA w :
                               <<[op |-> "SetFrames", frames |-> (w :> new.windows[w].finish),
                                  txid |-> new.windows[w].txid]>>)

HandleMessage ==
  /\ messages # <<>>
  /\ messages' = Tail(messages)
  /\ IF Head(messages).kind = "Replace" THEN Replace(Head(messages)) ELSE SkipToEnd(Head(messages))
  /\ UNCHANGED <<reactorVars, store, appVars, systemVars, mouse, events, inputs>>

\* A tick sends the frame that is due by the clock, at least the next one, and
\* ends the animation after the last.  It may come before a message that is
\* already in the channel.
Tick ==
  /\ active # None
  /\ \E i \in active.next..Steps :
       LET windows == active.windows
           at(w)   == IF i = Steps THEN windows[w].finish ELSE Midway
           frames  == ForEach(DOMAIN windows, LAMBDA w : <<Frame(w, at(w), windows[w].txid)>>)
       IN  IF i = Steps
           THEN /\ active' = None
                /\ requests' = requests \o frames \o ForEach(DOMAIN windows, LAMBDA w : <<End(w)>>)
           ELSE /\ active' = [active EXCEPT !.next = i + 1]
                /\ requests' = requests \o frames
  /\ UNCHANGED <<reactorVars, store, messages, appVars, systemVars, mouse, events, inputs>>

(***************************************************************************)
(* The application's thread                                                *)
(***************************************************************************)
Taken(w, f) == IF w \in Stubborn /\ f # Hidden THEN Own ELSE f

\* A window of S is given a frame; changes are notified unless animated.
Move(S, frameOf) ==
  /\ actual' = [w \in Windows |-> IF w \in S THEN Taken(w, frameOf[w]) ELSE actual[w]]
  /\ notes' = notes \cup {w \in S \ animating : Taken(w, frameOf[w]) # actual[w]}

Report(w, f, seen, requested, button) ==
  [type |-> "FrameChanged", window |-> w, frame |-> f, seen |-> seen,
   requested |-> requested, mouse |-> button]

\* The id a report carries: that of the pending transaction, or of the last
\* request that the thread applied to the window.
SeenId(w, applied) ==
  CASE store[w].target # None -> store[w].txid
    [] applied # 0 -> applied
    [] OTHER -> None

\* The thread takes what is in its channel as one batch, ...
TakeBatch ==
  /\ batched = 0 /\ pending = NoFrames /\ requests # <<>>
  /\ batched' = Len(requests)
  /\ UNCHANGED <<reactorVars, store, messages, active, requests, pending, last_seen, animating,
                 lastFrame, systemVars, mouse, events, inputs>>

\* ... applies its requests in turn, the frames of animations being only the
\* last one asked for of each window, ...
Next1(op) == batched > 0 /\ Head(requests).op = op
Consume == requests' = Tail(requests) /\ batched' = batched - 1
ApplyUnchanged == UNCHANGED <<reactorVars, store, messages, active, mouse, inputs>>

HandleSetFrames ==
  /\ Next1("SetFrames") /\ Consume
  /\ LET q == Head(requests)
         S == DOMAIN q.frames
     IN  /\ Move(S, q.frames)
         /\ last_seen' = [w \in Windows |-> IF w \in S THEN q.txid ELSE last_seen[w]]
         /\ events' = events \o ForEach(S, LAMBDA w :
                        <<Report(w, Taken(w, q.frames[w]), q.txid, TRUE, None)>>)
  /\ ApplyUnchanged /\ UNCHANGED <<pending, animating, lastFrame>>

HandleAnimationFrame ==
  /\ Next1("AnimationFrame") /\ Consume
  /\ pending' = (Head(requests).window :> Head(requests)) @@ pending
  /\ ApplyUnchanged /\ UNCHANGED <<last_seen, animating, lastFrame, systemVars, events>>

HandleBegin ==
  /\ Next1("Begin") /\ Consume
  /\ animating' = animating \cup {Head(requests).window}
  /\ lastFrame' = [lastFrame EXCEPT ![Head(requests).window] = None]
  /\ ApplyUnchanged /\ UNCHANGED <<pending, last_seen, systemVars, events>>

HandleList ==
  /\ Next1("List") /\ Consume
  /\ events' = Append(events, [type |-> "Listed", frames |-> actual])
  /\ ApplyUnchanged /\ UNCHANGED <<pending, last_seen, animating, lastFrame, systemVars>>

\* Mutant: the end of an animation forgets the frame that is still pending.
FaultyDue(w) == FALSE

Due(w) == w \in DOMAIN pending

\* The end of an animation applies the frame that is pending, repeats the last
\* one, and reports the window with notifications on again.
HandleEnd ==
  /\ Next1("End") /\ Consume
  /\ LET w    == Head(requests).window
         last == IF Due(w) THEN pending[w].frame ELSE lastFrame[w]
         seen == IF Due(w) THEN pending[w].txid ELSE last_seen[w]
         f    == IF last = None THEN actual[w] ELSE Taken(w, last)
     IN  /\ pending' = [v \in DOMAIN pending \ {w} |-> pending[v]]
         /\ last_seen' = [last_seen EXCEPT ![w] = seen]
         /\ lastFrame' = [lastFrame EXCEPT ![w] = None]
         /\ animating' = animating \ {w}
         /\ actual' = [actual EXCEPT ![w] = f]
         /\ events' = Append(events, Report(w, f, SeenId(w, seen), TRUE, None))
  /\ ApplyUnchanged /\ UNCHANGED notes

\* ... and when the batch is done applies the frames of animations.
Flush ==
  /\ batched = 0 /\ pending # NoFrames
  /\ LET S == DOMAIN pending IN
       /\ Move(S, [w \in S |-> pending[w].frame])
       /\ last_seen' = [w \in Windows |-> IF w \in S THEN pending[w].txid ELSE last_seen[w]]
       /\ lastFrame' = [w \in Windows |-> IF w \in S THEN pending[w].frame ELSE lastFrame[w]]
  /\ pending' = NoFrames
  /\ ApplyUnchanged /\ UNCHANGED <<requests, batched, animating, events>>

\* A notification is handled when no request waits: the frame is read now, and
\* nothing is reported of a window that is being animated.
HandleNote(w) ==
  /\ batched = 0 /\ pending = NoFrames /\ requests = <<>>
  /\ w \in notes
  /\ notes' = notes \ {w}
  /\ events' = IF w \in animating THEN events
               ELSE Append(events, Report(w, actual[w], SeenId(w, last_seen[w]), FALSE, mouse))
  /\ ApplyUnchanged /\ UNCHANGED <<requests, appVars, actual>>

(***************************************************************************)
(* The window system: the application or the user changes a frame, the     *)
(* user presses and releases the mouse button.                             *)
(***************************************************************************)
Change(w, f) ==
  /\ inputs < MaxInputs
  /\ f # actual[w]
  /\ inputs' = inputs + 1
  /\ actual' = [actual EXCEPT ![w] = f]
  /\ notes' = IF w \in animating THEN notes ELSE notes \cup {w}
  /\ UNCHANGED <<reactorVars, store, messages, active, requests, appVars, mouse,
                 events>>

Press ==
  /\ mouse = "Up" /\ inputs < MaxInputs
  /\ mouse' = "Down" /\ inputs' = inputs + 1
  /\ UNCHANGED <<reactorVars, store, messages, active, requests, appVars, systemVars, events>>

Release ==
  /\ mouse = "Down"
  /\ mouse' = "Up"
  /\ events' = Append(events, [type |-> "MouseUp"])
  /\ UNCHANGED <<reactorVars, store, messages, active, requests, appVars, systemVars, inputs>>

ReactorStep == HandleListed \/ \E kind \in Kinds : HandleReport(kind) \/ HandleMouseUp(kind)
ManagerStep == HandleMessage \/ Tick
ThreadStep ==
  \/ TakeBatch \/ HandleSetFrames \/ HandleAnimationFrame \/ HandleBegin \/ HandleEnd \/ Flush
  \/ HandleList
  \/ \E w \in Windows : HandleNote(w)
Environment ==
  \/ \E plan \in Layouts, switch \in BOOLEAN, kind \in Kinds : Command(plan, switch, kind)
  \/ \E S \in SUBSET Windows, kind \in Kinds : Refresh(S, kind)
  \/ \E w \in Windows : Change(w, Own)
  \/ AskForListing \/ Press \/ Release

Next ==
  /\ ReactorStep \/ ManagerStep \/ ThreadStep \/ Environment
  /\ created' = {w \in created : store'[w] = store[w]}

\* Each party is a task or a thread that runs whenever its channel holds something.
Fairness == WF_program(ReactorStep \/ ManagerStep \/ ThreadStep)

Spec == Init /\ [][Next]_vars /\ Fairness

-----------------------------------------------------------------------------
TypeOK ==
  /\ frame_monotonic \in [Windows -> Frames] /\ actual \in [Windows -> Frames]
  /\ store \in [Windows -> [txid : 0..TxIds - 1, target : Frames \cup {None}]]
  /\ drag \in Windows \cup {None} /\ animating \subseteq Windows /\ notes \subseteq Windows
  /\ last_seen \in [Windows -> 0..TxIds - 1]
  /\ DOMAIN pending \subseteq Windows /\ batched <= Len(requests)

\* Nothing is on its way any more and the button is up.
Quiet ==
  /\ requests = <<>> /\ pending = NoFrames /\ notes = {}
  /\ messages = <<>> /\ active = None /\ events = <<>> /\ mouse = "Up"

(* When everything has come to rest, every window stands where the last      *)
(* plan has it and where the reactor believes it to stand, however requests, *)
(* animations, reports and the user's own changes crossed on their way.  A   *)
(* stubborn window stands where it wants to; one whose animation was dropped *)
(* is the matter of NothingLeftAnimating, one that has not been moved since  *)
(* it was created that of NewWindowsSettle.                                  *)
SettlesAsPlanned ==
  Quiet => \A w \in Windows \ (Stubborn \cup animating \cup created) :
             actual[w] = layout[w] /\ frame_monotonic[w] = layout[w]

(* Also a window that Lift has not moved since it was created stands where   *)
(* it is planned: the record of its creation says that a request is pending, *)
(* so that a change by the application is taken for one of Lift's steps.     *)
NewWindowsSettle == Quiet => \A w \in created \ Stubborn : actual[w] = layout[w]

(* No window is left in the middle of an animation, with its notifications   *)
(* off, once the last animation is over: Lift would never again hear of the  *)
(* user moving it.                                                           *)
NothingLeftAnimating == Quiet => animating = {}

(* Lift and an application that insists on a frame of its own do not fight   *)
(* forever: once the user leaves the button alone, requests and reports come *)
(* to an end.                                                                *)
FightsEnd == <>[](mouse = "Up") => <>[]Quiet
=============================================================================
