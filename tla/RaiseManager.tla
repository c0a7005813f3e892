---------------------------- MODULE RaiseManager ----------------------------
(***************************************************************************)
(* Raising and focusing windows: the raise manager                         *)
(* (src/src/actor/raise_manager.rs), the reactor that sends it requests    *)
(* (reactor.rs) and the threads of the applications that raise the windows *)
(* (app.rs).                                                               *)
(*                                                                         *)
(* The reactor and the manager are tasks of one thread: while the manager  *)
(* is busy with a message the reactor does nothing.  The applications run  *)
(* on threads of their own and share one global mutex, held while a batch  *)
(* of windows is raised, also while the application's activation is        *)
(* awaited.  Channels are unbounded and ordered; what an application and   *)
(* the timer send goes to the reactor, which relays it to the manager.     *)
(*                                                                         *)
(* Time is abstracted: the timer may fire whenever it is set.  So is the   *)
(* accessibility API: a call may fail at any point where the code asks it. *)
(* Not here: pointer warps, and `quiet`, which tells an application which  *)
(* of its notifications are ours.                                          *)
(***************************************************************************)
EXTENDS Naturals, Sequences, Functions

CONSTANTS
  None,         \* no sequence, no window, nobody
  Windows,      \* window ids: pairs of an application and an index
  Responses,    \* what the layout may ask for, for model checking
  Targets,      \* the windows that may be focused otherwise, for model checking
  Mortal,       \* the applications that may terminate, for model checking
  MaxResponses  \* bound on the number of responses, for model checking

AppOf(w) == w[1]
Apps == {AppOf(w) : w \in Windows}
Opt(S) == S \cup {None}

\* The windows of a batch are of one application, and none is in it twice.
Batches ==
  {b \in Seq(Windows) : /\ b # <<>> /\ IsInjective(b)
                        /\ \A i, j \in DOMAIN b : AppOf(b[i]) = AppOf(b[j])}
Receiver(batch) == AppOf(batch[1])

\* The windows of a request, grouped by application and space: none is in two batches.
Groups ==
  {g \in Seq(Batches) : \A i, j \in DOMAIN g : i # j => Range(g[i]) \cap Range(g[j]) = {}}

ASSUME RaiseAssumption ==
  /\ Windows \subseteq (Apps \X Nat)
  /\ None \notin Windows /\ None \notin Apps
  /\ \A r \in Responses : r.batches \in Groups /\ r.focus \in Opt(Windows)
  /\ Targets \subseteq Windows /\ Mortal \subseteq Apps
  /\ MaxResponses \in Nat

VARIABLES
  generation,  \* workspace_switch_generation of the reactor
  switching,   \* the generation of the switch in progress, 0 if there is none
  responses,   \* the number of layout responses and single raises so far
  mailbox,     \* from the reactor to the manager
  events,      \* from the applications and the timer to the reactor
  active,      \* active_sequence
  queued,      \* queued_sequences, the set of its requests, which are numbered
  nextId,      \* next_sequence_id
  cancelled,   \* the cancelled tokens
  newest,      \* history: the newest generation that the manager was told of
  listening,   \* the applications whose request channel is open
  raises,      \* raises[a]: the raises sent to a, the first one in progress
  phase,       \* phase[a]: where a is in handle_raise_request
  holder,      \* the application that holds the mutex
  latest       \* history: sequence and part of the latest window raised

reactor == <<generation, switching, responses>>
manager == <<active, queued, nextId, cancelled, newest>>
apps == <<raises, phase, holder, latest>>
vars == <<reactor, mailbox, events, manager, listening, apps>>

-----------------------------------------------------------------------------
(* Messages and sequences *)

Request(number, batches, focus, handles, tag) ==
  [type |-> "Request", number |-> number, batches |-> batches, focus |-> focus,
   handles |-> handles, tag |-> tag]
Started(g) == [type |-> "Started", generation |-> g]
Completed(w, id) == [type |-> "Completed", window |-> w, id |-> id]
Timeout(id) == [type |-> "Timeout", id |-> id]

Requests ==
  [type : {"Request"}, number : Nat, batches : Groups, focus : Opt(Windows),
   handles : SUBSET Apps, tag : Nat]
Reports ==
  [type : {"Completed"}, window : Windows, id : Nat] \cup [type : {"Timeout"}, id : Nat]
Messages == Requests \cup [type : {"Started"}, generation : Nat] \cup Reports

\* A sequence has a token, and another one after each timeout.
Tokens == Nat \X Nat

\* `unsent` are the batches that are yet to be sent to their applications.
ActiveSequences ==
  [id : Nat, tag : Nat, focus : Opt(Windows), unsent : Groups, pending : SUBSET Windows,
   focusBatch : Batches \cup {<<>>}, handles : SUBSET Apps, token : Tokens, timedOut : BOOLEAN]

ASSUME NoneIsNoSequence == None \notin ActiveSequences

Raises == [windows : Batches, token : Tokens, tag : Nat, isFocus : BOOLEAN]

TypeOK ==
  /\ generation \in Nat /\ switching \in Nat /\ responses \in Nat
  /\ mailbox \in Seq(Messages)
  /\ events \in Seq(Reports)
  /\ active \in Opt(ActiveSequences)
  /\ queued \subseteq Requests
  /\ nextId \in Nat /\ newest \in Nat
  /\ cancelled \subseteq Tokens
  /\ listening \subseteq Apps
  /\ raises \in [Apps -> Seq(Raises)]
  /\ phase \in [Apps -> {"idle", "blocked", "waiting", "raising"}]
  /\ \A a \in Apps : phase[a] # "idle" => raises[a] # <<>>
  /\ holder \in Opt(Apps)
  /\ latest \in [id : Nat, isFocus : BOOLEAN]

Init ==
  /\ generation = 0 /\ switching = 0 /\ responses = 0
  /\ mailbox = <<>> /\ events = <<>>
  /\ active = None /\ queued = {} /\ nextId = 1 /\ cancelled = {} /\ newest = 0
  /\ listening = Apps
  /\ raises = [a \in Apps |-> <<>>]
  /\ phase = [a \in Apps |-> "idle"]
  /\ holder = None
  /\ latest = [id |-> 0, isFocus |-> FALSE]

-----------------------------------------------------------------------------
(* The manager's fixed-point loop, one step for each change it makes *)

Live(token) == token \notin cancelled

\* Sending fails only without a handle: a closed channel swallows what is sent.
CanSend(batch, handles) == Receiver(batch) \in handles

Send(batch, isFocus) ==
  IF Receiver(batch) \in listening
  THEN raises' = [raises EXCEPT ![Receiver(batch)] =
                    Append(@, [windows |-> batch, token |-> active.token,
                               tag |-> active.tag, isFocus |-> isFocus])]
  ELSE UNCHANGED raises

FocusAlone(focus) == IF focus = None THEN <<>> ELSE <<focus>>

\* The focus window changes places with the last window of its batch.
FocusLast(batch, focus) ==
  LET i == CHOOSE i \in DOMAIN batch : batch[i] = focus
  IN  [batch EXCEPT ![i] = batch[Len(batch)], ![Len(batch)] = focus]

\* The oldest request is taken; the focus window is raised alone unless it is in a batch.
StartNewSequence(r) ==
  /\ active = None
  /\ r \in queued /\ \A s \in queued : r.number <= s.number
  /\ queued' = queued \ {r}
  /\ nextId' = nextId + 1
  /\ active' = [id |-> nextId, tag |-> r.tag, focus |-> r.focus, unsent |-> r.batches,
                pending |-> {}, focusBatch |-> FocusAlone(r.focus), handles |-> r.handles,
                token |-> <<nextId, 0>>, timedOut |-> FALSE]
  /\ UNCHANGED raises

\* The loop of start_new_sequence.  The batch with the focus window is kept for last.
SendNext ==
  LET batch == Head(active.unsent)
      rest == [active EXCEPT !.unsent = Tail(@)]
  IN  /\ active # None /\ active.unsent # <<>>
      /\ \/ /\ active.focus \in Range(batch)
            /\ active' = [rest EXCEPT !.focusBatch = FocusLast(batch, active.focus)]
            /\ UNCHANGED raises
         \/ /\ active.focus \notin Range(batch)
            /\ ~CanSend(batch, active.handles)
            /\ active' = rest
            /\ UNCHANGED raises
         \/ /\ active.focus \notin Range(batch)
            /\ CanSend(batch, active.handles)
            /\ active' = [rest EXCEPT !.pending = @ \cup Range(batch)]
            /\ Send(batch, FALSE)
      /\ UNCHANGED <<queued, nextId>>

RaisesDone == active # None /\ active.unsent = <<>> /\ active.pending = {}

SendFocus ==
  LET batch == active.focusBatch
      rest == [active EXCEPT !.focusBatch = <<>>]
  IN  /\ RaisesDone /\ batch # <<>>
      /\ IF CanSend(batch, active.handles)
         THEN active' = [rest EXCEPT !.pending = Range(batch)] /\ Send(batch, TRUE)
         ELSE active' = rest /\ UNCHANGED raises
      /\ UNCHANGED <<queued, nextId>>

EndSequence ==
  /\ RaisesDone /\ active.focusBatch = <<>>
  /\ active' = None
  /\ UNCHANGED <<queued, nextId, raises>>

Busy ==
  IF active = None THEN queued # {} ELSE active.unsent # <<>> \/ RaisesDone

Iterate ==
  /\ (\E r \in queued : StartNewSequence(r)) \/ SendNext \/ SendFocus \/ EndSequence
  /\ UNCHANGED <<reactor, mailbox, events, cancelled, newest, listening, phase, holder, latest>>

-----------------------------------------------------------------------------
(* The manager's messages and its timer *)

\* Mutant: the sequence is dropped, its raises are not cancelled.
FaultySupersede(g) ==
  /\ newest' = g
  /\ active' = IF active # None /\ active.tag # 0 THEN None ELSE active
  /\ UNCHANGED cancelled

\* supersede_workspace_switches.  An active sequence of a switch is dropped whatever
\* its generation is.
Superseded == active # None /\ active.tag # 0
Supersede(g) ==
  /\ newest' = g
  /\ active' = IF Superseded THEN None ELSE active
  /\ cancelled' = IF Superseded THEN cancelled \cup {active.token} ELSE cancelled
Untagged == {r \in queued : r.tag = 0}

HandleRequest(m) ==
  IF m.tag = 0
  THEN queued' = queued \cup {m} /\ UNCHANGED <<active, cancelled, newest>>
  ELSE Supersede(m.tag) /\ queued' = Untagged \cup {m}

HandleStarted(m) == Supersede(m.generation) /\ queued' = Untagged

\* Mutant: the completion of another sequence counts.
FaultyHandleCompleted(m) ==
  /\ active' = IF active # None THEN [active EXCEPT !.pending = @ \ {m.window}] ELSE active
  /\ UNCHANGED <<queued, cancelled, newest>>

HandleCompleted(m) ==
  /\ active' = IF active # None /\ active.id = m.id
               THEN [active EXCEPT !.pending = @ \ {m.window}] ELSE active
  /\ UNCHANGED <<queued, cancelled, newest>>

\* Mutant: the sequence cannot time out a second time.
OnceOnlyHandleTimeout(m) ==
  /\ IF active # None /\ active.id = m.id
     THEN /\ cancelled' = cancelled \cup {active.token}
          /\ active' = [active EXCEPT !.pending = {}, !.token = <<@[1], @[2] + 1>>]
     ELSE UNCHANGED <<active, cancelled>>
  /\ UNCHANGED <<queued, newest>>

\* Mutant: the raises that hung are not cancelled.
FaultyHandleTimeout(m) ==
  /\ active' = IF active # None /\ active.id = m.id
               THEN [active EXCEPT !.pending = {}, !.timedOut = FALSE, !.token = <<@[1], @[2] + 1>>]
               ELSE active
  /\ UNCHANGED <<cancelled, queued, newest>>

HandleTimeout(m) ==
  /\ IF active # None /\ active.id = m.id
     THEN /\ cancelled' = cancelled \cup {active.token}
          /\ active' = [active EXCEPT !.pending = {}, !.timedOut = FALSE,
                                      !.token = <<@[1], @[2] + 1>>]
     ELSE UNCHANGED <<active, cancelled>>
  /\ UNCHANGED <<queued, newest>>

HandleMessage ==
  /\ ~Busy /\ mailbox # <<>>
  /\ mailbox' = Tail(mailbox)
  /\ LET m == Head(mailbox)
     IN  \/ m.type = "Request" /\ HandleRequest(m)
         \/ m.type = "Started" /\ HandleStarted(m)
         \/ m.type = "Completed" /\ HandleCompleted(m)
         \/ m.type = "Timeout" /\ HandleTimeout(m)
  /\ UNCHANGED <<reactor, events, nextId, listening, apps>>

TimerFires ==
  /\ ~Busy /\ active # None /\ ~active.timedOut
  /\ active' = [active EXCEPT !.timedOut = TRUE]
  /\ events' = Append(events, Timeout(active.id))
  /\ UNCHANGED <<reactor, mailbox, queued, nextId, cancelled, newest, listening, apps>>

-----------------------------------------------------------------------------
(* The reactor *)

SwitchMessage(tag) == IF tag # 0 THEN <<Started(tag)>> ELSE <<>>

\* A response that raises nothing: in a drag, or when the focus was moved without the
\* raise manager.  Outside of a switch it has no effect.
RespondWithoutRaise(tag) ==
  /\ tag # 0
  /\ mailbox' = mailbox \o SwitchMessage(tag)
  /\ switching' = 0

\* If the response asks for nothing, the window under the cursor or the preferred window
\* of a space may be focused.  Windows that are hidden or on inactive spaces are left
\* out: also then the request may be empty.
ChosenFocus(r) == IF r.batches = <<>> /\ r.focus = None THEN Opt(Targets) ELSE {r.focus}

\* The reactor drops the handle of an application when it hears of its end.  Which
\* requests come before and which after is left open.
HandlesFor(windows) ==
  LET wanted == {AppOf(w) : w \in windows \ {None}}
  IN  {wanted \ gone : gone \in SUBSET (Apps \ listening)}
WindowsOf(batches) == UNION {Range(batches[i]) : i \in DOMAIN batches}

RespondWithRaise(tag) ==
  /\ \E r \in Responses : \E focus \in ChosenFocus(r) :
       \E handles \in HandlesFor(WindowsOf(r.batches) \cup {r.focus}) :
         mailbox' = mailbox \o SwitchMessage(tag)
           \o <<Request(responses + 1, r.batches, focus, handles, tag)>>
  /\ switching' = tag

\* handle_layout_response, in the event that starts a switch or in another one.
HandleLayoutResponse ==
  /\ ~Busy /\ responses < MaxResponses
  /\ generation' \in {generation, generation + 1}
  /\ LET tag == IF generation' = generation THEN switching ELSE generation'
     IN  RespondWithoutRaise(tag) \/ RespondWithRaise(tag)
  /\ responses' = responses + 1
  /\ UNCHANGED <<events, manager, listening, apps>>

\* The end of an event, unless the displays are being reconfigured.
SwitchEnds ==
  /\ ~Busy /\ switching # 0
  /\ switching' = 0
  /\ UNCHANGED <<generation, responses, mailbox, events, manager, listening, apps>>

\* raise_window
RaiseOne ==
  /\ ~Busy /\ responses < MaxResponses
  /\ responses' = responses + 1
  /\ \E w \in Targets : \E handles \in HandlesFor({w}) :
       mailbox' = Append(mailbox, Request(responses + 1, << <<w>> >>, w, handles, 0))
  /\ UNCHANGED <<generation, switching, events, manager, listening, apps>>

Relay ==
  /\ ~Busy /\ events # <<>>
  /\ mailbox' = Append(mailbox, Head(events))
  /\ events' = Tail(events)
  /\ UNCHANGED <<reactor, manager, listening, apps>>

-----------------------------------------------------------------------------
(* The applications: handle_raises takes the raises one after the other *)

Current(a) == Head(raises[a])

\* The raise ends, in success or not, and its guard of the mutex is dropped.
Finish(a) ==
  /\ raises' = [raises EXCEPT ![a] = Tail(@)]
  /\ phase' = [phase EXCEPT ![a] = "idle"]
  /\ holder' = IF holder = a THEN None ELSE holder

\* Cancelled, or the window is gone.
Refuse(a) ==
  /\ phase[a] = "idle" /\ raises[a] # <<>>
  /\ Finish(a)
  /\ UNCHANGED <<events, latest>>

Begin(a) ==
  /\ phase[a] = "idle" /\ raises[a] # <<>> /\ Live(Current(a).token)
  /\ phase' = [phase EXCEPT ![a] = "blocked"]
  /\ UNCHANGED <<events, raises, holder, latest>>

\* Mutant: the token is not checked under the mutex.
FaultyLock(a) ==
  /\ phase[a] = "blocked" /\ holder = None
  /\ holder' = a
  /\ \E next \in {"waiting", "raising"} : phase' = [phase EXCEPT ![a] = next]
  /\ UNCHANGED <<events, raises, latest>>

\* The token is checked again once the mutex is held.  The activation is awaited
\* unless the application is frontmost or its window cannot be made key.
Lock(a) ==
  /\ phase[a] = "blocked" /\ holder = None
  /\ Live(Current(a).token)
  /\ holder' = a
  /\ \E next \in {"waiting", "raising"} : phase' = [phase EXCEPT ![a] = next]
  /\ UNCHANGED <<events, raises, latest>>

\* Cancelled in the meantime, or the accessibility API fails.
GiveUp(a) ==
  /\ phase[a] = "blocked" /\ holder = None
  /\ Finish(a)
  /\ UNCHANGED <<events, latest>>

Activated(a) ==
  /\ phase[a] = "waiting"
  /\ phase' = [phase EXCEPT ![a] = "raising"]
  /\ UNCHANGED <<events, raises, holder, latest>>

StopWaiting(a) ==
  /\ phase[a] = "waiting" /\ ~Live(Current(a).token)
  /\ Finish(a)
  /\ UNCHANGED <<events, latest>>

\* The last window also releases the mutex.
RaiseNext(a) ==
  /\ phase[a] = "raising"
  /\ events' = Append(events, Completed(Head(Current(a).windows), Current(a).token[1]))
  /\ latest' = [id |-> Current(a).token[1], isFocus |-> Current(a).isFocus]
  /\ IF Len(Current(a).windows) = 1
     THEN Finish(a)
     ELSE /\ raises' = [raises EXCEPT ![a][1].windows = Tail(@)]
          /\ UNCHANGED <<phase, holder>>

RaiseFails(a) ==
  /\ phase[a] = "raising"
  /\ Finish(a)
  /\ UNCHANGED <<events, latest>>

\* What the thread does by itself; an activation is up to the system.
ThreadStep(a) ==
  /\ \/ Refuse(a) \/ Begin(a) \/ Lock(a) \/ GiveUp(a)
     \/ StopWaiting(a) \/ RaiseNext(a) \/ RaiseFails(a)
  /\ UNCHANGED <<reactor, mailbox, manager, listening>>

ActivationArrives(a) ==
  Activated(a) /\ UNCHANGED <<reactor, mailbox, manager, listening>>

\* The application terminates: its requests are read no longer, and the raises that it
\* has go on, which fail or not.  The manager waits for later ones until the timeout.
Terminates(a) ==
  /\ a \in Mortal \cap listening
  /\ listening' = listening \ {a}
  /\ UNCHANGED <<reactor, mailbox, events, manager, apps>>

-----------------------------------------------------------------------------
Next ==
  \/ Iterate \/ HandleMessage \/ TimerFires
  \/ HandleLayoutResponse \/ SwitchEnds \/ RaiseOne \/ Relay
  \/ \E a \in Apps : ThreadStep(a) \/ ActivationArrives(a) \/ Terminates(a)

\* Tasks of the run loop and threads of applications are scheduled again and again, and
\* a timer that stays set fires.  Nothing says that an activation arrives.
Fairness ==
  /\ WF_vars(Iterate) /\ WF_vars(HandleMessage) /\ WF_vars(Relay) /\ WF_vars(TimerFires)
  /\ \A a \in Apps : WF_vars(ThreadStep(a))

Spec == Init /\ [][Next]_vars /\ Fairness

-----------------------------------------------------------------------------
(* Properties *)

\* A raise that an application will still carry out belongs to the active sequence and has
\* its current token: a sequence that was superseded or timed out, whatever hangs, has no
\* uncancelled raise left anywhere, and the token of the active one is not cancelled.
OneSequenceAtATime ==
  /\ active # None => Live(active.token)
  /\ \A a \in Apps : \A i \in DOMAIN raises[a] :
       Live(raises[a][i].token) => active # None /\ raises[a][i].token = active.token

\* The manager waits for every window that will still be raised: no late completion of
\* another sequence, phase or request lets it go on before.
WaitsForItsRaises ==
  \A a \in Apps : \A i \in DOMAIN raises[a] :
    Live(raises[a][i].token) /\ active # None =>
      Range(raises[a][i].windows) \subseteq active.pending

\* Windows are raised in the order of their requests, and within a request "the window to
\* raise and focus last" (raise_manager.rs) comes with the last batch: also after a
\* timeout, when an application that hung goes on while another one already has the focus
\* raise.  The token is checked under the mutex for this.
RaisesInOrder ==
  [][latest' # latest =>
       \/ latest.id < latest'.id
       \/ latest.id = latest'.id /\ latest'.isFocus]_vars

\* "Newer switch requests supersede older tagged work so stale focus cannot reactivate a
\* workspace that the user has already left": no application begins to raise windows for
\* a switch that is older than one the manager knows of.
StaleSwitchesRaiseNothing ==
  [][\A a \in Apps : holder # a /\ holder' = a => Current(a).tag \in {0, newest}]_vars

\* Every request comes to an end, whatever hangs, so that no raise blocks all future ones.
RequestsAreFinished == []<>(active = None /\ queued = {})

\* No application keeps the global mutex, although it awaits an activation that may
\* never arrive while it holds it.
MutexIsReleased == \A a \in Apps : holder = a ~> holder # a

\* Both: whatever fails or hangs, every request ends and so does every raise.
EverythingEnds == RequestsAreFinished /\ MutexIsReleased

\* The request for "the window to raise and focus last" can be sent: the handle of its
\* application comes with the request, unless it ended.
FocusHasItsHandle ==
  \A m \in Range(mailbox) :
    m.type = "Request" /\ m.focus # None /\ AppOf(m.focus) \in listening =>
      AppOf(m.focus) \in m.handles
=============================================================================
