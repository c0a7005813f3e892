------------------------------- MODULE RunLoop -------------------------------
(***************************************************************************)
(* How a task sleeps and wakes: the executor on a CFRunLoop                 *)
(* (sys/executor.rs, sys/run_loop.rs), its timer (sys/timer.rs), and a task *)
(* that waits for messages and a timeout, as the raise manager's            *)
(* (actor/raise_manager.rs 84-125) does: a message begins a sequence or     *)
(* ends it, and a sequence that lasts too long is timed out once.           *)
(*                                                                         *)
(* Messages come from other threads.  A run loop handles a source that was  *)
(* signalled, then looks at its ports: the one by which it is woken, and    *)
(* the timer's; it sleeps in front of them only if it handled no source.    *)
(* A timer may fire a little early.  That a channel takes its waker is one  *)
(* step; the receiver looks again after it left one.                        *)
(***************************************************************************)
EXTENDS Naturals, SequencesExt

CONSTANTS
  Senders,      \* threads that send a message each
  Messages,     \* what they may send: "begin", "end"
  Timeout,      \* TIMEOUT_DURATION
  Early,        \* how early a timer may fire
  MaxTime, None

VARIABLES
  now,
  sender,       \* what a thread has left to do: a sequence of steps
  inbox, leftWaker,          \* the channel, and whether the task left a waker
  signalled, woken,          \* the source, and the port by which the loop is woken
  status, timerWaker, fireAt,\* Timer: TimerState; CFRunLoopTimer
  loop,         \* the run loop: "sources", "ports", "asleep"; or in the task:
                \* "top", "select", "again"
  active,       \* RaiseManager::active_sequence: [since, timedOut], or None
  early         \* history: a sequence was timed out too early

vars == <<now, sender, inbox, leftWaker, signalled, woken, status, timerWaker, fireAt, loop,
          active, early>>

\* Dates are natural numbers, and no sequence is not one.
RunLoopAssumption ==
  /\ {Timeout, Early, MaxTime} \subseteq Nat
  /\ None \notin [since : Nat, timedOut : BOOLEAN]

Far == MaxTime + Timeout + Early + 1
-----------------------------------------------------------------------------
(* The threads. *)

\* Mutant of WakeUp: the loop is woken before its source is signalled.
FaultyWakeUp == <<"wake_up", "signal">>

\* WakeupHandle::wake, which the executor's waker calls.
WakeUp == <<"signal", "wake_up">>

Push(t, m) ==
  /\ sender[t] = <<"push">> /\ sender' = [sender EXCEPT ![t] = <<"take">>]
  /\ inbox' = Append(inbox, m)
  /\ UNCHANGED <<now, leftWaker, signalled, woken, status, timerWaker, fireAt, loop, active, early>>

TakeWaker(t) ==
  /\ sender[t] = <<"take">>
  /\ sender' = [sender EXCEPT ![t] = IF leftWaker THEN WakeUp ELSE <<>>]
  /\ leftWaker' = FALSE
  /\ UNCHANGED <<now, inbox, signalled, woken, status, timerWaker, fireAt, loop, active, early>>

Wake(t) ==
  /\ sender[t] # <<>> /\ Head(sender[t]) \in {"signal", "wake_up"}
  /\ sender' = [sender EXCEPT ![t] = Tail(@)]
  /\ signalled' = (signalled \/ Head(sender[t]) = "signal")
  /\ woken' = (woken \/ Head(sender[t]) = "wake_up")
  /\ UNCHANGED <<now, inbox, leftWaker, status, timerWaker, fireAt, loop, active, early>>
-----------------------------------------------------------------------------
(* The run loop. *)

\* The handler of the source polls the task.
Sources ==
  /\ loop = "sources"
  /\ loop' = IF signalled THEN "top" ELSE "asleep"
  /\ signalled' = FALSE
  /\ UNCHANGED <<now, sender, inbox, leftWaker, woken, status, timerWaker, fireAt, active, early>>

Woken ==
  /\ loop \in {"asleep", "ports"} /\ woken
  /\ woken' = FALSE /\ loop' = "sources"
  /\ UNCHANGED <<now, sender, inbox, leftWaker, signalled, status, timerWaker, fireAt, active, early>>

\* timer_fire_callback; the timer's next date is as good as never.
TimerFires ==
  /\ loop \in {"asleep", "ports"} /\ now + Early >= fireAt
  /\ status' = "Fired" /\ fireAt' = Far
  /\ timerWaker' = FALSE
  /\ signalled' = (signalled \/ timerWaker) /\ woken' = (woken \/ timerWaker)
  /\ loop' = "sources"
  /\ UNCHANGED <<now, sender, inbox, leftWaker, active, early>>

\* No port has anything, or someone else stops the loop, which the executor runs again.
LookAgain ==
  /\ \/ loop = "ports" /\ ~woken
     \/ loop = "asleep"
  /\ loop' = "sources"
  /\ UNCHANGED <<now, sender, inbox, leftWaker, signalled, woken, status, timerWaker, fireAt,
                 active, early>>
-----------------------------------------------------------------------------
(* The task. *)

Later(a, b) == IF a > b THEN a ELSE b

\* sequence_timeout, as a date.
Deadline(sequence) ==
  IF sequence = None \/ sequence.timedOut THEN Far ELSE Later(now, sequence.since + Timeout)

\* Every iteration of the loop sets the timer; an event that has fired stays.
Top ==
  /\ loop = "top" /\ loop' = "select"
  /\ fireAt' = Deadline(active)
  /\ UNCHANGED <<now, sender, inbox, leftWaker, signalled, woken, status, timerWaker, active, early>>

\* handle_message, reduced to what the timeout depends on.
ReceiveMessage ==
  /\ loop \in {"select", "again"} /\ inbox # <<>>
  /\ inbox' = Tail(inbox)
  /\ active' = IF Head(inbox) = "end" THEN None
               ELSE IF active = None THEN [since |-> now, timedOut |-> FALSE] ELSE active
  /\ loop' = "top"
  /\ UNCHANGED <<now, sender, leftWaker, signalled, woken, status, timerWaker, fireAt, early>>

\* Timer::poll_next takes the event; the sequence may be another one by now.
TakeTimer ==
  /\ loop = "select" /\ status = "Fired"
  /\ status' = "Pending"
  /\ LET over == active # None /\ Deadline(active) <= now
     IN /\ active' = IF over THEN [active EXCEPT !.timedOut = TRUE] ELSE active
        /\ early' = (early \/ (active' # active /\ now < active.since + Timeout))
  /\ loop' = "top"
  /\ UNCHANGED <<now, sender, inbox, leftWaker, signalled, woken, timerWaker, fireAt>>

\* Both are polled, in any order, and leave a waker; the channel is looked at once more.
LeaveWakers ==
  /\ loop = "select" /\ inbox = <<>> /\ status = "Pending"
  /\ leftWaker' = TRUE /\ timerWaker' = TRUE
  /\ loop' = "again"
  /\ UNCHANGED <<now, sender, inbox, signalled, woken, status, fireAt, active, early>>

Return ==
  /\ loop = "again" /\ inbox = <<>>
  /\ loop' = "ports"
  /\ UNCHANGED <<now, sender, inbox, leftWaker, signalled, woken, status, timerWaker, fireAt,
                 active, early>>
-----------------------------------------------------------------------------
Tick ==
  /\ now < MaxTime /\ now' = now + 1
  /\ UNCHANGED <<sender, inbox, leftWaker, signalled, woken, status, timerWaker, fireAt, loop,
                 active, early>>

\* Executor::run wakes itself, so that the task is polled for the first time.
Init ==
  /\ now = 0 /\ sender = [t \in Senders |-> <<"push">>]
  /\ inbox = <<>> /\ leftWaker = FALSE
  /\ signalled = TRUE /\ woken = TRUE
  /\ status = "Pending" /\ timerWaker = FALSE /\ fireAt = Far
  /\ loop = "sources" /\ active = None /\ early = FALSE

Next ==
  \/ \E t \in Senders : (\E m \in Messages : Push(t, m)) \/ TakeWaker(t) \/ Wake(t)
  \/ Sources \/ Woken \/ TimerFires \/ LookAgain
  \/ Top \/ ReceiveMessage \/ TakeTimer \/ LeaveWakers \/ Return
  \/ Tick

Spec == Init /\ [][Next]_vars
-----------------------------------------------------------------------------
\* Nothing will make the loop go on.
Sleeps == loop = "asleep" /\ ~woken /\ now < fireAt /\ \A t \in Senders : sender[t] \in {<<>>, <<"push">>}

\* The loop sleeps only when the task has nothing to do: no message waits, no timer has
\* fired, and a sequence that lasted too long was timed out; whenever a thread sends and
\* whenever the timer fires between two steps of the task.
NothingIsSleptThrough ==
  Sleeps => /\ inbox = <<>> /\ ~signalled /\ status = "Pending"
            /\ active # None /\ now >= active.since + Timeout => active.timedOut

\* No sequence is timed out early, not by the timer of the one before it either.
NoneIsTimedOutEarly == ~early
=============================================================================
