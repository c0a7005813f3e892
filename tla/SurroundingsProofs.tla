------------------------- MODULE SurroundingsProofs -------------------------
(***************************************************************************)
(* What is around the core, for any bounds: the run loop on which a task    *)
(* sleeps and wakes (RunLoop), the layout that outlives the process         *)
(* (Persistence), the menu bar item (MenuBar), and the lines that mark      *)
(* stacked windows (StackLine).                                             *)
(***************************************************************************)
EXTENDS MCSurroundings, Sequences, WellFoundedInduction, FiniteSetTheorems, TLAPS

-----------------------------------------------------------------------------
(* The run loop. *)

LoopTypeOK ==
  /\ now \in 0..MaxTime /\ fireAt \in Nat
  /\ sender \in [Senders -> {<<"push">>, <<"take">>, <<"signal", "wake_up">>, <<"wake_up">>, <<>>}]
  /\ inbox \in Seq(Messages)
  /\ leftWaker \in BOOLEAN /\ signalled \in BOOLEAN /\ woken \in BOOLEAN /\ timerWaker \in BOOLEAN
  /\ status \in {"Pending", "Fired"}
  /\ loop \in {"sources", "ports", "asleep", "top", "select", "again"}
  /\ active \in {None} \cup [since : Nat, timedOut : BOOLEAN]

\* The task has polled the channel and the timer, and has not begun again.
Polled == loop \in {"again", "ports", "asleep", "sources"}

SignalIsFollowed ==
  signalled => loop = "sources" \/ woken \/ \E t \in Senders : sender[t] = <<"wake_up">>

WakerIsTaken ==
  Polled /\ ~leftWaker => signalled \/ \E t \in Senders : sender[t] = <<"signal", "wake_up">>

MessageIsFollowed ==
  Polled /\ leftWaker /\ inbox # <<>> => \E t \in Senders : sender[t] = <<"take">>

TimerIsHeard == Polled /\ (status = "Fired" \/ ~timerWaker) => signalled

TimerIsSet ==
  loop # "top" /\ status = "Pending" /\ active # None /\ ~active.timedOut =>
    fireAt <= now \/ fireAt <= active.since + Timeout

LoopInv ==
  LoopTypeOK /\ SignalIsFollowed /\ WakerIsTaken /\ MessageIsFollowed /\ TimerIsHeard
  /\ TimerIsSet /\ ~early

\* A loop that sleeps has been polled, so that whatever is new is known or followed by a thread.
LEMMA LoopFollows == LoopInv => NothingIsSleptThrough
<1>. SUFFICES ASSUME LoopInv  PROVE NothingIsSleptThrough
  OBVIOUS
<1>1. Loop!NoneIsTimedOutEarly
  BY DEF LoopInv, Loop!NoneIsTimedOutEarly
<1>2. ASSUME Loop!Sleeps
      PROVE  /\ inbox = <<>> /\ ~signalled /\ status = "Pending"
             /\ active # None /\ now >= active.since + Timeout => active.timedOut
  <2>1. \A t \in Senders : sender[t] \notin {<<"take">>, <<"signal", "wake_up">>, <<"wake_up">>}
    BY <1>2 DEF Loop!Sleeps
  <2>2. Polled /\ loop = "asleep" /\ ~woken /\ now < fireAt
    BY <1>2 DEF Loop!Sleeps, Polled
  <2>3. ~signalled
    BY <2>1, <2>2 DEF LoopInv, SignalIsFollowed
  <2>4. status = "Pending" /\ inbox = <<>>
    BY <2>1, <2>2, <2>3 DEF LoopInv, LoopTypeOK, WakerIsTaken, MessageIsFollowed, TimerIsHeard
  <2>5. active # None /\ now >= active.since + Timeout => active.timedOut
    BY <2>2, <2>4, PartsAssumption
       DEF LoopInv, LoopTypeOK, TimerIsSet, Loop!RunLoopAssumption
  <2>. QED  BY <2>3, <2>4, <2>5
<1>. QED  BY <1>1, <1>2 DEF NothingIsSleptThrough, Loop!NothingIsSleptThrough

\* A thread sends, takes the waker the task left, and wakes the loop.
LEMMA LoopThreads ==
  ASSUME LoopInv, NEW t \in Senders, (\E m \in Messages : Loop!Push(t, m)) \/ Loop!TakeWaker(t) \/ Loop!Wake(t)
  PROVE  LoopInv'
<1>1. UNCHANGED <<now, status, timerWaker, fireAt, loop, active, early>> /\ (Polled' <=> Polled)
  BY DEF Loop!Push, Loop!TakeWaker, Loop!Wake, Polled
<1>2. TimerIsSet' /\ ~early'
  BY <1>1 DEF LoopInv, TimerIsSet
<1>3. CASE \E m \in Messages : Loop!Push(t, m)
  <2>1. PICK m \in Messages : inbox' = Append(inbox, m)
    BY <1>3 DEF Loop!Push
  <2>2. /\ sender[t] = <<"push">> /\ sender' = [sender EXCEPT ![t] = <<"take">>]
        /\ UNCHANGED <<leftWaker, signalled, woken>>
    BY <1>3 DEF Loop!Push
  <2>3. LoopTypeOK'
    BY <1>1, <2>1, <2>2 DEF LoopInv, LoopTypeOK
  <2>4. sender'[t] = <<"take">> /\ \A u \in Senders : u # t => sender'[u] = sender[u]
    BY <2>2 DEF LoopInv, LoopTypeOK
  <2>5. \A u \in Senders : sender[u] # <<"push">> => sender'[u] = sender[u]
    BY <2>2, <2>4
  <2>6. SignalIsFollowed' /\ WakerIsTaken'
    BY <1>1, <2>2, <2>5 DEF LoopInv, SignalIsFollowed, WakerIsTaken
  <2>. QED  BY <1>1, <1>2, <2>2, <2>3, <2>4, <2>6 DEF LoopInv, MessageIsFollowed, TimerIsHeard
<1>4. CASE Loop!TakeWaker(t)
  <2>1. /\ sender[t] = <<"take">> /\ leftWaker' = FALSE /\ UNCHANGED <<inbox, signalled, woken>>
        /\ sender' = [sender EXCEPT ![t] = IF leftWaker THEN <<"signal", "wake_up">> ELSE <<>>]
    BY <1>4 DEF Loop!TakeWaker, Loop!WakeUp
  <2>2. LoopTypeOK'
    BY <1>1, <2>1 DEF LoopInv, LoopTypeOK
  <2>3. /\ leftWaker => sender'[t] = <<"signal", "wake_up">>
        /\ \A u \in Senders : sender[u] # <<"take">> => sender'[u] = sender[u]
    BY <2>1 DEF LoopInv, LoopTypeOK
  <2>4. SignalIsFollowed' /\ WakerIsTaken'
    BY <1>1, <2>1, <2>3 DEF LoopInv, LoopTypeOK, SignalIsFollowed, WakerIsTaken
  <2>. QED  BY <1>1, <1>2, <2>1, <2>2, <2>4 DEF LoopInv, MessageIsFollowed, TimerIsHeard
<1>5. CASE Loop!Wake(t)
  <2>1. UNCHANGED <<inbox, leftWaker>>
    BY <1>5 DEF Loop!Wake
  <2>2. CASE sender[t] = <<"signal", "wake_up">>
    <3>1. /\ sender' = [sender EXCEPT ![t] = <<"wake_up">>] /\ signalled' = TRUE /\ woken' = woken
      <4>1. Head(<<"signal", "wake_up">>) = "signal" /\ Tail(<<"signal", "wake_up">>) = <<"wake_up">>
        OBVIOUS
      <4>2. "signal" # "wake_up" /\ woken \in BOOLEAN
        BY DEF LoopInv, LoopTypeOK
      <4>. QED  BY <1>5, <2>2, <4>1, <4>2 DEF Loop!Wake
    <3>2. LoopTypeOK'
      BY <1>1, <2>1, <3>1 DEF LoopInv, LoopTypeOK
    <3>3. sender'[t] = <<"wake_up">> /\ \A u \in Senders : sender[u] = <<"take">> => sender'[u] = sender[u]
      BY <2>2, <3>1 DEF LoopInv, LoopTypeOK
    <3>. QED  BY <1>1, <1>2, <2>1, <3>1, <3>2, <3>3
              DEF LoopInv, SignalIsFollowed, WakerIsTaken, MessageIsFollowed, TimerIsHeard
  <2>3. CASE sender[t] = <<"wake_up">>
    <3>1. /\ sender' = [sender EXCEPT ![t] = <<>>] /\ signalled' = signalled /\ woken' = TRUE
      <4>1. Head(<<"wake_up">>) = "wake_up" /\ Tail(<<"wake_up">>) = <<>>
        OBVIOUS
      <4>2. "signal" # "wake_up" /\ signalled \in BOOLEAN
        BY DEF LoopInv, LoopTypeOK
      <4>. QED  BY <1>5, <2>3, <4>1, <4>2 DEF Loop!Wake
    <3>2. LoopTypeOK'
      BY <1>1, <2>1, <3>1 DEF LoopInv, LoopTypeOK
    <3>3. \A u \in Senders : sender[u] # <<"wake_up">> => sender'[u] = sender[u]
      BY <2>3, <3>1 DEF LoopInv, LoopTypeOK
    <3>. QED  BY <1>1, <1>2, <2>1, <3>1, <3>2, <3>3
              DEF LoopInv, SignalIsFollowed, WakerIsTaken, MessageIsFollowed, TimerIsHeard
  <2>. QED  BY <1>5, <2>2, <2>3 DEF Loop!Wake, LoopInv, LoopTypeOK
<1>. QED  BY <1>3, <1>4, <1>5

\* The loop handles its source, is woken, hears the timer, or looks again.
LEMMA LoopTurns ==
  LoopInv /\ (Loop!Sources \/ Loop!Woken \/ Loop!TimerFires \/ Loop!LookAgain) => LoopInv'
<1>. SUFFICES ASSUME LoopInv, Loop!Sources \/ Loop!Woken \/ Loop!TimerFires \/ Loop!LookAgain
              PROVE  LoopInv'
  OBVIOUS
<1>1. UNCHANGED <<now, sender, inbox, leftWaker, active, early>>
  BY DEF Loop!Sources, Loop!Woken, Loop!TimerFires, Loop!LookAgain
<1>2. CASE Loop!Sources
  <2>1. /\ loop = "sources" /\ loop' = (IF signalled THEN "top" ELSE "asleep") /\ signalled' = FALSE
        /\ UNCHANGED <<woken, status, timerWaker, fireAt>>
    BY <1>2 DEF Loop!Sources
  <2>. QED  BY <1>1, <2>1 DEF LoopInv, LoopTypeOK, SignalIsFollowed, WakerIsTaken, MessageIsFollowed,
                              TimerIsHeard, TimerIsSet, Polled
<1>3. CASE Loop!Woken \/ Loop!LookAgain
  <2>1. /\ loop \in {"asleep", "ports"} /\ loop' = "sources" /\ woken' \in BOOLEAN
        /\ UNCHANGED <<signalled, status, timerWaker, fireAt>>
    BY <1>3 DEF Loop!Woken, Loop!LookAgain, LoopInv, LoopTypeOK
  <2>. QED  BY <1>1, <2>1 DEF LoopInv, LoopTypeOK, SignalIsFollowed, WakerIsTaken, MessageIsFollowed,
                              TimerIsHeard, TimerIsSet, Polled
<1>4. CASE Loop!TimerFires
  <2>1. /\ loop \in {"asleep", "ports"} /\ loop' = "sources" /\ status' = "Fired" /\ timerWaker' = FALSE
        /\ fireAt' = Loop!Far /\ signalled' = (signalled \/ timerWaker) /\ woken' \in BOOLEAN
    BY <1>4 DEF Loop!TimerFires, LoopInv, LoopTypeOK
  <2>2. Loop!Far \in Nat
    BY PartsAssumption DEF Loop!Far, Loop!RunLoopAssumption
  <2>3. signalled'
    BY <2>1 DEF LoopInv, LoopTypeOK, TimerIsHeard, Polled
  <2>. QED  BY <1>1, <2>1, <2>2, <2>3 DEF LoopInv, LoopTypeOK, SignalIsFollowed, WakerIsTaken,
                              MessageIsFollowed, TimerIsHeard, TimerIsSet, Polled
<1>. QED  BY <1>2, <1>3, <1>4

\* The task sets its timer, takes a message or the timer's event, or leaves its wakers.
LEMMA LoopTask ==
  LoopInv /\ (Loop!Top \/ Loop!ReceiveMessage \/ Loop!TakeTimer \/ Loop!LeaveWakers \/ Loop!Return)
    => LoopInv'
<1>. SUFFICES ASSUME LoopInv,
                     Loop!Top \/ Loop!ReceiveMessage \/ Loop!TakeTimer \/ Loop!LeaveWakers \/ Loop!Return
              PROVE  LoopInv'
  OBVIOUS
<1>0. {Timeout, Early, MaxTime} \subseteq Nat /\ None \notin [since : Nat, timedOut : BOOLEAN]
  BY PartsAssumption DEF Loop!RunLoopAssumption
<1>1. UNCHANGED <<now, sender, signalled, woken>> /\ (SignalIsFollowed => SignalIsFollowed')
  BY DEF Loop!Top, Loop!ReceiveMessage, Loop!TakeTimer, Loop!LeaveWakers, Loop!Return, SignalIsFollowed
<1>2. CASE Loop!Top
  <2>1. /\ loop = "top" /\ loop' = "select" /\ fireAt' = Loop!Deadline(active)
        /\ UNCHANGED <<inbox, leftWaker, status, timerWaker, active, early>>
    BY <1>2 DEF Loop!Top
  <2>2. /\ fireAt' \in Nat
        /\ active # None /\ ~active.timedOut => fireAt' <= now \/ fireAt' <= active.since + Timeout
    BY <1>0, <2>1 DEF LoopInv, LoopTypeOK, Loop!Deadline, Loop!Later, Loop!Far
  <2>. QED  BY <1>1, <2>1, <2>2 DEF LoopInv, LoopTypeOK, SignalIsFollowed, WakerIsTaken, MessageIsFollowed,
                              TimerIsHeard, TimerIsSet, Polled
<1>3. CASE Loop!ReceiveMessage
  <2>1. /\ inbox # <<>> /\ inbox' = Tail(inbox) /\ loop' = "top"
        /\ UNCHANGED <<leftWaker, status, timerWaker, fireAt, early>>
        /\ active' \in {None, active, [since |-> now, timedOut |-> FALSE]}
    BY <1>3 DEF Loop!ReceiveMessage
  <2>2. inbox' \in Seq(Messages)
    BY <2>1 DEF LoopInv, LoopTypeOK
  <2>3. active' \in {None} \cup [since : Nat, timedOut : BOOLEAN]
    <3>1. now \in Nat /\ active \in {None} \cup [since : Nat, timedOut : BOOLEAN]
      BY <1>0 DEF LoopInv, LoopTypeOK
    <3>2. [since |-> now, timedOut |-> FALSE] \in [since : Nat, timedOut : BOOLEAN]
      BY <3>1
    <3>. QED  BY <2>1, <3>1, <3>2
  <2>. QED  BY <1>1, <2>1, <2>2, <2>3 DEF LoopInv, LoopTypeOK, SignalIsFollowed, WakerIsTaken,
                              MessageIsFollowed, TimerIsHeard, TimerIsSet, Polled
<1>4. CASE Loop!TakeTimer
  <2>. DEFINE over == active # None /\ Loop!Deadline(active) <= now
  <2>1. /\ loop' = "top" /\ status' = "Pending" /\ UNCHANGED <<inbox, leftWaker, timerWaker, fireAt>>
        /\ active' = (IF over THEN [active EXCEPT !.timedOut = TRUE] ELSE active)
        /\ early' = (early \/ (active' # active /\ now < active.since + Timeout))
    BY <1>4 DEF Loop!TakeTimer
  <2>2. active' \in {None} \cup [since : Nat, timedOut : BOOLEAN]
    BY <2>1 DEF LoopInv, LoopTypeOK
  <2>3. over => active.timedOut \/ ~(now < active.since + Timeout)
    BY <1>0 DEF LoopInv, LoopTypeOK, Loop!Deadline, Loop!Later, Loop!Far
  <2>4. over /\ active.timedOut => active' = active
    BY <2>1 DEF LoopInv, LoopTypeOK
  <2>5. ~early'
    BY <2>1, <2>3, <2>4 DEF LoopInv
  <2>. QED  BY <1>1, <2>1, <2>2, <2>5 DEF LoopInv, LoopTypeOK, SignalIsFollowed, WakerIsTaken,
                              MessageIsFollowed, TimerIsHeard, TimerIsSet, Polled
<1>5. CASE Loop!LeaveWakers \/ Loop!Return
  <2>1. /\ UNCHANGED <<inbox, status, fireAt, active, early>> /\ inbox = <<>>
        /\ \/ /\ loop = "select" /\ loop' = "again" /\ status = "Pending"
              /\ leftWaker' = TRUE /\ timerWaker' = TRUE
           \/ loop = "again" /\ loop' = "ports" /\ UNCHANGED <<leftWaker, timerWaker>>
    BY <1>5 DEF Loop!LeaveWakers, Loop!Return
  <2>. QED  BY <1>1, <2>1 DEF LoopInv, LoopTypeOK, SignalIsFollowed, WakerIsTaken, MessageIsFollowed,
                              TimerIsHeard, TimerIsSet, Polled
<1>. QED  BY <1>2, <1>3, <1>4, <1>5

LEMMA LoopTicks == LoopInv /\ Loop!Tick => LoopInv'
<1>. SUFFICES ASSUME LoopInv, Loop!Tick  PROVE LoopInv'
  OBVIOUS
<1>1. /\ now' = now + 1 /\ now < MaxTime
      /\ UNCHANGED <<sender, inbox, leftWaker, signalled, woken, status, timerWaker, fireAt, loop,
                     active, early>>
  BY DEF Loop!Tick
<1>2. MaxTime \in Nat /\ now \in 0..MaxTime /\ fireAt \in Nat
  BY PartsAssumption DEF Loop!RunLoopAssumption, LoopInv, LoopTypeOK
<1>3. now' \in 0..MaxTime /\ (fireAt <= now => fireAt <= now')
  BY <1>1, <1>2
<1>. QED  BY <1>1, <1>3 DEF LoopInv, LoopTypeOK, SignalIsFollowed, WakerIsTaken, MessageIsFollowed,
                              TimerIsHeard, TimerIsSet, Polled

LEMMA LoopInit == MCInit => LoopInv
<1>. SUFFICES ASSUME MCInit  PROVE LoopInv
  OBVIOUS
<1>1. Loop!Init /\ {Timeout, Early, MaxTime} \subseteq Nat
  BY PartsAssumption DEF MCInit, Loop!RunLoopAssumption
<1>2. LoopTypeOK
  <2>1. fireAt \in Nat /\ now \in 0..MaxTime
    BY <1>1 DEF Loop!Init, Loop!Far
  <2>2. inbox \in Seq(Messages) /\ active \in {None}
    BY <1>1 DEF Loop!Init
  <2>. QED  BY <1>1, <2>1, <2>2 DEF Loop!Init, LoopTypeOK
<1>. QED  BY <1>1, <1>2 DEF Loop!Init, LoopInv, SignalIsFollowed, WakerIsTaken,
                      MessageIsFollowed, TimerIsHeard, TimerIsSet, Polled

LEMMA LoopStep ==
  LoopInv /\ [MCNext]_<<part, vars, lineVars, barVars, saveVars, loopVars>> => LoopInv'
<1>. SUFFICES ASSUME LoopInv, [MCNext]_<<part, vars, lineVars, barVars, saveVars, loopVars>>
              PROVE  LoopInv'
  OBVIOUS
<1>1. CASE UNCHANGED loopVars
  BY <1>1 DEF loopVars, LoopInv, LoopTypeOK, SignalIsFollowed, WakerIsTaken, MessageIsFollowed,
              TimerIsHeard, TimerIsSet, Polled
<1>2. CASE Loop!Next
  BY <1>2, LoopThreads, LoopTurns, LoopTask, LoopTicks DEF Loop!Next
<1>. QED  BY <1>1, <1>2 DEF MCNext

\* The run loop never sleeps while a message, a timer's event or a sequence that has lasted too long
\* waits for the task, and no sequence is timed out early: for any number of threads and messages,
\* and however early a timer fires.
THEOREM NothingSleptThrough == MCSpec => []NothingIsSleptThrough
BY LoopInit, LoopStep, LoopFollows, PTL DEF MCSpec

-----------------------------------------------------------------------------
(* The layout. *)

LEMMA FiniteHasHighest ==
  ASSUME NEW S \in SUBSET Nat, IsFiniteSet(S), S # {}
  PROVE  \E x \in S : \A y \in S : y <= x
<1>. DEFINE Bounded(T) == \E x \in T : \A y \in T : y <= x
            F == {T \in SUBSET S : T # {} /\ ~Bounded(T)}
<1>. SUFFICES ASSUME F # {}  PROVE FALSE
  <2>1. S \notin F => Bounded(S)
    OBVIOUS
  <2>. QED  BY <2>1
<1>1. F \subseteq FiniteSubsetsOf(S)
  BY FS_FiniteSubsetsOfFinite
<1>2. PICK T \in F : \A R \in F : ~(<<R, T>> \in StrictSubsetOrdering(S))
  <2>. HIDE DEF F
  <2>. QED  BY <1>1, FS_StrictSubsetOrderingWellFounded, WFMin
<1>3. PICK x : x \in T
  OBVIOUS
<1>4. T \ {x} \in SUBSET S /\ T \ {x} # T /\ T \ {x} \subseteq T /\ T \in SUBSET S
  BY <1>3
<1>5. T \ {x} \notin F
  <2>1. <<T \ {x}, T>> \in StrictSubsetOrdering(S)
    BY <1>4, Zenon DEF StrictSubsetOrdering
  <2>. QED  BY <1>2, <2>1, Zenon
<1>6. CASE T \ {x} = {}
  <2>1. T = {x} /\ x \in Nat
    BY <1>3, <1>4, <1>6
  <2>. QED  BY <2>1
<1>7. CASE T \ {x} # {}
  <2>1. PICK y \in T \ {x} : \A z \in T \ {x} : z <= y
    BY <1>4, <1>5, <1>7
  <2>2. x \in Nat /\ y \in Nat /\ \A z \in T : z \in Nat
    BY <1>3, <1>4, <2>1
  <2>3. CASE x <= y
    <3>1. \A z \in T : z <= y
      BY <2>1, <2>3
    <3>. QED  BY <2>1, <3>1
  <2>4. CASE y <= x
    <3>1. \A z \in T : z <= x
      BY <2>1, <2>2, <2>4
    <3>. QED  BY <1>3, <3>1
  <2>. QED  BY <2>2, <2>3, <2>4
<1>. QED  BY <1>6, <1>7

SavedWorkspaces == [id : Nat, number : Nat]

\* A file that Lift wrote, and that it can read.
Readable(f) ==
  /\ f \in [kind : {"whole"}, schema : {2}, workspaces : SUBSET SavedWorkspaces]
  /\ IsFiniteSet(f.workspaces)
  /\ \A w \in f.workspaces : w.number \in Numbers
  /\ Saving!Accepted(f.workspaces)

SaveTypeOK ==
  /\ process \in {"none", "up", "open", "write", "rename", "exit"}
  /\ saved \in SUBSET SavedWorkspaces /\ IsFiniteSet(saved)
  /\ nextId \in Nat /\ foreign \in BOOLEAN

CatalogIsSound ==
  /\ \A w \in saved : w.id \in 1..nextId /\ w.number \in Numbers \cup {Saving!HiddenNumber}
  /\ \A v, w \in saved : v # w => v.id # w.id /\ v.number # w.number

\* What is written is sound; a save that was told of is in the file.
SaveIsSound ==
  /\ process \in {"open", "write", "rename", "exit"} => Readable(encoded)
  /\ process = "rename" => temporary = encoded
  /\ process = "exit" => layoutFile = encoded /\ ~foreign

FileIsSound ==
  /\ foreign => layoutFile \in MCFound /\ committed = <<>>
  /\ ~foreign => Readable(layoutFile)
  /\ process # "exit" /\ committed # <<>> => layoutFile.workspaces = committed[1]

SaveInv == SaveTypeOK /\ CatalogIsSound /\ SaveIsSound /\ FileIsSound

\* What Lift wrote is restored as it is.
LEMMA SoundIsRestored ==
  ASSUME NEW f, Readable(f)
  PROVE  /\ Saving!Loads(f) /\ Saving!Accepted(Saving!Migrated(f))
         /\ Saving!Restored(f) = f.workspaces
<1>1. \A w \in f.workspaces : [w EXCEPT !.number = IF f.schema = 1 /\ w.number = 10 THEN 0 ELSE w.number] = w
  BY DEF Readable, SavedWorkspaces
<1>2. Saving!Migrated(f) = f.workspaces
  BY <1>1 DEF Saving!Migrated
<1>3. Saving!Loads(f) /\ Saving!Accepted(Saving!Migrated(f))
  BY <1>2 DEF Readable, Saving!Loads
<1>. QED  BY <1>2, <1>3 DEF Saving!Restored

\* Whatever a start finds, what it restores is sound.
LEMMA RestoredIsSound ==
  ASSUME NEW f, Readable(f) \/ f \in MCFound
  PROVE  /\ Saving!Restored(f) \in SUBSET SavedWorkspaces /\ IsFiniteSet(Saving!Restored(f))
         /\ \A w \in Saving!Restored(f) : w.number \in Numbers
         /\ Saving!Accepted(Saving!Restored(f))
<1>. DEFINE R == Saving!Restored(f)
<1>1. CASE Readable(f)
  BY <1>1, SoundIsRestored DEF Readable
<1>2. CASE R = {}
  BY <1>2, FS_EmptySet DEF Saving!Accepted
<1>3. CASE f \in MCFound /\ R # {}
  <2>1. Saving!Loads(f) /\ Saving!Accepted(Saving!Migrated(f)) /\ R = Saving!Migrated(f)
    BY <1>3 DEF Saving!Restored
  <2>2. f.kind = "whole"
    BY <2>1 DEF Saving!Loads
  <2>3. f \notin {Saving!Missing, Saving!Torn}
    BY <2>2 DEF Saving!Missing, Saving!Torn
  <2>4. f.workspaces \in SUBSET SavedWorkspaces /\ IsFiniteSet(f.workspaces)
    <3>1. f.workspaces \in SUBSET SavedWorkspaces /\ Saving!IsFiniteSet(f.workspaces)
      BY <1>3, <2>3, PartsAssumption DEF Saving!PersistenceAssumption, SavedWorkspaces
    <3>. QED  BY <3>1 DEF Saving!IsFiniteSet, IsFiniteSet
  <2>. DEFINE new == [w \in f.workspaces |->
                        [w EXCEPT !.number = IF f.schema = 1 /\ w.number = 10 THEN 0 ELSE w.number]]
  <2>5. R = {new[w] : w \in f.workspaces}
    BY <2>1 DEF Saving!Migrated
  <2>6. \A w \in f.workspaces : new[w] \in SavedWorkspaces
    BY <2>4 DEF SavedWorkspaces
  <2>7. new \in Surjection(f.workspaces, R)
    <3>. HIDE DEF R
    <3>1. new \in [f.workspaces -> R]
      BY <2>5
    <3>. HIDE DEF new
    <3>. QED  BY <2>5, <3>1 DEF Surjection
  <2>8. IsFiniteSet(R)
    <3>. HIDE DEF R, new
    <3>. QED  BY <2>4, <2>7, FS_Surjection
  <2>. HIDE DEF new
  <2>9. R \in SUBSET SavedWorkspaces
    BY <2>5, <2>6
  <2>. QED  BY <2>1, <2>8, <2>9 DEF Saving!Loads
<1>. QED  BY <1>1, <1>2, <1>3

LEMMA HighestIsHighest ==
  ASSUME NEW ws \in SUBSET SavedWorkspaces, IsFiniteSet(ws)
  PROVE  Saving!Highest(ws) \in Nat /\ \A w \in ws : w.id <= Saving!Highest(ws)
<1>. DEFINE I == {w.id : w \in ws}
            J == I \cup {0}
            id == [w \in ws |-> w.id]
<1>1. id \in Surjection(ws, I)
  BY DEF Surjection
<1>2. IsFiniteSet(J)
  <2>. HIDE DEF I, id
  <2>1. IsFiniteSet(I)
    BY <1>1, FS_Surjection
  <2>. QED  BY <2>1, FS_AddElement
<1>3. J \in SUBSET Nat /\ J # {}
  BY DEF SavedWorkspaces
<1>4. PICK x \in J : \A y \in J : y <= x
  <2>. HIDE DEF J
  <2>. QED  BY <1>2, <1>3, FiniteHasHighest
<1>5. \A y \in J : x >= y
  BY <1>3, <1>4
<1>6. Saving!Highest(ws) \in J /\ \A y \in J : Saving!Highest(ws) >= y
  BY <1>5 DEF Saving!Highest, Saving!Max
<1>. QED  BY <1>3, <1>6

LEMMA SaveFollows == SaveInv => LayoutIsRestored
<1>. SUFFICES ASSUME SaveInv  PROVE LayoutIsRestored
  OBVIOUS
<1>1. ~foreign => Saving!Loads(layoutFile) /\ Saving!Accepted(Saving!Migrated(layoutFile))
                  /\ Saving!Restored(layoutFile) = layoutFile.workspaces
  BY SoundIsRestored DEF SaveInv, FileIsSound
<1>2. process # "exit" /\ committed # <<>> => Saving!Restored(layoutFile) = committed[1]
  BY <1>1 DEF SaveInv, FileIsSound, SaveTypeOK
<1>3. Saving!SavedIsRestored
  BY <1>1, <1>2 DEF Saving!SavedIsRestored
<1>4. Saving!RestoredIsSound
  BY DEF SaveInv, SaveTypeOK, CatalogIsSound, Saving!RestoredIsSound, Saving!Accepted, SavedWorkspaces
<1>. QED  BY <1>3, <1>4 DEF LayoutIsRestored

LEMMA SaveStart == SaveInv /\ Saving!Start => SaveInv'
<1>. SUFFICES ASSUME SaveInv, Saving!Start  PROVE SaveInv'
  OBVIOUS
<1>1. /\ process' = "up" /\ saved' = Saving!Restored(layoutFile) /\ nextId' = Saving!Highest(saved')
      /\ UNCHANGED <<layoutFile, temporary, encoded, foreign, committed>> /\ process = "none"
  BY DEF Saving!Start, Saving!files
<1>2. /\ saved' \in SUBSET SavedWorkspaces /\ IsFiniteSet(saved')
      /\ \A w \in saved' : w.number \in Numbers
      /\ Saving!Accepted(saved')
  BY <1>1, RestoredIsSound DEF SaveInv, FileIsSound, SaveTypeOK
<1>3. nextId' \in Nat /\ \A w \in saved' : w.id <= nextId'
  BY <1>1, <1>2, HighestIsHighest
<1>4. CatalogIsSound'
  BY <1>2, <1>3 DEF CatalogIsSound, Saving!Accepted, SavedWorkspaces
<1>. QED  BY <1>1, <1>2, <1>3, <1>4 DEF SaveInv, SaveTypeOK, SaveIsSound, FileIsSound

LEMMA SaveChange == SaveInv /\ Saving!Change => SaveInv'
<1>. SUFFICES ASSUME SaveInv, Saving!Change  PROVE SaveInv'
  OBVIOUS
<1>1. process = "up" /\ UNCHANGED <<layoutFile, temporary, process, encoded, foreign, committed>>
  BY DEF Saving!Change, Saving!files
<1>2. SaveIsSound' /\ FileIsSound'
  BY <1>1 DEF SaveInv, SaveIsSound, FileIsSound
<1>3. CASE \E w \in saved : saved' = saved \ {w} /\ UNCHANGED nextId
  <2>1. IsFiniteSet(saved')
    BY <1>3, FS_RemoveElement DEF SaveInv, SaveTypeOK
  <2>2. saved' \in SUBSET saved
    BY <1>3
  <2>. QED  BY <1>1, <1>2, <1>3, <2>1, <2>2 DEF SaveInv, SaveTypeOK, CatalogIsSound
<1>4. ASSUME nextId' = nextId + 1,
             NEW n \in (Numbers \union {Saving!HiddenNumber}) \ {w.number : w \in saved},
             saved' = saved \union {[id |-> nextId', number |-> n]}
      PROVE  SaveInv'
  <2>. DEFINE new == [id |-> nextId', number |-> n]
  <2>1. IsFiniteSet(saved')
    BY <1>4, FS_AddElement DEF SaveInv, SaveTypeOK
  <2>2. n \in Nat /\ nextId \in Nat
    <3>1. Numbers \subseteq Nat
      BY PartsAssumption DEF Saving!PersistenceAssumption
    <3>2. n \in Numbers \/ n = 99
      BY DEF Saving!HiddenNumber
    <3>3. nextId \in Nat
      BY DEF SaveInv, SaveTypeOK
    <3>. QED  BY <3>1, <3>2, <3>3
  <2>3. new \in SavedWorkspaces /\ new.id = nextId + 1 /\ new.number = n
    BY <1>4, <2>2 DEF SavedWorkspaces
  <2>4. \A w \in saved : w.id \in 1..nextId /\ w.number # n
    BY DEF SaveInv, CatalogIsSound
  <2>5. saved' = saved \union {new}
    BY <1>4
  <2>. HIDE DEF new
  <2>6. CatalogIsSound'
    BY <1>4, <2>2, <2>3, <2>4, <2>5 DEF SaveInv, CatalogIsSound
  <2>7. SaveTypeOK'
    BY <1>1, <1>4, <2>1, <2>2, <2>3, <2>5 DEF SaveInv, SaveTypeOK
  <2>. QED  BY <1>2, <2>6, <2>7 DEF SaveInv
<1>. QED  BY <1>3, <1>4 DEF Saving!Change

LEMMA SaveBegins == SaveInv /\ Saving!SaveAndExit => SaveInv'
<1>. SUFFICES ASSUME SaveInv, Saving!SaveAndExit  PROVE SaveInv'
  OBVIOUS
<1>. DEFINE kept == {w \in saved : w.number # Saving!HiddenNumber}
<1>1. /\ process = "up" /\ process' = "open" /\ encoded' = Saving!Whole(2, kept)
      /\ UNCHANGED <<layoutFile, temporary, saved, nextId, foreign, committed>>
  BY DEF Saving!SaveAndExit, Saving!PersistedState, Saving!files
<1>2. kept \in SUBSET SavedWorkspaces /\ IsFiniteSet(kept)
  <2>1. kept \in SUBSET saved
    OBVIOUS
  <2>. QED  BY <2>1, FS_Subset DEF SaveInv, SaveTypeOK
<1>3. Saving!Accepted(kept) /\ \A w \in kept : w.number \in Numbers
  BY DEF SaveInv, SaveTypeOK, CatalogIsSound, Saving!Accepted, SavedWorkspaces
<1>4. Readable(encoded')
  <2>. HIDE DEF kept
  <2>. QED  BY <1>1, <1>2, <1>3 DEF Readable, Saving!Whole
<1>. QED  BY <1>1, <1>4 DEF SaveInv, SaveTypeOK, CatalogIsSound, SaveIsSound, FileIsSound

\* The file is written beside the one that is there, which is then replaced by it in one step.
LEMMA SaveWrites ==
  SaveInv /\ (Saving!Open \/ Saving!Write \/ Saving!Rename \/ Saving!Exit) => SaveInv'
<1>. SUFFICES ASSUME SaveInv, Saving!Open \/ Saving!Write \/ Saving!Rename \/ Saving!Exit
              PROVE  SaveInv'
  OBVIOUS
<1>1. UNCHANGED <<saved, nextId, encoded>>
  BY DEF Saving!Open, Saving!Write, Saving!Rename, Saving!Exit
<1>2. CatalogIsSound'
  BY <1>1 DEF SaveInv, CatalogIsSound
<1>3. CASE Saving!Open \/ Saving!Write
  <2>1. /\ UNCHANGED <<layoutFile, foreign, committed>>
        /\ \/ process = "open" /\ process' = "write"
           \/ process = "write" /\ process' = "rename" /\ temporary' = encoded
    BY <1>3 DEF Saving!Open, Saving!Write, Saving!Written, Saving!Target
  <2>. QED  BY <1>1, <1>2, <2>1 DEF SaveInv, SaveTypeOK, SaveIsSound, FileIsSound
<1>4. CASE Saving!Rename
  <2>1. process = "rename" /\ temporary = encoded /\ Readable(encoded)
    BY <1>4 DEF Saving!Rename, SaveInv, SaveIsSound
  <2>2. temporary # Saving!Missing
    BY <2>1 DEF Readable, Saving!Missing
  <2>3. process' = "exit" /\ layoutFile' = encoded /\ foreign' = FALSE /\ UNCHANGED committed
    BY <1>4, <2>1, <2>2 DEF Saving!Rename
  <2>. QED  BY <1>1, <1>2, <2>1, <2>3 DEF SaveInv, SaveTypeOK, SaveIsSound, FileIsSound
<1>5. CASE Saving!Exit
  <2>1. /\ process = "exit" /\ process' = "none" /\ committed' = <<encoded.workspaces>>
        /\ UNCHANGED <<layoutFile, temporary, foreign>>
    BY <1>5 DEF Saving!Exit, Saving!files
  <2>2. committed'[1] = layoutFile'.workspaces
    BY <2>1 DEF SaveInv, SaveIsSound
  <2>. QED  BY <1>1, <1>2, <2>1, <2>2 DEF SaveInv, SaveTypeOK, SaveIsSound, FileIsSound
<1>. QED  BY <1>3, <1>4, <1>5

LEMMA SaveStops == SaveInv /\ (Saving!SaveFails \/ Saving!Crash) => SaveInv'
<1>. SUFFICES ASSUME SaveInv, Saving!SaveFails \/ Saving!Crash  PROVE SaveInv'
  OBVIOUS
<1>1. process' = "none" /\ UNCHANGED <<layoutFile, temporary, saved, nextId, encoded, foreign>>
  BY DEF Saving!SaveFails, Saving!Crash, Saving!files
<1>2. committed' = IF process = "exit" THEN <<encoded.workspaces>> ELSE committed
  BY DEF Saving!SaveFails, Saving!Crash
<1>3. FileIsSound'
  <2>1. CASE process = "exit"
    <3>1. committed' = <<layoutFile.workspaces>> /\ ~foreign
      BY <1>2, <2>1 DEF SaveInv, SaveIsSound
    <3>2. committed'[1] = layoutFile.workspaces
      BY <3>1
    <3>. QED  BY <1>1, <3>1, <3>2 DEF SaveInv, FileIsSound
  <2>2. CASE process # "exit"
    BY <1>1, <1>2, <2>2 DEF SaveInv, FileIsSound
  <2>. QED  BY <2>1, <2>2
<1>. QED  BY <1>1, <1>3 DEF SaveInv, SaveTypeOK, CatalogIsSound, SaveIsSound

LEMMA SaveInit == MCInit => SaveInv
<1>. SUFFICES ASSUME MCInit  PROVE SaveInv
  OBVIOUS
<1>1. /\ layoutFile \in MCFound /\ process = "none" /\ saved = {} /\ nextId = 0 /\ foreign = TRUE
      /\ committed = <<>>
  BY DEF MCInit, Saving!Init
<1>. QED  BY <1>1, FS_EmptySet DEF SaveInv, SaveTypeOK, CatalogIsSound, SaveIsSound, FileIsSound

LEMMA SaveStep ==
  SaveInv /\ [MCNext]_<<part, vars, lineVars, barVars, saveVars, loopVars>> => SaveInv'
<1>. SUFFICES ASSUME SaveInv, [MCNext]_<<part, vars, lineVars, barVars, saveVars, loopVars>>
              PROVE  SaveInv'
  OBVIOUS
<1>1. CASE UNCHANGED saveVars
  BY <1>1 DEF saveVars, SaveInv, SaveTypeOK, CatalogIsSound, SaveIsSound, FileIsSound
<1>2. CASE Saving!Next
  BY <1>2, SaveStart, SaveChange, SaveBegins, SaveWrites, SaveStops DEF Saving!Next
<1>. QED  BY <1>1, <1>2 DEF MCNext

\* What was saved last is restored by the next start, all of it, whatever crashed or failed since, and
\* what is restored has distinct ids and numbers: for any file that is found at first, and any number
\* of lives.
THEOREM LayoutRestored == MCSpec => []LayoutIsRestored
BY SaveInit, SaveStep, SaveFollows, PTL DEF MCSpec

-----------------------------------------------------------------------------
(* The menu bar item. *)

BarSettings == [enabled : BOOLEAN, style : Styles]
BarNews == [kind : {"Update"}, update : MCUpdates] \cup [kind : {"ConfigUpdated"}, config : BarSettings]

LastIs(q, kind, k) ==
  k \in DOMAIN q /\ q[k].kind = kind /\ \A i \in DOMAIN q : i > k => q[i].kind # kind
NoneIs(q, kind) == \A i \in DOMAIN q : q[i].kind # kind

BarTypeOK ==
  /\ config \in BarSettings /\ settings \in BarSettings
  /\ rx \in Seq(BarNews)
  /\ arms \in Nat /\ ticks \in Nat /\ armed \in BOOLEAN
  /\ icon \in {"none", "there"} /\ compact \in BOOLEAN
  /\ prevWidth \in Nat /\ frame \in Nat /\ room \in Int /\ turns \in Nat

\* The last settings, and the last update, are in the channel or have come out of it.
SettingsArrive ==
  \/ \E k \in DOMAIN rx : LastIs(rx, "ConfigUpdated", k) /\ rx[k].config = config
  \/ NoneIs(rx, "ConfigUpdated") /\ settings = config

UpdatesArrive ==
  \/ \E k \in DOMAIN rx : LastIs(rx, "Update", k) /\ rx[k].update = sent
  \/ /\ NoneIs(rx, "Update")
     /\ \/ pending = <<sent>>
        \/ pending = <<>> /\ lastUpdate = <<sent>>
        \/ pending = <<>> /\ lastUpdate = <<>> /\ sent = Bar!NoUpdate

PendingIsApplied == pending # <<>> => arms > 0 \/ armed \/ ticks > 0

ItemIsDrawn ==
  /\ icon = "there" <=> settings.enabled
  /\ lastUpdate = <<>> => lastSignature = <<>>
  /\ icon = "there" /\ lastUpdate # <<>> =>
       /\ lastSignature = <<Bar!Signature(lastUpdate[1])>>
       /\ Bar!Signature(drawn.update) = Bar!Signature(lastUpdate[1])
       /\ drawn.style = settings.style

\* After one change of form, the form is the one that the room asks for, with the margin.
FormFits ==
  /\ ~compact => prevWidth = Wide /\ frame # 0
  /\ compact => prevWidth \in {0, Narrow}
  /\ frame <= Wide + Padding
  /\ turns = 0 \/ (turns = 1 /\ (compact <=> room < Wide + Margin))

BarInv == BarTypeOK /\ SettingsArrive /\ UpdatesArrive /\ PendingIsApplied /\ ItemIsDrawn /\ FormFits

LEMMA NewsAppended ==
  ASSUME NEW q \in Seq(BarNews), NEW e \in BarNews
  PROVE  /\ Append(q, e) \in Seq(BarNews)
         /\ LastIs(Append(q, e), e.kind, Len(q) + 1) /\ Append(q, e)[Len(q) + 1] = e
         /\ \A kind : kind # e.kind =>
              /\ \A k : LastIs(q, kind, k) => LastIs(Append(q, e), kind, k) /\ Append(q, e)[k] = q[k]
              /\ NoneIs(q, kind) => NoneIs(Append(q, e), kind)
<1>. DEFINE r == Append(q, e)
<1>1. /\ r \in Seq(BarNews) /\ Len(q) \in Nat /\ DOMAIN q = 1..Len(q) /\ DOMAIN r = 1..Len(q) + 1
      /\ r[Len(q) + 1] = e /\ \A i \in 1..Len(q) : r[i] = q[i]
  OBVIOUS
<1>. HIDE DEF r
<1>. QED  BY <1>1 DEF LastIs, NoneIs, r

LEMMA NewsTaken ==
  ASSUME NEW q \in Seq(BarNews), q # <<>>
  PROVE  /\ Tail(q) \in Seq(BarNews) /\ Head(q) = q[1] /\ q[1] \in BarNews /\ 1 \in DOMAIN q
         /\ \A kind, k : LastIs(q, kind, k) /\ k # 1 => LastIs(Tail(q), kind, k - 1) /\ Tail(q)[k - 1] = q[k]
         /\ \A kind : LastIs(q, kind, 1) \/ NoneIs(q, kind) => NoneIs(Tail(q), kind)
<1>. DEFINE r == Tail(q)
<1>1. /\ r \in Seq(BarNews) /\ Len(q) \in Nat \ {0} /\ DOMAIN q = 1..Len(q) /\ DOMAIN r = 1..Len(q) - 1
      /\ Head(q) = q[1] /\ q[1] \in BarNews /\ \A i \in 1..Len(q) - 1 : r[i] = q[i + 1]
  OBVIOUS
<1>. HIDE DEF r
<1>. QED  BY <1>1 DEF LastIs, NoneIs, r

\* What two updates of the same signature have in common.
LEMMA SignatureTells ==
  ASSUME NEW u, NEW v, Bar!Signature(u) = Bar!Signature(v)
  PROVE  /\ u.active = v.active /\ Bar!Range(u.order) = Bar!Range(v.order)
         /\ \A d \in Bar!Range(v.order) :
              /\ Len(u.windows[d]) = Len(v.windows[d])
              /\ Bar!Frames(u.windows[d]) = Bar!Frames(v.windows[d])
<1>. DEFINE works(x) == [d \in Bar!Range(x.order) |-> <<Len(x.windows[d]), Bar!Traces(x.windows[d])>>]
<1>1. \A x : Bar!Signature(x).active = x.active /\ Bar!Signature(x).workspaces = works(x)
  BY DEF Bar!Signature
<1>2. works(u) = works(v) /\ u.active = v.active
  <2>. HIDE DEF works
  <2>. QED  BY <1>1
<1>3. Bar!Range(u.order) = Bar!Range(v.order)
  <2>1. DOMAIN works(u) = Bar!Range(u.order) /\ DOMAIN works(v) = Bar!Range(v.order)
    OBVIOUS
  <2>. HIDE DEF works
  <2>. QED  BY <1>2, <2>1
<1>4. \A w : Bar!Frames(w) = {t.frame : t \in DOMAIN Bar!Traces(w)}
  <2>1. \A w : DOMAIN Bar!Traces(w) = {Bar!Trace(x) : x \in Bar!Range(w)}
    BY DEF Bar!Traces
  <2>2. \A x : Bar!Trace(x).frame = x.frame
    BY DEF Bar!Trace
  <2>3. ASSUME NEW w, NEW f
        PROVE  f \in Bar!Frames(w) <=> f \in {t.frame : t \in DOMAIN Bar!Traces(w)}
    <3>1. f \in Bar!Frames(w) <=> \E x \in Bar!Range(w) : f = x.frame
      BY DEF Bar!Frames
    <3>2. f \in {t.frame : t \in DOMAIN Bar!Traces(w)} <=> \E x \in Bar!Range(w) : f = Bar!Trace(x).frame
      <4>. DEFINE T == DOMAIN Bar!Traces(w)
      <4>1. f \in {t.frame : t \in T} <=> \E t \in T : f = t.frame
        OBVIOUS
      <4>2. \A t : t \in T <=> \E x \in Bar!Range(w) : t = Bar!Trace(x)
        BY <2>1
      <4>. HIDE DEF T
      <4>3. (\E t \in T : f = t.frame) <=> \E x \in Bar!Range(w) : f = Bar!Trace(x).frame
        BY <4>2
      <4>4. f \in {t.frame : t \in T} <=> \E x \in Bar!Range(w) : f = Bar!Trace(x).frame
        BY <4>1, <4>3
      <4>. QED  BY <4>4 DEF T
    <3>. QED  BY <2>2, <3>1, <3>2
  <2>4. ASSUME NEW w PROVE Bar!Frames(w) = {t.frame : t \in DOMAIN Bar!Traces(w)}
    <3>. DEFINE fs == {x.frame : x \in Bar!Range(w)}
                ts == {t.frame : t \in DOMAIN Bar!Traces(w)}
    <3>1. \A f : f \in Bar!Frames(w) <=> f \in ts
      BY <2>3
    <3>2. Bar!Frames(w) = fs
      BY DEF Bar!Frames
    <3>. HIDE DEF ts
    <3>3. fs = ts
      BY <3>1, <3>2
    <3>. QED  BY <3>2, <3>3 DEF ts
  <2>. QED  BY <2>4
<1>5. ASSUME NEW d \in Bar!Range(v.order)
      PROVE  /\ Len(u.windows[d]) = Len(v.windows[d])
             /\ Bar!Frames(u.windows[d]) = Bar!Frames(v.windows[d])
  <2>1. /\ works(u)[d] = <<Len(u.windows[d]), Bar!Traces(u.windows[d])>>
        /\ works(v)[d] = <<Len(v.windows[d]), Bar!Traces(v.windows[d])>>
    BY <1>3
  <2>2. works(u)[d] = works(v)[d]
    <3>. HIDE DEF works
    <3>. QED  BY <1>2
  <2>. HIDE DEF works
  <2>3. Len(u.windows[d]) = Len(v.windows[d]) /\ Bar!Traces(u.windows[d]) = Bar!Traces(v.windows[d])
    BY <2>1, <2>2
  <2>. QED  BY <1>4, <2>3
<1>. QED  BY <1>2, <1>3, <1>5

LEMMA BarFollows == BarInv => MenuIsCurrent
<1>. SUFFICES ASSUME BarInv  PROVE MenuIsCurrent
  OBVIOUS
<1>1. Bar!FormIsStable
  BY DEF BarInv, FormFits, Bar!FormIsStable
<1>2. ASSUME Bar!AtRest
      PROVE  /\ settings = config /\ (icon = "there") = config.enabled
             /\ pending = <<>>
             /\ icon = "there" /\ sent # Bar!NoUpdate =>
                  /\ drawn.style = config.style
                  /\ drawn.update.active = sent.active
                  /\ Bar!Range(drawn.update.order) = Bar!Range(sent.order)
                  /\ \A d \in Bar!Range(sent.order) :
                       /\ Len(drawn.update.windows[d]) = Len(sent.windows[d])
                       /\ Bar!Frames(drawn.update.windows[d]) = Bar!Frames(sent.windows[d])
  <2>1. DOMAIN rx = {} /\ pending = <<>>
    BY <1>2 DEF Bar!AtRest, BarInv, BarTypeOK, PendingIsApplied
  <2>2. settings = config
    BY <2>1 DEF BarInv, SettingsArrive
  <2>3. (icon = "there") = config.enabled
    <3>1. config.enabled \in BOOLEAN
      BY DEF BarInv, BarTypeOK, BarSettings
    <3>. QED  BY <2>2, <3>1 DEF BarInv, ItemIsDrawn
  <2>4. ASSUME icon = "there", sent # Bar!NoUpdate
        PROVE  drawn.style = config.style /\ Bar!Signature(drawn.update) = Bar!Signature(sent)
    <3>1. lastUpdate = <<sent>>
      BY <2>1, <2>4 DEF BarInv, UpdatesArrive
    <3>2. lastUpdate # <<>> /\ lastUpdate[1] = sent
      BY <3>1
    <3>. QED  BY <2>2, <2>4, <3>2 DEF BarInv, ItemIsDrawn
  <2>5. ASSUME Bar!Signature(drawn.update) = Bar!Signature(sent)
        PROVE  /\ drawn.update.active = sent.active
               /\ Bar!Range(drawn.update.order) = Bar!Range(sent.order)
               /\ \A d \in Bar!Range(sent.order) :
                    /\ Len(drawn.update.windows[d]) = Len(sent.windows[d])
                    /\ Bar!Frames(drawn.update.windows[d]) = Bar!Frames(sent.windows[d])
    BY <2>5, SignatureTells
  <2>. QED  BY <2>1, <2>2, <2>3, <2>4, <2>5
<1>. QED  BY <1>1, <1>2 DEF MenuIsCurrent, Bar!MenuIsCurrent

LEMMA BarSends == BarInv /\ (Bar!MaybeSendMenuUpdate \/ Bar!Reconfigure) => BarInv'
<1>. SUFFICES ASSUME BarInv, Bar!MaybeSendMenuUpdate \/ Bar!Reconfigure  PROVE BarInv'
  OBVIOUS
<1>1. UNCHANGED <<arms, armed, ticks, pending, settings, lastUpdate, lastSignature, icon, drawn, compact,
                  prevWidth, frame, room, turns>>
  BY DEF Bar!MaybeSendMenuUpdate, Bar!Reconfigure, Bar!actor, Bar!item, Bar!world
<1>2. PendingIsApplied' /\ ItemIsDrawn' /\ FormFits'
  BY <1>1 DEF BarInv, PendingIsApplied, ItemIsDrawn, FormFits
<1>3. CASE Bar!MaybeSendMenuUpdate
  <2>1. /\ sent' \in MCUpdates /\ rx' = Append(rx, [kind |-> "Update", update |-> sent'])
        /\ UNCHANGED config
    BY <1>3 DEF Bar!MaybeSendMenuUpdate
  <2>2. PICK e \in BarNews : e = [kind |-> "Update", update |-> sent']
    BY <2>1 DEF BarNews
  <2>3. rx' = Append(rx, e) /\ e.kind = "Update" /\ e.update = sent' /\ rx \in Seq(BarNews)
    BY <2>1, <2>2 DEF BarInv, BarTypeOK
  <2>4. UpdatesArrive'
    BY <2>3, NewsAppended DEF UpdatesArrive, LastIs
  <2>5. SettingsArrive'
    BY <1>1, <2>1, <2>3, NewsAppended, SMTT(30) DEF BarInv, SettingsArrive, LastIs, NoneIs
  <2>6. rx' \in Seq(BarNews)
    BY <2>3, NewsAppended
  <2>. QED  BY <1>1, <1>2, <2>1, <2>4, <2>5, <2>6 DEF BarInv, BarTypeOK
<1>4. CASE Bar!Reconfigure
  <2>1. /\ config' \in BarSettings /\ rx' = Append(rx, [kind |-> "ConfigUpdated", config |-> config'])
        /\ UNCHANGED sent
    BY <1>4 DEF Bar!Reconfigure, BarSettings
  <2>2. PICK e \in BarNews : e = [kind |-> "ConfigUpdated", config |-> config']
    BY <2>1 DEF BarNews
  <2>3. rx' = Append(rx, e) /\ e.kind = "ConfigUpdated" /\ e.config = config' /\ rx \in Seq(BarNews)
    BY <2>1, <2>2 DEF BarInv, BarTypeOK
  <2>4. SettingsArrive'
    BY <2>3, NewsAppended DEF SettingsArrive, LastIs
  <2>5. UpdatesArrive'
    BY <1>1, <2>1, <2>3, NewsAppended DEF BarInv, UpdatesArrive, LastIs, NoneIs
  <2>6. rx' \in Seq(BarNews)
    BY <2>3, NewsAppended
  <2>. QED  BY <1>1, <1>2, <2>1, <2>4, <2>5, <2>6 DEF BarInv, BarTypeOK
<1>. QED  BY <1>3, <1>4

\* The item does not measure itself: with the margin, the form that the room asks for stays.
LEMMA AutoFits ==
  ASSUME BarTypeOK, FormFits
  PROVE  /\ compact /\ ~Bar!AutoCompact(compact) => room >= Wide + Margin /\ frame # 0
         /\ ~compact /\ Bar!AutoCompact(compact) => room < Wide + Margin
         /\ turns = 1 => (Bar!AutoCompact(compact) <=> compact)
         /\ Bar!AutoCompact(compact) \in BOOLEAN
<1>1. /\ Wide \in Nat /\ Narrow \in Nat /\ Padding \in Nat /\ Margin \in Nat
      /\ Narrow <= Wide /\ Padding <= Margin
  BY PartsAssumption DEF Bar!MenuBarAssumption
<1>2. CASE compact
  BY <1>1, <1>2 DEF BarTypeOK, FormFits, Bar!AutoCompact, Bar!Available
<1>3. CASE ~compact
  BY <1>1, <1>3 DEF BarTypeOK, FormFits, Bar!AutoCompact, Bar!Available
<1>4. Bar!AutoCompact(compact) \in BOOLEAN
  BY DEF Bar!AutoCompact
<1>. QED  BY <1>2, <1>3, <1>4 DEF BarTypeOK

LEMMA BarRefreshes ==
  ASSUME BarTypeOK, FormFits, NEW isDirty, NEW content,
         Bar!Refresh(isDirty, content), UNCHANGED <<frame, room>>
  PROVE  /\ FormFits' /\ drawn' = content /\ icon' = icon
         /\ compact' \in BOOLEAN /\ prevWidth' \in Nat /\ turns' \in Nat
<1>0. Wide \in Nat /\ Narrow \in Nat
  BY PartsAssumption DEF Bar!MenuBarAssumption
<1>. DEFINE form == Bar!AutoCompact(compact)
<1>1. form \in BOOLEAN /\ compact \in BOOLEAN /\ turns \in Nat
  BY AutoFits DEF BarTypeOK
<1>2. /\ compact' = form /\ drawn' = content /\ icon' = icon
      /\ form # compact => prevWidth' = IF form THEN Narrow ELSE Wide
      /\ form = compact => prevWidth' = prevWidth \/ prevWidth' = IF form THEN Narrow ELSE Wide
      /\ turns' = IF form # compact THEN turns + 1 ELSE turns
  <2>. HIDE DEF form
  <2>. QED  BY DEF Bar!Refresh, form
<1>3. /\ compact /\ ~form => room >= Wide + Margin /\ frame # 0
      /\ ~compact /\ form => room < Wide + Margin
      /\ turns = 1 => (form <=> compact)
  BY AutoFits
<1>. HIDE DEF form
<1>4. FormFits'
  <2>1. CASE form = compact
    <3>1. compact' = compact /\ turns' = turns /\ (prevWidth' = prevWidth \/ prevWidth' = IF compact THEN Narrow ELSE Wide)
      BY <1>2, <2>1
    <3>. QED  BY <3>1 DEF FormFits
  <2>2. CASE form # compact /\ form
    <3>1. compact' = TRUE /\ ~compact /\ prevWidth' = Narrow /\ turns' = turns + 1
      BY <1>1, <1>2, <2>2
    <3>2. turns = 0 /\ room < Wide + Margin
      BY <1>3, <2>2, <3>1 DEF FormFits
    <3>. QED  BY <3>1, <3>2 DEF FormFits
  <2>3. CASE form # compact /\ ~form
    <3>1. compact' = FALSE /\ compact /\ prevWidth' = Wide /\ turns' = turns + 1
      BY <1>1, <1>2, <2>3
    <3>2. turns = 0 /\ room >= Wide + Margin /\ frame # 0
      BY <1>3, <2>3, <3>1 DEF FormFits
    <3>3. ~(room < Wide + Margin)
      BY <1>0, <3>2, PartsAssumption DEF Bar!MenuBarAssumption, BarTypeOK
    <3>. QED  BY <3>1, <3>2, <3>3 DEF FormFits
  <2>. QED  BY <2>1, <2>2, <2>3
<1>. QED  BY <1>0, <1>1, <1>2, <1>4 DEF BarTypeOK

\* An update takes the place of the one that waits.
LEMMA BarReceivesUpdate == BarInv /\ Bar!ReceiveUpdate => BarInv'
<1>. SUFFICES ASSUME BarInv, Bar!ReceiveUpdate  PROVE BarInv'
  OBVIOUS
<1>1. /\ rx # <<>> /\ rx \in Seq(BarNews) /\ Head(rx).kind = "Update" /\ rx' = Tail(rx)
      /\ pending' = <<Head(rx).update>> /\ arms' = arms + 1 /\ arms \in Nat
      /\ UNCHANGED <<sent, config, armed, ticks, settings, lastUpdate, lastSignature, icon, drawn, compact,
                     prevWidth, frame, room, turns>>
  BY DEF Bar!ReceiveUpdate, Bar!item, Bar!world, BarInv, BarTypeOK
<1>2. /\ rx' \in Seq(BarNews) /\ 1 \in DOMAIN rx /\ rx[1].kind = "Update" /\ pending' = <<rx[1].update>>
  BY <1>1, NewsTaken
<1>3. UpdatesArrive'
  <2>1. PICK k \in DOMAIN rx : LastIs(rx, "Update", k) /\ rx[k].update = sent
    BY <1>2 DEF BarInv, UpdatesArrive, NoneIs
  <2>2. CASE k = 1
    BY <1>1, <1>2, <2>1, <2>2, NewsTaken DEF UpdatesArrive
  <2>3. CASE k # 1
    <3>1. LastIs(rx', "Update", k - 1) /\ rx'[k - 1].update = sent
      BY <1>1, <2>1, <2>3, NewsTaken
    <3>. QED  BY <1>1, <3>1 DEF UpdatesArrive, LastIs
  <2>. QED  BY <2>2, <2>3
<1>4. SettingsArrive'
  <2>1. CASE NoneIs(rx, "ConfigUpdated") /\ settings = config
    BY <1>1, <2>1, NewsTaken DEF SettingsArrive
  <2>2. ASSUME NEW k \in DOMAIN rx, LastIs(rx, "ConfigUpdated", k), rx[k].config = config
        PROVE  SettingsArrive'
    <3>1. k # 1
      BY <1>2, <2>2 DEF LastIs
    <3>2. LastIs(rx', "ConfigUpdated", k - 1) /\ rx'[k - 1].config = config
      BY <1>1, <2>2, <3>1, NewsTaken
    <3>. QED  BY <1>1, <3>2 DEF SettingsArrive, LastIs
  <2>. QED  BY <2>1, <2>2 DEF BarInv, SettingsArrive
<1>5. PendingIsApplied' /\ ItemIsDrawn' /\ FormFits'
  BY <1>1 DEF BarInv, PendingIsApplied, ItemIsDrawn, FormFits
<1>. QED  BY <1>1, <1>2, <1>3, <1>4, <1>5 DEF BarInv, BarTypeOK

\* The settings make, remove or draw the item.
LEMMA BarReceivesConfig == BarInv /\ Bar!ReceiveConfig => BarInv'
<1>. SUFFICES ASSUME BarInv, Bar!ReceiveConfig  PROVE BarInv'
  OBVIOUS
<1>. DEFINE new == Head(rx).config
            made == new.enabled /\ icon = "none"
            again == new.enabled /\ lastUpdate # <<>>
            content == [update |-> lastUpdate[1], style |-> new.style]
<1>1. /\ rx # <<>> /\ rx \in Seq(BarNews) /\ Head(rx).kind = "ConfigUpdated" /\ rx' = Tail(rx)
      /\ UNCHANGED <<sent, config, arms, armed, ticks, pending, lastUpdate, room>>
  BY DEF Bar!ReceiveConfig, BarInv, BarTypeOK
<1>2. /\ settings' = new
      /\ lastSignature' = IF again THEN <<Bar!Signature(lastUpdate[1])>> ELSE <<>>
      /\ frame' = IF new.enabled /\ ~made THEN frame ELSE 0
      /\ ~new.enabled => icon' = "none" /\ compact' = TRUE /\ prevWidth' = 0 /\ turns' = 0
      /\ made => /\ icon' = "there" /\ compact' = TRUE /\ turns' = 0
                 /\ prevWidth' = IF again THEN Narrow ELSE 0
                 /\ again => drawn' = content
      /\ new.enabled /\ ~made /\ again => Bar!Refresh(TRUE, content)
      /\ new.enabled /\ ~made /\ ~again => UNCHANGED <<icon, drawn, compact, prevWidth, turns>>
  BY DEF Bar!ReceiveConfig, Bar!item
<1>3. /\ rx' \in Seq(BarNews) /\ 1 \in DOMAIN rx /\ rx[1].kind = "ConfigUpdated" /\ new = rx[1].config
  BY <1>1, NewsTaken
<1>4. new \in BarSettings
  BY <1>1, <1>3, NewsTaken DEF BarNews
<1>5. SettingsArrive'
  <2>1. PICK k \in DOMAIN rx : LastIs(rx, "ConfigUpdated", k) /\ rx[k].config = config
    BY <1>3 DEF BarInv, SettingsArrive, NoneIs
  <2>2. CASE k = 1
    BY <1>1, <1>2, <1>3, <2>1, <2>2, NewsTaken DEF SettingsArrive
  <2>3. CASE k # 1
    <3>1. LastIs(rx', "ConfigUpdated", k - 1) /\ rx'[k - 1].config = config
      BY <1>1, <2>1, <2>3, NewsTaken
    <3>. QED  BY <1>1, <3>1 DEF SettingsArrive, LastIs
  <2>. QED  BY <2>2, <2>3
<1>6. UpdatesArrive'
  <2>1. CASE NoneIs(rx, "Update")
    <3>1. NoneIs(rx', "Update")
      BY <1>1, <2>1, NewsTaken
    <3>2. ~\E k \in DOMAIN rx : LastIs(rx, "Update", k)
      BY <2>1 DEF LastIs, NoneIs
    <3>. QED  BY <1>1, <3>1, <3>2 DEF BarInv, UpdatesArrive
  <2>2. ASSUME NEW k \in DOMAIN rx, LastIs(rx, "Update", k), rx[k].update = sent
        PROVE  UpdatesArrive'
    <3>1. k # 1
      BY <1>3, <2>2 DEF LastIs
    <3>2. LastIs(rx', "Update", k - 1) /\ rx'[k - 1].update = sent
      BY <1>1, <2>2, <3>1, NewsTaken
    <3>. QED  BY <1>1, <3>2 DEF UpdatesArrive, LastIs
  <2>. QED  BY <2>1, <2>2 DEF BarInv, UpdatesArrive
<1>7. /\ ItemIsDrawn' /\ FormFits' /\ icon' \in {"none", "there"} /\ compact' \in BOOLEAN
      /\ prevWidth' \in Nat /\ frame' \in Nat /\ turns' \in Nat
  <2>0. Wide \in Nat /\ Narrow \in Nat /\ Padding \in Nat
    BY PartsAssumption DEF Bar!MenuBarAssumption
  <2>1. new.enabled \in BOOLEAN /\ icon \in {"none", "there"} /\ frame \in Nat
    BY <1>4 DEF BarSettings, BarInv, BarTypeOK
  <2>. HIDE DEF new
  <2>2. CASE ~new.enabled
    <3>1. /\ icon' = "none" /\ compact' = TRUE /\ prevWidth' = 0 /\ turns' = 0 /\ frame' = 0
          /\ ~settings'.enabled /\ lastSignature' = <<>>
      BY <1>2, <2>2
    <3>. QED  BY <2>0, <3>1 DEF ItemIsDrawn, FormFits
  <2>3. CASE made
    BY <1>1, <1>2, <2>0, <2>3 DEF ItemIsDrawn, FormFits
  <2>4. CASE new.enabled /\ ~made /\ again
    <3>1. /\ FormFits' /\ drawn' = content /\ icon' = icon
          /\ compact' \in BOOLEAN /\ prevWidth' \in Nat /\ turns' \in Nat
      <4>1. Bar!Refresh(TRUE, content) /\ UNCHANGED <<frame, room>> /\ BarTypeOK /\ FormFits
        BY <1>1, <1>2, <2>4 DEF BarInv
      <4>. HIDE DEF content
      <4>. QED  BY <4>1, BarRefreshes
    <3>2. icon' = "there" /\ frame' = frame
      BY <1>2, <2>1, <2>4, <3>1
    <3>. QED  BY <1>1, <1>2, <2>1, <2>4, <3>1, <3>2 DEF ItemIsDrawn
  <2>5. CASE new.enabled /\ ~made /\ ~again
    BY <1>1, <1>2, <2>1, <2>5 DEF BarInv, BarTypeOK, ItemIsDrawn, FormFits
  <2>. QED  BY <2>1, <2>2, <2>3, <2>4, <2>5
<1>8. PendingIsApplied'
  BY <1>1 DEF BarInv, PendingIsApplied
<1>. QED  BY <1>1, <1>2, <1>3, <1>4, <1>5, <1>6, <1>7, <1>8 DEF BarInv, BarTypeOK

\* A tick applies what waits, unless it looks the same as what was applied before.
LEMMA BarTick == BarInv /\ Bar!Tick => BarInv'
<1>. SUFFICES ASSUME BarInv, Bar!Tick  PROVE BarInv'
  OBVIOUS
<1>1. ticks > 0 /\ ticks' = ticks - 1 /\ UNCHANGED <<sent, config, rx, arms, armed, settings, frame, room>>
  BY DEF Bar!Tick, Bar!actor, Bar!world
<1>2. SettingsArrive'
  BY <1>1 DEF BarInv, SettingsArrive
<1>3. CASE pending # <<>>
  <2>1. pending' = <<>> /\ lastUpdate' = pending /\ Bar!ApplyUpdate(pending[1])
    BY <1>3 DEF Bar!Tick
  <2>2. UpdatesArrive' /\ PendingIsApplied'
    BY <1>1, <1>3, <2>1 DEF BarInv, UpdatesArrive, PendingIsApplied
  <2>3. CASE icon = "none" \/ lastSignature = <<Bar!Signature(pending[1])>>
    <3>1. UNCHANGED <<icon, drawn, compact, prevWidth, turns, lastSignature>>
      BY <2>1, <2>3 DEF Bar!ApplyUpdate, Bar!item
    <3>2. ItemIsDrawn'
      <4>1. ASSUME icon = "there"
            PROVE  Bar!Signature(drawn.update) = Bar!Signature(pending[1]) /\ drawn.style = settings.style
        <5>1. lastSignature = <<Bar!Signature(pending[1])>>
          BY <2>3, <4>1
        <5>2. lastUpdate # <<>>
          <6>1. lastSignature # <<>>
            BY <5>1
          <6>. QED  BY <6>1 DEF BarInv, ItemIsDrawn
        <5>. QED  BY <4>1, <5>1, <5>2 DEF BarInv, ItemIsDrawn
      <4>. QED  BY <1>1, <1>3, <2>1, <2>3, <3>1, <4>1 DEF BarInv, ItemIsDrawn
    <3>3. FormFits'
      BY <1>1, <3>1 DEF BarInv, FormFits
    <3>. QED  BY <1>1, <1>2, <2>2, <3>1, <3>2, <3>3 DEF BarInv, BarTypeOK
  <2>4. CASE ~(icon = "none" \/ lastSignature = <<Bar!Signature(pending[1])>>)
    <3>. DEFINE content == [update |-> pending[1], style |-> settings.style]
    <3>1. lastSignature' = <<Bar!Signature(pending[1])>> /\ Bar!Refresh(TRUE, content)
      BY <2>1, <2>4 DEF Bar!ApplyUpdate
    <3>2. /\ FormFits' /\ drawn' = content /\ icon' = icon
          /\ compact' \in BOOLEAN /\ prevWidth' \in Nat /\ turns' \in Nat
      <4>1. UNCHANGED <<frame, room>> /\ BarTypeOK /\ FormFits
        BY <1>1 DEF BarInv
      <4>. HIDE DEF content
      <4>. QED  BY <3>1, <4>1, BarRefreshes
    <3>3. ItemIsDrawn'
      <4>1. drawn'.update = pending[1] /\ drawn'.style = settings.style
        BY <3>2
      <4>. QED  BY <1>1, <1>3, <2>1, <3>1, <3>2, <4>1 DEF BarInv, ItemIsDrawn
    <3>. QED  BY <1>1, <1>2, <2>2, <3>2, <3>3 DEF BarInv, BarTypeOK
  <2>. QED  BY <2>3, <2>4
<1>4. CASE pending = <<>>
  <2>1. /\ UNCHANGED <<pending, lastUpdate, lastSignature>>
        /\ \/ Bar!Refresh(dirty, drawn)
           \/ UNCHANGED <<icon, drawn, compact, prevWidth, turns>>
    BY <1>4 DEF Bar!Tick, Bar!actor, Bar!item
  <2>2. UpdatesArrive' /\ PendingIsApplied'
    BY <1>1, <1>4, <2>1 DEF BarInv, UpdatesArrive, PendingIsApplied
  <2>3. /\ FormFits' /\ drawn' = drawn /\ icon' = icon
        /\ compact' \in BOOLEAN /\ prevWidth' \in Nat /\ turns' \in Nat
    <3>1. UNCHANGED <<frame, room>> /\ BarTypeOK /\ FormFits
      BY <1>1 DEF BarInv, BarTypeOK
    <3>2. CASE Bar!Refresh(dirty, drawn)
      BY <3>1, <3>2, BarRefreshes
    <3>3. CASE UNCHANGED <<icon, drawn, compact, prevWidth, turns>>
      BY <3>1, <3>3 DEF FormFits, BarTypeOK
    <3>. QED  BY <2>1, <3>2, <3>3
  <2>4. ItemIsDrawn'
    BY <1>1, <2>1, <2>3 DEF BarInv, ItemIsDrawn
  <2>. QED  BY <1>1, <1>2, <2>2, <2>3, <2>4 DEF BarInv, BarTypeOK
<1>. QED  BY <1>3, <1>4

LEMMA BarDebounces == BarInv /\ (Bar!Arm \/ Bar!PeriodEnds \/ Bar!SecondEnds) => BarInv'
<1>. SUFFICES ASSUME BarInv, Bar!Arm \/ Bar!PeriodEnds \/ Bar!SecondEnds  PROVE BarInv'
  OBVIOUS
<1>1. UNCHANGED <<sent, config, rx, pending, settings, lastUpdate, lastSignature, icon, drawn, compact,
                  prevWidth, dirty, frame, room, turns>>
  BY DEF Bar!Arm, Bar!PeriodEnds, Bar!SecondEnds, Bar!actor, Bar!item, Bar!world
<1>2. /\ arms' \in Nat /\ ticks' \in Nat /\ armed' \in BOOLEAN
      /\ arms > 0 \/ armed \/ ticks > 0 => arms' > 0 \/ armed' \/ ticks' > 0
  <2>1. arms \in Nat /\ ticks \in Nat /\ armed \in BOOLEAN
    BY DEF BarInv, BarTypeOK
  <2>2. CASE Bar!Arm
    BY <2>1, <2>2 DEF Bar!Arm
  <2>3. CASE Bar!PeriodEnds
    <3>1. armed' = FALSE /\ ticks' = ticks + 1 /\ arms' = arms
      BY <2>3 DEF Bar!PeriodEnds
    <3>2. armed' \in BOOLEAN
      BY <3>1
    <3>3. arms' \in Nat /\ ticks' \in Nat /\ ticks' > 0
      BY <2>1, <3>1
    <3>. QED  BY <3>2, <3>3, Zenon
  <2>4. CASE Bar!SecondEnds
    BY <2>1, <2>4 DEF Bar!SecondEnds
  <2>. QED  BY <2>2, <2>3, <2>4
<1>. QED  BY <1>1, <1>2 DEF BarInv, BarTypeOK, SettingsArrive, UpdatesArrive, PendingIsApplied,
                            ItemIsDrawn, FormFits

LEMMA BarWorld == BarInv /\ (Bar!WindowFollows \/ Bar!RoomChanges) => BarInv'
<1>. SUFFICES ASSUME BarInv, Bar!WindowFollows \/ Bar!RoomChanges  PROVE BarInv'
  OBVIOUS
<1>0. Wide \in Nat /\ Narrow \in Nat /\ Padding \in Nat /\ Narrow <= Wide /\ Rooms \subseteq Int
  BY PartsAssumption DEF Bar!MenuBarAssumption
<1>1. UNCHANGED <<sent, config, rx, arms, armed, ticks, pending, settings, lastUpdate, lastSignature, icon,
                  drawn, compact, prevWidth, dirty>>
  BY DEF Bar!WindowFollows, Bar!RoomChanges, Bar!channels, Bar!actor, Bar!item
<1>2. FormFits' /\ frame' \in Nat /\ room' \in Int /\ turns' \in Nat
  <2>1. CASE Bar!WindowFollows
    <3>1. frame' = prevWidth + Padding /\ UNCHANGED <<room, turns>>
      BY <2>1 DEF Bar!WindowFollows, Bar!item
    <3>2. prevWidth \in {0, Narrow, Wide} /\ compact \in BOOLEAN
      BY DEF BarInv, FormFits, BarTypeOK
    <3>3. ~compact => frame' # 0
      BY <1>0, <3>1 DEF BarInv, FormFits, BarTypeOK
    <3>. QED  BY <1>0, <1>1, <3>1, <3>2, <3>3 DEF BarInv, FormFits, BarTypeOK
  <2>2. CASE Bar!RoomChanges
    BY <1>0, <1>1, <2>2 DEF Bar!RoomChanges, BarInv, FormFits, BarTypeOK
  <2>. QED  BY <2>1, <2>2
<1>. QED  BY <1>1, <1>2 DEF BarInv, BarTypeOK, SettingsArrive, UpdatesArrive, PendingIsApplied, ItemIsDrawn

LEMMA BarInit == MCInit => BarInv
<1>. SUFFICES ASSUME MCInit  PROVE BarInv
  OBVIOUS
<1>1. Bar!Init
  BY DEF MCInit
<1>2. Rooms \subseteq Int /\ Wide \in Nat /\ Padding \in Nat
  BY PartsAssumption DEF Bar!MenuBarAssumption
<1>3. /\ config \in BarSettings /\ settings = config /\ rx = <<>> /\ arms = 0 /\ ticks = 0 /\ armed = FALSE
      /\ icon = (IF config.enabled THEN "there" ELSE "none")
      /\ pending = <<>> /\ lastUpdate = <<>> /\ sent = Bar!NoUpdate /\ compact = TRUE /\ prevWidth = 0
      /\ lastSignature = <<>>
      /\ dirty = TRUE /\ frame = 0 /\ room \in Rooms /\ turns = 0
  BY <1>1 DEF Bar!Init, BarSettings
<1>4. DOMAIN rx = {} /\ rx \in Seq(BarNews)
  BY <1>3
<1>5. SettingsArrive /\ UpdatesArrive /\ PendingIsApplied
  BY <1>3, <1>4 DEF SettingsArrive, UpdatesArrive, PendingIsApplied, NoneIs
<1>6. config.enabled \in BOOLEAN
  BY <1>3 DEF BarSettings
<1>7. ItemIsDrawn /\ FormFits
  BY <1>2, <1>3, <1>6 DEF ItemIsDrawn, FormFits
<1>. QED  BY <1>2, <1>3, <1>4, <1>5, <1>7 DEF BarInv, BarTypeOK

LEMMA BarStep ==
  BarInv /\ [MCNext]_<<part, vars, lineVars, barVars, saveVars, loopVars>> => BarInv'
<1>. SUFFICES ASSUME BarInv, [MCNext]_<<part, vars, lineVars, barVars, saveVars, loopVars>>
              PROVE  BarInv'
  OBVIOUS
<1>1. CASE UNCHANGED barVars
  <2>1. UNCHANGED <<sent, config, rx, pending, arms, armed, ticks, settings, lastUpdate, lastSignature,
                    icon, drawn, compact, prevWidth, dirty, frame, room, turns>>
    BY <1>1 DEF barVars
  <2>. QED  BY <2>1 DEF BarInv, BarTypeOK, SettingsArrive, UpdatesArrive, PendingIsApplied, ItemIsDrawn, FormFits
<1>2. CASE Bar!Next
  BY <1>2, BarSends, BarReceivesUpdate, BarReceivesConfig, BarTick, BarDebounces, BarWorld DEF Bar!Next
<1>. QED  BY <1>1, <1>2 DEF MCNext

\* The menu bar item that is there is drawn with the last settings and shows, of what the reactor sent
\* last, the displays, the active one, and how many windows each workspace has and where; not the
\* order of the other displays, nor whose windows with the same numbers and frames they are.  It
\* changes its form at most once while its room stays the same: for any widths with a margin that
\* covers what the system adds, and any order of updates, settings and ticks.
THEOREM MenuCurrent == MCSpec => []MenuIsCurrent
BY BarInit, BarStep, BarFollows, PTL DEF MCSpec

-----------------------------------------------------------------------------
(* The lines that mark stacked windows. *)

\* A snapshot of what may be shown.
Seen(S) == /\ DOMAIN S \subseteq Lines!Range(Order) /\ \A s \in DOMAIN S : S[s] \in Sights[s]

Distinct(groups) == \A g, h \in groups : g.id = h.id => g = h

\* An indicator has the fields of one.
Whole(x) ==
  /\ x = [space |-> x.space, frame |-> x.frame, windows |-> x.windows, selected |-> x.selected,
          visible |-> x.visible]
  /\ x.visible \in BOOLEAN

\* The indicator x shows the group g of the space s: in its place, unless the frame was
\* refused, and of the size n, unless it was drawn before that was set.
Draws(x, s, g, refused, old, n) ==
  /\ x.windows = g.windows /\ x.selected = g.selected
  /\ <<s, g.id>> \notin refused =>
       x.frame.place = g.place /\ (s \notin old => x.frame.size = n)

\* The indicator x has the id i and shows one of the groups of a space.
IsLine(x, i, s, groups, refused, old, n) ==
  /\ Whole(x) /\ x.space = s
  /\ \E g \in groups : g.id = i /\ Draws(x, s, g, refused, old, n)

\* A line is drawn unless its display has a window in fullscreen.
Fits(x, picture) == x.visible = ~picture.full

\* While the displays of a snapshot S are gone through, those in done were drawn.
Turned(d, done, S, n) ==
  /\ done \subseteq DOMAIN d.sigs /\ DOMAIN d.sigs \subseteq DOMAIN S
  /\ \A s \in done : d.sigs[s] = S[s].groups
  /\ \A i \in DOMAIN d.indicators : \E s \in DOMAIN d.sigs :
       /\ IsLine(d.indicators[i], i, s, d.sigs[s], d.owed, d.aged, n)
       /\ s \in done => Fits(d.indicators[i], S[s])
  /\ \A t \in DOMAIN d.sigs : Distinct(d.sigs[t]) /\ \A g \in d.sigs[t] :
       <<t, g.id>> \in d.owed
       \/ (g.id \in DOMAIN d.indicators /\ d.indicators[g.id].space \in {t} \cup done)

\* Between two snapshots each line shows a group of the last picture that was drawn of its
\* space, and each of these groups has its line, unless the frame was refused.
Marked(d, n) ==
  /\ \A i \in DOMAIN d.indicators : \E s \in DOMAIN d.sigs :
       IsLine(d.indicators[i], i, s, d.sigs[s], d.owed, d.aged, n)
  /\ \A t \in DOMAIN d.sigs : Distinct(d.sigs[t]) /\ \A g \in d.sigs[t] :
       <<t, g.id>> \in d.owed \/ (g.id \in DOMAIN d.indicators /\ d.indicators[g.id].space = t)

\* The lines are those of the snapshot S.
LinedUp(d, S, n) ==
  /\ \A i \in DOMAIN d.indicators : \E s \in DOMAIN S :
       IsLine(d.indicators[i], i, s, S[s].groups, d.owed, d.aged, n) /\ Fits(d.indicators[i], S[s])
  /\ \A s \in DOMAIN S : \A g \in S[s].groups :
       <<s, g.id>> \in d.owed \/ (g.id \in DOMAIN d.indicators /\ d.indicators[g.id].space = s)

LineSettings == [enabled : BOOLEAN, size : Sizes]

\* The letters in the channel.
IsNews(q) == \E T : q \in Seq(T)

Click(j) == letters[j].kind = "MouseDown"

LettersAreSound == IsNews(letters) /\ \A j \in 1..Len(letters) :
  /\ letters[j].kind \in {"SnapshotUpdated", "ConfigUpdated", "MouseDown"}
  /\ letters[j].kind = "SnapshotUpdated" => Seen(letters[j].shown)
  /\ letters[j].kind = "ConfigUpdated" => letters[j].setting \in LineSettings

\* The last settings are in the channel or have come out of it.
SettingIsTold ==
  \/ \E k \in 1..Len(letters) :
       /\ letters[k].kind = "ConfigUpdated" /\ letters[k].setting = setting
       /\ \A j \in 1..Len(letters) : j > k => letters[j].kind # "ConfigUpdated"
  \/ /\ \A j \in 1..Len(letters) : letters[j].kind # "ConfigUpdated"
     /\ setting.enabled = on /\ setting.size = size

\* What is shown will be published, or is behind the last change of the settings, or on the
\* screen.
PicturesArrive ==
  \/ due
  \/ \E k \in 1..Len(letters) :
       /\ letters[k].kind = "SnapshotUpdated" /\ letters[k].shown = pictures
       /\ \A j \in 1..Len(letters) : j > k => Click(j)
  \/ (\A j \in 1..Len(letters) : Click(j)) /\ (~collided => LinedUp(Lines!Display, pictures, size))

\* A click with nothing new before it has seen what is still on the screen.
ClicksAreTrue == \A j \in 1..Len(letters) :
  Click(j) /\ ~letters[j].news =>
    /\ on /\ letters[j].seen = Lines!Under(letters[j].place, letters[j].segment)
    /\ \A k \in 1..Len(letters) : k < j => Click(k)

LinesInv ==
  /\ Seen(pictures) /\ setting \in LineSettings /\ on \in BOOLEAN /\ due \in BOOLEAN
  /\ collided \in BOOLEAN
  /\ LettersAreSound /\ SettingIsTold /\ PicturesArrive /\ ClicksAreTrue
  /\ ~collided => Marked(Lines!Display, size)
  /\ rects = Lines!HitRects(on, indicators) /\ ~lost

\* A set of numbers has a least one: the intervals below them are well founded.
LEMMA LeastNumber ==
  ASSUME NEW T, T \subseteq Nat, T # {}
  PROVE  \E m \in T : \A n \in T : m <= n
<1> DEFINE F == {0..n : n \in T}
<1>1. F \subseteq FiniteSubsetsOf(Nat)
  <2>1. \A n \in T : 0..n \subseteq Nat /\ IsFiniteSet(0..n)
    BY FS_Interval
  <2> QED BY <2>1 DEF FiniteSubsetsOf
<1>2. F # {}
  OBVIOUS
<1>3. \E x \in F : \A y \in F : ~(<<y, x>> \in StrictSubsetOrdering(Nat))
  <2>1. IsWellFoundedOn(StrictSubsetOrdering(Nat), FiniteSubsetsOf(Nat))
    BY FS_StrictSubsetOrderingWellFounded
  <2> HIDE DEF F
  <2> QED BY <1>1, <1>2, <2>1, WFMin
<1>4. PICK m \in T : \A n \in T : ~(<<0..n, 0..m>> \in StrictSubsetOrdering(Nat))
  BY <1>3
<1>5. ASSUME NEW n \in T PROVE m <= n
  <2>1. SUFFICES ASSUME n < m PROVE FALSE
    OBVIOUS
  <2>2. 0..n \subseteq 0..m /\ 0..n # 0..m /\ 0..n \in SUBSET Nat /\ 0..m \in SUBSET Nat
    BY <2>1, SMT
  <2> QED BY <1>4, <2>2 DEF StrictSubsetOrdering
<1> QED BY <1>5

\* A set with 0, and with the successor of each number in it, has every number.
LEMMA SetInduction ==
  ASSUME NEW T, 0 \in T, \A n \in Nat : n \in T => n + 1 \in T
  PROVE  Nat \subseteq T
<1>1. SUFFICES ASSUME Nat \ T # {} PROVE FALSE
  OBVIOUS
<1>2. PICK m \in Nat \ T : \A n \in Nat \ T : m <= n
  BY <1>1, LeastNumber
<1>3. m # 0 /\ m - 1 \in Nat /\ m - 1 \in T
  BY <1>2, SMT
<1> QED BY <1>2, <1>3, SMT

\* A line that is shown or hidden stays the line that it is.
LEMMA Marking ==
  ASSUME NEW x, Whole(x), NEW b \in BOOLEAN
  PROVE  LET y == [x EXCEPT !.visible = b]
         IN /\ Whole(y) /\ y.visible = b
            /\ y.space = x.space /\ y.frame = x.frame /\ y.windows = x.windows /\ y.selected = x.selected
<1> DEFINE a == x.space
           f == x.frame
           w == x.windows
           c == x.selected
           u == x.visible
           r == [space |-> a, frame |-> f, windows |-> w, selected |-> c, visible |-> u]
           q == [space |-> a, frame |-> f, windows |-> w, selected |-> c, visible |-> b]
<1>1. x = r
  BY DEF Whole
<1>2. [r EXCEPT !.visible = b] = q
  OBVIOUS
<1>3. [x EXCEPT !.visible = b] = q
  <2> HIDE DEF r, q
  <2> QED BY <1>1, <1>2
<1>4. q.space = a /\ q.frame = f /\ q.windows = w /\ q.selected = c /\ q.visible = b
  OBVIOUS
<1>5. Whole(q)
  BY <1>4 DEF Whole
<1> HIDE DEF q
<1> QED BY <1>3, <1>4, <1>5

LEMMA LineStays ==
  ASSUME NEW x, NEW i, NEW s, NEW groups, NEW refused, NEW old, NEW n, NEW b \in BOOLEAN,
         IsLine(x, i, s, groups, refused, old, n)
  PROVE  LET y == [x EXCEPT !.visible = b]
         IN IsLine(y, i, s, groups, refused, old, n) /\ y.visible = b /\ y.space = s
<1> DEFINE y == [x EXCEPT !.visible = b]
<1>1. /\ Whole(y) /\ y.visible = b
      /\ y.space = x.space /\ y.frame = x.frame /\ y.windows = x.windows /\ y.selected = x.selected
  BY Marking DEF IsLine
<1> HIDE DEF y
<1>2. IsLine(y, i, s, groups, refused, old, n)
  BY <1>1 DEF IsLine, Draws
<1>3. y.space = s
  BY <1>1 DEF IsLine
<1> QED BY <1>1, <1>2, <1>3 DEF y

\* The parts of a display.
LEMMA Parts ==
  ASSUME NEW a, NEW b, NEW c, NEW e
  PROVE  LET d == [indicators |-> a, sigs |-> b, owed |-> c, aged |-> e]
         IN d.indicators = a /\ d.sigs = b /\ d.owed = c /\ d.aged = e
OBVIOUS

\* The lines of displays that are gone are left out.
LEMMA Keeps ==
  ASSUME NEW d, NEW S, NEW n, Marked(d, n)
  PROVE  Turned(Lines!Kept(d, DOMAIN S), {}, S, n)
<1> DEFINE out == {i \in DOMAIN d.indicators : d.indicators[i].space \notin DOMAIN S}
           inds == Lines!Without(d.indicators, out)
           sgs == Lines!Without(d.sigs, DOMAIN d.sigs \ DOMAIN S)
           ow == {p \in d.owed : p[1] \in DOMAIN S}
           ag == d.aged \cap DOMAIN S
           e == [indicators |-> inds, sigs |-> sgs, owed |-> ow, aged |-> ag]
<1>1. Lines!Kept(d, DOMAIN S) = e
  BY DEF Lines!Kept
<1>2. /\ DOMAIN inds = {i \in DOMAIN d.indicators : d.indicators[i].space \in DOMAIN S}
      /\ \A i \in DOMAIN inds : inds[i] = d.indicators[i]
  BY DEF Lines!Without
<1>3. DOMAIN sgs = DOMAIN d.sigs \cap DOMAIN S /\ \A t \in DOMAIN sgs : sgs[t] = d.sigs[t]
  BY DEF Lines!Without
<1>4. \A s \in DOMAIN S : (s \in ag <=> s \in d.aged) /\ \A i : <<s, i>> \in ow <=> <<s, i>> \in d.owed
  OBVIOUS
<1>5. e.indicators = inds /\ e.sigs = sgs /\ e.owed = ow /\ e.aged = ag
  BY Parts
<1> HIDE DEF inds, sgs, ow, ag, e
<1>6. \A i \in DOMAIN inds : \E s \in DOMAIN sgs : IsLine(inds[i], i, s, sgs[s], ow, ag, n)
  <2>1. ASSUME NEW i \in DOMAIN inds PROVE \E s \in DOMAIN sgs : IsLine(inds[i], i, s, sgs[s], ow, ag, n)
    <3>1. i \in DOMAIN d.indicators /\ d.indicators[i].space \in DOMAIN S /\ inds[i] = d.indicators[i]
      BY <1>2
    <3>2. PICK s \in DOMAIN d.sigs : IsLine(d.indicators[i], i, s, d.sigs[s], d.owed, d.aged, n)
      BY <3>1 DEF Marked
    <3>3. s \in DOMAIN S /\ s \in DOMAIN sgs /\ sgs[s] = d.sigs[s]
      BY <1>3, <3>1, <3>2 DEF IsLine
    <3>4. IsLine(inds[i], i, s, sgs[s], ow, ag, n)
      BY <1>4, <3>1, <3>2, <3>3 DEF IsLine, Draws
    <3> QED BY <3>3, <3>4
  <2> QED BY <2>1
<1>7. \A t \in DOMAIN sgs : Distinct(sgs[t]) /\ \A g \in sgs[t] :
        <<t, g.id>> \in ow \/ (g.id \in DOMAIN inds /\ inds[g.id].space \in {t} \cup {})
  BY <1>2, <1>3, <1>4 DEF Marked
<1> QED BY <1>1, <1>3, <1>5, <1>6, <1>7 DEF Turned

Ids(groups) == {g.id : g \in groups}
OfSpace(refused, s) == {p \in refused : p[1] = s}

\* A group has its line among the lines that were drawn of a space, or was refused one.
IsDrawn(lines, d, s, groups, refused, i) ==
  /\ i \in DOMAIN lines => i \in Ids(groups)
  /\ i \in Ids(groups) /\ i \notin DOMAIN lines => <<s, i>> \in refused /\ i \notin DOMAIN d.indicators
  /\ i \in DOMAIN lines => /\ lines[i].space = s
                         /\ IsLine(lines[i], i, s, groups, OfSpace(refused, s), {}, size)

\* The lines that are drawn of the groups of a space: a refused one that has no window is
\* left out, and one that has keeps its frame.
LEMMA DrawsLines ==
  ASSUME NEW d, NEW s, NEW groups, NEW refused, NEW i
  PROVE  IsDrawn(Lines!Drawn(d, s, groups, refused), d, s, groups, refused, i)
<1> DEFINE lines == Lines!Drawn(d, s, groups, refused)
           ids == {g.id : g \in groups}
           r == {p \in refused : p[1] = s}
<1>1. /\ DOMAIN lines = ids \ {j \in ids : <<s, j>> \in refused /\ j \notin DOMAIN d.indicators}
      /\ i \in DOMAIN lines =>
           lines[i] = LET line == Lines!Indicator(s, CHOOSE g \in groups : g.id = i)
                      IN IF <<s, i>> \in refused
                         THEN [line EXCEPT !.frame = d.indicators[i].frame] ELSE line
  BY DEF Lines!Drawn
<1>2. ASSUME i \in DOMAIN lines
      PROVE  lines[i].space = s /\ IsLine(lines[i], i, s, groups, r, {}, size)
  <2> DEFINE g == CHOOSE h \in groups : h.id = i
             f == IF <<s, i>> \in refused THEN d.indicators[i].frame ELSE [place |-> g.place, size |-> size]
             q == [space |-> s, frame |-> f, windows |-> g.windows, selected |-> g.selected, visible |-> TRUE]
  <2>1. g \in groups /\ g.id = i
    BY <1>1, <1>2
  <2>2. lines[i] = q
    <3> HIDE DEF lines, g
    <3> QED BY <1>1, <1>2 DEF Lines!Indicator, g
  <2>3. /\ q.space = s /\ q.frame = f /\ q.windows = g.windows /\ q.selected = g.selected
        /\ q.visible = TRUE
    <3> HIDE DEF f, g
    <3> QED OBVIOUS
  <2>4. <<s, i>> \notin r => f.place = g.place /\ f.size = size
    <3>1. <<s, i>> \in refused => <<s, i>> \in r
      OBVIOUS
    <3>2. <<s, i>> \notin refused => f = [place |-> g.place, size |-> size]
      OBVIOUS
    <3> HIDE DEF f, g, r
    <3> QED BY <3>1, <3>2
  <2> HIDE DEF lines, q, f, g, r
  <2>5. Whole(q)
    BY <2>3 DEF q, Whole
  <2>6. IsLine(q, i, s, groups, r, {}, size)
    BY <2>1, <2>3, <2>4, <2>5 DEF IsLine, Draws
  <2> QED BY <2>2, <2>3, <2>6
<1> HIDE DEF lines
<1>3. i \in DOMAIN lines => i \in ids
  BY <1>1
<1>4. i \in ids /\ i \notin DOMAIN lines => <<s, i>> \in refused /\ i \notin DOMAIN d.indicators
  BY <1>1
<1>5. ids = Ids(groups) /\ r = OfSpace(refused, s)
  BY DEF Ids, OfSpace
<1> HIDE DEF ids, r
<1>6. IsDrawn(lines, d, s, groups, refused, i)
  BY <1>2, <1>3, <1>4, <1>5 DEF IsDrawn
<1> QED BY <1>6 DEF lines

\* handle_groups_updated: the lines of one display more are those of the snapshot.
LEMMA DrawsDisplay ==
  ASSUME NEW d, NEW done, NEW S, Seen(S), Turned(d, done, S, size), NEW s \in DOMAIN S, NEW refused
  PROVE  Turned(Lines!HandleGroupsUpdated(d, s, S[s], refused), done \cup {s}, S, size)
<1> DEFINE p == S[s]
           known == s \in DOMAIN d.sigs /\ d.sigs[s] = p.groups
           ids == {g.id : g \in p.groups}
           gone == {i \in DOMAIN d.indicators : d.indicators[i].space = s} \ ids
           lines == Lines!Drawn(d, s, p.groups, refused)
           nxt == IF known THEN d.indicators ELSE Lines!With(Lines!Without(d.indicators, gone), lines)
           inds == [i \in DOMAIN nxt |-> IF nxt[i].space = s THEN [nxt[i] EXCEPT !.visible = ~p.full] ELSE nxt[i]]
           sg == Lines!With(d.sigs, [t \in {s} |-> p.groups])
           mine == {q \in refused : q[1] = s}
           ow == IF known THEN d.owed ELSE {q \in d.owed : q[1] # s} \cup mine
           ag == IF known THEN d.aged ELSE d.aged \ {s}
           to == done \cup {s}
           e == [indicators |-> inds, sigs |-> sg, owed |-> ow, aged |-> ag]
<1>1. Lines!HandleGroupsUpdated(d, s, S[s], refused) = e
  BY DEF Lines!HandleGroupsUpdated
<1>2. /\ DOMAIN sg = DOMAIN d.sigs \cup {s} /\ sg[s] = p.groups
      /\ \A t \in DOMAIN d.sigs : t # s => sg[t] = d.sigs[t]
  BY DEF Lines!With
<1>3. p.full \in BOOLEAN /\ (~p.full) \in BOOLEAN /\ Distinct(p.groups)
  <2>1. s \in Lines!Range(Order) /\ p \in Sights[s]
    BY DEF Seen
  <2> QED BY <2>1, PartsAssumption DEF Lines!LinesAssumption, Distinct
<1>4. \A t \in done : t \in DOMAIN d.sigs /\ d.sigs[t] = S[t].groups
  BY DEF Turned
<1>5. to \subseteq DOMAIN sg /\ DOMAIN sg \subseteq DOMAIN S /\ \A t \in to : sg[t] = S[t].groups
  <2>1. done \subseteq DOMAIN d.sigs /\ DOMAIN d.sigs \subseteq DOMAIN S
    BY DEF Turned
  <2> HIDE DEF sg
  <2> QED BY <1>2, <1>4, <2>1
<1>6. \A i : /\ i \in DOMAIN lines => i \in ids /\ lines[i].space = s
             /\ i \in ids /\ i \notin DOMAIN lines => <<s, i>> \in mine /\ i \notin DOMAIN d.indicators
             /\ i \in DOMAIN lines => IsLine(lines[i], i, s, p.groups, mine, {}, size)
  <2>1. ASSUME NEW i
        PROVE  /\ i \in DOMAIN lines => i \in ids /\ lines[i].space = s
               /\ i \in ids /\ i \notin DOMAIN lines => <<s, i>> \in mine /\ i \notin DOMAIN d.indicators
               /\ i \in DOMAIN lines => IsLine(lines[i], i, s, p.groups, mine, {}, size)
    <3>1. <<s, i>> \in refused => <<s, i>> \in mine
      OBVIOUS
    <3>0. IsDrawn(lines, d, s, p.groups, refused, i)
      BY DrawsLines
    <3> DEFINE G == p.groups
    <3>2. ids = Ids(G) /\ mine = OfSpace(refused, s)
      BY DEF Ids, OfSpace
    <3> HIDE DEF lines
    <3>4. IsDrawn(lines, d, s, G, refused, i)
      BY <3>0
    <3> HIDE DEF p, G, ids, mine
    <3>3. /\ i \in DOMAIN lines => i \in ids
          /\ i \in ids /\ i \notin DOMAIN lines => <<s, i>> \in refused /\ i \notin DOMAIN d.indicators
          /\ i \in DOMAIN lines => lines[i].space = s /\ IsLine(lines[i], i, s, G, mine, {}, size)
      BY <3>2, <3>4 DEF IsDrawn
    <3> QED BY <3>1, <3>3 DEF G
  <2> QED BY <2>1
\* What the window server refused for other displays stays as it is.
<1>7. /\ known => ow = d.owed /\ ag = d.aged
      /\ \A t, i : t # s => (<<t, i>> \in ow <=> <<t, i>> \in d.owed)
      /\ \A t : t # s => (t \in ag <=> t \in d.aged)
      /\ ~known => s \notin ag /\ \A i : <<s, i>> \in ow <=> <<s, i>> \in mine
  <2> HIDE DEF known
  <2> QED OBVIOUS
<1>8. ~known => /\ DOMAIN nxt = (DOMAIN d.indicators \ gone) \cup DOMAIN lines
                /\ \A i \in DOMAIN lines : nxt[i] = lines[i]
                /\ \A i \in DOMAIN d.indicators : i \notin gone /\ i \notin DOMAIN lines => nxt[i] = d.indicators[i]
  <2> HIDE DEF known, lines, gone
  <2> QED BY DEF Lines!With, Lines!Without
<1>9. known => nxt = d.indicators
  OBVIOUS
<1>10. /\ DOMAIN inds = DOMAIN nxt
       /\ \A i \in DOMAIN nxt : /\ nxt[i].space = s => inds[i] = [nxt[i] EXCEPT !.visible = ~p.full]
                                /\ nxt[i].space # s => inds[i] = nxt[i]
  <2> HIDE DEF nxt, p
  <2> QED OBVIOUS
<1>11. e.indicators = inds /\ e.sigs = sg /\ e.owed = ow /\ e.aged = ag
  <2> HIDE DEF inds, sg, ow, ag
  <2> QED BY Parts
<1>12. \A i \in gone : i \in DOMAIN d.indicators /\ d.indicators[i].space = s /\ i \notin ids
  OBVIOUS
<1>13. \A i \in DOMAIN d.indicators : d.indicators[i].space = s /\ i \notin ids => i \in gone
  OBVIOUS
<1>14. known => s \in DOMAIN d.sigs /\ d.sigs[s] = p.groups
  OBVIOUS
<1>15. ~known => s \notin done
  BY <1>4
<1>16. \A g \in p.groups : g.id \in ids
  OBVIOUS
<1>17. to = done \cup {s} /\ p = S[s]
  OBVIOUS
<1> HIDE DEF known, ids, gone, lines, nxt, inds, sg, mine, ow, ag, to, e, p
\* Of what was drawn for another display, what was not drawn over for this one remains.
<1>18. ASSUME NEW i \in DOMAIN nxt, nxt[i].space # s
       PROVE  i \in DOMAIN d.indicators /\ nxt[i] = d.indicators[i]
  BY <1>6, <1>8, <1>9, <1>18
\* What is drawn for this display are its groups.
<1>19. ASSUME NEW i \in DOMAIN nxt, nxt[i].space = s
       PROVE  IsLine(nxt[i], i, s, p.groups, ow, ag, size)
  <2>1. CASE known
    <3>1. i \in DOMAIN d.indicators /\ nxt[i] = d.indicators[i]
      BY <1>9, <2>1
    <3>2. PICK t \in DOMAIN d.sigs : IsLine(d.indicators[i], i, t, d.sigs[t], d.owed, d.aged, size)
      BY <3>1 DEF Turned
    <3>3. t = s
      BY <1>19, <3>1, <3>2 DEF IsLine
    <3> QED BY <1>7, <1>14, <2>1, <3>1, <3>2, <3>3
  <2>2. CASE ~known
    <3>1. i \in DOMAIN lines /\ nxt[i] = lines[i]
      BY <1>6, <1>8, <1>13, <1>19, <2>2
    <3>2. IsLine(nxt[i], i, s, p.groups, mine, {}, size)
      BY <1>6, <3>1
    <3> QED BY <1>7, <2>2, <3>2 DEF IsLine, Draws
  <2> QED BY <2>1, <2>2
<1>20. ASSUME NEW i \in DOMAIN inds
       PROVE  \E t \in DOMAIN sg :
                IsLine(inds[i], i, t, sg[t], ow, ag, size) /\ (t \in to => Fits(inds[i], S[t]))
  <2>0. i \in DOMAIN nxt
    BY <1>10
  <2>1. CASE nxt[i].space = s
    <3> DEFINE b == ~p.full
    <3>1. inds[i] = [nxt[i] EXCEPT !.visible = b] /\ b \in BOOLEAN
      BY <1>3, <1>10, <2>0, <2>1
    <3>2. b = ~S[s].full
      BY <1>17
    <3> HIDE DEF b
    <3>3. IsLine(inds[i], i, s, p.groups, ow, ag, size) /\ inds[i].visible = b
      BY <1>19, <2>0, <2>1, <3>1, LineStays
    <3>4. Fits(inds[i], S[s])
      BY <3>2, <3>3 DEF Fits
    <3> QED BY <1>2, <3>3, <3>4
  <2>2. CASE nxt[i].space # s
    <3>1. i \in DOMAIN d.indicators /\ inds[i] = d.indicators[i] /\ inds[i].space # s
      BY <1>10, <1>18, <2>0, <2>2
    <3>2. PICK t \in DOMAIN d.sigs : /\ IsLine(inds[i], i, t, d.sigs[t], d.owed, d.aged, size)
                                     /\ t \in done => Fits(inds[i], S[t])
      BY <3>1 DEF Turned
    <3>3. t # s
      BY <3>1, <3>2 DEF IsLine
    <3>4. IsLine(inds[i], i, t, d.sigs[t], ow, ag, size)
      BY <1>7, <3>2, <3>3 DEF IsLine, Draws
    <3>5. t \in DOMAIN sg /\ sg[t] = d.sigs[t] /\ (t \in to => t \in done)
      BY <1>2, <1>17, <3>2, <3>3
    <3> QED BY <3>2, <3>4, <3>5
  <2> QED BY <2>1, <2>2
<1>21. \A i \in DOMAIN nxt : i \in DOMAIN inds /\ inds[i].space = nxt[i].space
  <2>1. ASSUME NEW i \in DOMAIN nxt PROVE inds[i].space = nxt[i].space
    <3>1. CASE nxt[i].space = s
      <4> DEFINE b == ~p.full
      <4>1. inds[i] = [nxt[i] EXCEPT !.visible = b] /\ b \in BOOLEAN
        BY <1>3, <1>10, <3>1
      <4> HIDE DEF b
      <4> QED BY <1>19, <3>1, <4>1, LineStays
    <3>2. CASE nxt[i].space # s
      BY <1>10, <3>2
    <3> QED BY <3>1, <3>2
  <2> QED BY <1>10, <2>1
<1>22. ASSUME NEW t \in DOMAIN sg, NEW g \in sg[t]
       PROVE  <<t, g.id>> \in ow \/ (g.id \in DOMAIN inds /\ inds[g.id].space \in {t} \cup to)
  <2>1. CASE t = s /\ known
    <3>1. s \in DOMAIN d.sigs /\ g \in d.sigs[s]
      BY <1>2, <1>14, <2>1
    <3>2. <<s, g.id>> \in d.owed
          \/ (g.id \in DOMAIN d.indicators /\ d.indicators[g.id].space \in {s} \cup done)
      BY <3>1 DEF Turned
    <3> QED BY <1>7, <1>9, <1>17, <1>21, <2>1, <3>2
  <2>2. CASE t = s /\ ~known
    <3>1. g.id \in ids
      BY <1>2, <1>16, <2>2
    <3>2. CASE g.id \in DOMAIN lines
      BY <1>6, <1>8, <1>17, <1>21, <2>2, <3>2
    <3>3. CASE g.id \notin DOMAIN lines
      BY <1>6, <1>7, <2>2, <3>1, <3>3
    <3> QED BY <3>2, <3>3
  <2>3. CASE t # s
    <3>1. t \in DOMAIN d.sigs /\ g \in d.sigs[t]
      BY <1>2, <2>3
    <3>2. <<t, g.id>> \in d.owed
          \/ (g.id \in DOMAIN d.indicators /\ d.indicators[g.id].space \in {t} \cup done)
      BY <3>1 DEF Turned
    <3>3. CASE <<t, g.id>> \in d.owed
      BY <1>7, <2>3, <3>3
    <3>4. CASE g.id \in DOMAIN d.indicators /\ d.indicators[g.id].space \in {t} \cup done
      <4>1. CASE known
        BY <1>9, <1>17, <1>21, <3>4, <4>1
      <4>2. CASE ~known
        <5>1. g.id \notin gone
          BY <1>12, <1>15, <2>3, <3>4, <4>2
        <5>2. CASE g.id \in DOMAIN lines
          BY <1>6, <1>8, <1>17, <1>21, <4>2, <5>2
        <5>3. CASE g.id \notin DOMAIN lines
          BY <1>8, <1>17, <1>21, <3>4, <4>2, <5>1, <5>3
        <5> QED BY <5>2, <5>3
      <4> QED BY <4>1, <4>2
    <3> QED BY <3>2, <3>3, <3>4
  <2> QED BY <2>1, <2>2, <2>3
<1>23. \A t \in DOMAIN sg : Distinct(sg[t])
  BY <1>2, <1>3 DEF Turned
<1>24. /\ to \subseteq DOMAIN e.sigs /\ DOMAIN e.sigs \subseteq DOMAIN S
       /\ \A t \in to : e.sigs[t] = S[t].groups
  BY <1>5, <1>11
<1>25. \A i \in DOMAIN e.indicators : \E t \in DOMAIN e.sigs :
         /\ IsLine(e.indicators[i], i, t, e.sigs[t], e.owed, e.aged, size)
         /\ t \in to => Fits(e.indicators[i], S[t])
  BY <1>11, <1>20
<1>26. \A t \in DOMAIN e.sigs : Distinct(e.sigs[t]) /\ \A g \in e.sigs[t] :
         <<t, g.id>> \in e.owed
         \/ (g.id \in DOMAIN e.indicators /\ e.indicators[g.id].space \in {t} \cup to)
  BY <1>11, <1>22, <1>23
<1>27. Turned(e, to, S, size)
  BY <1>24, <1>25, <1>26 DEF Turned
<1> QED BY <1>1, <1>17, <1>27

Collides(S) ==
  \E s, t \in DOMAIN S : s # t /\
    {g.id : g \in S[s].groups} \intersect {g.id : g \in S[t].groups} # {}

\* After the turn of the last display the lines are those of the snapshot, if no two of its
\* displays have groups of the same id.
LEMMA Ends ==
  ASSUME NEW d, NEW S, NEW n, Turned(d, DOMAIN S, S, n), ~Collides(S)
  PROVE  LinedUp(d, S, n) /\ Marked(d, n)
<1>1. DOMAIN d.sigs = DOMAIN S /\ \A s \in DOMAIN S : d.sigs[s] = S[s].groups
  BY DEF Turned
<1>2. \A i \in DOMAIN d.indicators : \E s \in DOMAIN S :
        /\ IsLine(d.indicators[i], i, s, S[s].groups, d.owed, d.aged, n)
        /\ Fits(d.indicators[i], S[s])
  BY <1>1 DEF Turned
<1>3. \A s, t \in DOMAIN S : \A g \in S[s].groups, h \in S[t].groups : g.id = h.id => s = t
  BY DEF Collides
<1>4. ASSUME NEW t \in DOMAIN S, NEW g \in S[t].groups, <<t, g.id>> \notin d.owed
      PROVE  g.id \in DOMAIN d.indicators /\ d.indicators[g.id].space = t
  <2>1. g.id \in DOMAIN d.indicators
    BY <1>1, <1>4 DEF Turned
  <2>2. PICK s \in DOMAIN S : IsLine(d.indicators[g.id], g.id, s, S[s].groups, d.owed, d.aged, n)
    BY <1>2, <2>1
  <2>3. PICK h \in S[s].groups : h.id = g.id /\ d.indicators[g.id].space = s
    BY <2>2 DEF IsLine
  <2> QED BY <1>3, <2>1, <2>3
<1>5. LinedUp(d, S, n)
  BY <1>2, <1>4 DEF LinedUp
<1>6. \A t \in DOMAIN d.sigs : Distinct(d.sigs[t])
  BY DEF Turned
<1>7. Marked(d, n)
  BY <1>1, <1>2, <1>4, <1>6 DEF Marked
<1> QED BY <1>5, <1>7

\* The turn of the display with the space s.
Turn(d, s, S, refused) ==
  IF s \in DOMAIN S THEN Lines!HandleGroupsUpdated(d, s, S[s], refused) ELSE d

\* The loop over the displays is what it says, for every list of displays.
LEMMA SnapshotUnfolds ==
  ASSUME NEW S, DOMAIN S # {}, NEW refused
  PROVE  \E after :
           /\ after[0] = Lines!Kept(Lines!Display, DOMAIN S)
           /\ \A i \in 1..Len(Order) : after[i] = Turn(after[i - 1], Order[i], S, refused)
           /\ Lines!HandleSnapshotUpdated(S, refused) = after[Len(Order)]
<1> DEFINE base == Lines!Kept(Lines!Display, DOMAIN S)
           n == Len(Order)
           after == CHOOSE f : f = [i \in 0..n |-> IF i = 0 THEN base ELSE Turn(f[i - 1], Order[i], S, refused)]
<1>0. n \in Nat
  BY PartsAssumption DEF Lines!LinesAssumption
<1>1. \E f : f = [i \in 0..n |-> IF i = 0 THEN base ELSE Turn(f[i - 1], Order[i], S, refused)]
  <2> HIDE DEF base, n, after
  <2> DEFINE turn(f, i) == IF i = 0 THEN base ELSE Turn(f[i - 1], Order[i], S, refused)
             T == {m \in Nat : \E f : f = [i \in 0..m |-> turn(f, i)]}
  <2>1. 0 \in T
    <3> DEFINE f == [i \in 0..0 |-> base]
    <3>1. \A i \in 0..0 : f[i] = turn(f, i)
      OBVIOUS
    <3>2. f = [i \in 0..0 |-> turn(f, i)]
      <4>1. f = [i \in 0..0 |-> f[i]]
        OBVIOUS
      <4> HIDE DEF f, turn
      <4> QED BY <3>1, <4>1
    <3> HIDE DEF turn
    <3> QED BY <3>2
  <2>2. ASSUME NEW m \in Nat, m \in T PROVE m + 1 \in T
    <3>1. PICK f : f = [i \in 0..m |-> turn(f, i)]
      BY <2>2
    <3> DEFINE last == Turn(f[m], Order[m + 1], S, refused)
               g == [i \in 0..(m + 1) |-> IF i = m + 1 THEN last ELSE f[i]]
    <3>2. \A i \in 0..(m + 1) : g[i] = turn(g, i)
      <4>1. \A i \in 0..m : f[i] = turn(f, i) /\ g[i] = f[i]
        BY <3>1
      <4>2. g[m + 1] = turn(g, m + 1)
        <5>1. g[m + 1] = last /\ g[m] = f[m] /\ (m + 1) - 1 = m /\ m + 1 # 0
          BY <4>1
        <5> HIDE DEF g
        <5> QED BY <5>1
      <4>3. ASSUME NEW i \in 0..m PROVE g[i] = turn(g, i)
        <5>1. i # 0 => g[i - 1] = f[i - 1]
          BY <4>1
        <5>2. g[i] = f[i] /\ f[i] = turn(f, i)
          BY <4>1
        <5> HIDE DEF g
        <5> QED BY <5>1, <5>2
      <4>4. \A i \in 0..(m + 1) : i \in 0..m \/ i = m + 1
        OBVIOUS
      <4> HIDE DEF g, turn
      <4> QED BY <4>2, <4>3, <4>4
    <3>3. g = [i \in 0..(m + 1) |-> turn(g, i)]
      <4>1. g = [i \in 0..(m + 1) |-> g[i]]
        OBVIOUS
      <4> HIDE DEF g, turn
      <4> QED BY <3>2, <4>1
    <3> HIDE DEF g, turn
    <3> QED BY <3>3
  <2>3. Nat \subseteq T
    <3> HIDE DEF T
    <3> QED BY <2>1, <2>2, SetInduction
  <2>4. n \in T
    <3> HIDE DEF T
    <3> QED BY <1>0, <2>3
  <2> QED BY <2>4
<1>2. after = [i \in 0..n |-> IF i = 0 THEN base ELSE Turn(after[i - 1], Order[i], S, refused)]
  <2> HIDE DEF base, n
  <2> QED BY <1>1
<1>3. Lines!HandleSnapshotUpdated(S, refused) = after[n]
  BY DEF Lines!HandleSnapshotUpdated, Turn
<1> HIDE DEF after
<1> QED BY <1>0, <1>2, <1>3, SMTT(30)

\* By induction over the displays of the snapshot, in their order.
LEMMA SnapshotTurns ==
  ASSUME NEW S, Seen(S), DOMAIN S # {}, NEW refused, Marked(Lines!Display, size)
  PROVE  Turned(Lines!HandleSnapshotUpdated(S, refused), DOMAIN S, S, size)
<1>1. PICK after :
           /\ after[0] = Lines!Kept(Lines!Display, DOMAIN S)
           /\ \A i \in 1..Len(Order) : after[i] = Turn(after[i - 1], Order[i], S, refused)
           /\ Lines!HandleSnapshotUpdated(S, refused) = after[Len(Order)]
  BY SnapshotUnfolds
<1> DEFINE done(n) == {Order[j] : j \in 1..n} \cap DOMAIN S
           T == {n \in Nat : n <= Len(Order) => Turned(after[n], done(n), S, size)}
<1>2. Len(Order) \in Nat /\ DOMAIN Order = 1..Len(Order)
  BY PartsAssumption DEF Lines!LinesAssumption
<1>3. 0 \in T
  <2>1. done(0) = {}
    OBVIOUS
  <2> HIDE DEF done
  <2>2. Turned(after[0], done(0), S, size)
    BY <1>1, <2>1, Keeps
  <2> QED BY <2>2
<1>4. ASSUME NEW n \in Nat, n \in T PROVE n + 1 \in T
  <2> SUFFICES ASSUME n + 1 <= Len(Order) PROVE Turned(after[n + 1], done(n + 1), S, size)
    OBVIOUS
  <2>1. n + 1 \in 1..Len(Order) /\ n <= Len(Order) /\ (n + 1) - 1 = n
    BY <1>2
  <2>2. Turned(after[n], done(n), S, size)
    BY <1>4, <2>1
  <2>3. done(n + 1) = done(n) \cup ({Order[n + 1]} \cap DOMAIN S)
    <3>1. 1..(n + 1) = 1..n \cup {n + 1}
      OBVIOUS
    <3> QED BY <3>1
  <2>4. after[n + 1] = Turn(after[n], Order[n + 1], S, refused)
    BY <1>1, <2>1
  <2> HIDE DEF done, T
  <2>5. CASE Order[n + 1] \in DOMAIN S
    <3>1. done(n + 1) = done(n) \cup {Order[n + 1]}
      BY <2>3, <2>5
    <3> QED BY <2>2, <2>4, <2>5, <3>1, DrawsDisplay DEF Turn
  <2>6. CASE Order[n + 1] \notin DOMAIN S
    <3>1. done(n + 1) = done(n)
      BY <2>3, <2>6
    <3> QED BY <2>2, <2>4, <2>6, <3>1 DEF Turn
  <2> QED BY <2>5, <2>6
<1>5. Nat \subseteq T
  <2> HIDE DEF T
  <2> QED BY <1>3, <1>4, SetInduction
<1>6. Turned(after[Len(Order)], done(Len(Order)), S, size)
  <2> HIDE DEF done
  <2>1. Len(Order) \in T
    BY <1>2, <1>5
  <2> QED BY <1>2, <2>1
<1>7. done(Len(Order)) = DOMAIN S
  <2>1. \A s \in DOMAIN S : \E j \in 1..Len(Order) : Order[j] = s
    BY <1>2 DEF Seen, Lines!Range
  <2> QED BY <2>1
<1> HIDE DEF done
<1> QED BY <1>1, <1>6, <1>7

\* Without lines there is nothing to mark.
LEMMA NothingIsMarked ==
  ASSUME NEW n
  PROVE  /\ Marked(Lines!Nothing, n)
         /\ \A S : DOMAIN S = {} => LinedUp(Lines!Nothing, S, n)
<1> DEFINE e == Lines!Nothing
<1>1. e.indicators = <<>> /\ e.sigs = <<>>
  BY Parts DEF Lines!Nothing
<1>2. DOMAIN e.indicators = {} /\ DOMAIN e.sigs = {}
  <2> HIDE DEF e
  <2> QED BY <1>1
<1> HIDE DEF e
<1>3. Marked(e, n) /\ \A S : DOMAIN S = {} => LinedUp(e, S, n)
  BY <1>2 DEF Marked, LinedUp
<1> QED BY <1>3 DEF e

LEMMA SnapshotDrawn ==
  ASSUME NEW S, Seen(S), ~Collides(S), NEW refused, Marked(Lines!Display, size)
  PROVE  LET d == Lines!HandleSnapshotUpdated(S, refused)
         IN LinedUp(d, S, size) /\ Marked(d, size)
<1> DEFINE d == Lines!HandleSnapshotUpdated(S, refused)
<1>1. CASE DOMAIN S # {}
  <2>1. Turned(d, DOMAIN S, S, size)
    BY <1>1, SnapshotTurns
  <2> HIDE DEF d
  <2>2. LinedUp(d, S, size) /\ Marked(d, size)
    BY <2>1, Ends
  <2> QED BY <2>2 DEF d
<1>2. CASE DOMAIN S = {}
  <2>1. d = Lines!Nothing
    BY <1>2 DEF Lines!HandleSnapshotUpdated
  <2> HIDE DEF d
  <2>2. LinedUp(d, S, size) /\ Marked(d, size)
    BY <1>2, <2>1, NothingIsMarked
  <2> QED BY <2>2 DEF d
<1> QED BY <1>1, <1>2

LEMMA LetterAppended ==
  ASSUME NEW q, IsNews(q), NEW e
  PROVE  /\ IsNews(Append(q, e)) /\ Len(q) \in Nat /\ Len(Append(q, e)) = Len(q) + 1
         /\ Append(q, e)[Len(q) + 1] = e /\ \A i \in 1..Len(q) : Append(q, e)[i] = q[i]
<1>1. PICK T : q \in Seq(T)
  BY DEF IsNews
<1>2. q \in Seq(T \cup {e}) /\ e \in T \cup {e}
  BY <1>1
<1>3. Append(q, e) \in Seq(T \cup {e})
  BY <1>2
<1>4. /\ Len(q) \in Nat /\ Len(Append(q, e)) = Len(q) + 1
      /\ Append(q, e)[Len(q) + 1] = e /\ \A i \in 1..Len(q) : Append(q, e)[i] = q[i]
  BY <1>2
<1>5. IsNews(Append(q, e))
  BY <1>3 DEF IsNews
<1> QED BY <1>4, <1>5

LEMMA LetterTaken ==
  ASSUME NEW q, IsNews(q), q # <<>>
  PROVE  /\ IsNews(Tail(q)) /\ Len(q) \in Nat \ {0} /\ Len(Tail(q)) = Len(q) - 1
         /\ Head(q) = q[1] /\ \A i \in 1..(Len(q) - 1) : Tail(q)[i] = q[i + 1]
<1>1. PICK T : q \in Seq(T)
  BY DEF IsNews
<1>2. Tail(q) \in Seq(T)
  BY <1>1
<1>3. /\ Len(q) \in Nat \ {0} /\ Len(Tail(q)) = Len(q) - 1
      /\ Head(q) = q[1] /\ \A i \in 1..(Len(q) - 1) : Tail(q)[i] = q[i + 1]
  BY <1>1
<1>4. IsNews(Tail(q))
  BY <1>2 DEF IsNews
<1> QED BY <1>3, <1>4

\* The indicators that are drawn again are those there were, visible, and may show another
\* size than the one that is set now.
LEMMA Redrawn ==
  ASSUME NEW d, NEW e, NEW n, NEW m, Marked(d, n),
         e.sigs = d.sigs, e.owed = d.owed,
         (m = n /\ e.aged = d.aged) \/ e.aged = DOMAIN d.sigs,
         DOMAIN e.indicators = DOMAIN d.indicators,
         \A i \in DOMAIN d.indicators : \/ e.indicators[i] = d.indicators[i]
                                        \/ e.indicators[i] = [d.indicators[i] EXCEPT !.visible = TRUE]
  PROVE  Marked(e, m)
<1>1. ASSUME NEW i \in DOMAIN d.indicators, NEW s \in DOMAIN d.sigs,
             IsLine(d.indicators[i], i, s, d.sigs[s], d.owed, d.aged, n)
      PROVE  /\ IsLine(e.indicators[i], i, s, e.sigs[s], e.owed, e.aged, m)
             /\ e.indicators[i].space = d.indicators[i].space
  <2>1. IsLine(e.indicators[i], i, s, d.sigs[s], d.owed, d.aged, n)
    <3>1. CASE e.indicators[i] = d.indicators[i]
      BY <1>1, <3>1
    <3>2. CASE e.indicators[i] = [d.indicators[i] EXCEPT !.visible = TRUE]
      <4> DEFINE x == d.indicators[i]
                 y == [x EXCEPT !.visible = TRUE]
                 groups == d.sigs[s]
                 refused == d.owed
                 old == d.aged
      <4>1. IsLine(x, i, s, groups, refused, old, n) /\ e.indicators[i] = y
        BY <1>1, <3>2
      <4> HIDE DEF x, groups, refused, old
      <4>2. IsLine(y, i, s, groups, refused, old, n)
        BY <4>1, LineStays
      <4>3. IsLine(e.indicators[i], i, s, groups, refused, old, n)
        BY <4>1, <4>2
      <4> QED BY <4>3 DEF groups, refused, old
    <3> QED BY <1>1, <3>1, <3>2
  <2> QED BY <1>1, <2>1 DEF IsLine, Draws
<1>2. \A i \in DOMAIN e.indicators : \E s \in DOMAIN e.sigs :
        IsLine(e.indicators[i], i, s, e.sigs[s], e.owed, e.aged, m)
  BY <1>1 DEF Marked
<1>3. \A i \in DOMAIN d.indicators : e.indicators[i].space = d.indicators[i].space
  BY <1>1 DEF Marked
<1> QED BY <1>2, <1>3 DEF Marked

\* What is lined up is what is wanted.
LEMMA LinesFollow == LinesInv => LinesAreTrue
<1> SUFFICES ASSUME LinesInv PROVE LinesAreTrue
  OBVIOUS
<1>1. Lines!ClicksArrive
  BY DEF LinesInv, Lines!ClicksArrive
<1>2. ASSUME Lines!AtRest, setting.enabled, ~collided
      PROVE  /\ \A i \in Lines!Visible : \E s \in Lines!Bare : \E g \in pictures[s].groups : Lines!Shown(i, s, g)
             /\ \A s \in Lines!Bare : \A g \in pictures[s].groups :
                  <<s, g.id>> \in owed \/ (g.id \in Lines!Visible /\ Lines!Shown(g.id, s, g))
             /\ rects = {indicators[i].frame : i \in Lines!Visible}
  <2>0. ~due /\ Len(letters) = 0 /\ \A j : j \notin 1..Len(letters)
    BY <1>2 DEF Lines!AtRest
  <2>1. LinedUp(Lines!Display, pictures, size) /\ on /\ setting.size = size
    BY <1>2, <2>0 DEF LinesInv, PicturesArrive, SettingIsTold
  <2>2. \A s \in DOMAIN pictures : pictures[s].full \in BOOLEAN /\ Distinct(pictures[s].groups)
    BY PartsAssumption DEF LinesInv, Seen, Lines!LinesAssumption, Distinct
  <2>3. Lines!Display.indicators = indicators /\ Lines!Display.owed = owed /\ Lines!Display.aged = aged
    BY Parts DEF Lines!Display
  <2>4. /\ \A i \in DOMAIN indicators : \E s \in DOMAIN pictures :
             /\ IsLine(indicators[i], i, s, pictures[s].groups, owed, aged, size)
             /\ Fits(indicators[i], pictures[s])
        /\ \A s \in DOMAIN pictures : \A g \in pictures[s].groups :
             <<s, g.id>> \in owed \/ (g.id \in DOMAIN indicators /\ indicators[g.id].space = s)
    BY <2>1, <2>3 DEF LinedUp
  <2>5. ASSUME NEW i \in Lines!Visible
        PROVE  \E s \in Lines!Bare : \E g \in pictures[s].groups : Lines!Shown(i, s, g)
    <3>1. i \in DOMAIN indicators /\ indicators[i].visible
      BY DEF Lines!Visible
    <3>2. PICK s \in DOMAIN pictures :
             /\ IsLine(indicators[i], i, s, pictures[s].groups, owed, aged, size)
             /\ Fits(indicators[i], pictures[s])
      BY <2>4, <3>1
    <3>3. s \in Lines!Bare
      BY <2>2, <3>1, <3>2 DEF Fits, Lines!Bare
    <3>4. PICK g \in pictures[s].groups : g.id = i /\ Draws(indicators[i], s, g, owed, aged, size)
      BY <3>2 DEF IsLine
    <3>5. Lines!Shown(i, s, g)
      BY <2>1, <3>2, <3>4 DEF IsLine, Draws, Lines!Shown
    <3> QED BY <3>3, <3>5
  <2>6. ASSUME NEW s \in Lines!Bare, NEW g \in pictures[s].groups, <<s, g.id>> \notin owed
        PROVE  g.id \in Lines!Visible /\ Lines!Shown(g.id, s, g)
    <3>1. s \in DOMAIN pictures /\ ~pictures[s].full
      BY DEF Lines!Bare
    <3>2. g.id \in DOMAIN indicators /\ indicators[g.id].space = s
      BY <2>4, <2>6, <3>1
    <3>3. PICK t \in DOMAIN pictures :
             /\ IsLine(indicators[g.id], g.id, t, pictures[t].groups, owed, aged, size)
             /\ Fits(indicators[g.id], pictures[t])
      BY <2>4, <3>2
    <3>4. t = s
      BY <3>2, <3>3 DEF IsLine
    <3>5. g.id \in Lines!Visible
      BY <3>1, <3>2, <3>3, <3>4 DEF Fits, Lines!Visible
    <3>6. PICK h \in pictures[s].groups : h.id = g.id /\ Draws(indicators[g.id], s, h, owed, aged, size)
      BY <3>3, <3>4 DEF IsLine
    <3>7. h = g
      BY <2>2, <3>1, <3>6 DEF Distinct
    <3>8. Lines!Shown(g.id, s, g)
      BY <2>1, <3>2, <3>6, <3>7 DEF Draws, Lines!Shown
    <3> QED BY <3>5, <3>8
  <2>7. rects = {indicators[i].frame : i \in Lines!Visible}
    BY <2>1 DEF LinesInv, Lines!HitRects, Lines!Visible
  <2> QED BY <2>5, <2>6, <2>7
<1> QED BY <1>1, <1>2 DEF LinesAreTrue, Lines!LinesAreShown

\* What is on the screen does not change.
LEMMA ScreenRests ==
  ASSUME LinesInv, UNCHANGED <<on, size, indicators, sigs, rects, collided, owed, aged>>
  PROVE  /\ ~collided' => Marked(Lines!Display, size)'
         /\ rects' = Lines!HitRects(on, indicators)' /\ on' \in BOOLEAN /\ collided' \in BOOLEAN
         /\ \A p, n : Lines!Under(p, n)' = Lines!Under(p, n)
         /\ Lines!Display' = Lines!Display
<1>1. Lines!Display' = Lines!Display
  BY DEF Lines!Display
<1>2. ~collided' => Marked(Lines!Display, size)'
  BY <1>1 DEF LinesInv
<1>3. rects' = Lines!HitRects(on, indicators)'
  BY DEF LinesInv, Lines!HitRects
<1>4. \A p, n : Lines!Under(p, n)' = Lines!Under(p, n)
  BY DEF Lines!Under
<1> QED BY <1>1, <1>2, <1>3, <1>4 DEF LinesInv

\* The last settings are the last there are to come, whatever is sent.
LEMMA TellsMore ==
  ASSUME LinesInv, UNCHANGED <<on, size>>, NEW e, letters' = Append(letters, e),
         \/ e.kind # "ConfigUpdated" /\ setting' = setting
         \/ e.kind = "ConfigUpdated" /\ e.setting = setting'
  PROVE  SettingIsTold'
<1>0. IsNews(letters)
  BY DEF LinesInv, LettersAreSound
<1>1. /\ Len(letters) \in Nat /\ Len(letters') = Len(letters) + 1
      /\ letters'[Len(letters) + 1] = e /\ \A i \in 1..Len(letters) : letters'[i] = letters[i]
  BY <1>0, LetterAppended
<1>2. \A j \in 1..Len(letters') : j \in 1..Len(letters) \/ j = Len(letters) + 1
  BY <1>1
<1>3. \A j \in 1..Len(letters) : j \in 1..Len(letters') /\ letters'[j] = letters[j]
  BY <1>1
<1>4. CASE e.kind = "ConfigUpdated" /\ e.setting = setting'
  <2>1. Len(letters) + 1 \in 1..Len(letters') /\ \A j \in 1..Len(letters') : ~(j > Len(letters) + 1)
    BY <1>1
  <2> QED BY <1>1, <1>4, <2>1 DEF SettingIsTold
<1>5. CASE e.kind # "ConfigUpdated" /\ setting' = setting
  <2>1. CASE \E k \in 1..Len(letters) :
               /\ letters[k].kind = "ConfigUpdated" /\ letters[k].setting = setting
               /\ \A j \in 1..Len(letters) : j > k => letters[j].kind # "ConfigUpdated"
    <3>1. PICK k \in 1..Len(letters) :
               /\ letters[k].kind = "ConfigUpdated" /\ letters[k].setting = setting
               /\ \A j \in 1..Len(letters) : j > k => letters[j].kind # "ConfigUpdated"
      BY <2>1
    <3>2. \A j \in 1..Len(letters') : j > k => letters'[j].kind # "ConfigUpdated"
      BY <1>1, <1>2, <1>5, <3>1
    <3>3. k \in 1..Len(letters') /\ letters'[k].kind = "ConfigUpdated" /\ letters'[k].setting = setting'
      BY <1>3, <1>5, <3>1
    <3> QED BY <3>2, <3>3 DEF SettingIsTold
  <2>2. CASE /\ \A j \in 1..Len(letters) : letters[j].kind # "ConfigUpdated"
             /\ setting.enabled = on /\ setting.size = size
    <3>1. \A j \in 1..Len(letters') : letters'[j].kind # "ConfigUpdated"
      BY <1>1, <1>2, <1>5, <2>2
    <3> QED BY <1>5, <2>2, <3>1 DEF SettingIsTold
  <2> QED BY <2>1, <2>2 DEF LinesInv, SettingIsTold
<1> QED BY <1>4, <1>5

\* A letter is sent and nothing is drawn.
LEMMA LettersGrow ==
  ASSUME LinesInv, UNCHANGED <<on, size, indicators, sigs, rects, collided, owed, aged>>,
         NEW e, letters' = Append(letters, e),
         e.kind \in {"SnapshotUpdated", "ConfigUpdated", "MouseDown"},
         e.kind = "SnapshotUpdated" => Seen(e.shown),
         e.kind = "ConfigUpdated" => e.setting \in LineSettings,
         e.kind = "MouseDown" /\ ~e.news =>
           /\ on /\ e.seen = Lines!Under(e.place, e.segment)
           /\ \A k \in 1..Len(letters) : Click(k)
  PROVE  LettersAreSound' /\ ClicksAreTrue'
<1>0. IsNews(letters)
  BY DEF LinesInv, LettersAreSound
<1>1. /\ IsNews(letters') /\ Len(letters) \in Nat /\ Len(letters') = Len(letters) + 1
      /\ letters'[Len(letters) + 1] = e /\ \A i \in 1..Len(letters) : letters'[i] = letters[i]
  BY <1>0, LetterAppended
<1>2. \A j \in 1..Len(letters') : j \in 1..Len(letters) \/ j = Len(letters) + 1
  BY <1>1
<1>3. LettersAreSound'
  <2>1. ASSUME NEW j \in 1..Len(letters')
        PROVE  /\ letters'[j].kind \in {"SnapshotUpdated", "ConfigUpdated", "MouseDown"}
               /\ letters'[j].kind = "SnapshotUpdated" => Seen(letters'[j].shown)
               /\ letters'[j].kind = "ConfigUpdated" => letters'[j].setting \in LineSettings
    <3>1. CASE j \in 1..Len(letters)
      BY <1>1, <3>1 DEF LinesInv, LettersAreSound
    <3>2. CASE j = Len(letters) + 1
      BY <1>1, <3>2
    <3> QED BY <1>2, <3>1, <3>2
  <2> QED BY <1>1, <2>1 DEF LettersAreSound, Seen
<1>4. ClicksAreTrue'
  <2>1. ASSUME NEW j \in 1..Len(letters'), letters'[j].kind = "MouseDown", ~letters'[j].news
        PROVE  /\ on /\ letters'[j].seen = Lines!Under(letters'[j].place, letters'[j].segment)
               /\ \A k \in 1..Len(letters') : k < j => letters'[k].kind = "MouseDown"
    <3>1. CASE j \in 1..Len(letters)
      <4>1. /\ on /\ letters[j].seen = Lines!Under(letters[j].place, letters[j].segment)
            /\ \A k \in 1..Len(letters) : k < j => Click(k)
        BY <1>1, <2>1, <3>1 DEF LinesInv, ClicksAreTrue, Click
      <4>2. \A k \in 1..Len(letters') : k < j => k \in 1..Len(letters)
        BY <1>1, <3>1
      <4> QED BY <1>1, <3>1, <4>1, <4>2 DEF Click
    <3>2. CASE j = Len(letters) + 1
      <4>1. \A k \in 1..Len(letters') : k < j => k \in 1..Len(letters)
        BY <1>1, <3>2
      <4> QED BY <1>1, <2>1, <3>2, <4>1 DEF Click
    <3> QED BY <1>2, <3>1, <3>2
  <2>2. \A p, n : Lines!Under(p, n)' = Lines!Under(p, n)
    BY ScreenRests
  <2> QED BY <2>1, <2>2 DEF ClicksAreTrue, Click
<1> QED BY <1>3, <1>4

LEMMA LinesChange == LinesInv /\ Lines!Change => LinesInv'
<1> SUFFICES ASSUME LinesInv, Lines!Change PROVE LinesInv'
  OBVIOUS
<1>1. UNCHANGED <<setting, letters, on, size, indicators, sigs, rects, collided, owed, aged, lost>> /\ due' = TRUE
  BY DEF Lines!Change, Lines!screen
<1>2. Seen(pictures)'
  <2>1. PICK shows \in SUBSET Lines!Range(Order) :
          \E next \in [shows -> UNION {Sights[s] : s \in shows}] :
            (\A s \in shows : next[s] \in Sights[s]) /\ pictures' = next
    BY DEF Lines!Change
  <2> QED BY <2>1 DEF Seen
<1>3. LettersAreSound' /\ ClicksAreTrue' /\ SettingIsTold'
  BY <1>1, ScreenRests DEF LinesInv, LettersAreSound, ClicksAreTrue, SettingIsTold, Click, Seen
<1>4. PicturesArrive'
  BY <1>1 DEF PicturesArrive
<1> QED BY <1>1, <1>2, <1>3, <1>4, ScreenRests DEF LinesInv

LEMMA LinesConfigure == LinesInv /\ Lines!Configure => LinesInv'
<1> SUFFICES ASSUME LinesInv, Lines!Configure PROVE LinesInv'
  OBVIOUS
<1> DEFINE e == [kind |-> "ConfigUpdated", setting |-> setting']
<1>1. /\ UNCHANGED <<pictures, on, size, indicators, sigs, rects, collided, owed, aged, lost>> /\ due' = TRUE
      /\ setting' \in LineSettings /\ letters' = Append(letters, e)
  BY DEF Lines!Configure, Lines!screen, LineSettings
<1>2. e.kind = "ConfigUpdated" /\ e.setting = setting'
  OBVIOUS
<1> HIDE DEF e
<1>3. LettersAreSound' /\ ClicksAreTrue' /\ SettingIsTold'
  BY <1>1, <1>2, LettersGrow, TellsMore
<1>4. PicturesArrive'
  BY <1>1 DEF PicturesArrive
<1>5. Seen(pictures)'
  BY <1>1 DEF LinesInv, Seen
<1> QED BY <1>1, <1>3, <1>4, <1>5, ScreenRests DEF LinesInv

LEMMA LinesPublish == LinesInv /\ Lines!Publish => LinesInv'
<1> SUFFICES ASSUME LinesInv, Lines!Publish PROVE LinesInv'
  OBVIOUS
<1> DEFINE e == [kind |-> "SnapshotUpdated", shown |-> pictures]
<1>1. /\ UNCHANGED <<pictures, setting, on, size, indicators, sigs, rects, collided, owed, aged, lost>> /\ due' = FALSE
      /\ letters' = Append(letters, e)
  BY DEF Lines!Publish, Lines!screen
<1>2. e.kind = "SnapshotUpdated" /\ e.shown = pictures
  OBVIOUS
<1> HIDE DEF e
<1>3. LettersAreSound' /\ ClicksAreTrue' /\ SettingIsTold'
  BY <1>1, <1>2, LettersGrow, TellsMore DEF LinesInv
<1>4. PicturesArrive'
  <2>1. /\ Len(letters) \in Nat /\ Len(letters') = Len(letters) + 1 /\ letters'[Len(letters) + 1] = e
    BY <1>1, LetterAppended DEF LinesInv, LettersAreSound
  <2>2. /\ Len(letters) + 1 \in 1..Len(letters')
        /\ \A j \in 1..Len(letters') : ~(j > Len(letters) + 1)
    BY <2>1
  <2>3. \E k \in 1..Len(letters') :
          /\ letters'[k].kind = "SnapshotUpdated" /\ letters'[k].shown = pictures'
          /\ \A j \in 1..Len(letters') : j > k => Click(j)'
    BY <1>1, <1>2, <2>1, <2>2
  <2> QED BY <2>3 DEF PicturesArrive
<1>5. Seen(pictures)'
  BY <1>1 DEF LinesInv, Seen
<1> QED BY <1>1, <1>3, <1>4, <1>5, ScreenRests DEF LinesInv

LEMMA LinesClick ==
  LinesInv /\ (\E rect \in rects, segment \in 1..2 : Lines!MouseDown(rect.place, segment)) => LinesInv'
<1> SUFFICES ASSUME LinesInv, NEW rect \in rects, NEW segment \in 1..2, NEW place,
                    Lines!MouseDown(place, segment)
             PROVE  LinesInv'
  OBVIOUS
<1> DEFINE e == [kind |-> "MouseDown", place |-> place, segment |-> segment,
                 seen |-> Lines!Under(place, segment),
                 news |-> \E i \in DOMAIN letters : letters[i].kind # "MouseDown"]
<1>1. /\ UNCHANGED <<pictures, setting, due, on, size, indicators, sigs, rects, collided, owed, aged, lost>>
      /\ letters' = Append(letters, e)
  BY DEF Lines!MouseDown, Lines!screen
<1>2. /\ e.kind = "MouseDown" /\ e.place = place /\ e.segment = segment
      /\ e.seen = Lines!Under(place, segment)
  OBVIOUS
<1>3. ~e.news => \A i \in DOMAIN letters : letters[i].kind = "MouseDown"
  OBVIOUS
<1> HIDE DEF e
<1>4. on
  BY DEF LinesInv, Lines!HitRects
<1>5. IsNews(letters) /\ DOMAIN letters = 1..Len(letters)
  BY DEF LinesInv, LettersAreSound, IsNews
<1>6. ~e.news => \A k \in 1..Len(letters) : Click(k)
  BY <1>3, <1>5 DEF Click
<1>7. LettersAreSound' /\ ClicksAreTrue' /\ SettingIsTold'
  BY <1>1, <1>2, <1>4, <1>6, LettersGrow, TellsMore
<1>8. /\ Len(letters) \in Nat /\ Len(letters') = Len(letters) + 1 /\ letters'[Len(letters) + 1] = e
      /\ \A i \in 1..Len(letters) : letters'[i] = letters[i]
  BY <1>1, <1>5, LetterAppended
<1>9. PicturesArrive'
  <2>1. \A j \in 1..Len(letters') : j \in 1..Len(letters) \/ (j = Len(letters) + 1 /\ Click(j)')
    BY <1>2, <1>8 DEF Click
  <2>2. \A j \in 1..Len(letters) : j \in 1..Len(letters') /\ Click(j)' = Click(j)
    BY <1>8 DEF Click
  <2>3. CASE due
    BY <1>1, <2>3 DEF PicturesArrive
  <2>4. CASE \E k \in 1..Len(letters) :
               /\ letters[k].kind = "SnapshotUpdated" /\ letters[k].shown = pictures
               /\ \A j \in 1..Len(letters) : j > k => Click(j)
    <3>1. PICK k \in 1..Len(letters) :
               /\ letters[k].kind = "SnapshotUpdated" /\ letters[k].shown = pictures
               /\ \A j \in 1..Len(letters) : j > k => Click(j)
      BY <2>4
    <3>2. /\ k \in 1..Len(letters') /\ letters'[k].kind = "SnapshotUpdated" /\ letters'[k].shown = pictures'
          /\ \A j \in 1..Len(letters') : j > k => Click(j)'
      BY <1>1, <1>8, <2>1, <2>2, <3>1
    <3> QED BY <3>2 DEF PicturesArrive
  <2>5. CASE (\A j \in 1..Len(letters) : Click(j)) /\ (~collided => LinedUp(Lines!Display, pictures, size))
    <3>1. \A j \in 1..Len(letters') : Click(j)'
      BY <2>1, <2>2, <2>5
    <3>2. (~collided => LinedUp(Lines!Display, pictures, size))'
      BY <1>1, <2>5, ScreenRests
    <3> QED BY <3>1, <3>2 DEF PicturesArrive
  <2> QED BY <2>3, <2>4, <2>5 DEF LinesInv, PicturesArrive
<1>10. Seen(pictures)'
  BY <1>1 DEF LinesInv, Seen
<1> QED BY <1>1, <1>7, <1>9, <1>10, ScreenRests DEF LinesInv

\* The letter that is taken: what comes after it.
LEMMA LettersShrink ==
  ASSUME LinesInv, letters # <<>>, letters' = Tail(letters)
  PROVE  /\ LettersAreSound' /\ Head(letters) = letters[1] /\ 1 \in 1..Len(letters)
         /\ \A j \in 1..Len(letters') : j + 1 \in 1..Len(letters) /\ letters'[j] = letters[j + 1]
         /\ \A k \in 1..Len(letters) : k # 1 => k - 1 \in 1..Len(letters') /\ letters'[k - 1] = letters[k]
<1>1. /\ IsNews(letters') /\ Len(letters) \in Nat \ {0} /\ Len(letters') = Len(letters) - 1
      /\ Head(letters) = letters[1] /\ \A i \in 1..(Len(letters) - 1) : letters'[i] = letters[i + 1]
  BY LetterTaken DEF LinesInv, LettersAreSound
<1>2. \A j \in 1..Len(letters') : j + 1 \in 1..Len(letters) /\ letters'[j] = letters[j + 1]
  BY <1>1
<1>3. \A k \in 1..Len(letters) : k # 1 => k - 1 \in 1..Len(letters') /\ letters'[k - 1] = letters[k]
  BY <1>1
<1>4. LettersAreSound'
  BY <1>1, <1>2 DEF LinesInv, LettersAreSound, Seen
<1> QED BY <1>1, <1>2, <1>3, <1>4

\* The settings that are taken are the last ones, or others are to come.
LEMMA TellsLess ==
  ASSUME LinesInv, letters # <<>>, letters' = Tail(letters), UNCHANGED setting,
         \/ letters[1].kind # "ConfigUpdated" /\ UNCHANGED <<on, size>>
         \/ /\ letters[1].kind = "ConfigUpdated"
            /\ on' = letters[1].setting.enabled /\ size' = letters[1].setting.size
  PROVE  SettingIsTold'
<1>1. /\ 1 \in 1..Len(letters) /\ Len(letters) \in Nat /\ Len(letters') \in Nat
      /\ \A j \in 1..Len(letters') : j + 1 \in 1..Len(letters) /\ letters'[j] = letters[j + 1]
      /\ \A k \in 1..Len(letters) : k # 1 => k - 1 \in 1..Len(letters') /\ letters'[k - 1] = letters[k]
  BY LettersShrink, LetterTaken DEF LinesInv, LettersAreSound
<1>2. CASE \E k \in 1..Len(letters) :
             /\ letters[k].kind = "ConfigUpdated" /\ letters[k].setting = setting
             /\ \A j \in 1..Len(letters) : j > k => letters[j].kind # "ConfigUpdated"
  <2>1. PICK k \in 1..Len(letters) :
             /\ letters[k].kind = "ConfigUpdated" /\ letters[k].setting = setting
             /\ \A j \in 1..Len(letters) : j > k => letters[j].kind # "ConfigUpdated"
    BY <1>2
  <2>2. CASE k = 1
    <3>1. \A j \in 1..Len(letters') : letters'[j].kind # "ConfigUpdated"
      BY <1>1, <2>1, <2>2
    <3>2. setting'.enabled = on' /\ setting'.size = size'
      BY <2>1, <2>2
    <3> QED BY <3>1, <3>2 DEF SettingIsTold
  <2>3. CASE k # 1
    <3>1. \A j \in 1..Len(letters') : j > k - 1 => letters'[j].kind # "ConfigUpdated"
      BY <1>1, <2>1
    <3>2. /\ k - 1 \in 1..Len(letters') /\ letters'[k - 1].kind = "ConfigUpdated"
          /\ letters'[k - 1].setting = setting'
      BY <1>1, <2>1, <2>3
    <3> QED BY <3>1, <3>2 DEF SettingIsTold
  <2> QED BY <2>2, <2>3
<1>3. CASE /\ \A j \in 1..Len(letters) : letters[j].kind # "ConfigUpdated"
           /\ setting.enabled = on /\ setting.size = size
  <2>1. \A j \in 1..Len(letters') : letters'[j].kind # "ConfigUpdated"
    BY <1>1, <1>3
  <2> QED BY <1>1, <1>3, <2>1 DEF SettingIsTold
<1> QED BY <1>2, <1>3 DEF LinesInv, SettingIsTold

\* After news no click is known to be without news before it.
LEMMA LineNewsTaken ==
  ASSUME LinesInv, letters # <<>>, letters' = Tail(letters), letters[1].kind # "MouseDown"
  PROVE  /\ ClicksAreTrue'
         /\ \/ due \/ (letters[1].kind = "SnapshotUpdated" /\ letters[1].shown = pictures
                      /\ \A j \in 1..Len(letters') : letters'[j].kind = "MouseDown")
            \/ \E k \in 1..Len(letters') :
                 /\ letters'[k].kind = "SnapshotUpdated" /\ letters'[k].shown = pictures
                 /\ \A j \in 1..Len(letters') : j > k => letters'[j].kind = "MouseDown"
<1>1. /\ 1 \in 1..Len(letters) /\ Len(letters) \in Nat /\ Len(letters') \in Nat
      /\ \A j \in 1..Len(letters') : j + 1 \in 1..Len(letters) /\ letters'[j] = letters[j + 1]
      /\ \A k \in 1..Len(letters) : k # 1 => k - 1 \in 1..Len(letters') /\ letters'[k - 1] = letters[k]
  BY LettersShrink, LetterTaken DEF LinesInv, LettersAreSound
<1>2. ClicksAreTrue'
  <2>1. ASSUME NEW j \in 1..Len(letters'), letters'[j].kind = "MouseDown", ~letters'[j].news PROVE FALSE
    <3>1. j + 1 \in 1..Len(letters) /\ Click(j + 1) /\ ~letters[j + 1].news /\ 1 < j + 1
      BY <1>1, <2>1 DEF Click
    <3>2. Click(1)
      BY <1>1, <3>1 DEF LinesInv, ClicksAreTrue
    <3> QED BY <3>2 DEF Click
  <2> QED BY <2>1 DEF ClicksAreTrue, Click
<1>3. CASE due
  BY <1>2, <1>3
<1>4. CASE \E k \in 1..Len(letters) :
             /\ letters[k].kind = "SnapshotUpdated" /\ letters[k].shown = pictures
             /\ \A j \in 1..Len(letters) : j > k => Click(j)
  <2>1. PICK k \in 1..Len(letters) :
             /\ letters[k].kind = "SnapshotUpdated" /\ letters[k].shown = pictures
             /\ \A j \in 1..Len(letters) : j > k => Click(j)
    BY <1>4
  <2>2. CASE k = 1
    <3>1. \A j \in 1..Len(letters') : j + 1 > 1 /\ letters'[j].kind = "MouseDown"
      BY <1>1, <2>1, <2>2 DEF Click
    <3> QED BY <1>2, <2>1, <2>2, <3>1
  <2>3. CASE k # 1
    <3>1. /\ k - 1 \in 1..Len(letters')
          /\ letters'[k - 1].kind = "SnapshotUpdated" /\ letters'[k - 1].shown = pictures
      BY <1>1, <2>1, <2>3
    <3>2. \A j \in 1..Len(letters') : j > k - 1 => letters'[j].kind = "MouseDown"
      BY <1>1, <2>1 DEF Click
    <3> QED BY <1>2, <3>1, <3>2
  <2> QED BY <2>2, <2>3
<1>5. CASE \A j \in 1..Len(letters) : Click(j)
  BY <1>1, <1>5 DEF Click
<1> QED BY <1>3, <1>4, <1>5 DEF LinesInv, PicturesArrive

LEMMA LinesHandleSnapshot ==
  ASSUME LinesInv, Lines!HandleEvent, letters[1].kind = "SnapshotUpdated"
  PROVE  LinesInv'
<1> DEFINE e == letters[1]
<1>1. letters # <<>> /\ letters' = Tail(letters) /\ UNCHANGED <<pictures, setting, due>>
  BY DEF Lines!HandleEvent
<1>2. Head(letters) = e /\ LettersAreSound' /\ Seen(e.shown)
  BY <1>1, LettersShrink DEF LinesInv, LettersAreSound
<1>3. /\ \E refused : Lines!Shows(Lines!HandleSnapshotUpdated(e.shown, refused))
      /\ rects' = Lines!HitRects(on, indicators') /\ UNCHANGED <<on, size, lost>>
      /\ collided' = (collided \/ Collides(e.shown))
  BY <1>2 DEF Lines!HandleEvent, Collides
<1>4. ClicksAreTrue' /\ SettingIsTold'
  BY <1>1, <1>3, LineNewsTaken, TellsLess
<1>5. ~collided' => LinedUp(Lines!Display', e.shown, size') /\ Marked(Lines!Display', size')
  <2> SUFFICES ASSUME ~collided'
               PROVE  LinedUp(Lines!Display', e.shown, size') /\ Marked(Lines!Display', size')
    OBVIOUS
  <2>1. ~collided /\ ~Collides(e.shown) /\ Marked(Lines!Display, size)
    BY <1>3 DEF LinesInv
  <2>2. PICK refused : Lines!Shows(Lines!HandleSnapshotUpdated(e.shown, refused))
    BY <1>3
  <2> DEFINE d == Lines!HandleSnapshotUpdated(e.shown, refused)
  <2> HIDE DEF e
  <2>3. LinedUp(d, e.shown, size) /\ Marked(d, size)
    BY <1>2, <2>1, SnapshotDrawn
  <2>4. /\ Lines!Display'.indicators = d.indicators /\ Lines!Display'.sigs = d.sigs
        /\ Lines!Display'.owed = d.owed /\ Lines!Display'.aged = d.aged
    BY <2>2 DEF Lines!Shows, Lines!Display
  <2> HIDE DEF d
  <2> QED BY <1>3, <2>3, <2>4 DEF LinedUp, Marked
<1>6. PicturesArrive'
  <2>1. \/ due
        \/ e.shown = pictures /\ \A j \in 1..Len(letters') : letters'[j].kind = "MouseDown"
        \/ \E k \in 1..Len(letters') :
                 /\ letters'[k].kind = "SnapshotUpdated" /\ letters'[k].shown = pictures
                 /\ \A j \in 1..Len(letters') : j > k => letters'[j].kind = "MouseDown"
    BY <1>1, LineNewsTaken
  <2> HIDE DEF e
  <2> QED BY <1>1, <1>5, <2>1 DEF PicturesArrive, Click
<1>7. Seen(pictures)' /\ rects' = Lines!HitRects(on, indicators)'
  BY <1>1, <1>3 DEF LinesInv, Seen, Lines!HitRects
<1>8. collided' \in BOOLEAN
  <2>1. Collides(e.shown) \in BOOLEAN
    BY DEF Collides
  <2> HIDE DEF e
  <2> QED BY <1>3, <2>1 DEF LinesInv
<1> HIDE DEF e
<1> QED BY <1>1, <1>2, <1>3, <1>4, <1>5, <1>6, <1>7, <1>8 DEF LinesInv

LEMMA LinesHandleConfig ==
  ASSUME LinesInv, Lines!HandleEvent, letters[1].kind = "ConfigUpdated"
  PROVE  LinesInv'
<1> DEFINE e == letters[1]
           d == Lines!HandleConfigUpdated(e.setting)
<1>1. letters # <<>> /\ letters' = Tail(letters) /\ UNCHANGED <<pictures, setting, due>>
  BY DEF Lines!HandleEvent
<1>2. Head(letters) = e /\ LettersAreSound' /\ e.setting \in LineSettings
  BY <1>1, LettersShrink DEF LinesInv, LettersAreSound
<1>3. /\ Lines!Shows(d) /\ on' = e.setting.enabled /\ size' = e.setting.size
      /\ rects' = Lines!HitRects(on', indicators') /\ UNCHANGED <<collided, lost>>
  BY <1>2 DEF Lines!HandleEvent
<1>4. ClicksAreTrue' /\ SettingIsTold'
  BY <1>1, <1>3, LineNewsTaken, TellsLess
<1>5. ~collided' => Marked(Lines!Display', size')
  <2> SUFFICES ASSUME ~collided' PROVE Marked(Lines!Display', size')
    OBVIOUS
  <2>1. Marked(Lines!Display, size)
    BY <1>3 DEF LinesInv
  <2>2. /\ Lines!Display'.indicators = d.indicators /\ Lines!Display'.sigs = d.sigs
        /\ Lines!Display'.owed = d.owed /\ Lines!Display'.aged = d.aged
    BY <1>3 DEF Lines!Shows, Lines!Display
  <2> DEFINE old == IF e.setting.size = size THEN aged ELSE DOMAIN sigs
             inds == [i \in DOMAIN indicators |-> [indicators[i] EXCEPT !.visible = TRUE]]
             x == [indicators |-> indicators, sigs |-> sigs, owed |-> owed, aged |-> old]
             y == [indicators |-> inds, sigs |-> sigs, owed |-> owed, aged |-> old]
  <2>3. d = IF on /\ ~e.setting.enabled THEN Lines!Nothing
            ELSE IF e.setting.enabled THEN y ELSE x
    <3>1. [Lines!Display EXCEPT !.aged = IF e.setting.size = size THEN @ ELSE DOMAIN sigs] = x
      <4>1. (IF e.setting.size = size THEN Lines!Display.aged ELSE DOMAIN sigs) = old
        BY DEF Lines!Display
      <4> HIDE DEF e, old
      <4> QED BY <4>1 DEF Lines!Display
    <3>2. [x EXCEPT !.indicators = [i \in DOMAIN @ |-> [@[i] EXCEPT !.visible = TRUE]]] = y
      <4> DEFINE z == [i \in DOMAIN x.indicators |-> [x.indicators[i] EXCEPT !.visible = TRUE]]
      <4>1. x.indicators = indicators
        OBVIOUS
      <4>2. z = inds
        BY <4>1
      <4> HIDE DEF e, old, inds, z
      <4>3. [x EXCEPT !.indicators = z] = y
        BY <4>2
      <4> HIDE DEF x, y
      <4> QED BY <4>3 DEF z
    <3> HIDE DEF x, y, old, inds
    <3> QED BY <3>1, <3>2 DEF Lines!HandleConfigUpdated, Lines!Cleared
  <2>4. /\ Lines!Display.indicators = indicators /\ Lines!Display.sigs = sigs
        /\ Lines!Display.owed = owed /\ Lines!Display.aged = aged
    BY Parts DEF Lines!Display
  <2>5. /\ x.indicators = indicators /\ x.sigs = sigs /\ x.owed = owed /\ x.aged = old
        /\ y.indicators = inds /\ y.sigs = sigs /\ y.owed = owed /\ y.aged = old
    OBVIOUS
  <2>6. /\ DOMAIN inds = DOMAIN indicators
        /\ \A i \in DOMAIN indicators : inds[i] = [indicators[i] EXCEPT !.visible = TRUE]
    OBVIOUS
  <2>7. (size' = size /\ old = aged) \/ old = DOMAIN sigs
    BY <1>3
  <2> HIDE DEF d, e, x, y, inds, old
  <2>8. Marked(x, size') /\ Marked(y, size')
    <3> DEFINE D == Lines!Display
    <3>1. /\ D.indicators = indicators /\ D.sigs = sigs /\ D.owed = owed /\ D.aged = aged
          /\ Marked(D, size)
      BY <2>1, <2>4
    <3> HIDE DEF D
    <3> DEFINE m == size'
    <3>2. ASSUME NEW z, z.sigs = sigs, z.owed = owed, z.aged = old,
                 DOMAIN z.indicators = DOMAIN indicators,
                 \A i \in DOMAIN indicators : \/ z.indicators[i] = indicators[i]
                                              \/ z.indicators[i] = [indicators[i] EXCEPT !.visible = TRUE]
          PROVE  Marked(z, m)
      <4>1. /\ z.sigs = D.sigs /\ z.owed = D.owed
            /\ (m = size /\ z.aged = D.aged) \/ z.aged = DOMAIN D.sigs
            /\ DOMAIN z.indicators = DOMAIN D.indicators
        BY <2>7, <3>1, <3>2
      <4>2. \A i \in DOMAIN D.indicators : \/ z.indicators[i] = D.indicators[i]
                                           \/ z.indicators[i] = [D.indicators[i] EXCEPT !.visible = TRUE]
        BY <3>1, <3>2
      <4> HIDE DEF m
      <4> QED BY <3>1, <4>1, <4>2, Redrawn
    <3>3. Marked(x, m)
      BY <2>5, <3>2
    <3>4. Marked(y, m)
      BY <2>5, <2>6, <3>2
    <3> QED BY <3>3, <3>4
  <2>9. Marked(d, size')
    BY <2>3, <2>8, NothingIsMarked
  <2> QED BY <2>2, <2>9 DEF Marked
<1>6. PicturesArrive'
  <2>1. \/ due
        \/ \E k \in 1..Len(letters') :
                 /\ letters'[k].kind = "SnapshotUpdated" /\ letters'[k].shown = pictures
                 /\ \A j \in 1..Len(letters') : j > k => letters'[j].kind = "MouseDown"
    BY <1>1, LineNewsTaken
  <2>2. CASE due
    BY <1>1, <2>2 DEF PicturesArrive
  <2>3. CASE \E k \in 1..Len(letters') :
               /\ letters'[k].kind = "SnapshotUpdated" /\ letters'[k].shown = pictures
               /\ \A j \in 1..Len(letters') : j > k => letters'[j].kind = "MouseDown"
    BY <1>1, <2>3 DEF PicturesArrive, Click
  <2> QED BY <2>1, <2>2, <2>3
<1>7. Seen(pictures)' /\ rects' = Lines!HitRects(on, indicators)'
  BY <1>1, <1>3 DEF LinesInv, Seen, Lines!HitRects
<1>8. setting' \in LineSettings /\ on' \in BOOLEAN /\ due' \in BOOLEAN /\ collided' \in BOOLEAN /\ ~lost'
  BY <1>1, <1>2, <1>3 DEF LinesInv, LineSettings
<1> HIDE DEF e, d
<1> QED BY <1>2, <1>4, <1>5, <1>6, <1>7, <1>8 DEF LinesInv

LEMMA LinesHandleClick ==
  ASSUME LinesInv, Lines!HandleEvent, letters[1].kind = "MouseDown"
  PROVE  LinesInv'
<1> DEFINE e == letters[1]
<1>1. letters # <<>> /\ letters' = Tail(letters) /\ UNCHANGED <<pictures, setting, due>>
  BY DEF Lines!HandleEvent
<1>2. /\ Head(letters) = e /\ LettersAreSound' /\ 1 \in 1..Len(letters)
      /\ \A j \in 1..Len(letters') : j + 1 \in 1..Len(letters) /\ letters'[j] = letters[j + 1]
      /\ \A k \in 1..Len(letters) : k # 1 => k - 1 \in 1..Len(letters') /\ letters'[k - 1] = letters[k]
      /\ Len(letters') \in Nat /\ Len(letters) \in Nat
  BY <1>1, LettersShrink, LetterTaken DEF LinesInv, LettersAreSound
<1>3. Lines!HandleMouseDown(e) /\ UNCHANGED <<on, size, indicators, sigs, rects, collided, owed, aged>>
  BY <1>2 DEF Lines!HandleEvent, Lines!screen
<1>4. SettingIsTold'
  BY <1>1, <1>3, TellsLess
<1>0. ~lost'
  <2>1. ~e.news => on /\ e.seen = Lines!Under(e.place, e.segment)
    BY <1>2 DEF LinesInv, ClicksAreTrue, Click
  <2>2. ~lost
    BY DEF LinesInv
  <2> HIDE DEF e
  <2> QED BY <1>3, <2>1, <2>2 DEF Lines!HandleMouseDown
<1>5. ClicksAreTrue'
  <2>1. ASSUME NEW j \in 1..Len(letters'), letters'[j].kind = "MouseDown", ~letters'[j].news
        PROVE  /\ on /\ letters'[j].seen = Lines!Under(letters'[j].place, letters'[j].segment)
               /\ \A k \in 1..Len(letters') : k < j => letters'[k].kind = "MouseDown"
    <3>1. /\ on /\ letters[j + 1].seen = Lines!Under(letters[j + 1].place, letters[j + 1].segment)
          /\ \A k \in 1..Len(letters) : k < j + 1 => Click(k)
      BY <1>2, <2>1 DEF LinesInv, ClicksAreTrue, Click
    <3>2. ASSUME NEW k \in 1..Len(letters'), k < j PROVE letters'[k].kind = "MouseDown"
      <4>1. k + 1 < j + 1 /\ k + 1 \in 1..Len(letters) /\ letters'[k] = letters[k + 1]
        BY <1>2, <3>2
      <4> QED BY <3>1, <4>1 DEF Click
    <3>3. letters'[j] = letters[j + 1]
      BY <1>2
    <3> QED BY <3>1, <3>2, <3>3
  <2>2. \A p, n : Lines!Under(p, n)' = Lines!Under(p, n)
    BY <1>3, ScreenRests
  <2> QED BY <1>3, <2>1, <2>2 DEF ClicksAreTrue, Click
<1>6. PicturesArrive'
  <2>1. CASE due
    BY <1>1, <2>1 DEF PicturesArrive
  <2>2. CASE \E k \in 1..Len(letters) :
               /\ letters[k].kind = "SnapshotUpdated" /\ letters[k].shown = pictures
               /\ \A j \in 1..Len(letters) : j > k => Click(j)
    <3>1. PICK k \in 1..Len(letters) :
               /\ letters[k].kind = "SnapshotUpdated" /\ letters[k].shown = pictures
               /\ \A j \in 1..Len(letters) : j > k => Click(j)
      BY <2>2
    <3>2. k # 1
      BY <3>1
    <3>3. ASSUME NEW j \in 1..Len(letters'), j > k - 1 PROVE Click(j)'
      <4>1. j + 1 > k /\ j + 1 \in 1..Len(letters) /\ letters'[j] = letters[j + 1]
        BY <1>2, <3>3
      <4> QED BY <3>1, <4>1 DEF Click
    <3>4. /\ k - 1 \in 1..Len(letters')
          /\ letters'[k - 1].kind = "SnapshotUpdated" /\ letters'[k - 1].shown = pictures'
      BY <1>1, <1>2, <3>1, <3>2
    <3> QED BY <3>3, <3>4 DEF PicturesArrive
  <2>3. CASE (\A j \in 1..Len(letters) : Click(j)) /\ (~collided => LinedUp(Lines!Display, pictures, size))
    <3>1. \A j \in 1..Len(letters') : Click(j)'
      BY <1>2, <2>3 DEF Click
    <3>2. (~collided => LinedUp(Lines!Display, pictures, size))'
      <4>1. Lines!Display' = Lines!Display /\ UNCHANGED <<collided, pictures, size>>
        BY <1>1, <1>3, ScreenRests
      <4> QED BY <2>3, <4>1
    <3> QED BY <3>1, <3>2 DEF PicturesArrive
  <2> QED BY <2>1, <2>2, <2>3 DEF LinesInv, PicturesArrive
<1>7. Seen(pictures)'
  BY <1>1 DEF LinesInv, Seen
<1> HIDE DEF e
<1> QED BY <1>0, <1>1, <1>2, <1>3, <1>4, <1>5, <1>6, <1>7, ScreenRests DEF LinesInv

LEMMA LinesInit == MCInit => LinesInv
<1> SUFFICES ASSUME MCInit PROVE LinesInv
  OBVIOUS
<1>1. /\ pictures = <<>> /\ due = TRUE /\ letters = <<>> /\ setting \in LineSettings
      /\ on = setting.enabled /\ size = setting.size /\ owed = {} /\ aged = {}
      /\ indicators = <<>> /\ sigs = <<>> /\ rects = {} /\ collided = FALSE /\ lost = FALSE
  BY DEF MCInit, Lines!Init, LineSettings
<1>2. DOMAIN pictures = {} /\ DOMAIN indicators = {} /\ DOMAIN sigs = {} /\ Len(letters) = 0
  BY <1>1
<1>3. LettersAreSound /\ ClicksAreTrue /\ SettingIsTold
  <2>1. letters \in Seq({})
    BY <1>1
  <2> QED BY <1>1, <1>2, <2>1 DEF LettersAreSound, ClicksAreTrue, SettingIsTold, IsNews
<1>4. Marked(Lines!Display, size)
  <2>1. Lines!Display = Lines!Nothing
    BY <1>1 DEF Lines!Display, Lines!Nothing
  <2> QED BY <2>1, NothingIsMarked
<1>5. rects = Lines!HitRects(on, indicators)
  BY <1>1, <1>2 DEF Lines!HitRects
<1>6. Seen(pictures) /\ PicturesArrive
  BY <1>1, <1>2 DEF Seen, PicturesArrive
<1> QED BY <1>1, <1>3, <1>4, <1>5, <1>6 DEF LinesInv, LineSettings

LEMMA LinesStep ==
  LinesInv /\ [MCNext]_<<part, vars, lineVars, barVars, saveVars, loopVars>> => LinesInv'
<1> SUFFICES ASSUME LinesInv, [MCNext]_<<part, vars, lineVars, barVars, saveVars, loopVars>>
             PROVE  LinesInv'
  OBVIOUS
<1>1. CASE UNCHANGED lineVars
  <2>1. UNCHANGED <<pictures, setting, due, letters, on, size, indicators, sigs, rects, collided, owed, aged, lost>>
    BY <1>1 DEF lineVars
  <2>2. LettersAreSound' /\ ClicksAreTrue' /\ SettingIsTold' /\ PicturesArrive' /\ Seen(pictures)'
    BY <2>1, ScreenRests
       DEF LinesInv, LettersAreSound, ClicksAreTrue, SettingIsTold, PicturesArrive, Click, Seen
  <2> QED BY <2>1, <2>2, ScreenRests DEF LinesInv
<1>2. CASE Lines!HandleEvent
  <2>1. letters[1].kind \in {"SnapshotUpdated", "ConfigUpdated", "MouseDown"}
    <3>1. letters # <<>> /\ letters' = Tail(letters)
      BY <1>2 DEF Lines!HandleEvent
    <3> QED BY <3>1, LettersShrink DEF LinesInv, LettersAreSound
  <2> QED BY <1>2, <2>1, LinesHandleSnapshot, LinesHandleConfig, LinesHandleClick
<1>3. CASE Lines!Next
  BY <1>2, <1>3, LinesChange, LinesConfigure, LinesPublish, LinesClick DEF Lines!Next
<1> QED BY <1>1, <1>3 DEF MCNext

\* At rest, with lines enabled and no two displays with groups of the same id, there is a
\* line for every stacked group that is on a screen, and no other, but for groups that were
\* refused their frame and for the size of lines not drawn since it was set; and a click that
\* was taken with nothing new on its way leads to the window under it: for any displays,
\* pictures and sizes, any refusals, and any order of changes, snapshots, settings and clicks.
THEOREM LinesTrue == MCSpec => []LinesAreTrue
BY LinesInit, LinesStep, LinesFollow, PTL DEF MCSpec
=============================================================================
