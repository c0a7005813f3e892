------------------------------ MODULE Gestures ------------------------------
(***************************************************************************)
(* Horizontal swipes (actor/gesture_tap.rs).  A tap on the main thread is  *)
(* called for every change of the touches on the trackpad.  A handler      *)
(* compares the average position of the fingers with the one at which it   *)
(* was armed, and asks for the next or the previous workspace once it is   *)
(* far enough away.  Touches may come, go, rest and move, the system may   *)
(* cancel a gesture, events may be lost, and the configuration may change  *)
(* at any time.                                                            *)
(***************************************************************************)
EXTENDS Integers, Sequences, FiniteSets, FiniteSetsExt

CONSTANTS Fingers,      \* the fingers of the user
          Columns,      \* horizontal positions on the trackpad are 0 .. Columns, ...
          Rows,         \* ... and vertical ones 0 .. Rows
          Distance,     \* distance_pct
          Tolerance,    \* swipe_vertical_tolerance
          Settings,     \* [enabled, invert : BOOLEAN, fingers : Nat]
          MaxEvents,    \* bound: events in a behaviour, ...
          MaxUpdates,   \* bound: ... changes of the configuration, ...
          MaxLost,      \* bound: ... and events that are lost
          None

VARIABLES
    touch,      \* the touches: a finger's [x, y, resting], or None
    swipe,      \* the handler: [cfg, phase, start], or None when gestures are off
    tap,        \* "none", "consumes", or "listens" only
    sent,       \* history: what was asked for since the fingers came together
    owed,       \* history: what their movement since then asks for; None when that cannot be told
    origin,     \* history: where they came together; None when they did not
    events, updates, lost

vars == <<touch, swipe, tap, sent, owed, origin, events, updates, lost>>

Touches   == [x : 0..Columns, y : 0..Rows, resting : BOOLEAN]
Trackpads == [Fingers -> Touches \cup {None}]
Sums      == [x : Int, y : Int, n : Nat]
Handlers  == [cfg : Settings, phase : {"idle", "armed", "committed"}, start : Sums \cup {None}]

GesturesAssumption ==
    /\ IsFiniteSet(Fingers) /\ Distance \in Nat /\ Tolerance \in Nat
    /\ Settings \subseteq [enabled : BOOLEAN, invert : BOOLEAN, fingers : Nat]
    /\ None \notin {<<>>} \cup Touches \cup Trackpads \cup Handlers

Handler(cfg) == IF cfg.enabled THEN [cfg |-> cfg, phase |-> "idle", start |-> None] ELSE None

(* create_and_install_tap: the system may refuse one that consumes events, *)
(* and one that listens only.                                              *)
Created == {"consumes", "listens", "none"}

Init ==
    /\ touch = [f \in Fingers |-> None]
    /\ \E cfg \in Settings : swipe = Handler(cfg)
    /\ tap \in IF swipe = None THEN {"none"} ELSE Created
    /\ sent = <<>> /\ owed = <<>> /\ origin = None
    /\ events = 0 /\ updates = 0 /\ lost = 0

Down(t) == {f \in Fingers : t[f] # None}

(* What a touch adds to the average: nothing when it rests or ends.        *)
Active(t, ended) == {f \in Down(t) \ ended : ~t[f].resting}
Sum(t, axis, fs) == MapThenSumSet(LAMBDA f : t[f][axis], fs)
Total(t, fs) == [x |-> Sum(t, "x", fs), y |-> Sum(t, "y", fs), n |-> Cardinality(fs)]

(* The difference of two averages, times the product of their counts. *)
Apart(now, start, axis) == now[axis] * start.n - start[axis] * now.n
Size(d) == IF d < 0 THEN -d ELSE d

Far(now, start) ==
    /\ Size(Apart(now, start, "x")) >= Distance * now.n * start.n
    /\ Size(Apart(now, start, "y")) <= Tolerance * now.n * start.n

Direction(cfg, d) == IF (d < 0) # cfg.invert THEN "next" ELSE "previous"

(* handle_gesture_event, for an event of the touches t of which some end.  *)
(* The handler's next state, ...                                           *)
Reset == [swipe EXCEPT !.phase = "idle", !.start = None]

(* Mutant of Committed: a swipe that was used may be used again.           *)
FaultyCommitted(now) == [swipe EXCEPT !.start = now]

Committed(now) == [swipe EXCEPT !.phase = "committed"]

Together(t) == Cardinality(Down(t)) = swipe.cfg.fingers

Gesture(phase, t, ended) ==
    LET began == phase = "began" \/ swipe.phase = "idle"
        now   == Total(t, Active(t, ended))
    IN  IF phase \in {"ended", "cancelled"} \/ ~Together(t) \/ now.n = 0 THEN Reset
        ELSE IF began THEN [swipe EXCEPT !.phase = "armed", !.start = now]
        ELSE IF swipe.phase = "armed" /\ Far(now, swipe.start) THEN Committed(now)
        ELSE swipe

(* ... and what it asks for. *)
Commands(phase, t, ended) ==
    LET now == Total(t, Active(t, ended)) IN
    IF /\ phase = "changed" /\ swipe.phase = "armed" /\ Together(t) /\ now.n # 0 /\ Far(now, swipe.start)
    THEN <<Direction(swipe.cfg, Apart(now, swipe.start, "x"))>> ELSE <<>>

(* What is remembered of the same fingers by themselves: from the first    *)
(* event at which the right number of them is down, each as far and in the *)
(* direction it moved.                                                     *)
Moved(t, axis) == MapThenSumSet(LAMBDA f : t[f][axis] - origin[f][axis], Down(t))
Wanted(t) ==
    LET n == swipe.cfg.fingers IN
    IF Size(Moved(t, "x")) >= Distance * n /\ Size(Moved(t, "y")) <= Tolerance * n
    THEN <<Direction(swipe.cfg, Moved(t, "x"))>> ELSE <<>>

Remember(phase, t, ended) ==
    IF phase \in {"ended", "cancelled"} \/ ~Together(t) \/ Active(t, ended) = {}
    THEN sent' = <<>> /\ owed' = <<>> /\ origin' = None
    ELSE IF origin = None \/ phase = "began"
    THEN sent' = <<>> /\ owed' = (IF Active(t, ended) = Down(t) THEN <<>> ELSE None) /\ origin' = t
    ELSE /\ sent' = sent \o Commands(phase, t, ended)
         /\ owed' = IF owed = None \/ Active(t, ended) # Down(t) THEN None
                    ELSE IF owed = <<>> THEN Wanted(t) ELSE owed
         /\ UNCHANGED origin

(* on_event.  A change that is lost leaves the handler behind. *)
Hears(phase, t, ended) ==
    IF swipe = None \/ tap = "none" THEN UNCHANGED <<swipe, sent, owed, origin, lost>>
    ELSE \/ swipe' = Gesture(phase, t, ended) /\ Remember(phase, t, ended) /\ UNCHANGED lost
         \/ /\ lost < MaxLost /\ lost' = lost + 1
            /\ owed' = IF origin = None THEN owed ELSE None
            /\ UNCHANGED <<swipe, sent, origin>>

Event == events < MaxEvents /\ events' = events + 1 /\ UNCHANGED <<tap, updates>>

Put(f, x, y) ==
    /\ Event /\ touch[f] = None
    /\ touch' = [touch EXCEPT ![f] = [x |-> x, y |-> y, resting |-> FALSE]]
    /\ Hears(IF Down(touch) = {} THEN "began" ELSE "changed", touch', {})

Move(fs, dx, dy) ==
    /\ Event /\ fs # {} /\ fs \subseteq Down(touch)
    /\ \A f \in fs : touch[f].x + dx \in 0..Columns /\ touch[f].y + dy \in 0..Rows
    /\ touch' = [f \in Fingers |-> IF f \in fs THEN [touch[f] EXCEPT !.x = @ + dx, !.y = @ + dy] ELSE touch[f]]
    /\ Hears("changed", touch', {})

Rest(f) ==
    /\ Event /\ touch[f] # None
    /\ touch' = [touch EXCEPT ![f].resting = ~@]
    /\ Hears("changed", touch', {})

(* The event of a finger that is lifted still has its touch. *)
Lift(f) ==
    /\ Event /\ touch[f] # None
    /\ touch' = [touch EXCEPT ![f] = None]
    /\ Hears(IF Down(touch) = {f} THEN "ended" ELSE "changed", touch, {f})

Cancel ==
    /\ Event /\ Down(touch) # {}
    /\ Hears("cancelled", touch, {}) /\ UNCHANGED touch

(* update_gesture_handlers: a new handler, also when fingers are down. *)
ConfigUpdated(cfg) ==
    /\ updates < MaxUpdates /\ updates' = updates + 1
    /\ swipe' = Handler(cfg)
    /\ IF swipe = None /\ cfg.enabled THEN tap' \in Created
       ELSE tap' = IF swipe # None /\ ~cfg.enabled THEN "none" ELSE tap
    /\ sent' = <<>> /\ owed' = <<>> /\ origin' = None
    /\ UNCHANGED <<touch, events, lost>>

Next ==
    \/ \E f \in Fingers : Rest(f) \/ Lift(f)
    \/ \E f \in Fingers, x \in 0..Columns, y \in 0..Rows : Put(f, x, y)
    \/ \E fs \in SUBSET Fingers, dx, dy \in -1..1 : Move(fs, dx, dy)
    \/ Cancel
    \/ \E cfg \in Settings : ConfigUpdated(cfg)

Spec == Init /\ [][Next]_vars
-----------------------------------------------------------------------------
(* While the right number of fingers stays on the trackpad and none of     *)
(* them rests, the workspace is switched at most once, and just when and   *)
(* where their movement asks for.                                          *)
SwipesSwitch == owed # None => sent = owed

(* What does not hold: nothing is switched while no finger moves.  The     *)
(* average of fewer fingers is another one.                                *)
StillnessIsRespected ==
    [][sent' # sent /\ sent' # <<>> =>
        \E f \in Down(touch) \cap Down(touch') : touch'[f].x # touch[f].x]_vars
=============================================================================
