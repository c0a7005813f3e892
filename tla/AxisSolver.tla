----------------------------- MODULE AxisSolver -----------------------------
(***************************************************************************)
(* solve_axis_lengths (src/src/core/constraints.rs), by which the layout of *)
(* a BSP split divides a length among its children: fixed segments first,  *)
(* then the growable ones by weight, in rounds that clamp the segments     *)
(* whose weighted share is outside their bounds.  One action per stage and *)
(* one per round of the loop.                                              *)
(*                                                                         *)
(* Lengths are exact: the inputs are multiples of Unit and every quotient  *)
(* of the algorithm is an integer, so the tolerance of f64 plays no part   *)
(* and neither does the positive half of the final drift correction, which *)
(* makes up for rounding.  In the layout a segment is either fixed or can  *)
(* grow (WindowConstraints::for_axis, and subtree_axis_constraints keeps   *)
(* it so), negative and infinite inputs do not occur.                      *)
(***************************************************************************)
EXTENDS Integers, FiniteSetsExt

CONSTANTS
  NumItems,   \* segments of the axis; these four are positive numbers
  Unit,       \* a length that the quotients divide
  MaxUnits,   \* bound on the lengths of the constraints, in units
  MaxWeight,  \* bound on the weights
  None        \* Option::None

Items == 1..NumItems
Opt(S) == S \cup {None}
Lengths == {Unit * k : k \in 0..MaxUnits}
Usable == {Unit * k : k \in 0..(MaxUnits * NumItems)}

VARIABLES
  item,       \* items: AxisConstraints
  usable,
  stage,      \* how far the function has come
  lower,      \* mins, scaled when they do not fit
  length,     \* lengths
  remaining,
  growable
vars == <<item, usable, stage, lower, length, remaining, growable>>

AxisConstraints ==
  [min : Lengths, fixed : Opt(Lengths), max : Opt(Lengths \ {0}), weight : 1..MaxWeight]

TypeOK ==
  /\ item \in [Items -> AxisConstraints]
  /\ usable \in Usable
  /\ stage \in {"fixed", "minima", "grow", "drift", "done"}
  /\ lower \in [Items -> Nat]
  /\ length \in [Items -> Nat]
  /\ remaining \in Nat
  /\ growable \subseteq Items

Total(f, S) == MapThenSumSet(LAMBDA i : f[i], S)
AtMost(x, y) == IF y # None /\ x > y THEN y ELSE x
AtLeast(x, y) == IF x < y THEN y ELSE x

Init ==
  /\ item \in [Items -> AxisConstraints]
  /\ usable \in Usable
  /\ stage = "fixed"
  /\ lower = [i \in Items |-> item[i].min]
  /\ length = [i \in Items |-> 0]
  /\ remaining = usable
  /\ growable = {}

-----------------------------------------------------------------------------
(* The algorithm *)

FixedItems == {i \in Items : item[i].fixed # None}

\* The fixed length within its bounds.
FixedLength == [i \in FixedItems |-> AtMost(AtLeast(item[i].fixed, item[i].min), item[i].max)]
FixedSum == Total(FixedLength, FixedItems)

\* Fixed segments that do not fit are all there is.
ScaleFixed ==
  /\ stage = "fixed"
  /\ FixedSum > usable
  /\ length' = [i \in Items |->
       IF i \in FixedItems THEN (FixedLength[i] * usable) \div FixedSum ELSE 0]
  /\ stage' = "done"
  /\ UNCHANGED <<item, usable, lower, remaining, growable>>

PlaceFixed ==
  /\ stage = "fixed"
  /\ FixedSum <= usable
  /\ length' = [i \in Items |-> IF i \in FixedItems THEN FixedLength[i] ELSE 0]
  /\ remaining' = usable - FixedSum
  /\ growable' = Items \ FixedItems
  /\ stage' = "minima"
  /\ UNCHANGED <<item, usable, lower>>

\* Minima that do not fit are scaled down.
ScaleMinima ==
  LET sum == Total(lower, growable)
  IN  /\ stage = "minima"
      /\ lower' = IF sum <= remaining THEN lower
                  ELSE [i \in Items |->
                    IF i \in growable THEN (lower[i] * remaining) \div sum ELSE lower[i]]
      /\ stage' = "grow"
      /\ UNCHANGED <<item, usable, length, remaining, growable>>

Weights == Total([i \in Items |-> item[i].weight], growable)

\* The weighted share of an item in what remains, times the weights.
Proposed(i) == remaining * item[i].weight
TooShort(i) == Proposed(i) < lower[i] * Weights
TooLong(i) == item[i].max # None /\ Proposed(i) > AtLeast(item[i].max, lower[i]) * Weights

\* What the clamped segments take may be more than there is.
Remaining(bound, clamped) == AtLeast(remaining - Total(bound, clamped), 0)


\* The bound that a segment violates becomes its length, and it grows no more.
Clamp ==
  LET short == {i \in growable : TooShort(i)}
      clamped == {i \in growable : TooShort(i) \/ TooLong(i)}
      bound == [i \in clamped |->
        AtMost(IF i \in short THEN lower[i] ELSE AtLeast(item[i].max, lower[i]), remaining)]
  IN  /\ stage = "grow"
      /\ remaining > 0
      /\ clamped # {}
      /\ length' = [i \in Items |-> IF i \in clamped THEN bound[i] ELSE length[i]]
      /\ remaining' = Remaining(bound, clamped)
      /\ growable' = growable \ clamped
      /\ UNCHANGED <<item, usable, stage, lower>>

Distribute ==
  /\ stage = "grow"
  /\ remaining > 0 /\ growable # {}
  /\ \A i \in growable : ~TooShort(i) /\ ~TooLong(i)
  /\ length' = [i \in Items |-> IF i \in growable THEN Proposed(i) \div Weights ELSE length[i]]
  /\ remaining' = 0
  /\ stage' = "drift"
  /\ UNCHANGED <<item, usable, lower, growable>>

EndOfLoop ==
  /\ stage = "grow"
  /\ remaining = 0 \/ growable = {}
  /\ stage' = "drift"
  /\ UNCHANGED <<item, usable, lower, length, remaining, growable>>

FaultyCorrected(drift, positive) ==   \* also when space is left
  IF positive = {} THEN length ELSE [length EXCEPT ![Max(positive)] = AtLeast(@ + drift, 0)]
\* When nothing remains the last segment with a length makes up the difference.
Corrected(drift, positive) ==
  IF remaining > 0 \/ positive = {} THEN length
  ELSE [length EXCEPT ![Max(positive)] = AtLeast(@ + drift, 0)]

CorrectDrift ==
  LET drift == usable - Total(length, Items)
      positive == {i \in Items : length[i] > 0}
  IN  /\ stage = "drift"
      /\ length' = Corrected(drift, positive)
      /\ stage' = "done"
      /\ UNCHANGED <<item, usable, lower, remaining, growable>>

Next ==
  ScaleFixed \/ PlaceFixed \/ ScaleMinima \/ Clamp \/ Distribute \/ EndOfLoop \/ CorrectDrift

Spec == Init /\ [][Next]_vars

-----------------------------------------------------------------------------
(* Properties of the lengths, from the rules in the comment of the function *)

Fits == FixedSum <= usable
Growing == Items \ FixedItems
UpperBound(i) == IF item[i].max = None THEN usable ELSE AtLeast(item[i].max, lower[i])

\* The segments fit the axis: no window is laid out beyond its split, over another.
SegmentsFit == stage = "done" => Total(length, Items) <= usable

\* "fixed values are enforced before distributing remainder" and "max caps growth":
\* no round and no correction takes a segment past its bound afterwards.
UpperBoundsHold ==
  stage = "done" /\ Fits =>
    /\ \A i \in FixedItems : length[i] = FixedLength[i]
    /\ \A i \in Growing : length[i] <= UpperBound(i)

\* Without maxima every minimum that can hold holds and nothing is left blank,
\* however many rounds it takes.
WithoutMaximaAllIsUsed ==
  stage = "done" /\ Fits /\ Growing # {} /\ (\A i \in Growing : item[i].max = None) =>
    /\ Total(length, Items) = usable
    /\ \A i \in Growing : length[i] >= lower[i]

\* "growable nodes preserve their final weighted proportions whenever their bounds
\* allow it".
ProportionsKept ==
  LET free == {i \in Growing : lower[i] < length[i] /\ length[i] < UpperBound(i)}
  IN  stage = "done" => \A i, j \in free : length[i] * item[j].weight = length[j] * item[i].weight

-----------------------------------------------------------------------------
(* What the comment of the function says and the code does not do, when one *)
(* segment is clamped to its maximum and another to its minimum in one round *)

\* "min is a lower bound unless physically infeasible (then minima are scaled down
\* proportionally)".
MinimaHold == stage = "done" /\ Fits => \A i \in Growing : length[i] >= lower[i]
=============================================================================
