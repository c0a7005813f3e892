------------------------------ MODULE MCTiling ------------------------------
(***************************************************************************)
(* Small instances of BspTree and AxisSolver, side by side: a behaviour is  *)
(* one of the tree, with fine ratios or with the one in the middle only, or *)
(* one of the solver.                                                       *)
(***************************************************************************)
EXTENDS BspTree

CONSTANTS NumItems, Unit, MaxUnits, MaxWeight
VARIABLES part, item, usable, stage, lower, length, remaining, growable

Axis == INSTANCE AxisSolver
Halved == INSTANCE BspTree WITH Parts <- 2

axisVars == <<item, usable, stage, lower, length, remaining, growable>>

\* The solver on the two children of a split: the weights are the ratio of the split
\* and what it leaves.
AxisInit == Axis!Init /\ item[1].weight + item[2].weight = MaxWeight + 1

\* What a part does not use has one value.
AxisIdle ==
  /\ item = <<>> /\ usable = 0 /\ stage = "idle" /\ lower = <<>> /\ length = <<>>
  /\ remaining = 0 /\ growable = {}

MCInit ==
  \/ part \in {"promise", "sizes"} /\ Init /\ AxisIdle
  \/ part = "axis" /\ Init /\ AxisInit

MCNext ==
  \/ part = "promise" /\ Halved!Next /\ UNCHANGED <<part, axisVars>>
  \/ part = "sizes" /\ Next /\ UNCHANGED <<part, axisVars>>
  \/ part = "axis" /\ Axis!Next /\ UNCHANGED <<part, tree>>

MCSpec == MCInit /\ [][MCNext]_<<part, tree, axisVars>>

\* No method tells one window from another.
WindowSymmetry == Permutations(Windows)

\* Views.  Nothing depends on the axis of a stack; the sizes of windows depend on
\* neither selections nor fullscreen.
StacksView(f) == [n \in NodeIds |-> IF tree.group[n] = None THEN <<>> ELSE tree.group[n][f]]
TreeView ==
  <<tree.root, tree.split, tree.node, StacksView("windows"),
    IF part = "promise" THEN <<StacksView("selected"), tree.fullscreen>> ELSE <<>> >>
TilingView == <<part, TreeView, axisVars>>

\* KeepsItsPromise, in the part whose ratios are that in the middle only.
HalvedKeepsItsPromise ==
  Promise!Init /\ [][part = "promise" => [Promise!Next]_(Promise!vars)]_<<part, tree>>

\* SwapDisturbsNobody and ChangesAreLocal, in the part with fine ratios.
ChangesStayLocal == [][part = "sizes" => SwapStep /\ LocalStep]_<<part, tree>>

\* The type invariant and the tree's own validation.
TreeIsSound == TypeOK /\ TreeIsValid

\* What the solver's module says of its results: the segments fit the axis and their
\* bounds, without maxima they fill it, and those that no bound holds keep the
\* proportions of their weights.
SegmentsAreRight ==
  part = "axis" =>
    /\ Axis!TypeOK
    /\ Axis!SegmentsFit /\ Axis!UpperBoundsHold
    /\ Axis!WithoutMaximaAllIsUsed
    /\ Axis!ProportionsKept
=============================================================================
