----------------------------- MODULE MCOverview -----------------------------
(***************************************************************************)
(* The overview, its pictures, and the moves of windows side by side: a    *)
(* behaviour is one of them.                                               *)
(***************************************************************************)
EXTENDS MissionControl, TLC

CONSTANTS
  PreviewWindows, Unnamed, Workers, SyncLimit, Fades, MaxUpdates, MaxRedraws,
  MovedWindows, App, Rule, MoveDisplays, Numbered, Tenth, Hidden, MaxSteps, MaxMoves,
  s1, s2, s3, w1, w2, a1, d1, d2, n1, n2, n3, h1, h2

VARIABLES
  part,
  main, drawn, tiles, layers, displayed, ready, cache, pending, timers, generation, inFlight,
  jobs, worker, failed, updates, redraws, born,
  owners, shownOn, homes, focused, known, at, mainWindow, mouse, recent, next, clicked, meant,
  spoiled, steps, moves

Pictures == INSTANCE Previews WITH Windows <- PreviewWindows, overlay <- drawn
Placing == INSTANCE WindowMoves WITH
  Windows <- MovedWindows, Displays <- MoveDisplays, owner <- owners, shown <- shownOn,
  home <- homes, focus <- focused, main <- mainWindow, cursor <- mouse

ASSUME PicksAssumption == OverviewAssumption
ASSUME PicturesAssumption == Pictures!PreviewsAssumption
ASSUME PlacesAssumption == Placing!MovesAssumption

pictureVars == <<main, drawn, tiles, layers, displayed, ready, cache, pending, timers,
                 generation, inFlight, jobs, worker, failed, updates, redraws, born>>
placingVars == <<owners, shownOn, homes, focused, known, at, mainWindow, mouse, recent, next,
                 clicked, meant, spoiled, steps, moves>>

\* A part that rests has one initial state.
MCInit ==
  /\ part \in {"overview", "pictures", "placing"}
  /\ Init /\ Pictures!Init /\ Placing!Init
  /\ part # "overview" =>
       /\ home = [w \in Windows |-> s1] /\ context = d1
       /\ shown = [d \in Displays |-> IF d = d1 THEN s1 ELSE s2]
  /\ part # "placing" =>
       mouse = d1 /\ shownOn = [d \in MoveDisplays |-> IF d = d1 THEN n1 ELSE n2]

MCNext ==
  \/ part = "overview" /\ Next /\ UNCHANGED <<part, pictureVars, placingVars>>
  \/ part = "pictures" /\ Pictures!Next /\ UNCHANGED <<part, vars, placingVars>>
  \/ part = "placing" /\ Placing!Next /\ UNCHANGED <<part, vars, pictureVars>>

MCSpec == MCInit /\ [][MCNext]_<<part, vars, pictureVars, placingVars>>

\* Three workspaces of which the third does not exist at first, and two windows.
MCOrder == <<s1, s2, s3>>
MCWindows == <<w1, w2>>

\* One application; a rule for the second window; a hidden workspace per display.
MCApp == [w \in MovedWindows |-> a1]
MCRule == [w \in MovedWindows |-> IF w = w2 THEN n2 ELSE None]
MCHidden == [d \in MoveDisplays |-> IF d = d1 THEN h1 ELSE h2]

\* The windows of pictures are alike, and so are the threads.
Symmetry == Permutations(PreviewWindows) \cup Permutations(Workers)

\* What rests is left out.
View ==
  CASE part = "overview" -> <<part, vars>>
    [] part = "pictures" -> <<part, pictureVars>>
    [] part = "placing" -> <<part, placingVars>>

PreviewsAppear == Pictures!PreviewsAppear
MovesAreExplained == Placing!MovesAreExplained
DeferredMovesArrive == Placing!DeferredMovesArrive
HiddenStaysHidden == Placing!HiddenStaysHidden
LastCommandWins == Placing!LastCommandWins
=============================================================================
