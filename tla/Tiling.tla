------------------------------- MODULE Tiling -------------------------------
(***************************************************************************)
(* What a BSP tree promises to the rest of the core, without the tree: an  *)
(* ordered collection of groups, each a stack of windows of which one is   *)
(* selected (GroupSnapshot of src/src/core/snapshot.rs), and perhaps a     *)
(* window in fullscreen.  Module BspTree implements it.                    *)
(***************************************************************************)
EXTENDS Integers, SequencesExt

CONSTANTS
  Windows,   \* WindowId
  None       \* Option::None

VARIABLES
  groups,      \* BspTree::groups(), the selected member by name
  fullscreen   \* the window in fullscreen and whether it stays within the gaps

vars == <<groups, fullscreen>>

Members(g) == ToSet(g.windows)
Tiled == UNION {Members(groups[i]) : i \in DOMAIN groups}
GroupOf(w) == CHOOSE i \in DOMAIN groups : w \in Members(groups[i])
Single(w) == [windows |-> <<w>>, selected |-> w]

\* When the selected window leaves its stack the next one is selected, or the last.
Without(g, w) ==
  LET rest == Remove(g.windows, w)
      place == SelectInSeq(g.windows, LAMBDA x : x = w)
  IN  [windows |-> rest,
       selected |-> IF g.selected # w THEN g.selected
                    ELSE IF place \in DOMAIN rest THEN rest[place] ELSE Last(rest)]

\* The groups once w has left them; a group that it empties is gone.
Left(w) ==
  LET i == GroupOf(w)
  IN  IF Members(groups[i]) = {w} THEN RemoveAt(groups, i)
      ELSE [groups EXCEPT ![i] = Without(@, w)]

Init == groups = <<>> /\ fullscreen = None

\* A new group follows the group of some window, or all of them.
Insert(w) ==
  /\ w \notin Tiled
  /\ \E i \in DOMAIN groups \cup {Len(groups)} :
       groups' = InsertAt(groups, i + 1, Single(w))
  /\ UNCHANGED fullscreen

\* Only the window that leaves can lose fullscreen by it.
Leave(w) ==
  /\ w \in Tiled
  /\ groups' = Left(w)
  /\ fullscreen' = IF fullscreen \in {w} \X BOOLEAN THEN None ELSE fullscreen

\* Fullscreen follows its window from a group to another.
Join(w, target) ==
  /\ {w, target} \subseteq Tiled /\ GroupOf(w) # GroupOf(target)
  /\ groups' = [i \in DOMAIN Left(w) |->
       LET g == Left(w)[i]
       IN  IF target \in Members(g)
           THEN [windows |-> Append(g.windows, w), selected |-> w] ELSE g]
  /\ UNCHANGED fullscreen

Unjoin(w) ==
  /\ w \in Tiled /\ Members(groups[GroupOf(w)]) # {w}
  /\ groups' = InsertAt(Left(w), GroupOf(w) + 1, Single(w))
  /\ UNCHANGED fullscreen

Select(w) ==
  /\ w \in Tiled
  /\ groups' = [groups EXCEPT ![GroupOf(w)].selected = w]
  /\ UNCHANGED fullscreen

\* Two windows exchange their places, and with them what is selected.
Swap(v, w) ==
  LET other(x) == CASE x = v -> w [] x = w -> v [] OTHER -> x
  IN  /\ {v, w} \subseteq Tiled
      /\ groups' = [i \in DOMAIN groups |->
           [windows |-> [k \in DOMAIN groups[i].windows |-> other(groups[i].windows[k])],
            selected |-> other(groups[i].selected)]]
      /\ UNCHANGED fullscreen

\* The group of w moves past some neighbours; the others keep their order.
Reorient(w) ==
  /\ w \in Tiled
  /\ \E i \in DOMAIN groups :
       groups' = InsertAt(RemoveAt(groups, GroupOf(w)), i, groups[GroupOf(w)])
  /\ UNCHANGED fullscreen

ToggleFullscreen(w) ==
  /\ w \in Tiled
  /\ fullscreen' \in {None} \cup ({w} \X BOOLEAN)
  /\ UNCHANGED groups

Next ==
  \E w \in Windows :
    \/ Insert(w)
    \/ Leave(w)
    \/ \E target \in Windows : Join(w, target)
    \/ Unjoin(w)
    \/ Select(w)
    \/ \E v \in Windows : Swap(v, w)
    \/ Reorient(w)
    \/ ToggleFullscreen(w)

Spec == Init /\ [][Next]_vars
=============================================================================
