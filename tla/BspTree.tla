------------------------------- MODULE BspTree -------------------------------
(***************************************************************************)
(* The BSP tree of a workspace (src/src/core/bsp.rs): nodes that split an  *)
(* area in two along an axis, and leaves that are groups of stacked        *)
(* windows.  One action per method that changes the tree.                  *)
(*                                                                         *)
(* A ratio is a number of Parts of the area: 0.05 to 0.95 are 1 to         *)
(* Parts - 1.  Node ids are only compared for equality and no mention of   *)
(* one outlives its node (TreeIsValid), so a new node takes the lowest     *)
(* unused id instead of one from an ever growing counter.  Group ids and   *)
(* frames are left out.                                                    *)
(*                                                                         *)
(* An operator named Faulty... is its neighbour with a plausible mistake   *)
(* in it, used only by the mutants of PROJECT.json.                        *)
(***************************************************************************)
EXTENDS Integers, SequencesExt

CONSTANTS
  Windows,   \* WindowId
  Parts,     \* granularity of the ratios
  None       \* Option::None

ASSUME TreeAssumption ==
  /\ IsFiniteSet(Windows) /\ None \notin Windows
  /\ Parts \in Nat /\ Parts > 0 /\ Parts % 2 = 0

NodeIds == 1..(2 * Cardinality(Windows))
Axes == {"horizontal", "vertical"}
Ratios == 1..(Parts - 1)
Balanced == Parts \div 2
Opt(S) == S \cup {None}
Splits == [axis : Axes, ratio : Ratios, first : NodeIds, second : NodeIds]
Groups == [axis : Axes, windows : SeqOf(Windows, Cardinality(Windows)), selected : Nat]

VARIABLE tree
vars == <<tree>>

TypeOK ==
  /\ tree.root \in Opt(NodeIds)
  /\ \A n \in NodeIds : tree.split[n] # None => tree.split[n] \in Splits
  /\ \A n \in NodeIds : tree.group[n] # None => tree.group[n] \in Groups
  /\ tree.node \in [Windows -> Opt(NodeIds)]
  /\ tree.fullscreen \in {None} \cup (Windows \X BOOLEAN)

\* nodes is split in two, `split` and `group`; `node` is window_nodes.
EmptyTree ==
  [ root       |-> None,
    split      |-> [n \in NodeIds |-> None],
    group      |-> [n \in NodeIds |-> None],
    node       |-> [w \in Windows |-> None],
    fullscreen |-> None ]

Init == tree = EmptyTree

-----------------------------------------------------------------------------
(* Walks *)

Tiled(t) == {w \in Windows : t.node[w] # None}
Free(t) == {n \in NodeIds : t.split[n] = None /\ t.group[n] = None}
Lowest(S) == CHOOSE n \in S : \A m \in S : n <= m

ParentOf(t, child) ==
  LET parents == {n \in NodeIds : t.split[n] # None /\ child \in {t.split[n].first, t.split[n].second}}
  IN  IF parents = {} THEN None ELSE Lowest(parents)

Sibling(t, n) ==
  LET s == t.split[ParentOf(t, n)]
  IN  IF s.first = n THEN s.second ELSE s.first

\* The splits above a node, the nearest first.
Ancestors(t, node) ==
  LET above[n \in NodeIds] ==
        LET p == ParentOf(t, n) IN IF p = None THEN <<>> ELSE <<p>> \o above[p]
  IN  above[node]

LastGroup(t) ==
  LET last[n \in NodeIds] == IF t.group[n] # None THEN n ELSE last[t.split[n].second]
  IN  last[t.root]

\* The nodes below and including a node, as validate_node and collect_groups visit them.
Preorder(t, node) ==
  LET visit[n \in NodeIds] ==
        IF t.split[n] = None THEN <<n>>
        ELSE <<n>> \o visit[t.split[n].first] \o visit[t.split[n].second]
  IN  visit[node]

\* groups(): the stacks in order, the selected member by name.
GroupsInOrder(t) ==
  LET stack(n) == [windows |-> t.group[n].windows,
                   selected |-> t.group[n].windows[t.group[n].selected]]
      leaves == SelectSeq(IF t.root = None THEN <<>> ELSE Preorder(t, t.root),
                          LAMBDA n : t.group[n] # None)
  IN  [i \in DOMAIN leaves |-> stack(leaves[i])]

-----------------------------------------------------------------------------
(* Steps the methods share *)

SingleGroup(w) == [axis |-> "horizontal", windows |-> <<w>>, selected |-> 1]

\* The parent is balanced again.
FaultyReplaceChild(t, parent, old, new) ==
  IF parent = None THEN [t EXCEPT !.root = new]
  ELSE IF t.split[parent].first = old
  THEN [t EXCEPT !.split[parent].first = new, !.split[parent].ratio = Balanced]
  ELSE [t EXCEPT !.split[parent].second = new, !.split[parent].ratio = Balanced]

ReplaceChild(t, parent, old, new) ==
  IF parent = None THEN [t EXCEPT !.root = new]
  ELSE IF t.split[parent].first = old THEN [t EXCEPT !.split[parent].first = new]
  ELSE [t EXCEPT !.split[parent].second = new]

\* A new group of w takes half of the place of `target`.
SplitOff(t, target, w) ==
  LET g == Lowest(Free(t))
      s == Lowest(Free(t) \ {g})
      axis == IF Len(Ancestors(t, target)) % 2 = 0 THEN "horizontal" ELSE "vertical"
      new == [axis |-> axis, ratio |-> Balanced, first |-> target, second |-> g]
  IN  ReplaceChild([t EXCEPT !.group[g] = SingleGroup(w), !.node[w] = g, !.split[s] = new],
                   ParentOf(t, target), target, s)

\* The split is not removed.
FaultyCollapseEmptyGroup(t, g) ==
  LET p == ParentOf(t, g)
  IN  IF p = None THEN [t EXCEPT !.root = None, !.group[g] = None]
      ELSE [ReplaceChild(t, ParentOf(t, p), p, Sibling(t, g)) EXCEPT !.group[g] = None]

\* The split above an empty group gives way to the other child.
CollapseEmptyGroup(t, g) ==
  LET p == ParentOf(t, g)
  IN  IF p = None THEN [t EXCEPT !.root = None, !.group[g] = None]
      ELSE [ReplaceChild(t, ParentOf(t, p), p, Sibling(t, g))
              EXCEPT !.group[g] = None, !.split[p] = None]

Position(stack, w) == SelectInSeq(stack, LAMBDA x : x = w)

\* The selection is an index that does not follow its window.
FaultySelected(selected, position, rest) ==
  IF selected > Len(rest) THEN Len(rest) ELSE selected
Selected(selected, position, rest) ==
  IF position < selected THEN selected - 1
  ELSE IF selected > Len(rest) THEN Len(rest) ELSE selected

RemoveFromGroup(t, w) ==
  LET g == t.node[w]
      stack == t.group[g]
      position == Position(stack.windows, w)
      rest == RemoveAt(stack.windows, position)
      left == [t EXCEPT !.node[w] = None]
  IN  IF rest = <<>> THEN CollapseEmptyGroup(left, g)
      ELSE [left EXCEPT !.group[g] =
              [stack EXCEPT !.windows = rest,
                            !.selected = Selected(@, position, rest)]]

-----------------------------------------------------------------------------
(* Changes of ratios *)

Flipped(r) == Parts - r
Clamped(r) == IF r < 1 THEN 1 ELSE IF r > Parts - 1 THEN Parts - 1 ELSE r

\* update_nearest_axis_ratio moving a boundary: the nearest split on that axis whose
\* ratio can still move.
MoveBoundary(t, w, axis, delta) ==
  LET above == Ancestors(t, t.node[w])
      moved(p) == Clamped(t.split[p].ratio + delta)
      nearest == SelectInSeq(above, LAMBDA p : t.split[p].axis = axis /\ moved(p) # t.split[p].ratio)
  IN  IF nearest = 0 THEN t
      ELSE [t EXCEPT !.split[above[nearest]].ratio = moved(above[nearest])]

\* update_nearest_axis_ratio fitting a length: the nearest split on that axis.
SetNearest(t, w, axis, ratio) ==
  LET above == Ancestors(t, t.node[w])
      nearest == SelectInSeq(above, LAMBDA p : t.split[p].axis = axis)
  IN  IF nearest = 0 THEN t ELSE [t EXCEPT !.split[above[nearest]].ratio = ratio]

\* Two groups of one split exchange their sizes.
ExchangeSizes(t, g, h) ==
  LET p == ParentOf(t, g)
  IN  IF g = h \/ p = None \/ p # ParentOf(t, h) THEN t
      ELSE [t EXCEPT !.split[p].ratio = Flipped(@)]

-----------------------------------------------------------------------------
(* Methods *)

InsertAfter(after, w) ==
  /\ w \notin Tiled(tree)
  /\ IF tree.root = None
     THEN LET g == Lowest(Free(tree))
          IN  tree' = [tree EXCEPT !.root = g, !.group[g] = SingleGroup(w), !.node[w] = g]
     ELSE /\ after \in Opt(Tiled(tree))
          /\ tree' = SplitOff(tree, IF after = None THEN LastGroup(tree) ELSE tree.node[after], w)

RemoveWindow(w) ==
  /\ w \in Tiled(tree)
  /\ tree' = RemoveFromGroup([tree EXCEPT
       !.fullscreen = IF @ \in {w} \X BOOLEAN THEN None ELSE @], w)

Join(w, target) ==
  LET g == tree.node[target]
      left == RemoveFromGroup(tree, w)
      stack == Append(left.group[g].windows, w)
  IN  /\ {w, target} \subseteq Tiled(tree)
      /\ tree.node[w] # g
      /\ tree' = [left EXCEPT !.group[g].windows = stack,
                              !.group[g].selected = Len(stack),
                              !.node[w] = g]

Unjoin(w) ==
  LET g == tree.node[w]
  IN  /\ w \in Tiled(tree)
      /\ Len(tree.group[g].windows) > 1
      /\ tree' = SplitOff(RemoveFromGroup(tree, w), g, w)

Select(w) ==
  LET g == tree.node[w]
  IN  /\ w \in Tiled(tree)
      /\ tree' = [tree EXCEPT !.group[g].selected = Position(tree.group[g].windows, w)]

\* The windows exchange their places in the stacks.
SwapWindows(v, w) ==
  LET g == tree.node[v]
      h == tree.node[w]
      i == Position(tree.group[g].windows, v)
      j == Position(tree.group[h].windows, w)
      swapped == [tree EXCEPT !.group[g].windows[i] = w,
                              !.group[h].windows[j] = v,
                              !.node[v] = h,
                              !.node[w] = g]
  IN  /\ {v, w} \subseteq Tiled(tree)
      /\ v # w
      /\ tree' = ExchangeSizes(swapped, g, h)

ReorientForMove(w, axis, toFirst) ==
  LET g == tree.node[w]
      p == ParentOf(tree, g)
      s == tree.split[p]
  IN  /\ w \in Tiled(tree)
      /\ p # None
      /\ s.axis # axis
      /\ tree' = [tree EXCEPT !.split[p] =
           IF (s.first = g) = toFirst THEN [s EXCEPT !.axis = axis]
           ELSE [axis |-> axis, ratio |-> Flipped(s.ratio), first |-> s.second, second |-> s.first]]

Resize(w, amount) ==
  LET g == tree.node[w]
      p == ParentOf(tree, g)
  IN  /\ w \in Tiled(tree)
      /\ p # None
      /\ tree' = [tree EXCEPT !.split[p].ratio =
           Clamped(IF tree.split[p].first = g THEN @ + amount ELSE @ - amount)]

ResizeAxis(w, axis, delta) ==
  /\ w \in Tiled(tree)
  /\ tree' = MoveBoundary(tree, w, axis, delta)

\* A window was dragged to another width, height or both.
ResizeFromFrames(w, ratio) ==
  LET fit(t, axis) == IF ratio[axis] = None THEN t ELSE SetNearest(t, w, axis, ratio[axis])
  IN  /\ w \in Tiled(tree)
      /\ tree' = fit(fit(tree, "horizontal"), "vertical")

\* A stack turns by itself, a single window with its sibling.
ToggleOrientation(w) ==
  LET g == tree.node[w]
      p == ParentOf(tree, g)
      turned(axis) == IF axis = "horizontal" THEN "vertical" ELSE "horizontal"
  IN  /\ w \in Tiled(tree)
      /\ \/ Len(tree.group[g].windows) > 1 /\ tree' = [tree EXCEPT !.group[g].axis = turned(@)]
         \/ /\ Len(tree.group[g].windows) = 1
            /\ p # None
            /\ tree' = [tree EXCEPT !.split[p].axis = turned(@)]

ToggleFullscreen(w, withinGaps) ==
  /\ w \in Tiled(tree)
  /\ tree' = [tree EXCEPT !.fullscreen =
       IF @ = <<w, withinGaps>> THEN None ELSE <<w, withinGaps>>]

Next ==
  \E w \in Windows :
    \/ \E after \in Opt(Windows) : InsertAfter(after, w)
    \/ RemoveWindow(w)
    \/ \E target \in Windows : Join(w, target)
    \/ Unjoin(w)
    \/ Select(w)
    \/ \E v \in Windows : SwapWindows(v, w)
    \/ \E axis \in Axes, toFirst \in BOOLEAN : ReorientForMove(w, axis, toFirst)
    \/ \E amount \in {-1, 1} : Resize(w, amount)
    \/ \E axis \in Axes, delta \in {-1, 1} : ResizeAxis(w, axis, delta)
    \/ \E ratio \in [Axes -> Opt(Ratios)] : ResizeFromFrames(w, ratio)
    \/ ToggleOrientation(w)
    \/ \E withinGaps \in BOOLEAN : ToggleFullscreen(w, withinGaps)

Spec == Init /\ [][Next]_vars

-----------------------------------------------------------------------------
(* Properties *)

\* validate(), which the reducer runs over every tree before it commits: a tree
\* without cycles or shared or unreachable nodes, each window in one place of one
\* stack, the index exact, the selections in range and fullscreen on a tiled window.
\* So no command can fail in the reducer on account of its tree.
TreeIsValid ==
  IF tree.root = None THEN tree = [EmptyTree EXCEPT !.fullscreen = tree.fullscreen]
  ELSE LET nodes == Preorder(tree, tree.root)
           groups == {n \in ToSet(nodes) : tree.group[n] # None}
           places == UNION {{<<n, i>> : i \in DOMAIN tree.group[n].windows} : n \in groups}
           at(place) == tree.group[place[1]].windows[place[2]]
       IN  /\ IsInjective(nodes)
           /\ ToSet(nodes) = NodeIds \ Free(tree)
           /\ \A n \in groups : tree.split[n] = None /\ tree.group[n].selected \in DOMAIN tree.group[n].windows
           /\ \A p, q \in places : at(p) = at(q) => p = q
           /\ \A w \in Windows : tree.node[w] = None <=> w \notin {at(p) : p \in places}
           /\ \A p \in places : tree.node[at(p)] = p[1]
           /\ tree.fullscreen # None => tree.fullscreen[1] \in Tiled(tree)

\* The tree keeps what it promises: every method does to the groups, their order,
\* their selections and fullscreen what module Tiling says, wherever the group is.
Promise == INSTANCE Tiling WITH groups <- GroupsInOrder(tree), fullscreen <- tree.fullscreen
KeepsItsPromise == Promise!Spec

\* The share of its parent that each node above a window's group gets, and itself.
Share(t, n) ==
  LET s == t.split[ParentOf(t, n)]
  IN  <<s.axis, IF s.first = n THEN s.ratio ELSE Flipped(s.ratio)>>
Shares(t, w) ==
  LET path == <<t.node[w]>> \o Ancestors(t, t.node[w])
  IN  [i \in 1..(Len(path) - 1) |-> Share(t, path[i])]
Stacked(t, v, w) == t.node[v] = t.node[w]

\* Swapping moves two windows and nothing else: two windows of one split keep their
\* sizes, others exchange them, and no window outside their stacks changes size.
SwapStep ==
  \A v, w \in Tiled(tree) : v # w /\ SwapWindows(v, w) =>
       LET siblings == ParentOf(tree, tree.node[v]) = ParentOf(tree, tree.node[w])
       IN  /\ \A u \in Tiled(tree) :
                ~Stacked(tree, u, v) /\ ~Stacked(tree, u, w) => Shares(tree', u) = Shares(tree, u)
           /\ Shares(tree', v) = Shares(tree, IF siblings THEN v ELSE w)
           /\ Shares(tree', w) = Shares(tree, IF siblings THEN w ELSE v)
SwapDisturbsNobody == [][SwapStep]_vars

\* A window that comes or goes costs or gives space only to what it shares a split
\* with; nothing else on the screen is resized.
LocalStep ==
  LET under(t, n) == {u \in Tiled(t) : t.node[u] \in ToSet(Preorder(t, n))}
      resized == {u \in Tiled(tree) \cap Tiled(tree') : Shares(tree, u) # Shares(tree', u)}
      beside(t, w) == under(t, Sibling(t, t.node[w])) \cup {w}
      alone(w) == Len(tree.group[tree.node[w]].windows) = 1
      leaves(w) == RemoveWindow(w) \/ \E target \in Windows : Join(w, target)
      arrives(w) == Unjoin(w) \/ \E after \in Opt(Windows) : InsertAfter(after, w)
  IN  resized = {} \/
        \A w \in Windows :
          /\ arrives(w) /\ tree.root # None => resized \subseteq beside(tree', w)
          /\ leaves(w) =>
               IF alone(w) THEN ParentOf(tree, tree.node[w]) # None => resized \subseteq beside(tree, w)
                           ELSE resized \subseteq {w}
ChangesAreLocal == [][LocalStep]_vars

=============================================================================
