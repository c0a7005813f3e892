-------------------------- MODULE WorkspaceCatalog --------------------------
(***************************************************************************)
(* The workspace aggregate of the core (src/src/core/workspace.rs): which  *)
(* workspaces exist, which display owns each, which of them a display      *)
(* shows, and which window lives in which workspace.                       *)
(*                                                                         *)
(* A catalog is a record.  A BTreeMap<K, V> of the code is a function from *)
(* K to V or None, None standing for an absent key, so a workspace id is   *)
(* live when its display is not None.  A BSP tree is abstracted to the set *)
(* of its windows (module BspTree models the tree), a floating frame to    *)
(* the fact that it is recorded, a workspace name is left out.             *)
(*                                                                         *)
(* A method that may fail is a guard Can... and a value: the caller        *)
(* discards its candidate state when the guard is false (CoreState).       *)
(*                                                                         *)
(* An operator named Faulty... is its neighbour with a plausible mistake   *)
(* in it; nothing uses it but the mutants of PROJECT.json, which show that *)
(* the properties notice the mistake.                                      *)
(***************************************************************************)
EXTENDS Integers, FiniteSets, Functions

CONSTANTS
  Displays,        \* DisplayId, ordered as the keys of a BTreeMap are
  Windows,         \* WindowId, ordered as the keys of a BTreeMap are
  NumSlots,        \* WorkspaceNumber::COUNT: a slot is a position of ORDERED
  MaxWorkspaceId,  \* bound on next_workspace_id, for model checking
  None             \* Option::None

ASSUME CatalogAssumption ==
  /\ Displays \subseteq Nat /\ IsFiniteSet(Displays)
  /\ Windows \subseteq Nat /\ IsFiniteSet(Windows)
  /\ NumSlots \in Nat
  /\ MaxWorkspaceId \in Nat
  /\ None \notin Nat

Slots == 1..NumSlots
WorkspaceIds == 1..MaxWorkspaceId
Opt(S) == S \cup {None}

IsCatalog(c) ==
  /\ c.display \in [WorkspaceIds -> Opt(Displays)]
  /\ c.number \in [WorkspaceIds -> Opt(Slots)]       \* None: a hidden workspace
  /\ c.tiled \in [WorkspaceIds -> SUBSET Windows]
  /\ c.floating \in [WorkspaceIds -> SUBSET Windows]
  /\ c.positions \in [WorkspaceIds -> SUBSET Windows]  \* keys of floating_positions
  /\ c.byNumber \in [Slots -> Opt(WorkspaceIds)]
  /\ c.hidden \in [Displays -> Opt(WorkspaceIds)]    \* hidden_workspaces
  /\ c.known \in SUBSET Displays                     \* keys of displays
  /\ c.active \in [Displays -> Opt(WorkspaceIds)]
  /\ c.last \in [Displays -> Opt(WorkspaceIds)]
  /\ c.hiddenReturn \in [Displays -> Opt(WorkspaceIds)]
  /\ c.assignment \in [Windows -> Opt(WorkspaceIds)]
  /\ c.nextId \in 0..MaxWorkspaceId

EmptyCatalog ==
  [ display      |-> [id \in WorkspaceIds |-> None],
    number       |-> [id \in WorkspaceIds |-> None],
    tiled        |-> [id \in WorkspaceIds |-> {}],
    floating     |-> [id \in WorkspaceIds |-> {}],
    positions    |-> [id \in WorkspaceIds |-> {}],
    byNumber     |-> [n \in Slots |-> None],
    hidden       |-> [d \in Displays |-> None],
    known        |-> {},
    active       |-> [d \in Displays |-> None],
    last         |-> [d \in Displays |-> None],
    hiddenReturn |-> [d \in Displays |-> None],
    assignment   |-> [w \in Windows |-> None],
    nextId       |-> 0 ]

-----------------------------------------------------------------------------
(* Queries *)

Live(c) == {id \in WorkspaceIds : c.display[id] # None}
OnDisplay(c, d) == {id \in WorkspaceIds : c.display[id] = d}
NumberedOn(c, d) == {id \in OnDisplay(c, d) : c.number[id] # None}
IsEmpty(c, id) == c.tiled[id] = {} /\ c.floating[id] = {}
IsFloating(c, w) == c.assignment[w] # None /\ w \in c.floating[c.assignment[w]]

FirstNumbered(c, d) ==
  IF NumberedOn(c, d) = {} THEN None
  ELSE CHOOSE id \in NumberedOn(c, d) :
         \A other \in NumberedOn(c, d) : c.number[id] <= c.number[other]

FreeSlots(c) == {n \in Slots : c.byNumber[n] = None}
NextFreeSlot(c) == CHOOSE n \in FreeSlots(c) : \A m \in FreeSlots(c) : n <= m

\* The position of x among the elements of S, sorted by key, from 1.
Rank(S, key, x) == Cardinality({y \in S : key[y] <= key[x]})

\* The workspace reached from `current` by one step over the numbered workspaces
\* of d, in slot order and cyclically, or None.
StepTarget(c, d, current, forward, skipEmpty) ==
  LET ring == NumberedOn(c, d)
      size == Cardinality(ring)
      start == IF current \in ring THEN current
               ELSE IF c.hiddenReturn[d] \in ring THEN c.hiddenReturn[d]
               ELSE FirstNumbered(c, d)
      steps[id \in ring] ==
        LET ahead == Rank(ring, c.number, id) - Rank(ring, c.number, start)
        IN  ((IF forward THEN ahead ELSE -ahead) + size - 1) % size
      eligible == {id \in ring : skipEmpty => ~IsEmpty(c, id)}
  IN  IF eligible = {} THEN None
      ELSE CHOOSE id \in eligible : \A other \in eligible : steps[id] <= steps[other]

-----------------------------------------------------------------------------
(* Window membership *)

\* A frame stays behind when its window leaves.
FaultyPlace(c, X, dest, float, framed) ==
  LET entering(id, S) == {w \in X \cap S : dest[w] = id}
  IN  [c EXCEPT
        !.assignment = [w \in Windows |-> IF w \in X THEN dest[w] ELSE c.assignment[w]],
        !.tiled = [id \in WorkspaceIds |-> (c.tiled[id] \ X) \cup entering(id, X \ float)],
        !.floating = [id \in WorkspaceIds |-> (c.floating[id] \ X) \cup entering(id, float)],
        !.positions = [id \in WorkspaceIds |-> c.positions[id] \cup entering(id, float \cap framed)]]

\* The windows of X leave wherever they are; each enters dest[w], as a floating
\* window when it is in `float`, with a recorded frame when it is in `framed`.
Place(c, X, dest, float, framed) ==
  LET entering(id, S) == {w \in X \cap S : dest[w] = id}
  IN  [c EXCEPT
        !.assignment = [w \in Windows |-> IF w \in X THEN dest[w] ELSE c.assignment[w]],
        !.tiled = [id \in WorkspaceIds |->
                     (c.tiled[id] \ X) \cup entering(id, X \ float)],
        !.floating = [id \in WorkspaceIds |->
                     (c.floating[id] \ X) \cup entering(id, float)],
        !.positions = [id \in WorkspaceIds |->
                     (c.positions[id] \ X) \cup entering(id, float \cap framed)]]

RemoveWindows(c, X) == Place(c, X, [w \in X |-> None], {}, {})

AssignTiled(c, id, w) == Place(c, {w}, [x \in {w} |-> id], {}, {})

\* A window that floats in id already is left alone, with its frame.
AssignFloating(c, id, w) ==
  LET stays == IF c.assignment[w] = id /\ IsFloating(c, w) THEN c.positions[id] ELSE {}
  IN  Place(c, {w}, [x \in {w} |-> id], {w}, stays)

\* The frame is forgotten.
FaultyMoveWindows(c, X, id) ==
  Place(c, X, [w \in X |-> id], {w \in X : IsFloating(c, w)}, {})

\* Windows keep their layer, and floating ones their frame, when they move.
MoveWindows(c, X, id) ==
  LET float == {w \in X : IsFloating(c, w)}
  IN  Place(c, X, [w \in X |-> id], float, {w \in float : w \in c.positions[c.assignment[w]]})

MoveWindow(c, w, id) == MoveWindows(c, {w}, id)

SetFloatingPosition(c, id, w) == [c EXCEPT !.positions[id] = @ \cup {w}]

\* Of the windows X, those that float in the workspace their display shows have
\* their frame recorded.
RecordActiveFloatingPositions(c, X) ==
  [c EXCEPT !.positions = [id \in WorkspaceIds |->
     @[id] \cup {w \in X \cap c.floating[id] : c.active[c.display[id]] = id}]]

-----------------------------------------------------------------------------
(* Workspaces *)

CanCreate(c, n) == c.byNumber[n] = None /\ c.nextId < MaxWorkspaceId

\* The lowest free id is used again.
FaultyCreate(c, n, d) ==
  LET id == CHOOSE i \in WorkspaceIds \ Live(c) : \A j \in WorkspaceIds \ Live(c) : i <= j
  IN  [c EXCEPT !.nextId = IF id > @ THEN id ELSE @,
                !.display[id] = d,
                !.number[id] = n,
                !.byNumber[n] = id,
                !.known = @ \cup {d},
                !.active[d] = IF @ = None THEN id ELSE @]

Create(c, n, d) ==
  LET id == c.nextId + 1
  IN  [c EXCEPT !.nextId = id,
                !.display[id] = d,
                !.number[id] = n,
                !.byNumber[n] = id,
                !.known = @ \cup {d},
                !.active[d] = IF @ = None THEN id ELSE @]

CanActivate(c, d, id) ==
  /\ id \in WorkspaceIds
  /\ c.display[id] = d
  /\ c.number[id] # None

\* The place to return to is kept.
FaultyActivate(c, d, id) ==
  LET shown == c.active[d]
  IN  IF shown = id THEN c
      ELSE [c EXCEPT !.known = @ \cup {d},
                     !.last[d] = IF shown # None /\ c.number[shown] # None THEN shown ELSE @,
                     !.active[d] = id]

\* A hidden workspace never becomes the `last` one.
Activate(c, d, id) ==
  LET shown == c.active[d]
      known == c.known \cup {d}
  IN  IF shown = id THEN [c EXCEPT !.known = known]
      ELSE [c EXCEPT !.known = known,
                     !.last[d] = IF shown # None /\ c.number[shown] # None THEN shown ELSE @,
                     !.active[d] = id,
                     !.hiddenReturn[d] = None]

CanHide(c, d) == c.hidden[d] = None => c.nextId < MaxWorkspaceId

EnsureHidden(c, d) ==
  LET id == c.nextId + 1
  IN  IF c.hidden[d] # None THEN c
      ELSE [c EXCEPT !.nextId = id, !.display[id] = d, !.number[id] = None, !.hidden[d] = id]

ShowsHidden(c, d) == c.hidden[d] # None /\ c.active[d] = c.hidden[d]

CanToggleHidden(c, d) == NumberedOn(c, d) # {} /\ CanHide(c, d)

ToggleHidden(c, d) ==
  LET back(id) == IF id \in NumberedOn(c, d) THEN id ELSE FirstNumbered(c, d)
      h == EnsureHidden(c, d)
  IN  IF ShowsHidden(c, d)
      THEN [c EXCEPT !.known = @ \cup {d},
                     !.active[d] = back(c.hiddenReturn[d]),
                     !.hiddenReturn[d] = None]
      ELSE [h EXCEPT !.known = @ \cup {d},
                     !.hiddenReturn[d] = back(c.active[d]),
                     !.active[d] = h.hidden[d]]

\* An empty numbered workspace that its display does not show goes away, unless
\* it is the last numbered one of the display.
IsEphemeral(c, id) ==
  /\ c.display[id] # None
  /\ c.number[id] # None
  /\ IsEmpty(c, id)
  /\ c.active[c.display[id]] # id
  /\ NumberedOn(c, c.display[id]) # {id}

\* Only the last numbered workspace goes away, with every mention of it.
FaultyDestroyLast(c, id) ==
  LET d == c.display[id]
  IN  IF d # None /\ IsEmpty(c, id) /\ c.active[d] # id /\ NumberedOn(c, d) = {id}
      THEN [c EXCEPT !.display[id] = None,
                     !.number[id] = None,
                     !.positions[id] = {},
                     !.byNumber[c.number[id]] = None,
                     !.last[d] = IF @ = id THEN None ELSE @,
                     !.hiddenReturn[d] = IF @ = id THEN None ELSE @]
      ELSE c

\* `last` still names the workspace.
FaultyDestroyIfEphemeral(c, id) ==
  IF IsEphemeral(c, id)
  THEN [c EXCEPT !.display[id] = None,
                 !.number[id] = None,
                 !.positions[id] = {},
                 !.byNumber[c.number[id]] = None]
  ELSE c

DestroyIfEphemeral(c, id) ==
  IF IsEphemeral(c, id)
  THEN LET d == c.display[id]
       IN  [c EXCEPT !.display[id] = None,
                     !.number[id] = None,
                     !.positions[id] = {},
                     !.byNumber[c.number[id]] = None,
                     !.last[d] = IF @ = id THEN None ELSE @]
  ELSE c

-----------------------------------------------------------------------------
(* Start-up and display topology *)

\* from_persisted: `owner` and `number` are the persisted display and slot of each
\* saved id.  A display shows its lowest number.
FromPersisted(saved, owner, number) ==
  LET of(d) == {id \in saved : owner[id] = d}
      lowest(S) == CHOOSE id \in S : \A other \in S : number[id] <= number[other]
      holder(n) == {id \in saved : number[id] = n}
  IN  [EmptyCatalog EXCEPT
        !.display = [id \in WorkspaceIds |-> IF id \in saved THEN owner[id] ELSE None],
        !.number = [id \in WorkspaceIds |-> IF id \in saved THEN number[id] ELSE None],
        !.byNumber = [n \in Slots |->
           IF holder(n) = {} THEN None ELSE CHOOSE id \in holder(n) : TRUE],
        !.known = {d \in Displays : of(d) # {}},
        !.active = [d \in Displays |-> IF of(d) = {} THEN None ELSE lowest(of(d))],
        !.nextId = IF saved = {} THEN 0
                   ELSE CHOOSE id \in saved : \A other \in saved : other <= id]

\* The first half of reconcile_displays: workspaces of offline displays move to
\* the receiver, whose hidden workspace absorbs the hidden ones that arrive.
Migrate(c, online, receiver) ==
  LET orphaned == {d \in Displays \ online : c.hidden[d] # None}
      firstOrphaned == CHOOSE d \in orphaned : \A other \in orphaned : d <= other
      target == IF orphaned = {} \/ c.hidden[receiver] # None THEN c.hidden[receiver]
                ELSE c.hidden[firstOrphaned]
      merged == {c.hidden[d] : d \in orphaned} \ {target}
      p == MoveWindows(c, {w \in Windows : c.assignment[w] \in merged}, target)
      keep(f) == [d \in Displays |-> IF d \in online THEN f[d] ELSE None]
  IN  [p EXCEPT
        !.display = [id \in WorkspaceIds |->
           IF id \in merged THEN None
           ELSE IF c.display[id] \in Displays \ online THEN receiver ELSE c.display[id]],
        !.hidden = [keep(c.hidden) EXCEPT ![receiver] = target],
        !.known = online,
        !.active = keep(c.active),
        !.last = keep(c.last),
        !.hiddenReturn = keep(c.hiddenReturn)]

\* The displays without a workspace, and the slot and id each of them gets: the
\* displays are served in the order `queue`, each with the first free number.
FaultyUnserved(c, online) == {d \in online : OnDisplay(c, d) = {} /\ online # {d}}
Unserved(c, online) == {d \in online : OnDisplay(c, d) = {}}
NewSlot(c, online, queue, d) ==
  CHOOSE n \in FreeSlots(c) :
    Rank(FreeSlots(c), [m \in Slots |-> m], n) = Rank(Unserved(c, online), queue, d)
NewId(c, online, queue, d) == c.nextId + Rank(Unserved(c, online), queue, d)

CanServe(c, online, queue) ==
  /\ c.nextId + Cardinality(Unserved(c, online)) <= MaxWorkspaceId
  /\ \A d \in Unserved(c, online) :
       \E n \in FreeSlots(c) :
         Rank(FreeSlots(c), [m \in Slots |-> m], n) = Rank(Unserved(c, online), queue, d)

Serve(c, online, queue) ==
  LET needy == Unserved(c, online)
      id(d) == NewId(c, online, queue, d)
      slot(d) == NewSlot(c, online, queue, d)
      forId(i) == {d \in needy : id(d) = i}
      forSlot(n) == {d \in needy : slot(d) = n}
      the(S) == CHOOSE d \in S : TRUE
  IN  IF needy = {} THEN c
      ELSE [c EXCEPT
        !.nextId = @ + Cardinality(needy),
        !.display = [i \in WorkspaceIds |->
           IF forId(i) = {} THEN c.display[i] ELSE the(forId(i))],
        !.number = [i \in WorkspaceIds |->
           IF forId(i) = {} THEN c.number[i] ELSE slot(the(forId(i)))],
        !.byNumber = [n \in Slots |->
           IF forSlot(n) = {} THEN c.byNumber[n] ELSE id(the(forSlot(n)))],
        !.active = [d \in Displays |->
           IF d \in needy /\ c.active[d] = None THEN id(d) ELSE c.active[d]]]

\* The second half of reconcile_displays: every online display shows one of its
\* own workspaces, and remembers only those.
Settle(c, online) ==
  LET own(d, id) == IF id \in OnDisplay(c, d) THEN id ELSE None
  IN  [c EXCEPT
        !.active = [d \in Displays |->
           IF d \in online /\ own(d, c.active[d]) = None
           THEN FirstNumbered(c, d) ELSE c.active[d]],
        !.last = [d \in Displays |->
           IF d \in online THEN own(d, c.last[d]) ELSE c.last[d]],
        !.hiddenReturn = [d \in Displays |->
           IF d \in online THEN own(d, c.hiddenReturn[d]) ELSE c.hiddenReturn[d]]]

CanReconcile(c, online, receiver, queue) ==
  IF online = {} THEN Live(c) = {}
  ELSE CanServe(Migrate(c, online, receiver), online, queue)

Reconcile(c, online, receiver, queue) ==
  IF online = {} THEN [c EXCEPT !.known = {},
                                !.active = [d \in Displays |-> None],
                                !.last = [d \in Displays |-> None],
                                !.hiddenReturn = [d \in Displays |-> None]]
  ELSE Settle(Serve(Migrate(c, online, receiver), online, queue), online)

-----------------------------------------------------------------------------
(* WorkspaceCatalog::validate, check by check *)

IndexHasRightSize(c) ==
  Cardinality(Live(c)) = Cardinality({n \in Slots : c.byNumber[n] # None})
                       + Cardinality({d \in Displays : c.hidden[d] # None})

IndexAgrees(c) ==
  \A id \in Live(c) :
    IF c.number[id] # None THEN c.byNumber[c.number[id]] = id
                           ELSE c.hidden[c.display[id]] = id

MembershipAgrees(c) ==
  /\ \A id \in WorkspaceIds : c.tiled[id] \cap c.floating[id] = {}
  /\ \A w \in Windows, id \in WorkspaceIds :
       w \in c.tiled[id] \cup c.floating[id] <=> c.assignment[w] = id

DisplayStateAgrees(c) ==
  \A d \in c.known :
    /\ c.active[d] \in Opt(OnDisplay(c, d))
    /\ c.last[d] \in Opt(NumberedOn(c, d))
    /\ c.hiddenReturn[d] \in Opt(NumberedOn(c, d))
    /\ OnDisplay(c, d) # {} => c.active[d] # None

Validate(c) ==
  /\ IndexHasRightSize(c)
  /\ IndexAgrees(c)
  /\ MembershipAgrees(c)
  /\ DisplayStateAgrees(c)

-----------------------------------------------------------------------------
(* What every operation keeps, whatever the order of operations (proved in  *)
(* CoreStateProofs)                                                          *)

LiveBelowNext(c) == \A id \in Live(c) : id <= c.nextId

\* The number index and the hidden index name live workspaces, each its own.
Indexed(c) ==
  /\ \A n \in Slots : c.byNumber[n] # None =>
       c.byNumber[n] \in Live(c) /\ c.number[c.byNumber[n]] = n
  /\ \A d \in Displays : c.hidden[d] # None =>
       c.display[c.hidden[d]] = d /\ c.number[c.hidden[d]] = None

\* A display that owns a workspace owns a numbered one.
KeepsANumber(c) ==
  \A d \in Displays : OnDisplay(c, d) # {} => NumberedOn(c, d) # {}

Sound(c) == IsCatalog(c) /\ LiveBelowNext(c) /\ Indexed(c) /\ KeepsANumber(c)

\* The displays of D are known and own a workspace.
Served(c, D) == D \subseteq c.known /\ \A d \in D : OnDisplay(c, d) # {}

=============================================================================
