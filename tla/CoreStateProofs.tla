-------------------------- MODULE CoreStateProofs --------------------------
(***************************************************************************)
(* The safety of CoreState, for any number of displays, windows and slots, *)
(* any topologies and any rules.  First the catalog: every operation of    *)
(* it keeps it sound and keeps displays served, and most lead from a valid *)
(* catalog to a valid one.                                                 *)
(***************************************************************************)
EXTENDS CoreState, FiniteSetTheorems, TLAPS

-----------------------------------------------------------------------------
(* The catalog (WorkspaceCatalog) *)

LEMMA MinExists ==
  ASSUME NEW S \in SUBSET Nat, S # {}
  PROVE  \E x \in S : \A y \in S : x <= y
<1>. DEFINE F == {0..x : x \in S}
<1>1. ASSUME NEW x \in S  PROVE 0..x \in FiniteSubsetsOf(Nat)
  <2>1. IsFiniteSet(0..x)
    BY FS_Interval
  <2>. QED  BY <2>1 DEF FiniteSubsetsOf
<1>2. F \subseteq FiniteSubsetsOf(Nat) /\ F # {}
  BY <1>1
<1>3. IsWellFoundedOn(StrictSubsetOrdering(Nat), FiniteSubsetsOf(Nat))
  BY FS_StrictSubsetOrderingWellFounded
<1>4. PICK I \in F : \A J \in F : ~ (<<J, I>> \in StrictSubsetOrdering(Nat))
  <2>. HIDE DEF F
  <2>. QED  BY <1>2, <1>3, WFMin
<1>5. PICK x \in S : I = 0..x
  BY <1>4
<1>6. ASSUME NEW y \in S, y < x  PROVE FALSE
  <2>1. 0..y \subseteq 0..x /\ x \in 0..x /\ x \notin 0..y
    BY <1>6
  <2>2. 0..y # 0..x /\ 0..y \in SUBSET Nat /\ 0..x \in SUBSET Nat
    BY <2>1
  <2>3. <<0..y, 0..x>> \in StrictSubsetOrdering(Nat)
    BY <2>1, <2>2, Zenon DEF StrictSubsetOrdering
  <2>. QED  BY <2>3, <1>4, <1>5, Zenon
<1>. QED  BY <1>6

LEMMA MinByKey ==
  ASSUME NEW S, S # {}, NEW key, \A x \in S : key[x] \in Nat
  PROVE  \E x \in S : \A y \in S : key[x] <= key[y]
<1>. DEFINE K == {key[x] : x \in S}
<1>1. PICK k \in K : \A m \in K : k <= m
  BY MinExists
<1>. QED  BY <1>1

LEMMA RankRange ==
  ASSUME NEW S, IsFiniteSet(S), NEW key, \A y \in S : key[y] \in Nat, NEW x \in S
  PROVE  Rank(S, key, x) \in 1..Cardinality(S)
<1>. DEFINE T == {y \in S : key[y] <= key[x]}
<1>1. IsFiniteSet(T) /\ Cardinality(T) <= Cardinality(S)
  BY FS_Subset
<1>2. T # {}
  BY key[x] \in Nat
<1>3. Cardinality(T) \in Nat /\ Cardinality(S) \in Nat /\ Cardinality(T) # 0
  <2>. HIDE DEF T
  <2>. QED  BY <1>1, <1>2, FS_CardinalityType, FS_EmptySet
<1>. QED  BY <1>1, <1>3 DEF Rank

LEMMA RankStrict ==
  ASSUME NEW S, IsFiniteSet(S), NEW key, \A y \in S : key[y] \in Nat,
         NEW v \in S, NEW w \in S, key[v] < key[w]
  PROVE  Rank(S, key, v) < Rank(S, key, w)
<1>. DEFINE T(x) == {y \in S : key[y] <= key[x]}
<1>1. T(v) \in SUBSET T(w) /\ w \in T(w) /\ w \notin T(v)
  OBVIOUS
<1>2. IsFiniteSet(T(w)) /\ IsFiniteSet(T(v))
  BY FS_Subset
<1>3. Cardinality(T(v)) <= Cardinality(T(w)) /\ Cardinality(T(v)) # Cardinality(T(w))
  <2>. HIDE DEF T
  <2>. QED  BY <1>1, <1>2, FS_Subset
<1>4. Cardinality(T(v)) \in Nat /\ Cardinality(T(w)) \in Nat
  BY <1>2, FS_CardinalityType
<1>. QED  BY <1>3, <1>4 DEF Rank

LEMMA RankInjective ==
  ASSUME NEW S, IsFiniteSet(S), NEW key, \A y \in S : key[y] \in Nat,
         NEW v \in S, NEW w \in S, key[v] # key[w]
  PROVE  Rank(S, key, v) # Rank(S, key, w)
<1>1. key[v] < key[w] \/ key[w] < key[v]
  OBVIOUS
<1>2. Rank(S, key, v) \in Int /\ Rank(S, key, w) \in Int
  BY RankRange
<1>. QED  BY <1>1, <1>2, RankStrict

-----------------------------------------------------------------------------
LEMMA NoneIsOutside ==
  None \notin Displays /\ None \notin Windows /\ None \notin Slots /\ None \notin WorkspaceIds
<1>1. None \notin Displays /\ None \notin Windows
  BY CatalogAssumption DEF CatalogAssumption
<1>2. None \notin Slots /\ None \notin WorkspaceIds
  <2>1. \A m \in Nat : 1..m \subseteq Nat
    OBVIOUS
  <2>. QED  BY <2>1, CatalogAssumption DEF CatalogAssumption, Slots, WorkspaceIds
<1>. QED  BY <1>1, <1>2

\* What e owes to the catalog c it was made from: an id that was given away stands
\* for the same workspace or for none, and displays stay served.
Stable(c, e) ==
  /\ c.nextId <= e.nextId
  /\ \A id \in WorkspaceIds : id <= c.nextId =>
       IF id \in Live(c) THEN id \in Live(e) => e.number[id] = c.number[id]
       ELSE id \notin Live(e)

Succeeds(c, e) ==
  /\ Sound(e)
  /\ Stable(c, e)
  /\ \A D \in SUBSET Displays : Served(c, D) => Served(e, D)

LEMMA StableTransitive ==
  ASSUME NEW c, Sound(c), NEW e, Sound(e), NEW f, Sound(f), Stable(c, e), Stable(e, f)
  PROVE  Stable(c, f)
<1>1. c.nextId \in Int /\ e.nextId \in Int /\ f.nextId \in Int /\ WorkspaceIds \subseteq Int
  BY CatalogAssumption DEF CatalogAssumption, Sound, IsCatalog, WorkspaceIds
<1>. QED  BY <1>1 DEF Stable

LEMMA SucceedsItself == ASSUME NEW c, Sound(c)  PROVE Succeeds(c, c)
<1>1. c.nextId \in Int
  BY CatalogAssumption DEF CatalogAssumption, Sound, IsCatalog
<1>. QED  BY <1>1 DEF Succeeds, Stable

LEMMA SucceedsTransitive ==
  ASSUME NEW c, Sound(c), NEW e, Succeeds(c, e), NEW f, Succeeds(e, f)
  PROVE  Succeeds(c, f)
BY StableTransitive DEF Succeeds

(***************************************************************************)
(* Most operations add workspaces, possibly none, and leave the others as  *)
(* they are.  The new ids are fresh, the indexes gain only new ids, and a  *)
(* display that gains a hidden workspace has a numbered one already.       *)
(***************************************************************************)
Adds(c, e, N) ==
  /\ N \subseteq WorkspaceIds
  /\ c.nextId <= e.nextId
  /\ \A id \in N : c.nextId < id /\ id <= e.nextId
  /\ \A id \in WorkspaceIds \ N : e.display[id] = c.display[id] /\ e.number[id] = c.number[id]
  /\ \A id \in N : e.display[id] \in Displays
  /\ \A id \in N : e.number[id] = None => NumberedOn(c, e.display[id]) # {}
  /\ \A n \in Slots : e.byNumber[n] # c.byNumber[n] =>
       e.byNumber[n] \in N /\ e.number[e.byNumber[n]] = n
  /\ \A d \in Displays : e.hidden[d] # c.hidden[d] =>
       /\ e.hidden[d] \in N
       /\ e.display[e.hidden[d]] = d
       /\ e.number[e.hidden[d]] = None
  /\ c.known \subseteq e.known

LEMMA AddsSound ==
  ASSUME NEW c, Sound(c), NEW e, IsCatalog(e), NEW N, Adds(c, e, N)
  PROVE  Succeeds(c, e)
<1>1. c.nextId \in Int /\ e.nextId \in Int /\ WorkspaceIds \subseteq Int
  BY CatalogAssumption DEF CatalogAssumption, Sound, IsCatalog, WorkspaceIds
<1>2. \A id \in N : c.display[id] = None
  <2>1. ASSUME NEW id \in N  PROVE id \notin Live(c)
    BY <1>1 DEF Adds, Sound, LiveBelowNext
  <2>. QED  BY <2>1 DEF Live, Adds
<1>3. \A id \in WorkspaceIds : c.display[id] # None =>
         e.display[id] = c.display[id] /\ e.number[id] = c.number[id]
  BY <1>2 DEF Adds
<1>4. LiveBelowNext(e)
  BY <1>1 DEF LiveBelowNext, Live, Sound, Adds
<1>5. Indexed(e)
  <2>1. ASSUME NEW n \in Slots, e.byNumber[n] # None
        PROVE  e.byNumber[n] \in Live(e) /\ e.number[e.byNumber[n]] = n
    <3>1. CASE e.byNumber[n] = c.byNumber[n]
      BY <2>1, <3>1, <1>3 DEF Indexed, Sound, Live
    <3>2. CASE e.byNumber[n] # c.byNumber[n]
      BY <3>2, NoneIsOutside DEF Adds, Live
    <3>. QED  BY <3>1, <3>2
  <2>2. ASSUME NEW d \in Displays, e.hidden[d] # None
        PROVE  e.display[e.hidden[d]] = d /\ e.number[e.hidden[d]] = None
    <3>1. CASE e.hidden[d] = c.hidden[d]
      <4>1. c.hidden[d] \in WorkspaceIds
        BY <2>2, <3>1 DEF Sound, IsCatalog, Opt
      <4>. QED  BY <2>2, <3>1, <4>1, <1>3, NoneIsOutside DEF Indexed, Sound
    <3>2. CASE e.hidden[d] # c.hidden[d]
      BY <3>2 DEF Adds
    <3>. QED  BY <3>1, <3>2
  <2>. QED  BY <2>1, <2>2 DEF Indexed
<1>6. \A d \in Displays : NumberedOn(c, d) # {} => NumberedOn(e, d) # {}
  BY <1>3, NoneIsOutside DEF NumberedOn, OnDisplay
<1>7. KeepsANumber(e)
  <2>1. ASSUME NEW d \in Displays, NEW id \in WorkspaceIds, e.display[id] = d
        PROVE  NumberedOn(e, d) # {}
    <3>1. CASE id \in N /\ e.number[id] # None
      BY <3>1, <2>1 DEF NumberedOn, OnDisplay
    <3>2. CASE id \in N /\ e.number[id] = None
      BY <3>2, <2>1, <1>6 DEF Adds
    <3>3. CASE id \notin N
      <4>1. OnDisplay(c, d) # {}
        BY <3>3, <2>1 DEF OnDisplay, Adds
      <4>. QED  BY <4>1, <1>6 DEF Sound, KeepsANumber
    <3>. QED  BY <3>1, <3>2, <3>3
  <2>. QED  BY <2>1 DEF KeepsANumber, OnDisplay
<1>8. ASSUME NEW D \in SUBSET Displays, Served(c, D)  PROVE Served(e, D)
  BY <1>3, <1>8, NoneIsOutside DEF Served, OnDisplay, Adds
<1>9. Stable(c, e)
  <2>1. ASSUME NEW id \in WorkspaceIds, id <= c.nextId
        PROVE  e.display[id] = c.display[id] /\ e.number[id] = c.number[id]
    BY <1>1, <2>1 DEF Adds
  <2>. QED  BY <2>1 DEF Stable, Live, Adds
<1>. QED  BY <1>4, <1>5, <1>7, <1>8, <1>9 DEF Sound, Succeeds

(***************************************************************************)
(* Operations that add workspaces, possibly none, and let displays without *)
(* one show a numbered one: they are valid when the indexes gain what they *)
(* had not, and every display that becomes known shows something.          *)
(***************************************************************************)
Grows(c, e, N) ==
  /\ Adds(c, e, N)
  /\ \A id \in N : IF e.number[id] # None THEN e.byNumber[e.number[id]] = id
                   ELSE e.hidden[e.display[id]] = id
  /\ \A n \in Slots : e.byNumber[n] # c.byNumber[n] => c.byNumber[n] = None
  /\ \A d \in Displays : e.hidden[d] # c.hidden[d] => c.hidden[d] = None
  /\ \A d \in Displays : e.active[d] # c.active[d] =>
       c.active[d] = None /\ e.active[d] \in NumberedOn(e, d) /\ d \in e.known
  /\ e.last = c.last /\ e.hiddenReturn = c.hiddenReturn
  /\ e.tiled = c.tiled /\ e.floating = c.floating /\ e.positions = c.positions
  /\ e.assignment = c.assignment

\* Every display that may gain a workspace shows one.
ShowsNew(c, e, N) ==
  /\ \A d \in e.known \ c.known : e.active[d] # None
  /\ \A id \in N : e.display[id] \in e.known => e.active[e.display[id]] # None

LEMMA GrowsItself == ASSUME NEW c, Sound(c)  PROVE Grows(c, c, {}) /\ ShowsNew(c, c, {})
<1>1. c.nextId \in Int
  BY CatalogAssumption DEF CatalogAssumption, Sound, IsCatalog
<1>. QED  BY <1>1 DEF Grows, ShowsNew, Adds

LEMMA Fresh ==
  ASSUME NEW c, Sound(c), c.nextId < MaxWorkspaceId
  PROVE  c.nextId + 1 \in WorkspaceIds /\ c.nextId \in Int
BY CatalogAssumption DEF CatalogAssumption, Sound, IsCatalog, WorkspaceIds

LEMMA CreateSound ==
  ASSUME NEW c, Sound(c), NEW n \in Slots, NEW d \in Displays, CanCreate(c, n),
         NEW e, e = Create(c, n, d)
  PROVE  /\ Succeeds(c, e)
         /\ e.byNumber[n] \in WorkspaceIds
         /\ e.display[e.byNumber[n]] = d
         /\ e.assignment = c.assignment
<1>. DEFINE id == c.nextId + 1
<1>1. id \in WorkspaceIds /\ c.nextId \in Int
  BY Fresh DEF CanCreate
<1>2. /\ e.display = [c.display EXCEPT ![id] = d]
      /\ e.number = [c.number EXCEPT ![id] = n]
      /\ e.byNumber = [c.byNumber EXCEPT ![n] = id]
      /\ e.hidden = c.hidden
      /\ e.nextId = id
      /\ e.known = c.known \cup {d}
      /\ e.assignment = c.assignment
  BY DEF Create
<1>3. IsCatalog(e)
  BY <1>1, CatalogAssumption DEF CatalogAssumption, Sound, IsCatalog, Create, CanCreate, Opt, WorkspaceIds
<1>4. Adds(c, e, {id})
  BY <1>1, <1>2, NoneIsOutside DEF Adds, Sound, IsCatalog
<1>5. e.byNumber[n] = id /\ e.display[id] = d
  BY <1>1, <1>2 DEF Sound, IsCatalog
<1>. QED
  BY <1>1, <1>2, <1>3, <1>4, <1>5, AddsSound

LEMMA EnsureHiddenSound ==
  ASSUME NEW c, Sound(c), NEW d \in Displays, CanHide(c, d), NumberedOn(c, d) # {},
         NEW e, e = EnsureHidden(c, d)
  PROVE  /\ Succeeds(c, e)
         /\ e.hidden[d] \in WorkspaceIds
         /\ e.assignment = c.assignment
<1>1. CASE c.hidden[d] # None
  <2>1. e = c
    BY <1>1 DEF EnsureHidden
  <2>. QED  BY <1>1, <2>1, SucceedsItself DEF Sound, IsCatalog, Opt
<1>2. CASE c.hidden[d] = None
  <2>. DEFINE h == c.nextId + 1
  <2>1. h \in WorkspaceIds /\ c.nextId \in Int
    BY <1>2, Fresh DEF CanHide
  <2>2. /\ e.display = [c.display EXCEPT ![h] = d]
        /\ e.hidden = [c.hidden EXCEPT ![d] = h]
        /\ e.number = [c.number EXCEPT ![h] = None]
        /\ e.byNumber = c.byNumber
        /\ e.nextId = h
        /\ e.known = c.known
        /\ e.assignment = c.assignment
    BY <1>2 DEF EnsureHidden
  <2>3. IsCatalog(e)
    BY <1>2, <2>1, CatalogAssumption
    DEF CatalogAssumption, Sound, IsCatalog, EnsureHidden, Opt, WorkspaceIds
  <2>4. /\ e.display[h] = d /\ e.number[h] = None /\ e.hidden[d] = h
        /\ \A id \in WorkspaceIds \ {h} :
             e.display[id] = c.display[id] /\ e.number[id] = c.number[id]
        /\ \A f \in Displays \ {d} : e.hidden[f] = c.hidden[f]
    BY <2>1, <2>2 DEF Sound, IsCatalog
  <2>5. Adds(c, e, {h})
    <3>. HIDE DEF h
    <3>1. c.nextId < h /\ h <= e.nextId /\ c.nextId <= e.nextId
      BY <2>1, <2>2 DEF h
    <3>. QED  BY <2>1, <2>2, <2>4, <3>1 DEF Adds
  <2>. QED  BY <2>1, <2>2, <2>3, <2>4, <2>5, AddsSound
<1>. QED  BY <1>1, <1>2

-----------------------------------------------------------------------------
(* Operations that add no workspace and take none away. *)

Keeps(c, e) ==
  /\ e.display = c.display /\ e.number = c.number
  /\ e.byNumber = c.byNumber /\ e.hidden = c.hidden
  /\ e.nextId = c.nextId
  /\ c.known \subseteq e.known

LEMMA KeepsSound ==
  ASSUME NEW c, Sound(c), NEW e, IsCatalog(e), Keeps(c, e)
  PROVE  Succeeds(c, e)
<1>1. c.nextId \in Int
  BY CatalogAssumption DEF CatalogAssumption, Sound, IsCatalog
<1>2. Adds(c, e, {})
  BY <1>1 DEF Keeps, Adds
<1>. QED  BY <1>2, AddsSound

LEMMA ActivateSound ==
  ASSUME NEW c, Sound(c), NEW d \in Displays, NEW id, CanActivate(c, d, id),
         NEW e, e = Activate(c, d, id)
  PROVE  Succeeds(c, e)
<1>1. Keeps(c, e)
  BY DEF Keeps, Activate
<1>2. IsCatalog(e)
  BY DEF Activate, CanActivate, Sound, IsCatalog, Opt
<1>. QED  BY <1>1, <1>2, KeepsSound

LEMMA FirstNumberedExists ==
  ASSUME NEW c, IsCatalog(c), NEW d, NumberedOn(c, d) # {}
  PROVE  FirstNumbered(c, d) \in NumberedOn(c, d)
<1>1. \A id \in NumberedOn(c, d) : c.number[id] \in Nat
  BY DEF NumberedOn, OnDisplay, IsCatalog, Opt, Slots
<1>2. \E id \in NumberedOn(c, d) : \A other \in NumberedOn(c, d) : c.number[id] <= c.number[other]
  BY <1>1, MinByKey
<1>. QED  BY <1>2 DEF FirstNumbered

LEMMA ToggleHiddenSound ==
  ASSUME NEW c, Sound(c), NEW d \in Displays, CanToggleHidden(c, d),
         NEW e, e = ToggleHidden(c, d)
  PROVE  Succeeds(c, e)
<1>. DEFINE back(id) == IF id \in NumberedOn(c, d) THEN id ELSE FirstNumbered(c, d)
<1>1. \A id : back(id) \in WorkspaceIds
  BY FirstNumberedExists DEF NumberedOn, OnDisplay, Sound, CanToggleHidden
<1>2. CASE ShowsHidden(c, d)
  <2>1. e = [c EXCEPT !.known = @ \cup {d},
                      !.active[d] = back(c.hiddenReturn[d]),
                      !.hiddenReturn[d] = None]
    BY <1>2 DEF ToggleHidden
  <2>2. Keeps(c, e)
    BY <2>1 DEF Keeps
  <2>3. IsCatalog(e)
    BY <2>1, <1>1 DEF Sound, IsCatalog, Opt
  <2>. QED  BY <2>2, <2>3, KeepsSound
<1>3. CASE ~ShowsHidden(c, d)
  <2>. DEFINE h == EnsureHidden(c, d)
  <2>1. Succeeds(c, h) /\ Sound(h) /\ h.hidden[d] \in WorkspaceIds
    BY EnsureHiddenSound DEF CanToggleHidden, Succeeds
  <2>2. e = [h EXCEPT !.known = @ \cup {d},
                      !.hiddenReturn[d] = back(c.active[d]),
                      !.active[d] = h.hidden[d]]
    BY <1>3 DEF ToggleHidden
  <2>. HIDE DEF h
  <2>3. Keeps(h, e)
    BY <2>2 DEF Keeps
  <2>4. IsCatalog(e)
    BY <2>1, <2>2, <1>1 DEF Sound, IsCatalog, Opt
  <2>. QED  BY <2>1, <2>3, <2>4, KeepsSound, SucceedsTransitive
<1>. QED  BY <1>2, <1>3

LEMMA PlaceSound ==
  ASSUME NEW c, Sound(c), NEW X \in SUBSET Windows, NEW dest,
         \A w \in X : dest[w] \in Opt(WorkspaceIds),
         NEW float, NEW framed, NEW e, e = Place(c, X, dest, float, framed)
  PROVE  Succeeds(c, e)
<1>1. Keeps(c, e)
  BY DEF Keeps, Place
<1>2. IsCatalog(e)
  BY DEF Place, Sound, IsCatalog, Opt
<1>. QED  BY <1>1, <1>2, KeepsSound

LEMMA AssignTiledSound ==
  ASSUME NEW c, Sound(c), NEW w \in Windows, NEW id \in WorkspaceIds,
         NEW e, e = AssignTiled(c, id, w)
  PROVE  Succeeds(c, e)
<1>. DEFINE dest == [x \in {w} |-> id]
<1>1. e = Place(c, {w}, dest, {}, {})
  BY DEF AssignTiled
<1>2. \A x \in {w} : dest[x] \in Opt(WorkspaceIds)
  BY DEF Opt
<1>. HIDE DEF dest
<1>. QED  BY <1>1, <1>2, PlaceSound

LEMMA AssignFloatingSound ==
  ASSUME NEW c, Sound(c), NEW w \in Windows, NEW id \in WorkspaceIds,
         NEW e, e = AssignFloating(c, id, w)
  PROVE  Succeeds(c, e)
<1>. DEFINE dest == [x \in {w} |-> id]
            stays == IF c.assignment[w] = id /\ IsFloating(c, w) THEN c.positions[id] ELSE {}
<1>1. e = Place(c, {w}, dest, {w}, stays)
  BY DEF AssignFloating
<1>2. \A x \in {w} : dest[x] \in Opt(WorkspaceIds)
  BY DEF Opt
<1>. HIDE DEF dest, stays
<1>. QED  BY <1>1, <1>2, PlaceSound

LEMMA MoveWindowsSound ==
  ASSUME NEW c, Sound(c), NEW X \in SUBSET Windows, NEW id \in Opt(WorkspaceIds),
         NEW e, e = MoveWindows(c, X, id)
  PROVE  Succeeds(c, e) /\ Keeps(c, e)
<1>. DEFINE dest == [w \in X |-> id]
            float == {w \in X : IsFloating(c, w)}
            framed == {w \in float : w \in c.positions[c.assignment[w]]}
<1>1. e = Place(c, X, dest, float, framed)
  BY DEF MoveWindows
<1>2. \A w \in X : dest[w] \in Opt(WorkspaceIds)
  OBVIOUS
<1>3. Keeps(c, e)
  BY <1>1 DEF Keeps, Place
<1>. HIDE DEF dest, float, framed
<1>. QED  BY <1>1, <1>2, <1>3, PlaceSound

LEMMA MoveWindowSound ==
  ASSUME NEW c, Sound(c), NEW w \in Windows, NEW id \in WorkspaceIds,
         NEW e, e = MoveWindow(c, w, id)
  PROVE  Succeeds(c, e)
BY MoveWindowsSound DEF MoveWindow, Opt

LEMMA SetFloatingPositionSound ==
  ASSUME NEW c, Sound(c), NEW w \in Windows, NEW id \in WorkspaceIds,
         NEW e, e = SetFloatingPosition(c, id, w)
  PROVE  Succeeds(c, e)
<1>1. Keeps(c, e)
  BY DEF Keeps, SetFloatingPosition
<1>2. IsCatalog(e)
  BY DEF SetFloatingPosition, Sound, IsCatalog
<1>. QED  BY <1>1, <1>2, KeepsSound

LEMMA RecordSound ==
  ASSUME NEW c, Sound(c), NEW X, NEW e, e = RecordActiveFloatingPositions(c, X)
  PROVE  Succeeds(c, e)
<1>1. Keeps(c, e)
  BY DEF Keeps, RecordActiveFloatingPositions
<1>2. IsCatalog(e)
  BY DEF RecordActiveFloatingPositions, Sound, IsCatalog
<1>. QED  BY <1>1, <1>2, KeepsSound

-----------------------------------------------------------------------------
(* Operations that take workspaces away. *)

\* Numbered workspaces go away, each but the last of its display.
LEMMA DestroySound ==
  ASSUME NEW c, Sound(c), NEW id \in WorkspaceIds, NEW e, e = DestroyIfEphemeral(c, id)
  PROVE  Succeeds(c, e)
<1>1. CASE ~IsEphemeral(c, id)
  BY <1>1, SucceedsItself DEF DestroyIfEphemeral
<1>2. CASE IsEphemeral(c, id)
  <2>. DEFINE home == c.display[id]
              slot == c.number[id]
  <2>1. /\ home \in Displays /\ slot \in Slots
        /\ NumberedOn(c, home) # {id}
    BY <1>2 DEF IsEphemeral, Sound, IsCatalog, Opt
  <2>2. /\ e.display = [c.display EXCEPT ![id] = None]
        /\ e.number = [c.number EXCEPT ![id] = None]
        /\ e.byNumber = [c.byNumber EXCEPT ![slot] = None]
        /\ e.hidden = c.hidden
        /\ e.nextId = c.nextId
        /\ e.known = c.known
    BY <1>2 DEF DestroyIfEphemeral
  <2>3. IsCatalog(e)
    BY <1>2, <2>1 DEF DestroyIfEphemeral, Sound, IsCatalog, Opt
  <2>4. /\ e.display[id] = None
        /\ e.byNumber[slot] = None
        /\ \A i \in WorkspaceIds \ {id} : e.display[i] = c.display[i] /\ e.number[i] = c.number[i]
        /\ \A n \in Slots \ {slot} : e.byNumber[n] = c.byNumber[n]
    BY <2>1, <2>2 DEF Sound, IsCatalog
  <2>5. LiveBelowNext(e)
    BY <2>2, <2>4 DEF Sound, LiveBelowNext, Live
  <2>6. Indexed(e)
    <3>1. ASSUME NEW n \in Slots, e.byNumber[n] # None
          PROVE  e.byNumber[n] \in Live(e) /\ e.number[e.byNumber[n]] = n
      <4>1. n # slot /\ e.byNumber[n] = c.byNumber[n]
        BY <3>1, <2>4
      <4>2. c.byNumber[n] \in Live(c) /\ c.number[c.byNumber[n]] = n
        BY <3>1, <4>1 DEF Sound, Indexed
      <4>3. c.byNumber[n] # id
        BY <4>1, <4>2
      <4>. QED  BY <4>1, <4>2, <4>3, <2>4 DEF Live
    <3>2. ASSUME NEW d \in Displays, e.hidden[d] # None
          PROVE  e.display[e.hidden[d]] = d /\ e.number[e.hidden[d]] = None
      <4>1. c.hidden[d] \in WorkspaceIds
        BY <3>2, <2>2 DEF Sound, IsCatalog, Opt
      <4>2. c.display[c.hidden[d]] = d /\ c.number[c.hidden[d]] = None
        BY <3>2, <2>2 DEF Sound, Indexed
      <4>3. c.hidden[d] # id
        BY <4>2, <2>1, NoneIsOutside
      <4>. QED  BY <4>1, <4>2, <4>3, <2>2, <2>4
    <3>. QED  BY <3>1, <3>2 DEF Indexed
  <2>7. \A d \in Displays : NumberedOn(c, d) # {} => NumberedOn(e, d) # {}
    <3>1. ASSUME NEW d \in Displays, NEW i \in NumberedOn(c, d), i # id
          PROVE  i \in NumberedOn(e, d)
      BY <3>1, <2>4 DEF NumberedOn, OnDisplay
    <3>2. \E i \in NumberedOn(c, home) : i # id
      BY <1>2, <2>1 DEF IsEphemeral, NumberedOn, OnDisplay
    <3>3. \A d \in Displays : id \in NumberedOn(c, d) => d = home
      BY DEF NumberedOn, OnDisplay
    <3>. QED  BY <3>1, <3>2, <3>3, <2>1
  <2>8. \A d \in Displays : OnDisplay(e, d) \subseteq OnDisplay(c, d)
    BY <2>4, NoneIsOutside DEF OnDisplay
  <2>9. KeepsANumber(e)
    BY <2>7, <2>8 DEF Sound, KeepsANumber
  <2>10. \A D \in SUBSET Displays : Served(c, D) => Served(e, D)
    BY <2>2, <2>7 DEF Served, Sound, KeepsANumber, NumberedOn
  <2>11. Stable(c, e)
    <3>1. c.nextId \in Int
      BY CatalogAssumption DEF CatalogAssumption, Sound, IsCatalog
    <3>. QED  BY <2>2, <2>4, <3>1 DEF Stable, Live
  <2>. QED  BY <2>3, <2>5, <2>6, <2>9, <2>10, <2>11 DEF Sound, Succeeds
<1>. QED  BY <1>1, <1>2

\* Workspaces of offline displays move to the receiver, and of the hidden ones at
\* most one is left.
LEMMA MigrateSound ==
  ASSUME NEW c, Sound(c), NEW attached \in SUBSET Displays, NEW receiver \in attached,
         NEW e, e = Migrate(c, attached, receiver)
  PROVE  Sound(e) /\ Stable(c, e) /\ e.known = attached
<1>. DEFINE
  orphaned == {d \in Displays \ attached : c.hidden[d] # None}
  firstOrphaned == CHOOSE d \in orphaned : \A other \in orphaned : d <= other
  target == IF orphaned = {} \/ c.hidden[receiver] # None THEN c.hidden[receiver]
            ELSE c.hidden[firstOrphaned]
  merged == {c.hidden[d] : d \in orphaned} \ {target}
  moving == {w \in Windows : c.assignment[w] \in merged}
  p == MoveWindows(c, moving, target)
  keep(f) == [d \in Displays |-> IF d \in attached THEN f[d] ELSE None]
<1>1. orphaned # {} => firstOrphaned \in orphaned
  <2>1. ASSUME orphaned # {}  PROVE \E d \in orphaned : \A other \in orphaned : d <= other
    <3>1. orphaned \in SUBSET Nat
      BY CatalogAssumption DEF CatalogAssumption
    <3>. HIDE DEF orphaned
    <3>. QED  BY <2>1, <3>1, MinExists
  <2>. QED  BY <2>1
<1>2. target \in Opt(WorkspaceIds)
  BY <1>1 DEF Sound, IsCatalog
<1>3. /\ e.display = [id \in WorkspaceIds |->
           IF id \in merged THEN None
           ELSE IF c.display[id] \in Displays \ attached THEN receiver ELSE c.display[id]]
      /\ e.number = c.number
      /\ e.byNumber = c.byNumber
      /\ e.hidden = [keep(c.hidden) EXCEPT ![receiver] = target]
      /\ e.nextId = c.nextId
      /\ e.known = attached
      /\ e.active = keep(c.active)
      /\ e.last = keep(c.last)
      /\ e.hiddenReturn = keep(c.hiddenReturn)
      /\ e.assignment = p.assignment
      /\ e.tiled = p.tiled
      /\ e.floating = p.floating
      /\ e.positions = p.positions
  <2>1. p.number = c.number /\ p.byNumber = c.byNumber /\ p.nextId = c.nextId
    <3>. HIDE DEF moving, target
    <3>1. moving \in SUBSET Windows /\ target \in Opt(WorkspaceIds)
      BY <1>2 DEF moving
    <3>. QED  BY <3>1, MoveWindowsSound DEF Keeps
  <2>2. e = [p EXCEPT
        !.display = [id \in WorkspaceIds |->
           IF id \in merged THEN None
           ELSE IF c.display[id] \in Displays \ attached THEN receiver ELSE c.display[id]],
        !.hidden = [keep(c.hidden) EXCEPT ![receiver] = target],
        !.known = attached,
        !.active = keep(c.active),
        !.last = keep(c.last),
        !.hiddenReturn = keep(c.hiddenReturn)]
    BY Zenon DEF Migrate
  <2>. HIDE DEF p, target, merged
  <2>. QED  BY <2>1, <2>2
<1>4. IsCatalog(e)
  <2>1. IsCatalog(p)
    <3>1. moving \in SUBSET Windows
      OBVIOUS
    <3>. HIDE DEF moving, target
    <3>2. Sound(p)
      BY <1>2, <3>1, MoveWindowsSound DEF Succeeds
    <3>. QED  BY <3>2 DEF Sound
  <2>. HIDE DEF p, merged, target
  <2>2. e.display \in [WorkspaceIds -> Opt(Displays)]
    BY <1>3 DEF Sound, IsCatalog, Opt
  <2>3. e.hidden \in [Displays -> Opt(WorkspaceIds)]
    BY <1>2, <1>3 DEF Sound, IsCatalog, Opt
  <2>4. /\ e.active \in [Displays -> Opt(WorkspaceIds)]
        /\ e.last \in [Displays -> Opt(WorkspaceIds)]
        /\ e.hiddenReturn \in [Displays -> Opt(WorkspaceIds)]
    BY <1>3 DEF Sound, IsCatalog, Opt
  <2>. QED  BY <1>3, <2>1, <2>2, <2>3, <2>4 DEF Sound, IsCatalog
<1>5. \A id \in merged : c.number[id] = None
  BY DEF Sound, Indexed
<1>6. ASSUME NEW id \in WorkspaceIds, id \notin merged
      PROVE  /\ c.display[id] \in attached => e.display[id] = c.display[id]
             /\ c.display[id] \in Displays \ attached => e.display[id] = receiver
             /\ c.display[id] = None => e.display[id] = None
  <2>. HIDE DEF merged, target
  <2>. QED  BY <1>3, <1>6, NoneIsOutside
<1>7. \A id \in merged \cap WorkspaceIds : e.display[id] = None
  <2>. HIDE DEF merged, target
  <2>. QED  BY <1>3
<1>8. ASSUME NEW id \in WorkspaceIds, c.display[id] # None, c.number[id] # None
      PROVE  e.display[id] = IF c.display[id] \in attached THEN c.display[id] ELSE receiver
  <2>1. id \notin merged
    BY <1>5, <1>8
  <2>2. c.display[id] \in Displays
    BY <1>8 DEF Sound, IsCatalog, Opt
  <2>. QED  BY <1>6, <2>1, <2>2
<1>9. LiveBelowNext(e)
  <2>1. \A id \in WorkspaceIds : e.display[id] # None => c.display[id] # None
    BY <1>6, <1>7
  <2>. QED  BY <1>3, <2>1 DEF Sound, LiveBelowNext, Live
<1>10. Indexed(e)
  <2>1. ASSUME NEW n \in Slots, e.byNumber[n] # None
        PROVE  e.byNumber[n] \in Live(e) /\ e.number[e.byNumber[n]] = n
    <3>1. c.byNumber[n] \in Live(c) /\ c.number[c.byNumber[n]] = n
      <4>1. c.byNumber[n] # None
        BY <1>3, <2>1
      <4>. QED  BY <4>1 DEF Sound, Indexed
    <3>2. c.byNumber[n] \in WorkspaceIds /\ c.display[c.byNumber[n]] # None
      BY <3>1 DEF Live
    <3>3. c.number[c.byNumber[n]] # None
      BY <3>1, NoneIsOutside
    <3>4. e.display[c.byNumber[n]] \in Displays
      BY <1>8, <3>2, <3>3 DEF Sound, IsCatalog, Opt
    <3>. HIDE DEF merged, target
    <3>. QED  BY <1>3, <3>1, <3>2, <3>4, NoneIsOutside DEF Live
  <2>2. ASSUME NEW d \in Displays, e.hidden[d] # None
        PROVE  e.display[e.hidden[d]] = d /\ e.number[e.hidden[d]] = None
    <3>1. CASE d = receiver
      <4>1. e.hidden[d] = target
        BY <1>3, <3>1
      <4>2. target \in WorkspaceIds /\ target \notin merged
        BY <1>2, <2>2, <4>1 DEF Opt
      <4>3. \E o \in {receiver} \cup (Displays \ attached) : c.hidden[o] = target
        <5>1. CASE orphaned = {} \/ c.hidden[receiver] # None
          BY <5>1
        <5>2. CASE ~(orphaned = {} \/ c.hidden[receiver] # None)
          <6>1. target = c.hidden[firstOrphaned]
            BY <5>2
          <6>2. firstOrphaned \in Displays \ attached
            BY <1>1, <5>2
          <6>. HIDE DEF target, firstOrphaned
          <6>. QED  BY <6>1, <6>2
        <5>. QED  BY <5>1, <5>2
      <4>4. PICK o \in {receiver} \cup (Displays \ attached) : c.hidden[o] = target
        BY <4>3
      <4>5. c.display[target] = o /\ c.number[target] = None
        BY <2>2, <4>1, <4>4 DEF Sound, Indexed
      <4>6. e.display[target] = receiver
        <5>. HIDE DEF target, merged
        <5>. QED  BY <1>6, <4>2, <4>5
      <4>7. e.number = c.number
        BY <1>3, Zenon
      <4>. HIDE DEF target, merged
      <4>. QED  BY <3>1, <4>1, <4>5, <4>6, <4>7
    <3>2. CASE d # receiver
      <4>1. d \in attached /\ e.hidden[d] = c.hidden[d]
        <5>. HIDE DEF target
        <5>. QED  BY <1>3, <2>2, <3>2
      <4>2. c.display[c.hidden[d]] = d /\ c.number[c.hidden[d]] = None
        BY <2>2, <4>1 DEF Sound, Indexed
      <4>3. c.hidden[d] \in WorkspaceIds
        BY <2>2, <4>1 DEF Sound, IsCatalog, Opt
      <4>4. c.hidden[d] \notin merged
        BY <4>1, <4>2 DEF Sound, Indexed
      <4>5. e.number = c.number
        BY <1>3, Zenon
      <4>. HIDE DEF target, merged
      <4>6. e.display[c.hidden[d]] = d
        BY <1>6, <4>1, <4>2, <4>3, <4>4
      <4>. QED  BY <4>1, <4>2, <4>5, <4>6
    <3>. QED  BY <3>1, <3>2
  <2>. QED  BY <2>1, <2>2 DEF Indexed
<1>11. KeepsANumber(e)
  <2>1. ASSUME NEW d \in Displays, NEW id \in WorkspaceIds, e.display[id] = d
        PROVE  NumberedOn(e, d) # {}
    <3>1. id \notin merged
      BY <1>7, <2>1, NoneIsOutside
    <3>2. c.display[id] \in Displays
      BY <1>6, <2>1, <3>1, NoneIsOutside DEF Sound, IsCatalog, Opt
    <3>3. d = IF c.display[id] \in attached THEN c.display[id] ELSE receiver
      BY <1>6, <2>1, <3>1, <3>2
    <3>4. PICK m \in WorkspaceIds : c.display[m] = c.display[id] /\ c.number[m] # None
      BY <3>2 DEF Sound, KeepsANumber, NumberedOn, OnDisplay
    <3>5. e.display[m] = d
      BY <1>8, <3>2, <3>3, <3>4, NoneIsOutside
    <3>6. e.number = c.number
      BY <1>3, Zenon
    <3>7. e.number[m] # None
      BY <3>4, <3>6
    <3>8. m \in NumberedOn(e, d)
      BY <3>5, <3>7 DEF NumberedOn, OnDisplay
    <3>. QED  BY <3>8
  <2>. QED  BY <2>1 DEF KeepsANumber, OnDisplay
<1>12. Stable(c, e)
  <2>1. c.nextId \in Int
    BY CatalogAssumption DEF CatalogAssumption, Sound, IsCatalog
  <2>2. \A id \in WorkspaceIds : c.display[id] = None => e.display[id] = None
    BY <1>6, <1>7
  <2>3. e.number = c.number /\ e.nextId = c.nextId
    BY <1>3, Zenon
  <2>. QED  BY <2>1, <2>2, <2>3 DEF Stable, Live
<1>. QED  BY <1>3, <1>4, <1>9, <1>10, <1>11, <1>12 DEF Sound

-----------------------------------------------------------------------------
(* Displays that come online. *)

\* Each unserved display gets an id and a slot that no other gets.
LEMMA ServeSound ==
  ASSUME NEW c, Sound(c), NEW attached \in SUBSET Displays, attached \subseteq c.known,
         NEW queue \in [Displays -> Nat], \A d, f \in attached : queue[d] = queue[f] => d = f,
         CanServe(c, attached, queue), NEW e, e = Serve(c, attached, queue)
  PROVE  /\ Sound(e) /\ Stable(c, e) /\ e.known = c.known /\ Served(e, attached)
         /\ \E N : Grows(c, e, N) /\ ShowsNew(c, e, N)
<1>. DEFINE
  needy == Unserved(c, attached)
  id(d) == NewId(c, attached, queue, d)
  slot(d) == NewSlot(c, attached, queue, d)
  key == [m \in Slots |-> m]
  forId(i) == {d \in needy : id(d) = i}
  forSlot(n) == {d \in needy : slot(d) = n}
  the(S) == CHOOSE d \in S : TRUE
<1>1. CASE needy = {}
  <2>1. e = c
    BY <1>1 DEF Serve
  <2>2. Grows(c, e, {}) /\ ShowsNew(c, e, {})
    BY <2>1, GrowsItself
  <2>. QED  BY <1>1, <2>1, <2>2, SucceedsItself DEF Served, Unserved, Succeeds
<1>2. CASE needy # {}
  <2>1. IsFiniteSet(needy) /\ needy \subseteq Displays /\ Cardinality(needy) \in Nat
    BY CatalogAssumption, FS_Subset, FS_CardinalityType DEF CatalogAssumption, Unserved
  <2>2. c.nextId \in Nat /\ c.nextId + Cardinality(needy) <= MaxWorkspaceId /\ MaxWorkspaceId \in Nat
    BY CatalogAssumption DEF CatalogAssumption, Sound, IsCatalog, CanServe
  <2>3. \A d \in needy : Rank(needy, queue, d) \in 1..Cardinality(needy)
    <3>1. \A d \in needy : queue[d] \in Nat
      BY <2>1
    <3>. HIDE DEF needy
    <3>. QED  BY <2>1, <3>1, RankRange
  <2>4. \A d \in needy : /\ id(d) \in WorkspaceIds
                         /\ c.nextId < id(d)
                         /\ id(d) <= c.nextId + Cardinality(needy)
    <3>1. ASSUME NEW k \in Nat, k <= MaxWorkspaceId - c.nextId, NEW r \in 1..k
          PROVE  c.nextId + r \in WorkspaceIds /\ c.nextId < c.nextId + r /\ c.nextId + r <= c.nextId + k
      BY <2>2, <3>1 DEF WorkspaceIds
    <3>2. \A d \in needy : id(d) = c.nextId + Rank(needy, queue, d)
      BY DEF NewId
    <3>3. Cardinality(needy) <= MaxWorkspaceId - c.nextId
      BY <2>1, <2>2
    <3>. HIDE DEF needy, id
    <3>. QED  BY <2>1, <2>3, <3>1, <3>2, <3>3
  <2>5. \A d, f \in needy : Rank(needy, queue, d) = Rank(needy, queue, f) => d = f
    <3>1. \A d \in needy : queue[d] \in Nat
      BY <2>1
    <3>2. \A d, f \in needy : queue[d] = queue[f] => d = f
      BY DEF Unserved
    <3>. HIDE DEF needy
    <3>. QED  BY <2>1, <3>1, <3>2, RankInjective
  <2>6. \A d, f \in needy : id(d) = id(f) => d = f
    <3>1. ASSUME NEW d \in needy, NEW f \in needy, id(d) = id(f)
          PROVE  Rank(needy, queue, d) = Rank(needy, queue, f)
      <4>1. Rank(needy, queue, d) \in Int /\ Rank(needy, queue, f) \in Int
        BY <2>3
      <4>. QED  BY <2>2, <3>1, <4>1 DEF NewId
    <3>. QED  BY <2>5, <3>1
  <2>7. \A d \in needy : /\ slot(d) \in FreeSlots(c)
                         /\ Rank(FreeSlots(c), key, slot(d)) = Rank(needy, queue, d)
    <3>1. ASSUME NEW d \in needy
          PROVE  \E n \in FreeSlots(c) : Rank(FreeSlots(c), key, n) = Rank(needy, queue, d)
      BY DEF CanServe
    <3>2. ASSUME NEW d \in needy
          PROVE  slot(d) = CHOOSE n \in FreeSlots(c) :
                             Rank(FreeSlots(c), key, n) = Rank(needy, queue, d)
      BY DEF NewSlot
    <3>. HIDE DEF needy, slot, key
    <3>. QED  BY <3>1, <3>2
  <2>8. \A d, f \in needy : slot(d) = slot(f) => d = f
    BY <2>5, <2>7
  <2>9. \A d \in needy : slot(d) \in Slots /\ c.byNumber[slot(d)] = None
    BY <2>7 DEF FreeSlots
  <2>. HIDE DEF needy, id, slot
  <2>10. \A i : forId(i) # {} => the(forId(i)) \in needy /\ id(the(forId(i))) = i
    OBVIOUS
  <2>11. \A n : forSlot(n) # {} => the(forSlot(n)) \in needy /\ slot(the(forSlot(n))) = n
    OBVIOUS
  <2>12. \A d \in needy : the(forId(id(d))) = d /\ forId(id(d)) # {}
    BY <2>6, <2>10
  <2>13. \A d \in needy : the(forSlot(slot(d))) = d /\ forSlot(slot(d)) # {}
    BY <2>8, <2>11
  <2>14. e = [c EXCEPT
        !.nextId = @ + Cardinality(needy),
        !.display = [i \in WorkspaceIds |->
           IF forId(i) = {} THEN c.display[i] ELSE the(forId(i))],
        !.number = [i \in WorkspaceIds |->
           IF forId(i) = {} THEN c.number[i] ELSE slot(the(forId(i)))],
        !.byNumber = [n \in Slots |->
           IF forSlot(n) = {} THEN c.byNumber[n] ELSE id(the(forSlot(n)))],
        !.active = [d \in Displays |->
           IF d \in needy /\ c.active[d] = None THEN id(d) ELSE c.active[d]]]
    BY <1>2, Zenon DEF Serve, needy, id, slot
  <2>. HIDE DEF forId, forSlot, the
  <2>15. /\ e.nextId = c.nextId + Cardinality(needy)
         /\ e.hidden = c.hidden /\ e.known = c.known
         /\ \A i \in WorkspaceIds : forId(i) = {} =>
              e.display[i] = c.display[i] /\ e.number[i] = c.number[i]
         /\ \A i \in WorkspaceIds : forId(i) # {} =>
              e.display[i] = the(forId(i)) /\ e.number[i] = slot(the(forId(i)))
         /\ \A n \in Slots : e.byNumber[n] =
              IF forSlot(n) = {} THEN c.byNumber[n] ELSE id(the(forSlot(n)))
    BY <2>14
  <2>16. IsCatalog(e)
    <3>1. \A i \in WorkspaceIds : forId(i) # {} =>
             the(forId(i)) \in Displays /\ slot(the(forId(i))) \in Slots
      BY <2>1, <2>9, <2>10
    <3>2. \A n \in Slots : forSlot(n) # {} => id(the(forSlot(n))) \in WorkspaceIds
      BY <2>4, <2>11
    <3>3. e.nextId \in 0..MaxWorkspaceId
      BY <2>1, <2>2, <2>15
    <3>4. e.display \in [WorkspaceIds -> Opt(Displays)] /\ e.number \in [WorkspaceIds -> Opt(Slots)]
      BY <2>14, <3>1 DEF Sound, IsCatalog, Opt
    <3>5. e.byNumber \in [Slots -> Opt(WorkspaceIds)]
      BY <2>14, <3>2 DEF Sound, IsCatalog, Opt
    <3>6. e.active \in [Displays -> Opt(WorkspaceIds)]
      BY <2>14, <2>4 DEF Sound, IsCatalog, Opt
    <3>. QED  BY <2>14, <3>3, <3>4, <3>5, <3>6 DEF Sound, IsCatalog
  <2>. DEFINE N == {i \in WorkspaceIds : forId(i) # {}}
  <2>17. \A i \in N : the(forId(i)) \in needy /\ id(the(forId(i))) = i
    BY <2>10
  <2>18. \A d \in needy : id(d) \in N /\ e.display[id(d)] = d /\ e.number[id(d)] = slot(d)
    BY <2>4, <2>12, <2>15
  <2>19. Adds(c, e, N)
    <3>1. \A i \in N : c.nextId < i /\ i <= e.nextId
      BY <2>4, <2>15, <2>17
    <3>2. \A i \in WorkspaceIds \ N : e.display[i] = c.display[i] /\ e.number[i] = c.number[i]
      BY <2>15
    <3>3. \A i \in N : e.display[i] \in Displays /\ e.number[i] # None
      BY <2>1, <2>9, <2>15, <2>17, NoneIsOutside
    <3>4. ASSUME NEW n \in Slots, e.byNumber[n] # c.byNumber[n]
          PROVE  e.byNumber[n] \in N /\ e.number[e.byNumber[n]] = n
      <4>1. forSlot(n) # {} /\ e.byNumber[n] = id(the(forSlot(n)))
        BY <2>15, <3>4
      <4>. QED  BY <2>11, <2>18, <4>1
    <3>5. c.nextId <= e.nextId
      BY <2>1, <2>2, <2>15
    <3>6. N \subseteq WorkspaceIds
      OBVIOUS
    <3>. HIDE DEF N
    <3>. QED  BY <2>15, <3>1, <3>2, <3>3, <3>4, <3>5, <3>6 DEF Adds
  <2>20. Succeeds(c, e)
    BY <2>16, <2>19, AddsSound
  <2>21. ASSUME NEW d \in attached  PROVE OnDisplay(e, d) # {}
    <3>1. CASE d \in needy
      BY <2>18, <3>1 DEF OnDisplay
    <3>2. CASE d \notin needy
      <4>1. OnDisplay(c, d) # {} /\ Served(c, {d})
        BY <3>2 DEF needy, Unserved, Served
      <4>2. Served(e, {d})
        BY <2>1, <2>20, <4>1 DEF Succeeds
      <4>. QED  BY <4>2 DEF Served
    <3>. QED  BY <3>1, <3>2
  <2>22. Grows(c, e, N)
    <3>1. \A i \in N : e.number[i] # None /\ e.byNumber[e.number[i]] = i
      BY <2>1, <2>9, <2>13, <2>15, <2>17, NoneIsOutside
    <3>2. \A n \in Slots : e.byNumber[n] # c.byNumber[n] => c.byNumber[n] = None
      BY <2>9, <2>11, <2>15
    <3>3. ASSUME NEW d \in Displays, e.active[d] # c.active[d]
          PROVE  c.active[d] = None /\ e.active[d] \in NumberedOn(e, d) /\ d \in e.known
      <4>1. d \in needy /\ c.active[d] = None /\ e.active[d] = id(d)
        BY <2>14, <3>3
      <4>2. id(d) \in NumberedOn(e, d)
        BY <2>4, <2>9, <2>18, <4>1, NoneIsOutside DEF NumberedOn, OnDisplay
      <4>3. d \in attached
        BY <4>1 DEF needy, Unserved
      <4>. QED  BY <2>15, <4>1, <4>2, <4>3
    <3>4. /\ e.last = c.last /\ e.hiddenReturn = c.hiddenReturn
          /\ e.tiled = c.tiled /\ e.floating = c.floating /\ e.positions = c.positions
          /\ e.assignment = c.assignment
      BY <2>14
    <3>. HIDE DEF N
    <3>. QED  BY <2>15, <2>19, <3>1, <3>2, <3>3, <3>4 DEF Grows
  <2>23. ShowsNew(c, e, N)
    <3>1. \A i \in N : e.display[i] \in needy
      BY <2>15, <2>17
    <3>2. \A d \in needy : e.active[d] # None
      BY <2>1, <2>4, <2>14, NoneIsOutside
    <3>. HIDE DEF N
    <3>. QED  BY <2>15, <3>1, <3>2 DEF ShowsNew
  <2>. HIDE DEF N
  <2>. QED  BY <2>15, <2>20, <2>21, <2>22, <2>23 DEF Served, Succeeds
<1>. QED  BY <1>1, <1>2

LEMMA SettleSound ==
  ASSUME NEW c, Sound(c), NEW attached \in SUBSET Displays, Served(c, attached),
         NEW e, e = Settle(c, attached)
  PROVE  Succeeds(c, e)
<1>1. Keeps(c, e)
  BY DEF Keeps, Settle
<1>2. \A d \in attached : FirstNumbered(c, d) \in WorkspaceIds
  <2>1. \A d \in attached : NumberedOn(c, d) # {}
    BY DEF Served, Sound, KeepsANumber
  <2>. QED  BY <2>1, FirstNumberedExists DEF Sound, NumberedOn, OnDisplay
<1>3. IsCatalog(e)
  BY <1>2 DEF Settle, OnDisplay, Sound, IsCatalog, Opt
<1>. QED  BY <1>1, <1>3, KeepsSound

LEMMA ReconcileSound ==
  ASSUME NEW c, Sound(c), NEW attached \in SUBSET Displays,
         NEW queue \in [Displays -> Nat], \A d, f \in attached : queue[d] = queue[f] => d = f,
         NEW receiver, attached # {} => receiver \in attached,
         CanReconcile(c, attached, receiver, queue),
         NEW e, e = Reconcile(c, attached, receiver, queue)
  PROVE  Sound(e) /\ Stable(c, e) /\ e.known = attached /\ Served(e, attached)
<1>1. CASE attached = {}
  <2>1. Live(c) = {}
    BY <1>1 DEF CanReconcile
  <2>2. e = [c EXCEPT !.known = {},
                      !.active = [d \in Displays |-> None],
                      !.last = [d \in Displays |-> None],
                      !.hiddenReturn = [d \in Displays |-> None]]
    BY <1>1 DEF Reconcile
  <2>3. IsCatalog(e)
    BY <2>2 DEF Sound, IsCatalog, Opt
  <2>4. /\ e.display = c.display /\ e.number = c.number
        /\ e.byNumber = c.byNumber /\ e.hidden = c.hidden
        /\ e.nextId = c.nextId /\ e.known = {}
    BY <2>2
  <2>5. LiveBelowNext(e) /\ Indexed(e) /\ KeepsANumber(e)
    BY <2>4 DEF Sound, LiveBelowNext, Indexed, KeepsANumber, Live, OnDisplay, NumberedOn
  <2>6. Stable(c, e)
    <3>1. c.nextId \in Int
      BY CatalogAssumption DEF CatalogAssumption, Sound, IsCatalog
    <3>. QED  BY <2>4, <3>1 DEF Stable, Live
  <2>. QED  BY <1>1, <2>3, <2>4, <2>5, <2>6 DEF Sound, Served
<1>2. CASE attached # {}
  <2>. DEFINE m == Migrate(c, attached, receiver)
              f == Serve(m, attached, queue)
  <2>1. Sound(m) /\ Stable(c, m) /\ m.known = attached
    BY <1>2, MigrateSound
  <2>2. CanServe(m, attached, queue)
    BY <1>2 DEF CanReconcile
  <2>3. e = Settle(f, attached)
    BY <1>2 DEF Reconcile
  <2>. HIDE DEF m
  <2>4. Sound(f) /\ Stable(m, f) /\ f.known = attached /\ Served(f, attached)
    BY <2>1, <2>2, ServeSound
  <2>. HIDE DEF f
  <2>5. Sound(e) /\ Stable(f, e) /\ Served(e, attached)
    BY <2>3, <2>4, SettleSound DEF Succeeds
  <2>6. e.known = f.known
    BY <2>3 DEF Settle
  <2>7. Stable(c, e)
    BY <2>1, <2>4, <2>5, StableTransitive
  <2>. QED  BY <2>4, <2>5, <2>6, <2>7
<1>. QED  BY <1>1, <1>2

-----------------------------------------------------------------------------
(* Start-up: a restored layout has only numbered workspaces, one to a slot. *)
LEMMA FromPersistedSound ==
  ASSUME NEW saved \in SUBSET WorkspaceIds, NEW owner \in [saved -> Displays],
         NEW number \in [saved -> Slots],
         \A a, b \in saved : number[a] = number[b] => a = b,
         NEW e, e = FromPersisted(saved, owner, number)
  PROVE  Sound(e)
<1>. DEFINE
  of(d) == {id \in saved : owner[id] = d}
  lowest(S) == CHOOSE id \in S : \A other \in S : number[id] <= number[other]
  holder(n) == {id \in saved : number[id] = n}
  latest == CHOOSE id \in saved : \A other \in saved : other <= id
  the(S) == CHOOSE id \in S : TRUE
<1>1. Slots \subseteq Nat /\ WorkspaceIds \subseteq Nat /\ MaxWorkspaceId \in Nat
  BY CatalogAssumption DEF CatalogAssumption, Slots, WorkspaceIds
<1>2. \A d : of(d) # {} => lowest(of(d)) \in of(d)
  <2>1. ASSUME NEW d, of(d) # {}
        PROVE  \E id \in of(d) : \A other \in of(d) : number[id] <= number[other]
    <3>1. \A id \in of(d) : number[id] \in Nat
      BY <1>1
    <3>. HIDE DEF of
    <3>. QED  BY <2>1, <3>1, MinByKey
  <2>. HIDE DEF of
  <2>. QED  BY <2>1
<1>3. saved # {} => latest \in saved /\ \A other \in saved : other <= latest
  <2>1. ASSUME saved # {}
        PROVE  \E id \in saved : \A other \in saved : other <= id
    <3>. DEFINE key == [id \in saved |-> MaxWorkspaceId - id]
    <3>1. \A id \in saved : key[id] \in Nat
      BY <1>1 DEF WorkspaceIds
    <3>2. \E id \in saved : \A other \in saved : key[id] <= key[other]
      <4>. HIDE DEF key
      <4>. QED  BY <2>1, <3>1, MinByKey
    <3>. QED  BY <1>1, <3>2
  <2>. QED  BY <2>1
<1>4. \A n : holder(n) # {} => the(holder(n)) \in saved /\ number[the(holder(n))] = n
  OBVIOUS
<1>5. e = [EmptyCatalog EXCEPT
        !.display = [id \in WorkspaceIds |-> IF id \in saved THEN owner[id] ELSE None],
        !.number = [id \in WorkspaceIds |-> IF id \in saved THEN number[id] ELSE None],
        !.byNumber = [n \in Slots |-> IF holder(n) = {} THEN None ELSE the(holder(n))],
        !.known = {d \in Displays : of(d) # {}},
        !.active = [d \in Displays |-> IF of(d) = {} THEN None ELSE lowest(of(d))],
        !.nextId = IF saved = {} THEN 0 ELSE latest]
  BY Zenon DEF FromPersisted
<1>. HIDE DEF latest, holder, the, lowest
<1>6. IsCatalog(e)
  <2>1. e.nextId \in 0..MaxWorkspaceId
    BY <1>1, <1>3, <1>5 DEF WorkspaceIds
  <2>2. e.active \in [Displays -> Opt(WorkspaceIds)]
    <3>1. \A d : of(d) \subseteq WorkspaceIds
      OBVIOUS
    <3>. HIDE DEF of
    <3>. QED  BY <1>2, <1>5, <3>1 DEF Opt
  <2>3. e.byNumber \in [Slots -> Opt(WorkspaceIds)]
    BY <1>4, <1>5 DEF Opt
  <2>. QED  BY <1>5, <2>1, <2>2, <2>3 DEF IsCatalog, EmptyCatalog, Opt
<1>7. LiveBelowNext(e)
  BY <1>3, <1>5 DEF LiveBelowNext, Live
<1>8. Indexed(e)
  <2>1. ASSUME NEW n \in Slots, e.byNumber[n] # None
        PROVE  e.byNumber[n] \in Live(e) /\ e.number[e.byNumber[n]] = n
    <3>1. e.byNumber[n] = the(holder(n)) /\ holder(n) # {}
      BY <1>5, <2>1
    <3>. QED  BY <1>4, <1>5, <3>1, NoneIsOutside DEF Live
  <2>2. \A d \in Displays : e.hidden[d] = None
    BY <1>5 DEF EmptyCatalog
  <2>. QED  BY <2>1, <2>2 DEF Indexed
<1>9. KeepsANumber(e)
  <2>1. /\ e.display = [id \in WorkspaceIds |-> IF id \in saved THEN owner[id] ELSE None]
        /\ e.number = [id \in WorkspaceIds |-> IF id \in saved THEN number[id] ELSE None]
    BY <1>5
  <2>2. ASSUME NEW d \in Displays, NEW id \in WorkspaceIds, e.display[id] = d
        PROVE  e.number[id] # None
    BY <2>1, <2>2, NoneIsOutside
  <2>. QED  BY <2>2 DEF KeepsANumber, NumberedOn, OnDisplay
<1>. QED  BY <1>6, <1>7, <1>8, <1>9 DEF Sound

-----------------------------------------------------------------------------
(***************************************************************************)
(* Validity: what keeps WorkspaceCatalog::validate from refusing, and which *)
(* operations of the catalog lead from a valid catalog to a valid one.     *)
(***************************************************************************)

\* What validate() does not look at, and its checks rest on.  A display that is not
\* known shows and remembers nothing, ...
Tidy(c) ==
  \A d \in Displays \ c.known :
    c.active[d] = None /\ c.last[d] = None /\ c.hiddenReturn[d] = None

\* ... a display knows where to return to exactly while it shows its hidden workspace, ...
ReturnsFit(c) == \A d \in Displays : (c.hiddenReturn[d] # None) = ShowsHidden(c, d)

\* ... and only frames of floating windows are remembered.
FramesFit(c) == \A id \in WorkspaceIds : c.positions[id] \subseteq c.floating[id]

\* The check of the displays, in parts.
Fits(c) ==
  /\ IndexAgrees(c) /\ MembershipAgrees(c)
  /\ Tidy(c) /\ ReturnsFit(c) /\ FramesFit(c)
  /\ \A d \in c.known : c.active[d] \in Opt(OnDisplay(c, d)) /\ c.last[d] \in Opt(NumberedOn(c, d))
ReturnsLive(c) == \A d \in c.known : c.hiddenReturn[d] \in Opt(NumberedOn(c, d))
Shows(c) == \A d \in c.known : OnDisplay(c, d) # {} => c.active[d] # None

Good(c) == Sound(c) /\ Fits(c) /\ ReturnsLive(c) /\ Shows(c)

-----------------------------------------------------------------------------
(* The number of the indexes' entries, which validate() counts, follows from *)
(* what they name.                                                           *)

LEMMA SameNumber ==
  ASSUME NEW S, IsFiniteSet(S), NEW T, NEW f \in [S -> T],
         \A x, y \in S : f[x] = f[y] => x = y, \A t \in T : \E x \in S : f[x] = t
  PROVE  IsFiniteSet(T) /\ Cardinality(T) = Cardinality(S)
<1>1. f \in Bijection(S, T)
  BY DEF Bijection, Injection, Surjection, IsInjective
<1>2. ExistsBijection(S, T)
  BY <1>1 DEF ExistsBijection
<1>. QED  BY <1>2, FS_Bijection

LEMMA IndexCounts ==
  ASSUME NEW c, Sound(c), IndexAgrees(c)
  PROVE  IndexHasRightSize(c)
<1>. DEFINE numbered == {id \in Live(c) : c.number[id] # None}
            hidden == {id \in Live(c) : c.number[id] = None}
            used == {n \in Slots : c.byNumber[n] # None}
            hiding == {d \in Displays : c.hidden[d] # None}
<1>1. IsFiniteSet(numbered) /\ IsFiniteSet(hidden)
  <2>1. IsFiniteSet(WorkspaceIds)
    BY CatalogAssumption, FS_Interval DEF CatalogAssumption, WorkspaceIds
  <2>. QED  BY <2>1, FS_Subset DEF Live
<1>2. Cardinality(used) = Cardinality(numbered)
  <2>. DEFINE f == [id \in numbered |-> c.number[id]]
  <2>1. f \in [numbered -> used]
    BY NoneIsOutside DEF Sound, IsCatalog, Live, IndexAgrees, Opt
  <2>2. \A x, y \in numbered : f[x] = f[y] => x = y
    BY DEF IndexAgrees
  <2>3. \A n \in used : \E x \in numbered : f[x] = n
    BY NoneIsOutside DEF Sound, Indexed
  <2>. HIDE DEF f, numbered, used
  <2>. QED  BY <1>1, <2>1, <2>2, <2>3, SameNumber
<1>3. Cardinality(hiding) = Cardinality(hidden)
  <2>. DEFINE f == [id \in hidden |-> c.display[id]]
  <2>1. f \in [hidden -> hiding]
    BY NoneIsOutside DEF Sound, IsCatalog, Live, IndexAgrees, Opt
  <2>2. \A x, y \in hidden : f[x] = f[y] => x = y
    BY DEF IndexAgrees
  <2>3. \A d \in hiding : \E x \in hidden : f[x] = d
    BY NoneIsOutside DEF Sound, IsCatalog, Indexed, Live, Opt
  <2>. HIDE DEF f, hidden, hiding
  <2>. QED  BY <1>1, <2>1, <2>2, <2>3, SameNumber
<1>4. Cardinality(Live(c)) = Cardinality(numbered) + Cardinality(hidden)
  <2>1. Live(c) = numbered \cup hidden /\ numbered \cap hidden = {}
    OBVIOUS
  <2>. HIDE DEF numbered, hidden
  <2>2. Cardinality(Live(c)) = Cardinality(numbered) + Cardinality(hidden) - Cardinality({})
    BY <1>1, <2>1, FS_Union
  <2>3. Cardinality(numbered) \in Nat /\ Cardinality(hidden) \in Nat
    BY <1>1, FS_CardinalityType
  <2>. QED  BY <2>2, <2>3, FS_EmptySet
<1>. QED  BY <1>2, <1>3, <1>4 DEF IndexHasRightSize

LEMMA ShownIsValid == ASSUME NEW c, Fits(c), ReturnsLive(c), Shows(c)  PROVE DisplayStateAgrees(c)
BY DEF Fits, ReturnsLive, Shows, DisplayStateAgrees

LEMMA GoodIsValid == ASSUME NEW c, Good(c)  PROVE Validate(c)
BY IndexCounts, ShownIsValid DEF Good, Fits, Validate

\* What a commit has checked need not be shown again.
LEMMA ValidIsGood ==
  ASSUME NEW c, Sound(c), Validate(c), Tidy(c), ReturnsFit(c), FramesFit(c)
  PROVE  Good(c)
BY DEF Good, Fits, ReturnsLive, Shows, Validate, DisplayStateAgrees

-----------------------------------------------------------------------------
(* What was added is indexed, and shown where nothing was. *)

LEMMA GrowsFits ==
  ASSUME NEW c, Sound(c), Fits(c), NEW e, Sound(e), NEW N, Grows(c, e, N)
  PROVE  /\ Fits(e)
         /\ ReturnsLive(c) => ReturnsLive(e)
         /\ Shows(c) /\ ShowsNew(c, e, N) => Shows(e)
<1>1. c.nextId \in Int /\ e.nextId \in Int /\ WorkspaceIds \subseteq Int
  BY CatalogAssumption DEF CatalogAssumption, Sound, IsCatalog, WorkspaceIds
<1>2. \A id \in N : id \in WorkspaceIds /\ c.display[id] = None
  <2>1. ASSUME NEW id \in N  PROVE id \notin Live(c)
    BY <1>1 DEF Grows, Adds, Sound, LiveBelowNext
  <2>. QED  BY <2>1 DEF Live, Grows, Adds
<1>3. \A id \in WorkspaceIds \ N : e.display[id] = c.display[id] /\ e.number[id] = c.number[id]
  BY DEF Grows, Adds
<1>4. \A d \in Displays : OnDisplay(c, d) \subseteq OnDisplay(e, d)
                          /\ NumberedOn(c, d) \subseteq NumberedOn(e, d)
                          /\ OnDisplay(c, d) \cap N = {}
  BY <1>2, <1>3, NoneIsOutside DEF OnDisplay, NumberedOn
<1>5. c.known \subseteq e.known /\ e.known \subseteq Displays
  BY DEF Grows, Adds, Sound, IsCatalog
<1>6. IndexAgrees(e)
  <2>1. ASSUME NEW id \in Live(e), id \notin N
        PROVE  IF e.number[id] # None THEN e.byNumber[e.number[id]] = id
               ELSE e.hidden[e.display[id]] = id
    <3>1. id \in Live(c) /\ id \in WorkspaceIds
      BY <1>3, <2>1 DEF Live
    <3>2. IF c.number[id] # None THEN c.byNumber[c.number[id]] = id
          ELSE c.hidden[c.display[id]] = id
      BY <3>1 DEF Fits, IndexAgrees
    <3>3. id # None /\ c.number[id] \in Opt(Slots) /\ c.display[id] \in Displays
      BY <3>1, NoneIsOutside DEF Live, Sound, IsCatalog, Opt
    <3>. QED  BY <1>3, <2>1, <3>1, <3>2, <3>3 DEF Grows, Opt
  <2>2. \A id \in N : IF e.number[id] # None THEN e.byNumber[e.number[id]] = id
                      ELSE e.hidden[e.display[id]] = id
    BY DEF Grows
  <2>. QED  BY <2>1, <2>2 DEF IndexAgrees
<1>7. MembershipAgrees(e) /\ FramesFit(e)
  BY DEF Grows, Fits, MembershipAgrees, FramesFit
<1>8. Tidy(e)
  BY <1>5 DEF Tidy, Fits, Grows
<1>9. ASSUME NEW d \in e.known
      PROVE  e.active[d] \in Opt(OnDisplay(e, d)) /\ e.last[d] \in Opt(NumberedOn(e, d))
  <2>1. c.active[d] \in Opt(OnDisplay(c, d)) /\ c.last[d] \in Opt(NumberedOn(c, d))
    BY <1>5 DEF Fits, Tidy, Opt
  <2>2. e.active[d] \in Opt(OnDisplay(e, d))
    BY <1>4, <1>5, <2>1 DEF Grows, NumberedOn, Opt
  <2>. QED  BY <1>4, <1>5, <2>1, <2>2 DEF Grows, Opt
<1>10. ReturnsFit(e)
  <2>1. ASSUME NEW d \in Displays  PROVE ShowsHidden(e, d) = ShowsHidden(c, d)
    <3>1. c.active[d] \in Opt(OnDisplay(c, d))
      BY DEF Fits, Tidy, Opt
    <3>2. CASE e.hidden[d] # c.hidden[d]
      <4>1. c.hidden[d] = None /\ e.hidden[d] \in N /\ e.number[e.hidden[d]] = None
        BY <3>2 DEF Grows, Adds
      <4>2. e.active[d] # e.hidden[d]
        BY <1>2, <1>4, <3>1, <4>1, NoneIsOutside DEF Grows, NumberedOn, Opt
      <4>. QED  BY <4>1, <4>2 DEF ShowsHidden
    <3>3. CASE e.hidden[d] = c.hidden[d] /\ e.active[d] # c.active[d]
      <4>1. c.active[d] = None /\ e.number[e.active[d]] # None
        BY <3>3 DEF Grows, NumberedOn
      <4>2. e.hidden[d] # None => e.number[e.hidden[d]] = None
        BY DEF Sound, Indexed
      <4>. QED  BY <3>3, <4>1, <4>2 DEF ShowsHidden
    <3>4. CASE e.hidden[d] = c.hidden[d] /\ e.active[d] = c.active[d]
      BY <3>4 DEF ShowsHidden
    <3>. QED  BY <3>2, <3>3, <3>4
  <2>. QED  BY <2>1 DEF ReturnsFit, Fits, Grows
<1>11. Fits(e)
  BY <1>6, <1>7, <1>8, <1>9, <1>10 DEF Fits
<1>12. ASSUME ReturnsLive(c)  PROVE ReturnsLive(e)
  BY <1>4, <1>5, <1>12 DEF ReturnsLive, Fits, Tidy, Grows, Opt
<1>13. ASSUME Shows(c), ShowsNew(c, e, N)  PROVE Shows(e)
  <2>1. ASSUME NEW d \in e.known, NEW id \in OnDisplay(e, d)  PROVE e.active[d] # None
    <3>1. CASE id \in N
      BY <1>13, <2>1, <3>1 DEF ShowsNew, OnDisplay
    <3>2. CASE d \notin c.known
      BY <1>13, <3>2 DEF ShowsNew
    <3>3. CASE id \notin N /\ d \in c.known
      <4>1. c.active[d] # None
        BY <1>3, <1>13, <3>3 DEF Shows, OnDisplay
      <4>. QED  BY <1>5, <4>1 DEF Grows
    <3>. QED  BY <3>1, <3>2, <3>3
  <2>. QED  BY <2>1 DEF Shows
<1>. QED  BY <1>11, <1>12, <1>13

LEMMA GrowsGood ==
  ASSUME NEW c, Good(c), NEW e, Sound(e), NEW N, Grows(c, e, N), ShowsNew(c, e, N)
  PROVE  Good(e)
BY GrowsFits DEF Good

LEMMA CreateGood ==
  ASSUME NEW c, Good(c), NEW n \in Slots, NEW d \in Displays, CanCreate(c, n),
         NEW e, e = Create(c, n, d)
  PROVE  Good(e)
<1>. DEFINE id == c.nextId + 1
<1>1. id \in WorkspaceIds /\ c.nextId \in Int /\ c.nextId < id /\ id <= id /\ c.nextId <= id
  BY Fresh DEF CanCreate, Good
<1>2. Sound(e)
  BY CreateSound DEF Good, Succeeds
<1>3. e = [c EXCEPT !.nextId = id, !.display[id] = d, !.number[id] = n, !.byNumber[n] = id,
                    !.known = @ \cup {d}, !.active[d] = IF @ = None THEN id ELSE @]
  BY DEF Create
<1>. HIDE DEF id
<1>4. /\ e.nextId = id /\ e.known = c.known \cup {d} /\ e.hidden = c.hidden
      /\ e.last = c.last /\ e.hiddenReturn = c.hiddenReturn
      /\ e.tiled = c.tiled /\ e.floating = c.floating /\ e.positions = c.positions
      /\ e.assignment = c.assignment
  BY <1>3
<1>5. /\ e.display[id] = d /\ e.number[id] = n /\ e.byNumber[n] = id
      /\ e.active[d] = IF c.active[d] = None THEN id ELSE c.active[d]
      /\ \A i \in WorkspaceIds \ {id} : e.display[i] = c.display[i] /\ e.number[i] = c.number[i]
      /\ \A m \in Slots \ {n} : e.byNumber[m] = c.byNumber[m]
      /\ \A f \in Displays \ {d} : e.active[f] = c.active[f]
  BY <1>1, <1>3 DEF Good, Sound, IsCatalog
<1>6. Adds(c, e, {id})
  BY <1>1, <1>4, <1>5, NoneIsOutside DEF Adds
<1>7. Grows(c, e, {id})
  BY <1>1, <1>4, <1>5, <1>6, NoneIsOutside DEF Grows, CanCreate, NumberedOn, OnDisplay
<1>8. ShowsNew(c, e, {id})
  BY <1>1, <1>4, <1>5, NoneIsOutside DEF ShowsNew
<1>. QED  BY <1>2, <1>7, <1>8, GrowsGood

LEMMA EnsureHiddenGood ==
  ASSUME NEW c, Good(c), NEW d \in Displays, CanHide(c, d), NumberedOn(c, d) # {},
         NEW e, e = EnsureHidden(c, d)
  PROVE  Good(e)
<1>1. CASE c.hidden[d] # None
  BY <1>1 DEF EnsureHidden
<1>2. CASE c.hidden[d] = None
  <2>. DEFINE id == c.nextId + 1
  <2>1. id \in WorkspaceIds /\ c.nextId \in Int /\ c.nextId < id /\ id <= id /\ c.nextId <= id
    BY <1>2, Fresh DEF CanHide, Good
  <2>2. Sound(e)
    BY EnsureHiddenSound DEF Good, Succeeds
  <2>3. e = [c EXCEPT !.nextId = id, !.display[id] = d, !.number[id] = None, !.hidden[d] = id]
    BY <1>2 DEF EnsureHidden
  <2>. HIDE DEF id
  <2>4. /\ e.nextId = id /\ e.known = c.known /\ e.byNumber = c.byNumber
        /\ e.active = c.active /\ e.last = c.last /\ e.hiddenReturn = c.hiddenReturn
        /\ e.tiled = c.tiled /\ e.floating = c.floating /\ e.positions = c.positions
        /\ e.assignment = c.assignment
    BY <2>3
  <2>5. /\ e.display[id] = d /\ e.number[id] = None /\ e.hidden[d] = id
        /\ \A i \in WorkspaceIds \ {id} : e.display[i] = c.display[i] /\ e.number[i] = c.number[i]
        /\ \A f \in Displays \ {d} : e.hidden[f] = c.hidden[f]
    BY <2>1, <2>3 DEF Good, Sound, IsCatalog
  <2>6. Adds(c, e, {id})
    BY <2>1, <2>4, <2>5 DEF Adds
  <2>7. Grows(c, e, {id})
    BY <1>2, <2>4, <2>5, <2>6 DEF Grows
  <2>8. d \in c.known => c.active[d] # None
    BY DEF Good, Shows, NumberedOn
  <2>9. ShowsNew(c, e, {id})
    BY <2>4, <2>5, <2>8 DEF ShowsNew
  <2>. QED  BY <2>2, <2>7, <2>9, GrowsGood
<1>. QED  BY <1>1, <1>2

-----------------------------------------------------------------------------
(* Windows that move. *)

Rearranges(c, e) ==
  /\ e.display = c.display /\ e.number = c.number
  /\ e.byNumber = c.byNumber /\ e.hidden = c.hidden /\ e.known = c.known
  /\ e.active = c.active /\ e.last = c.last /\ e.hiddenReturn = c.hiddenReturn

LEMMA RearrangesGood ==
  ASSUME NEW c, Good(c), NEW e, Sound(e), Rearranges(c, e), MembershipAgrees(e), FramesFit(e)
  PROVE  Good(e)
<1>1. /\ Live(e) = Live(c) /\ \A d : OnDisplay(e, d) = OnDisplay(c, d)
      /\ \A d : NumberedOn(e, d) = NumberedOn(c, d)
  BY DEF Rearranges, Live, OnDisplay, NumberedOn
<1>2. IndexAgrees(e)
  BY <1>1 DEF Good, Fits, Rearranges, IndexAgrees
<1>3. Tidy(e) /\ ReturnsFit(e)
  BY DEF Good, Fits, Rearranges, Tidy, ReturnsFit, ShowsHidden
<1>4. ReturnsLive(e) /\ Shows(e)
  BY <1>1 DEF Good, Rearranges, ReturnsLive, Shows
<1>5. \A d \in e.known : e.active[d] \in Opt(OnDisplay(e, d)) /\ e.last[d] \in Opt(NumberedOn(e, d))
  BY <1>1 DEF Good, Fits, Rearranges
<1>. QED  BY <1>2, <1>3, <1>4, <1>5 DEF Good, Fits

\* Wherever windows go, the layers and the assignment agree.
LEMMA PlaceMembership ==
  ASSUME NEW c, Sound(c), MembershipAgrees(c), FramesFit(c), NEW X \in SUBSET Windows, NEW dest,
         \A w \in X : dest[w] \in Opt(WorkspaceIds),
         NEW float, NEW framed, NEW e, e = Place(c, X, dest, float, framed)
  PROVE  Rearranges(c, e) /\ MembershipAgrees(e) /\ FramesFit(e)
<1>1. Rearranges(c, e)
  BY DEF Place, Rearranges
<1>2. /\ \A w \in Windows : e.assignment[w] = IF w \in X THEN dest[w] ELSE c.assignment[w]
      /\ \A id \in WorkspaceIds :
           /\ e.tiled[id] = (c.tiled[id] \ X) \cup {w \in X \ float : dest[w] = id}
           /\ e.floating[id] = (c.floating[id] \ X) \cup {w \in X \cap float : dest[w] = id}
           /\ e.positions[id] =
                (c.positions[id] \ X) \cup {w \in X \cap (float \cap framed) : dest[w] = id}
  BY DEF Place
<1>3. ASSUME NEW w \in Windows, NEW id \in WorkspaceIds
      PROVE  /\ w \notin e.tiled[id] \cap e.floating[id]
             /\ w \in e.tiled[id] \cup e.floating[id] <=> e.assignment[w] = id
             /\ w \in e.positions[id] => w \in e.floating[id]
  <2>1. CASE w \in X
    BY <1>2, <2>1
  <2>2. CASE w \notin X
    <3>1. /\ w \in e.tiled[id] <=> w \in c.tiled[id]
          /\ w \in e.floating[id] <=> w \in c.floating[id]
          /\ w \in e.positions[id] <=> w \in c.positions[id]
          /\ e.assignment[w] = c.assignment[w]
      BY <1>2, <2>2
    <3>. QED  BY <3>1 DEF MembershipAgrees, FramesFit
  <2>. QED  BY <2>1, <2>2
<1>4. \A id \in WorkspaceIds : e.tiled[id] \subseteq Windows /\ e.positions[id] \subseteq Windows
  BY <1>2 DEF Sound, IsCatalog
<1>. QED  BY <1>1, <1>3, <1>4 DEF MembershipAgrees, FramesFit

LEMMA PlaceGood ==
  ASSUME NEW c, Good(c), NEW X \in SUBSET Windows, NEW dest,
         \A w \in X : dest[w] \in Opt(WorkspaceIds),
         NEW float, NEW framed, NEW e, e = Place(c, X, dest, float, framed)
  PROVE  Good(e)
<1>1. Sound(e)
  BY PlaceSound DEF Good, Succeeds
<1>2. Rearranges(c, e) /\ MembershipAgrees(e) /\ FramesFit(e)
  BY PlaceMembership DEF Good, Fits
<1>. QED  BY <1>1, <1>2, RearrangesGood

LEMMA RemoveWindowsGood ==
  ASSUME NEW c, Good(c), NEW X \in SUBSET Windows, NEW e, e = RemoveWindows(c, X)
  PROVE  Good(e)
<1>. DEFINE nowhere == [w \in X |-> None]
<1>1. e = Place(c, X, nowhere, {}, {}) /\ \A w \in X : nowhere[w] \in Opt(WorkspaceIds)
  BY DEF RemoveWindows, Opt
<1>. HIDE DEF nowhere
<1>. QED  BY <1>1, PlaceGood

LEMMA AssignTiledGood ==
  ASSUME NEW c, Good(c), NEW w \in Windows, NEW id \in WorkspaceIds,
         NEW e, e = AssignTiled(c, id, w)
  PROVE  Good(e)
<1>. DEFINE dest == [x \in {w} |-> id]
<1>1. e = Place(c, {w}, dest, {}, {}) /\ \A x \in {w} : dest[x] \in Opt(WorkspaceIds)
  BY DEF AssignTiled, Opt
<1>. HIDE DEF dest
<1>. QED  BY <1>1, PlaceGood

LEMMA AssignFloatingGood ==
  ASSUME NEW c, Good(c), NEW w \in Windows, NEW id \in WorkspaceIds,
         NEW e, e = AssignFloating(c, id, w)
  PROVE  Good(e) /\ w \in e.floating[id]
<1>. DEFINE dest == [x \in {w} |-> id]
            stays == IF c.assignment[w] = id /\ IsFloating(c, w) THEN c.positions[id] ELSE {}
<1>1. e = Place(c, {w}, dest, {w}, stays) /\ \A x \in {w} : dest[x] \in Opt(WorkspaceIds)
  BY DEF AssignFloating, Opt
<1>2. w \in e.floating[id]
  BY DEF AssignFloating, Place
<1>. HIDE DEF dest, stays
<1>. QED  BY <1>1, <1>2, PlaceGood

LEMMA MoveWindowsPlaces ==
  ASSUME NEW c, NEW X, NEW id \in Opt(WorkspaceIds), NEW e, e = MoveWindows(c, X, id)
  PROVE  \E dest, float, framed :
           e = Place(c, X, dest, float, framed) /\ \A w \in X : dest[w] \in Opt(WorkspaceIds)
<1>. DEFINE dest == [w \in X |-> id]
            float == {w \in X : IsFloating(c, w)}
            framed == {w \in float : w \in c.positions[c.assignment[w]]}
<1>1. e = Place(c, X, dest, float, framed)
  BY DEF MoveWindows
<1>2. \A w \in X : dest[w] \in Opt(WorkspaceIds)
  OBVIOUS
<1>. HIDE DEF dest, float, framed
<1>. QED  BY <1>1, <1>2

LEMMA MoveWindowGood ==
  ASSUME NEW c, Good(c), NEW w \in Windows, NEW id \in WorkspaceIds,
         NEW e, e = MoveWindow(c, w, id)
  PROVE  Good(e)
<1>1. PICK dest, float, framed :
        e = Place(c, {w}, dest, float, framed) /\ \A x \in {w} : dest[x] \in Opt(WorkspaceIds)
  BY MoveWindowsPlaces DEF MoveWindow, Opt
<1>. QED  BY <1>1, PlaceGood

LEMMA SetFloatingPositionGood ==
  ASSUME NEW c, Good(c), NEW w \in Windows, NEW id \in WorkspaceIds, w \in c.floating[id],
         NEW e, e = SetFloatingPosition(c, id, w)
  PROVE  Good(e)
<1>1. Sound(e)
  BY SetFloatingPositionSound DEF Good, Succeeds
<1>2. Rearranges(c, e) /\ e.tiled = c.tiled /\ e.floating = c.floating /\ e.assignment = c.assignment
  BY DEF SetFloatingPosition, Rearranges
<1>3. FramesFit(e)
  BY <1>2 DEF SetFloatingPosition, Good, Sound, IsCatalog, Fits, FramesFit
<1>. QED  BY <1>1, <1>2, <1>3, RearrangesGood DEF MembershipAgrees, Good, Fits

LEMMA RecordGood ==
  ASSUME NEW c, Good(c), NEW X, NEW e, e = RecordActiveFloatingPositions(c, X)
  PROVE  Good(e)
<1>1. Sound(e)
  BY RecordSound DEF Good, Succeeds
<1>2. Rearranges(c, e) /\ e.tiled = c.tiled /\ e.floating = c.floating /\ e.assignment = c.assignment
  BY DEF RecordActiveFloatingPositions, Rearranges
<1>3. FramesFit(e)
  BY <1>2 DEF RecordActiveFloatingPositions, Good, Fits, FramesFit
<1>. QED  BY <1>1, <1>2, <1>3, RearrangesGood DEF MembershipAgrees, Good, Fits

-----------------------------------------------------------------------------
(* Displays that show something else. *)

\* Only d changes what it shows and remembers.
Refocuses(c, e, d) ==
  /\ e.display = c.display /\ e.number = c.number /\ e.byNumber = c.byNumber
  /\ e.hidden = c.hidden /\ e.known = c.known \cup {d}
  /\ e.tiled = c.tiled /\ e.floating = c.floating /\ e.positions = c.positions
  /\ e.assignment = c.assignment
  /\ \A f \in Displays \ {d} : /\ e.active[f] = c.active[f] /\ e.last[f] = c.last[f]
                               /\ e.hiddenReturn[f] = c.hiddenReturn[f]

LEMMA RefocusesGood ==
  ASSUME NEW c, Good(c), NEW d \in Displays, NEW e, Sound(e), Refocuses(c, e, d),
         e.active[d] \in OnDisplay(c, d), e.last[d] \in Opt(NumberedOn(c, d)),
         e.hiddenReturn[d] \in Opt(NumberedOn(c, d)),
         e.hiddenReturn[d] # None <=> ShowsHidden(e, d)
  PROVE  Good(e)
<1>1. /\ Live(e) = Live(c) /\ \A f : OnDisplay(e, f) = OnDisplay(c, f)
      /\ \A f : NumberedOn(e, f) = NumberedOn(c, f)
  BY DEF Refocuses, Live, OnDisplay, NumberedOn
<1>2. IndexAgrees(e) /\ MembershipAgrees(e) /\ FramesFit(e)
  BY <1>1 DEF Good, Fits, Refocuses, IndexAgrees, MembershipAgrees, FramesFit
<1>3. Tidy(e)
  BY DEF Good, Fits, Refocuses, Tidy
<1>4. ReturnsFit(e)
  BY DEF Good, Fits, Refocuses, ReturnsFit, ShowsHidden
<1>5. c.known \subseteq Displays
  BY DEF Good, Sound, IsCatalog
<1>6. ASSUME NEW f \in e.known
      PROVE  /\ e.active[f] \in Opt(OnDisplay(e, f)) /\ e.last[f] \in Opt(NumberedOn(e, f))
             /\ e.hiddenReturn[f] \in Opt(NumberedOn(e, f))
             /\ OnDisplay(e, f) # {} => e.active[f] # None
  <2>1. CASE f = d
    BY <1>1, <2>1, NoneIsOutside DEF OnDisplay, Opt
  <2>2. CASE f # d
    BY <1>1, <1>5, <2>2 DEF Refocuses, Good, Fits, ReturnsLive, Shows
  <2>. QED  BY <2>1, <2>2
<1>. QED  BY <1>2, <1>3, <1>4, <1>6 DEF Good, Fits, ReturnsLive, Shows

LEMMA KnownWhenShown ==
  ASSUME NEW c, Good(c), NEW d \in Displays
  PROVE  /\ c.active[d] \in Opt(OnDisplay(c, d)) /\ c.last[d] \in Opt(NumberedOn(c, d))
         /\ c.hiddenReturn[d] \in Opt(NumberedOn(c, d))
         /\ c.active[d] # None => d \in c.known
BY DEF Good, Fits, Tidy, ReturnsLive, Opt

LEMMA ActivateGood ==
  ASSUME NEW c, Good(c), NEW d \in Displays, NEW id, CanActivate(c, d, id),
         NEW e, e = Activate(c, d, id)
  PROVE  Good(e) /\ (c.active[d] # id => e.hiddenReturn[d] = None)
<1>1. Sound(e)
  BY ActivateSound DEF Good, Succeeds
<1>2. id \in NumberedOn(c, d) /\ id # None
  BY NoneIsOutside DEF CanActivate, NumberedOn, OnDisplay
<1>3. CASE c.active[d] = id
  <2>1. e = [c EXCEPT !.known = c.known \cup {d}] /\ d \in c.known
    BY <1>2, <1>3, KnownWhenShown DEF Activate
  <2>2. /\ e.known = c.known /\ Rearranges(c, e) /\ e.tiled = c.tiled /\ e.floating = c.floating
        /\ e.positions = c.positions /\ e.assignment = c.assignment
    BY <2>1 DEF Rearranges
  <2>3. MembershipAgrees(e) /\ FramesFit(e)
    BY <2>2 DEF MembershipAgrees, FramesFit, Good, Fits
  <2>. QED  BY <1>1, <1>3, <2>2, <2>3, RearrangesGood
<1>4. CASE c.active[d] # id
  <2>1. e = [c EXCEPT !.known = c.known \cup {d},
                      !.last[d] = IF c.active[d] # None /\ c.number[c.active[d]] # None
                                  THEN c.active[d] ELSE @,
                      !.active[d] = id,
                      !.hiddenReturn[d] = None]
    BY <1>4 DEF Activate
  <2>2. Refocuses(c, e, d)
    BY <2>1 DEF Refocuses, Good, Sound, IsCatalog
  <2>3. /\ e.active[d] = id /\ e.hiddenReturn[d] = None
        /\ e.last[d] = IF c.active[d] # None /\ c.number[c.active[d]] # None
                       THEN c.active[d] ELSE c.last[d]
    BY <2>1 DEF Good, Sound, IsCatalog
  <2>4. e.last[d] \in Opt(NumberedOn(c, d))
    BY <2>3, KnownWhenShown DEF NumberedOn, Opt
  <2>5. ~ShowsHidden(e, d)
    BY <1>2, <2>2, <2>3 DEF ShowsHidden, Refocuses, Good, Sound, Indexed, NumberedOn
  <2>6. e.active[d] \in OnDisplay(c, d) /\ e.hiddenReturn[d] \in Opt(NumberedOn(c, d))
    BY <1>2, <2>3 DEF NumberedOn, Opt
  <2>. QED  BY <1>1, <2>2, <2>3, <2>4, <2>5, <2>6, RefocusesGood
<1>. QED  BY <1>3, <1>4

LEMMA ToggleHiddenGood ==
  ASSUME NEW c, Good(c), NEW d \in Displays, CanToggleHidden(c, d),
         NEW e, e = ToggleHidden(c, d)
  PROVE  Good(e)
<1>. DEFINE back(id) == IF id \in NumberedOn(c, d) THEN id ELSE FirstNumbered(c, d)
<1>1. Sound(e)
  BY ToggleHiddenSound DEF Good, Succeeds
<1>2. \A id : back(id) \in NumberedOn(c, d)
  BY FirstNumberedExists DEF Good, Sound, CanToggleHidden
<1>3. CASE ShowsHidden(c, d)
  <2>1. e = [c EXCEPT !.known = @ \cup {d},
                      !.active[d] = back(c.hiddenReturn[d]),
                      !.hiddenReturn[d] = None]
    BY <1>3 DEF ToggleHidden
  <2>. HIDE DEF back
  <2>2. Refocuses(c, e, d) /\ e.last = c.last
    BY <2>1 DEF Refocuses, Good, Sound, IsCatalog
  <2>3. e.active[d] = back(c.hiddenReturn[d]) /\ e.hiddenReturn[d] = None
    BY <2>1 DEF Good, Sound, IsCatalog
  <2>4. e.active[d] \in NumberedOn(c, d)
    BY <1>2, <2>3
  <2>5. ~ShowsHidden(e, d)
    BY <2>2, <2>4 DEF ShowsHidden, Refocuses, Good, Sound, Indexed, NumberedOn
  <2>6. e.active[d] \in OnDisplay(c, d) /\ e.hiddenReturn[d] \in Opt(NumberedOn(c, d))
    BY <2>3, <2>4 DEF NumberedOn, Opt
  <2>. QED  BY <1>1, <2>2, <2>3, <2>5, <2>6, KnownWhenShown, RefocusesGood
<1>4. CASE ~ShowsHidden(c, d)
  <2>. DEFINE h == EnsureHidden(c, d)
  <2>1. Good(h) /\ h.hidden[d] \in WorkspaceIds
    BY EnsureHiddenGood, EnsureHiddenSound DEF Good, CanToggleHidden
  <2>2. e = [h EXCEPT !.known = @ \cup {d},
                      !.hiddenReturn[d] = back(c.active[d]),
                      !.active[d] = h.hidden[d]]
    BY <1>4 DEF ToggleHidden
  <2>3. NumberedOn(c, d) \subseteq NumberedOn(h, d)
    <3>1. CASE c.hidden[d] # None
      BY <3>1 DEF EnsureHidden
    <3>2. CASE c.hidden[d] = None
      <4>. DEFINE id == c.nextId + 1
      <4>1. id \in WorkspaceIds /\ c.nextId < id /\ c.nextId \in Int /\ id \in Int
        BY <3>2, Fresh DEF CanToggleHidden, CanHide, Good
      <4>2. h.display = [c.display EXCEPT ![id] = d] /\ h.number = [c.number EXCEPT ![id] = None]
        BY <3>2 DEF EnsureHidden
      <4>. HIDE DEF id, h
      <4>3. id \notin NumberedOn(c, d)
        <5>1. id \notin Live(c)
          BY <4>1 DEF Good, Sound, LiveBelowNext
        <5>. QED  BY <5>1, NoneIsOutside DEF Live, NumberedOn, OnDisplay
      <4>. QED  BY <4>1, <4>2, <4>3 DEF NumberedOn, OnDisplay, Good, Sound, IsCatalog
    <3>. QED  BY <3>1, <3>2
  <2>. HIDE DEF h, back
  <2>4. Refocuses(h, e, d) /\ e.last = h.last
    BY <2>1, <2>2 DEF Refocuses, Good, Sound, IsCatalog
  <2>5. e.active[d] = h.hidden[d] /\ e.hiddenReturn[d] = back(c.active[d]) /\ e.hidden = h.hidden
    BY <2>1, <2>2 DEF Good, Sound, IsCatalog
  <2>6. h.hidden[d] # None /\ e.active[d] \in OnDisplay(h, d)
    BY <2>1, <2>5, NoneIsOutside DEF Good, Sound, Indexed, OnDisplay
  <2>7. e.hiddenReturn[d] \in NumberedOn(h, d) /\ e.hiddenReturn[d] # None
    BY <1>2, <2>3, <2>5, NoneIsOutside DEF NumberedOn, OnDisplay
  <2>8. ShowsHidden(e, d)
    BY <2>5, <2>6 DEF ShowsHidden
  <2>. QED  BY <1>1, <2>1, <2>4, <2>6, <2>7, <2>8, KnownWhenShown, RefocusesGood DEF Opt
<1>. QED  BY <1>3, <1>4

\* The workspace that goes away may be the one a display returns to.
LEMMA DestroyGood ==
  ASSUME NEW c, Good(c), NEW id \in WorkspaceIds, NEW e, e = DestroyIfEphemeral(c, id),
         IsEphemeral(c, id) => c.hiddenReturn[c.display[id]] # id
  PROVE  Good(e)
<1>1. Sound(e)
  BY DestroySound DEF Good, Succeeds
<1>2. CASE ~IsEphemeral(c, id)
  BY <1>2 DEF DestroyIfEphemeral
<1>3. CASE IsEphemeral(c, id)
  <2>. DEFINE home == c.display[id]
              slot == c.number[id]
  <2>1. home \in Displays /\ slot \in Slots /\ c.active[home] # id /\ c.floating[id] = {}
    BY <1>3 DEF IsEphemeral, IsEmpty, Good, Sound, IsCatalog, Opt
  <2>2. e = [c EXCEPT !.display[id] = None, !.number[id] = None, !.positions[id] = {},
                      !.byNumber[slot] = None, !.last[home] = IF @ = id THEN None ELSE @]
    BY <1>3 DEF DestroyIfEphemeral
  <2>3. /\ e.hidden = c.hidden /\ e.known = c.known /\ e.active = c.active
        /\ e.hiddenReturn = c.hiddenReturn /\ e.tiled = c.tiled /\ e.floating = c.floating
        /\ e.assignment = c.assignment
    BY <2>2
  <2>4. /\ e.display[id] = None /\ e.positions[id] = {}
        /\ \A i \in WorkspaceIds \ {id} : /\ e.display[i] = c.display[i] /\ e.number[i] = c.number[i]
                                          /\ e.positions[i] = c.positions[i]
        /\ \A n \in Slots \ {slot} : e.byNumber[n] = c.byNumber[n]
        /\ e.last[home] = IF c.last[home] = id THEN None ELSE c.last[home]
        /\ \A d \in Displays \ {home} : e.last[d] = c.last[d]
    BY <2>1, <2>2 DEF Good, Sound, IsCatalog
  <2>. HIDE DEF slot
  <2>5. IndexAgrees(e)
    <3>1. ASSUME NEW i \in Live(e)
          PROVE  IF e.number[i] # None THEN e.byNumber[e.number[i]] = i
                 ELSE e.hidden[e.display[i]] = i
      <4>1. i # id /\ i \in WorkspaceIds /\ i \in Live(c)
        BY <2>4 DEF Live
      <4>2. IF c.number[i] # None THEN c.byNumber[c.number[i]] = i ELSE c.hidden[c.display[i]] = i
        BY <4>1 DEF Good, Fits, IndexAgrees
      <4>3. c.byNumber[slot] = id
        BY <1>3, <2>1 DEF slot, IsEphemeral, Live, Good, Fits, IndexAgrees
      <4>4. c.number[i] \in Opt(Slots)
        BY <4>1 DEF Good, Sound, IsCatalog
      <4>. QED  BY <2>3, <2>4, <4>1, <4>2, <4>3, <4>4 DEF Opt
    <3>. QED  BY <3>1 DEF IndexAgrees
  <2>6. MembershipAgrees(e) /\ FramesFit(e)
    BY <2>1, <2>3, <2>4 DEF MembershipAgrees, FramesFit, Good, Fits
  <2>7. Tidy(e) /\ ReturnsFit(e)
    BY <2>1, <2>3, <2>4 DEF Tidy, ReturnsFit, ShowsHidden, Good, Fits
  <2>8. \A d \in Displays : /\ OnDisplay(e, d) = OnDisplay(c, d) \ {id}
                            /\ NumberedOn(e, d) = NumberedOn(c, d) \ {id}
                            /\ d # home => id \notin OnDisplay(c, d)
    BY <2>4, NoneIsOutside DEF OnDisplay, NumberedOn
  <2>9. ASSUME NEW d \in c.known
        PROVE  /\ e.active[d] \in Opt(OnDisplay(e, d)) /\ e.last[d] \in Opt(NumberedOn(e, d))
               /\ e.hiddenReturn[d] \in Opt(NumberedOn(e, d))
               /\ OnDisplay(e, d) # {} => e.active[d] # None
    <3>1. /\ d \in Displays /\ c.active[d] \in Opt(OnDisplay(c, d))
          /\ c.last[d] \in Opt(NumberedOn(c, d)) /\ c.hiddenReturn[d] \in Opt(NumberedOn(c, d))
          /\ OnDisplay(c, d) # {} => c.active[d] # None
      BY DEF Good, Sound, IsCatalog, Fits, ReturnsLive, Shows
    <3>2. c.active[d] # id /\ c.hiddenReturn[d] # id
      BY <1>3, <2>1, <2>8, <3>1, NoneIsOutside DEF NumberedOn, Opt
    <3>3. e.last[d] # id /\ e.last[d] \in {None, c.last[d]}
      BY <2>1, <2>4, <2>8, <3>1, NoneIsOutside DEF NumberedOn, Opt
    <3>. QED  BY <2>3, <2>8, <3>1, <3>2, <3>3 DEF Opt
  <2>. QED  BY <1>1, <2>3, <2>5, <2>6, <2>7, <2>9 DEF Good, Fits, ReturnsLive, Shows
<1>. QED  BY <1>2, <1>3

\* That is the only way to lose it.
LostReturn(c) ==
  \E d \in Displays : c.hiddenReturn[d] # None /\ c.display[c.hiddenReturn[d]] = None

LEMMA DestroyLosesReturn ==
  ASSUME NEW c, Good(c), NEW id \in WorkspaceIds, NEW e, e = DestroyIfEphemeral(c, id)
  PROVE  Good(e) \/ (LostReturn(e) /\ ~Validate(e))
<1>1. CASE IsEphemeral(c, id) /\ c.hiddenReturn[c.display[id]] = id
  <2>1. c.display[id] \in Displays
    BY <1>1 DEF IsEphemeral, Good, Sound, IsCatalog, Opt
  <2>2. /\ e.hiddenReturn = c.hiddenReturn /\ e.display = [c.display EXCEPT ![id] = None]
        /\ e.known = c.known
    BY <1>1 DEF DestroyIfEphemeral
  <2>3. e.display[id] = None
    BY <2>2 DEF Good, Sound, IsCatalog
  <2>4. c.display[id] \in c.known
    BY <1>1, <2>1, NoneIsOutside DEF Good, Fits, Tidy
  <2>5. ~DisplayStateAgrees(e)
    BY <1>1, <2>1, <2>2, <2>3, <2>4, NoneIsOutside DEF DisplayStateAgrees, NumberedOn, OnDisplay, Opt
  <2>. QED  BY <1>1, <2>1, <2>2, <2>3, <2>5, NoneIsOutside DEF LostReturn, Validate
<1>2. CASE ~(IsEphemeral(c, id) /\ c.hiddenReturn[c.display[id]] = id)
  BY <1>2, DestroyGood
<1>. QED  BY <1>1, <1>2

-----------------------------------------------------------------------------
(***************************************************************************)
(* Displays that come and go.  Of the hidden workspaces, those of offline  *)
(* displays are merged into one, and nothing else takes a window anywhere. *)
(***************************************************************************)
Orphaned(c, attached) == {d \in Displays \ attached : c.hidden[d] # None}
FirstOrphaned(c, attached) ==
  CHOOSE d \in Orphaned(c, attached) : \A other \in Orphaned(c, attached) : d <= other
MergeTarget(c, attached, receiver) ==
  IF Orphaned(c, attached) = {} \/ c.hidden[receiver] # None THEN c.hidden[receiver]
  ELSE c.hidden[FirstOrphaned(c, attached)]
Merged(c, attached, receiver) ==
  {c.hidden[d] : d \in Orphaned(c, attached)} \ {MergeTarget(c, attached, receiver)}
Merging(c, merged) == {w \in Windows : c.assignment[w] \in merged}

\* What the migration leaves, given the merged workspaces and their target.
Migrated(c, e, attached, receiver, target, merged) ==
  /\ \A id \in WorkspaceIds : e.display[id] =
       IF id \in merged THEN None
       ELSE IF c.display[id] \in Displays \ attached THEN receiver ELSE c.display[id]
  /\ e.number = c.number /\ e.byNumber = c.byNumber
  /\ e.nextId = c.nextId /\ e.known = attached
  /\ \A d \in Displays :
       /\ d \in attached => /\ e.active[d] = c.active[d] /\ e.last[d] = c.last[d]
                            /\ e.hiddenReturn[d] = c.hiddenReturn[d]
       /\ d \notin attached => /\ e.active[d] = None /\ e.last[d] = None
                               /\ e.hiddenReturn[d] = None
       /\ e.hidden[d] = IF d = receiver THEN target
                        ELSE IF d \in attached THEN c.hidden[d] ELSE None
  /\ \E p : /\ p = MoveWindows(c, Merging(c, merged), target)
            /\ e.assignment = p.assignment /\ e.tiled = p.tiled
            /\ e.floating = p.floating /\ e.positions = p.positions

\* The workspaces that are merged, and the one they are merged into.
Merge(c, attached, receiver, target, merged) ==
  /\ merged \subseteq WorkspaceIds
  /\ \A id \in merged : c.display[id] \in Displays \ attached /\ c.number[id] = None
  /\ target \in Opt(WorkspaceIds) /\ target \notin merged
  /\ target # None => /\ c.number[target] = None
                      /\ c.display[target] \in {receiver} \cup (Displays \ attached)
  /\ merged # {} => target # None
  /\ c.hidden[receiver] # None => target = c.hidden[receiver]
  /\ c.hidden[receiver] = None /\ target # None => c.display[target] \in Displays \ attached
  /\ \A d \in Displays \ attached : c.hidden[d] # None =>
       c.hidden[d] \in merged \/ c.hidden[d] = target

LEMMA MigrateShape ==
  ASSUME NEW c, Sound(c), NEW attached \in SUBSET Displays, NEW receiver \in attached,
         NEW e, e = Migrate(c, attached, receiver)
  PROVE  Migrated(c, e, attached, receiver,
                  MergeTarget(c, attached, receiver), Merged(c, attached, receiver))
<1>0. PICK target, merged : /\ target = MergeTarget(c, attached, receiver)
                            /\ merged = Merged(c, attached, receiver)
  OBVIOUS
<1>. DEFINE
  moving == Merging(c, merged)
  p == MoveWindows(c, moving, target)
  keep(f) == [d \in Displays |-> IF d \in attached THEN f[d] ELSE None]
<1>1. p.number = c.number /\ p.byNumber = c.byNumber /\ p.nextId = c.nextId
  BY DEF MoveWindows, Place
<1>2. e = [MoveWindows(c, Merging(c, Merged(c, attached, receiver)), MergeTarget(c, attached, receiver)) EXCEPT
        !.display = [id \in WorkspaceIds |->
           IF id \in Merged(c, attached, receiver) THEN None
           ELSE IF c.display[id] \in Displays \ attached THEN receiver ELSE c.display[id]],
        !.hidden = [keep(c.hidden) EXCEPT ![receiver] = MergeTarget(c, attached, receiver)],
        !.known = attached,
        !.active = keep(c.active),
        !.last = keep(c.last),
        !.hiddenReturn = keep(c.hiddenReturn)]
  BY Zenon DEF Migrate, Merging, Merged, MergeTarget, FirstOrphaned, Orphaned
<1>3. /\ e.display = [id \in WorkspaceIds |->
           IF id \in merged THEN None
           ELSE IF c.display[id] \in Displays \ attached THEN receiver ELSE c.display[id]]
      /\ e.number = c.number /\ e.byNumber = c.byNumber
      /\ e.hidden = [keep(c.hidden) EXCEPT ![receiver] = target]
      /\ e.nextId = c.nextId /\ e.known = attached
      /\ e.active = keep(c.active) /\ e.last = keep(c.last)
      /\ e.hiddenReturn = keep(c.hiddenReturn)
      /\ e.assignment = p.assignment /\ e.tiled = p.tiled
      /\ e.floating = p.floating /\ e.positions = p.positions
  <2>1. p = MoveWindows(c, Merging(c, Merged(c, attached, receiver)), MergeTarget(c, attached, receiver))
    BY <1>0
  <2>. HIDE DEF p
  <2>2. e = [p EXCEPT
        !.display = [id \in WorkspaceIds |->
           IF id \in merged THEN None
           ELSE IF c.display[id] \in Displays \ attached THEN receiver ELSE c.display[id]],
        !.hidden = [keep(c.hidden) EXCEPT ![receiver] = target],
        !.known = attached,
        !.active = keep(c.active),
        !.last = keep(c.last),
        !.hiddenReturn = keep(c.hiddenReturn)]
    BY <1>0, <1>2, <2>1
  <2>. QED  BY <1>1, <2>2
<1>. HIDE DEF p
<1>4. \E q : /\ q = p /\ e.assignment = q.assignment /\ e.tiled = q.tiled
             /\ e.floating = q.floating /\ e.positions = q.positions
  BY <1>3
<1>5. /\ \A d \in Displays : d \in attached => /\ e.active[d] = c.active[d]
                                             /\ e.last[d] = c.last[d]
                                             /\ e.hiddenReturn[d] = c.hiddenReturn[d]
      /\ \A d \in Displays : d \notin attached => /\ e.active[d] = None
                                                  /\ e.last[d] = None
                                                  /\ e.hiddenReturn[d] = None
  BY <1>3
<1>6. \A d \in Displays : e.hidden[d] = IF d = receiver THEN target
                                        ELSE IF d \in attached THEN c.hidden[d] ELSE None
  BY <1>3
<1>7. Migrated(c, e, attached, receiver, target, merged)
  BY <1>3, <1>4, <1>5, <1>6 DEF Migrated, p
<1>. QED  BY <1>0, <1>7

LEMMA MergedShape ==
  ASSUME NEW c, Good(c), NEW attached \in SUBSET Displays, NEW receiver \in attached
  PROVE  Merge(c, attached, receiver, MergeTarget(c, attached, receiver), Merged(c, attached, receiver))
<1>0. PICK target, merged : /\ target = MergeTarget(c, attached, receiver)
                            /\ merged = Merged(c, attached, receiver)
  OBVIOUS
<1>1. Orphaned(c, attached) # {} => FirstOrphaned(c, attached) \in Orphaned(c, attached)
  <2>1. ASSUME Orphaned(c, attached) # {}
        PROVE  \E d \in Orphaned(c, attached) : \A other \in Orphaned(c, attached) : d <= other
    <3>1. Orphaned(c, attached) \in SUBSET Nat
      BY CatalogAssumption DEF CatalogAssumption, Orphaned
    <3>. QED  BY <2>1, <3>1, MinExists
  <2>. QED  BY <2>1 DEF FirstOrphaned
<1>2. \A d \in Displays : c.hidden[d] # None =>
        /\ c.hidden[d] \in WorkspaceIds
        /\ c.display[c.hidden[d]] = d /\ c.number[c.hidden[d]] = None
  BY DEF Good, Sound, IsCatalog, Indexed, Opt
<1>3. Orphaned(c, attached) \subseteq Displays \ attached
      /\ \A d \in Displays \ attached : c.hidden[d] # None <=> d \in Orphaned(c, attached)
  BY DEF Orphaned
<1>4. \/ target = c.hidden[receiver]
      \/ c.hidden[receiver] = None /\ \E d \in Orphaned(c, attached) : target = c.hidden[d]
  BY <1>0, <1>1 DEF MergeTarget
<1>5. /\ c.hidden[receiver] # None => target = c.hidden[receiver]
      /\ Orphaned(c, attached) # {} => target # None
  BY <1>0, <1>1, <1>3 DEF MergeTarget
<1>6. c.hidden[receiver] \in Opt(WorkspaceIds) /\ receiver \in Displays
  BY DEF Good, Sound, IsCatalog
<1>7. \A d \in Orphaned(c, attached) : c.hidden[d] \in merged \/ c.hidden[d] = target
  BY <1>0 DEF Merged
<1>8. \A id \in merged : id # target /\ \E d \in Orphaned(c, attached) : id = c.hidden[d]
  BY <1>0 DEF Merged
<1>9. Merge(c, attached, receiver, target, merged)
  BY <1>2, <1>3, <1>4, <1>5, <1>6, <1>7, <1>8 DEF Merge, Opt
<1>. QED  BY <1>0, <1>9

\* Windows keep their layer and their frame.
Framed(c, w) == c.assignment[w] # None /\ w \in c.positions[c.assignment[w]]
SameMembership(c, e) ==
  \A w \in Windows : /\ e.assignment[w] = None <=> c.assignment[w] = None
                     /\ IsFloating(e, w) <=> IsFloating(c, w)
                     /\ Framed(e, w) <=> Framed(c, w)

\* A window goes elsewhere only when its hidden workspace is merged into another.
OnlyMerges(c, e) ==
  \A w \in Windows : e.assignment[w] # c.assignment[w] =>
    /\ c.assignment[w] \in WorkspaceIds \ Live(e)
    /\ c.assignment[w] <= e.nextId
    /\ c.number[c.assignment[w]] = None
    /\ e.assignment[w] \in Live(e)
    /\ e.number[e.assignment[w]] = None

LEMMA MoveKeepsMembership ==
  ASSUME NEW c, Good(c), NEW X \in SUBSET Windows, NEW id,
         X # {} => id \in WorkspaceIds, \A w \in X : c.assignment[w] # None,
         NEW e, e = MoveWindows(c, X, id)
  PROVE  /\ SameMembership(c, e)
         /\ \A w \in Windows : e.assignment[w] = IF w \in X THEN id ELSE c.assignment[w]
<1>. DEFINE float == {w \in X : IsFloating(c, w)}
            framed == {w \in float : w \in c.positions[c.assignment[w]]}
<1>1. e = Place(c, X, [w \in X |-> id], float, framed)
  BY DEF MoveWindows
<1>. HIDE DEF float, framed
<1>2. /\ \A w \in Windows : e.assignment[w] = IF w \in X THEN id ELSE c.assignment[w]
      /\ \A i \in WorkspaceIds :
           /\ e.floating[i] = (c.floating[i] \ X) \cup {w \in X \cap float : id = i}
           /\ e.positions[i] = (c.positions[i] \ X) \cup {w \in X \cap (float \cap framed) : id = i}
  BY <1>1 DEF Place
<1>3. \A w \in Windows : c.assignment[w] # None => c.assignment[w] \in WorkspaceIds
  BY DEF Good, Sound, IsCatalog, Opt
<1>4. ASSUME NEW w \in Windows
      PROVE  /\ e.assignment[w] = None <=> c.assignment[w] = None
             /\ IsFloating(e, w) <=> IsFloating(c, w)
             /\ Framed(e, w) <=> Framed(c, w)
  <2>1. CASE w \in X
    <3>1. id \in WorkspaceIds /\ e.assignment[w] = id /\ id # None
      BY <1>2, <2>1, NoneIsOutside
    <3>2. w \in e.floating[id] <=> w \in float
      BY <1>2, <2>1, <3>1
    <3>3. w \in e.positions[id] <=> w \in float /\ w \in framed
      BY <1>2, <2>1, <3>1
    <3>4. w \in framed <=> w \in float /\ w \in c.positions[c.assignment[w]]
      BY DEF framed
    <3>5. w \in float <=> IsFloating(c, w)
      BY <2>1 DEF float
    <3>6. w \in c.positions[c.assignment[w]] => IsFloating(c, w)
      BY <1>3, <2>1 DEF Good, Fits, FramesFit, IsFloating
    <3>. QED  BY <2>1, <3>1, <3>2, <3>3, <3>4, <3>5, <3>6 DEF IsFloating, Framed
  <2>2. CASE w \notin X
    <3>1. e.assignment[w] = c.assignment[w]
      BY <1>2, <2>2
    <3>2. \A i \in WorkspaceIds : /\ w \in e.floating[i] <=> w \in c.floating[i]
                                  /\ w \in e.positions[i] <=> w \in c.positions[i]
      BY <1>2, <2>2
    <3>. QED  BY <1>3, <3>1, <3>2 DEF IsFloating, Framed
  <2>. QED  BY <2>1, <2>2
<1>. QED  BY <1>2, <1>4 DEF SameMembership

LEMMA MigrateGood ==
  ASSUME NEW c, Good(c), NEW attached \in SUBSET Displays, NEW receiver \in attached,
         NEW e, e = Migrate(c, attached, receiver)
  PROVE  /\ Sound(e) /\ Fits(e) /\ ReturnsLive(e) /\ e.known = attached /\ Stable(c, e)
         /\ SameMembership(c, e) /\ OnlyMerges(c, e)
         /\ \A d \in attached : e.active[d] = c.active[d]
<1>1. Sound(e) /\ Stable(c, e) /\ e.known = attached
  BY MigrateSound DEF Good
<1>2. PICK target, merged : /\ Merge(c, attached, receiver, target, merged)
                            /\ Migrated(c, e, attached, receiver, target, merged)
  BY MergedShape, MigrateShape DEF Good
<1>. DEFINE moving == Merging(c, merged)
<1>3. PICK p : /\ p = MoveWindows(c, moving, target)
               /\ e.assignment = p.assignment /\ e.tiled = p.tiled
               /\ e.floating = p.floating /\ e.positions = p.positions
  BY <1>2 DEF Migrated
<1>4. target \in Opt(WorkspaceIds)
  BY <1>2 DEF Merge
<1>5. /\ moving \in SUBSET Windows
      /\ \A w \in Windows : w \in moving <=> c.assignment[w] \in merged
      /\ moving # {} => target \in WorkspaceIds
      /\ \A w \in moving : c.assignment[w] # None
  BY <1>2, NoneIsOutside DEF Merge, Merging, Opt
<1>. HIDE DEF moving
<1>6. MembershipAgrees(e) /\ FramesFit(e)
  <2>1. PICK dest, float, framed :
          p = Place(c, moving, dest, float, framed) /\ \A w \in moving : dest[w] \in Opt(WorkspaceIds)
    BY <1>3, <1>4, MoveWindowsPlaces
  <2>2. MembershipAgrees(p) /\ FramesFit(p)
    BY <1>5, <2>1, PlaceMembership DEF Good, Fits
  <2>. QED  BY <1>3, <2>2 DEF MembershipAgrees, FramesFit
<1>7. SameMembership(c, e)
      /\ \A w \in Windows : e.assignment[w] = IF w \in moving THEN target ELSE c.assignment[w]
  <2>1. /\ SameMembership(c, p)
        /\ \A w \in Windows : p.assignment[w] = IF w \in moving THEN target ELSE c.assignment[w]
    BY <1>3, <1>5, MoveKeepsMembership
  <2>. QED  BY <1>3, <2>1 DEF SameMembership, IsFloating, Framed
<1>8. OnlyMerges(c, e)
  <2>. SUFFICES ASSUME NEW w \in Windows, e.assignment[w] # c.assignment[w]
                PROVE  /\ c.assignment[w] \in WorkspaceIds \ Live(e)
                       /\ c.assignment[w] <= e.nextId
                       /\ c.number[c.assignment[w]] = None
                       /\ e.assignment[w] \in Live(e)
                       /\ e.number[e.assignment[w]] = None
    BY DEF OnlyMerges
  <2>1. w \in moving /\ c.assignment[w] \in merged /\ e.assignment[w] = target /\ target \in WorkspaceIds
    BY <1>5, <1>7
  <2>2. c.assignment[w] \in WorkspaceIds \ Live(e) /\ c.number[c.assignment[w]] = None
    BY <1>2, <2>1 DEF Merge, Migrated, Live
  <2>3. c.assignment[w] <= e.nextId
    <3>1. c.assignment[w] \in Live(c)
      BY <1>2, <2>1, NoneIsOutside DEF Merge, Live
    <3>. QED  BY <1>2, <3>1 DEF Migrated, Good, Sound, LiveBelowNext
  <2>4. target \in Live(e) /\ e.number[target] = None
    BY <1>2, <2>1, NoneIsOutside DEF Merge, Migrated, Live
  <2>. QED  BY <2>1, <2>2, <2>3, <2>4
<1>9. IndexAgrees(e)
  <2>. SUFFICES ASSUME NEW id \in Live(e)
                PROVE  IF e.number[id] # None THEN e.byNumber[e.number[id]] = id
                       ELSE e.hidden[e.display[id]] = id
    BY DEF IndexAgrees
  <2>1. id \in WorkspaceIds /\ id \notin merged /\ c.display[id] \in Displays
    BY <1>2 DEF Migrated, Live, Good, Sound, IsCatalog, Opt
  <2>2. IF c.number[id] # None THEN c.byNumber[c.number[id]] = id ELSE c.hidden[c.display[id]] = id
    BY <2>1, NoneIsOutside DEF Good, Fits, IndexAgrees, Live
  <2>3. CASE c.number[id] # None
    BY <1>2, <2>2, <2>3 DEF Migrated
  <2>4. CASE c.number[id] = None /\ c.display[id] \in attached
    <3>1. e.display[id] = c.display[id] /\ c.hidden[c.display[id]] = id /\ id # None
      BY <1>2, <2>1, <2>2, <2>4, NoneIsOutside DEF Migrated
    <3>. QED  BY <1>2, <2>1, <2>4, <3>1 DEF Merge, Migrated
  <2>5. CASE c.number[id] = None /\ c.display[id] \notin attached
    <3>1. e.display[id] = receiver /\ id = target
      BY <1>2, <2>1, <2>2, <2>5, NoneIsOutside DEF Merge, Migrated
    <3>. QED  BY <1>2, <2>5, <3>1 DEF Migrated
  <2>. QED  BY <2>3, <2>4, <2>5
<1>10. Tidy(e)
  BY <1>1, <1>2 DEF Migrated, Tidy
<1>11. ASSUME NEW d \in Displays
       PROVE  /\ c.active[d] \in Opt(OnDisplay(c, d)) /\ c.last[d] \in Opt(NumberedOn(c, d))
              /\ c.hiddenReturn[d] \in Opt(NumberedOn(c, d))
  BY KnownWhenShown
<1>12. ASSUME NEW d \in attached
       PROVE OnDisplay(c, d) \subseteq OnDisplay(e, d) /\ NumberedOn(c, d) \subseteq NumberedOn(e, d)
  BY <1>2 DEF Merge, Migrated, OnDisplay, NumberedOn
<1>13. ReturnsFit(e)
  <2>. SUFFICES ASSUME NEW d \in Displays
                PROVE  e.hiddenReturn[d] # None <=> ShowsHidden(e, d)
    BY DEF ReturnsFit, ShowsHidden
  <2>1. c.hiddenReturn[d] # None <=> ShowsHidden(c, d)
    BY DEF Good, Fits, ReturnsFit, ShowsHidden
  <2>2. CASE d \notin attached
    BY <1>2, <2>2 DEF Migrated, ShowsHidden
  <2>3. CASE d \in attached /\ (d # receiver \/ c.hidden[receiver] # None)
    BY <1>2, <2>1, <2>3 DEF Merge, Migrated, ShowsHidden
  <2>4. CASE d = receiver /\ c.hidden[receiver] = None
    <3>1. e.hiddenReturn[d] = None
      BY <1>2, <2>1, <2>4 DEF Migrated, ShowsHidden
    <3>2. target # None => c.active[d] # target
      BY <1>2, <1>11, <2>4 DEF Merge, OnDisplay, Opt
    <3>. QED  BY <1>2, <2>4, <3>1, <3>2 DEF Migrated, ShowsHidden
  <2>. QED  BY <2>2, <2>3, <2>4
<1>14. ASSUME NEW d \in attached
       PROVE  /\ e.active[d] \in Opt(OnDisplay(e, d)) /\ e.last[d] \in Opt(NumberedOn(e, d))
              /\ e.hiddenReturn[d] \in Opt(NumberedOn(e, d))
  BY <1>2, <1>11, <1>12 DEF Migrated, Opt
<1>15. \A d \in attached : e.active[d] = c.active[d]
  BY <1>2 DEF Migrated
<1>. QED
  BY <1>1, <1>6, <1>7, <1>8, <1>9, <1>10, <1>13, <1>14, <1>15 DEF Fits, ReturnsLive

\* What is merged stays so while workspaces are added.
LEMMA MergesGrow ==
  ASSUME NEW c, NEW e, Sound(e), OnlyMerges(c, e),
         NEW f, Sound(f), NEW N, Grows(e, f, N)
  PROVE  OnlyMerges(c, f) /\ (SameMembership(c, e) => SameMembership(c, f))
<1>1. \A id \in WorkspaceIds : id <= e.nextId =>
        id \notin N /\ f.display[id] = e.display[id] /\ f.number[id] = e.number[id]
  <2>1. e.nextId \in Int /\ WorkspaceIds \subseteq Int
    BY CatalogAssumption DEF CatalogAssumption, Sound, IsCatalog, WorkspaceIds
  <2>. QED  BY <2>1 DEF Grows, Adds
<1>2. \A id \in Live(e) : id \in WorkspaceIds /\ id <= e.nextId
  BY DEF Live, Sound, LiveBelowNext
<1>3. f.assignment = e.assignment /\ f.floating = e.floating /\ f.positions = e.positions
      /\ e.nextId <= f.nextId
  BY DEF Grows, Adds
<1>4. ASSUME NEW w \in Windows, f.assignment[w] # c.assignment[w]
      PROVE  /\ c.assignment[w] \in WorkspaceIds \ Live(f)
             /\ c.assignment[w] <= f.nextId
             /\ c.number[c.assignment[w]] = None
             /\ f.assignment[w] \in Live(f)
             /\ f.number[f.assignment[w]] = None
  <2>1. /\ c.assignment[w] \in WorkspaceIds \ Live(e)
        /\ c.assignment[w] <= e.nextId
        /\ c.number[c.assignment[w]] = None
        /\ e.assignment[w] \in Live(e)
        /\ e.number[e.assignment[w]] = None
    BY <1>3, <1>4 DEF OnlyMerges
  <2>2. c.assignment[w] \notin Live(f)
    BY <1>1, <2>1 DEF Live
  <2>3. f.assignment[w] \in Live(f) /\ f.number[f.assignment[w]] = None
    BY <1>1, <1>2, <1>3, <2>1 DEF Live
  <2>4. c.assignment[w] <= f.nextId
    <3>1. c.assignment[w] \in Int /\ e.nextId \in Int /\ f.nextId \in Int
      BY <2>1, CatalogAssumption DEF CatalogAssumption, WorkspaceIds, Sound, IsCatalog
    <3>. QED  BY <1>3, <2>1, <3>1
  <2>. QED  BY <2>1, <2>2, <2>3, <2>4
<1>5. ASSUME SameMembership(c, e)  PROVE SameMembership(c, f)
  BY <1>3, <1>5 DEF SameMembership, IsFloating, Framed
<1>. QED  BY <1>4, <1>5 DEF OnlyMerges

LEMMA SettleGrows ==
  ASSUME NEW c, Sound(c), Fits(c), ReturnsLive(c), NEW attached, attached = c.known,
         Served(c, attached), NEW e, e = Settle(c, attached)
  PROVE  Sound(e) /\ Grows(c, e, {}) /\ Shows(e)
<1>. DEFINE own(d, id) == IF id \in OnDisplay(c, d) THEN id ELSE None
<1>1. attached \in SUBSET Displays
  BY DEF Sound, IsCatalog
<1>2. Sound(e)
  BY <1>1, SettleSound DEF Succeeds
<1>3. /\ e = [c EXCEPT
           !.active = [d \in Displays |->
              IF d \in attached /\ own(d, c.active[d]) = None
              THEN FirstNumbered(c, d) ELSE c.active[d]],
           !.last = [d \in Displays |->
              IF d \in attached THEN own(d, c.last[d]) ELSE c.last[d]],
           !.hiddenReturn = [d \in Displays |->
              IF d \in attached THEN own(d, c.hiddenReturn[d]) ELSE c.hiddenReturn[d]]]
  BY Zenon DEF Settle
<1>4. \A d \in attached : /\ c.active[d] # None => own(d, c.active[d]) = c.active[d]
                        /\ own(d, c.last[d]) = c.last[d]
                        /\ own(d, c.hiddenReturn[d]) = c.hiddenReturn[d]
  BY DEF Fits, ReturnsLive, NumberedOn, Opt
<1>5. \A d \in attached : own(d, None) = None
  OBVIOUS
<1>6. \A d \in attached : FirstNumbered(c, d) \in NumberedOn(c, d) /\ FirstNumbered(c, d) # None
  <2>1. \A d \in attached : NumberedOn(c, d) # {}
    BY <1>1 DEF Served, Sound, KeepsANumber
  <2>. QED  BY <2>1, FirstNumberedExists, NoneIsOutside DEF Sound, NumberedOn, OnDisplay
<1>. HIDE DEF own
<1>7. /\ \A d \in Displays : e.active[d] =
           IF d \in attached /\ c.active[d] = None THEN FirstNumbered(c, d) ELSE c.active[d]
      /\ e.display = c.display /\ e.number = c.number /\ e.byNumber = c.byNumber
      /\ e.hidden = c.hidden /\ e.nextId = c.nextId /\ e.known = c.known
      /\ e.tiled = c.tiled /\ e.floating = c.floating /\ e.positions = c.positions
      /\ e.assignment = c.assignment
  BY <1>3, <1>4, <1>5
<1>8. e.last = c.last /\ e.hiddenReturn = c.hiddenReturn
  <2>1. /\ e.last = [d \in Displays |-> IF d \in attached THEN own(d, c.last[d]) ELSE c.last[d]]
        /\ e.hiddenReturn = [d \in Displays |->
              IF d \in attached THEN own(d, c.hiddenReturn[d]) ELSE c.hiddenReturn[d]]
    BY <1>3
  <2>. QED  BY <1>4, <2>1 DEF Sound, IsCatalog
<1>9. Grows(c, e, {})
  <2>1. c.nextId \in Int
    BY CatalogAssumption DEF CatalogAssumption, Sound, IsCatalog
  <2>2. \A d : NumberedOn(e, d) = NumberedOn(c, d)
    BY <1>7 DEF NumberedOn, OnDisplay
  <2>. QED  BY <1>6, <1>7, <1>8, <2>1, <2>2 DEF Grows, Adds
<1>10. Shows(e)
  BY <1>1, <1>6, <1>7 DEF Shows
<1>. QED  BY <1>2, <1>9, <1>10

LEMMA ReconcileGood ==
  ASSUME NEW c, Good(c), NEW attached \in SUBSET Displays,
         NEW queue \in [Displays -> Nat], \A d, f \in attached : queue[d] = queue[f] => d = f,
         NEW receiver, attached # {} => receiver \in attached,
         CanReconcile(c, attached, receiver, queue),
         NEW e, e = Reconcile(c, attached, receiver, queue)
  PROVE  /\ Good(e) /\ SameMembership(c, e) /\ OnlyMerges(c, e)
         /\ \A d \in attached : c.active[d] # None => e.active[d] = c.active[d]
<1>1. Sound(e)
  BY ReconcileSound DEF Good
<1>2. CASE attached = {}
  <2>1. Live(c) = {}
    BY <1>2 DEF CanReconcile
  <2>2. e = [c EXCEPT !.known = {},
                      !.active = [d \in Displays |-> None],
                      !.last = [d \in Displays |-> None],
                      !.hiddenReturn = [d \in Displays |-> None]]
    BY <1>2 DEF Reconcile
  <2>3. /\ e.display = c.display /\ e.known = {}
        /\ e.tiled = c.tiled /\ e.floating = c.floating /\ e.positions = c.positions
        /\ e.assignment = c.assignment
        /\ \A d \in Displays : e.active[d] = None /\ e.last[d] = None /\ e.hiddenReturn[d] = None
    BY <2>2
  <2>4. IndexAgrees(e) /\ MembershipAgrees(e) /\ FramesFit(e)
    BY <2>1, <2>3 DEF IndexAgrees, Live, Good, Fits, MembershipAgrees, FramesFit
  <2>5. Tidy(e) /\ ReturnsFit(e) /\ ReturnsLive(e) /\ Shows(e)
    BY <2>3 DEF Tidy, ReturnsFit, ReturnsLive, Shows, ShowsHidden
  <2>6. SameMembership(c, e) /\ OnlyMerges(c, e)
    BY <2>3 DEF SameMembership, OnlyMerges, IsFloating, Framed
  <2>. QED  BY <1>1, <1>2, <2>3, <2>4, <2>5, <2>6 DEF Good, Fits
<1>3. CASE attached # {}
  <2>1. PICK m : m = Migrate(c, attached, receiver)
    OBVIOUS
  <2>2. PICK f : f = Serve(m, attached, queue)
    OBVIOUS
  <2>3. /\ Sound(m) /\ Fits(m) /\ ReturnsLive(m) /\ m.known = attached
        /\ SameMembership(c, m) /\ OnlyMerges(c, m)
        /\ \A d \in attached : m.active[d] = c.active[d]
    BY <1>3, <2>1, MigrateGood
  <2>4. CanServe(m, attached, queue) /\ e = Settle(f, attached)
    BY <1>3, <2>1, <2>2 DEF CanReconcile, Reconcile
  <2>5. /\ Sound(f) /\ f.known = attached /\ Served(f, attached)
        /\ \E N : Grows(m, f, N) /\ ShowsNew(m, f, N)
    BY <2>2, <2>3, <2>4, ServeSound
  <2>6. PICK N : Grows(m, f, N)
    BY <2>5
  <2>7. Fits(f) /\ ReturnsLive(f)
    BY <2>3, <2>5, <2>6, GrowsFits
  <2>8. Sound(e) /\ Grows(f, e, {}) /\ Shows(e)
    BY <2>4, <2>5, <2>7, SettleGrows
  <2>9. Good(e)
    BY <2>5, <2>7, <2>8, GrowsFits DEF Good
  <2>10. SameMembership(c, e) /\ OnlyMerges(c, e)
    BY <2>3, <2>5, <2>6, <2>8, MergesGrow
  <2>11. \A d \in attached : c.active[d] # None => e.active[d] = c.active[d]
    <3>1. ASSUME NEW d \in attached, c.active[d] # None  PROVE f.active[d] = c.active[d]
      BY <2>3, <2>6, <3>1 DEF Grows
    <3>. QED  BY <2>8, <3>1 DEF Grows
  <2>. QED  BY <2>9, <2>10, <2>11
<1>. QED  BY <1>2, <1>3

LEMMA FromPersistedGood ==
  ASSUME NEW saved \in SUBSET WorkspaceIds, NEW owner \in [saved -> Displays],
         NEW number \in [saved -> Slots],
         \A a, b \in saved : number[a] = number[b] => a = b,
         NEW e, e = FromPersisted(saved, owner, number)
  PROVE  Good(e) /\ \A w \in Windows : e.assignment[w] = None
<1>. DEFINE
  of(d) == {id \in saved : owner[id] = d}
  lowest(S) == CHOOSE id \in S : \A other \in S : number[id] <= number[other]
  holder(n) == {id \in saved : number[id] = n}
  latest == CHOOSE id \in saved : \A other \in saved : other <= id
  the(S) == CHOOSE id \in S : TRUE
<1>1. Sound(e)
  BY FromPersistedSound
<1>2. \A d : of(d) # {} => lowest(of(d)) \in of(d)
  <2>1. ASSUME NEW d, of(d) # {}
        PROVE  \E id \in of(d) : \A other \in of(d) : number[id] <= number[other]
    <3>1. \A id \in of(d) : number[id] \in Nat
      BY CatalogAssumption DEF CatalogAssumption, Slots
    <3>. HIDE DEF of
    <3>. QED  BY <2>1, <3>1, MinByKey
  <2>. HIDE DEF of
  <2>. QED  BY <2>1
<1>3. \A id \in saved : holder(number[id]) # {} /\ the(holder(number[id])) = id
  <2>1. \A id \in saved : holder(number[id]) = {id}
    OBVIOUS
  <2>. HIDE DEF holder
  <2>. QED  BY <2>1
<1>4. e = [EmptyCatalog EXCEPT
        !.display = [id \in WorkspaceIds |-> IF id \in saved THEN owner[id] ELSE None],
        !.number = [id \in WorkspaceIds |-> IF id \in saved THEN number[id] ELSE None],
        !.byNumber = [n \in Slots |-> IF holder(n) = {} THEN None ELSE the(holder(n))],
        !.known = {d \in Displays : of(d) # {}},
        !.active = [d \in Displays |-> IF of(d) = {} THEN None ELSE lowest(of(d))],
        !.nextId = IF saved = {} THEN 0 ELSE latest]
  BY Zenon DEF FromPersisted
<1>5. \A d, id : id \in of(d) <=> id \in saved /\ owner[id] = d
  OBVIOUS
<1>. HIDE DEF latest, holder, the, lowest, of
<1>6. /\ \A id \in WorkspaceIds : /\ e.display[id] = IF id \in saved THEN owner[id] ELSE None
                                  /\ e.number[id] = IF id \in saved THEN number[id] ELSE None
      /\ \A id \in WorkspaceIds : e.tiled[id] = {} /\ e.floating[id] = {} /\ e.positions[id] = {}
      /\ \A w \in Windows : e.assignment[w] = None
      /\ \A d \in Displays : e.hidden[d] = None /\ e.last[d] = None /\ e.hiddenReturn[d] = None
      /\ \A n \in Slots : e.byNumber[n] = IF holder(n) = {} THEN None ELSE the(holder(n))
      /\ e.known = {d \in Displays : of(d) # {}}
      /\ \A d \in Displays : e.active[d] = IF of(d) = {} THEN None ELSE lowest(of(d))
  BY <1>4 DEF EmptyCatalog
<1>7. IndexAgrees(e)
  BY <1>3, <1>6, NoneIsOutside DEF IndexAgrees, Live
<1>8. MembershipAgrees(e) /\ FramesFit(e) /\ Tidy(e) /\ ReturnsFit(e)
  BY <1>6, NoneIsOutside DEF MembershipAgrees, FramesFit, Tidy, ReturnsFit, ShowsHidden
<1>9. ASSUME NEW d \in e.known
      PROVE  /\ e.active[d] \in OnDisplay(e, d) /\ e.active[d] # None
             /\ e.last[d] = None /\ e.hiddenReturn[d] = None
  <2>1. d \in Displays /\ of(d) # {} /\ e.active[d] = lowest(of(d))
    BY <1>6, <1>9
  <2>2. e.active[d] \in saved /\ owner[e.active[d]] = d
    BY <1>2, <1>5, <2>1
  <2>. QED  BY <1>6, <2>1, <2>2, NoneIsOutside DEF OnDisplay
<1>. QED
  BY <1>1, <1>6, <1>7, <1>8, <1>9 DEF Good, Fits, ReturnsLive, Shows, Opt

-----------------------------------------------------------------------------
(* The state *)

IInv ==
  /\ TypeOK
  /\ Sound(catalog)
  /\ Served(catalog, online)
  /\ OnlineDisplaysShowTheirOwn

-----------------------------------------------------------------------------
(* Window rules *)

\* What ReconcileWindows is given: a place and a decision for each window of p.
Observed(p, on, rule) ==
  /\ p \in SUBSET Windows
  /\ \A w \in p : on[w] \in Opt(Displays)
  /\ \A w \in p : rule[w] \in RuleDecisions

LEMMA DecisionType ==
  ASSUME NEW r \in RuleDecisions, r.target = "number"
  PROVE  r.slot \in Slots
BY InputsAssumption

LEMMA CreateWantedSound ==
  ASSUME NEW c, Sound(c), NEW p, NEW on, NEW rule, Observed(p, on, rule),
         c.nextId + Cardinality(WantedSlots(c, p, rule)) <= MaxWorkspaceId,
         \A w \in Newcomers(c, p, rule) : on[w] # None,
         NEW V, NEW e, e = CreateWanted(c, p, on, rule, V)
  PROVE  /\ IsCatalog(e)
         /\ V = Windows => Succeeds(c, e) /\ \E N : Grows(c, e, N) /\ ShowsNew(c, e, N)
<1>. DEFINE
  first == FirstToWant(c, p, rule)
  wanted == WantedSlots(c, p, rule)
  made == {n \in wanted : first[n] \in V}
  id(n) == c.nextId + Rank(wanted, first, n)
  madeOn(d) == {n \in made : on[first[n]] = d}
  oldest(S) == CHOOSE n \in S : \A m \in S : first[n] <= first[m]
  forId(i) == {n \in made : id(n) = i}
  the(S) == CHOOSE n \in S : TRUE
<1>1. CASE made = {}
  <2>1. e = c
    BY <1>1 DEF CreateWanted
  <2>2. Grows(c, e, {}) /\ ShowsNew(c, e, {})
    BY <2>1, GrowsItself
  <2>. QED  BY <2>1, <2>2, SucceedsItself DEF Sound
<1>2. CASE made # {}
  <2>1. IsFiniteSet(wanted) /\ wanted \subseteq Slots /\ Cardinality(wanted) \in Nat
    <3>1. IsFiniteSet(Slots)
      BY CatalogAssumption, FS_Interval DEF CatalogAssumption, Slots
    <3>. QED  BY <3>1, FS_Subset, FS_CardinalityType DEF WantedSlots
  <2>2. IsFiniteSet(made) /\ Cardinality(made) <= Cardinality(wanted) /\ Cardinality(made) \in Nat
    <3>1. made \subseteq wanted
      OBVIOUS
    <3>. HIDE DEF made, wanted
    <3>. QED  BY <2>1, <3>1, FS_Subset, FS_CardinalityType
  <2>3. c.nextId \in Nat /\ c.nextId + Cardinality(wanted) <= MaxWorkspaceId /\ MaxWorkspaceId \in Nat
    BY CatalogAssumption DEF CatalogAssumption, Sound, IsCatalog
  <2>4. \A n \in wanted : first[n] \in Wanting(c, p, rule, n)
    <3>1. ASSUME NEW n \in wanted
          PROVE  \E w \in Wanting(c, p, rule, n) : \A v \in Wanting(c, p, rule, n) : w <= v
      <4>1. Wanting(c, p, rule, n) # {}
        BY DEF WantedSlots
      <4>2. Wanting(c, p, rule, n) \in SUBSET Nat
        BY CatalogAssumption DEF CatalogAssumption, Wanting, Newcomers, Admitted, Observed
      <4>. QED  BY <4>1, <4>2, MinExists
    <3>. QED  BY <3>1 DEF FirstToWant
  <2>5. \A n \in wanted : /\ first[n] \in Nat
                          /\ rule[first[n]].slot = n
                          /\ c.byNumber[n] = None
                          /\ on[first[n]] \in Displays
    <3>1. \A n \in wanted : first[n] \in Newcomers(c, p, rule)
      BY <2>4 DEF Wanting
    <3>2. \A w \in Newcomers(c, p, rule) : w \in p /\ w \in Nat /\ on[w] \in Displays
      BY CatalogAssumption DEF CatalogAssumption, Newcomers, Admitted, Observed, Opt
    <3>3. \A n \in wanted : rule[first[n]].slot = n /\ c.byNumber[n] = None
      BY <2>4 DEF Wanting
    <3>. HIDE DEF first, wanted
    <3>. QED  BY <3>1, <3>2, <3>3
  <2>6. \A n \in wanted : Rank(wanted, first, n) \in 1..Cardinality(wanted)
    <3>. HIDE DEF wanted, first
    <3>. QED  BY <2>1, <2>5, RankRange
  <2>7. \A n \in wanted : /\ id(n) \in WorkspaceIds
                          /\ c.nextId < id(n)
                          /\ id(n) <= c.nextId + Cardinality(wanted)
    <3>1. ASSUME NEW k \in Nat, k <= MaxWorkspaceId - c.nextId, NEW r \in 1..k
          PROVE  c.nextId + r \in WorkspaceIds /\ c.nextId < c.nextId + r /\ c.nextId + r <= c.nextId + k
      BY <2>3, <3>1 DEF WorkspaceIds
    <3>2. Cardinality(wanted) <= MaxWorkspaceId - c.nextId
      BY <2>1, <2>3
    <3>. HIDE DEF wanted, first
    <3>. QED  BY <2>1, <2>6, <3>1, <3>2
  <2>8. \A n, m \in wanted : id(n) = id(m) => n = m
    <3>1. ASSUME NEW n \in wanted, NEW m \in wanted, id(n) = id(m)
          PROVE  n = m
      <4>. HIDE DEF wanted, first
      <4>1. Rank(wanted, first, n) \in Int /\ Rank(wanted, first, m) \in Int
        BY <2>6
      <4>2. Rank(wanted, first, n) = Rank(wanted, first, m)
        BY <2>3, <3>1, <4>1
      <4>3. first[n] = first[m]
        BY <2>1, <2>5, <4>2, RankInjective
      <4>. QED  BY <2>5, <4>3
    <3>. QED  BY <3>1
  <2>. HIDE DEF id, first, wanted
  <2>9. made \subseteq wanted
    OBVIOUS
  <2>10. \A i : forId(i) # {} => the(forId(i)) \in made /\ id(the(forId(i))) = i
    OBVIOUS
  <2>11. \A n \in made : forId(id(n)) # {} /\ the(forId(id(n))) = n
    BY <2>8, <2>9, <2>10
  <2>12. \A d : madeOn(d) # {} => oldest(madeOn(d)) \in made
    <3>1. ASSUME NEW d, madeOn(d) # {}
          PROVE  \E n \in madeOn(d) : \A m \in madeOn(d) : first[n] <= first[m]
      <4>1. \A n \in madeOn(d) : first[n] \in Nat
        BY <2>5, <2>9
      <4>. HIDE DEF madeOn
      <4>. QED  BY <3>1, <4>1, MinByKey
    <3>2. \A d : madeOn(d) # {} => oldest(madeOn(d)) \in madeOn(d)
      <4>. HIDE DEF madeOn
      <4>. QED  BY <3>1
    <3>. QED  BY <3>2
  <2>13. e = [c EXCEPT
        !.nextId = @ + Cardinality(made),
        !.display = [i \in WorkspaceIds |->
           IF forId(i) = {} THEN c.display[i] ELSE on[first[the(forId(i))]]],
        !.number = [i \in WorkspaceIds |->
           IF forId(i) = {} THEN c.number[i] ELSE the(forId(i))],
        !.byNumber = [n \in Slots |-> IF n \in made THEN id(n) ELSE c.byNumber[n]],
        !.known = @ \cup {d \in Displays : madeOn(d) # {}},
        !.active = [d \in Displays |->
           IF c.active[d] = None /\ madeOn(d) # {} THEN id(oldest(madeOn(d))) ELSE c.active[d]]]
    BY <1>2, Zenon DEF CreateWanted, id, first, wanted
  <2>14. \A i \in WorkspaceIds : forId(i) # {} =>
           the(forId(i)) \in Slots /\ on[first[the(forId(i))]] \in Displays
    BY <2>1, <2>5, <2>9, <2>10
  <2>15. \A n \in made : id(n) \in WorkspaceIds /\ c.nextId < id(n)
    BY <2>7, <2>9
  <2>16. \A d \in Displays : madeOn(d) # {} => id(oldest(madeOn(d))) \in WorkspaceIds
    BY <2>12, <2>15
  <2>. HIDE DEF made, forId, madeOn, the, oldest
  <2>17. IsCatalog(e)
    <3>1. e.nextId \in 0..MaxWorkspaceId
      BY <2>1, <2>2, <2>3, <2>13
    <3>2. e.display \in [WorkspaceIds -> Opt(Displays)] /\ e.number \in [WorkspaceIds -> Opt(Slots)]
      BY <2>13, <2>14 DEF Sound, IsCatalog, Opt
    <3>3. e.byNumber \in [Slots -> Opt(WorkspaceIds)]
      BY <2>13, <2>15 DEF Sound, IsCatalog, Opt
    <3>4. e.active \in [Displays -> Opt(WorkspaceIds)]
      BY <2>13, <2>16 DEF Sound, IsCatalog, Opt
    <3>5. e.known \in SUBSET Displays
      BY <2>13 DEF Sound, IsCatalog
    <3>. QED  BY <2>13, <3>1, <3>2, <3>3, <3>4, <3>5 DEF Sound, IsCatalog
  <2>18. ASSUME V = Windows  PROVE Succeeds(c, e) /\ \E N : Grows(c, e, N) /\ ShowsNew(c, e, N)
    <3>. DEFINE N == {i \in WorkspaceIds : forId(i) # {}}
    <3>1. made = wanted
      BY <2>4, <2>18 DEF made, Wanting, Newcomers, Admitted, Observed
    <3>2. e.nextId = c.nextId + Cardinality(wanted) /\ e.hidden = c.hidden /\ c.known \subseteq e.known
      BY <2>13, <3>1
    <3>3. \A i \in N : the(forId(i)) \in wanted /\ id(the(forId(i))) = i
      BY <2>10, <3>1
    <3>4. \A i \in N : c.nextId < i /\ i <= e.nextId
      BY <2>7, <3>2, <3>3
    <3>5. \A i \in WorkspaceIds \ N : e.display[i] = c.display[i] /\ e.number[i] = c.number[i]
      BY <2>13
    <3>6. \A i \in N : e.display[i] \in Displays /\ e.number[i] = the(forId(i)) /\ e.number[i] # None
      BY <2>13, <2>14, NoneIsOutside
    <3>7. ASSUME NEW n \in Slots, e.byNumber[n] # c.byNumber[n]
          PROVE  e.byNumber[n] \in N /\ e.number[e.byNumber[n]] = n
      <4>1. n \in made /\ e.byNumber[n] = id(n)
        BY <2>13, <3>7
      <4>2. id(n) \in N
        BY <2>11, <2>15, <4>1
      <4>. QED  BY <2>11, <3>6, <4>1, <4>2
    <3>8. c.nextId <= e.nextId /\ N \subseteq WorkspaceIds
      BY <2>1, <2>3, <3>2
    <3>9. ASSUME NEW i \in N
          PROVE  /\ e.byNumber[e.number[i]] = i
                 /\ madeOn(e.display[i]) # {}
      <4>1. the(forId(i)) \in made /\ id(the(forId(i))) = i /\ e.number[i] = the(forId(i))
        BY <3>1, <3>3, <3>6
      <4>2. e.byNumber[e.number[i]] = i
        BY <2>13, <2>14, <4>1
      <4>3. e.display[i] = on[first[the(forId(i))]]
        BY <2>13
      <4>. QED  BY <4>1, <4>2, <4>3 DEF madeOn
    <3>10. \A n \in Slots : e.byNumber[n] # c.byNumber[n] => c.byNumber[n] = None
      BY <2>5, <2>13, <3>1
    <3>11. ASSUME NEW d \in Displays, madeOn(d) # {}
           PROVE  /\ d \in e.known /\ e.active[d] # None
                  /\ e.active[d] # c.active[d] =>
                       c.active[d] = None /\ e.active[d] \in NumberedOn(e, d)
      <4>. DEFINE n == oldest(madeOn(d))
      <4>1. n \in made /\ on[first[n]] = d
        <5>1. \A m \in madeOn(d) : first[m] \in Nat
          BY <2>5, <3>1 DEF madeOn
        <5>2. \E k \in madeOn(d) : \A m \in madeOn(d) : first[k] <= first[m]
          BY <3>11, <5>1, MinByKey
        <5>3. n \in madeOn(d)
          BY <5>2 DEF oldest
        <5>. QED  BY <5>3 DEF madeOn
      <4>2. id(n) \in N /\ the(forId(id(n))) = n /\ id(n) # None
        BY <2>11, <2>15, <4>1, NoneIsOutside
      <4>3. e.active[d] = IF c.active[d] = None THEN id(n) ELSE c.active[d]
        BY <2>13, <3>11
      <4>4. id(n) \in NumberedOn(e, d)
        BY <2>13, <3>6, <4>1, <4>2 DEF NumberedOn, OnDisplay
      <4>5. d \in e.known
        BY <2>13, <3>11
      <4>. HIDE DEF n
      <4>. QED  BY <4>2, <4>3, <4>4, <4>5
    <3>12. \A d \in Displays : madeOn(d) = {} =>
             e.active[d] = c.active[d] /\ (d \in e.known => d \in c.known)
      BY <2>13
    <3>13. /\ e.last = c.last /\ e.hiddenReturn = c.hiddenReturn
           /\ e.tiled = c.tiled /\ e.floating = c.floating /\ e.positions = c.positions
           /\ e.assignment = c.assignment /\ e.known \subseteq Displays
      BY <2>13 DEF Sound, IsCatalog
    <3>. HIDE DEF N
    <3>14. Adds(c, e, N)
      BY <3>2, <3>4, <3>5, <3>6, <3>7, <3>8 DEF Adds
    <3>15. Grows(c, e, N)
      BY <3>2, <3>6, <3>9, <3>10, <3>11, <3>12, <3>13, <3>14 DEF Grows
    <3>16. ShowsNew(c, e, N)
      BY <3>6, <3>9, <3>11, <3>12, <3>13 DEF ShowsNew
    <3>. QED  BY <2>17, <3>14, <3>15, <3>16, AddsSound
  <2>. QED  BY <2>17, <2>18
<1>. QED  BY <1>1, <1>2

\* A window goes to a workspace or, when its display shows none, nowhere.
LEMMA DestinationType ==
  ASSUME NEW c, Sound(c), NEW p, NEW on, NEW rule, Observed(p, on, rule),
         c.nextId + Cardinality(WantedSlots(c, p, rule)) <= MaxWorkspaceId,
         \A w \in Newcomers(c, p, rule) : on[w] # None, NEW w \in Admitted(p, rule)
  PROVE  Destination(c, p, on, rule)[w] \in Opt(WorkspaceIds)
<1>. DEFINE dest == Destination(c, p, on, rule)
<1>1. CASE c.assignment[w] # None
  <2>1. dest[w] = c.assignment[w] /\ w \in Windows
    BY <1>1 DEF Destination, Admitted, Observed
  <2>. QED  BY <2>1 DEF Sound, IsCatalog
<1>2. CASE c.assignment[w] = None
  <2>. DEFINE f == CreateWanted(c, p, on, rule, {v \in Windows : v <= w})
              named == {id \in OnDisplay(f, on[w]) : f.number[id] = rule[w].slot}
  <2>1. IsCatalog(f)
    BY CreateWantedSound
  <2>2. dest[w] = RuleTarget(f, on[w], rule[w])
    BY <1>2 DEF Destination
  <2>3. w \in Newcomers(c, p, rule) /\ w \in p
    BY <1>2 DEF Newcomers, Admitted
  <2>4. rule[w] \in RuleDecisions /\ on[w] \in Displays
    BY <2>3 DEF Observed, Opt
  <2>. HIDE DEF f
  <2>5. CASE rule[w].target = "number"
    <3>1. dest[w] = f.byNumber[rule[w].slot]
      BY <2>2, <2>5 DEF RuleTarget
    <3>2. rule[w].slot \in Slots
      BY <2>4, <2>5, DecisionType
    <3>. QED  BY <2>1, <3>1, <3>2 DEF IsCatalog
  <2>6. CASE rule[w].target = "name" /\ named # {}
    <3>1. dest[w] = CHOOSE id \in named : TRUE
      BY <2>2, <2>6 DEF RuleTarget
    <3>2. dest[w] \in named
      <4>. HIDE DEF named
      <4>. QED  BY <2>6, <3>1
    <3>. QED  BY <3>2 DEF OnDisplay, Opt
  <2>7. CASE rule[w].target # "number" /\ ~(rule[w].target = "name" /\ named # {})
    <3>1. dest[w] = f.active[on[w]]
      BY <2>2, <2>7 DEF RuleTarget
    <3>. QED  BY <2>1, <2>4, <3>1 DEF IsCatalog
  <2>. QED  BY <2>5, <2>6, <2>7
<1>. QED  BY <1>1, <1>2

LEMMA ReconcileWindowsSound ==
  ASSUME NEW c, Sound(c), NEW p, NEW on, NEW rule, Observed(p, on, rule),
         NEW displays, CanReconcileWindows(c, p, on, rule, displays),
         NEW e, e = ReconcileWindows(c, p, on, rule)
  PROVE  Succeeds(c, e)
<1>. DEFINE
  all == CreateWanted(c, p, on, rule, Windows)
  dest == Destination(c, p, on, rule)
  float == FloatingAfter(c, p, rule)
  keptFrame == {w \in float : c.assignment[w] # None /\ w \in c.positions[c.assignment[w]]}
  placed == {w \in float \cap Newcomers(c, p, rule) : rule[w].placed}
  ignored == p \ Admitted(p, rule)
  kept == RemoveWindows(all, ignored)
<1>1. /\ c.nextId + Cardinality(WantedSlots(c, p, rule)) <= MaxWorkspaceId
      /\ \A w \in Newcomers(c, p, rule) : on[w] # None
  BY DEF CanReconcileWindows
<1>2. Succeeds(c, all)
  BY <1>1, CreateWantedSound
<1>3. \A w \in Admitted(p, rule) : dest[w] \in Opt(WorkspaceIds)
  BY <1>1, DestinationType
<1>4. Succeeds(all, kept)
  <2>. DEFINE nowhere == [w \in ignored |-> None]
  <2>1. kept = Place(all, ignored, nowhere, {}, {})
    BY DEF RemoveWindows
  <2>2. ignored \in SUBSET Windows /\ \A w \in ignored : nowhere[w] \in Opt(WorkspaceIds)
    BY DEF Observed, Opt
  <2>. HIDE DEF ignored, nowhere, all
  <2>. QED  BY <1>2, <2>1, <2>2, PlaceSound DEF Succeeds
<1>5. e = Place(kept, Admitted(p, rule), dest, float, keptFrame \cup placed)
  BY Zenon DEF ReconcileWindows
<1>6. Admitted(p, rule) \in SUBSET Windows
  BY DEF Admitted, Observed
<1>7. Succeeds(kept, e)
  <2>. HIDE DEF kept, dest, float, keptFrame, placed
  <2>. QED  BY <1>3, <1>4, <1>5, <1>6, PlaceSound DEF Succeeds
<1>. HIDE DEF all, kept
<1>. QED  BY <1>2, <1>4, <1>7, SucceedsTransitive DEF Succeeds

-----------------------------------------------------------------------------
(* Commands *)

LEMMA SwitchSound ==
  ASSUME NEW c, Sound(c), NEW d \in Displays, NEW id, CanSwitch(c, d, id),
         NEW e, e = Switch(c, d, id)
  PROVE  Succeeds(c, e)
<1>. DEFINE shown == Activate(c, d, id)
            previous == c.active[d]
<1>1. CASE previous = id
  BY <1>1, SucceedsItself DEF Switch
<1>2. CASE previous # id
  <2>1. Succeeds(c, shown)
    BY <1>2, ActivateSound DEF CanSwitch
  <2>2. CASE previous = None
    BY <1>2, <2>1, <2>2 DEF Switch
  <2>3. CASE previous # None
    <3>1. previous \in WorkspaceIds
      BY <2>3 DEF Sound, IsCatalog, Opt
    <3>2. e = DestroyIfEphemeral(shown, previous)
      BY <1>2, <2>3 DEF Switch
    <3>. HIDE DEF shown, previous
    <3>3. Succeeds(shown, e)
      BY <2>1, <3>1, <3>2, DestroySound DEF Succeeds
    <3>. QED  BY <2>1, <3>3, SucceedsTransitive
  <2>. QED  BY <2>2, <2>3
<1>. QED  BY <1>1, <1>2

LEMMA RelocateSound ==
  ASSUME NEW c, Sound(c), NEW w \in Windows, NEW id \in WorkspaceIds,
         c.assignment[w] # None, NEW e, e = Relocate(c, w, id)
  PROVE  Succeeds(c, e)
<1>. DEFINE moved == MoveWindow(c, w, id)
<1>1. Succeeds(c, moved)
  BY MoveWindowSound
<1>2. c.assignment[w] \in WorkspaceIds
  BY DEF Sound, IsCatalog, Opt
<1>3. e = DestroyIfEphemeral(moved, c.assignment[w])
  BY DEF Relocate
<1>. HIDE DEF moved
<1>4. Succeeds(moved, e)
  BY <1>1, <1>2, <1>3, DestroySound DEF Succeeds
<1>. QED  BY <1>1, <1>4, SucceedsTransitive

LEMMA NextFreeSlotExists ==
  ASSUME NEW c, FreeSlots(c) # {}
  PROVE  NextFreeSlot(c) \in FreeSlots(c)
<1>1. FreeSlots(c) \in SUBSET Nat
  BY DEF FreeSlots, Slots
<1>2. \E n \in FreeSlots(c) : \A m \in FreeSlots(c) : n <= m
  BY <1>1, MinExists
<1>. QED  BY <1>2 DEF NextFreeSlot

-----------------------------------------------------------------------------
(* The invariant *)

LEMMA InitIInv == Init => IInv
<1>. SUFFICES ASSUME Init PROVE IInv
  OBVIOUS
<1>1. PICK saved \in SUBSET (1..MaxPersistedId) :
        \E owner \in [saved -> Displays], number \in Injection(saved, Slots) :
          catalog = FromPersisted(saved, owner, number)
  BY DEF Init
<1>2. PICK owner \in [saved -> Displays], number \in Injection(saved, Slots) :
        catalog = FromPersisted(saved, owner, number)
  BY <1>1
<1>3. saved \in SUBSET WorkspaceIds
  BY InputsAssumption, CatalogAssumption DEF CatalogAssumption, WorkspaceIds
<1>4. number \in [saved -> Slots] /\ \A a, b \in saved : number[a] = number[b] => a = b
  BY DEF Injection, IsInjective
<1>5. Sound(catalog)
  BY <1>2, <1>3, <1>4, FromPersistedSound
<1>6. TypeOK
  BY <1>5 DEF Init, TypeOK, Sound, NoDrag, Opt
<1>. QED  BY <1>5, <1>6 DEF Init, IInv, Served, OnlineDisplaysShowTheirOwn

\* What every step owes: the invariant, and ids that stay what they were.
StepKeeps == IInv' /\ Stable(catalog, catalog')

LEMMA Committed ==
  ASSUME NEW c, Sound(c), NEW D \in SUBSET Displays, Served(c, D), Validate(c), NEW d \in D
  PROVE  c.active[d] \in OnDisplay(c, d)
<1>1. d \in c.known /\ OnDisplay(c, d) # {}
  BY DEF Served
<1>. QED  BY <1>1 DEF Validate, DisplayStateAgrees, Opt

LEMMA CatalogCommitted ==
  ASSUME IInv, NEW e, Sound(e), Stable(catalog, e), Served(e, online'), Validate(e),
         catalog' = e, online' \in SUBSET Displays, TypeOK'
  PROVE  StepKeeps
<1>1. \A d \in online' : e.active[d] \in OnDisplay(e, d)
  BY Committed
<1>. QED  BY <1>1 DEF StepKeeps, IInv, OnlineDisplaysShowTheirOwn

LEMMA CommitKeeps ==
  ASSUME IInv, NEW e, Succeeds(catalog, e), Commit(e), online' = online, TypeOK'
  PROVE  StepKeeps
<1>1. Served(e, online) /\ Sound(e) /\ Stable(catalog, e)
  BY DEF IInv, TypeOK, Succeeds
<1>. QED  BY <1>1, CatalogCommitted DEF Commit, Valid, IInv, TypeOK

LEMMA CommitOnlyKeeps ==
  ASSUME IInv, NEW e, Succeeds(catalog, e), CommitOnly(e)
  PROVE  StepKeeps
<1>1. TypeOK'
  BY DEF IInv, TypeOK, CommitOnly, Commit, Succeeds, Sound, platform, focus
<1>. QED  BY <1>1, CommitKeeps DEF CommitOnly, platform

LEMMA NoteFocusType ==
  ASSUME NEW c, IsCatalog(c), NEW w \in Windows,
         NEW tiled \in [WorkspaceIds -> Opt(Windows)],
         NEW floating \in [WorkspaceIds -> Opt(Windows)],
         NoteFocus(c, w, tiled, floating)
  PROVE  /\ lastTiled' \in [WorkspaceIds -> Opt(Windows)]
         /\ lastFloating' \in [WorkspaceIds -> Opt(Windows)]
BY DEF NoteFocus, IsCatalog, Opt

LEMMA FocusWindowKeeps ==
  ASSUME IInv, NEW w \in Windows, FocusWindow(w)
  PROVE  StepKeeps
<1>1. /\ lastTiled' \in [WorkspaceIds -> Opt(Windows)]
      /\ lastFloating' \in [WorkspaceIds -> Opt(Windows)]
  BY NoteFocusType DEF IInv, TypeOK, FocusWindow
<1>2. TypeOK'
  BY <1>1 DEF IInv, TypeOK, FocusWindow, Commit, platform, Opt
<1>3. Succeeds(catalog, catalog)
  BY SucceedsItself DEF IInv
<1>. QED  BY <1>2, <1>3, CommitKeeps DEF FocusWindow, platform

LEMMA TopologyType ==
  ASSUME NEW t \in Topologies
  PROVE  /\ t.displays \in SUBSET Displays
         /\ t.queue \in [Displays -> Nat]
         /\ \A d, f \in t.displays : t.queue[d] = t.queue[f] => d = f
         /\ t.displays # {} => t.receiver \in t.displays
BY InputsAssumption DEF DisplayTopologies

LEMMA SettledSound ==
  ASSUME IInv, NEW t \in Topologies,
         CanReconcile(catalog, t.displays, t.receiver, t.queue),
         NEW e, e = Reconcile(catalog, t.displays, t.receiver, t.queue)
  PROVE  Sound(e) /\ Stable(catalog, e) /\ Served(e, t.displays)
BY TopologyType, ReconcileSound DEF IInv

LEMMA DisplayTopologyKeeps ==
  ASSUME IInv, NEW t \in Topologies, DisplayTopology(t)
  PROVE  StepKeeps
<1>. DEFINE e == Reconcile(catalog, t.displays, t.receiver, t.queue)
<1>1. Sound(e) /\ Stable(catalog, e) /\ Served(e, t.displays)
  BY SettledSound DEF DisplayTopology
<1>2. catalog' = e /\ Validate(e) /\ online' = t.displays
  BY DEF DisplayTopology, Commit, Valid
<1>. HIDE DEF e
<1>3. TypeOK'
  BY <1>1, <1>2, TopologyType DEF IInv, TypeOK, DisplayTopology, Sound, focus
<1>. QED  BY <1>1, <1>2, <1>3, TopologyType, CatalogCommitted

LEMMA SnapshotWindowsKeeps ==
  ASSUME IInv, NEW t \in Topologies, NEW settled,
         Sound(settled), Stable(catalog, settled), Served(settled, t.displays),
         NEW p \in SUBSET Windows, NEW on \in [p -> Opt(t.displays)],
         NEW rule \in [p -> RuleDecisions], NEW inside,
         SnapshotWindows(t, settled, p, on, rule, inside)
  PROVE  StepKeeps
<1>. DEFINE
  gone == present \ p
  kept == RemoveWindows(settled, gone)
  assigned == ReconcileWindows(kept, p, on, rule)
  shown == {w \in p : assigned.assignment[w] # None
                      /\ assigned.display[assigned.assignment[w]] \in t.displays}
  framed == RecordActiveFloatingPositions(assigned, inside \cap shown)
<1>1. t.displays \in SUBSET Displays
  BY TopologyType
<1>2. Observed(p, on, rule)
  BY <1>1 DEF Observed, Opt
<1>3. Succeeds(settled, kept)
  <2>. DEFINE nowhere == [w \in gone |-> None]
  <2>1. kept = Place(settled, gone, nowhere, {}, {})
    BY DEF RemoveWindows
  <2>2. gone \in SUBSET Windows /\ \A w \in gone : nowhere[w] \in Opt(WorkspaceIds)
    BY DEF IInv, TypeOK, Opt
  <2>. HIDE DEF gone, nowhere, kept
  <2>. QED  BY <2>1, <2>2, PlaceSound
<1>4. CanReconcileWindows(kept, p, on, rule, t.displays)
  BY DEF SnapshotWindows
<1>5. /\ managed' = (managed \ (present \cup p)) \cup Admitted(p, rule)
      /\ Valid(framed, managed', p)
      /\ catalog' = framed
      /\ online' = t.displays
      /\ present' = p
      /\ seenOn' = [w \in Windows |-> IF w \in p THEN on[w] ELSE None]
      /\ drag' = DragAmong(managed')
      /\ \/ /\ focused' = None
            /\ lastTiled' = Forget(lastTiled, gone)
            /\ lastFloating' = Forget(lastFloating, gone)
         \/ \E w \in p :
              /\ focused' = w
              /\ NoteFocus(framed, w, Forget(lastTiled, gone), Forget(lastFloating, gone))
  BY DEF SnapshotWindows
<1>6. Succeeds(kept, assigned)
  <2>. HIDE DEF kept
  <2>. QED  BY <1>2, <1>3, <1>4, ReconcileWindowsSound DEF Succeeds
<1>7. Succeeds(assigned, framed)
  <2>. HIDE DEF assigned, shown
  <2>. QED  BY <1>6, RecordSound DEF Succeeds
<1>. HIDE DEF kept, assigned, framed
<1>8. Succeeds(settled, framed)
  BY <1>3, <1>6, <1>7, SucceedsTransitive DEF Succeeds
<1>9. Sound(framed) /\ Stable(catalog, framed) /\ Served(framed, t.displays)
  <2>1. Sound(catalog)
    BY DEF IInv
  <2>. QED  BY <1>1, <1>8, <2>1, StableTransitive DEF Succeeds
<1>10. /\ Forget(lastTiled, gone) \in [WorkspaceIds -> Opt(Windows)]
       /\ Forget(lastFloating, gone) \in [WorkspaceIds -> Opt(Windows)]
  BY DEF IInv, TypeOK, Forget, Opt
<1>11. TypeOK'
  <2>1. IsCatalog(catalog')
    BY <1>5, <1>9 DEF Sound
  <2>2. online' \subseteq Displays /\ present' \subseteq Windows
    BY <1>1, <1>5
  <2>3. seenOn' \in [Windows -> Opt(Displays)]
    BY <1>1, <1>5 DEF Opt
  <2>4. managed' \subseteq Windows
    BY <1>5 DEF IInv, TypeOK, Admitted
  <2>5. drag' \in [window : Opt(Windows), target : Opt(Windows)]
    BY <1>5 DEF IInv, TypeOK, DragAmong, NoDrag, Opt
  <2>6. /\ focused' \in Opt(Windows)
        /\ lastTiled' \in [WorkspaceIds -> Opt(Windows)]
        /\ lastFloating' \in [WorkspaceIds -> Opt(Windows)]
    <3>. HIDE DEF gone
    <3>1. CASE focused' = None /\ lastTiled' = Forget(lastTiled, gone)
               /\ lastFloating' = Forget(lastFloating, gone)
      BY <1>10, <3>1 DEF Opt
    <3>2. ASSUME NEW w \in p, focused' = w,
                 NoteFocus(framed, w, Forget(lastTiled, gone), Forget(lastFloating, gone))
          PROVE  /\ focused' \in Opt(Windows)
                 /\ lastTiled' \in [WorkspaceIds -> Opt(Windows)]
                 /\ lastFloating' \in [WorkspaceIds -> Opt(Windows)]
      <4>1. IsCatalog(framed) /\ w \in Windows
        BY <1>9 DEF Sound
      <4>. QED  BY <1>10, <3>2, <4>1, NoteFocusType DEF Opt
    <3>. QED  BY <1>5, <3>1, <3>2
  <2>. QED  BY <2>1, <2>2, <2>3, <2>4, <2>5, <2>6 DEF TypeOK
<1>. QED  BY <1>1, <1>5, <1>9, <1>11, CatalogCommitted DEF Valid

LEMMA PlatformSnapshotKeeps ==
  ASSUME IInv, NEW t \in Topologies, PlatformSnapshot(t)
  PROVE  StepKeeps
<1>. DEFINE settled == Reconcile(catalog, t.displays, t.receiver, t.queue)
<1>1. Sound(settled) /\ Stable(catalog, settled) /\ Served(settled, t.displays)
  BY SettledSound DEF PlatformSnapshot
<1>2. PICK p \in SUBSET Windows :
        \E on \in [p -> Opt(t.displays)], rule \in [p -> RuleDecisions],
           inside \in SUBSET {w \in p \cap present : IsFloating(catalog, w)} :
          SnapshotWindows(t, settled, p, on, rule, inside)
  BY DEF PlatformSnapshot
<1>. HIDE DEF settled
<1>. QED  BY <1>1, <1>2, SnapshotWindowsKeeps

LEMMA FocusChangedKeeps ==
  ASSUME IInv, NEW w \in Opt(Windows), FocusChanged(w)
  PROVE  StepKeeps
<1>1. CASE w \in managed /\ FocusWindow(w)
  BY <1>1, FocusWindowKeeps DEF IInv, TypeOK
<1>2. CASE ~(w \in managed /\ FocusWindow(w))
  <2>1. TypeOK'
    BY <1>2 DEF FocusChanged, IInv, TypeOK, Commit, platform, Opt
  <2>2. Succeeds(catalog, catalog)
    BY SucceedsItself DEF IInv
  <2>. QED  BY <1>2, <2>1, <2>2, CommitKeeps DEF FocusChanged, platform
<1>. QED  BY <1>1, <1>2

LEMMA ConfigReloadedKeeps ==
  ASSUME IInv, NEW rule \in [present -> RuleDecisions], ConfigReloaded(rule)
  PROVE  StepKeeps
<1>. DEFINE e == ReconcileWindows(catalog, present, seenOn, rule)
<1>1. Observed(present, seenOn, rule)
  BY DEF Observed, IInv, TypeOK
<1>2. Succeeds(catalog, e)
  BY <1>1, ReconcileWindowsSound DEF ConfigReloaded, IInv
<1>3. catalog' = e /\ Validate(e) /\ online' = online
  BY DEF ConfigReloaded, Valid, platform
<1>. HIDE DEF e
<1>4. TypeOK'
  BY <1>2, <1>3 DEF ConfigReloaded, IInv, TypeOK, Succeeds, Sound, Admitted, platform, focus
<1>5. Sound(e) /\ Stable(catalog, e) /\ Served(e, online) /\ online \in SUBSET Displays
  BY <1>2 DEF IInv, TypeOK, Succeeds
<1>. QED  BY <1>3, <1>4, <1>5, CatalogCommitted

\* A drag leaves the catalog alone.
LEMMA DragKeeps ==
  ASSUME IInv, Commit(catalog), UNCHANGED <<platform, managed, focus>>,
         drag' \in [window : Opt(Windows), target : Opt(Windows)]
  PROVE  StepKeeps
<1>1. TypeOK'
  BY DEF IInv, TypeOK, Commit, platform, focus
<1>2. Succeeds(catalog, catalog)
  BY SucceedsItself DEF IInv
<1>. QED  BY <1>1, <1>2, CommitKeeps DEF platform

LEMMA ObservationKeeps == ASSUME IInv, Observation  PROVE StepKeeps
<1>1. ASSUME NEW t \in Topologies, DisplayTopology(t)  PROVE StepKeeps
  BY <1>1, DisplayTopologyKeeps
<1>2. ASSUME NEW t \in Topologies, PlatformSnapshot(t)  PROVE StepKeeps
  BY <1>2, PlatformSnapshotKeeps
<1>3. ASSUME NEW w \in Opt(Windows), FocusChanged(w)  PROVE StepKeeps
  BY <1>3, FocusChangedKeeps
<1>4. ASSUME NEW rule \in [present -> RuleDecisions], ConfigReloaded(rule)  PROVE StepKeeps
  BY <1>4, ConfigReloadedKeeps
<1>5. ASSUME NEW w \in Windows, NEW target \in Opt(Windows), DragUpdated(w, target)
      PROVE  StepKeeps
  BY <1>5, DragKeeps DEF DragUpdated, Opt
<1>6. ASSUME NEW w \in Windows, DragCommitted(w)  PROVE StepKeeps
  BY <1>6, DragKeeps DEF DragCommitted, NoDrag, Opt
<1>7. CASE DragCancelled
  BY <1>7, DragKeeps DEF DragCancelled, NoDrag, Opt
<1>. QED  BY <1>1, <1>2, <1>3, <1>4, <1>5, <1>6, <1>7 DEF Observation

LEMMA SwitchToKeeps ==
  ASSUME IInv, NEW c, Succeeds(catalog, c), NEW d \in Displays, NEW id, SwitchTo(c, d, id)
  PROVE  StepKeeps
<1>1. Succeeds(c, Switch(c, d, id))
  BY SwitchSound DEF SwitchTo, Succeeds
<1>2. Succeeds(catalog, Switch(c, d, id))
  BY <1>1, SucceedsTransitive DEF IInv
<1>. QED  BY <1>2, CommitOnlyKeeps DEF SwitchTo

\* The display of a workspace that the number index names.
LEMMA IndexedHome ==
  ASSUME NEW c, Sound(c), NEW n \in Slots, c.byNumber[n] # None
  PROVE  c.byNumber[n] \in WorkspaceIds /\ c.display[c.byNumber[n]] \in Displays
BY DEF Sound, IsCatalog, Indexed, Live, Opt

LEMMA MoveKeeps ==
  ASSUME IInv, NEW c, Succeeds(catalog, c), NEW w \in Windows, NEW id \in WorkspaceIds,
         c.assignment[w] # None, CommitOnly(Relocate(c, w, id))
  PROVE  StepKeeps
<1>1. Succeeds(c, Relocate(c, w, id))
  BY RelocateSound DEF Succeeds
<1>2. Succeeds(catalog, Relocate(c, w, id))
  BY <1>1, SucceedsTransitive DEF IInv
<1>. QED  BY <1>2, CommitOnlyKeeps

LEMMA WorkspaceActivateOrCreateKeeps ==
  ASSUME IInv, NEW n \in Slots, NEW d \in Displays, WorkspaceActivateOrCreate(n, d)
  PROVE  StepKeeps
<1>1. CASE catalog.byNumber[n] # None
  <2>1. catalog.display[catalog.byNumber[n]] \in Displays
    BY <1>1, IndexedHome DEF IInv
  <2>2. Succeeds(catalog, catalog)
    BY SucceedsItself DEF IInv
  <2>. QED  BY <1>1, <2>1, <2>2, SwitchToKeeps DEF WorkspaceActivateOrCreate
<1>2. CASE catalog.byNumber[n] = None
  <2>. DEFINE created == Create(catalog, n, d)
  <2>1. CanCreate(catalog, n) /\ SwitchTo(created, d, created.byNumber[n])
    BY <1>2 DEF WorkspaceActivateOrCreate
  <2>2. Succeeds(catalog, created)
    BY <2>1, CreateSound DEF IInv
  <2>. HIDE DEF created
  <2>. QED  BY <2>1, <2>2, SwitchToKeeps
<1>. QED  BY <1>1, <1>2

LEMMA WorkspaceCreateKeeps ==
  ASSUME IInv, NEW d \in Displays, WorkspaceCreate(d)
  PROVE  StepKeeps
<1>1. NextFreeSlot(catalog) \in Slots
  BY NextFreeSlotExists DEF WorkspaceCreate, FreeSlots
<1>2. Succeeds(catalog, Create(catalog, NextFreeSlot(catalog), d))
  BY <1>1, CreateSound DEF WorkspaceCreate, IInv
<1>. QED  BY <1>2, CommitOnlyKeeps DEF WorkspaceCreate

LEMMA WorkspaceMoveWindowKeeps ==
  ASSUME IInv, NEW n \in Slots, NEW w \in Windows, WorkspaceMoveWindow(n, w)
  PROVE  StepKeeps
<1>. DEFINE source == catalog.assignment[w]
            created == Create(catalog, n, catalog.display[source])
<1>1. source # None
  BY DEF WorkspaceMoveWindow
<1>2. CASE catalog.byNumber[n] # None
  <2>1. catalog.byNumber[n] \in WorkspaceIds /\ Succeeds(catalog, catalog)
    BY <1>2, IndexedHome, SucceedsItself DEF IInv
  <2>. QED  BY <1>1, <1>2, <2>1, MoveKeeps DEF WorkspaceMoveWindow
<1>3. CASE catalog.byNumber[n] = None
  <2>1. CanCreate(catalog, n) /\ CommitOnly(Relocate(created, w, created.byNumber[n]))
    BY <1>3 DEF WorkspaceMoveWindow
  <2>2. catalog.display[source] \in Displays
    BY <1>1 DEF WorkspaceMoveWindow, IInv, TypeOK, IsCatalog, Opt
  <2>3. /\ Succeeds(catalog, created)
        /\ created.byNumber[n] \in WorkspaceIds
        /\ created.assignment = catalog.assignment
    BY <2>1, <2>2, CreateSound DEF IInv
  <2>. HIDE DEF created
  <2>. QED  BY <1>1, <2>1, <2>3, MoveKeeps
<1>. QED  BY <1>2, <1>3

LEMMA WorkspaceMoveWindowToHiddenKeeps ==
  ASSUME IInv, NEW d \in Displays, NEW w \in Windows, WorkspaceMoveWindowToHidden(d, w)
  PROVE  StepKeeps
<1>. DEFINE h == EnsureHidden(catalog, d)
<1>1. /\ d \in online /\ catalog.assignment[w] # None /\ CanHide(catalog, d)
      /\ CommitOnly(Relocate(h, w, h.hidden[d]))
  BY DEF WorkspaceMoveWindowToHidden
<1>2. NumberedOn(catalog, d) # {}
  BY <1>1 DEF IInv, Served, Sound, KeepsANumber
<1>3. /\ Succeeds(catalog, h)
      /\ h.hidden[d] \in WorkspaceIds
      /\ h.assignment = catalog.assignment
  BY <1>1, <1>2, EnsureHiddenSound DEF IInv
<1>. HIDE DEF h
<1>. QED  BY <1>1, <1>3, MoveKeeps

LEMMA DisplayMoveWindowToKeeps ==
  ASSUME IInv, NEW d \in Displays, NEW w \in Windows, DisplayMoveWindowTo(d, w)
  PROVE  StepKeeps
<1>1. catalog.active[d] \in WorkspaceIds
  BY DEF DisplayMoveWindowTo, IInv, TypeOK, IsCatalog, Opt
<1>2. Succeeds(catalog, catalog)
  BY SucceedsItself DEF IInv
<1>. QED  BY <1>1, <1>2, MoveKeeps DEF DisplayMoveWindowTo

LEMMA WorkspaceCommandKeeps == ASSUME IInv, WorkspaceCommand  PROVE StepKeeps
<1>0. Succeeds(catalog, catalog)
  BY SucceedsItself DEF IInv
<1>1. ASSUME NEW n \in Slots, WorkspaceActivate(n)  PROVE StepKeeps
  <2>1. catalog.display[catalog.byNumber[n]] \in Displays
    BY <1>1, IndexedHome DEF WorkspaceActivate, IInv
  <2>. QED  BY <1>0, <1>1, <2>1, SwitchToKeeps DEF WorkspaceActivate
<1>2. ASSUME NEW n \in Slots, NEW d \in Displays, WorkspaceActivateOrCreate(n, d)
      PROVE  StepKeeps
  BY <1>2, WorkspaceActivateOrCreateKeeps
<1>3. ASSUME NEW d \in Displays, WorkspaceCreate(d)  PROVE StepKeeps
  BY <1>3, WorkspaceCreateKeeps
<1>4. ASSUME NEW d \in Displays, NEW forward \in BOOLEAN, NEW skipEmpty \in BOOLEAN,
             WorkspaceStep(d, forward, skipEmpty)
      PROVE  StepKeeps
  BY <1>0, <1>4, SwitchToKeeps DEF WorkspaceStep
<1>5. ASSUME NEW d \in Displays, WorkspaceLast(d)  PROVE StepKeeps
  BY <1>0, <1>5, SwitchToKeeps DEF WorkspaceLast
<1>6. ASSUME NEW d \in Displays, WorkspaceToggleHidden(d)  PROVE StepKeeps
  <2>1. Succeeds(catalog, ToggleHidden(catalog, d))
    BY <1>6, ToggleHiddenSound DEF WorkspaceToggleHidden, IInv
  <2>. QED  BY <1>6, <2>1, CommitOnlyKeeps DEF WorkspaceToggleHidden
<1>7. ASSUME NEW n \in Slots, NEW w \in Windows, WorkspaceMoveWindow(n, w)  PROVE StepKeeps
  BY <1>7, WorkspaceMoveWindowKeeps
<1>8. ASSUME NEW d \in Displays, NEW w \in Windows, WorkspaceMoveWindowToHidden(d, w)
      PROVE  StepKeeps
  BY <1>8, WorkspaceMoveWindowToHiddenKeeps
<1>9. ASSUME NEW d \in Displays, NEW w \in Windows, DisplayMoveWindowTo(d, w)  PROVE StepKeeps
  BY <1>9, DisplayMoveWindowToKeeps
<1>. QED
  BY <1>1, <1>2, <1>3, <1>4, <1>5, <1>6, <1>7, <1>8, <1>9 DEF WorkspaceCommand

LEMMA WindowToggleFloatingKeeps ==
  ASSUME IInv, NEW w \in Windows, NEW placed \in BOOLEAN, WindowToggleFloating(w, placed)
  PROVE  StepKeeps
<1>. DEFINE id == catalog.assignment[w]
            floated == AssignFloating(catalog, id, w)
<1>1. id \in WorkspaceIds
  BY DEF WindowToggleFloating, IInv, TypeOK, IsCatalog, Opt
<1>2. CASE IsFloating(catalog, w)
  <2>1. Succeeds(catalog, AssignTiled(catalog, id, w))
    BY <1>1, AssignTiledSound DEF IInv
  <2>. QED  BY <1>2, <2>1, CommitOnlyKeeps DEF WindowToggleFloating
<1>3. CASE ~IsFloating(catalog, w)
  <2>1. CommitOnly(floated) \/ CommitOnly(SetFloatingPosition(floated, id, w))
    BY <1>3 DEF WindowToggleFloating
  <2>2. Succeeds(catalog, floated)
    BY <1>1, AssignFloatingSound DEF IInv
  <2>. HIDE DEF floated
  <2>3. Succeeds(floated, SetFloatingPosition(floated, id, w))
    BY <1>1, <2>2, SetFloatingPositionSound DEF Succeeds
  <2>4. Succeeds(catalog, SetFloatingPosition(floated, id, w))
    BY <2>2, <2>3, SucceedsTransitive DEF IInv
  <2>. QED  BY <2>1, <2>2, <2>4, CommitOnlyKeeps
<1>. QED  BY <1>2, <1>3

LEMMA WindowCommandKeeps == ASSUME IInv, WindowCommand  PROVE StepKeeps
<1>1. ASSUME NEW w \in Windows, WindowActivate(w)  PROVE StepKeeps
  BY <1>1, FocusWindowKeeps DEF WindowActivate
<1>2. ASSUME NEW w \in Windows, NEW target \in Windows, WindowFocus(w, target)  PROVE StepKeeps
  BY <1>2, FocusWindowKeeps DEF WindowFocus
<1>3. ASSUME NEW w \in Windows, NEW target \in Windows, WindowCycle(w, target)  PROVE StepKeeps
  BY <1>3, FocusWindowKeeps DEF WindowCycle
<1>4. ASSUME NEW w \in Windows, NEW target \in Windows, WindowToggleFocusLayer(w, target)
      PROVE  StepKeeps
  BY <1>4, FocusWindowKeeps DEF WindowToggleFocusLayer
<1>5. ASSUME NEW w \in Windows, NEW placed \in BOOLEAN, WindowToggleFloating(w, placed)
      PROVE  StepKeeps
  BY <1>5, WindowToggleFloatingKeeps
<1>6. ASSUME NEW w \in Windows, NEW d \in Displays, WindowMoveAcross(w, d)  PROVE StepKeeps
  BY <1>6, DisplayMoveWindowToKeeps DEF WindowMoveAcross
<1>. QED  BY <1>1, <1>2, <1>3, <1>4, <1>5, <1>6 DEF WindowCommand

LEMMA StutterKeeps == ASSUME IInv, UNCHANGED vars  PROVE StepKeeps
<1>1. /\ catalog' = catalog /\ online' = online /\ present' = present
      /\ seenOn' = seenOn /\ managed' = managed /\ focused' = focused
      /\ lastTiled' = lastTiled /\ lastFloating' = lastFloating /\ drag' = drag
  BY DEF vars, platform, focus
<1>2. IInv'
  BY <1>1 DEF IInv, TypeOK, OnlineDisplaysShowTheirOwn
<1>3. Stable(catalog, catalog')
  BY <1>1, SucceedsItself DEF Succeeds, IInv
<1>. QED  BY <1>2, <1>3 DEF StepKeeps

LEMMA NextKeeps == IInv /\ [Next]_vars => StepKeeps
BY ObservationKeeps, WorkspaceCommandKeeps, WindowCommandKeeps, StutterKeeps DEF Next

-----------------------------------------------------------------------------
(* What holds in every behaviour *)

THEOREM Invariance == Spec => []IInv
<1>1. IInv /\ [Next]_vars => IInv'
  BY NextKeeps DEF StepKeeps
<1>. QED  BY InitIInv, <1>1, PTL DEF Spec

\* The state is well typed, whatever is observed and commanded.
THEOREM TypeCorrect == Spec => []TypeOK
<1>1. IInv => TypeOK
  BY DEF IInv
<1>. QED  BY Invariance, <1>1, PTL

\* A display that owns a workspace owns a numbered one.
THEOREM NumberKept == Spec => []OwnersKeepANumber
<1>1. IInv => OwnersKeepANumber
  BY DEF IInv, Sound, OwnersKeepANumber
<1>. QED  BY Invariance, <1>1, PTL

\* Every online display shows a workspace of its own.
THEOREM ShownIsOwn == Spec => []OnlineDisplaysShowTheirOwn
<1>1. IInv => OnlineDisplaysShowTheirOwn
  BY DEF IInv
<1>. QED  BY Invariance, <1>1, PTL

\* The indexes by number and by display name live workspaces, each its own.
THEOREM IndexesExact == Spec => []IndexExact
<1>1. IInv => IndexExact
  BY DEF IInv, Sound, IndexExact
<1>. QED  BY Invariance, <1>1, PTL

\* A destroyed id never comes back, and a live one never changes its number.
THEOREM IdsStable == Spec => IdsAreStable
<1>. DEFINE Step ==
  \A id \in 1..catalog.nextId :
     IF id \in Live(catalog)
     THEN id \in Live(catalog') => catalog'.number[id] = catalog.number[id]
     ELSE id \notin Live(catalog')
<1>1. IInv /\ [Next]_vars => [Step]_vars
  <2>. SUFFICES ASSUME IInv, [Next]_vars  PROVE Step
    OBVIOUS
  <2>1. Stable(catalog, catalog')
    BY NextKeeps DEF StepKeeps
  <2>2. \A id \in 1..catalog.nextId : id \in WorkspaceIds /\ id <= catalog.nextId
    BY CatalogAssumption DEF CatalogAssumption, IInv, TypeOK, IsCatalog, WorkspaceIds
  <2>. QED  BY <2>1, <2>2 DEF Stable
<1>. QED  BY Invariance, <1>1, PTL DEF Spec, IdsAreStable

-----------------------------------------------------------------------------
(***************************************************************************)
(* Validity: CoreState::validate refuses no observation, no switch and no  *)
(* toggle, and a move only when a display loses the workspace it returns to. *)
(***************************************************************************)

\* The managed windows are the assigned ones, and all present.
Housed(c, m, p) ==
  /\ \A w \in m : w \in p /\ c.assignment[w] # None
  /\ \A w \in Windows : c.assignment[w] # None => w \in m

LEMMA ValidHouses ==
  ASSUME NEW c, IsCatalog(c), NEW m, NEW p, Valid(c, m, p)
  PROVE  Housed(c, m, p)
BY DEF Valid, Validate, MembershipAgrees, Housed, IsCatalog, Opt

LEMMA HousedIsValid ==
  ASSUME NEW c, Good(c), NEW m, NEW p, Housed(c, m, p)
  PROVE  Valid(c, m, p)
<1>1. ASSUME NEW w \in Windows, NEW id \in WorkspaceIds, w \in c.tiled[id] \cup c.floating[id]
      PROVE  w \in m
  BY <1>1, NoneIsOutside DEF Good, Fits, MembershipAgrees, Housed
<1>. QED  BY <1>1, GoodIsValid DEF Valid, Housed

\* The workspaces that exist stay as they are, and so does what displays show.
KeepsIds(c, e) ==
  /\ \A id \in WorkspaceIds : id <= c.nextId =>
       e.display[id] = c.display[id] /\ e.number[id] = c.number[id]
  /\ \A d \in Displays : c.active[d] # None => e.active[d] = c.active[d]

LEMMA GrowsKeepsIds ==
  ASSUME NEW c, Sound(c), NEW e, NEW N, Grows(c, e, N)
  PROVE  KeepsIds(c, e)
<1>1. c.nextId \in Int /\ WorkspaceIds \subseteq Int
  BY CatalogAssumption DEF CatalogAssumption, Sound, IsCatalog, WorkspaceIds
<1>. QED  BY <1>1 DEF Grows, Adds, KeepsIds

LEMMA RearrangesKeepsIds ==
  ASSUME NEW c, NEW e, Rearranges(c, e)
  PROVE  KeepsIds(c, e)
BY DEF Rearranges, KeepsIds

LEMMA PlaceShape ==
  ASSUME NEW c, NEW X, NEW dest, NEW float, NEW framed, NEW e,
         e = Place(c, X, dest, float, framed)
  PROVE  /\ Rearranges(c, e) /\ e.nextId = c.nextId
         /\ \A w \in Windows : e.assignment[w] = IF w \in X THEN dest[w] ELSE c.assignment[w]
<1>1. Rearranges(c, e) /\ e.nextId = c.nextId
  BY DEF Place, Rearranges
<1>2. e.assignment = [w \in Windows |-> IF w \in X THEN dest[w] ELSE c.assignment[w]]
  BY DEF Place
<1>. QED  BY <1>1, <1>2

LEMMA RemoveWindowsShape ==
  ASSUME NEW c, NEW X, NEW e, e = RemoveWindows(c, X)
  PROVE  /\ Rearranges(c, e) /\ e.nextId = c.nextId
         /\ \A w \in Windows : e.assignment[w] = IF w \in X THEN None ELSE c.assignment[w]
<1>1. PICK nowhere : nowhere = [w \in X |-> None]
  OBVIOUS
<1>2. e = Place(c, X, nowhere, {}, {})
  BY <1>1 DEF RemoveWindows
<1>. QED  BY <1>1, <1>2, PlaceShape

-----------------------------------------------------------------------------
(* Window rules *)

\* Observed windows are assigned when the rules admit them, and stay where they were.
Assigns(c, e, p, rule) ==
  /\ \A w \in Admitted(p, rule) :
       e.assignment[w] # None /\ (c.assignment[w] # None => e.assignment[w] = c.assignment[w])
  /\ \A w \in p \ Admitted(p, rule) : e.assignment[w] = None
  /\ \A w \in Windows \ p : e.assignment[w] = c.assignment[w]

LEMMA ReconcileWindowsGood ==
  ASSUME NEW c, Good(c), NEW p, NEW on, NEW rule, Observed(p, on, rule),
         NEW displays, CanReconcileWindows(c, p, on, rule, displays),
         NEW e, e = ReconcileWindows(c, p, on, rule)
  PROVE  Good(e) /\ KeepsIds(c, e) /\ Assigns(c, e, p, rule)
<1>. DEFINE
  dest == Destination(c, p, on, rule)
  float == FloatingAfter(c, p, rule)
  keptFrame == {w \in float : c.assignment[w] # None /\ w \in c.positions[c.assignment[w]]}
  placed == {w \in float \cap Newcomers(c, p, rule) : rule[w].placed}
  ignored == p \ Admitted(p, rule)
<1>1. PICK all : all = CreateWanted(c, p, on, rule, Windows)
  OBVIOUS
<1>2. PICK kept : kept = RemoveWindows(all, ignored)
  OBVIOUS
<1>3. /\ c.nextId + Cardinality(WantedSlots(c, p, rule)) <= MaxWorkspaceId
      /\ \A w \in Newcomers(c, p, rule) : on[w] # None
      /\ \A w \in Newcomers(c, p, rule) : dest[w] # None
  BY DEF CanReconcileWindows
<1>4. Sound(all) /\ \E N : Grows(c, all, N) /\ ShowsNew(c, all, N)
  BY <1>1, <1>3, CreateWantedSound DEF Good, Succeeds
<1>5. PICK N : Grows(c, all, N) /\ ShowsNew(c, all, N)
  BY <1>4
<1>6. Good(all)
  BY <1>4, <1>5, GrowsGood
<1>7. ignored \in SUBSET Windows /\ Admitted(p, rule) \in SUBSET Windows /\ p \in SUBSET Windows
  BY DEF Observed, Admitted
<1>8. Good(kept)
  <2>. HIDE DEF ignored
  <2>. QED  BY <1>2, <1>6, <1>7, RemoveWindowsGood
<1>9. \A w \in Admitted(p, rule) : dest[w] \in WorkspaceIds
  <2>1. \A w \in Admitted(p, rule) : dest[w] \in Opt(WorkspaceIds)
    BY <1>3, DestinationType DEF Good
  <2>2. ASSUME NEW w \in Admitted(p, rule)  PROVE dest[w] # None
    BY <1>3 DEF Newcomers, Destination
  <2>. HIDE DEF dest
  <2>. QED  BY <2>1, <2>2 DEF Opt
<1>10. e = Place(kept, Admitted(p, rule), dest, float, keptFrame \cup placed)
  BY <1>1, <1>2, Zenon DEF ReconcileWindows
<1>11. \A w \in Admitted(p, rule) : c.assignment[w] # None => dest[w] = c.assignment[w]
  BY DEF Destination
<1>. HIDE DEF dest, float, keptFrame, placed
<1>12. Good(e)
  BY <1>7, <1>8, <1>9, <1>10, PlaceGood DEF Opt
<1>13. Rearranges(kept, e)
       /\ \A w \in Windows : e.assignment[w] =
            IF w \in Admitted(p, rule) THEN dest[w] ELSE kept.assignment[w]
  BY <1>10, PlaceShape
<1>14. Rearranges(all, kept)
       /\ \A w \in Windows : kept.assignment[w] = IF w \in ignored THEN None ELSE all.assignment[w]
  BY <1>2, RemoveWindowsShape
<1>15. all.assignment = c.assignment
  BY <1>5 DEF Grows
<1>16. KeepsIds(c, e)
  BY <1>5, <1>13, <1>14, GrowsKeepsIds DEF KeepsIds, Rearranges, Good
<1>17. \A w \in Admitted(p, rule) :
         e.assignment[w] # None /\ (c.assignment[w] # None => e.assignment[w] = c.assignment[w])
  BY <1>7, <1>9, <1>11, <1>13, NoneIsOutside
<1>18. ASSUME NEW w \in Windows, w \notin Admitted(p, rule)
       PROVE  e.assignment[w] = IF w \in ignored THEN None ELSE c.assignment[w]
  BY <1>13, <1>14, <1>15, <1>18
<1>19. Admitted(p, rule) \subseteq p
  BY DEF Admitted
<1>. QED  BY <1>7, <1>12, <1>16, <1>17, <1>18, <1>19 DEF Assigns

-----------------------------------------------------------------------------
(* Commands *)

LEMMA SwitchGood ==
  ASSUME NEW c, Good(c), NEW d \in Displays, NEW id, CanSwitch(c, d, id),
         NEW e, e = Switch(c, d, id)
  PROVE  Good(e) /\ \A f \in Displays \ {d} : e.active[f] = c.active[f]
<1>. DEFINE previous == c.active[d]
<1>1. CASE previous = id
  BY <1>1 DEF Switch
<1>2. CASE previous # id
  <2>1. PICK shown : shown = Activate(c, d, id)
    OBVIOUS
  <2>2. Good(shown) /\ shown.hiddenReturn[d] = None
    BY <1>2, <2>1, ActivateGood DEF CanSwitch
  <2>3. \A f \in Displays \ {d} : shown.active[f] = c.active[f]
    BY <1>2, <2>1 DEF Activate, Good, Sound, IsCatalog
  <2>4. CASE previous = None
    BY <1>2, <2>1, <2>2, <2>3, <2>4 DEF Switch
  <2>5. CASE previous # None
    <3>1. previous \in WorkspaceIds /\ c.display[previous] = d
      BY <2>5, KnownWhenShown DEF OnDisplay, Opt
    <3>2. e = DestroyIfEphemeral(shown, previous)
      BY <1>2, <2>1, <2>5 DEF Switch
    <3>3. shown.display = c.display
      BY <2>1 DEF Activate
    <3>. HIDE DEF previous
    <3>4. Good(e)
      BY <2>2, <3>1, <3>2, <3>3, DestroyGood, NoneIsOutside
    <3>5. e.active = shown.active
      BY <3>2 DEF DestroyIfEphemeral
    <3>. QED  BY <2>3, <3>4, <3>5
  <2>. QED  BY <2>4, <2>5
<1>. QED  BY <1>1, <1>2

LEMMA RelocateGood ==
  ASSUME NEW c, Good(c), NEW w \in Windows, NEW id \in WorkspaceIds,
         c.assignment[w] # None, NEW e, e = Relocate(c, w, id)
  PROVE  /\ Good(e) \/ (LostReturn(e) /\ ~Validate(e))
         /\ e.active = c.active
<1>1. PICK moved : moved = MoveWindow(c, w, id)
  OBVIOUS
<1>2. Good(moved)
  BY <1>1, MoveWindowGood
<1>3. c.assignment[w] \in WorkspaceIds
  BY DEF Good, Sound, IsCatalog, Opt
<1>4. e = DestroyIfEphemeral(moved, c.assignment[w])
  BY <1>1 DEF Relocate
<1>5. moved.active = c.active
  <2>1. PICK dest, float, framed : moved = Place(c, {w}, dest, float, framed)
    BY <1>1, MoveWindowsPlaces DEF MoveWindow, Opt
  <2>. QED  BY <2>1, PlaceShape DEF Rearranges
<1>6. e.active = moved.active
  BY <1>4 DEF DestroyIfEphemeral
<1>. QED  BY <1>2, <1>3, <1>4, <1>5, <1>6, DestroyLosesReturn

-----------------------------------------------------------------------------
(***************************************************************************)
(* The invariant.  validate() does not see that a display knows where to   *)
(* return to, what a display that is gone shows, or whose frames are       *)
(* remembered, but what it accepts next depends on each of them.           *)
(***************************************************************************)
VInv ==
  /\ IInv
  /\ Good(catalog)
  /\ Housed(catalog, managed, present)
  /\ NamesPresentWindows

\* The steps of OthersKeepShowing and of ObservationsMoveNoWindow.
ShowsStill ==
  \A d \in online \cap online' :
    catalog'.active[d] # catalog.active[d] =>
      /\ online' = online
      /\ \A e \in online \ {d} : catalog'.active[e] = catalog.active[e]

MergesOnly ==
  platform' # platform =>
    \A w \in Windows :
      LET old == catalog.assignment[w]
          new == catalog'.assignment[w]
      IN  old # None /\ new # None /\ old # new =>
            /\ old \notin Live(catalog')
            /\ catalog.number[old] = None
            /\ catalog'.number[new] = None

\* What every step owes.
VKeeps ==
  /\ Good(catalog') /\ Housed(catalog', managed', present') /\ NamesPresentWindows'
  /\ ShowsStill /\ MergesOnly

LEMMA InitVInv == Init => VInv
<1>. SUFFICES ASSUME Init PROVE VInv
  OBVIOUS
<1>1. PICK saved \in SUBSET (1..MaxPersistedId) :
        \E owner \in [saved -> Displays], number \in Injection(saved, Slots) :
          catalog = FromPersisted(saved, owner, number)
  BY DEF Init
<1>2. PICK owner \in [saved -> Displays], number \in Injection(saved, Slots) :
        catalog = FromPersisted(saved, owner, number)
  BY <1>1
<1>3. saved \in SUBSET WorkspaceIds
  BY InputsAssumption, CatalogAssumption DEF CatalogAssumption, WorkspaceIds
<1>4. number \in [saved -> Slots] /\ \A a, b \in saved : number[a] = number[b] => a = b
  BY DEF Injection, IsInjective
<1>5. Good(catalog) /\ \A w \in Windows : catalog.assignment[w] = None
  BY <1>2, <1>3, <1>4, FromPersistedGood
<1>6. Housed(catalog, managed, present)
  BY <1>5 DEF Init, Housed
<1>7. NamesPresentWindows
  BY DEF Init, NamesPresentWindows, FocusNamesPresentWindows, DragNamesPresentWindows, NoDrag, Opt
<1>. QED  BY <1>5, <1>6, <1>7, InitIInv DEF VInv

\* An online display shows something.
LEMMA ShownOnline ==
  ASSUME IInv, NEW d \in online
  PROVE  d \in Displays /\ catalog.active[d] # None
BY NoneIsOutside DEF IInv, TypeOK, OnlineDisplaysShowTheirOwn, OnDisplay

LEMMA AssignedIsPresent ==
  ASSUME VInv, NEW w \in Windows, catalog.assignment[w] # None
  PROVE  w \in managed /\ w \in present
BY DEF VInv, Housed

-----------------------------------------------------------------------------
(* Steps that leave the catalog as it is *)

LEMMA CatalogKept ==
  ASSUME VInv, catalog' = catalog, UNCHANGED <<platform, managed>>, NamesPresentWindows'
  PROVE  VKeeps
<1>1. online' = online /\ present' = present /\ managed' = managed
  BY DEF platform
<1>2. ShowsStill /\ MergesOnly
  BY DEF ShowsStill, MergesOnly
<1>. QED  BY <1>1, <1>2 DEF VInv, VKeeps

LEMMA FocusWindowValid ==
  ASSUME VInv, NEW w \in Windows, FocusWindow(w)
  PROVE  VKeeps
<1>1. w \in present
  BY AssignedIsPresent DEF FocusWindow, NoteFocus
<1>2. focused' = w /\ present' = present /\ drag' = drag
  BY DEF FocusWindow, platform
<1>3. \A id \in WorkspaceIds : /\ lastTiled'[id] \in {w, lastTiled[id]}
                               /\ lastFloating'[id] \in {w, lastFloating[id]}
  BY DEF FocusWindow, NoteFocus, VInv, IInv, TypeOK
<1>4. NamesPresentWindows'
  BY <1>1, <1>2, <1>3
     DEF VInv, NamesPresentWindows, FocusNamesPresentWindows, DragNamesPresentWindows, Opt
<1>. QED  BY <1>4, CatalogKept DEF FocusWindow, Commit, platform

LEMMA FocusChangedValid ==
  ASSUME VInv, NEW w \in Opt(Windows), FocusChanged(w)
  PROVE  VKeeps
<1>1. CASE w \in managed /\ FocusWindow(w)
  BY <1>1, FocusWindowValid DEF VInv, IInv, TypeOK
<1>2. CASE ~(w \in managed /\ FocusWindow(w))
  <2>1. /\ focused' = None /\ catalog' = catalog /\ lastTiled' = lastTiled
        /\ lastFloating' = lastFloating /\ drag' = drag /\ UNCHANGED <<platform, managed>>
    BY <1>2 DEF FocusChanged, Commit
  <2>2. present' = present
    BY <2>1 DEF platform
  <2>3. NamesPresentWindows'
    BY <2>1, <2>2
       DEF VInv, NamesPresentWindows, FocusNamesPresentWindows, DragNamesPresentWindows, Opt
  <2>. QED  BY <2>1, <2>3, CatalogKept
<1>. QED  BY <1>1, <1>2

\* A drag that names present windows.
LEMMA DragValid ==
  ASSUME VInv, Commit(catalog), UNCHANGED <<platform, managed, focus>>,
         {drag'.window, drag'.target} \subseteq Opt(present)
  PROVE  VKeeps
<1>1. /\ present' = present /\ focused' = focused
      /\ lastTiled' = lastTiled /\ lastFloating' = lastFloating
  BY DEF platform, focus
<1>2. NamesPresentWindows'
  BY <1>1 DEF VInv, NamesPresentWindows, FocusNamesPresentWindows, DragNamesPresentWindows
<1>. QED  BY <1>2, CatalogKept DEF Commit

LEMMA DragUpdatedValid ==
  ASSUME VInv, NEW w \in Windows, NEW target \in Opt(Windows), DragUpdated(w, target)
  PROVE  VKeeps
<1>1. w \in present
  BY AssignedIsPresent DEF DragUpdated
<1>2. drag' = [window |-> w, target |-> target]
  BY DEF DragUpdated
<1>3. target \in Opt(present)
  <2>1. CASE target \in Opt(catalog.tiled[catalog.assignment[w]] \ {w})
    <3>1. catalog.assignment[w] \in WorkspaceIds
      BY DEF DragUpdated, VInv, Good, Sound, IsCatalog, Opt
    <3>2. ASSUME target # None
          PROVE  target \in Windows /\ catalog.assignment[target] # None
      BY <2>1, <3>1, <3>2, NoneIsOutside DEF VInv, Good, Fits, MembershipAgrees, Opt
    <3>. QED  BY <3>2, AssignedIsPresent DEF Opt
  <2>2. CASE drag.window = w /\ target = drag.target
    BY <2>2 DEF VInv, NamesPresentWindows, DragNamesPresentWindows
  <2>. QED  BY <2>1, <2>2 DEF DragUpdated
<1>4. {drag'.window, drag'.target} \subseteq Opt(present)
  BY <1>1, <1>2, <1>3 DEF Opt
<1>. QED  BY <1>4, DragValid DEF DragUpdated

-----------------------------------------------------------------------------
(* Steps that commit another catalog *)

\* A command commits what validate() accepts; one display may show something else.
LEMMA CommandValid ==
  ASSUME VInv, NEW e, Good(e) \/ (LostReturn(e) /\ ~Validate(e)), CommitOnly(e),
         NEW d, \A f \in online \ {d} : e.active[f] = catalog.active[f]
  PROVE  VKeeps
<1>1. /\ catalog' = e /\ Valid(e, managed, present) /\ UNCHANGED <<platform, managed, focus, drag>>
  BY DEF CommitOnly, Commit
<1>2. /\ online' = online /\ present' = present /\ managed' = managed /\ focused' = focused
      /\ lastTiled' = lastTiled /\ lastFloating' = lastFloating /\ drag' = drag
  BY <1>1 DEF platform, focus
<1>3. Good(e)
  BY <1>1 DEF Valid
<1>4. Housed(e, managed, present)
  BY <1>1, <1>3, ValidHouses DEF Good, Sound
<1>5. NamesPresentWindows'
  BY <1>2 DEF VInv, NamesPresentWindows, FocusNamesPresentWindows, DragNamesPresentWindows
<1>6. ShowsStill
  BY <1>1, <1>2 DEF ShowsStill
<1>7. MergesOnly
  BY <1>1 DEF MergesOnly
<1>. QED  BY <1>1, <1>2, <1>3, <1>4, <1>5, <1>6, <1>7 DEF VKeeps

LEMMA CreateShows ==
  ASSUME VInv, NEW n \in Slots, NEW d \in Displays, CanCreate(catalog, n),
         NEW e, e = Create(catalog, n, d)
  PROVE  /\ Good(e) /\ e.byNumber[n] \in WorkspaceIds /\ e.assignment = catalog.assignment
         /\ \A f \in online : e.active[f] = catalog.active[f]
<1>1. Good(e)
  BY CreateGood DEF VInv
<1>2. e.byNumber[n] \in WorkspaceIds /\ e.assignment = catalog.assignment
  BY CreateSound DEF VInv, Good
<1>3. \A f \in online : f \in Displays /\ catalog.active[f] # None
  BY ShownOnline DEF VInv
<1>4. \A f \in Displays : catalog.active[f] # None => e.active[f] = catalog.active[f]
  BY DEF Create, VInv, Good, Sound, IsCatalog
<1>. QED  BY <1>1, <1>2, <1>3, <1>4

LEMMA EnsureHiddenShows ==
  ASSUME VInv, NEW d \in online, CanHide(catalog, d), NEW e, e = EnsureHidden(catalog, d)
  PROVE  /\ Good(e) /\ e.hidden[d] \in WorkspaceIds /\ e.assignment = catalog.assignment
         /\ e.active = catalog.active
<1>1. d \in Displays /\ NumberedOn(catalog, d) # {}
  BY DEF VInv, IInv, TypeOK, Served, Sound, KeepsANumber
<1>2. Good(e) /\ e.hidden[d] \in WorkspaceIds /\ e.assignment = catalog.assignment
  BY <1>1, EnsureHiddenGood, EnsureHiddenSound DEF VInv, Good
<1>3. e.active = catalog.active
  BY DEF EnsureHidden
<1>. QED  BY <1>2, <1>3

LEMMA SwitchToValid ==
  ASSUME VInv, NEW c, Good(c), \A f \in online : c.active[f] = catalog.active[f],
         NEW d \in Displays, NEW id, SwitchTo(c, d, id)
  PROVE  VKeeps
<1>1. Good(Switch(c, d, id)) /\ \A f \in Displays \ {d} : Switch(c, d, id).active[f] = c.active[f]
  BY SwitchGood DEF SwitchTo
<1>2. online \subseteq Displays
  BY DEF VInv, IInv, TypeOK
<1>3. CommitOnly(Switch(c, d, id))
  BY DEF SwitchTo
<1>. QED  BY <1>1, <1>2, <1>3, CommandValid

LEMMA MoveValid ==
  ASSUME VInv, NEW c, Good(c), \A f \in online : c.active[f] = catalog.active[f],
         NEW w \in Windows, NEW id \in WorkspaceIds, c.assignment[w] # None,
         CommitOnly(Relocate(c, w, id))
  PROVE  VKeeps
<1>. DEFINE e == Relocate(c, w, id)
<1>1. (Good(e) \/ (LostReturn(e) /\ ~Validate(e))) /\ e.active = c.active
  BY RelocateGood
<1>2. CommitOnly(e)
  OBVIOUS
<1>. HIDE DEF e
<1>. QED  BY <1>1, <1>2, CommandValid

LEMMA WorkspaceActivateOrCreateValid ==
  ASSUME VInv, NEW n \in Slots, NEW d \in Displays, WorkspaceActivateOrCreate(n, d)
  PROVE  VKeeps
<1>1. CASE catalog.byNumber[n] # None
  <2>1. catalog.display[catalog.byNumber[n]] \in Displays
    BY <1>1, IndexedHome DEF VInv, Good
  <2>. QED  BY <1>1, <2>1, SwitchToValid DEF WorkspaceActivateOrCreate, VInv
<1>2. CASE catalog.byNumber[n] = None
  <2>. DEFINE created == Create(catalog, n, d)
  <2>1. CanCreate(catalog, n) /\ SwitchTo(created, d, created.byNumber[n])
    BY <1>2 DEF WorkspaceActivateOrCreate
  <2>2. Good(created) /\ \A f \in online : created.active[f] = catalog.active[f]
    BY <2>1, CreateShows
  <2>. HIDE DEF created
  <2>. QED  BY <2>1, <2>2, SwitchToValid
<1>. QED  BY <1>1, <1>2

LEMMA WorkspaceCreateValid ==
  ASSUME VInv, NEW d \in Displays, WorkspaceCreate(d)
  PROVE  VKeeps
<1>. DEFINE created == Create(catalog, NextFreeSlot(catalog), d)
<1>1. NextFreeSlot(catalog) \in Slots
  BY NextFreeSlotExists DEF WorkspaceCreate, FreeSlots
<1>2. Good(created) /\ \A f \in online : created.active[f] = catalog.active[f]
  BY <1>1, CreateShows DEF WorkspaceCreate
<1>3. CommitOnly(created)
  BY DEF WorkspaceCreate
<1>. HIDE DEF created
<1>. QED  BY <1>2, <1>3, CommandValid

LEMMA WorkspaceToggleHiddenValid ==
  ASSUME VInv, NEW d \in Displays, WorkspaceToggleHidden(d)
  PROVE  VKeeps
<1>. DEFINE e == ToggleHidden(catalog, d)
<1>1. CanToggleHidden(catalog, d) /\ CommitOnly(e)
  BY DEF WorkspaceToggleHidden
<1>2. Good(e)
  BY <1>1, ToggleHiddenGood DEF VInv
<1>3. \A f \in Displays \ {d} : e.active[f] = catalog.active[f]
  BY DEF ToggleHidden, EnsureHidden, VInv, Good, Sound, IsCatalog
<1>4. online \subseteq Displays
  BY DEF VInv, IInv, TypeOK
<1>. HIDE DEF e
<1>. QED  BY <1>1, <1>2, <1>3, <1>4, CommandValid

LEMMA WorkspaceMoveWindowValid ==
  ASSUME VInv, NEW n \in Slots, NEW w \in Windows, WorkspaceMoveWindow(n, w)
  PROVE  VKeeps
<1>. DEFINE source == catalog.assignment[w]
            created == Create(catalog, n, catalog.display[source])
<1>1. source # None
  BY DEF WorkspaceMoveWindow
<1>2. CASE catalog.byNumber[n] # None
  <2>1. catalog.byNumber[n] \in WorkspaceIds
    BY <1>2, IndexedHome DEF VInv, Good
  <2>. QED  BY <1>1, <1>2, <2>1, MoveValid DEF WorkspaceMoveWindow, VInv
<1>3. CASE catalog.byNumber[n] = None
  <2>1. CanCreate(catalog, n) /\ CommitOnly(Relocate(created, w, created.byNumber[n]))
    BY <1>3 DEF WorkspaceMoveWindow
  <2>2. catalog.display[source] \in Displays
    BY <1>1 DEF WorkspaceMoveWindow, VInv, IInv, TypeOK, IsCatalog, Opt
  <2>3. /\ Good(created) /\ \A f \in online : created.active[f] = catalog.active[f]
        /\ created.byNumber[n] \in WorkspaceIds
        /\ created.assignment = catalog.assignment
    BY <2>1, <2>2, CreateShows
  <2>. HIDE DEF created
  <2>. QED  BY <1>1, <2>1, <2>3, MoveValid
<1>. QED  BY <1>2, <1>3

LEMMA WorkspaceMoveWindowToHiddenValid ==
  ASSUME VInv, NEW d \in Displays, NEW w \in Windows, WorkspaceMoveWindowToHidden(d, w)
  PROVE  VKeeps
<1>. DEFINE h == EnsureHidden(catalog, d)
<1>1. /\ d \in online /\ catalog.assignment[w] # None /\ CanHide(catalog, d)
      /\ CommitOnly(Relocate(h, w, h.hidden[d]))
  BY DEF WorkspaceMoveWindowToHidden
<1>2. /\ Good(h) /\ h.hidden[d] \in WorkspaceIds /\ h.assignment = catalog.assignment
      /\ h.active = catalog.active
  BY <1>1, EnsureHiddenShows
<1>. HIDE DEF h
<1>. QED  BY <1>1, <1>2, MoveValid

LEMMA DisplayMoveWindowToValid ==
  ASSUME VInv, NEW d \in Displays, NEW w \in Windows, DisplayMoveWindowTo(d, w)
  PROVE  VKeeps
<1>1. catalog.active[d] \in WorkspaceIds
  BY DEF DisplayMoveWindowTo, VInv, IInv, TypeOK, IsCatalog, Opt
<1>. QED  BY <1>1, MoveValid DEF DisplayMoveWindowTo, VInv

LEMMA WorkspaceCommandValid == ASSUME VInv, WorkspaceCommand  PROVE VKeeps
<1>0. Good(catalog)
  BY DEF VInv
<1>1. ASSUME NEW n \in Slots, WorkspaceActivate(n)  PROVE VKeeps
  <2>1. catalog.display[catalog.byNumber[n]] \in Displays
    BY <1>1, IndexedHome DEF WorkspaceActivate, VInv, Good
  <2>. QED  BY <1>0, <1>1, <2>1, SwitchToValid DEF WorkspaceActivate
<1>2. ASSUME NEW n \in Slots, NEW d \in Displays, WorkspaceActivateOrCreate(n, d)
      PROVE  VKeeps
  BY <1>2, WorkspaceActivateOrCreateValid
<1>3. ASSUME NEW d \in Displays, WorkspaceCreate(d)  PROVE VKeeps
  BY <1>3, WorkspaceCreateValid
<1>4. ASSUME NEW d \in Displays, NEW forward \in BOOLEAN, NEW skipEmpty \in BOOLEAN,
             WorkspaceStep(d, forward, skipEmpty)
      PROVE  VKeeps
  BY <1>0, <1>4, SwitchToValid DEF WorkspaceStep
<1>5. ASSUME NEW d \in Displays, WorkspaceLast(d)  PROVE VKeeps
  BY <1>0, <1>5, SwitchToValid DEF WorkspaceLast
<1>6. ASSUME NEW d \in Displays, WorkspaceToggleHidden(d)  PROVE VKeeps
  BY <1>6, WorkspaceToggleHiddenValid
<1>7. ASSUME NEW n \in Slots, NEW w \in Windows, WorkspaceMoveWindow(n, w)  PROVE VKeeps
  BY <1>7, WorkspaceMoveWindowValid
<1>8. ASSUME NEW d \in Displays, NEW w \in Windows, WorkspaceMoveWindowToHidden(d, w)
      PROVE  VKeeps
  BY <1>8, WorkspaceMoveWindowToHiddenValid
<1>9. ASSUME NEW d \in Displays, NEW w \in Windows, DisplayMoveWindowTo(d, w)  PROVE VKeeps
  BY <1>9, DisplayMoveWindowToValid
<1>. QED
  BY <1>1, <1>2, <1>3, <1>4, <1>5, <1>6, <1>7, <1>8, <1>9 DEF WorkspaceCommand

LEMMA WindowToggleFloatingValid ==
  ASSUME VInv, NEW w \in Windows, NEW placed \in BOOLEAN, WindowToggleFloating(w, placed)
  PROVE  VKeeps
<1>. DEFINE id == catalog.assignment[w]
            floated == AssignFloating(catalog, id, w)
<1>1. id \in WorkspaceIds
  BY DEF WindowToggleFloating, VInv, IInv, TypeOK, IsCatalog, Opt
<1>2. CASE IsFloating(catalog, w)
  <2>. DEFINE tiled == AssignTiled(catalog, id, w)
  <2>1. Good(tiled)
    BY <1>1, AssignTiledGood DEF VInv
  <2>2. tiled.active = catalog.active
    BY PlaceShape DEF AssignTiled, Rearranges
  <2>3. CommitOnly(tiled)
    BY <1>2 DEF WindowToggleFloating
  <2>. HIDE DEF tiled
  <2>. QED  BY <2>1, <2>2, <2>3, CommandValid
<1>3. CASE ~IsFloating(catalog, w)
  <2>1. CommitOnly(floated) \/ CommitOnly(SetFloatingPosition(floated, id, w))
    BY <1>3 DEF WindowToggleFloating
  <2>2. Good(floated) /\ w \in floated.floating[id]
    BY <1>1, AssignFloatingGood DEF VInv
  <2>3. floated.active = catalog.active
    BY PlaceShape DEF AssignFloating, Rearranges
  <2>. HIDE DEF floated
  <2>4. Good(SetFloatingPosition(floated, id, w))
    BY <1>1, <2>2, SetFloatingPositionGood
  <2>5. SetFloatingPosition(floated, id, w).active = floated.active
    BY DEF SetFloatingPosition
  <2>. QED  BY <2>1, <2>2, <2>3, <2>4, <2>5, CommandValid
<1>. QED  BY <1>2, <1>3

LEMMA WindowCommandValid == ASSUME VInv, WindowCommand  PROVE VKeeps
<1>1. ASSUME NEW w \in Windows, WindowActivate(w)  PROVE VKeeps
  BY <1>1, FocusWindowValid DEF WindowActivate
<1>2. ASSUME NEW w \in Windows, NEW target \in Windows, WindowFocus(w, target)  PROVE VKeeps
  BY <1>2, FocusWindowValid DEF WindowFocus
<1>3. ASSUME NEW w \in Windows, NEW target \in Windows, WindowCycle(w, target)  PROVE VKeeps
  BY <1>3, FocusWindowValid DEF WindowCycle
<1>4. ASSUME NEW w \in Windows, NEW target \in Windows, WindowToggleFocusLayer(w, target)
      PROVE  VKeeps
  BY <1>4, FocusWindowValid DEF WindowToggleFocusLayer
<1>5. ASSUME NEW w \in Windows, NEW placed \in BOOLEAN, WindowToggleFloating(w, placed)
      PROVE  VKeeps
  BY <1>5, WindowToggleFloatingValid
<1>6. ASSUME NEW w \in Windows, NEW d \in Displays, WindowMoveAcross(w, d)  PROVE VKeeps
  BY <1>6, DisplayMoveWindowToValid DEF WindowMoveAcross
<1>. QED  BY <1>1, <1>2, <1>3, <1>4, <1>5, <1>6 DEF WindowCommand

-----------------------------------------------------------------------------
(* Observations *)

LEMMA Settled ==
  ASSUME VInv, NEW t \in Topologies,
         CanReconcile(catalog, t.displays, t.receiver, t.queue),
         NEW e, e = Reconcile(catalog, t.displays, t.receiver, t.queue)
  PROVE  /\ Good(e) /\ SameMembership(catalog, e) /\ OnlyMerges(catalog, e)
         /\ \A d \in online \cap t.displays : e.active[d] = catalog.active[d]
<1>1. /\ Good(e) /\ SameMembership(catalog, e) /\ OnlyMerges(catalog, e)
      /\ \A d \in t.displays : catalog.active[d] # None => e.active[d] = catalog.active[d]
  <2>1. PICK c, D, q, r : c = catalog /\ D = t.displays /\ q = t.queue /\ r = t.receiver
    OBVIOUS
  <2>2. /\ D \in SUBSET Displays /\ q \in [Displays -> Nat]
        /\ \A d, f \in D : q[d] = q[f] => d = f
        /\ D # {} => r \in D
    BY <2>1, TopologyType
  <2>3. Good(c) /\ CanReconcile(c, D, r, q) /\ e = Reconcile(c, D, r, q)
    BY <2>1 DEF VInv
  <2>4. /\ Good(e) /\ SameMembership(c, e) /\ OnlyMerges(c, e)
        /\ \A d \in D : c.active[d] # None => e.active[d] = c.active[d]
    BY <2>2, <2>3, ReconcileGood
  <2>. QED  BY <2>1, <2>4
<1>2. \A d \in online : catalog.active[d] # None
  BY ShownOnline DEF VInv
<1>. QED  BY <1>1, <1>2

LEMMA DisplayTopologyValid ==
  ASSUME VInv, NEW t \in Topologies, DisplayTopology(t)
  PROVE  VKeeps
<1>1. PICK e : e = Reconcile(catalog, t.displays, t.receiver, t.queue)
  OBVIOUS
<1>2. /\ Good(e) /\ OnlyMerges(catalog, e)
      /\ \A d \in online \cap t.displays : e.active[d] = catalog.active[d]
  BY <1>1, Settled DEF DisplayTopology
<1>3. /\ catalog' = e /\ Valid(e, managed, present) /\ online' = t.displays
      /\ UNCHANGED <<present, seenOn, managed, focus, drag>>
  BY <1>1 DEF DisplayTopology, Commit
<1>4. /\ present' = present /\ managed' = managed /\ focused' = focused
      /\ lastTiled' = lastTiled /\ lastFloating' = lastFloating /\ drag' = drag
  BY <1>3 DEF focus
<1>5. Housed(e, managed, present)
  BY <1>2, <1>3, ValidHouses DEF Good, Sound
<1>6. NamesPresentWindows'
  BY <1>4 DEF VInv, NamesPresentWindows, FocusNamesPresentWindows, DragNamesPresentWindows
<1>7. ShowsStill
  BY <1>2, <1>3 DEF ShowsStill
<1>8. MergesOnly
  BY <1>2, <1>3 DEF MergesOnly, OnlyMerges
<1>. QED  BY <1>2, <1>3, <1>4, <1>5, <1>6, <1>7, <1>8 DEF VKeeps

LEMMA SnapshotWindowsValid ==
  ASSUME VInv, NEW t \in Topologies, NEW settled, Good(settled),
         SameMembership(catalog, settled), OnlyMerges(catalog, settled),
         \A d \in online \cap t.displays : settled.active[d] = catalog.active[d],
         NEW p \in SUBSET Windows, NEW on \in [p -> Opt(t.displays)],
         NEW rule \in [p -> RuleDecisions], NEW inside,
         SnapshotWindows(t, settled, p, on, rule, inside)
  PROVE  VKeeps
<1>1. PICK gone : gone = present \ p
  OBVIOUS
<1>2. PICK kept : kept = RemoveWindows(settled, gone)
  OBVIOUS
<1>3. PICK assigned : assigned = ReconcileWindows(kept, p, on, rule)
  OBVIOUS
<1>4. PICK framed : framed = RecordActiveFloatingPositions(assigned, inside \cap
        {w \in p : assigned.assignment[w] # None
                   /\ assigned.display[assigned.assignment[w]] \in t.displays})
  OBVIOUS
<1>5. /\ CanReconcileWindows(kept, p, on, rule, t.displays)
      /\ Valid(framed, managed', p) /\ catalog' = framed
      /\ online' = t.displays /\ present' = p /\ drag' = DragAmong(managed')
      /\ \/ /\ focused' = None
            /\ lastTiled' = Forget(lastTiled, gone)
            /\ lastFloating' = Forget(lastFloating, gone)
         \/ \E w \in p :
              /\ focused' = w
              /\ NoteFocus(framed, w, Forget(lastTiled, gone), Forget(lastFloating, gone))
  BY <1>1, <1>2, <1>3, <1>4 DEF SnapshotWindows
<1>6. Observed(p, on, rule) /\ t.displays \subseteq Displays
  BY TopologyType DEF Observed, Opt
<1>7. gone \in SUBSET Windows
  BY <1>1 DEF VInv, IInv, TypeOK
<1>8. /\ Good(kept) /\ Rearranges(settled, kept) /\ kept.nextId = settled.nextId
      /\ \A w \in Windows : kept.assignment[w] = IF w \in gone THEN None ELSE settled.assignment[w]
  BY <1>2, <1>7, RemoveWindowsGood, RemoveWindowsShape
<1>9. /\ Good(assigned) /\ KeepsIds(kept, assigned)
      /\ \A w \in Admitted(p, rule) : kept.assignment[w] # None =>
           assigned.assignment[w] = kept.assignment[w]
      /\ \A w \in p \ Admitted(p, rule) : assigned.assignment[w] = None
      /\ \A w \in Windows \ p : assigned.assignment[w] = kept.assignment[w]
  BY <1>3, <1>5, <1>6, <1>8, ReconcileWindowsGood DEF Assigns
<1>10. /\ Good(framed) /\ Rearranges(assigned, framed) /\ framed.assignment = assigned.assignment
  <2>1. PICK X : framed = RecordActiveFloatingPositions(assigned, X)
    BY <1>4
  <2>2. Good(framed)
    BY <1>9, <2>1, RecordGood
  <2>. QED  BY <2>1, <2>2 DEF RecordActiveFloatingPositions, Rearranges
<1>11. Housed(framed, managed', p)
  BY <1>5, <1>10, ValidHouses DEF Good, Sound
<1>12. NamesPresentWindows'
  <2>1. \A id \in WorkspaceIds : /\ Forget(lastTiled, gone)[id] \in Opt(p)
                                 /\ Forget(lastFloating, gone)[id] \in Opt(p)
    BY <1>1 DEF Forget, VInv, NamesPresentWindows, FocusNamesPresentWindows, Opt
  <2>2. focused' \in Opt(p)
    BY <1>5 DEF Opt
  <2>3. \A id \in WorkspaceIds : lastTiled'[id] \in Opt(p) /\ lastFloating'[id] \in Opt(p)
    <3>1. CASE lastTiled' = Forget(lastTiled, gone) /\ lastFloating' = Forget(lastFloating, gone)
      BY <2>1, <3>1
    <3>2. ASSUME NEW w \in p,
                 NoteFocus(framed, w, Forget(lastTiled, gone), Forget(lastFloating, gone))
          PROVE  \A id \in WorkspaceIds : lastTiled'[id] \in Opt(p) /\ lastFloating'[id] \in Opt(p)
      <4>1. PICK tiled, floating : tiled = Forget(lastTiled, gone)
                                   /\ floating = Forget(lastFloating, gone)
        OBVIOUS
      <4>2. \E i : /\ lastTiled' = tiled \/ lastTiled' = [tiled EXCEPT ![i] = w]
                   /\ lastFloating' = floating \/ lastFloating' = [floating EXCEPT ![i] = w]
        BY <3>2, <4>1 DEF NoteFocus
      <4>3. /\ DOMAIN tiled = WorkspaceIds /\ tiled = [id \in DOMAIN tiled |-> tiled[id]]
            /\ DOMAIN floating = WorkspaceIds /\ floating = [id \in DOMAIN floating |-> floating[id]]
        BY <4>1 DEF Forget
      <4>. QED  BY <2>1, <4>1, <4>2, <4>3 DEF Opt
    <3>. QED  BY <1>5, <3>1, <3>2
  <2>4. managed' \subseteq p
    BY <1>11 DEF Housed
  <2>5. {drag'.window, drag'.target} \subseteq Opt(p)
    BY <1>5, <2>4 DEF DragAmong, NoDrag, Opt
  <2>. QED  BY <1>5, <2>2, <2>3, <2>5
            DEF NamesPresentWindows, FocusNamesPresentWindows, DragNamesPresentWindows
<1>13. ShowsStill
  <2>1. ASSUME NEW d \in online \cap t.displays  PROVE framed.active[d] = catalog.active[d]
    <3>1. d \in Displays /\ catalog.active[d] # None
      BY <2>1, ShownOnline DEF VInv
    <3>2. kept.active[d] = catalog.active[d]
      BY <1>8 DEF Rearranges
    <3>. QED  BY <1>9, <1>10, <3>1, <3>2 DEF KeepsIds, Rearranges
  <2>. QED  BY <1>5, <2>1 DEF ShowsStill
<1>14. MergesOnly
  <2>1. SUFFICES ASSUME NEW w \in Windows, catalog.assignment[w] # None,
                        framed.assignment[w] # None,
                        catalog.assignment[w] # framed.assignment[w]
                 PROVE  /\ catalog.assignment[w] \notin Live(framed)
                        /\ catalog.number[catalog.assignment[w]] = None
                        /\ framed.number[framed.assignment[w]] = None
    BY <1>5 DEF MergesOnly
  <2>. DEFINE old == catalog.assignment[w]
              new == framed.assignment[w]
  <2>2. w \in present
    BY <2>1, AssignedIsPresent
  <2>3. w \in p /\ w \notin gone
    BY <1>1, <1>8, <1>9, <1>10, <2>1, <2>2
  <2>4. w \in Admitted(p, rule)
    BY <1>9, <1>10, <2>1, <2>3
  <2>5. settled.assignment[w] # None
    BY <2>1 DEF SameMembership
  <2>6. new = settled.assignment[w]
    BY <1>8, <1>9, <1>10, <2>3, <2>4, <2>5
  <2>7. /\ old \in WorkspaceIds /\ old \notin Live(settled) /\ old <= settled.nextId
        /\ catalog.number[old] = None
        /\ new \in Live(settled) /\ settled.number[new] = None
    BY <2>1, <2>6 DEF OnlyMerges
  <2>8. new \in WorkspaceIds /\ new <= settled.nextId
    BY <2>7 DEF Good, Sound, LiveBelowNext, Live
  <2>9. \A id \in WorkspaceIds : id <= settled.nextId =>
          framed.display[id] = settled.display[id] /\ framed.number[id] = settled.number[id]
    BY <1>8, <1>9, <1>10 DEF KeepsIds, Rearranges
  <2>10. framed.display[old] = None /\ framed.number[new] = None
    BY <2>7, <2>8, <2>9 DEF Live
  <2>. QED  BY <2>7, <2>10 DEF Live
<1>. QED  BY <1>5, <1>10, <1>11, <1>12, <1>13, <1>14 DEF VKeeps

LEMMA PlatformSnapshotValid ==
  ASSUME VInv, NEW t \in Topologies, PlatformSnapshot(t)
  PROVE  VKeeps
<1>. DEFINE settled == Reconcile(catalog, t.displays, t.receiver, t.queue)
<1>1. /\ Good(settled) /\ SameMembership(catalog, settled) /\ OnlyMerges(catalog, settled)
      /\ \A d \in online \cap t.displays : settled.active[d] = catalog.active[d]
  BY Settled DEF PlatformSnapshot
<1>2. PICK p \in SUBSET Windows :
        \E on \in [p -> Opt(t.displays)], rule \in [p -> RuleDecisions],
           inside \in SUBSET {w \in p \cap present : IsFloating(catalog, w)} :
          SnapshotWindows(t, settled, p, on, rule, inside)
  BY DEF PlatformSnapshot
<1>. HIDE DEF settled
<1>. QED  BY <1>1, <1>2, SnapshotWindowsValid

LEMMA ConfigReloadedValid ==
  ASSUME VInv, NEW rule \in [present -> RuleDecisions], ConfigReloaded(rule)
  PROVE  VKeeps
<1>1. PICK e : e = ReconcileWindows(catalog, present, seenOn, rule)
  OBVIOUS
<1>2. /\ CanReconcileWindows(catalog, present, seenOn, rule, online)
      /\ catalog' = e /\ Valid(e, managed', present) /\ UNCHANGED <<platform, focus, drag>>
  BY <1>1 DEF ConfigReloaded
<1>3. Observed(present, seenOn, rule)
  BY DEF Observed, VInv, IInv, TypeOK
<1>4. Good(e) /\ KeepsIds(catalog, e)
  BY <1>1, <1>2, <1>3, ReconcileWindowsGood DEF VInv
<1>5. /\ online' = online /\ present' = present /\ focused' = focused
      /\ lastTiled' = lastTiled /\ lastFloating' = lastFloating /\ drag' = drag
  BY <1>2 DEF platform, focus
<1>6. Housed(e, managed', present)
  BY <1>2, <1>4, ValidHouses DEF Good, Sound
<1>7. NamesPresentWindows'
  BY <1>5 DEF VInv, NamesPresentWindows, FocusNamesPresentWindows, DragNamesPresentWindows
<1>8. \A d \in online : e.active[d] = catalog.active[d]
  BY <1>4, ShownOnline DEF KeepsIds, VInv
<1>9. ShowsStill /\ MergesOnly
  BY <1>2, <1>5, <1>8 DEF ShowsStill, MergesOnly
<1>. QED  BY <1>2, <1>4, <1>5, <1>6, <1>7, <1>9 DEF VKeeps

LEMMA ObservationValid == ASSUME VInv, Observation  PROVE VKeeps
<1>1. ASSUME NEW t \in Topologies, DisplayTopology(t)  PROVE VKeeps
  BY <1>1, DisplayTopologyValid
<1>2. ASSUME NEW t \in Topologies, PlatformSnapshot(t)  PROVE VKeeps
  BY <1>2, PlatformSnapshotValid
<1>3. ASSUME NEW w \in Opt(Windows), FocusChanged(w)  PROVE VKeeps
  BY <1>3, FocusChangedValid
<1>4. ASSUME NEW rule \in [present -> RuleDecisions], ConfigReloaded(rule)  PROVE VKeeps
  BY <1>4, ConfigReloadedValid
<1>5. ASSUME NEW w \in Windows, NEW target \in Opt(Windows), DragUpdated(w, target)
      PROVE  VKeeps
  BY <1>5, DragUpdatedValid
<1>6. ASSUME NEW w \in Windows, DragCommitted(w)  PROVE VKeeps
  BY <1>6, DragValid DEF DragCommitted, NoDrag, Opt
<1>7. CASE DragCancelled
  BY <1>7, DragValid DEF DragCancelled, NoDrag, Opt
<1>. QED  BY <1>1, <1>2, <1>3, <1>4, <1>5, <1>6, <1>7 DEF Observation

LEMMA StutterValid == ASSUME VInv, UNCHANGED vars  PROVE VKeeps
<1>1. /\ catalog' = catalog /\ present' = present /\ focused' = focused
      /\ lastTiled' = lastTiled /\ lastFloating' = lastFloating /\ drag' = drag
      /\ UNCHANGED <<platform, managed>>
  BY DEF vars, platform, focus
<1>2. NamesPresentWindows'
  BY <1>1 DEF VInv, NamesPresentWindows, FocusNamesPresentWindows, DragNamesPresentWindows
<1>. QED  BY <1>1, <1>2, CatalogKept

LEMMA NextValid == VInv /\ [Next]_vars => VInv' /\ VKeeps
<1>. SUFFICES ASSUME VInv, [Next]_vars  PROVE VInv' /\ VKeeps
  OBVIOUS
<1>1. VKeeps
  BY ObservationValid, WorkspaceCommandValid, WindowCommandValid, StutterValid DEF Next
<1>2. IInv'
  BY NextKeeps DEF VInv, StepKeeps
<1>. QED  BY <1>1, <1>2 DEF VInv, VKeeps

-----------------------------------------------------------------------------
(* What validate() accepts in every state of the invariant *)

LEMMA WindowsValid ==
  ASSUME VInv, NEW p \in SUBSET Windows, NEW on \in [p -> Opt(online)],
         NEW rule \in [p -> RuleDecisions], NEW kept, kept = RemoveWindows(catalog, present \ p),
         CanReconcileWindows(kept, p, on, rule, online)
  PROVE  Valid(ReconcileWindows(kept, p, on, rule),
               (managed \ (present \cup p)) \cup Admitted(p, rule), p)
<1>1. PICK gone : gone = present \ p
  OBVIOUS
<1>2. PICK e : e = ReconcileWindows(kept, p, on, rule)
  OBVIOUS
<1>3. gone \in SUBSET Windows /\ Observed(p, on, rule)
  BY <1>1 DEF VInv, IInv, TypeOK, Observed, Opt
<1>4. /\ Good(kept)
      /\ \A w \in Windows : kept.assignment[w] = IF w \in gone THEN None ELSE catalog.assignment[w]
  BY <1>1, <1>3, RemoveWindowsGood, RemoveWindowsShape DEF VInv
<1>5. /\ Good(e)
      /\ \A w \in Admitted(p, rule) : e.assignment[w] # None
      /\ \A w \in p \ Admitted(p, rule) : e.assignment[w] = None
      /\ \A w \in Windows \ p : e.assignment[w] = kept.assignment[w]
  <2>1. Good(kept)
    BY <1>4
  <2>2. Observed(p, on, rule)
    BY <1>3
  <2>3. \E D : CanReconcileWindows(kept, p, on, rule, D)
    OBVIOUS
  <2>4. e = ReconcileWindows(kept, p, on, rule)
    BY <1>2
  <2>5. Good(e) /\ Assigns(kept, e, p, rule)
    BY <2>1, <2>2, <2>3, <2>4, ReconcileWindowsGood
  <2>. QED  BY <2>5 DEF Assigns
<1>6. managed \subseteq present
  BY DEF VInv, Housed
<1>7. (managed \ (present \cup p)) \cup Admitted(p, rule) = Admitted(p, rule)
  BY <1>6
<1>8. \A w \in Windows : w \notin p => e.assignment[w] = None
  BY <1>1, <1>4, <1>5, AssignedIsPresent
<1>9. Admitted(p, rule) \subseteq p
  BY DEF Admitted
<1>10. Housed(e, Admitted(p, rule), p)
  BY <1>5, <1>8, <1>9 DEF Housed
<1>11. Valid(e, Admitted(p, rule), p)
  BY <1>5, <1>10, HousedIsValid
<1>. QED  BY <1>2, <1>7, <1>11

LEMMA TopologiesValid == ASSUME VInv  PROVE TopologiesAreValid
<1>1. ASSUME NEW t \in Topologies, CanReconcile(catalog, t.displays, t.receiver, t.queue)
      PROVE  Validate(Reconcile(catalog, t.displays, t.receiver, t.queue))
  BY <1>1, Settled, GoodIsValid
<1>. QED  BY <1>1 DEF TopologiesAreValid

LEMMA TogglesValid == ASSUME VInv, NEW c \in Toggles  PROVE Validate(c)
<1>1. PICK d \in online : CanToggleHidden(catalog, d) /\ c = ToggleHidden(catalog, d)
  BY DEF Toggles
<1>2. d \in Displays
  BY DEF VInv, IInv, TypeOK
<1>. QED  BY <1>1, <1>2, ToggleHiddenGood, GoodIsValid DEF VInv

LEMMA SwitchesValid == ASSUME VInv, NEW c \in Switches  PROVE Validate(c)
<1>1. PICK id \in Live(catalog) :
        catalog.number[id] # None /\ c = Switch(catalog, catalog.display[id], id)
  BY DEF Switches
<1>2. id \in WorkspaceIds /\ catalog.display[id] \in Displays
  BY DEF Live, VInv, Good, Sound, IsCatalog, Opt
<1>3. CanSwitch(catalog, catalog.display[id], id)
  BY <1>1, <1>2 DEF CanSwitch, CanActivate
<1>. QED  BY <1>1, <1>2, <1>3, SwitchGood, GoodIsValid DEF VInv

LEMMA MovesValid == ASSUME VInv, NEW c \in Moves  PROVE Validate(c) \/ LostReturn(c)
<1>1. CASE \E w \in Windows, id \in Live(catalog) :
             catalog.assignment[w] # None /\ c = Relocate(catalog, w, id)
  <2>1. PICK w \in Windows, id \in WorkspaceIds :
          catalog.assignment[w] # None /\ c = Relocate(catalog, w, id)
    BY <1>1 DEF Live
  <2>2. PICK k : k = catalog
    OBVIOUS
  <2>3. Good(k) /\ k.assignment[w] # None /\ c = Relocate(k, w, id)
    BY <2>1, <2>2 DEF VInv
  <2>. QED  BY <2>3, RelocateGood, GoodIsValid
<1>2. CASE \E w \in Windows, d \in online :
             /\ catalog.assignment[w] # None /\ CanHide(catalog, d)
             /\ c = Relocate(EnsureHidden(catalog, d), w, EnsureHidden(catalog, d).hidden[d])
  <2>1. PICK w \in Windows, d \in online :
             /\ catalog.assignment[w] # None /\ CanHide(catalog, d)
             /\ c = Relocate(EnsureHidden(catalog, d), w, EnsureHidden(catalog, d).hidden[d])
    BY <1>2
  <2>2. PICK h : h = EnsureHidden(catalog, d)
    OBVIOUS
  <2>3. Good(h) /\ h.hidden[d] \in WorkspaceIds /\ h.assignment = catalog.assignment
    BY <2>1, <2>2, EnsureHiddenShows
  <2>4. c = Relocate(h, w, h.hidden[d]) /\ h.assignment[w] # None
    BY <2>1, <2>2, <2>3
  <2>. QED  BY <2>3, <2>4, RelocateGood, GoodIsValid
<1>. QED  BY <1>1, <1>2 DEF Moves

\* Displays that come and go keep each window's layer and frame.
LEMMA TopologyKeeps ==
  ASSUME VInv, NEW t \in Topologies, DisplayTopology(t)
  PROVE  Membership(catalog') = Membership(catalog)
<1>1. SameMembership(catalog, catalog')
  BY Settled DEF DisplayTopology, Commit
<1>. QED  BY <1>1 DEF Membership, SameMembership, Framed

-----------------------------------------------------------------------------
(* What holds in every behaviour *)

\* The invariant that the theorems below rest on: besides what validate() checks, it
\* holds what the checks of the next step depend on.
THEOREM Validity == Spec => []VInv
BY InitVInv, NextValid, PTL DEF Spec

\* A display remembers where to return exactly while it shows its hidden workspace.
THEOREM ReturnsFromHidden == Spec => []ReturnsOnlyFromHidden
<1>1. VInv => ReturnsOnlyFromHidden
  BY DEF VInv, IInv, TypeOK, Good, Fits, ReturnsFit, ReturnsOnlyFromHidden
<1>. QED  BY Validity, <1>1, PTL

\* A frame is remembered only for a window that floats in that workspace.
THEOREM FramesFloat == Spec => []FramesOfFloatingOnly
<1>1. VInv => FramesOfFloatingOnly
  BY DEF VInv, Good, Fits, FramesFit, FramesOfFloatingOnly
<1>. QED  BY Validity, <1>1, PTL

\* Focus, its history and the drag name only windows that the platform has.
THEOREM NamesPresent == Spec => []NamesPresentWindows
<1>1. VInv => NamesPresentWindows
  BY DEF VInv
<1>. QED  BY Validity, <1>1, PTL

\* Windows observed on online displays are never refused, whatever the rules decide.
THEOREM WindowsAccepted == Spec => []WindowsAreValid
<1>1. VInv => WindowsAreValid
  BY WindowsValid DEF WindowsAreValid
<1>. QED  BY Validity, <1>1, PTL

\* Topologies, switches and toggles are never refused, and a move only when it empties
\* the workspace that a display returns to from its hidden one.
THEOREM OnlyLostReturnsRefused == Spec => []RefusedOnlyForLostReturn
<1>1. VInv => RefusedOnlyForLostReturn
  BY TopologiesValid, TogglesValid, SwitchesValid, MovesValid
     DEF RefusedOnlyForLostReturn, LostReturn
<1>. QED  BY Validity, <1>1, PTL

\* An observation takes a window to another workspace only when it merges hidden ones.
THEOREM AssignmentsStand == Spec => ObservationsMoveNoWindow
<1>. DEFINE Step ==
  platform' # platform =>
    \A w \in Windows :
      LET old == catalog.assignment[w]
          new == catalog'.assignment[w]
      IN  old # None /\ new # None /\ old # new =>
            /\ old \notin Live(catalog')
            /\ catalog.number[old] = None
            /\ catalog'.number[new] = None
<1>1. VInv /\ [Next]_vars => [Step]_vars
  BY NextValid DEF VKeeps, MergesOnly
<1>. QED  BY Validity, <1>1, PTL DEF Spec, ObservationsMoveNoWindow

\* Displays that come and go drop no window and change no layer, no frame and nothing
\* that the other displays show; and no step changes what two displays show.
THEOREM TopologiesAreLocal == Spec => TopologyIsLocal
<1>. DEFINE
  Keep == online' # online /\ Membership(catalog') # Membership(catalog) =>
            \A t \in Topologies : ~DisplayTopology(t)
  Show == \A d \in online \cap online' :
            catalog'.active[d] # catalog.active[d] =>
              /\ online' = online
              /\ \A e \in online \ {d} : catalog'.active[e] = catalog.active[e]
<1>1. VInv /\ [Next]_vars => [Keep]_vars
  BY TopologyKeeps
<1>2. VInv /\ [Next]_vars => [Show]_vars
  BY NextValid DEF VKeeps, ShowsStill
<1>. QED  BY Validity, <1>1, <1>2, PTL
          DEF Spec, TopologyIsLocal, TopologyKeepsWindows, OthersKeepShowing
=============================================================================
