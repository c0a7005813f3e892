---------------------------- MODULE HidingProofs ----------------------------
(***************************************************************************)
(* Hidden applications and minimised windows (AppVisibility), for any      *)
(* finite number of windows and any bounds: what the reactor will take for *)
(* minimised when it has handled the events on their way.                  *)
(***************************************************************************)
EXTENDS MCServices, FiniteSetTheorems, TLAPS

About == {"WindowMiniaturized", "WindowDeminiaturized", "WindowCreated", "WindowDestroyed"}
HideNotes ==
  [kind : {"ApplicationHidden", "ApplicationShown"}] \cup [kind : About, window : AppWindows]
Listings ==
  {e \in [kind : {"WindowCreated", "WindowsDiscovered"}, infos : SUBSET AppWindows, mini : SUBSET AppWindows] :
     e.mini \subseteq e.infos}
HideEvents ==
  [kind : {"WindowMinimized", "WindowDeminiaturized", "WindowDestroyed"}, window : AppWindows] \cup Listings

\* The windows that an event makes the reactor track or take for minimised, and those that
\* it makes it drop or take for shown.
Lists(e) == e.kind \in {"WindowCreated", "WindowsDiscovered"}
On(what, e) ==
  IF what = "tracked" THEN (IF Lists(e) THEN e.infos ELSE {})
  ELSE IF Lists(e) THEN e.mini ELSE IF e.kind = "WindowMinimized" THEN {e.window} ELSE {}
Off(what, e) ==
  IF what = "tracked" THEN (IF e.kind = "WindowDestroyed" THEN {e.window} ELSE {})
  ELSE IF Lists(e) THEN e.infos \ e.mini
  ELSE IF e.kind \in {"WindowDeminiaturized", "WindowDestroyed"} THEN {e.window} ELSE {}

\* What it holds of a window when it has handled the events.
Will(what, s, base, w) ==
  \/ w \in base /\ \A j \in DOMAIN s : w \notin Off(what, s[j])
  \/ \E i \in DOMAIN s : w \in On(what, s[i]) /\ \A j \in DOMAIN s : j > i => w \notin Off(what, s[j])
WillBeTracked(w) == Will("tracked", sent, tracked, w)
WillBeMinimised(w) == Will("minimised", sent, minimised, w)

HideTypeOK ==
  /\ hidden \in BOOLEAN /\ isHidden \in BOOLEAN
  /\ open \subseteq AppWindows /\ miniaturised \subseteq open
  /\ registered \subseteq AppWindows /\ hiddenByApp \subseteq registered
  /\ ~isHidden => hiddenByApp = {}
  /\ tracked \subseteq AppWindows /\ minimised \subseteq tracked
  /\ news \in Seq(HideNotes) /\ sent \in Seq(HideEvents)

Tells(i, kind, w) == news[i].kind = kind /\ news[i].window = w
OfDock(i, w) == Tells(i, "WindowMiniaturized", w) \/ Tells(i, "WindowDeminiaturized", w)
OfApp(i) == news[i].kind \in {"ApplicationHidden", "ApplicationShown"}

\* The thread knows the windows that are there, or is about to hear of them.
WindowsAreTold ==
  \A w \in AppWindows :
    /\ w \in registered \ open => \E i \in DOMAIN news : Tells(i, "WindowDestroyed", w)
    /\ w \in open \ registered => \E i \in DOMAIN news : Tells(i, "WindowCreated", w)
    /\ w \in open => \A i \in DOMAIN news : ~Tells(i, "WindowDestroyed", w)
    /\ w \notin open => \A i \in DOMAIN news :
         OfDock(i, w) => \E j \in DOMAIN news : i < j /\ Tells(j, "WindowDestroyed", w)

\* The last that is told of a window and the Dock is true.
LastIsTrue ==
  \A w \in open, i \in DOMAIN news :
    OfDock(i, w) /\ (\A j \in DOMAIN news : i < j => ~OfDock(j, w)) =>
      (news[i].kind = "WindowMiniaturized" <=> w \in miniaturised)

\* Hiding and showing alternate, and the last of them is true.
HidingAlternates ==
  /\ \A i \in DOMAIN news : news[i].kind = "ApplicationHidden" =>
       /\ isHidden => \E k \in DOMAIN news : k < i /\ news[k].kind = "ApplicationShown"
       /\ \A j \in DOMAIN news : i < j /\ news[j].kind = "ApplicationHidden" =>
            \E k \in DOMAIN news : i < k /\ k < j /\ news[k].kind = "ApplicationShown"
  /\ hidden => \A i \in DOMAIN news :
       news[i].kind \in {"ApplicationShown", "WindowDeminiaturized"} =>
         \E j \in DOMAIN news : i < j /\ news[j].kind = "ApplicationHidden"
  /\ ~hidden =>
       /\ isHidden => \E i \in DOMAIN news : news[i].kind = "ApplicationShown"
       /\ \A i \in DOMAIN news : news[i].kind = "ApplicationHidden" =>
            \E j \in DOMAIN news : i < j /\ news[j].kind = "ApplicationShown"

\* What the reactor will take for minimised is in the Dock, or with the hidden application.
DockIsTold ==
  \A w \in registered \cap open :
    (\A i \in DOMAIN news : ~OfDock(i, w)) =>
      /\ w \in miniaturised => WillBeMinimised(w) \/ w \in misread
      /\ WillBeMinimised(w) => w \in miniaturised \cup hiddenByApp

HidingIsTold ==
  (hidden /\ \A i \in DOMAIN news : ~OfApp(i)) =>
    \A w \in registered : WillBeMinimised(w) \/ w \in exposed

HidingInv ==
  /\ HideTypeOK /\ WindowsAreTold /\ LastIsTrue /\ HidingAlternates
  /\ \A w \in AppWindows : WillBeTracked(w) <=> w \in registered
  /\ DockIsTold /\ HidingIsTold

-----------------------------------------------------------------------------
(* What the reactor will hold when it has handled the events. *)

LEMMA FiniteWindows ==
  ASSUME NEW S \in SUBSET AppWindows
  PROVE  IsFiniteSet(S)
<1>1. IsFiniteSet(AppWindows)
  BY HidingAssumption DEF Hiding!AppVisibilityAssumption, Hiding!IsFiniteSet, IsFiniteSet
<1>. QED  BY <1>1, FS_Subset

\* An event for each window.
LEMMA EventsInTurn ==
  ASSUME NEW S \in SUBSET AppWindows
  PROVE  LET n == Cardinality(S) s == Hiding!SetToSeq(S) IN
         /\ n \in Nat /\ DOMAIN s = 1..n
         /\ \A i \in 1..n : s[i] \in S
         /\ \A w \in S : \E i \in 1..n : s[i] = w
<1>0. IsFiniteSet(S)
  BY FiniteWindows
<1>1. Cardinality(S) \in Nat /\ ExistsBijection(1..Cardinality(S), S)
  BY <1>0, FS_CardinalityType
<1>2. \E f \in [1..Cardinality(S) -> S] : IsInjective(f)
  BY <1>1 DEF ExistsBijection, Bijection, Injection
<1>. DEFINE s == CHOOSE f \in [1..Cardinality(S) -> S] : IsInjective(f)
<1>3. s \in [1..Cardinality(S) -> S] /\ IsInjective(s)
  BY <1>2
<1>. HIDE DEF s
<1>4. IsFiniteSet(1..Cardinality(S)) /\ Cardinality(1..Cardinality(S)) = Cardinality(S)
  BY <1>1, FS_Interval
<1>5. s \in Surjection(1..Cardinality(S), S)
  BY <1>0, <1>3, <1>4, FS_Injection DEF Injection
<1>6. \A w \in S : \E i \in 1..Cardinality(S) : s[i] = w
  BY <1>5 DEF Surjection
<1>7. Hiding!SetToSeq(S) = s
  BY DEF s, Hiding!SetToSeq, Hiding!Cardinality, Cardinality, Hiding!IsInjective, IsInjective
<1>. QED  BY <1>1, <1>3, <1>6, <1>7

\* One more event.
LEMMA WillWithOne ==
  ASSUME NEW what, NEW base, NEW w, NEW s \in Seq(HideEvents), NEW e \in HideEvents,
         ~(w \in On(what, e) /\ w \in Off(what, e))
  PROVE  Will(what, Append(s, e), base, w) <=>
           w \in On(what, e) \/ (Will(what, s, base, w) /\ w \notin Off(what, e))
<1>1. PICK n \in Nat : n = Len(s)
  OBVIOUS
<1>2. PICK t : t = Append(s, e)
  OBVIOUS
<1>3. /\ DOMAIN s = 1..n /\ DOMAIN t = 1..n + 1 /\ t[n + 1] = e
      /\ \A i \in 1..n : t[i] = s[i]
  BY <1>1, <1>2
<1>4. n + 1 \in 1..n + 1 /\ \A i \in 1..n + 1 : i = n + 1 \/ (i \in 1..n /\ n + 1 > i)
  OBVIOUS
<1>5. \A i \in 1..n : i \in 1..n + 1
  OBVIOUS
<1>. HIDE DEF HideEvents
<1>6. ASSUME Will(what, t, base, w)
      PROVE  w \in On(what, e) \/ (Will(what, s, base, w) /\ w \notin Off(what, e))
  <2>1. CASE w \in base /\ \A j \in 1..n + 1 : w \notin Off(what, t[j])
    <3>1. w \notin Off(what, e) /\ \A j \in 1..n : w \notin Off(what, s[j])
      BY <1>3, <1>4, <1>5, <2>1
    <3>. QED  BY <1>3, <2>1, <3>1 DEF Will
  <2>2. CASE \E i \in 1..n + 1 : w \in On(what, t[i]) /\ \A j \in 1..n + 1 : j > i => w \notin Off(what, t[j])
    <3>1. PICK i \in 1..n + 1 : w \in On(what, t[i]) /\ \A j \in 1..n + 1 : j > i => w \notin Off(what, t[j])
      BY <2>2
    <3>2. CASE i = n + 1
      BY <1>3, <3>1, <3>2
    <3>3. CASE i # n + 1
      <4>1. i \in 1..n /\ n + 1 > i
        BY <1>4, <3>3
      <4>2. w \in On(what, s[i]) /\ w \notin Off(what, e) /\ \A j \in 1..n : j > i => w \notin Off(what, s[j])
        BY <1>3, <1>4, <1>5, <3>1, <4>1
      <4>. QED  BY <1>3, <4>1, <4>2 DEF Will
    <3>. QED  BY <3>2, <3>3
  <2>. QED  BY <1>3, <1>6, <2>1, <2>2 DEF Will
<1>7. ASSUME w \in On(what, e)  PROVE Will(what, t, base, w)
  <2>1. \A j \in 1..n + 1 : j > n + 1 => w \notin Off(what, t[j])
    OBVIOUS
  <2>. QED  BY <1>3, <1>4, <1>7, <2>1 DEF Will
<1>8. ASSUME Will(what, s, base, w), w \notin Off(what, e)  PROVE Will(what, t, base, w)
  <2>1. CASE w \in base /\ \A j \in 1..n : w \notin Off(what, s[j])
    <3>1. \A j \in 1..n + 1 : w \notin Off(what, t[j])
      BY <1>3, <1>4, <1>8, <2>1
    <3>. QED  BY <1>3, <2>1, <3>1 DEF Will
  <2>2. CASE \E i \in 1..n : w \in On(what, s[i]) /\ \A j \in 1..n : j > i => w \notin Off(what, s[j])
    <3>1. PICK i \in 1..n : w \in On(what, s[i]) /\ \A j \in 1..n : j > i => w \notin Off(what, s[j])
      BY <2>2
    <3>2. w \in On(what, t[i]) /\ \A j \in 1..n + 1 : j > i => w \notin Off(what, t[j])
      BY <1>3, <1>4, <1>8, <3>1
    <3>. QED  BY <1>3, <1>5, <3>2 DEF Will
  <2>. QED  BY <1>3, <1>8, <2>1, <2>2 DEF Will
<1>. QED  BY <1>2, <1>6, <1>7, <1>8

\* Events that all take windows for minimised, or all for shown.
LEMMA WillWithMany ==
  ASSUME NEW what, NEW base, NEW w, NEW s \in Seq(HideEvents), NEW q \in Seq(HideEvents),
         \/ \A k \in DOMAIN q : w \notin Off(what, q[k])
         \/ \A k \in DOMAIN q : w \notin On(what, q[k])
  PROVE  Will(what, s \o q, base, w) <=>
           \/ \E k \in DOMAIN q : w \in On(what, q[k])
           \/ Will(what, s, base, w) /\ \A k \in DOMAIN q : w \notin Off(what, q[k])
<1>1. PICK n \in Nat, m \in Nat : n = Len(s) /\ m = Len(q)
  OBVIOUS
<1>2. PICK t : t = s \o q
  OBVIOUS
<1>3. /\ DOMAIN s = 1..n /\ DOMAIN q = 1..m /\ DOMAIN t = 1..n + m
      /\ \A i \in 1..n : t[i] = s[i]
      /\ \A k \in 1..m : t[n + k] = q[k]
  BY <1>1, <1>2
<1>4. \A i \in 1..n + m : i \in 1..n \/ (i - n \in 1..m /\ i = n + (i - n) /\ i > n)
  OBVIOUS
<1>5. /\ \A i \in 1..n : i \in 1..n + m
      /\ \A k \in 1..m : n + k \in 1..n + m /\ \A i \in 1..n : n + k > i
  OBVIOUS
<1>. HIDE DEF HideEvents
<1>6. \A i \in 1..n + m : i \notin 1..n => \E k \in 1..m : t[i] = q[k]
  BY <1>3, <1>4
<1>7. ASSUME Will(what, t, base, w)
      PROVE  \/ \E k \in 1..m : w \in On(what, q[k])
             \/ Will(what, s, base, w) /\ \A k \in 1..m : w \notin Off(what, q[k])
  <2>1. CASE w \in base /\ \A j \in 1..n + m : w \notin Off(what, t[j])
    <3>1. /\ \A k \in 1..m : w \notin Off(what, q[k])
          /\ \A j \in 1..n : w \notin Off(what, s[j])
      BY <1>3, <1>5, <2>1
    <3>. QED  BY <1>3, <2>1, <3>1 DEF Will
  <2>2. CASE \E i \in 1..n + m : w \in On(what, t[i]) /\ \A j \in 1..n + m : j > i => w \notin Off(what, t[j])
    <3>1. PICK i \in 1..n + m : w \in On(what, t[i]) /\ \A j \in 1..n + m : j > i => w \notin Off(what, t[j])
      BY <2>2
    <3>2. CASE i \notin 1..n
      BY <1>6, <3>1, <3>2
    <3>3. CASE i \in 1..n
      <4>1. w \in On(what, s[i]) /\ \A j \in 1..n : j > i => w \notin Off(what, s[j])
        BY <1>3, <1>5, <3>1, <3>3
      <4>2. \A k \in 1..m : w \notin Off(what, q[k])
        BY <1>3, <1>5, <3>1, <3>3
      <4>. QED  BY <1>3, <3>3, <4>1, <4>2 DEF Will
    <3>. QED  BY <3>2, <3>3
  <2>. QED  BY <1>3, <1>7, <2>1, <2>2 DEF Will
<1>8. ASSUME NEW k \in 1..m, w \in On(what, q[k])  PROVE Will(what, t, base, w)
  <2>1. \A l \in 1..m : w \notin Off(what, q[l])
    BY <1>3, <1>8
  <2>2. w \in On(what, t[n + k]) /\ n + k \in 1..n + m
    BY <1>3, <1>5, <1>8
  <2>3. \A j \in 1..n + m : j > n + k => w \notin Off(what, t[j])
    <3>1. ASSUME NEW j \in 1..n + m, j > n + k  PROVE j \notin 1..n
      BY <3>1
    <3>. QED  BY <1>6, <2>1, <3>1
  <2>. QED  BY <1>3, <2>2, <2>3 DEF Will
<1>9. ASSUME Will(what, s, base, w), \A k \in 1..m : w \notin Off(what, q[k])
      PROVE  Will(what, t, base, w)
  <2>1. CASE w \in base /\ \A j \in 1..n : w \notin Off(what, s[j])
    <3>1. \A j \in 1..n + m : w \notin Off(what, t[j])
      BY <1>3, <1>6, <1>9, <2>1
    <3>. QED  BY <1>3, <2>1, <3>1 DEF Will
  <2>2. CASE \E i \in 1..n : w \in On(what, s[i]) /\ \A j \in 1..n : j > i => w \notin Off(what, s[j])
    <3>1. PICK i \in 1..n : w \in On(what, s[i]) /\ \A j \in 1..n : j > i => w \notin Off(what, s[j])
      BY <2>2
    <3>2. w \in On(what, t[i]) /\ \A j \in 1..n + m : j > i => w \notin Off(what, t[j])
      BY <1>3, <1>6, <1>9, <3>1
    <3>. QED  BY <1>3, <1>5, <3>2 DEF Will
  <2>. QED  BY <1>3, <1>9, <2>1, <2>2 DEF Will
<1>. QED  BY <1>2, <1>3, <1>7, <1>8, <1>9

\* The first event is handled.
LEMMA WillWithoutFirst ==
  ASSUME NEW what, NEW base, NEW after, NEW w, NEW s \in Seq(HideEvents), s # <<>>,
         ~(w \in On(what, s[1]) /\ w \in Off(what, s[1])),
         \/ w \in after <=> w \in On(what, s[1]) \/ (w \in base /\ w \notin Off(what, s[1]))
         \/ /\ w \notin after /\ w \notin base
            /\ \E i \in DOMAIN s : i # 1 /\ (w \in On(what, s[i]) \/ w \in Off(what, s[i]))
  PROVE  Will(what, Tail(s), after, w) <=> Will(what, s, base, w)
<1>1. PICK n \in Nat : n + 1 = Len(s)
  <2>1. Len(s) - 1 \in Nat /\ (Len(s) - 1) + 1 = Len(s)
    OBVIOUS
  <2>. QED  BY <2>1, Zenon
<1>2. PICK t : t = Tail(s)
  OBVIOUS
<1>3. /\ DOMAIN s = 1..n + 1 /\ DOMAIN t = 1..n
      /\ \A i \in 1..n : t[i] = s[i + 1]
  BY <1>1, <1>2
<1>4. /\ \A i \in 1..n : i + 1 \in 1..n + 1 /\ i + 1 > 1
      /\ \A i \in 1..n + 1 : i = 1 \/ (i - 1 \in 1..n /\ i = (i - 1) + 1 /\ i > 1)
      /\ 1 \in 1..n + 1
  OBVIOUS
<1>5. \A i \in 1..n + 1 : i # 1 => \E k \in 1..n : i = k + 1 /\ t[k] = s[i]
  BY <1>3, <1>4
<1>. HIDE DEF HideEvents
<1>6. ASSUME NEW k \in 1..n
      PROVE  /\ w \in On(what, t[k]) <=> w \in On(what, s[k + 1])
             /\ (\A j \in 1..n : j > k => w \notin Off(what, t[j])) <=>
                  (\A j \in 1..n + 1 : j > k + 1 => w \notin Off(what, s[j]))
  <2>1. ASSUME \A j \in 1..n : j > k => w \notin Off(what, t[j]), NEW j \in 1..n + 1, j > k + 1
        PROVE  w \notin Off(what, s[j])
    <3>1. PICK l \in 1..n : j = l + 1 /\ t[l] = s[j]
      <4>1. j # 1
        BY <2>1
      <4>. QED  BY <1>5, <4>1
    <3>2. l > k
      BY <2>1, <3>1
    <3>. QED  BY <2>1, <3>1, <3>2
  <2>2. ASSUME \A j \in 1..n + 1 : j > k + 1 => w \notin Off(what, s[j]), NEW j \in 1..n, j > k
        PROVE  w \notin Off(what, t[j])
    <3>1. j + 1 \in 1..n + 1 /\ j + 1 > k + 1
      BY <2>2
    <3>. QED  BY <1>3, <2>2, <3>1
  <2>. QED  BY <1>3, <2>1, <2>2
<1>7. (\A j \in 1..n : w \notin Off(what, t[j])) <=> (\A j \in 1..n + 1 : j > 1 => w \notin Off(what, s[j]))
  BY <1>3, <1>4, <1>5
<1>8. Will(what, t, after, w) <=>
        \/ w \in after /\ \A j \in 1..n + 1 : j > 1 => w \notin Off(what, s[j])
        \/ \E i \in 1..n + 1 : /\ i # 1 /\ w \in On(what, s[i])
                               /\ \A j \in 1..n + 1 : j > i => w \notin Off(what, s[j])
  <2>1. (\E k \in 1..n : w \in On(what, t[k]) /\ \A j \in 1..n : j > k => w \notin Off(what, t[j])) <=>
        (\E i \in 1..n + 1 : /\ i # 1 /\ w \in On(what, s[i])
                             /\ \A j \in 1..n + 1 : j > i => w \notin Off(what, s[j]))
    <3>1. ASSUME NEW k \in 1..n, w \in On(what, t[k]), \A j \in 1..n : j > k => w \notin Off(what, t[j])
          PROVE  \E i \in 1..n + 1 : /\ i # 1 /\ w \in On(what, s[i])
                                     /\ \A j \in 1..n + 1 : j > i => w \notin Off(what, s[j])
      <4>1. k + 1 \in 1..n + 1 /\ k + 1 # 1
        OBVIOUS
      <4>2. w \in On(what, s[k + 1]) /\ \A j \in 1..n + 1 : j > k + 1 => w \notin Off(what, s[j])
        BY <1>6, <3>1
      <4>. QED  BY <4>1, <4>2
    <3>2. ASSUME NEW i \in 1..n + 1, i # 1, w \in On(what, s[i]),
                 \A j \in 1..n + 1 : j > i => w \notin Off(what, s[j])
          PROVE  \E k \in 1..n : w \in On(what, t[k]) /\ \A j \in 1..n : j > k => w \notin Off(what, t[j])
      <4>1. PICK k \in 1..n : i = k + 1
        BY <1>5, <3>2
      <4>. QED  BY <1>6, <3>2, <4>1
    <3>. QED  BY <3>1, <3>2
  <2>. QED  BY <1>3, <1>7, <2>1 DEF Will
<1>9. Will(what, s, base, w) <=>
        \/ /\ w \in On(what, s[1]) \/ (w \in base /\ w \notin Off(what, s[1]))
           /\ \A j \in 1..n + 1 : j > 1 => w \notin Off(what, s[j])
        \/ \E i \in 1..n + 1 : /\ i # 1 /\ w \in On(what, s[i])
                               /\ \A j \in 1..n + 1 : j > i => w \notin Off(what, s[j])
  BY <1>3, <1>4 DEF Will
<1>10. CASE w \in after <=> w \in On(what, s[1]) \/ (w \in base /\ w \notin Off(what, s[1]))
  BY <1>2, <1>8, <1>9, <1>10
<1>11. ASSUME w \notin after, w \notin base,
              NEW i \in 1..n + 1, i # 1, w \in On(what, s[i]) \/ w \in Off(what, s[i])
       PROVE  Will(what, t, after, w) <=> Will(what, s, base, w)
  <2>1. i > 1
    BY <1>11
  <2>2. (\A j \in 1..n + 1 : j > 1 => w \notin Off(what, s[j])) =>
          /\ w \in On(what, s[i])
          /\ \A j \in 1..n + 1 : j > i => w \notin Off(what, s[j])
    BY <1>11, <2>1
  <2>3. PICK later \in BOOLEAN : later <=> \A j \in 1..n + 1 : j > 1 => w \notin Off(what, s[j])
    OBVIOUS
  <2>4. PICK last \in BOOLEAN : last <=>
          \E k \in 1..n + 1 : /\ k # 1 /\ w \in On(what, s[k])
                              /\ \A j \in 1..n + 1 : j > k => w \notin Off(what, s[j])
    OBVIOUS
  <2>5. Will(what, t, after, w) <=> last
    BY <1>8, <1>11, <2>4, Zenon
  <2>6. Will(what, s, base, w) <=> last \/ (w \in On(what, s[1]) /\ later)
    BY <1>9, <1>11, <2>3, <2>4, Zenon
  <2>7. later => last
    BY <1>11, <2>2, <2>3, <2>4
  <2>. QED  BY <2>5, <2>6, <2>7, Zenon
<1>. QED  BY <1>2, <1>3, <1>10, <1>11
LEMMA OnOrOff ==
  ASSUME NEW e \in HideEvents, NEW what, NEW w
  PROVE  ~(w \in On(what, e) /\ w \in Off(what, e))
BY DEF HideEvents, Listings, Lists, On, Off

LEMMA MinimizedInTurn ==
  ASSUME NEW S \in SUBSET AppWindows, NEW s \in Seq(HideEvents), NEW q,
         q = Hiding!InTurn(S, Hiding!Minimized)
  PROVE  /\ q \in Seq(HideEvents) /\ s \o q \in Seq(HideEvents)
         /\ \A base, w : Will("minimised", s \o q, base, w) <=> w \in S \/ Will("minimised", s, base, w)
         /\ \A base, w : Will("tracked", s \o q, base, w) <=> Will("tracked", s, base, w)
<1>1. PICK n, u : n = Cardinality(S) /\ u = Hiding!SetToSeq(S)
  OBVIOUS
<1>2. n \in Nat /\ DOMAIN u = 1..n /\ (\A i \in 1..n : u[i] \in S) /\ \A w \in S : \E i \in 1..n : u[i] = w
  BY <1>1, EventsInTurn
<1>3. q = [i \in 1..n |-> [kind |-> "WindowMinimized", window |-> u[i]]]
  BY <1>1, <1>2 DEF Hiding!InTurn, Hiding!Minimized
<1>4. \A i \in 1..n : q[i] \in HideEvents
  BY <1>2, <1>3 DEF HideEvents
<1>5. q \in Seq(HideEvents) /\ DOMAIN q = 1..n
  BY <1>2, <1>3, <1>4
<1>6. \A i \in 1..n : /\ On("minimised", q[i]) = {u[i]} /\ Off("minimised", q[i]) = {}
                      /\ On("tracked", q[i]) = {} /\ Off("tracked", q[i]) = {}
  BY <1>3 DEF On, Off, Lists
<1>7. s \o q \in Seq(HideEvents)
  BY <1>5
<1>8. ASSUME NEW base, NEW w
      PROVE  Will("minimised", s \o q, base, w) <=> w \in S \/ Will("minimised", s, base, w)
  <2>1. \A k \in DOMAIN q : w \notin Off("minimised", q[k])
    BY <1>5, <1>6
  <2>2. Will("minimised", s \o q, base, w) <=>
          (\E k \in DOMAIN q : w \in On("minimised", q[k])) \/ Will("minimised", s, base, w)
    BY <1>5, <2>1, WillWithMany
  <2>3. \A k \in DOMAIN q : w \in On("minimised", q[k]) <=> w = u[k]
    BY <1>5, <1>6
  <2>4. (\E k \in DOMAIN q : w \in On("minimised", q[k])) <=> w \in S
    BY <1>2, <1>5, <2>3
  <2>. QED  BY <2>2, <2>4
<1>9. ASSUME NEW base, NEW w
      PROVE  Will("tracked", s \o q, base, w) <=> Will("tracked", s, base, w)
  <2>1. \A k \in DOMAIN q : w \notin Off("tracked", q[k]) /\ w \notin On("tracked", q[k])
    BY <1>5, <1>6
  <2>. QED  BY <1>5, <2>1, WillWithMany
<1>. QED  BY <1>5, <1>7, <1>8, <1>9

LEMMA DeminiaturizedInTurn ==
  ASSUME NEW S \in SUBSET AppWindows, NEW s \in Seq(HideEvents), NEW q,
         q = Hiding!InTurn(S, Hiding!Deminiaturized)
  PROVE  /\ q \in Seq(HideEvents) /\ s \o q \in Seq(HideEvents)
         /\ \A base, w : Will("minimised", s \o q, base, w) <=> w \notin S /\ Will("minimised", s, base, w)
         /\ \A base, w : Will("tracked", s \o q, base, w) <=> Will("tracked", s, base, w)
<1>1. PICK n, u : n = Cardinality(S) /\ u = Hiding!SetToSeq(S)
  OBVIOUS
<1>2. n \in Nat /\ DOMAIN u = 1..n /\ (\A i \in 1..n : u[i] \in S) /\ \A w \in S : \E i \in 1..n : u[i] = w
  BY <1>1, EventsInTurn
<1>3. q = [i \in 1..n |-> [kind |-> "WindowDeminiaturized", window |-> u[i]]]
  BY <1>1, <1>2 DEF Hiding!InTurn, Hiding!Deminiaturized
<1>4. \A i \in 1..n : q[i] \in HideEvents
  BY <1>2, <1>3 DEF HideEvents
<1>5. q \in Seq(HideEvents) /\ DOMAIN q = 1..n
  BY <1>2, <1>3, <1>4
<1>6. \A i \in 1..n : /\ On("minimised", q[i]) = {} /\ Off("minimised", q[i]) = {u[i]}
                      /\ On("tracked", q[i]) = {} /\ Off("tracked", q[i]) = {}
  BY <1>3 DEF On, Off, Lists
<1>7. s \o q \in Seq(HideEvents)
  BY <1>5
<1>8. ASSUME NEW base, NEW w
      PROVE  Will("minimised", s \o q, base, w) <=> w \notin S /\ Will("minimised", s, base, w)
  <2>1. \A k \in DOMAIN q : w \notin On("minimised", q[k])
    BY <1>5, <1>6
  <2>2. Will("minimised", s \o q, base, w) <=>
          Will("minimised", s, base, w) /\ \A k \in DOMAIN q : w \notin Off("minimised", q[k])
    BY <1>5, <2>1, WillWithMany
  <2>3. \A k \in DOMAIN q : w \notin Off("minimised", q[k]) <=> w # u[k]
    BY <1>5, <1>6
  <2>4. (\A k \in DOMAIN q : w \notin Off("minimised", q[k])) <=> w \notin S
    BY <1>2, <1>5, <2>3
  <2>. QED  BY <2>2, <2>4
<1>9. ASSUME NEW base, NEW w
      PROVE  Will("tracked", s \o q, base, w) <=> Will("tracked", s, base, w)
  <2>1. \A k \in DOMAIN q : w \notin Off("tracked", q[k]) /\ w \notin On("tracked", q[k])
    BY <1>5, <1>6
  <2>. QED  BY <1>5, <2>1, WillWithMany
<1>. QED  BY <1>5, <1>7, <1>8, <1>9

\* The reactor handles an event: what it will hold of the windows that the thread knows stays.
LEMMA ReactorTracks ==
  ASSUME HidingInv, Hiding!ReactorStep
  PROVE  HidingInv'
<1>1. PICK s \in Seq(HideEvents) : s = sent
  BY DEF HidingInv, HideTypeOK
<1>2. PICK e \in HideEvents : e = s[1]
  BY <1>1 DEF Hiding!ReactorStep
<1>3. s # <<>> /\ sent' = Tail(s) /\ Head(s) = e /\ Tail(s) \in Seq(HideEvents)
  BY <1>1, <1>2 DEF Hiding!ReactorStep
<1>4. UNCHANGED <<hidden, open, miniaturised, news, isHidden, registered, hiddenByApp, exposed, misread>>
  BY DEF Hiding!ReactorStep, Hiding!world, Hiding!thread
<1>5. /\ e.kind = "WindowMinimized" => minimised' = minimised \cup ({e.window} \cap tracked) /\ tracked' = tracked
      /\ e.kind = "WindowDeminiaturized" => minimised' = minimised \ {e.window} /\ tracked' = tracked
      /\ e.kind = "WindowDestroyed" => minimised' = minimised \ {e.window} /\ tracked' = tracked \ {e.window}
      /\ Lists(e) => minimised' = (minimised \ e.infos) \cup e.mini /\ tracked' = tracked \cup e.infos
  BY <1>1, <1>3 DEF Hiding!ReactorStep, Lists, Hiding!HandleWindowMinimized, Hiding!HandleWindowDeminiaturized,
                    Hiding!HandleWindowDestroyed, Hiding!HandleWindowCreated, Hiding!HandleDiscovery
<1>6. \/ e.kind = "WindowMinimized" /\ ~Lists(e) /\ e.window \in AppWindows
      \/ e.kind = "WindowDeminiaturized" /\ ~Lists(e)
      \/ e.kind = "WindowDestroyed" /\ ~Lists(e)
      \/ /\ Lists(e) /\ e.kind \notin {"WindowMinimized", "WindowDeminiaturized", "WindowDestroyed"}
         /\ e.infos \subseteq AppWindows /\ e.mini \subseteq e.infos
  BY DEF HideEvents, Listings, Lists
<1>7. tracked \subseteq AppWindows /\ minimised \subseteq tracked
  BY DEF HidingInv, HideTypeOK
<1>8. tracked' \subseteq AppWindows /\ minimised' \subseteq tracked'
  BY <1>5, <1>6, <1>7
<1>9. \A w : w \in tracked' <=> w \in On("tracked", e) \/ (w \in tracked /\ w \notin Off("tracked", e))
  BY <1>5, <1>6 DEF On, Off
<1>10. \A w : \/ w \in minimised' <=> w \in On("minimised", e) \/ (w \in minimised /\ w \notin Off("minimised", e))
              \/ w \notin minimised' /\ w \notin tracked /\ e.kind = "WindowMinimized"
  BY <1>5, <1>6, <1>7 DEF On, Off
<1>11. \A w : WillBeTracked(w)' <=> WillBeTracked(w)
  <2>1. ASSUME NEW w  PROVE Will("tracked", Tail(s), tracked', w) <=> Will("tracked", s, tracked, w)
    <3>1. PICK b : b = tracked'
      OBVIOUS
    <3>2. w \in b <=> w \in On("tracked", s[1]) \/ (w \in tracked /\ w \notin Off("tracked", s[1]))
      BY <1>2, <1>9, <3>1
    <3>3. ~(w \in On("tracked", s[1]) /\ w \in Off("tracked", s[1]))
      BY <1>2, OnOrOff
    <3>4. Will("tracked", Tail(s), b, w) <=> Will("tracked", s, tracked, w)
      BY <1>3, <3>2, <3>3, WillWithoutFirst
    <3>. QED  BY <3>1, <3>4
  <2>. QED  BY <1>1, <1>3, <2>1 DEF WillBeTracked, Will
<1>12. ASSUME NEW w \in registered  PROVE WillBeMinimised(w)' <=> WillBeMinimised(w)
  <2>1. PICK b : b = minimised'
    OBVIOUS
  <2>2. ~(w \in On("minimised", s[1]) /\ w \in Off("minimised", s[1]))
    BY <1>2, OnOrOff
  <2>3. CASE w \notin minimised' /\ w \notin tracked /\ e.kind = "WindowMinimized"
    <3>1. Will("tracked", s, tracked, w)
      BY <1>1, <1>12 DEF HidingInv, HideTypeOK, WillBeTracked
    <3>2. PICK i \in DOMAIN s : w \in On("tracked", s[i])
      BY <2>3, <3>1 DEF Will
    <3>3. i # 1
      BY <1>2, <2>3, <3>2 DEF On, Lists
    <3>4. w \in On("minimised", s[i]) \/ w \in Off("minimised", s[i])
      BY <3>2 DEF On, Off
    <3>5. w \notin b /\ w \notin minimised
      BY <1>7, <2>1, <2>3
    <3>6. Will("minimised", Tail(s), b, w) <=> Will("minimised", s, minimised, w)
      BY <1>3, <2>2, <3>3, <3>4, <3>5, WillWithoutFirst
    <3>. QED  BY <1>1, <1>3, <2>1, <3>6 DEF WillBeMinimised, Will
  <2>4. CASE w \in minimised' <=> w \in On("minimised", e) \/ (w \in minimised /\ w \notin Off("minimised", e))
    <3>1. w \in b <=> w \in On("minimised", s[1]) \/ (w \in minimised /\ w \notin Off("minimised", s[1]))
      BY <1>2, <2>1, <2>4
    <3>2. Will("minimised", Tail(s), b, w) <=> Will("minimised", s, minimised, w)
      BY <1>3, <2>2, <3>1, WillWithoutFirst
    <3>. QED  BY <1>1, <1>3, <2>1, <3>2 DEF WillBeMinimised, Will
  <2>. QED  BY <1>10, <2>3, <2>4
<1>13. HideTypeOK'
  BY <1>3, <1>4, <1>8 DEF HidingInv, HideTypeOK
<1>14. WindowsAreTold' /\ LastIsTrue' /\ HidingAlternates'
  BY <1>4 DEF HidingInv, WindowsAreTold, LastIsTrue, HidingAlternates, OfDock, Tells
<1>15. DockIsTold'
  BY <1>4, <1>12 DEF HidingInv, DockIsTold, OfDock, Tells
<1>16. HidingIsTold'
  BY <1>4, <1>12 DEF HidingInv, HidingIsTold, OfApp
<1>17. \A w \in AppWindows : WillBeTracked(w)' <=> w \in registered'
  BY <1>4, <1>11 DEF HidingInv
<1>. QED  BY <1>13, <1>14, <1>15, <1>16, <1>17 DEF HidingInv
-----------------------------------------------------------------------------
(* What the user and the application do. *)

NewsGrow(N) ==
  /\ news' \in Seq(HideNotes) /\ Len(news) \in Nat
  /\ DOMAIN news = 1..Len(news) /\ DOMAIN news' = 1..Len(news')
  /\ \A j \in DOMAIN news : j \in DOMAIN news' /\ news'[j] = news[j]
  /\ \A i \in DOMAIN news' : i \in DOMAIN news \/ (i > Len(news) /\ news'[i] \in N)
  /\ \A n \in N : \E i \in DOMAIN news' : i > Len(news) /\ news'[i] = n

HideRests == UNCHANGED <<isHidden, registered, hiddenByApp, sent, tracked, minimised, exposed, misread>>

LEMMA OneNote ==
  ASSUME HidingInv, NEW n \in HideNotes, news' = Append(news, n)
  PROVE  NewsGrow({n}) /\ Len(news') = Len(news) + 1
<1>0. PICK c \in Seq(HideNotes) : c = news
  BY DEF HidingInv, HideTypeOK
<1>1. PICK d : c = news /\ d = Append(c, n)
  BY <1>0
<1>. HIDE DEF HideNotes
<1>2. /\ d \in Seq(HideNotes) /\ DOMAIN c = 1..Len(c) /\ DOMAIN d = 1..Len(c) + 1 /\ Len(c) \in Nat
      /\ Len(d) = Len(c) + 1
      /\ \A i \in 1..Len(c) : d[i] = c[i]
      /\ d[Len(c) + 1] = n
  BY <1>1
<1>3. \A i \in 1..Len(c) + 1 : i \in 1..Len(c) \/ i = Len(c) + 1
  BY <1>2
<1>4. Len(c) + 1 \in 1..Len(c) + 1 /\ Len(c) + 1 > Len(c) /\ \A i \in 1..Len(c) : i \in 1..Len(c) + 1
  BY <1>2
<1>5. news = c /\ news' = d
  BY <1>1
<1>. QED  BY <1>2, <1>3, <1>4, <1>5 DEF NewsGrow

LEMMA TwoNotes ==
  ASSUME HidingInv, NEW n \in HideNotes, NEW m \in HideNotes, news' = news \o <<n, m>>
  PROVE  NewsGrow({n, m})
<1>0. PICK c \in Seq(HideNotes) : c = news
  BY DEF HidingInv, HideTypeOK
<1>1. PICK d : c = news /\ d = c \o <<n, m>>
  BY <1>0
<1>. HIDE DEF HideNotes
<1>2. /\ d \in Seq(HideNotes) /\ DOMAIN c = 1..Len(c) /\ DOMAIN d = 1..Len(c) + 2 /\ Len(c) \in Nat
      /\ Len(d) = Len(c) + 2
      /\ \A i \in 1..Len(c) : d[i] = c[i]
      /\ d[Len(c) + 1] = n /\ d[Len(c) + 2] = m
  <2>1. PICK b : b = Append(c, n)
    OBVIOUS
  <2>2. /\ b \in Seq(HideNotes) /\ DOMAIN c = 1..Len(c) /\ DOMAIN b = 1..Len(c) + 1 /\ Len(c) \in Nat
        /\ Len(b) = Len(c) + 1 /\ b[Len(c) + 1] = n
        /\ \A i \in 1..Len(c) : b[i] = c[i]
    BY <2>1
  <2>3. d = Append(b, m)
    BY <1>1, <2>1
  <2>4. /\ d \in Seq(HideNotes) /\ DOMAIN d = 1..Len(b) + 1 /\ Len(d) = Len(b) + 1 /\ d[Len(b) + 1] = m
        /\ \A i \in 1..Len(b) : d[i] = b[i]
    BY <2>2, <2>3
  <2>5. \A i \in 1..Len(c) : i \in 1..Len(b) /\ d[i] = c[i]
    BY <2>2, <2>4
  <2>6. Len(c) + 1 \in 1..Len(b) /\ (Len(c) + 1) + 1 = Len(c) + 2
    BY <2>2
  <2>. QED  BY <2>2, <2>4, <2>5, <2>6
<1>3. \A i \in 1..Len(c) + 2 : i \in 1..Len(c) \/ i = Len(c) + 1 \/ i = Len(c) + 2
  BY <1>2
<1>4. /\ Len(c) + 1 \in 1..Len(c) + 2 /\ Len(c) + 1 > Len(c) /\ Len(c) + 2 \in 1..Len(c) + 2
      /\ Len(c) + 2 > Len(c) /\ \A i \in 1..Len(c) : i \in 1..Len(c) + 2
  BY <1>2
<1>5. news = c /\ news' = d
  BY <1>1
<1>. QED  BY <1>2, <1>3, <1>4, <1>5 DEF NewsGrow

\* The application is shown, or was not hidden.
LEMMA ShownAlternates ==
  ASSUME HidingInv, NEW N, NewsGrow(N), isHidden' = isHidden, hidden' = FALSE,
         \A n \in N : n.kind # "ApplicationHidden",
         hidden => \E n \in N : n.kind = "ApplicationShown"
  PROVE  HidingAlternates'
<1>1. HidingAlternates
  BY DEF HidingInv
<1>2. ASSUME NEW i \in DOMAIN news', news'[i].kind = "ApplicationHidden"
      PROVE  i \in DOMAIN news /\ news[i].kind = "ApplicationHidden"
  BY <1>2 DEF NewsGrow
<1>3. ASSUME NEW i \in DOMAIN news', news'[i].kind = "ApplicationHidden"
      PROVE  /\ isHidden => \E k \in DOMAIN news' : k < i /\ news'[k].kind = "ApplicationShown"
             /\ \A j \in DOMAIN news' : i < j /\ news'[j].kind = "ApplicationHidden" =>
                  \E k \in DOMAIN news' : i < k /\ k < j /\ news'[k].kind = "ApplicationShown"
  BY <1>1, <1>2, <1>3 DEF HidingAlternates, NewsGrow
<1>4. isHidden => \E i \in DOMAIN news' : news'[i].kind = "ApplicationShown"
  BY <1>1 DEF HidingAlternates, NewsGrow, HidingInv, HideTypeOK
<1>5. ASSUME NEW i \in DOMAIN news', news'[i].kind = "ApplicationHidden"
      PROVE  \E j \in DOMAIN news' : i < j /\ news'[j].kind = "ApplicationShown"
  <2>1. CASE hidden
    <3>1. PICK n \in N : n.kind = "ApplicationShown"
      BY <2>1
    <3>2. PICK j \in DOMAIN news' : j > Len(news) /\ news'[j] = n
      BY DEF NewsGrow
    <3>3. i < j
      BY <1>2, <1>5, <3>2 DEF NewsGrow
    <3>. QED  BY <3>1, <3>2, <3>3
  <2>2. CASE ~hidden
    BY <1>1, <1>2, <1>5, <2>2 DEF HidingAlternates, NewsGrow
  <2>. QED  BY <2>1, <2>2
<1>. QED  BY <1>3, <1>4, <1>5 DEF HidingAlternates

\* It stays hidden, ...
LEMMA StaysAlternate ==
  ASSUME HidingInv, NEW N, NewsGrow(N), isHidden' = isHidden, hidden, hidden',
         \A n \in N : n.kind \notin {"ApplicationHidden", "ApplicationShown", "WindowDeminiaturized"}
  PROVE  HidingAlternates'
<1>1. HidingAlternates
  BY DEF HidingInv
<1>2. ASSUME NEW i \in DOMAIN news',
             news'[i].kind \in {"ApplicationHidden", "ApplicationShown", "WindowDeminiaturized"}
      PROVE  i \in DOMAIN news /\ news[i] = news'[i]
  BY <1>2 DEF NewsGrow
<1>3. ASSUME NEW i \in DOMAIN news', news'[i].kind = "ApplicationHidden"
      PROVE  /\ isHidden => \E k \in DOMAIN news' : k < i /\ news'[k].kind = "ApplicationShown"
             /\ \A j \in DOMAIN news' : i < j /\ news'[j].kind = "ApplicationHidden" =>
                  \E k \in DOMAIN news' : i < k /\ k < j /\ news'[k].kind = "ApplicationShown"
  <2>1. i \in DOMAIN news /\ news[i].kind = "ApplicationHidden"
    BY <1>2, <1>3
  <2>2. \A j \in DOMAIN news' : news'[j].kind = "ApplicationHidden" =>
          j \in DOMAIN news /\ news[j].kind = "ApplicationHidden"
    BY <1>2
  <2>. QED  BY <1>1, <2>1, <2>2 DEF HidingAlternates, NewsGrow
<1>4. ASSUME NEW i \in DOMAIN news', news'[i].kind \in {"ApplicationShown", "WindowDeminiaturized"}
      PROVE  \E j \in DOMAIN news' : i < j /\ news'[j].kind = "ApplicationHidden"
  <2>1. i \in DOMAIN news /\ news[i].kind \in {"ApplicationShown", "WindowDeminiaturized"}
    BY <1>2, <1>4
  <2>. QED  BY <1>1, <2>1 DEF HidingAlternates, NewsGrow
<1>. QED  BY <1>3, <1>4 DEF HidingAlternates

\* ... or is hidden.
LEMMA HiddenAlternates ==
  ASSUME HidingInv, NEW N, NewsGrow(N), isHidden' = isHidden, ~hidden, hidden' = TRUE,
         Len(news') = Len(news) + 1, N # {}, \A n \in N : n.kind = "ApplicationHidden"
  PROVE  HidingAlternates'
<1>1. HidingAlternates
  BY Zenon DEF HidingInv
<1>2. PICK l \in Nat : l = Len(news)
  BY DEF NewsGrow
<1>3. /\ DOMAIN news = 1..l /\ DOMAIN news' = 1..l + 1 /\ l + 1 \in 1..l + 1
      /\ \A i \in 1..l + 1 : i = l + 1 \/ (i \in 1..l /\ i < l + 1)
      /\ \A i \in 1..l : i \in 1..l + 1 /\ news'[i] = news[i]
  BY <1>2 DEF NewsGrow
<1>4. news'[l + 1].kind = "ApplicationHidden"
  <2>1. PICK n \in N : TRUE
    OBVIOUS
  <2>2. PICK i \in DOMAIN news' : i > l /\ news'[i] = n
    BY <1>2 DEF NewsGrow
  <2>3. i = l + 1
    BY <1>3, <2>2
  <2>. QED  BY <2>1, <2>2, <2>3
<1>5. ASSUME NEW i \in 1..l + 1, news'[i].kind = "ApplicationHidden"
      PROVE  /\ isHidden => \E k \in 1..l + 1 : k < i /\ news'[k].kind = "ApplicationShown"
             /\ \A j \in 1..l + 1 : i < j /\ news'[j].kind = "ApplicationHidden" =>
                  \E k \in 1..l + 1 : i < k /\ k < j /\ news'[k].kind = "ApplicationShown"
  <2>1. CASE i = l + 1
    <3>1. isHidden => \E k \in 1..l : news[k].kind = "ApplicationShown"
      BY <1>1, <1>3 DEF HidingAlternates
    <3>. QED  BY <1>3, <2>1, <3>1
  <2>2. CASE i \in 1..l
    <3>1. news[i].kind = "ApplicationHidden"
      BY <1>3, <1>5, <2>2
    <3>2. isHidden => \E k \in 1..l + 1 : k < i /\ news'[k].kind = "ApplicationShown"
      BY <1>1, <1>3, <2>2, <3>1 DEF HidingAlternates
    <3>3. ASSUME NEW j \in 1..l + 1, i < j, news'[j].kind = "ApplicationHidden"
          PROVE  \E k \in 1..l + 1 : i < k /\ k < j /\ news'[k].kind = "ApplicationShown"
      <4>1. CASE j \in 1..l
        <5>1. PICK k \in 1..l : i < k /\ k < j /\ news[k].kind = "ApplicationShown"
          BY <1>1, <1>3, <2>2, <3>1, <3>3, <4>1 DEF HidingAlternates
        <5>. QED  BY <1>3, <5>1
      <4>2. CASE j = l + 1
        <5>1. PICK k \in 1..l : i < k /\ news[k].kind = "ApplicationShown"
          BY <1>1, <1>3, <2>2, <3>1 DEF HidingAlternates
        <5>. QED  BY <1>3, <4>2, <5>1
      <4>. QED  BY <1>3, <4>1, <4>2
    <3>. QED  BY <3>2, <3>3
  <2>. QED  BY <1>3, <2>1, <2>2
<1>6. ASSUME NEW i \in 1..l + 1, news'[i].kind \in {"ApplicationShown", "WindowDeminiaturized"}
      PROVE  \E j \in 1..l + 1 : i < j /\ news'[j].kind = "ApplicationHidden"
  <2>1. i < l + 1
    BY <1>3, <1>4, <1>6
  <2>. QED  BY <1>3, <1>4, <2>1
<1>7. \A i \in DOMAIN news' : news'[i].kind = "ApplicationHidden" =>
        /\ isHidden' => \E k \in DOMAIN news' : k < i /\ news'[k].kind = "ApplicationShown"
        /\ \A j \in DOMAIN news' : i < j /\ news'[j].kind = "ApplicationHidden" =>
             \E k \in DOMAIN news' : i < k /\ k < j /\ news'[k].kind = "ApplicationShown"
  <2>1. DOMAIN news' = 1..l + 1
    BY <1>3
  <2>. QED  BY <1>5, <2>1
<1>8. \A i \in DOMAIN news' : news'[i].kind \in {"ApplicationShown", "WindowDeminiaturized"} =>
        \E j \in DOMAIN news' : i < j /\ news'[j].kind = "ApplicationHidden"
  BY <1>3, <1>6
<1>. QED  BY <1>7, <1>8, Zenon DEF HidingAlternates

IsOfDock(n, w) == n.kind \in {"WindowMiniaturized", "WindowDeminiaturized"} /\ n.window = w

LEMMA WorldTells ==
  ASSUME HidingInv, HideRests, NEW N, NewsGrow(N),
         hidden' \in BOOLEAN, open' \subseteq AppWindows, miniaturised' \subseteq open',
         HidingAlternates',
         hidden' => hidden \/ \E n \in N : n.kind = "ApplicationHidden",
         \A w \in open \ open' : \E n \in N : n.kind = "WindowDestroyed" /\ n.window = w,
         \A w \in open' \ open : /\ \E n \in N : n.kind = "WindowCreated" /\ n.window = w
                                 /\ w \notin registered
                                 /\ \A i \in DOMAIN news : ~Tells(i, "WindowDestroyed", w),
         \A w \in open', n \in N : ~(n.kind = "WindowDestroyed" /\ n.window = w),
         \A n \in N, w \in AppWindows :
           IsOfDock(n, w) => w \in open' /\ (n.kind = "WindowMiniaturized" <=> w \in miniaturised'),
         \A w \in open' : (w \in miniaturised' <=> w \in miniaturised) \/ \E n \in N : IsOfDock(n, w)
  PROVE  HidingInv'
<1>0. /\ UNCHANGED <<isHidden, registered, hiddenByApp, sent, tracked, minimised, exposed, misread>>
      /\ WindowsAreTold /\ LastIsTrue /\ HidingAlternates /\ DockIsTold /\ HidingIsTold /\ HideTypeOK
  BY DEF HideRests, HidingInv
<1>1. HideTypeOK'
  BY <1>0 DEF HideTypeOK, NewsGrow
<1>2. \A w \in AppWindows : WillBeTracked(w)' <=> w \in registered'
  BY <1>0 DEF HidingInv, WillBeTracked, Will
<1>3. \A w : WillBeMinimised(w)' <=> WillBeMinimised(w)
  BY <1>0 DEF WillBeMinimised, Will
<1>4. ASSUME NEW kind, NEW w, (\E i \in DOMAIN news : Tells(i, kind, w)) \/ \E n \in N : n.kind = kind /\ n.window = w
      PROVE  \E i \in DOMAIN news' : Tells(i, kind, w)'
  BY <1>4 DEF NewsGrow, Tells
<1>5. ASSUME NEW i \in DOMAIN news', NEW kind, NEW w, Tells(i, kind, w)'
      PROVE  (i \in DOMAIN news /\ Tells(i, kind, w)) \/ \E n \in N : n = news'[i] /\ n.kind = kind /\ n.window = w
  BY <1>5 DEF NewsGrow, Tells
<1>6. ASSUME NEW i \in DOMAIN news', NEW w, OfDock(i, w)'
      PROVE  (i \in DOMAIN news /\ OfDock(i, w)) \/ (i > Len(news) /\ \E n \in N : n = news'[i] /\ IsOfDock(n, w))
  BY <1>6 DEF NewsGrow, Tells, OfDock, IsOfDock
<1>7. WindowsAreTold'
  <2>1. ASSUME NEW w \in AppWindows, w \in registered, w \notin open'
        PROVE  \E i \in DOMAIN news' : Tells(i, "WindowDestroyed", w)'
    <3>1. (\E i \in DOMAIN news : Tells(i, "WindowDestroyed", w)) \/ \E n \in N : n.kind = "WindowDestroyed" /\ n.window = w
      BY <1>0, <2>1 DEF WindowsAreTold
    <3>. QED  BY <1>4, <3>1
  <2>2. ASSUME NEW w \in open', w \notin registered
        PROVE  \E i \in DOMAIN news' : Tells(i, "WindowCreated", w)'
    <3>1. (\E i \in DOMAIN news : Tells(i, "WindowCreated", w)) \/ \E n \in N : n.kind = "WindowCreated" /\ n.window = w
      BY <1>0, <2>2 DEF WindowsAreTold
    <3>. QED  BY <1>4, <3>1
  <2>3. ASSUME NEW w \in open', NEW i \in DOMAIN news'  PROVE ~Tells(i, "WindowDestroyed", w)'
    <3>1. \A k \in DOMAIN news : ~Tells(k, "WindowDestroyed", w)
      BY <1>0, <2>3 DEF WindowsAreTold
    <3>2. \A n \in N : ~(n.kind = "WindowDestroyed" /\ n.window = w)
      BY <2>3
    <3>. QED  BY <1>5, <3>1, <3>2
  <2>4. ASSUME NEW w \in AppWindows, w \notin open', NEW i \in DOMAIN news', OfDock(i, w)'
        PROVE  \E j \in DOMAIN news' : i < j /\ Tells(j, "WindowDestroyed", w)'
    <3>1. i \in DOMAIN news /\ OfDock(i, w)
      BY <1>6, <2>4
    <3>2. CASE w \in open
      <4>1. PICK n \in N : n.kind = "WindowDestroyed" /\ n.window = w
        BY <2>4, <3>2
      <4>2. PICK j \in DOMAIN news' : j > Len(news) /\ news'[j] = n
        BY DEF NewsGrow
      <4>3. i < j
        BY <3>1, <4>2 DEF NewsGrow
      <4>. QED  BY <4>1, <4>2, <4>3 DEF Tells
    <3>3. CASE w \notin open
      <4>1. PICK j \in DOMAIN news : i < j /\ Tells(j, "WindowDestroyed", w)
        BY <1>0, <3>1, <3>3 DEF WindowsAreTold
      <4>. QED  BY <4>1 DEF Tells, NewsGrow
    <3>. QED  BY <3>2, <3>3
  <2>5. open' \subseteq AppWindows /\ registered' = registered
    BY <1>0
  <2>. QED  BY <2>1, <2>2, <2>3, <2>4, <2>5 DEF WindowsAreTold
<1>8. LastIsTrue'
  <2>1. SUFFICES ASSUME NEW w \in open', NEW i \in DOMAIN news', OfDock(i, w)',
                        \A j \in DOMAIN news' : i < j => ~OfDock(j, w)'
                 PROVE  news'[i].kind = "WindowMiniaturized" <=> w \in miniaturised'
    BY DEF LastIsTrue
  <2>2. ASSUME NEW n \in N, n = news'[i], IsOfDock(n, w)
        PROVE  news'[i].kind = "WindowMiniaturized" <=> w \in miniaturised'
    BY <2>1, <2>2
  <2>3. CASE i \in DOMAIN news /\ OfDock(i, w)
    <3>1. w \in open
      <4>1. (\E j \in DOMAIN news : i < j /\ Tells(j, "WindowDestroyed", w)) \/ w \in open
        BY <1>0, <2>1, <2>3 DEF WindowsAreTold
      <4>. QED  BY <2>1, <4>1
    <3>2. ASSUME NEW n \in N, IsOfDock(n, w)  PROVE FALSE
      <4>1. PICK j \in DOMAIN news' : j > Len(news) /\ news'[j] = n
        BY DEF NewsGrow
      <4>2. i < j
        BY <2>3, <4>1 DEF NewsGrow
      <4>3. OfDock(j, w)'
        BY <3>2, <4>1 DEF OfDock, Tells, IsOfDock
      <4>. QED  BY <2>1, <4>2, <4>3
    <3>3. w \in miniaturised' <=> w \in miniaturised
      BY <2>1, <3>2
    <3>4. \A j \in DOMAIN news : i < j => ~OfDock(j, w)
      BY <2>1 DEF NewsGrow, OfDock, Tells
    <3>5. news[i].kind = "WindowMiniaturized" <=> w \in miniaturised
      BY <1>0, <2>3, <3>1, <3>4 DEF LastIsTrue
    <3>. QED  BY <2>3, <3>3, <3>5 DEF NewsGrow
  <2>. QED  BY <1>6, <2>1, <2>2, <2>3
<1>9. DockIsTold'
  <2>1. SUFFICES ASSUME NEW w \in registered \cap open', \A i \in DOMAIN news' : ~OfDock(i, w)'
                 PROVE  /\ w \in miniaturised' => WillBeMinimised(w) \/ w \in misread
                        /\ WillBeMinimised(w) => w \in miniaturised' \cup hiddenByApp
    BY <1>0, <1>3 DEF DockIsTold
  <2>2. w \in open
    BY <2>1
  <2>3. \A i \in DOMAIN news : ~OfDock(i, w)
    BY <2>1 DEF NewsGrow, OfDock, Tells
  <2>4. \A n \in N : ~IsOfDock(n, w)
    BY <2>1 DEF NewsGrow, OfDock, Tells, IsOfDock
  <2>5. w \in miniaturised' <=> w \in miniaturised
    BY <2>1, <2>4
  <2>. QED  BY <1>0, <2>1, <2>2, <2>3, <2>5 DEF DockIsTold
<1>10. HidingIsTold'
  <2>1. SUFFICES ASSUME hidden', \A i \in DOMAIN news' : ~OfApp(i)', NEW w \in registered
                 PROVE  WillBeMinimised(w) \/ w \in exposed
    BY <1>0, <1>3 DEF HidingIsTold
  <2>2. \A i \in DOMAIN news : ~OfApp(i)
    BY <2>1 DEF NewsGrow, OfApp
  <2>3. \A n \in N : n.kind # "ApplicationHidden"
    BY <2>1 DEF NewsGrow, OfApp
  <2>. QED  BY <1>0, <2>1, <2>2, <2>3 DEF HidingIsTold
<1>. QED  BY <1>1, <1>2, <1>7, <1>8, <1>9, <1>10 DEF HidingInv

\* Every step of the world: what it does is told.
LEMMA WorldSteps ==
  ASSUME HidingInv,
         \/ Hiding!Hide \/ Hiding!Show
         \/ \E w \in AppWindows : Hiding!Miniaturise(w) \/ Hiding!Restore(w) \/ Hiding!Open(w) \/ Hiding!Close(w)
  PROVE  HidingInv'
<1>0. /\ hidden \in BOOLEAN /\ open \subseteq AppWindows /\ miniaturised \subseteq open
      /\ registered \subseteq AppWindows
  BY DEF HidingInv, HideTypeOK
<1>1. CASE Hiding!Hide
  <2>1. PICK n \in HideNotes : n = [kind |-> "ApplicationHidden"]
    BY DEF HideNotes
  <2>2. PICK N : N = {n}
    OBVIOUS
  <2>3. /\ HideRests /\ ~hidden /\ hidden' = TRUE /\ open' = open /\ miniaturised' = miniaturised
        /\ news' = Append(news, n)
    BY <1>1, <2>1 DEF Hiding!Hide, Hiding!ReactorIdle, Hiding!thread, Hiding!reactor, HideRests
  <2>4. NewsGrow(N) /\ Len(news') = Len(news) + 1
    BY <2>2, <2>3, OneNote
  <2>5. n.kind = "ApplicationHidden"
    BY <2>1
  <2>6. HidingAlternates'
    BY <2>2, <2>3, <2>4, <2>5, HiddenAlternates DEF HideRests
  <2>. HIDE DEF HideNotes
  <2>. QED  BY <1>0, <2>2, <2>3, <2>4, <2>5, <2>6, WorldTells DEF IsOfDock
<1>2. CASE Hiding!Show
  <2>1. PICK n \in HideNotes : n = [kind |-> "ApplicationShown"]
    BY DEF HideNotes
  <2>2. PICK N : N = {n}
    OBVIOUS
  <2>3. /\ HideRests /\ hidden /\ hidden' = FALSE /\ open' = open /\ miniaturised' = miniaturised
        /\ news' = Append(news, n)
    BY <1>2, <2>1 DEF Hiding!Show, Hiding!ReactorIdle, Hiding!thread, Hiding!reactor, HideRests
  <2>4. NewsGrow(N)
    BY <2>2, <2>3, OneNote
  <2>5. n.kind = "ApplicationShown"
    BY <2>1
  <2>6. HidingAlternates'
    BY <2>2, <2>3, <2>4, <2>5, ShownAlternates DEF HideRests
  <2>. QED  BY <1>0, <2>2, <2>3, <2>4, <2>5, <2>6, WorldTells DEF IsOfDock
<1>3. ASSUME NEW w \in AppWindows, Hiding!Miniaturise(w)  PROVE HidingInv'
  <2>1. PICK n \in HideNotes : n = [kind |-> "WindowMiniaturized", window |-> w]
    BY DEF HideNotes, About
  <2>2. PICK N : N = {n}
    OBVIOUS
  <2>3. /\ HideRests /\ ~hidden /\ hidden' = hidden /\ open' = open /\ w \in open
        /\ miniaturised' = miniaturised \cup {w}
        /\ news' = Append(news, n)
    BY <1>3, <2>1 DEF Hiding!Miniaturise, Hiding!ReactorIdle, Hiding!thread, Hiding!reactor, HideRests, Hiding!Note
  <2>4. NewsGrow(N)
    BY <2>2, <2>3, OneNote
  <2>5. n.kind = "WindowMiniaturized" /\ n.window = w
    BY <2>1
  <2>6. hidden' = FALSE
    BY <1>0, <2>3
  <2>7. HidingAlternates'
    BY <2>2, <2>3, <2>4, <2>5, <2>6, ShownAlternates DEF HideRests
  <2>8. /\ \A x \in N, v \in AppWindows :
             IsOfDock(x, v) => v \in open' /\ (x.kind = "WindowMiniaturized" <=> v \in miniaturised')
        /\ \A v \in open' : (v \in miniaturised' <=> v \in miniaturised) \/ \E x \in N : IsOfDock(x, v)
    BY <2>2, <2>3, <2>5 DEF IsOfDock
  <2>. QED  BY <1>0, <2>2, <2>3, <2>4, <2>5, <2>6, <2>7, <2>8, WorldTells
<1>4. ASSUME NEW w \in AppWindows, Hiding!Restore(w)  PROVE HidingInv'
  <2>1. PICK n \in HideNotes : n = [kind |-> "WindowDeminiaturized", window |-> w]
    BY DEF HideNotes, About
  <2>2. PICK m \in HideNotes : m = [kind |-> "ApplicationShown"]
    BY DEF HideNotes
  <2>3. PICK N : N = IF hidden THEN {n, m} ELSE {n}
    OBVIOUS
  <2>4. /\ HideRests /\ hidden' = FALSE /\ open' = open /\ w \in open
        /\ miniaturised' = miniaturised \ {w}
    BY <1>0, <1>4 DEF Hiding!Restore, Hiding!ReactorIdle, Hiding!thread, Hiding!reactor, HideRests
  <2>5. NewsGrow(N)
    <3>1. \/ hidden /\ news' = news \o <<n, m>>
          \/ hidden /\ news' = news \o <<m, n>>
          \/ ~hidden /\ news' = Append(news, n)
      BY <1>4, <2>1, <2>2 DEF Hiding!Restore, Hiding!Note
    <3>2. CASE hidden /\ news' = news \o <<n, m>>
      BY <2>3, <3>2, TwoNotes
    <3>3. CASE hidden /\ news' = news \o <<m, n>>
      <4>1. {m, n} = N
        BY <2>3, <3>3
      <4>2. NewsGrow({m, n})
        BY <3>3, TwoNotes
      <4>. QED  BY <4>1, <4>2
    <3>4. CASE ~hidden /\ news' = Append(news, n)
      BY <2>3, <3>4, OneNote
    <3>. QED  BY <3>1, <3>2, <3>3, <3>4
  <2>6. n.kind = "WindowDeminiaturized" /\ n.window = w /\ m.kind = "ApplicationShown"
    BY <2>1, <2>2
  <2>7. n \in N /\ (\A x \in N : x = n \/ x = m) /\ (hidden => m \in N)
    BY <2>3
  <2>8. HidingAlternates'
    BY <2>4, <2>5, <2>6, <2>7, ShownAlternates DEF HideRests
  <2>9. /\ \A x \in N, v \in AppWindows :
             IsOfDock(x, v) => v \in open' /\ (x.kind = "WindowMiniaturized" <=> v \in miniaturised')
        /\ \A v \in open' : (v \in miniaturised' <=> v \in miniaturised) \/ \E x \in N : IsOfDock(x, v)
        /\ \A x \in N : x.kind # "WindowDestroyed"
    BY <2>4, <2>6, <2>7 DEF IsOfDock
  <2>10. open' \subseteq AppWindows /\ miniaturised' \subseteq open' /\ open \ open' = {} /\ open' \ open = {}
    BY <1>0, <2>4
  <2>. QED  BY <2>4, <2>5, <2>8, <2>9, <2>10, WorldTells
<1>5. ASSUME NEW w \in AppWindows, Hiding!Open(w)  PROVE HidingInv'
  <2>1. PICK n \in HideNotes : n = [kind |-> "WindowCreated", window |-> w]
    BY DEF HideNotes, About
  <2>2. PICK N : N = {n}
    OBVIOUS
  <2>3. /\ HideRests /\ hidden' = hidden /\ open' = open \cup {w} /\ miniaturised' = miniaturised
        /\ w \notin open /\ w \notin registered
        /\ news' = Append(news, n)
        /\ \A i \in DOMAIN news : ~Tells(i, "WindowDestroyed", w)
    BY <1>5, <2>1 DEF Hiding!Open, Hiding!ReactorIdle, Hiding!thread, Hiding!reactor, HideRests, Hiding!Note, Tells
  <2>4. NewsGrow(N)
    BY <2>2, <2>3, OneNote
  <2>5. n.kind = "WindowCreated" /\ n.window = w
    BY <2>1
  <2>6. HidingAlternates'
    <3>1. CASE hidden
      BY <2>2, <2>3, <2>4, <2>5, <3>1, StaysAlternate DEF HideRests
    <3>2. CASE ~hidden
      <4>1. hidden' = FALSE
        BY <1>0, <2>3, <3>2
      <4>. QED  BY <2>2, <2>3, <2>4, <2>5, <3>2, <4>1, ShownAlternates DEF HideRests
    <3>. QED  BY <3>1, <3>2
  <2>7. /\ hidden' \in BOOLEAN /\ open' \subseteq AppWindows /\ miniaturised' \subseteq open'
        /\ open \ open' = {} /\ open' \ open = {w}
    BY <1>0, <2>3
  <2>. QED  BY <2>2, <2>3, <2>4, <2>5, <2>6, <2>7, WorldTells DEF IsOfDock
<1>6. ASSUME NEW w \in AppWindows, Hiding!Close(w)  PROVE HidingInv'
  <2>1. PICK n \in HideNotes : n = [kind |-> "WindowDestroyed", window |-> w]
    BY DEF HideNotes, About
  <2>2. PICK N : N = {n}
    OBVIOUS
  <2>3. /\ HideRests /\ hidden' = hidden /\ open' = open \ {w} /\ miniaturised' = miniaturised \ {w}
        /\ w \in open /\ news' = Append(news, n)
    BY <1>6, <2>1 DEF Hiding!Close, Hiding!ReactorIdle, Hiding!thread, Hiding!reactor, HideRests, Hiding!Note
  <2>4. NewsGrow(N)
    BY <2>2, <2>3, OneNote
  <2>5. n.kind = "WindowDestroyed" /\ n.window = w
    BY <2>1
  <2>6. HidingAlternates'
    <3>1. CASE hidden
      BY <2>2, <2>3, <2>4, <2>5, <3>1, StaysAlternate DEF HideRests
    <3>2. CASE ~hidden
      <4>1. hidden' = FALSE
        BY <1>0, <2>3, <3>2
      <4>. QED  BY <2>2, <2>3, <2>4, <2>5, <3>2, <4>1, ShownAlternates DEF HideRests
    <3>. QED  BY <3>1, <3>2
  <2>7. /\ hidden' \in BOOLEAN /\ open' \subseteq AppWindows /\ miniaturised' \subseteq open'
        /\ open \ open' = {w} /\ open' \ open = {}
        /\ \A v \in open' : v # w /\ (v \in miniaturised' <=> v \in miniaturised)
    BY <1>0, <2>3
  <2>. QED  BY <2>2, <2>3, <2>4, <2>5, <2>6, <2>7, WorldTells DEF IsOfDock
<1>. QED  BY <1>1, <1>2, <1>3, <1>4, <1>5, <1>6
-----------------------------------------------------------------------------
(* The thread. *)

\* The first notification is taken.
NewsShift ==
  /\ news' \in Seq(HideNotes) /\ 1 \in DOMAIN news
  /\ \A i \in DOMAIN news : i >= 1
  /\ \A j \in DOMAIN news' : j \in Nat /\ j + 1 \in DOMAIN news /\ news'[j] = news[j + 1]
  /\ \A i \in DOMAIN news : i # 1 => \E j \in DOMAIN news' : i = j + 1 /\ news'[j] = news[i]

LEMMA FirstNote ==
  ASSUME HidingInv, news # <<>>, news' = Tail(news)
  PROVE  /\ NewsShift /\ Head(news) = news[1] /\ news[1] \in HideNotes
         /\ \A i \in DOMAIN news : i \in Nat
<1>0. PICK c \in Seq(HideNotes) : c = news
  BY DEF HidingInv, HideTypeOK
<1>1. PICK d : c = news /\ d = Tail(c)
  BY <1>0
<1>. HIDE DEF HideNotes
<1>2. PICK l \in Nat : l = Len(c)
  OBVIOUS
<1>3. /\ d \in Seq(HideNotes) /\ DOMAIN c = 1..l /\ l >= 1 /\ DOMAIN d = 1..l - 1
      /\ \A j \in 1..l - 1 : d[j] = c[j + 1]
      /\ Head(c) = c[1] /\ c[1] \in HideNotes
  BY <1>1, <1>2
<1>4. /\ \A j \in 1..l - 1 : j \in Nat /\ j + 1 \in 1..l
      /\ \A i \in 1..l : i \in Nat /\ i >= 1 /\ (i # 1 => i - 1 \in 1..l - 1 /\ i = (i - 1) + 1)
      /\ 1 \in 1..l
  BY <1>3
<1>5. \A i \in 1..l : i # 1 => \E j \in 1..l - 1 : i = j + 1 /\ d[j] = c[i]
  BY <1>3, <1>4
<1>6. news = c /\ news' = d
  BY <1>1
<1>. QED  BY <1>3, <1>4, <1>5, <1>6 DEF NewsShift

\* What the thread must take from a notification for the rest to tell enough.
Heeds(n) ==
  /\ registered' \subseteq AppWindows /\ registered' \ registered \subseteq open
  /\ \A w \in registered \ registered' : n.kind = "WindowDestroyed" /\ n.window = w
  /\ \A w \in AppWindows : n.kind = "WindowDestroyed" /\ n.window = w => w \notin registered'
  /\ \A w \in open : n.kind = "WindowCreated" /\ n.window = w => w \in registered'
  /\ n.kind = "ApplicationHidden" => isHidden'
  /\ n.kind = "ApplicationShown" => ~isHidden'
  /\ n.kind \notin {"ApplicationHidden", "ApplicationShown"} => isHidden' = isHidden

LEMMA RestIsTold ==
  ASSUME HidingInv, NewsShift, NEW n, n = news[1], Heeds(n),
         \A i \in DOMAIN news : i \in Nat,
         UNCHANGED <<hidden, open, miniaturised>>
  PROVE  WindowsAreTold' /\ LastIsTrue' /\ HidingAlternates'
<1>0. /\ WindowsAreTold /\ LastIsTrue /\ HidingAlternates
      /\ open \subseteq AppWindows
  BY DEF HidingInv, HideTypeOK
<1>1. ASSUME NEW i \in DOMAIN news, i # 1
      PROVE  \E j \in DOMAIN news' : i = j + 1 /\ j \in Nat /\ news'[j] = news[i]
  BY <1>1 DEF NewsShift
<1>2. ASSUME NEW j \in DOMAIN news'
      PROVE  j \in Nat /\ j + 1 \in DOMAIN news /\ news'[j] = news[j + 1] /\ j + 1 # 1
  BY DEF NewsShift
<1>3. WindowsAreTold'
  <2>1. ASSUME NEW w \in registered', w \notin open
        PROVE  \E i \in DOMAIN news' : Tells(i, "WindowDestroyed", w)'
    <3>1. w \in registered /\ w \in AppWindows
      BY <2>1 DEF Heeds
    <3>2. PICK i \in DOMAIN news : Tells(i, "WindowDestroyed", w)
      BY <1>0, <2>1, <3>1 DEF WindowsAreTold
    <3>3. i # 1
      BY <2>1, <3>1, <3>2 DEF Heeds, Tells
    <3>. QED  BY <1>1, <3>2, <3>3 DEF Tells
  <2>2. ASSUME NEW w \in open, w \notin registered'
        PROVE  \E i \in DOMAIN news' : Tells(i, "WindowCreated", w)'
    <3>1. w \notin registered
      <4>1. ~Tells(1, "WindowDestroyed", w)
        BY <1>0, <2>2 DEF WindowsAreTold, NewsShift
      <4>. QED  BY <2>2, <4>1 DEF Heeds, Tells
    <3>2. PICK i \in DOMAIN news : Tells(i, "WindowCreated", w)
      BY <1>0, <2>2, <3>1 DEF WindowsAreTold
    <3>3. i # 1
      BY <2>2, <3>2 DEF Heeds, Tells
    <3>. QED  BY <1>1, <3>2, <3>3 DEF Tells
  <2>3. ASSUME NEW w \in open, NEW j \in DOMAIN news'  PROVE ~Tells(j, "WindowDestroyed", w)'
    <3>1. ~Tells(j + 1, "WindowDestroyed", w)
      BY <1>0, <1>2 DEF WindowsAreTold
    <3>. QED  BY <1>2, <3>1 DEF Tells
  <2>4. ASSUME NEW w \in AppWindows, w \notin open, NEW j \in DOMAIN news', OfDock(j, w)'
        PROVE  \E k \in DOMAIN news' : j < k /\ Tells(k, "WindowDestroyed", w)'
    <3>1. j \in Nat /\ j + 1 \in DOMAIN news /\ OfDock(j + 1, w)
      BY <1>2, <2>4 DEF OfDock, Tells
    <3>2. PICK i \in DOMAIN news : j + 1 < i /\ Tells(i, "WindowDestroyed", w)
      BY <1>0, <2>4, <3>1 DEF WindowsAreTold
    <3>3. i # 1
      BY <3>1, <3>2
    <3>4. PICK k \in DOMAIN news' : i = k + 1 /\ k \in Nat /\ news'[k] = news[i]
      BY <1>1, <3>3
    <3>5. j < k
      BY <3>1, <3>2, <3>4
    <3>. QED  BY <3>2, <3>4, <3>5 DEF Tells
  <2>. QED  BY <2>1, <2>2, <2>3, <2>4 DEF WindowsAreTold
<1>4. LastIsTrue'
  <2>1. SUFFICES ASSUME NEW w \in open, NEW j \in DOMAIN news', OfDock(j, w)',
                        \A k \in DOMAIN news' : j < k => ~OfDock(k, w)'
                 PROVE  news'[j].kind = "WindowMiniaturized" <=> w \in miniaturised
    BY DEF LastIsTrue
  <2>2. j \in Nat /\ j + 1 \in DOMAIN news /\ OfDock(j + 1, w) /\ news'[j] = news[j + 1]
    BY <1>2, <2>1 DEF OfDock, Tells
  <2>3. ASSUME NEW i \in DOMAIN news, j + 1 < i  PROVE ~OfDock(i, w)
    <3>1. i # 1
      BY <2>2, <2>3
    <3>2. PICK k \in DOMAIN news' : i = k + 1 /\ k \in Nat /\ news'[k] = news[i]
      BY <1>1, <3>1
    <3>3. j < k
      BY <2>2, <2>3, <3>2
    <3>. QED  BY <2>1, <3>2, <3>3 DEF OfDock, Tells
  <2>. QED  BY <1>0, <2>2, <2>3 DEF LastIsTrue
<1>5. ASSUME NEW j \in DOMAIN news', news'[j].kind = "ApplicationHidden", isHidden'
      PROVE  \E k \in DOMAIN news' : k < j /\ news'[k].kind = "ApplicationShown"
  <2>1. j \in Nat /\ j + 1 \in DOMAIN news /\ news[j + 1].kind = "ApplicationHidden" /\ 1 < j + 1
    BY <1>2, <1>5
  <2>2. PICK i \in DOMAIN news : i < j + 1 /\ i # 1 /\ news[i].kind = "ApplicationShown"
    <3>1. CASE n.kind = "ApplicationHidden"
      <4>1. \E i \in DOMAIN news : 1 < i /\ i < j + 1 /\ news[i].kind = "ApplicationShown"
        BY <1>0, <2>1, <3>1 DEF HidingAlternates, NewsShift
      <4>. QED  BY <4>1
    <3>2. CASE n.kind # "ApplicationHidden"
      <4>1. isHidden /\ n.kind # "ApplicationShown"
        BY <1>5, <3>2 DEF Heeds
      <4>2. \E i \in DOMAIN news : i < j + 1 /\ news[i].kind = "ApplicationShown"
        BY <1>0, <2>1, <4>1 DEF HidingAlternates
      <4>. QED  BY <4>1, <4>2
    <3>. QED  BY <3>1, <3>2
  <2>3. PICK k \in DOMAIN news' : i = k + 1 /\ k \in Nat /\ news'[k] = news[i]
    BY <1>1, <2>2
  <2>4. k < j
    BY <2>1, <2>2, <2>3
  <2>. QED  BY <2>2, <2>3, <2>4
<1>6. ASSUME NEW j \in DOMAIN news', news'[j].kind = "ApplicationHidden",
             NEW l \in DOMAIN news', j < l, news'[l].kind = "ApplicationHidden"
      PROVE  \E k \in DOMAIN news' : j < k /\ k < l /\ news'[k].kind = "ApplicationShown"
  <2>1. /\ j \in Nat /\ j + 1 \in DOMAIN news /\ news[j + 1].kind = "ApplicationHidden"
        /\ l \in Nat /\ l + 1 \in DOMAIN news /\ news[l + 1].kind = "ApplicationHidden"
        /\ j + 1 < l + 1
    BY <1>2, <1>6
  <2>2. PICK i \in DOMAIN news : j + 1 < i /\ i < l + 1 /\ news[i].kind = "ApplicationShown"
    BY <1>0, <2>1 DEF HidingAlternates
  <2>3. i # 1
    BY <2>1, <2>2
  <2>4. PICK k \in DOMAIN news' : i = k + 1 /\ k \in Nat /\ news'[k] = news[i]
    BY <1>1, <2>3
  <2>5. j < k /\ k < l
    BY <2>1, <2>2, <2>4
  <2>. QED  BY <2>2, <2>4, <2>5
<1>7. ASSUME NEW late, NEW j \in DOMAIN news',
             \E i \in DOMAIN news : j + 1 < i /\ news[i].kind = late
      PROVE  \E k \in DOMAIN news' : j < k /\ news'[k].kind = late
  <2>1. PICK i \in DOMAIN news : j + 1 < i /\ news[i].kind = late
    BY <1>7
  <2>2. i # 1 /\ j \in Nat
    BY <1>2, <2>1
  <2>3. PICK k \in DOMAIN news' : i = k + 1 /\ k \in Nat /\ news'[k] = news[i]
    BY <1>1, <2>2
  <2>4. j < k
    BY <2>1, <2>2, <2>3
  <2>. QED  BY <2>1, <2>3, <2>4
<1>8. ASSUME hidden, NEW j \in DOMAIN news', news'[j].kind \in {"ApplicationShown", "WindowDeminiaturized"}
      PROVE  \E k \in DOMAIN news' : j < k /\ news'[k].kind = "ApplicationHidden"
  <2>1. \E i \in DOMAIN news : j + 1 < i /\ news[i].kind = "ApplicationHidden"
    BY <1>0, <1>2, <1>8 DEF HidingAlternates
  <2>. QED  BY <1>7, <2>1
<1>9. ASSUME ~hidden, NEW j \in DOMAIN news', news'[j].kind = "ApplicationHidden"
      PROVE  \E k \in DOMAIN news' : j < k /\ news'[k].kind = "ApplicationShown"
  <2>1. \E i \in DOMAIN news : j + 1 < i /\ news[i].kind = "ApplicationShown"
    BY <1>0, <1>2, <1>9 DEF HidingAlternates
  <2>. QED  BY <1>7, <2>1
<1>10. ASSUME ~hidden, isHidden'
       PROVE  \E k \in DOMAIN news' : news'[k].kind = "ApplicationShown"
  <2>1. PICK i \in DOMAIN news : i # 1 /\ news[i].kind = "ApplicationShown"
    <3>1. CASE n.kind = "ApplicationHidden"
      <4>1. \E i \in DOMAIN news : 1 < i /\ news[i].kind = "ApplicationShown"
        BY <1>0, <1>10, <3>1 DEF HidingAlternates, NewsShift
      <4>. QED  BY <4>1
    <3>2. CASE n.kind # "ApplicationHidden"
      <4>1. isHidden /\ n.kind # "ApplicationShown"
        BY <1>10, <3>2 DEF Heeds
      <4>2. \E i \in DOMAIN news : news[i].kind = "ApplicationShown"
        BY <1>0, <1>10, <4>1 DEF HidingAlternates
      <4>. QED  BY <4>1, <4>2
    <3>. QED  BY <3>1, <3>2
  <2>. QED  BY <1>1, <2>1
<1>11. /\ hidden' => \A j \in DOMAIN news' :
            news'[j].kind \in {"ApplicationShown", "WindowDeminiaturized"} =>
              \E k \in DOMAIN news' : j < k /\ news'[k].kind = "ApplicationHidden"
       /\ ~hidden' =>
            /\ isHidden' => \E k \in DOMAIN news' : news'[k].kind = "ApplicationShown"
            /\ \A j \in DOMAIN news' : news'[j].kind = "ApplicationHidden" =>
                 \E k \in DOMAIN news' : j < k /\ news'[k].kind = "ApplicationShown"
  BY <1>8, <1>9, <1>10
<1>12. \A i \in DOMAIN news' : news'[i].kind = "ApplicationHidden" =>
         /\ isHidden' => \E k \in DOMAIN news' : k < i /\ news'[k].kind = "ApplicationShown"
         /\ \A j \in DOMAIN news' : i < j /\ news'[j].kind = "ApplicationHidden" =>
              \E k \in DOMAIN news' : i < k /\ k < j /\ news'[k].kind = "ApplicationShown"
  BY <1>5, <1>6
<1>13. HidingAlternates'
  BY <1>11, <1>12, Zenon DEF HidingAlternates
<1>. QED  BY <1>3, <1>4, <1>13

\* What a listing tells, after the announcements of new windows.
LEMMA ListingTells ==
  ASSUME HidingInv, NEW D \in SUBSET AppWindows, NEW S \in SUBSET AppWindows, NEW M \in SUBSET S,
         NEW kind \in {"WindowCreated", "WindowsDiscovered"},
         sent' = (sent \o Hiding!Announcements(D)) \o <<Hiding!Listed(kind, S, M)>>,
         UNCHANGED <<tracked, minimised>>
  PROVE  /\ sent' \in Seq(HideEvents)
         /\ \A w : WillBeTracked(w)' <=> w \in S \/ WillBeTracked(w)
         /\ \A w : WillBeMinimised(w)' <=>
              w \in M \/ (w \notin S /\ ((isHidden /\ w \in D) \/ WillBeMinimised(w)))
<1>1. PICK s \in Seq(HideEvents) : s = sent
  BY DEF HidingInv, HideTypeOK
<1>2. PICK e \in HideEvents : e = [kind |-> kind, infos |-> S, mini |-> M]
  BY DEF HideEvents, Listings
<1>3. PICK q : q = Hiding!Announcements(D)
  OBVIOUS
<1>4. isHidden \in BOOLEAN
  BY DEF HidingInv, HideTypeOK
<1>5. /\ s \o q \in Seq(HideEvents)
      /\ \A base, w : Will("minimised", s \o q, base, w) <=> (isHidden /\ w \in D) \/ Will("minimised", s, base, w)
      /\ \A base, w : Will("tracked", s \o q, base, w) <=> Will("tracked", s, base, w)
  <2>1. CASE isHidden
    <3>1. q = Hiding!InTurn(D, Hiding!Minimized)
      BY <1>3, <2>1 DEF Hiding!Announcements
    <3>. QED  BY <2>1, <3>1, MinimizedInTurn
  <2>2. CASE ~isHidden
    <3>1. q = <<>>
      BY <1>3, <2>2 DEF Hiding!Announcements
    <3>2. s \o q = s
      BY <3>1
    <3>. QED  BY <2>2, <3>2
  <2>. QED  BY <2>1, <2>2
<1>6. PICK b \in Seq(HideEvents) : b = s \o q
  BY <1>5
<1>7. sent' = Append(b, e)
  <2>1. sent' = b \o <<e>>
    BY <1>1, <1>2, <1>3, <1>6 DEF Hiding!Listed
  <2>. HIDE DEF HideEvents
  <2>2. b \o <<e>> = Append(b, e)
    OBVIOUS
  <2>. QED  BY <2>1, <2>2
<1>8. Append(b, e) \in Seq(HideEvents)
  <2>. HIDE DEF HideEvents
  <2>. QED  OBVIOUS
<1>9. /\ On("tracked", e) = S /\ Off("tracked", e) = {}
      /\ On("minimised", e) = M /\ Off("minimised", e) = S \ M
  BY <1>2 DEF On, Off, Lists
<1>10. ASSUME NEW w  PROVE WillBeTracked(w)' <=> w \in S \/ WillBeTracked(w)
  <2>1. Will("tracked", Append(b, e), tracked, w) <=> w \in On("tracked", e) \/ (Will("tracked", b, tracked, w) /\ w \notin Off("tracked", e))
    BY <1>9, WillWithOne
  <2>2. Will("tracked", b, tracked, w) <=> Will("tracked", s, tracked, w)
    BY <1>5, <1>6
  <2>. QED  BY <1>1, <1>7, <1>9, <2>1, <2>2 DEF WillBeTracked, Will
<1>11. ASSUME NEW w
       PROVE  WillBeMinimised(w)' <=> w \in M \/ (w \notin S /\ ((isHidden /\ w \in D) \/ WillBeMinimised(w)))
  <2>1. Will("minimised", Append(b, e), minimised, w) <=> w \in On("minimised", e) \/ (Will("minimised", b, minimised, w) /\ w \notin Off("minimised", e))
    BY <1>9, WillWithOne
  <2>2. Will("minimised", b, minimised, w) <=> (isHidden /\ w \in D) \/ Will("minimised", s, minimised, w)
    BY <1>5, <1>6
  <2>3. WillBeMinimised(w)' <=> Will("minimised", Append(b, e), minimised, w)
    BY <1>7 DEF WillBeMinimised, Will
  <2>4. WillBeMinimised(w) <=> Will("minimised", s, minimised, w)
    BY <1>1 DEF WillBeMinimised
  <2>. QED  BY <1>9, <2>1, <2>2, <2>3, <2>4
<1>. QED  BY <1>7, <1>8, <1>10, <1>11

\* One more event.
LEMMA EventTells ==
  ASSUME HidingInv, NEW e \in HideEvents, sent' = Append(sent, e), UNCHANGED <<tracked, minimised>>
  PROVE  /\ sent' \in Seq(HideEvents)
         /\ \A w : WillBeTracked(w)' <=> w \in On("tracked", e) \/ (WillBeTracked(w) /\ w \notin Off("tracked", e))
         /\ \A w : WillBeMinimised(w)' <=>
              w \in On("minimised", e) \/ (WillBeMinimised(w) /\ w \notin Off("minimised", e))
<1>1. PICK s \in Seq(HideEvents) : s = sent
  BY DEF HidingInv, HideTypeOK
<1>2. sent' = Append(s, e)
  BY <1>1
<1>3. Append(s, e) \in Seq(HideEvents)
  <2>. HIDE DEF HideEvents
  <2>. QED  OBVIOUS
<1>4. ASSUME NEW what, NEW base, NEW w
      PROVE  Will(what, Append(s, e), base, w) <=> w \in On(what, e) \/ (Will(what, s, base, w) /\ w \notin Off(what, e))
  BY OnOrOff, WillWithOne
<1>5. ASSUME NEW w
      PROVE  /\ WillBeTracked(w)' <=> Will("tracked", Append(s, e), tracked, w)
             /\ WillBeMinimised(w)' <=> Will("minimised", Append(s, e), minimised, w)
             /\ WillBeTracked(w) <=> Will("tracked", s, tracked, w)
             /\ WillBeMinimised(w) <=> Will("minimised", s, minimised, w)
  BY <1>1, <1>2 DEF WillBeTracked, WillBeMinimised, Will
<1>. QED  BY <1>2, <1>3, <1>4, <1>5

\* refresh_visible_windows
LEMMA RefreshTells ==
  ASSUME HidingInv, Hiding!RefreshVisibleWindows
  PROVE  HidingInv'
<1>0. /\ HideTypeOK /\ WindowsAreTold /\ LastIsTrue /\ HidingAlternates /\ HidingIsTold
      /\ UNCHANGED <<hidden, open, miniaturised, news, isHidden, tracked, minimised, misread>>
      /\ registered' = registered \cup open
      /\ hiddenByApp' = IF isHidden THEN hiddenByApp \cup (open \ registered) ELSE hiddenByApp
      /\ exposed' = IF hidden THEN exposed \cup open ELSE exposed
  BY DEF HidingInv, Hiding!RefreshVisibleWindows, Hiding!world, Hiding!reactor
<1>1. PICK D, S, M : D = open \ registered /\ S = open /\ M = miniaturised
  OBVIOUS
<1>11. D \in SUBSET AppWindows /\ S \in SUBSET AppWindows /\ M \in SUBSET S
  BY <1>0, <1>1 DEF HideTypeOK
<1>2. PICK kind \in {"WindowCreated", "WindowsDiscovered"} : kind = "WindowsDiscovered"
  OBVIOUS
<1>3. sent' = (sent \o Hiding!Announcements(D)) \o <<Hiding!Listed(kind, S, M)>>
  BY <1>1, <1>2 DEF Hiding!RefreshVisibleWindows
<1>4. /\ sent' \in Seq(HideEvents)
      /\ \A w : WillBeTracked(w)' <=> w \in S \/ WillBeTracked(w)
      /\ \A w : WillBeMinimised(w)' <=>
           w \in M \/ (w \notin S /\ ((isHidden /\ w \in D) \/ WillBeMinimised(w)))
  BY <1>0, <1>3, <1>11, ListingTells
<1>5. HideTypeOK'
  BY <1>0, <1>4 DEF HideTypeOK
<1>6. WindowsAreTold'
  BY <1>0 DEF WindowsAreTold, Tells, OfDock
<1>7. LastIsTrue' /\ HidingAlternates'
  BY <1>0 DEF LastIsTrue, HidingAlternates, Tells, OfDock
<1>8. \A w \in AppWindows : WillBeTracked(w)' <=> w \in registered'
  BY <1>0, <1>1, <1>4 DEF HidingInv
<1>9. DockIsTold'
  BY <1>0, <1>1, <1>4 DEF DockIsTold
<1>10. HidingIsTold'
  <2>1. SUFFICES ASSUME hidden, \A i \in DOMAIN news : ~OfApp(i), NEW w \in registered'
                 PROVE  WillBeMinimised(w)' \/ w \in exposed'
    BY <1>0 DEF HidingIsTold, OfApp
  <2>2. CASE w \in open
    BY <1>0, <2>1, <2>2
  <2>3. CASE w \notin open
    <3>1. WillBeMinimised(w) \/ w \in exposed
      BY <1>0, <2>1, <2>3 DEF HidingIsTold
    <3>. QED  BY <1>0, <1>1, <1>4, <2>1, <2>3, <3>1
  <2>. QED  BY <2>2, <2>3
<1>. QED  BY <1>5, <1>6, <1>7, <1>8, <1>9, <1>10 DEF HidingInv

Takes(n) ==
  /\ NewsShift /\ n = news[1] /\ \A i \in DOMAIN news : i \in Nat
  /\ UNCHANGED <<hidden, open, miniaturised, tracked, minimised>>

\* What is still to be told after a notification was told before it.
LEMMA NothingNew ==
  ASSUME NEW n, Takes(n)
  PROVE  /\ \A w : (\A j \in DOMAIN news' : ~OfDock(j, w)') => \A i \in DOMAIN news : i # 1 => ~OfDock(i, w)
         /\ (\A j \in DOMAIN news' : ~OfApp(j)') => \A i \in DOMAIN news : i # 1 => ~OfApp(i)
         /\ HidingInv /\ hidden /\ n.kind \in {"ApplicationShown", "WindowDeminiaturized"} =>
              ~ \A j \in DOMAIN news' : ~OfApp(j)'
<1>1. \A i \in DOMAIN news : i # 1 => \E j \in DOMAIN news' : news'[j] = news[i]
  BY DEF Takes, NewsShift
<1>2. ASSUME HidingInv, hidden, n.kind \in {"ApplicationShown", "WindowDeminiaturized"},
             \A j \in DOMAIN news' : ~OfApp(j)'
      PROVE  FALSE
  <2>1. \E i \in DOMAIN news : 1 < i /\ news[i].kind = "ApplicationHidden"
    BY <1>2 DEF HidingInv, HidingAlternates, Takes, NewsShift
  <2>2. PICK i \in DOMAIN news : i # 1 /\ news[i].kind = "ApplicationHidden"
    BY <2>1
  <2>3. PICK j \in DOMAIN news' : news'[j] = news[i]
    BY <1>1, <2>2
  <2>. QED  BY <1>2, <2>2, <2>3 DEF OfApp
<1>3. ASSUME NEW w, \A j \in DOMAIN news' : ~OfDock(j, w)', NEW i \in DOMAIN news, i # 1
      PROVE  ~OfDock(i, w)
  BY <1>1, <1>3 DEF OfDock, Tells
<1>4. ASSUME \A j \in DOMAIN news' : ~OfApp(j)', NEW i \in DOMAIN news, i # 1
      PROVE  ~OfApp(i)
  BY <1>1, <1>4 DEF OfApp
<1>. QED  BY <1>2, <1>3, <1>4

LEMMA TakenIsTold ==
  ASSUME HidingInv, NEW n, Takes(n), Heeds(n)
  PROVE  WindowsAreTold' /\ LastIsTrue' /\ HidingAlternates'
BY RestIsTold DEF Takes

\* on_application_hidden
LEMMA HiddenIsHeard ==
  ASSUME HidingInv, NEW n \in HideNotes, Takes(n), n.kind = "ApplicationHidden", Hiding!OnApplicationHidden
  PROVE  HidingInv'
<1>0. HideTypeOK /\ HidingAlternates /\ NewsShift
  BY DEF HidingInv, Takes
<1>1. ~isHidden
  BY <1>0 DEF HidingAlternates, Takes, NewsShift
<1>2. hiddenByApp = {}
  BY <1>0, <1>1 DEF HideTypeOK
<1>3. /\ isHidden' = TRUE /\ hiddenByApp' = registered /\ registered' = registered /\ misread' = misread
      /\ sent' = sent \o Hiding!InTurn(registered, Hiding!Minimized)
      /\ UNCHANGED <<hidden, open, miniaturised, tracked, minimised>>
  <2>1. registered \ hiddenByApp = registered
    BY <1>2
  <2>. QED  BY <1>1, <2>1 DEF Hiding!OnApplicationHidden, Takes
<1>4. PICK s \in Seq(HideEvents) : s = sent
  BY <1>0 DEF HideTypeOK
<1>5. PICK S \in SUBSET AppWindows : S = registered
  BY <1>0 DEF HideTypeOK
<1>6. PICK q : q = Hiding!InTurn(S, Hiding!Minimized)
  OBVIOUS
<1>7. /\ s \o q \in Seq(HideEvents)
      /\ \A base, w : Will("minimised", s \o q, base, w) <=> w \in S \/ Will("minimised", s, base, w)
      /\ \A base, w : Will("tracked", s \o q, base, w) <=> Will("tracked", s, base, w)
  BY <1>6, MinimizedInTurn
<1>8. sent' = s \o q
  BY <1>3, <1>4, <1>5, <1>6
<1>9. /\ \A w : WillBeTracked(w)' <=> WillBeTracked(w)
      /\ \A w : WillBeMinimised(w)' <=> w \in registered \/ WillBeMinimised(w)
  <2>1. ASSUME NEW w
        PROVE  /\ WillBeTracked(w)' <=> Will("tracked", s \o q, tracked, w)
               /\ WillBeMinimised(w)' <=> Will("minimised", s \o q, minimised, w)
               /\ WillBeTracked(w) <=> Will("tracked", s, tracked, w)
               /\ WillBeMinimised(w) <=> Will("minimised", s, minimised, w)
    BY <1>3, <1>4, <1>8 DEF WillBeTracked, WillBeMinimised, Will
  <2>. QED  BY <1>5, <1>7, <2>1
<1>10. Heeds(n)
  BY <1>0, <1>3 DEF Heeds, HideTypeOK
<1>11. HideTypeOK'
  BY <1>0, <1>3, <1>7, <1>8 DEF HideTypeOK, NewsShift
<1>12. WindowsAreTold' /\ LastIsTrue' /\ HidingAlternates'
  BY <1>10, TakenIsTold
<1>13. DockIsTold' /\ HidingIsTold'
  BY <1>3, <1>9 DEF DockIsTold, HidingIsTold
<1>14. \A w \in AppWindows : WillBeTracked(w)' <=> w \in registered'
  BY <1>3, <1>9 DEF HidingInv
<1>. QED  BY <1>11, <1>12, <1>13, <1>14 DEF HidingInv

\* on_application_shown
LEMMA ShownIsHeard ==
  ASSUME HidingInv, NEW n \in HideNotes, Takes(n), n.kind = "ApplicationShown", Hiding!OnApplicationShown
  PROVE  HidingInv'
<1>0. /\ HideTypeOK /\ DockIsTold /\ HidingIsTold /\ NewsShift
      /\ UNCHANGED <<hidden, open, miniaturised, tracked, minimised>>
  BY DEF HidingInv, Takes
<1>1. ASSUME NEW w, \A j \in DOMAIN news' : ~OfDock(j, w)'  PROVE \A i \in DOMAIN news : ~OfDock(i, w)
  <2>1. \A i \in DOMAIN news : i # 1 => ~OfDock(i, w)
    BY <1>1, NothingNew
  <2>. QED  BY <2>1 DEF Takes, OfDock, Tells
<1>2. HidingIsTold'
  <2>1. ~(hidden /\ \A j \in DOMAIN news' : ~OfApp(j)')
    BY NothingNew
  <2>. QED  BY <1>0, <2>1 DEF HidingIsTold
<1>3. CASE ~isHidden
  <2>1. UNCHANGED <<isHidden, registered, hiddenByApp, sent, exposed, misread>>
    BY <1>3 DEF Hiding!OnApplicationShown, Hiding!thread
  <2>2. /\ \A w : WillBeTracked(w)' <=> WillBeTracked(w)
        /\ \A w : WillBeMinimised(w)' <=> WillBeMinimised(w)
    BY <1>0, <2>1 DEF WillBeTracked, WillBeMinimised, Will
  <2>3. Heeds(n)
    BY <1>0, <1>3, <2>1 DEF Heeds, HideTypeOK
  <2>4. HideTypeOK'
    BY <1>0, <2>1 DEF HideTypeOK, NewsShift
  <2>5. WindowsAreTold' /\ LastIsTrue' /\ HidingAlternates'
    BY <2>3, TakenIsTold
  <2>6. DockIsTold'
    BY <1>0, <1>1, <2>1, <2>2 DEF DockIsTold
  <2>7. \A w \in AppWindows : WillBeTracked(w)' <=> w \in registered'
    BY <2>1, <2>2 DEF HidingInv
  <2>. QED  BY <1>2, <2>4, <2>5, <2>6, <2>7 DEF HidingInv
<1>4. CASE isHidden
  <2>1. PICK failing \in SUBSET (hiddenByApp \cap miniaturised) :
          /\ misread' = misread \cup failing
          /\ isHidden' = FALSE /\ hiddenByApp' = {}
          /\ sent' = sent \o Hiding!InTurn(Hiding!Restorable(hiddenByApp, failing), Hiding!Deminiaturized)
          /\ registered' = registered /\ exposed' = exposed
    BY <1>4 DEF Hiding!OnApplicationShown
  <2>2. PICK R : R = hiddenByApp \ (miniaturised \ failing)
    OBVIOUS
  <2>3. R \in SUBSET AppWindows
    BY <1>0, <2>2 DEF HideTypeOK
  <2>4. PICK s \in Seq(HideEvents) : s = sent
    BY <1>0 DEF HideTypeOK
  <2>5. PICK q : q = Hiding!InTurn(R, Hiding!Deminiaturized)
    OBVIOUS
  <2>6. /\ s \o q \in Seq(HideEvents)
        /\ \A base, w : Will("minimised", s \o q, base, w) <=> w \notin R /\ Will("minimised", s, base, w)
        /\ \A base, w : Will("tracked", s \o q, base, w) <=> Will("tracked", s, base, w)
    BY <2>3, <2>5, DeminiaturizedInTurn
  <2>7. sent' = s \o q
    BY <2>1, <2>2, <2>4, <2>5 DEF Hiding!Restorable
  <2>8. /\ \A w : WillBeTracked(w)' <=> WillBeTracked(w)
        /\ \A w : WillBeMinimised(w)' <=> w \notin R /\ WillBeMinimised(w)
    <3>1. ASSUME NEW w
          PROVE  /\ WillBeTracked(w)' <=> Will("tracked", s \o q, tracked, w)
                 /\ WillBeMinimised(w)' <=> Will("minimised", s \o q, minimised, w)
                 /\ WillBeTracked(w) <=> Will("tracked", s, tracked, w)
                 /\ WillBeMinimised(w) <=> Will("minimised", s, minimised, w)
      BY <1>0, <2>4, <2>7 DEF WillBeTracked, WillBeMinimised, Will
    <3>. QED  BY <2>6, <3>1
  <2>9. Heeds(n)
    BY <1>0, <2>1 DEF Heeds, HideTypeOK
  <2>10. HideTypeOK'
    BY <1>0, <2>1, <2>6, <2>7 DEF HideTypeOK, NewsShift
  <2>11. WindowsAreTold' /\ LastIsTrue' /\ HidingAlternates'
    BY <2>9, TakenIsTold
  <2>12. DockIsTold'
    <3>0. registered' = registered /\ open' = open /\ miniaturised' = miniaturised /\ hiddenByApp' = {}
      BY <1>0, <2>1
    <3>1. SUFFICES ASSUME NEW w \in registered \cap open, \A j \in DOMAIN news' : ~OfDock(j, w)'
                   PROVE  /\ w \in miniaturised => WillBeMinimised(w)' \/ w \in misread'
                          /\ WillBeMinimised(w)' => w \in miniaturised
      BY <3>0 DEF DockIsTold
    <3>2. /\ w \in miniaturised => WillBeMinimised(w) \/ w \in misread
          /\ WillBeMinimised(w) => w \in miniaturised \cup hiddenByApp
      BY <1>0, <1>1, <3>1 DEF DockIsTold
    <3>. QED  BY <2>1, <2>2, <2>8, <3>2
  <2>13. \A w \in AppWindows : WillBeTracked(w)' <=> w \in registered'
    BY <2>1, <2>8 DEF HidingInv
  <2>. QED  BY <1>2, <2>10, <2>11, <2>12, <2>13 DEF HidingInv
<1>. QED  BY <1>3, <1>4

\* WindowMiniaturized and WindowDeminiaturized
LEMMA DockIsHeard ==
  ASSUME HidingInv, NEW n \in HideNotes, Takes(n), NEW minimises \in BOOLEAN,
         n.kind = IF minimises THEN "WindowMiniaturized" ELSE "WindowDeminiaturized",
         Hiding!OnDock(n.window, IF minimises THEN Hiding!Minimized(n.window) ELSE Hiding!Deminiaturized(n.window))
  PROVE  HidingInv'
<1>0. /\ HideTypeOK /\ DockIsTold /\ HidingIsTold /\ LastIsTrue /\ NewsShift
      /\ UNCHANGED <<hidden, open, miniaturised, tracked, minimised>>
  BY DEF HidingInv, Takes
<1>1. n.window \in AppWindows
  BY DEF HideNotes, About
<1>2. PICK w \in AppWindows : w = n.window
  BY <1>1
<1>3. PICK e \in HideEvents :
        e = [kind |-> IF minimises THEN "WindowMinimized" ELSE "WindowDeminiaturized", window |-> w]
  BY DEF HideEvents
<1>4. /\ hiddenByApp' = hiddenByApp \ {w} /\ sent' = Append(sent, e)
      /\ UNCHANGED <<isHidden, registered, exposed, misread>>
  BY <1>2, <1>3 DEF Hiding!OnDock, Hiding!Minimized, Hiding!Deminiaturized
<1>5. /\ On("tracked", e) = {} /\ Off("tracked", e) = {}
      /\ On("minimised", e) = IF minimises THEN {w} ELSE {}
      /\ Off("minimised", e) = IF minimises THEN {} ELSE {w}
  BY <1>3 DEF On, Off, Lists
<1>6. /\ sent' \in Seq(HideEvents)
      /\ \A v : WillBeTracked(v)' <=> WillBeTracked(v)
      /\ \A v : v # w => (WillBeMinimised(v)' <=> WillBeMinimised(v))
      /\ WillBeMinimised(w)' <=> minimises
      /\ minimises => \A v : WillBeMinimised(v) => WillBeMinimised(v)'
  BY <1>0, <1>4, <1>5, EventTells
<1>7. n.kind \in {"WindowMiniaturized", "WindowDeminiaturized"} /\ (n.kind = "WindowMiniaturized" <=> minimises)
  OBVIOUS
<1>8. Heeds(n)
  BY <1>0, <1>4, <1>7 DEF Heeds, HideTypeOK
<1>9. HideTypeOK'
  BY <1>0, <1>4, <1>6 DEF HideTypeOK, NewsShift
<1>10. WindowsAreTold' /\ LastIsTrue' /\ HidingAlternates'
  BY <1>8, TakenIsTold
<1>11. DockIsTold'
  <2>1. SUFFICES ASSUME NEW v \in registered \cap open, \A j \in DOMAIN news' : ~OfDock(j, v)'
                 PROVE  /\ v \in miniaturised => WillBeMinimised(v)' \/ v \in misread
                        /\ WillBeMinimised(v)' => v \in miniaturised \cup hiddenByApp'
    BY <1>0, <1>4 DEF DockIsTold
  <2>2. \A i \in DOMAIN news : i # 1 => ~OfDock(i, v)
    BY <2>1, NothingNew
  <2>3. CASE v = w
    <3>1. OfDock(1, w) /\ 1 \in DOMAIN news /\ news[1].kind = n.kind
      BY <1>0, <1>2, <1>7 DEF Takes, OfDock, Tells, NewsShift
    <3>2. \A i \in DOMAIN news : 1 < i => ~OfDock(i, w)
      BY <2>2, <2>3
    <3>3. w \in open
      BY <2>1, <2>3
    <3>4. news[1].kind = "WindowMiniaturized" <=> w \in miniaturised
      BY <1>0, <3>1, <3>2, <3>3 DEF LastIsTrue
    <3>. QED  BY <1>6, <1>7, <2>3, <3>1, <3>4
  <2>4. CASE v # w
    <3>1. ~OfDock(1, v)
      BY <1>2, <2>4 DEF Takes, OfDock, Tells
    <3>2. \A i \in DOMAIN news : ~OfDock(i, v)
      BY <2>2, <3>1
    <3>3. /\ v \in miniaturised => WillBeMinimised(v) \/ v \in misread
          /\ WillBeMinimised(v) => v \in miniaturised \cup hiddenByApp
      BY <1>0, <2>1, <3>2 DEF DockIsTold
    <3>. QED  BY <1>4, <1>6, <2>4, <3>3
  <2>. QED  BY <2>3, <2>4
<1>12. HidingIsTold'
  <2>1. SUFFICES ASSUME hidden, \A j \in DOMAIN news' : ~OfApp(j)', NEW v \in registered
                 PROVE  WillBeMinimised(v)' \/ v \in exposed
    BY <1>0, <1>4 DEF HidingIsTold
  <2>2. n.kind # "WindowDeminiaturized"
    BY <2>1, NothingNew
  <2>3. minimises
    BY <1>7, <2>2
  <2>4. \A i \in DOMAIN news : i # 1 => ~OfApp(i)
    BY <2>1, NothingNew
  <2>5. ~OfApp(1)
    BY <1>7 DEF Takes, OfApp
  <2>6. WillBeMinimised(v) \/ v \in exposed
    BY <1>0, <2>1, <2>4, <2>5 DEF HidingIsTold
  <2>. QED  BY <1>6, <2>3, <2>6
<1>13. \A v \in AppWindows : WillBeTracked(v)' <=> v \in registered'
  BY <1>4, <1>6 DEF HidingInv
<1>. QED  BY <1>9, <1>10, <1>11, <1>12, <1>13 DEF HidingInv

\* A notification that is not of the Dock or of hiding: what is known of the windows that
\* stay must stay.
LEMMA OthersStay ==
  ASSUME HidingInv, NEW n \in HideNotes, Takes(n), n.kind \in {"WindowCreated", "WindowDestroyed"}, NEW w,
         misread' = misread, exposed \subseteq exposed',
         \A v \in registered' : v # w => v \in registered /\ (WillBeMinimised(v)' <=> WillBeMinimised(v)),
         \A v \in hiddenByApp : v # w => v \in hiddenByApp',
         w \in registered' \cap open => (WillBeMinimised(w)' <=> w \in miniaturised),
         hidden /\ w \in registered' => w \in exposed'
  PROVE  DockIsTold' /\ HidingIsTold'
<1>0. /\ DockIsTold /\ HidingIsTold /\ NewsShift
      /\ UNCHANGED <<hidden, open, miniaturised, tracked, minimised>>
  BY DEF HidingInv, Takes
<1>1. \A v : ~OfDock(1, v)
  BY DEF Takes, OfDock, Tells
<1>2. ~OfApp(1)
  BY DEF Takes, OfApp
<1>3. DockIsTold'
  <2>1. SUFFICES ASSUME NEW v \in registered', v \in open, \A j \in DOMAIN news' : ~OfDock(j, v)'
                 PROVE  /\ v \in miniaturised => WillBeMinimised(v)' \/ v \in misread
                        /\ WillBeMinimised(v)' => v \in miniaturised \cup hiddenByApp'
    BY <1>0 DEF DockIsTold
  <2>2. CASE v = w
    BY <2>1, <2>2
  <2>3. CASE v # w
    <3>1. \A i \in DOMAIN news : ~OfDock(i, v)
      BY <1>1, <2>1, NothingNew
    <3>2. /\ v \in miniaturised => WillBeMinimised(v) \/ v \in misread
          /\ WillBeMinimised(v) => v \in miniaturised \cup hiddenByApp
      BY <1>0, <2>1, <2>3, <3>1 DEF DockIsTold
    <3>. QED  BY <2>1, <2>3, <3>2
  <2>. QED  BY <2>2, <2>3
<1>4. HidingIsTold'
  <2>1. SUFFICES ASSUME hidden, \A j \in DOMAIN news' : ~OfApp(j)', NEW v \in registered'
                 PROVE  WillBeMinimised(v)' \/ v \in exposed'
    BY <1>0 DEF HidingIsTold
  <2>2. CASE v = w
    BY <2>1, <2>2
  <2>3. CASE v # w
    <3>1. \A i \in DOMAIN news : ~OfApp(i)
      BY <1>2, <2>1, NothingNew
    <3>2. WillBeMinimised(v) \/ v \in exposed
      BY <1>0, <2>1, <2>3, <3>1 DEF HidingIsTold
    <3>. QED  BY <2>1, <2>3, <3>2
  <2>. QED  BY <2>2, <2>3
<1>. QED  BY <1>3, <1>4

\* kAXWindowCreated
LEMMA CreatedIsHeard ==
  ASSUME HidingInv, NEW n \in HideNotes, Takes(n), n.kind = "WindowCreated",
         Hiding!OnWindowCreated(n.window)
  PROVE  HidingInv'
<1>0. /\ HideTypeOK /\ NewsShift
      /\ UNCHANGED <<hidden, open, miniaturised, tracked, minimised>>
  BY DEF HidingInv, Takes
<1>1. n.window \in AppWindows
  BY DEF HideNotes, About
<1>2. PICK w \in AppWindows : w = n.window
  BY <1>1
<1>3. CASE w \in registered \/ w \notin open
  <2>1. UNCHANGED <<isHidden, registered, hiddenByApp, sent, exposed, misread>>
    BY <1>2, <1>3 DEF Hiding!OnWindowCreated, Hiding!thread
  <2>2. /\ \A v : WillBeTracked(v)' <=> WillBeTracked(v)
        /\ \A v : WillBeMinimised(v)' <=> WillBeMinimised(v)
    BY <1>0, <2>1 DEF WillBeTracked, WillBeMinimised, Will
  <2>3. Heeds(n)
    BY <1>0, <1>2, <1>3, <2>1 DEF Heeds, HideTypeOK
  <2>4. HideTypeOK'
    BY <1>0, <2>1 DEF HideTypeOK, NewsShift
  <2>5. WindowsAreTold' /\ LastIsTrue' /\ HidingAlternates'
    BY <2>3, TakenIsTold
  <2>6. PICK x : x \notin AppWindows
    <3>1. \E x : x \notin AppWindows
      <4>1. {y \in AppWindows : y \notin y} \notin AppWindows
        OBVIOUS
      <4>. QED  BY <4>1
    <3>. QED  BY <3>1
  <2>7. DockIsTold' /\ HidingIsTold'
    <3>1. x \notin registered' /\ \A v \in registered' : v \in registered
      BY <1>0, <2>1, <2>6 DEF HideTypeOK
    <3>. QED  BY <2>1, <2>2, <3>1, OthersStay
  <2>8. \A v \in AppWindows : WillBeTracked(v)' <=> v \in registered'
    BY <2>1, <2>2 DEF HidingInv
  <2>. QED  BY <2>4, <2>5, <2>7, <2>8 DEF HidingInv
<1>4. CASE w \notin registered /\ w \in open
  <2>1. /\ registered' = registered \cup {w}
        /\ hiddenByApp' = IF isHidden THEN hiddenByApp \cup {w} ELSE hiddenByApp
        /\ exposed' = IF hidden THEN exposed \cup {w} ELSE exposed
        /\ isHidden' = isHidden /\ misread' = misread
        /\ sent' = (sent \o Hiding!Announcements({w}))
                     \o <<Hiding!Listed("WindowCreated", {w}, {w} \cap miniaturised)>>
    BY <1>2, <1>4 DEF Hiding!OnWindowCreated, Hiding!Register
  <2>12. PICK S \in SUBSET AppWindows : S = {w}
    OBVIOUS
  <2>2. PICK M : S = {w} /\ M = {w} \cap miniaturised
    BY <2>12
  <2>3. PICK kind \in {"WindowCreated", "WindowsDiscovered"} : kind = "WindowCreated"
    OBVIOUS
  <2>4. M \in SUBSET S /\ sent' = (sent \o Hiding!Announcements(S)) \o <<Hiding!Listed(kind, S, M)>>
    BY <2>1, <2>2, <2>3
  <2>5. /\ sent' \in Seq(HideEvents)
        /\ \A v : WillBeTracked(v)' <=> v \in S \/ WillBeTracked(v)
        /\ \A v : WillBeMinimised(v)' <=>
             v \in M \/ (v \notin S /\ ((isHidden /\ v \in S) \/ WillBeMinimised(v)))
    BY <1>0, <2>4, ListingTells
  <2>6. /\ \A v : WillBeTracked(v)' <=> v = w \/ WillBeTracked(v)
        /\ \A v : v # w => (WillBeMinimised(v)' <=> WillBeMinimised(v))
        /\ WillBeMinimised(w)' <=> w \in miniaturised
    BY <2>2, <2>5
  <2>7. Heeds(n)
    BY <1>0, <1>2, <1>4, <2>1 DEF Heeds, HideTypeOK
  <2>8. HideTypeOK'
    BY <1>0, <1>4, <2>1, <2>5 DEF HideTypeOK, NewsShift
  <2>9. WindowsAreTold' /\ LastIsTrue' /\ HidingAlternates'
    BY <2>7, TakenIsTold
  <2>10. DockIsTold' /\ HidingIsTold'
    <3>1. /\ exposed \subseteq exposed' /\ misread' = misread
          /\ \A v \in registered' : v # w => v \in registered /\ (WillBeMinimised(v)' <=> WillBeMinimised(v))
          /\ \A v \in hiddenByApp : v # w => v \in hiddenByApp'
          /\ (w \in registered' \cap open) => (WillBeMinimised(w)' <=> w \in miniaturised)
          /\ hidden /\ w \in registered' => w \in exposed'
      BY <2>1, <2>6
    <3>. QED  BY <3>1, OthersStay
  <2>11. \A v \in AppWindows : WillBeTracked(v)' <=> v \in registered'
    BY <2>1, <2>6 DEF HidingInv
  <2>. QED  BY <2>8, <2>9, <2>10, <2>11 DEF HidingInv
<1>. QED  BY <1>3, <1>4

\* kAXUIElementDestroyed
LEMMA DestroyedIsHeard ==
  ASSUME HidingInv, NEW n \in HideNotes, Takes(n), n.kind = "WindowDestroyed",
         Hiding!OnWindowDestroyed(n.window)
  PROVE  HidingInv'
<1>0. /\ HideTypeOK /\ NewsShift
      /\ UNCHANGED <<hidden, open, miniaturised, tracked, minimised>>
  BY DEF HidingInv, Takes
<1>1. n.window \in AppWindows
  BY DEF HideNotes, About
<1>2. PICK w \in AppWindows : w = n.window
  BY <1>1
<1>3. /\ registered' = registered \ {w} /\ hiddenByApp' = hiddenByApp \ {w}
      /\ sent' = IF w \in registered THEN Append(sent, [kind |-> "WindowDestroyed", window |-> w]) ELSE sent
      /\ UNCHANGED <<isHidden, exposed, misread>>
  BY <1>2 DEF Hiding!OnWindowDestroyed
<1>4. /\ sent' \in Seq(HideEvents)
      /\ \A v \in AppWindows : WillBeTracked(v)' <=> v # w /\ WillBeTracked(v)
      /\ \A v : v # w => (WillBeMinimised(v)' <=> WillBeMinimised(v))
  <2>1. CASE w \in registered
    <3>1. PICK e \in HideEvents : e = [kind |-> "WindowDestroyed", window |-> w]
      BY DEF HideEvents
    <3>2. /\ On("tracked", e) = {} /\ Off("tracked", e) = {w}
          /\ On("minimised", e) = {} /\ Off("minimised", e) = {w}
      BY <3>1 DEF On, Off, Lists
    <3>3. sent' = Append(sent, e)
      BY <1>3, <2>1, <3>1
    <3>. QED  BY <1>0, <3>2, <3>3, EventTells
  <2>2. CASE w \notin registered
    <3>1. sent' = sent
      BY <1>3, <2>2
    <3>2. /\ \A v : WillBeTracked(v)' <=> WillBeTracked(v)
          /\ \A v : WillBeMinimised(v)' <=> WillBeMinimised(v)
      BY <1>0, <3>1 DEF WillBeTracked, WillBeMinimised, Will
    <3>3. ~WillBeTracked(w)
      BY <2>2 DEF HidingInv
    <3>. QED  BY <1>0, <3>1, <3>2, <3>3 DEF HideTypeOK
  <2>. QED  BY <2>1, <2>2
<1>5. Heeds(n)
  BY <1>0, <1>2, <1>3 DEF Heeds, HideTypeOK
<1>6. HideTypeOK'
  BY <1>0, <1>3, <1>4 DEF HideTypeOK, NewsShift
<1>7. WindowsAreTold' /\ LastIsTrue' /\ HidingAlternates'
  BY <1>5, TakenIsTold
<1>8. DockIsTold' /\ HidingIsTold'
  <2>1. /\ exposed \subseteq exposed' /\ misread' = misread
        /\ \A v \in registered' : v # w => v \in registered /\ (WillBeMinimised(v)' <=> WillBeMinimised(v))
        /\ \A v \in hiddenByApp : v # w => v \in hiddenByApp'
        /\ (w \in registered' \cap open) => (WillBeMinimised(w)' <=> w \in miniaturised)
        /\ hidden /\ w \in registered' => w \in exposed'
    BY <1>3, <1>4
  <2>. QED  BY <2>1, OthersStay
<1>9. \A v \in AppWindows : WillBeTracked(v)' <=> v \in registered'
  BY <1>3, <1>4 DEF HidingInv
<1>. QED  BY <1>6, <1>7, <1>8, <1>9 DEF HidingInv

\* handle_notification
LEMMA NotificationIsHeard ==
  ASSUME HidingInv, Hiding!HandleNotification
  PROVE  HidingInv'
<1>1. news # <<>> /\ news' = Tail(news) /\ UNCHANGED <<hidden, open, miniaturised, tracked, minimised>>
  BY DEF Hiding!HandleNotification, Hiding!world, Hiding!reactor
<1>2. NewsShift /\ Head(news) = news[1] /\ news[1] \in HideNotes /\ \A i \in DOMAIN news : i \in Nat
  BY <1>1, FirstNote
<1>3. PICK n \in HideNotes : n = news[1]
  BY <1>2
<1>4. Takes(n)
  BY <1>1, <1>2, <1>3 DEF Takes
<1>5. n.kind \in {"ApplicationHidden", "ApplicationShown"} \cup About
  BY DEF HideNotes
<1>6. /\ n.kind = "ApplicationHidden" => Hiding!OnApplicationHidden
      /\ n.kind = "ApplicationShown" => Hiding!OnApplicationShown
      /\ n.kind = "WindowMiniaturized" => Hiding!OnDock(n.window, Hiding!Minimized(n.window))
      /\ n.kind = "WindowDeminiaturized" => Hiding!OnDock(n.window, Hiding!Deminiaturized(n.window))
      /\ n.kind = "WindowCreated" => Hiding!OnWindowCreated(n.window)
      /\ n.kind = "WindowDestroyed" => Hiding!OnWindowDestroyed(n.window)
  BY <1>2, <1>3, <1>5 DEF Hiding!HandleNotification, About
<1>7. CASE n.kind = "WindowMiniaturized"
  <2>1. PICK minimises \in BOOLEAN : minimises = TRUE
    OBVIOUS
  <2>. QED  BY <1>4, <1>6, <1>7, <2>1, DockIsHeard
<1>8. CASE n.kind = "WindowDeminiaturized"
  <2>1. PICK minimises \in BOOLEAN : minimises = FALSE
    OBVIOUS
  <2>. QED  BY <1>4, <1>6, <1>8, <2>1, DockIsHeard
<1>9. CASE n.kind = "ApplicationHidden"
  BY <1>4, <1>6, <1>9, HiddenIsHeard
<1>10. CASE n.kind = "ApplicationShown"
  BY <1>4, <1>6, <1>10, ShownIsHeard
<1>11. CASE n.kind = "WindowCreated"
  BY <1>4, <1>6, <1>11, CreatedIsHeard
<1>12. CASE n.kind = "WindowDestroyed"
  BY <1>4, <1>6, <1>12, DestroyedIsHeard
<1>. QED  BY <1>5, <1>7, <1>8, <1>9, <1>10, <1>11, <1>12 DEF About

LEMMA HidingInit == MCInit => HidingInv
<1>. SUFFICES ASSUME MCInit  PROVE HidingInv
  OBVIOUS
<1>1. /\ hidden \in BOOLEAN /\ open \subseteq AppWindows /\ miniaturised \subseteq open
      /\ registered = open /\ isHidden = FALSE /\ hiddenByApp = {}
      /\ tracked = open /\ minimised = miniaturised
      /\ news = <<>> /\ sent = <<>>
      /\ exposed = (IF hidden THEN open ELSE {}) /\ misread = {}
  BY DEF MCInit, Hiding!Init
<1>2. /\ \A w : WillBeTracked(w) <=> w \in tracked
      /\ \A w : WillBeMinimised(w) <=> w \in minimised
  BY <1>1 DEF WillBeTracked, WillBeMinimised, Will
<1>3. HideTypeOK
  <2>1. news \in Seq(HideNotes) /\ sent \in Seq(HideEvents)
    <3>. HIDE DEF HideNotes, HideEvents
    <3>. QED  BY <1>1
  <2>2. miniaturised \subseteq tracked /\ registered \subseteq AppWindows /\ hiddenByApp \subseteq registered
    BY <1>1
  <2>. QED  BY <1>1, <2>1, <2>2 DEF HideTypeOK
<1>4. WindowsAreTold /\ LastIsTrue /\ HidingAlternates
  BY <1>1 DEF WindowsAreTold, LastIsTrue, HidingAlternates
<1>5. DockIsTold /\ HidingIsTold
  BY <1>1, <1>2 DEF DockIsTold, HidingIsTold
<1>6. \A w \in AppWindows : WillBeTracked(w) <=> w \in registered
  BY <1>1, <1>2
<1>. QED  BY <1>3, <1>4, <1>5, <1>6 DEF HidingInv

LEMMA HidingStep == HidingInv /\ [MCNext]_<<part, vars, confVars, appVars, hideVars, switchVars>> => HidingInv'
<1>. SUFFICES ASSUME HidingInv, [MCNext]_<<part, vars, confVars, appVars, hideVars, switchVars>>
              PROVE  HidingInv'
  OBVIOUS
<1>1. ASSUME UNCHANGED <<hidden, open, miniaturised, news, isHidden, registered, hiddenByApp, sent, tracked,
                         minimised, exposed, misread>>
      PROVE  HidingInv'
  <2>1. /\ \A w : WillBeTracked(w)' <=> WillBeTracked(w)
        /\ \A w : WillBeMinimised(w)' <=> WillBeMinimised(w)
    BY <1>1 DEF WillBeTracked, WillBeMinimised, Will
  <2>2. HideTypeOK' /\ WindowsAreTold' /\ LastIsTrue' /\ HidingAlternates'
    BY <1>1 DEF HidingInv, HideTypeOK, WindowsAreTold, LastIsTrue, HidingAlternates, OfDock, Tells
  <2>3. DockIsTold' /\ HidingIsTold'
    BY <1>1, <2>1 DEF HidingInv, DockIsTold, HidingIsTold, OfDock, OfApp, Tells
  <2>4. \A w \in AppWindows : WillBeTracked(w)' <=> w \in registered'
    BY <1>1, <2>1 DEF HidingInv
  <2>. QED  BY <2>2, <2>3, <2>4 DEF HidingInv
<1>2. CASE UNCHANGED hideVars
  BY <1>1, <1>2 DEF hideVars
<1>3. CASE Hiding!Next
  <2>1. CASE Hiding!Ask
    BY <1>1, <2>1 DEF Hiding!Ask, Hiding!world, Hiding!thread, Hiding!reactor
  <2>. QED
    BY <1>3, <2>1, WorldSteps, NotificationIsHeard, RefreshTells, ReactorTracks DEF Hiding!Next
<1>. QED  BY <1>2, <1>3 DEF MCNext

\* Nothing is left to tell.
LEMMA HidingFollows == HidingInv => HidingIsSeen
<1>. SUFFICES ASSUME HidingInv, news = <<>>, sent = <<>>
              PROVE  /\ ~hidden => /\ tracked = open /\ minimised \subseteq miniaturised
                                   /\ miniaturised \ minimised \subseteq misread
                     /\ hidden => tracked = open /\ tracked \ minimised \subseteq exposed
  BY DEF HidingIsSeen, Hiding!DockIsKnown, Hiding!HiddenAreLeftOut, Hiding!AtRest
<1>1. /\ HideTypeOK /\ WindowsAreTold /\ HidingAlternates /\ DockIsTold /\ HidingIsTold
  BY DEF HidingInv
<1>2. /\ \A w : WillBeTracked(w) <=> w \in tracked
      /\ \A w : WillBeMinimised(w) <=> w \in minimised
  BY DEF WillBeTracked, WillBeMinimised, Will
<1>3. registered = open
  <2>1. registered \subseteq AppWindows /\ open \subseteq AppWindows
    BY <1>1 DEF HideTypeOK
  <2>2. \A i \in DOMAIN news : FALSE
    OBVIOUS
  <2>3. \A w \in AppWindows : w \notin registered \ open /\ w \notin open \ registered
    BY <1>1, <2>2, Zenon DEF WindowsAreTold
  <2>. QED  BY <2>1, <2>3
<1>4. tracked = registered
  BY <1>1, <1>2 DEF HidingInv, HideTypeOK
<1>5. ASSUME ~hidden
      PROVE  minimised \subseteq miniaturised /\ miniaturised \ minimised \subseteq misread
  <2>1. ~isHidden
    BY <1>1, <1>5 DEF HidingAlternates
  <2>2. hiddenByApp = {}
    BY <1>1, <2>1 DEF HideTypeOK
  <2>3. \A w \in open : /\ w \in miniaturised => w \in minimised \/ w \in misread
                        /\ w \in minimised => w \in miniaturised
    BY <1>1, <1>2, <1>3, <2>2 DEF DockIsTold
  <2>. QED  BY <1>1, <1>3, <1>4, <2>3 DEF HideTypeOK
<1>6. ASSUME hidden  PROVE tracked \ minimised \subseteq exposed
  BY <1>1, <1>2, <1>4, <1>6 DEF HidingIsTold
<1>. QED  BY <1>3, <1>4, <1>5, <1>6

\* When everything was told, the reactor takes for minimised what is in the Dock or out of sight
\* with its application, up to what the thread listed while hidden and could not read: for any
\* finite number of windows and however hiding, minimising and listing met.
THEOREM HidingSeen == MCSpec => []HidingIsSeen
BY HidingInit, HidingStep, HidingFollows, PTL DEF MCSpec
=============================================================================
