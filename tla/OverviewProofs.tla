--------------------------- MODULE OverviewProofs ---------------------------
(***************************************************************************)
(* The overview, for any windows, workspaces, displays and bounds.           *)
(*                                                                          *)
(* Every window of the overview gets its picture: at rest a picture may be   *)
(* missing only if it could not be taken.  On the way there, a window        *)
(* without a picture has a job or a picture in the cache which a refresh     *)
(* will find, and the set of jobs under way does not lie.                    *)
(*                                                                          *)
(* What is picked is what was highlighted: a position travels with the list  *)
(* it was drawn from, and at that position stands what was meant.            *)
(*                                                                          *)
(* A window is where the user put it: its recent target never says           *)
(* otherwise, and one that has no workspace yet keeps its target.            *)
(***************************************************************************)
EXTENDS MCOverview, FiniteSetTheorems, TLAPS

Jobs == [of : PreviewWindows, generation : Nat, overlay : 1..MaxUpdates]

PicturesTypeOK ==
  /\ main \in {"idle", "prewarm", "draw", "refresh"}
  /\ updates \in 0..MaxUpdates /\ born \in 0..updates /\ drawn \in 0..born
  /\ generation \in Nat /\ pending \in BOOLEAN
  /\ tiles \subseteq PreviewWindows
  /\ cache \in [1..MaxUpdates -> SUBSET PreviewWindows]
  /\ inFlight \subseteq Nat \X PreviewWindows
  /\ timers \subseteq 1..MaxUpdates
  /\ jobs \subseteq Jobs
  /\ worker \in [Workers -> [at : {"idle", "capture", "captured"}, job : Jobs \cup {None}]]
  /\ \A k \in Workers : worker[k].at # "idle" => worker[k].job \in Jobs

\* The main thread works on an overlay, what is ready is in the cache, what was asked
\* for is due, and a tile that was drawn has a layer.
OverlayInv ==
  /\ main # "idle" => drawn # 0
  /\ drawn # 0 => ready \subseteq cache[drawn]
  /\ drawn # 0 /\ pending => drawn \in timers
  /\ drawn # 0 /\ main \in {"idle", "refresh"} => tiles \subseteq layers

\* No entry is of a generation to come.
EntriesAreOld == \A e \in inFlight : e[1] <= generation

\* A picture of w will be taken, or it will turn out that none can.
JobComes(w) ==
  \/ \E job \in jobs : job.of = w /\ job.generation = generation /\ job.overlay = drawn
  \/ \E k \in Workers :
       worker[k].at = "capture" /\ worker[k].job.of = w /\ worker[k].job.overlay = drawn

\* The cache will be read once more.
RefreshComes ==
  \/ main = "refresh" \/ drawn \in timers
  \/ \E k \in Workers : worker[k].at = "captured" /\ worker[k].job.overlay = drawn

\* An entry of this generation without a job is that of a picture that was taken or
\* could not be taken.
EntriesAreTrue ==
  drawn # 0 => \A w \in PreviewWindows :
    <<generation, w>> \in inFlight => w \in cache[drawn] \/ w \in failed \/ JobComes(w)

PicturesCome ==
  drawn # 0 /\ main \in {"idle", "refresh"} =>
    \A w \in tiles : w \notin Unnamed /\ w \notin displayed /\ w \notin failed =>
      IF w \in cache[drawn] THEN RefreshComes ELSE JobComes(w)

PicturesInv == PicturesTypeOK /\ OverlayInv /\ EntriesAreOld /\ EntriesAreTrue /\ PicturesCome

-----------------------------------------------------------------------------
\* Nothing has been shown at first.
LEMMA PicturesStart == Pictures!Init => PicturesInv
<1> SUFFICES ASSUME Pictures!Init PROVE PicturesInv
  OBVIOUS
<1>1. PicturesTypeOK
  <2>1. MaxUpdates \in Nat
    BY PicturesAssumption DEF Pictures!PreviewsAssumption
  <2>2. cache \in [1..MaxUpdates -> SUBSET PreviewWindows]
    BY DEF Pictures!Init
  <2>3. /\ worker \in [Workers -> [at : {"idle", "capture", "captured"}, job : Jobs \cup {None}]]
        /\ \A k \in Workers : worker[k].at # "idle" => worker[k].job \in Jobs
    BY DEF Pictures!Init, Pictures!Idle
  <2>4. /\ updates \in 0..MaxUpdates /\ born \in 0..updates /\ drawn \in 0..born
        /\ generation \in Nat
    BY <2>1 DEF Pictures!Init
  <2>6. pending \in BOOLEAN
    BY DEF Pictures!Init
  <2>5. main = "idle" /\ tiles = {} /\ inFlight = {} /\ jobs = {} /\ timers = {}
    BY DEF Pictures!Init
  <2> QED
    BY <2>2, <2>3, <2>4, <2>5, <2>6 DEF PicturesTypeOK
<1>2. OverlayInv /\ EntriesAreOld /\ EntriesAreTrue /\ PicturesCome
  BY DEF Pictures!Init, OverlayInv, EntriesAreOld, EntriesAreTrue, PicturesCome
<1> QED
  BY <1>1, <1>2 DEF PicturesInv

\* Showing the overlay begins a generation that has no entries yet.
LEMMA SetModeStep == PicturesInv /\ Pictures!SetMode => PicturesInv'
<1> SUFFICES ASSUME PicturesInv, Pictures!SetMode PROVE PicturesInv'
  OBVIOUS
<1> USE DEF PicturesInv
<1>a. MaxUpdates \in Nat
  BY PicturesAssumption DEF Pictures!PreviewsAssumption
<1>1. /\ main = "idle" /\ updates < MaxUpdates /\ updates' = updates + 1
      /\ drawn' = (IF drawn = 0 THEN born + 1 ELSE drawn)
      /\ born' = (IF drawn = 0 THEN born + 1 ELSE born)
      /\ ready' = {} /\ pending' = (drawn # 0 /\ pending) /\ generation' = generation + 1
      /\ main' = "prewarm" /\ failed' = {}
      /\ UNCHANGED <<timers, inFlight, jobs, worker, redraws>>
  BY DEF Pictures!SetMode
<1>2. PICK ws \in SUBSET PreviewWindows :
        /\ tiles' = ws
        /\ cache' = [cache EXCEPT ![drawn'] = IF drawn = 0 THEN {} ELSE cache[drawn] \cap ws]
  BY DEF Pictures!SetMode
<1>3. updates' \in 0..MaxUpdates /\ born' \in 0..updates' /\ drawn' \in 0..born' /\ drawn' # 0
      /\ drawn' \in 1..MaxUpdates /\ generation' \in Nat
  BY <1>1, <1>a DEF PicturesTypeOK
<1>4. pending' \in BOOLEAN
  BY <1>1 DEF PicturesTypeOK
<1>5. cache' \in [1..MaxUpdates -> SUBSET PreviewWindows]
  <2>1. (IF drawn = 0 THEN {} ELSE cache[drawn] \cap ws) \in SUBSET PreviewWindows
    OBVIOUS
  <2> QED
    BY <1>2, <1>3, <2>1 DEF PicturesTypeOK
<1>6. PicturesTypeOK'
  BY <1>1, <1>2, <1>3, <1>4, <1>5 DEF PicturesTypeOK
<1>7. OverlayInv'
  BY <1>1, <1>3 DEF OverlayInv
<1>8. EntriesAreOld' /\ EntriesAreTrue'
  <2>1. \A e \in inFlight : e[1] \in Nat /\ e[1] < generation'
    BY <1>1 DEF EntriesAreOld, PicturesTypeOK
  <2>2. \A w : <<generation', w>> \notin inFlight
    <3> SUFFICES ASSUME NEW w, <<generation', w>> \in inFlight PROVE FALSE
      OBVIOUS
    <3>1. <<generation', w>>[1] = generation'
      OBVIOUS
    <3> QED
      BY <2>1, <3>1, <1>3
  <2>3. EntriesAreOld'
    BY <1>1, <2>1, <1>3 DEF EntriesAreOld
  <2>4. EntriesAreTrue'
    BY <1>1, <2>2 DEF EntriesAreTrue
  <2> QED
    BY <2>3, <2>4
<1>9. PicturesCome'
  BY <1>1 DEF PicturesCome
<1> QED
  BY <1>6, <1>7, <1>8, <1>9

-----------------------------------------------------------------------------
\* New jobs of this generation and their entries, and a larger cache.
LEMMA PrewarmStep == PicturesInv /\ Pictures!Prewarm => PicturesInv'
<1> SUFFICES ASSUME PicturesInv, Pictures!Prewarm PROVE PicturesInv'
  OBVIOUS
<1> USE DEF PicturesInv
<1>a. MaxUpdates \in Nat
  BY PicturesAssumption DEF Pictures!PreviewsAssumption
<1>1. /\ main = "prewarm" /\ main' = "draw"
      /\ UNCHANGED <<drawn, tiles, layers, displayed, worker, updates, redraws, born>>
  BY DEF Pictures!Prewarm, Pictures!bounds
<1>2. drawn \in 1..MaxUpdates
  BY <1>1, <1>a DEF PicturesTypeOK, OverlayInv
<1>3. PicturesCome'
  BY <1>1 DEF PicturesCome
<1>4. CASE tiles \ Unnamed = {}
  <2>1. UNCHANGED <<generation, cache, ready, failed, inFlight, jobs, pending, timers>>
    BY <1>4 DEF Pictures!Prewarm
  <2>2. PicturesTypeOK'
    BY <1>1, <2>1 DEF PicturesTypeOK
  <2>3. OverlayInv' /\ EntriesAreOld'
    BY <1>1, <2>1 DEF OverlayInv, EntriesAreOld
  <2>4. EntriesAreTrue'
    <3>1. \A w : JobComes(w) => JobComes(w)'
      BY <1>1, <2>1 DEF JobComes
    <3> QED
      BY <1>1, <2>1, <3>1 DEF EntriesAreTrue
  <2> QED
    BY <1>3, <2>2, <2>3, <2>4
<1>5. CASE tiles \ Unnamed # {}
  <2> DEFINE named == tiles \ Unnamed
  <2>1. PICK now \in SUBSET named : \E works \in SUBSET (now \ cache[drawn]) :
          LET later == (named \ now) \ cache[drawn]
          IN /\ cache' = [cache EXCEPT ![drawn] = @ \cup works]
             /\ ready' = ready \cup works
             /\ failed' = failed \cup ((now \ cache[drawn]) \ works)
             /\ inFlight' = inFlight \cup {<<generation', w>> : w \in later}
             /\ jobs' = jobs \cup {Pictures!Job(w) : w \in later}
             /\ IF works = {} THEN UNCHANGED <<pending, timers>> ELSE Pictures!Ask
    BY <1>5 DEF Pictures!Prewarm, Pictures!kSubset
  <2>2. PICK works \in SUBSET (now \ cache[drawn]) :
          /\ cache' = [cache EXCEPT ![drawn] = @ \cup works]
          /\ ready' = ready \cup works
          /\ failed' = failed \cup ((now \ cache[drawn]) \ works)
          /\ inFlight' = inFlight \cup {<<generation', w>> : w \in (named \ now) \ cache[drawn]}
          /\ jobs' = jobs \cup {Pictures!Job(w) : w \in (named \ now) \ cache[drawn]}
          /\ IF works = {} THEN UNCHANGED <<pending, timers>> ELSE Pictures!Ask
    BY <2>1
  <2> DEFINE later == (named \ now) \ cache[drawn]
  <2>3. generation' = generation + 1
    BY <1>5 DEF Pictures!Prewarm
  <2>4. PICK g \in Nat : g = generation'
    BY <2>3 DEF PicturesTypeOK
  <2>5. named \subseteq PreviewWindows /\ later \subseteq PreviewWindows /\ works \subseteq PreviewWindows
    BY DEF PicturesTypeOK
  <2>6. inFlight' = inFlight \cup {<<g, w>> : w \in later}
    BY <2>2, <2>4
  <2>7. jobs' = jobs \cup {[of |-> w, generation |-> g, overlay |-> drawn] : w \in later}
    BY <2>2, <2>4 DEF Pictures!Job
  <2>8. (works = {} => UNCHANGED <<pending, timers>>)
        /\ (works # {} => pending' = TRUE /\ timers' = IF pending THEN timers ELSE timers \cup {drawn})
    BY <2>2 DEF Pictures!Ask
  <2>9. /\ cache' = [cache EXCEPT ![drawn] = @ \cup works]
        /\ ready' = ready \cup works
    BY <2>2
  <2> HIDE DEF named, later
  <2>10. cache' \in [1..MaxUpdates -> SUBSET PreviewWindows] /\ cache'[drawn] = cache[drawn] \cup works
    BY <2>9, <2>5, <1>2 DEF PicturesTypeOK
  <2>11. PicturesTypeOK'
    <3>1. inFlight' \subseteq Nat \X PreviewWindows
      BY <2>6, <2>5 DEF PicturesTypeOK
    <3>2. jobs' \subseteq Jobs
      BY <2>7, <2>5, <1>2 DEF PicturesTypeOK, Jobs
    <3>3. pending' \in BOOLEAN /\ timers' \subseteq 1..MaxUpdates
      BY <2>8, <1>2 DEF PicturesTypeOK
    <3> QED
      BY <1>1, <2>4, <2>10, <3>1, <3>2, <3>3 DEF PicturesTypeOK
  <2>12. OverlayInv'
    <3>1. ready' \subseteq cache'[drawn']
      BY <1>1, <1>2, <2>9, <2>10 DEF OverlayInv
    <3>2. pending' => drawn' \in timers'
      BY <1>1, <1>2, <2>8 DEF OverlayInv
    <3> QED
      BY <1>1, <1>2, <3>1, <3>2 DEF OverlayInv
  <2>13. EntriesAreOld'
    <3>1. \A e \in inFlight : e[1] <= g
      BY <2>3, <2>4 DEF EntriesAreOld, PicturesTypeOK
    <3> QED
      BY <2>4, <2>6, <3>1 DEF EntriesAreOld
  <2>14. EntriesAreTrue'
    <3> SUFFICES ASSUME NEW w \in PreviewWindows, <<g, w>> \in inFlight' PROVE JobComes(w)'
      BY <2>4 DEF EntriesAreTrue
    <3>1. <<g, w>> \notin inFlight
      <4>1. <<g, w>>[1] = g
        OBVIOUS
      <4> QED
        BY <2>3, <2>4, <4>1 DEF EntriesAreOld, PicturesTypeOK
    <3>2. PICK v \in later : <<g, w>> = <<g, v>>
      BY <2>6, <3>1
    <3>3. v = w
      BY <3>2
    <3>4. [of |-> w, generation |-> g, overlay |-> drawn] \in jobs'
      BY <2>7, <3>2, <3>3
    <3> QED
      BY <3>4, <2>4, <1>1 DEF JobComes
  <2> QED
    BY <1>3, <2>11, <2>12, <2>13, <2>14
<1> QED
  BY <1>4, <1>5

\* After drawing, what has no picture has a job, old or new.
LEMMA DrawingStep ==
  ASSUME PicturesInv, Pictures!Drawing, main' = "idle", main \in {"draw", "idle"}, drawn # 0,
         UNCHANGED <<updates, born>>
  PROVE  PicturesInv'
<1> USE DEF PicturesInv
<1> DEFINE here == tiles \cap cache[drawn]
           wanted == {w \in (tiles \ Unnamed) \ (cache[drawn] \cup ready) :
                        <<generation, w>> \notin inFlight}
<1>a. MaxUpdates \in Nat
  BY PicturesAssumption DEF Pictures!PreviewsAssumption
<1>1. /\ layers' = layers \cup tiles
      /\ displayed' = displayed \cup here
      /\ ready' = ready \cup here
      /\ generation' = generation
      /\ inFlight' = inFlight \cup {<<generation, w>> : w \in wanted}
      /\ jobs' = jobs \cup {Pictures!Job(w) : w \in wanted}
      /\ failed' = failed \ wanted
      /\ UNCHANGED <<drawn, tiles, cache, pending, timers, worker>>
  BY DEF Pictures!Drawing
<1>2. jobs' = jobs \cup {[of |-> w, generation |-> generation, overlay |-> drawn] : w \in wanted}
  BY <1>1 DEF Pictures!Job
<1>3. wanted \subseteq PreviewWindows /\ drawn \in 1..MaxUpdates
  BY <1>a DEF PicturesTypeOK
<1>4. PicturesTypeOK'
  <2> HIDE DEF wanted
  <2>1. inFlight' \subseteq Nat \X PreviewWindows
    BY <1>1, <1>3 DEF PicturesTypeOK
  <2>2. jobs' \subseteq Jobs
    BY <1>2, <1>3 DEF PicturesTypeOK, Jobs
  <2> QED
    BY <1>1, <2>1, <2>2 DEF PicturesTypeOK
<1>5. OverlayInv'
  BY <1>1 DEF OverlayInv
<1>6. EntriesAreOld'
  <2> HIDE DEF wanted
  <2>1. \A w \in wanted : <<generation, w>>[1] <= generation
    BY DEF PicturesTypeOK
  <2> QED
    BY <1>1, <2>1 DEF EntriesAreOld
<1>7. \A w : JobComes(w) => JobComes(w)'
  BY <1>1 DEF JobComes
<1>8. \A w \in wanted : JobComes(w)'
  <2> HIDE DEF wanted
  <2> SUFFICES ASSUME NEW w \in wanted PROVE JobComes(w)'
    OBVIOUS
  <2>1. [of |-> w, generation |-> generation, overlay |-> drawn] \in jobs'
    BY <1>2
  <2> QED
    BY <1>1, <2>1 DEF JobComes
<1>9. EntriesAreTrue'
  <2> SUFFICES ASSUME NEW w \in PreviewWindows, <<generation, w>> \in inFlight'
               PROVE  w \in cache[drawn] \/ w \in failed' \/ JobComes(w)'
    BY <1>1 DEF EntriesAreTrue
  <2>1. CASE w \in wanted
    BY <1>8, <2>1
  <2>2. CASE w \notin wanted
    <3> HIDE DEF wanted
    <3>1. <<generation, w>> \in inFlight
      <4> SUFFICES ASSUME NEW v \in wanted, <<generation, w>> = <<generation, v>> PROVE FALSE
        BY <1>1
      <4>1. v = w
        OBVIOUS
      <4> QED
        BY <2>2, <4>1
    <3>2. w \in cache[drawn] \/ w \in failed \/ JobComes(w)
      BY <3>1 DEF EntriesAreTrue
    <3> QED
      BY <1>1, <1>7, <2>2, <3>2
  <2> QED
    BY <2>1, <2>2
<1>10. PicturesCome'
  <2> SUFFICES ASSUME NEW w \in tiles, w \notin Unnamed, w \notin displayed', w \notin failed'
               PROVE  w \notin cache[drawn] /\ JobComes(w)'
    BY <1>1 DEF PicturesCome
  <2>1. w \in PreviewWindows /\ w \notin cache[drawn]
    BY <1>1 DEF PicturesTypeOK
  <2>2. CASE w \in wanted
    BY <1>8, <2>1, <2>2
  <2>3. CASE w \notin wanted
    <3>1. w \notin ready
      BY <2>1 DEF OverlayInv
    <3>2. <<generation, w>> \in inFlight
      BY <2>1, <2>3, <3>1
    <3>3. w \notin failed
      <4> HIDE DEF wanted
      <4> QED
        BY <1>1, <2>3
    <3>4. JobComes(w)
      BY <2>1, <3>2, <3>3 DEF EntriesAreTrue
    <3> QED
      BY <1>7, <2>1, <3>4
  <2> QED
    BY <2>2, <2>3
<1> QED
  BY <1>4, <1>5, <1>6, <1>9, <1>10

\* Without an overlay nothing is owed.
LEMMA DisposeStep == PicturesInv /\ Pictures!Dispose => PicturesInv'
<1> SUFFICES ASSUME PicturesInv, Pictures!Dispose PROVE PicturesInv'
  OBVIOUS
<1> USE DEF PicturesInv
<1>1. /\ main = "idle" /\ drawn # 0 /\ drawn' = 0 /\ tiles' = {} /\ pending' = FALSE
      /\ UNCHANGED <<main, timers, inFlight, jobs, worker, updates, redraws, born>>
  BY DEF Pictures!Dispose, Pictures!bounds
<1>2. /\ generation' \in {generation, generation + 1}
      /\ cache' \in {cache, [cache EXCEPT ![drawn] = {}]}
  BY DEF Pictures!Dispose
<1>3. cache' \in [1..MaxUpdates -> SUBSET PreviewWindows]
  BY <1>2 DEF PicturesTypeOK
<1>4. generation' \in Nat /\ generation <= generation'
  BY <1>2 DEF PicturesTypeOK
<1>5. drawn' \in 0..born'
  BY <1>1 DEF PicturesTypeOK
<1>6. PicturesTypeOK'
  BY <1>1, <1>3, <1>4, <1>5 DEF PicturesTypeOK
<1>7. EntriesAreOld'
  <2>1. \A e \in inFlight : e[1] \in Nat /\ e[1] <= generation
    BY DEF EntriesAreOld, PicturesTypeOK
  <2> QED
    BY <1>1, <1>4, <2>1 DEF EntriesAreOld, PicturesTypeOK
<1>8. OverlayInv' /\ EntriesAreTrue' /\ PicturesCome'
  BY <1>1 DEF OverlayInv, EntriesAreTrue, PicturesCome
<1> QED
  BY <1>6, <1>7, <1>8

\* A refresh that is due begins; one for an overlay that is gone may begin for the
\* overlay that is there.
LEMMA RefreshDueStep == PicturesInv /\ Pictures!RefreshDue => PicturesInv'
<1> SUFFICES ASSUME PicturesInv, Pictures!RefreshDue PROVE PicturesInv'
  OBVIOUS
<1> USE DEF PicturesInv
<1>1. /\ main = "idle"
      /\ UNCHANGED <<drawn, tiles, layers, displayed, ready, cache, generation, inFlight, jobs,
                     worker, failed, updates, redraws, born>>
  BY DEF Pictures!RefreshDue, Pictures!shownVars, Pictures!bounds
<1>2. PICK o \in timers : timers' = timers \ {o} /\ Pictures!RefreshBegins(o)
  BY DEF Pictures!RefreshDue
<1>3. \/ main' = "refresh" /\ pending' = FALSE /\ drawn # 0
      \/ main' = "idle" /\ pending' = pending /\ (drawn # 0 => o # drawn)
  <2>1. CASE o = drawn /\ drawn # 0
    BY <1>1, <1>2, <2>1 DEF Pictures!RefreshBegins
  <2>2. o # 0
    BY <1>2 DEF PicturesTypeOK
  <2>3. CASE o # drawn
    BY <1>1, <1>2, <2>3 DEF Pictures!RefreshBegins
  <2> QED
    BY <2>1, <2>2, <2>3
<1>4. PicturesTypeOK'
  BY <1>1, <1>2, <1>3 DEF PicturesTypeOK
<1>5. OverlayInv' /\ EntriesAreOld'
  BY <1>1, <1>2, <1>3 DEF OverlayInv, EntriesAreOld
<1>6. \A w : JobComes(w) => JobComes(w)'
  BY <1>1 DEF JobComes
<1>7. EntriesAreTrue'
  BY <1>1, <1>6 DEF EntriesAreTrue
<1>8. drawn # 0 /\ RefreshComes => RefreshComes'
  BY <1>1, <1>2, <1>3 DEF RefreshComes
<1>9. PicturesCome'
  BY <1>1, <1>3, <1>6, <1>8 DEF PicturesCome
<1> QED
  BY <1>4, <1>5, <1>7, <1>9

\* The refresh reads the cache: what is in it is displayed.
LEMMA RefreshStep == PicturesInv /\ Pictures!RefreshPreviews => PicturesInv'
<1> SUFFICES ASSUME PicturesInv, Pictures!RefreshPreviews PROVE PicturesInv'
  OBVIOUS
<1> USE DEF PicturesInv
<1>1. /\ main = "refresh" /\ main' = "idle"
      /\ displayed' = displayed \cup (layers \cap cache[drawn])
      /\ ready' = ready \cup (layers \cap cache[drawn])
      /\ UNCHANGED <<drawn, tiles, layers, cache, pending, timers, generation, inFlight,
                     jobs, worker, failed, updates, redraws, born>>
  BY DEF Pictures!RefreshPreviews, Pictures!bounds
<1>2. PicturesTypeOK'
  BY <1>1 DEF PicturesTypeOK
<1>3. OverlayInv' /\ EntriesAreOld'
  BY <1>1 DEF OverlayInv, EntriesAreOld
<1>4. \A w : JobComes(w) => JobComes(w)'
  BY <1>1 DEF JobComes
<1>5. EntriesAreTrue'
  BY <1>1, <1>4 DEF EntriesAreTrue
<1>6. PicturesCome'
  BY <1>1, <1>4 DEF PicturesCome, OverlayInv
<1> QED
  BY <1>2, <1>3, <1>5, <1>6

-----------------------------------------------------------------------------
\* Every step of the pool leaves the main thread, the overlay and the generation alone,
\* and only removes entries.
PoolStep ==
  /\ UNCHANGED <<main, drawn, tiles, layers, displayed, ready, generation, updates, redraws, born>>
  /\ inFlight' \subseteq inFlight

\* What the invariant needs of a step of the pool.
LEMMA PoolKeeps ==
  ASSUME PicturesInv, PoolStep, PicturesTypeOK',
         failed \subseteq failed',
         pending /\ drawn \in timers => drawn \in timers',
         pending' => pending \/ drawn \in timers',
         drawn # 0 => cache[drawn] \subseteq cache'[drawn],
         \A w : drawn # 0 /\ JobComes(w) => JobComes(w)' \/ w \in failed'
                                       \/ (w \in cache'[drawn] /\ RefreshComes'),
         drawn # 0 /\ RefreshComes => RefreshComes',
         drawn # 0 => \A w \in cache'[drawn] \ cache[drawn] : RefreshComes'
  PROVE  PicturesInv'
<1> USE DEF PicturesInv
<1>1. /\ UNCHANGED <<main, drawn, tiles, layers, displayed, ready, generation>>
      /\ inFlight' \subseteq inFlight
  BY DEF PoolStep
<1>2. OverlayInv' /\ EntriesAreOld'
  BY <1>1 DEF OverlayInv, EntriesAreOld
<1>3. EntriesAreTrue'
  BY <1>1 DEF EntriesAreTrue
<1>4. PicturesCome'
  <2> SUFFICES ASSUME drawn # 0, main \in {"idle", "refresh"},
                      NEW w \in tiles, w \notin Unnamed, w \notin displayed, w \notin failed'
               PROVE  IF w \in cache'[drawn] THEN RefreshComes' ELSE JobComes(w)'
    BY <1>1 DEF PicturesCome
  <2>1. IF w \in cache[drawn] THEN RefreshComes ELSE JobComes(w)
    BY DEF PicturesCome
  <2>2. CASE w \in cache'[drawn]
    BY <2>1, <2>2
  <2>3. CASE w \notin cache'[drawn]
    BY <2>1, <2>3
  <2> QED
    BY <2>2, <2>3
<1> QED
  BY <1>2, <1>3, <1>4

\* An entry is removed, or stays.
LEMMA LandedRemoves ==
  ASSUME NEW job, Pictures!Landed(job)
  PROVE  inFlight' \subseteq inFlight
BY DEF Pictures!Landed

\* A job that is taken is begun, unless it is of an earlier generation.
LEMMA TakeJobStep ==
  ASSUME PicturesInv, NEW k \in Workers, Pictures!TakeJob(k)
  PROVE  PicturesInv'
<1> USE DEF PicturesInv
<1>1. /\ worker[k].at = "idle"
      /\ UNCHANGED <<main, drawn, tiles, layers, displayed, ready, cache, pending, timers,
                     generation, failed, updates, redraws, born>>
  BY DEF Pictures!TakeJob, Pictures!shownVars, Pictures!bounds
<1>2. PICK job \in jobs :
        /\ jobs' = jobs \ {job}
        /\ IF job.generation = generation
           THEN Pictures!Becomes(k, "capture", job) /\ UNCHANGED inFlight
           ELSE Pictures!Landed(job) /\ UNCHANGED worker
  BY DEF Pictures!TakeJob
<1>3. job \in Jobs
  BY DEF PicturesTypeOK
<1>4. PoolStep
  BY <1>1, <1>2, LandedRemoves DEF PoolStep
<1>5. RefreshComes => RefreshComes'
  BY <1>1, <1>2 DEF RefreshComes, Pictures!Becomes, PicturesTypeOK
<1>6. CASE job.generation = generation
  <2>1. worker' = [worker EXCEPT ![k] = [at |-> "capture", job |-> job]] /\ inFlight' = inFlight
    BY <1>2, <1>6 DEF Pictures!Becomes
  <2>2. PicturesTypeOK'
    BY <1>1, <1>2, <1>3, <2>1 DEF PicturesTypeOK
  <2>3. \A w : JobComes(w) => JobComes(w)'
    <3> SUFFICES ASSUME NEW w, JobComes(w) PROVE JobComes(w)'
      OBVIOUS
    <3>1. CASE \E j \in jobs : j.of = w /\ j.generation = generation /\ j.overlay = drawn
      <4>1. PICK j \in jobs : j.of = w /\ j.generation = generation /\ j.overlay = drawn
        BY <3>1
      <4>2. CASE j = job
        <5>1. worker'[k].at = "capture" /\ worker'[k].job = job
          BY <2>1 DEF PicturesTypeOK
        <5> QED
          BY <1>1, <4>1, <4>2, <5>1 DEF JobComes
      <4>3. CASE j # job
        BY <1>1, <1>2, <4>1, <4>3 DEF JobComes
      <4> QED
        BY <4>2, <4>3
    <3>2. CASE \E n \in Workers :
                 worker[n].at = "capture" /\ worker[n].job.of = w /\ worker[n].job.overlay = drawn
      BY <1>1, <2>1, <3>2 DEF JobComes, PicturesTypeOK
    <3> QED
      BY <3>1, <3>2 DEF JobComes
  <2> QED
    BY <1>1, <1>4, <1>5, <2>2, <2>3, PoolKeeps
<1>7. CASE job.generation # generation
  <2>1. worker' = worker
    BY <1>2, <1>7
  <2>2. PicturesTypeOK'
    BY <1>1, <1>2, <1>4, <2>1 DEF PicturesTypeOK, PoolStep
  <2>3. \A w : JobComes(w) => JobComes(w)'
    BY <1>1, <1>2, <1>7, <2>1 DEF JobComes
  <2> QED
    BY <1>1, <1>4, <1>5, <2>2, <2>3, PoolKeeps
<1> QED
  BY <1>6, <1>7

\* A picture that is taken is in the cache before the thread asks for a refresh.
LEMMA CaptureStep ==
  ASSUME PicturesInv, NEW k \in Workers, Pictures!Capture(k)
  PROVE  PicturesInv'
<1> USE DEF PicturesInv
<1>1. PICK job : job = worker[k].job
  OBVIOUS
<1>2. /\ worker[k].at = "capture"
      /\ UNCHANGED <<main, drawn, tiles, layers, displayed, ready, pending, timers, generation,
                     jobs, updates, redraws, born>>
  BY DEF Pictures!Capture, Pictures!shownVars, Pictures!bounds
<1>3. job \in Jobs
  BY <1>1, <1>2 DEF PicturesTypeOK
<1>4. drawn # 0 => drawn \in 1..MaxUpdates
  BY PicturesAssumption DEF PicturesTypeOK, Pictures!PreviewsAssumption
<1>5. \A n \in Workers \ {k} : worker'[n] = worker[n]
  BY DEF Pictures!Capture, Pictures!Becomes, PicturesTypeOK
<1>6. RefreshComes => RefreshComes'
  BY <1>2, <1>5 DEF RefreshComes
<1>7. \A w : JobComes(w) => JobComes(w)' \/ (w = job.of /\ job.overlay = drawn)
  BY <1>1, <1>2, <1>5 DEF JobComes
<1>8. CASE /\ cache' = [cache EXCEPT ![job.overlay] = @ \cup {job.of}]
           /\ Pictures!Becomes(k, "captured", job) /\ UNCHANGED <<inFlight, failed>>
  <2>1. /\ worker' = [worker EXCEPT ![k] = [at |-> "captured", job |-> job]]
        /\ inFlight' = inFlight /\ failed' = failed
    BY <1>8 DEF Pictures!Becomes
  <2>2. cache' \in [1..MaxUpdates -> SUBSET PreviewWindows]
    BY <1>3, <1>8 DEF PicturesTypeOK, Jobs
  <2>3. PicturesTypeOK'
    BY <1>2, <1>3, <2>1, <2>2 DEF PicturesTypeOK
  <2>4. PoolStep
    BY <1>2, <2>1 DEF PoolStep
  <2>5. drawn # 0 => cache[drawn] \subseteq cache'[drawn]
    BY <1>4, <1>8 DEF PicturesTypeOK
  <2>6. job.overlay = drawn => RefreshComes'
    <3>1. worker'[k].at = "captured" /\ worker'[k].job = job
      BY <2>1 DEF PicturesTypeOK
    <3> QED
      BY <1>2, <3>1 DEF RefreshComes
  <2>7. job.overlay = drawn => job.of \in cache'[drawn]
    BY <1>3, <1>8 DEF PicturesTypeOK, Jobs
  <2>8. drawn # 0 => \A w \in cache'[drawn] \ cache[drawn] : RefreshComes'
    <3>1. job.overlay # drawn => cache'[drawn] = cache[drawn] \/ drawn = 0
      BY <1>4, <1>8 DEF PicturesTypeOK
    <3> QED
      BY <2>6, <3>1
  <2> QED
    BY <1>2, <1>6, <1>7, <2>1, <2>3, <2>4, <2>5, <2>6, <2>7, <2>8, PoolKeeps
<1>9. CASE /\ Pictures!Becomes(k, "idle", None) /\ Pictures!Landed(job)
           /\ failed' = (IF job.overlay = drawn THEN failed \cup {job.of} ELSE failed)
           /\ UNCHANGED cache
  <2>1. worker' = [worker EXCEPT ![k] = [at |-> "idle", job |-> None]]
    BY <1>9 DEF Pictures!Becomes
  <2>2. inFlight' \subseteq inFlight
    BY <1>9, LandedRemoves
  <2>3. PicturesTypeOK'
    BY <1>2, <1>9, <2>1, <2>2 DEF PicturesTypeOK
  <2>4. PoolStep
    BY <1>2, <2>2 DEF PoolStep
  <2> QED
    BY <1>2, <1>6, <1>7, <1>9, <2>3, <2>4, PoolKeeps
<1>10. \/ /\ cache' = [cache EXCEPT ![job.overlay] = @ \cup {job.of}]
          /\ Pictures!Becomes(k, "captured", job) /\ UNCHANGED <<inFlight, failed>>
       \/ /\ Pictures!Becomes(k, "idle", None) /\ Pictures!Landed(job)
          /\ failed' = (IF job.overlay = drawn THEN failed \cup {job.of} ELSE failed)
          /\ UNCHANGED cache
  BY <1>1 DEF Pictures!Capture
<1> QED
  BY <1>8, <1>9, <1>10

\* The thread asks for a refresh unless one has been asked for.
LEMMA RequestRefreshStep ==
  ASSUME PicturesInv, NEW k \in Workers, Pictures!RequestRefresh(k)
  PROVE  PicturesInv'
<1> USE DEF PicturesInv
<1>1. PICK job : job = worker[k].job
  OBVIOUS
<1>2. /\ worker[k].at = "captured" /\ Pictures!Landed(job)
      /\ worker' = [worker EXCEPT ![k] = [at |-> "idle", job |-> None]]
      /\ UNCHANGED <<main, drawn, tiles, layers, displayed, ready, cache, generation, jobs,
                     failed, updates, redraws, born>>
  BY <1>1 DEF Pictures!RequestRefresh, Pictures!Becomes, Pictures!shownVars, Pictures!bounds
<1>3. job \in Jobs
  BY <1>1, <1>2 DEF PicturesTypeOK
<1>4. drawn # 0 => drawn \in 1..MaxUpdates
  BY PicturesAssumption DEF PicturesTypeOK, Pictures!PreviewsAssumption
<1>5. \/ UNCHANGED <<pending, timers>> /\ job.overlay # drawn
      \/ /\ pending' = TRUE /\ drawn # 0
         /\ timers' = IF pending THEN timers ELSE timers \cup {drawn}
  <2>1. job.overlay # 0
    BY <1>3 DEF Jobs
  <2>2. CASE job.overlay = drawn
    BY <1>1, <2>1, <2>2 DEF Pictures!RequestRefresh, Pictures!Ask
  <2>3. CASE job.overlay # drawn
    BY <1>1, <2>3 DEF Pictures!RequestRefresh, Pictures!Ask
  <2> QED
    BY <2>2, <2>3
<1>6. inFlight' \subseteq inFlight
  BY <1>2, LandedRemoves
<1>7. PicturesTypeOK'
  <2>1. pending' \in BOOLEAN
    BY <1>5 DEF PicturesTypeOK
  <2>2. timers' \subseteq 1..MaxUpdates
    BY <1>4, <1>5 DEF PicturesTypeOK
  <2> QED
    BY <1>2, <1>6, <2>1, <2>2 DEF PicturesTypeOK
<1>8. PoolStep
  BY <1>2, <1>6 DEF PoolStep
<1>9. \A n \in Workers \ {k} : worker'[n] = worker[n]
  BY <1>2 DEF PicturesTypeOK
<1>10. \A w : JobComes(w) => JobComes(w)'
  BY <1>2, <1>9 DEF JobComes
<1>11. timers \subseteq timers' /\ (pending' => pending \/ drawn \in timers')
  BY <1>5
<1>12. drawn # 0 /\ RefreshComes => RefreshComes'
  <2>1. drawn # 0 /\ job.overlay = drawn => drawn \in timers'
    BY <1>5 DEF OverlayInv
  <2> QED
    BY <1>1, <1>2, <1>9, <1>11, <2>1 DEF RefreshComes
<1> QED
  BY <1>2, <1>7, <1>8, <1>10, <1>11, <1>12, PoolKeeps

-----------------------------------------------------------------------------
\* A step of another part, or none, leaves the pictures alone.
LEMMA OthersKeepPictures == PicturesInv /\ UNCHANGED pictureVars => PicturesInv'
<1> SUFFICES ASSUME PicturesInv, UNCHANGED pictureVars PROVE PicturesInv'
  OBVIOUS
<1> USE DEF PicturesInv
<1>1. UNCHANGED <<main, drawn, tiles, layers, displayed, ready, cache, pending, timers,
                  generation, inFlight, jobs, worker, failed, updates, redraws, born>>
  BY DEF pictureVars
<1>2. PicturesTypeOK'
  BY <1>1 DEF PicturesTypeOK
<1>3. OverlayInv' /\ EntriesAreOld'
  BY <1>1 DEF OverlayInv, EntriesAreOld
<1>4. \A w : JobComes(w) => JobComes(w)'
  BY <1>1 DEF JobComes
<1>5. RefreshComes => RefreshComes'
  BY <1>1 DEF RefreshComes
<1>6. EntriesAreTrue'
  BY <1>1, <1>4 DEF EntriesAreTrue
<1>7. PicturesCome'
  BY <1>1, <1>4, <1>5 DEF PicturesCome
<1> QED
  BY <1>2, <1>3, <1>6, <1>7

\* Every step keeps the invariant.
LEMMA PicturesStep ==
  PicturesInv /\ [MCNext]_<<part, vars, pictureVars, placingVars>> => PicturesInv'
<1> SUFFICES ASSUME PicturesInv, [MCNext]_<<part, vars, pictureVars, placingVars>>
             PROVE  PicturesInv'
  OBVIOUS
<1>1. CASE Pictures!Next
  <2>1. CASE Pictures!SetMode
    BY <2>1, SetModeStep
  <2>2. CASE Pictures!Prewarm
    BY <2>2, PrewarmStep
  <2>3. CASE Pictures!Draw
    <3>1. /\ main = "draw" /\ main' = "idle" /\ Pictures!Drawing /\ UNCHANGED <<updates, born>>
      BY <2>3 DEF Pictures!Draw, Pictures!bounds
    <3>2. drawn # 0
      BY <3>1 DEF PicturesInv, OverlayInv
    <3> QED
      BY <3>1, <3>2, DrawingStep
  <2>4. CASE Pictures!Redraw
    <3>1. /\ main = "idle" /\ main' = "idle" /\ drawn # 0 /\ Pictures!Drawing
          /\ UNCHANGED <<updates, born>>
      BY <2>4 DEF Pictures!Redraw
    <3> QED
      BY <3>1, DrawingStep
  <2>5. CASE Pictures!Dispose
    BY <2>5, DisposeStep
  <2>6. CASE Pictures!RefreshDue
    BY <2>6, RefreshDueStep
  <2>7. CASE Pictures!RefreshPreviews
    BY <2>7, RefreshStep
  <2>8. ASSUME NEW k \in Workers,
               Pictures!TakeJob(k) \/ Pictures!Capture(k) \/ Pictures!RequestRefresh(k)
        PROVE  PicturesInv'
    BY <2>8, TakeJobStep, CaptureStep, RequestRefreshStep
  <2> QED
    BY <1>1, <2>1, <2>2, <2>3, <2>4, <2>5, <2>6, <2>7, <2>8 DEF Pictures!Next
<1>2. CASE UNCHANGED pictureVars
  BY <1>2, OthersKeepPictures
<1> QED
  BY <1>1, <1>2 DEF MCNext

\* At rest there are no jobs and no refreshes to come.
LEMMA PicturesAreThere == PicturesInv => PreviewsAppear
<1> SUFFICES ASSUME PicturesInv, Pictures!AtRest, drawn # 0,
                    NEW w \in tiles, w \notin Unnamed, w \notin displayed, w \notin failed
             PROVE  FALSE
  BY DEF PreviewsAppear, Pictures!PreviewsAppear
<1>1. main = "idle" /\ timers = {} /\ jobs = {} /\ \A k \in Workers : worker[k].at = "idle"
  BY DEF Pictures!AtRest, Pictures!Idle
<1>2. ~RefreshComes /\ ~JobComes(w)
  BY <1>1 DEF RefreshComes, JobComes
<1> QED
  BY <1>1, <1>2 DEF PicturesInv, PicturesCome

\* When nothing is under way, every tile shows the picture of its window unless none could
\* be taken, however often the overlay is shown anew, redrawn and dropped in between.
THEOREM PreviewsCome == MCSpec => []PreviewsAppear
<1>1. MCInit => PicturesInv
  BY PicturesStart DEF MCInit
<1>2. PicturesInv /\ [MCNext]_<<part, vars, pictureVars, placingVars>> => PicturesInv'
  BY PicturesStep
<1> QED
  BY <1>1, <1>2, PicturesAreThere, PTL DEF MCSpec

-----------------------------------------------------------------------------
(* The pick.  What is drawn, and what travels, is a list of workspaces and a     *)
(* position in it; the position still names what was highlighted when it arrives. *)

Drawings == [display : Displays, list : Seq(Workspaces)]
Tiles == [id : Workspaces \cup Windows, full : BOOLEAN, active : BOOLEAN]
Overlays == [mode : {"all", "current"}, drawn : Drawings, selected : Nat \cup {None},
             tiles : Seq(Tiles)]
Sent == [kind : {"all", "current", "dismiss", "refresh", "switch", "focus", "number", "entered", "exited"},
         of : Nat \cup Workspaces \cup Windows \cup {None},
         meant : Workspaces \cup Windows \cup {None},
         drawn : Drawings \cup {None}]

\* A workspace is picked by its position in the list that was drawn.
Honest == {m \in Sent : m.kind = "switch" =>
             /\ m.drawn \in Drawings /\ m.of \in Nat
             /\ m.of + 1 \in DOMAIN m.drawn.list /\ m.drawn.list[m.of + 1] = m.meant}

\* The tiles of workspaces are those of the list, in its order, and one is highlighted
\* if any is to be seen.
Faithful(o) ==
  /\ o.mode = "all" => /\ DOMAIN o.tiles = DOMAIN o.drawn.list
                       /\ \A i \in DOMAIN o.tiles : o.tiles[i].id = o.drawn.list[i]
  /\ Visible(o) # <<>> => o.selected \in Nat

PickInv ==
  /\ owner \in [Workspaces -> Displays \cup {None}]
  /\ home \in [Windows -> Workspaces] /\ \A w \in Windows : owner[home[w]] \in Displays
  /\ context \in Displays /\ cursor \in Displays
  /\ view \in {"all", "current", None}
  /\ overlay # None => view # None
  /\ view # None => overlay \in Overlays /\ Faithful(overlay) /\ overlay.mode = view
  /\ {posted, rx, events} \subseteq Seq(Honest)
  /\ PickIsHonoured

\* A set of numbers has an element of every rank up to its size.
LEMMA Ranks ==
  ASSUME NEW is, is \subseteq Int, IsFiniteSet(is)
  PROVE  /\ Cardinality(is) \in Nat
         /\ \A k \in 1..Cardinality(is) : \E i \in is : Cardinality({j \in is : j <= i}) = k
<1> DEFINE n == Cardinality(is)
           below(i) == {j \in is : j <= i}
           rank == [i \in is |-> Cardinality(below(i))]
<1>1. n \in Nat
  BY FS_CardinalityType
<1>2. ASSUME NEW i \in is
      PROVE  IsFiniteSet(below(i)) /\ Cardinality(below(i)) \in 1..n
  <2>1. below(i) \in SUBSET is /\ i \in below(i)
    OBVIOUS
  <2>2. IsFiniteSet(below(i)) /\ Cardinality(below(i)) <= n
    BY <2>1, FS_Subset
  <2>3. Cardinality(below(i)) \in Nat
    BY <2>2, FS_CardinalityType
  <2>4. Cardinality(below(i)) # 0
    BY <2>1, <2>2, FS_EmptySet
  <2> QED
    BY <1>1, <2>2, <2>3, <2>4
<1>3. ASSUME NEW i \in is, NEW j \in is, rank[i] = rank[j], i < j
      PROVE  FALSE
  <2>1. below(i) \in SUBSET below(j) /\ j \in below(j) /\ j \notin below(i)
    <3>1. i \in Int /\ j \in Int /\ i < j
      BY <1>3
    <3>2. \A k \in is : k <= i => k <= j
      BY <3>1
    <3>3. i \in is /\ j \in is /\ i <= i /\ j <= j /\ ~(j <= i)
      BY <3>1
    <3> QED
      BY <3>2, <3>3, Zenon
  <2>2. IsFiniteSet(below(j)) /\ Cardinality(below(i)) = Cardinality(below(j))
    BY <1>2, <1>3
  <2>3. below(i) = below(j)
    <3> HIDE DEF below
    <3> QED BY <2>1, <2>2, FS_Subset
  <2> QED
    BY <2>1, <2>3
<1>4. rank \in Injection(is, 1..n)
  <2>1. rank \in [is -> 1..n]
    BY <1>2
  <2>2. \A i, j \in is : rank[i] = rank[j] => i = j
    BY <1>3
  <2> QED
    BY <2>1, <2>2, Zenon DEF Injection, IsInjective
<1>5. IsFiniteSet(1..n) /\ Cardinality(1..n) = n
  BY <1>1, FS_Interval
<1>6. rank \in Surjection(is, 1..n)
  BY <1>4, <1>5, FS_Injection
<1> QED
  BY <1>1, <1>6 DEF Surjection

\* What is at some positions of a sequence is a sequence of elements at these positions.
LEMMA ElementsAt ==
  ASSUME NEW S, NEW seq \in Seq(S), NEW is, is \subseteq DOMAIN seq
  PROVE  /\ At(seq, is) \in Seq(S)
         /\ \A k \in DOMAIN At(seq, is) : \E i \in is : At(seq, is)[k] = seq[i]
         /\ At(seq, is) = <<>> <=> is = {}
<1>1. is \subseteq Int /\ is \in SUBSET (1..Len(seq)) /\ Len(seq) \in Int
  OBVIOUS
<1>2. IsFiniteSet(is)
  BY <1>1, FS_Interval, FS_Subset
<1>3. PICK n \in Nat : n = Cardinality(is)
  BY <1>1, <1>2, Ranks
<1> DEFINE pos(k) == CHOOSE i \in is : Cardinality({j \in is : j <= i}) = k
<1>4. \A k \in 1..n : pos(k) \in is
  BY <1>1, <1>2, <1>3, Ranks
<1>5. At(seq, is) = [k \in 1..n |-> seq[pos(k)]]
  BY <1>3 DEF At
<1>6. \A k \in 1..n : seq[pos(k)] \in S
  <2>1. \A i \in is : seq[i] \in S
    OBVIOUS
  <2> HIDE DEF pos
  <2> QED
    BY <1>4, <2>1
<1>7. \A k \in 1..n : At(seq, is)[k] = seq[pos(k)]
  BY <1>5
<1>8. At(seq, is) \in Seq(S) /\ DOMAIN At(seq, is) = 1..n
  <2> DEFINE f == [k \in 1..n |-> seq[pos(k)]]
  <2>1. f \in [1..n -> S]
    BY <1>6
  <2>2. At(seq, is) = f
    BY <1>5
  <2> HIDE DEF f
  <2>3. f \in Seq(S) /\ DOMAIN f = 1..n
    BY <2>1
  <2> QED
    BY <2>2, <2>3
<1>9. n = 0 <=> is = {}
  BY <1>2, <1>3, FS_EmptySet
<1>10. At(seq, is) = <<>> <=> n = 0
  BY <1>3, <1>8
<1> QED
  BY <1>4, <1>7, <1>8, <1>9, <1>10

\* A finite set of numbers has a least element.
LEMMA LeastOf ==
  ASSUME NEW is, is \subseteq Int, IsFiniteSet(is), is # {}
  PROVE  \E i \in is : \A j \in is : i <= j
<1>1. Cardinality(is) \in Nat /\ Cardinality(is) # 0
  BY FS_CardinalityType, FS_EmptySet
<1>2. PICK i \in is : Cardinality({j \in is : j <= i}) = 1
  <2>1. \A k \in 1..Cardinality(is) : \E i \in is : Cardinality({j \in is : j <= i}) = k
    BY Ranks
  <2>2. 1 \in 1..Cardinality(is)
    BY <1>1
  <2> QED
    BY <2>1, <2>2, Zenon
<1>3. IsFiniteSet({j \in is : j <= i})
  BY FS_Subset
<1>4. PICK x : {j \in is : j <= i} = {x}
  BY <1>2, <1>3, FS_Singleton
<1>5. i \in Int /\ i <= i
  OBVIOUS
<1>6. i = x
  BY <1>4, <1>5
<1>7. ASSUME NEW j \in is PROVE i <= j
  <2>1. j <= i => j = i
    BY <1>4, <1>6
  <2> QED
    BY <2>1, <1>5
<1> QED
  BY <1>7

\* What the overlay is drawn from.
LEMMA DrawnTyped ==
  ASSUME NEW d \in Displays
  PROVE  ListOf(d) \in Seq(Workspaces) /\ Drawn(d) \in Drawings /\ Drawn(d).list = ListOf(d)
<1>1. {i \in DOMAIN Order : owner[Order[i]] = d} \subseteq DOMAIN Order
  OBVIOUS
<1>2. ListOf(d) \in Seq(Workspaces)
  BY <1>1, ElementsAt, PicksAssumption DEF ListOf, OverviewAssumption, Workspaces
<1> QED
  BY <1>2 DEF Drawn, Drawings

\* The visible tiles are some of the tiles.
LEMMA VisibleTyped ==
  ASSUME NEW o, o.tiles \in Seq(Tiles)
  PROVE  /\ Visible(o) \in Seq(Tiles)
         /\ \A k \in DOMAIN Visible(o) : \E i \in DOMAIN o.tiles : Visible(o)[k] = o.tiles[i]
<1> DEFINE is == {i \in DOMAIN o.tiles : o.tiles[i].full \/ o.tiles[i].active}
<1>1. is \subseteq DOMAIN o.tiles
  OBVIOUS
<1>2. Visible(o) = At(o.tiles, is)
  BY DEF Visible
<1> HIDE DEF is
<1>3. /\ At(o.tiles, is) \in Seq(Tiles)
      /\ \A k \in DOMAIN At(o.tiles, is) : \E i \in is : At(o.tiles, is)[k] = o.tiles[i]
  BY <1>1, ElementsAt
<1> QED
  BY <1>1, <1>2, <1>3, Zenon

\* If a tile is to be seen, one is highlighted.
LEMMA ChosenTyped ==
  ASSUME NEW o, o.tiles \in Seq(Tiles), o.selected = None
  PROVE  /\ Chosen(o) \in Nat \cup {None}
         /\ Visible(o) # <<>> => Chosen(o) \in Nat
<1> DEFINE vs == Visible(o)
           is == {i \in DOMAIN vs : vs[i].active}
           first(i) == vs[i].active /\ \A j \in 1..(i - 1) : ~vs[j].active
<1>1. vs \in Seq(Tiles) /\ DOMAIN vs = 1..Len(vs) /\ Len(vs) \in Nat
  BY VisibleTyped
<1>2. CASE vs # <<>> /\ is # {}
  <2>1. IsFiniteSet(is) /\ is \subseteq Int
    <3>1. is \in SUBSET (1..Len(vs))
      BY <1>1
    <3>2. IsFiniteSet(1..Len(vs))
      BY <1>1, FS_Interval
    <3>3. IsFiniteSet(is)
      BY <3>1, <3>2, FS_Subset
    <3> QED
      BY <1>1, <3>3
  <2>2. PICK i \in is : \A j \in is : i <= j
    BY <1>2, <2>1, LeastOf
  <2>3. i \in DOMAIN vs /\ first(i)
    <3>1. \A j \in 1..(i - 1) : j \in DOMAIN vs /\ ~(i <= j)
      BY <1>1
    <3> QED
      BY <2>2, <3>1
  <2>4. (CHOOSE k \in DOMAIN vs : first(k)) \in DOMAIN vs
    BY <2>3
  <2>5. Chosen(o) = (CHOOSE k \in DOMAIN vs : first(k)) - 1
    BY <1>2 DEF Chosen
  <2> HIDE DEF first
  <2> QED
    BY <1>1, <2>4, <2>5
<1>3. CASE vs = <<>>
  BY <1>3 DEF Chosen
<1>4. CASE vs # <<>> /\ is = {}
  BY <1>4 DEF Chosen
<1> QED
  BY <1>2, <1>3, <1>4

\* What is drawn anew shows the list it was drawn from.
LEMMA FreshFaithful ==
  ASSUME PickInv, NEW mode \in {"all", "current"}
  PROVE  Fresh(mode) \in Overlays /\ Fresh(mode).mode = mode /\ Faithful(Fresh(mode))
<1> DEFINE tilesOf == IF mode = "all" THEN WorkspaceTiles ELSE WindowTiles
           o == [mode |-> mode, drawn |-> Drawn(context), selected |-> None, tiles |-> tilesOf]
<1>1. ListOf(context) \in Seq(Workspaces) /\ Drawn(context) \in Drawings
         /\ Drawn(context).list = ListOf(context)
  BY DrawnTyped DEF PickInv
<1>2. /\ WorkspaceTiles \in Seq(Tiles) /\ DOMAIN WorkspaceTiles = DOMAIN ListOf(context)
      /\ \A i \in DOMAIN WorkspaceTiles : WorkspaceTiles[i].id = ListOf(context)[i]
  <2> DEFINE list == ListOf(context)
             tile(i) == [id |-> list[i], full |-> \E w \in Windows : home[w] = list[i],
                         active |-> shown[context] = list[i]]
  <2>1. WorkspaceTiles = [i \in DOMAIN list |-> tile(i)]
    BY DEF WorkspaceTiles
  <2> HIDE DEF list
  <2>2. list \in Seq(Workspaces)
    BY <1>1 DEF list
  <2>3. \A i \in DOMAIN list : tile(i) \in Tiles /\ tile(i).id = list[i]
    BY <2>2 DEF Tiles
  <2> HIDE DEF tile
  <2>4. WorkspaceTiles \in Seq(Tiles) /\ DOMAIN WorkspaceTiles = DOMAIN list
    BY <2>1, <2>2, <2>3
  <2>5. \A i \in DOMAIN list : WorkspaceTiles[i] = tile(i)
    BY <2>1
  <2> QED
    BY <2>3, <2>4, <2>5 DEF list
<1>3. WindowTiles \in Seq(Tiles)
  <2> DEFINE is == {i \in DOMAIN WindowOrder : home[WindowOrder[i]] = shown[context]}
             ws == At(WindowOrder, is)
  <2>1. is \subseteq DOMAIN WindowOrder
    OBVIOUS
  <2>2. ws \in Seq(Windows)
    BY <2>1, ElementsAt, PicksAssumption DEF OverviewAssumption, Windows
  <2> DEFINE tile(i) == [id |-> ws[i], full |-> TRUE, active |-> focus = ws[i]]
  <2>3. WindowTiles = [i \in DOMAIN ws |-> tile(i)]
    BY DEF WindowTiles
  <2> HIDE DEF ws
  <2>4. \A i \in DOMAIN ws : tile(i) \in Tiles
    BY <2>2 DEF Tiles
  <2> HIDE DEF tile
  <2> QED
    BY <2>2, <2>3, <2>4
<1>4. tilesOf \in Seq(Tiles)
  BY <1>2, <1>3
<1> HIDE DEF tilesOf
<1>5. o \in Overlays /\ o.tiles \in Seq(Tiles) /\ o.selected = None
  BY <1>1, <1>4 DEF Overlays
<1>6. Fresh(mode) = [o EXCEPT !.selected = Chosen(o)]
  BY DEF Fresh, tilesOf
<1>7. Chosen(o) \in Nat \cup {None} /\ (Visible(o) # <<>> => Chosen(o) \in Nat)
  BY <1>5, ChosenTyped
<1>8. /\ Fresh(mode) \in Overlays /\ Fresh(mode).mode = mode /\ Fresh(mode).tiles = tilesOf
      /\ Fresh(mode).drawn = Drawn(context) /\ Fresh(mode).selected = Chosen(o)
  <2> HIDE DEF o
  <2>1. o \in Overlays /\ o.mode = mode /\ o.tiles = tilesOf /\ o.drawn = Drawn(context)
    BY <1>5 DEF o
  <2> QED
    BY <1>6, <1>7, <2>1 DEF Overlays
<1>9. Visible(Fresh(mode)) = Visible(o)
  BY <1>8 DEF Visible
<1>10. mode = "all" => tilesOf = WorkspaceTiles
  BY DEF tilesOf
<1> QED
  BY <1>1, <1>2, <1>7, <1>8, <1>9, <1>10 DEF Faithful

\* Going round a row of tiles.
LEMMA Round ==
  ASSUME NEW c \in Nat \ {0}
  PROVE  /\ \A x \in Int : x % c \in 0..(c - 1)
         /\ \A q \in 0..(c - 1) : (q + c) % c = q /\ (q - c) % c = q
OBVIOUS

\* The keys lead from a tile to a tile.
LEMMA SidewaysTyped ==
  ASSUME NEW n \in Nat \ {0}, NEW i \in 0..(n - 1), NEW step \in {-1, 1}
  PROVE  Sideways(n, i, step) \in Nat
<1> DEFINE c == Columns(n)
           q == i \div 2
           spot(k) == ((q + step * k) % c) * 2 + (i % 2)
           ks == {k \in 1..c : spot(k) < n}
           good(k) == spot(k) < n /\ \A l \in 1..(k - 1) : spot(l) >= n
<1>1. c \in Nat \ {0} /\ q \in 0..(c - 1) /\ i = 2 * q + (i % 2) /\ i % 2 \in {0, 1}
  BY DEF Columns
<1>2. \A x \in Int : x % c \in 0..(c - 1)
  <2> HIDE DEF c
  <2> QED BY <1>1, Round
<1>3. c \in ks
  <2>1. (q + step * c) % c = q
    <3> HIDE DEF c, q
    <3>1. (q + c) % c = q /\ (q - c) % c = q
      BY <1>1, Round
    <3>2. q + 1 * c = q + c /\ q + (-1) * c = q - c
      BY <1>1
    <3> QED
      BY <3>1, <3>2
  <2>2. spot(c) = i
    <3> HIDE DEF c, q
    <3> QED BY <2>1, <1>1
  <2> HIDE DEF c, q
  <2> QED
    BY <1>1, <2>2
<1>4. \A k \in 1..c : spot(k) \in Nat
  <2> HIDE DEF c, q
  <2> SUFFICES ASSUME NEW k \in 1..c PROVE spot(k) \in Nat
    OBVIOUS
  <2>1. q + step * k \in Int
    BY <1>1
  <2>2. (q + step * k) % c \in 0..(c - 1)
    BY <2>1, <1>2
  <2> QED
    BY <2>2, <1>1
<1> HIDE DEF c, q
<1>5. IsFiniteSet(ks) /\ ks \subseteq Int
  <2>1. ks \in SUBSET (1..c) /\ IsFiniteSet(1..c)
    BY <1>1, FS_Interval
  <2> HIDE DEF ks
  <2>2. IsFiniteSet(ks)
    BY <2>1, FS_Subset
  <2> QED
    BY <2>1, <2>2
<1>6. PICK k \in ks : \A l \in ks : k <= l
  <2> HIDE DEF ks
  <2> QED BY <1>3, <1>5, LeastOf
<1>7. k \in 1..c /\ good(k)
  <2>1. k \in 1..c /\ spot(k) < n
    BY <1>6
  <2>2. ASSUME NEW l \in 1..(k - 1) PROVE spot(l) >= n
    <3>1. l \in 1..c /\ ~(k <= l)
      BY <1>1, <2>1
    <3>2. ~(spot(l) < n)
      BY <1>6, <3>1
    <3>3. spot(l) \in Nat
      BY <1>4, <3>1
    <3> HIDE DEF spot
    <3> QED
      BY <3>2, <3>3
  <2> QED
    BY <2>1, <2>2
<1>8. (CHOOSE k0 \in 1..c : good(k0)) \in 1..c
  <2> HIDE DEF good
  <2> QED BY <1>7
<1>9. Sideways(n, i, step) = spot(CHOOSE k0 \in 1..c : good(k0))
  BY DEF Sideways, c, q
<1> HIDE DEF spot, good
<1> QED
  BY <1>4, <1>8, <1>9

LEMMA NearestTyped ==
  ASSUME NEW n \in Nat, n >= 2, NEW column \in 0..n
  PROVE  NearestBottom(n, column) \in 0..(n - 1)
<1> DEFINE bottom == {i \in 0..(n - 1) : i % 2 = 1}
           far(i) == Apart(column, i \div 2)
           fars == {d \in 0..n : \E i \in bottom : far(i) = d}
<1>1. 1 \in bottom /\ \A i \in bottom : far(i) \in 0..n
  BY DEF Apart
<1> DEFINE best(i) == i % 2 = 1 /\ \A j \in 0..(n - 1) :
                         j % 2 = 1 => far(i) < far(j) \/ (far(i) = far(j) /\ i <= j)
<1>2. NearestBottom(n, column) = CHOOSE i \in 0..(n - 1) : best(i)
  BY DEF NearestBottom
<1> HIDE DEF far
<1>3. IsFiniteSet(0..n) /\ IsFiniteSet(0..(n - 1))
  BY FS_Interval
<1>4. PICK d \in fars : \A e \in fars : d <= e
  <2>1. fars \in SUBSET (0..n) /\ fars # {} /\ fars \subseteq Int
    BY <1>1
  <2>2. IsFiniteSet(fars)
    <3> HIDE DEF fars
    <3> QED BY <1>3, <2>1, FS_Subset
  <2> HIDE DEF fars
  <2> QED BY <2>1, <2>2, LeastOf
<1> DEFINE nearest == {i \in bottom : far(i) = d}
<1>5. PICK i \in nearest : \A j \in nearest : i <= j
  <2>1. nearest \in SUBSET (0..(n - 1)) /\ nearest # {} /\ nearest \subseteq Int
    BY <1>4
  <2>2. IsFiniteSet(nearest)
    <3> HIDE DEF nearest
    <3> QED BY <1>3, <2>1, FS_Subset
  <2> HIDE DEF nearest
  <2> QED BY <2>1, <2>2, LeastOf
<1>6. i \in 0..(n - 1) /\ i % 2 = 1 /\ far(i) = d
  BY <1>5
<1>7. ASSUME NEW j \in 0..(n - 1), j % 2 = 1
      PROVE  far(i) < far(j) \/ (far(i) = far(j) /\ i <= j)
  <2>1. j \in bottom /\ far(j) \in 0..n /\ far(j) \in fars
    BY <1>1, <1>7
  <2>2. d <= far(j) /\ d \in 0..n
    BY <1>4, <2>1
  <2>3. far(j) = d => i <= j
    BY <1>5, <2>1
  <2> QED
    BY <1>6, <2>1, <2>2, <2>3
<1>8. best(i)
  BY <1>6, <1>7
<1>9. (CHOOSE k \in 0..(n - 1) : best(k)) \in 0..(n - 1)
  <2> HIDE DEF best
  <2> QED BY <1>6, <1>8
<1> QED
  BY <1>2, <1>9

LEMMA NavigateTyped ==
  ASSUME NEW mode, NEW n \in Nat \ {0}, NEW i \in 0..(n - 1), NEW direction
  PROVE  Navigate(mode, n, i, direction) \in Nat
<1>1. \A step \in {-1, 1} : (i + step) % n \in Nat /\ Sideways(n, i, step) \in Nat
  BY Round, SidewaysTyped
<1>2. Rows(mode, n) # 1 => n >= 2
  BY DEF Rows, Columns
<1>3. n >= 2 => NearestBottom(n, i \div 2) \in Nat
  <2>1. i \div 2 \in 0..n
    OBVIOUS
  <2> QED
    BY <2>1, NearestTyped
<1>4. (i % 2 = 1 => i - 1 \in Nat) /\ (i \div 2) * 2 + 1 \in Nat
  OBVIOUS
<1> QED
  BY <1>1, <1>2, <1>3, <1>4 DEF Navigate

LEMMA CycleTyped ==
  ASSUME NEW mode, NEW n \in Nat \ {0}, NEW i \in 0..(n - 1), NEW step \in {-1, 1}
  PROVE  Cycle(mode, n, i, step) \in Nat
<1> DEFINE order == IF Rows(mode, n) = 1 THEN [k \in 1..n |-> k - 1]
                    ELSE [k \in 1..n |-> IF k <= Columns(n) THEN 2 * (k - 1)
                                         ELSE 2 * (k - 1 - Columns(n)) + 1]
           spot == CHOOSE k \in 1..n : order[k] = i
<1>1. \A k \in 1..n : order[k] \in Nat
  BY DEF Columns
<1>2. \E k \in 1..n : order[k] = i
  <2>1. CASE Rows(mode, n) = 1
    BY <2>1
  <2>2. CASE Rows(mode, n) # 1 /\ i % 2 = 0
    <3>1. i \div 2 + 1 \in 1..n /\ i \div 2 + 1 <= Columns(n) /\ 2 * (i \div 2) = i
      BY <2>2 DEF Columns
    <3> QED
      BY <2>2, <3>1
  <2>3. CASE Rows(mode, n) # 1 /\ i % 2 = 1
    <3>1. PICK m \in Nat : i = 2 * m + 1
      BY <2>3
    <3>2. PICK c \in Nat : Columns(n) = c /\ (n = 2 * c \/ n = 2 * c - 1)
      BY DEF Columns
    <3>3. c + 1 + m \in 1..n /\ ~(c + 1 + m <= c)
      BY <3>1, <3>2
    <3>4. order[c + 1 + m] = 2 * (c + 1 + m - 1 - c) + 1
      BY <2>3, <3>2, <3>3
    <3>5. 2 * (c + 1 + m - 1 - c) + 1 = i
      BY <3>1, <3>2
    <3> QED
      BY <3>3, <3>4, <3>5
  <2> QED
    BY <2>1, <2>2, <2>3
<1>3. Cycle(mode, n, i, step) = order[((spot - 1 + step) % n) + 1]
  BY DEF Cycle
<1> HIDE DEF order
<1>4. spot \in 1..n
  BY <1>2
<1>5. ((spot - 1 + step) % n) + 1 \in 1..n
  <2>1. spot - 1 + step \in Int
    BY <1>4
  <2>2. (spot - 1 + step) % n \in 0..(n - 1)
    BY <2>1, Round
  <2> QED
    BY <2>2
<1> QED
  BY <1>1, <1>3, <1>5

\* The highlight may be put on any tile.
LEMMA SelectedFaithful ==
  ASSUME NEW o \in Overlays, Faithful(o), NEW spot \in Nat
  PROVE  /\ [o EXCEPT !.selected = spot] \in Overlays /\ Faithful([o EXCEPT !.selected = spot])
         /\ [o EXCEPT !.selected = spot].mode = o.mode
<1> DEFINE p == [o EXCEPT !.selected = spot]
<1>1. /\ p \in Overlays /\ p.mode = o.mode /\ p.drawn = o.drawn /\ p.tiles = o.tiles
      /\ p.selected = spot
  BY DEF Overlays
<1> HIDE DEF p
<1>2. Faithful(p)
  BY <1>1 DEF Faithful
<1> QED
  BY <1>1, <1>2 DEF p

\* The highlighted tile is one that is to be seen.
LEMMA ClampedTyped ==
  ASSUME NEW o \in Overlays, Faithful(o), Visible(o) # <<>>
  PROVE  /\ Len(Visible(o)) \in Nat \ {0} /\ Clamped(o) \in 0..(Len(Visible(o)) - 1)
         /\ Clamped(o) + 1 \in DOMAIN Visible(o)
<1>1. Visible(o) \in Seq(Tiles)
  BY VisibleTyped DEF Overlays
<1>2. Len(Visible(o)) \in Nat \ {0} /\ o.selected \in Nat /\ DOMAIN Visible(o) = 1..Len(Visible(o))
  BY <1>1 DEF Faithful
<1>3. Clamped(o) \in {o.selected, Len(Visible(o)) - 1} /\ Clamped(o) <= Len(Visible(o)) - 1
  <2> DEFINE is == {o.selected, Len(Visible(o)) - 1}
             least(x) == \A y \in is : x <= y
  <2>1. \E x \in is : least(x)
    <3>1. o.selected <= Len(Visible(o)) - 1 \/ Len(Visible(o)) - 1 <= o.selected
      BY <1>2
    <3> QED
      BY <1>2, <3>1
  <2>2. Clamped(o) = CHOOSE x \in is : least(x)
    BY DEF Clamped, Min
  <2> HIDE DEF least
  <2>3. Clamped(o) \in is /\ least(Clamped(o))
    BY <2>1, <2>2
  <2> QED
    BY <2>3 DEF least
<1> QED
  BY <1>2, <1>3

\* Moving the highlight keeps it on the overlay.
LEMMA AdjustedFaithful ==
  ASSUME NEW o \in Overlays, Faithful(o),
         NEW direction \in {"left", "right", "up", "down", "tab", "back"}
  PROVE  /\ Adjusted(o, direction) \in Overlays /\ Faithful(Adjusted(o, direction))
         /\ Adjusted(o, direction).mode = o.mode
<1>1. CASE Visible(o) = <<>>
  BY <1>1 DEF Adjusted
<1>2. CASE Visible(o) # <<>>
  <2> DEFINE n == Len(Visible(o))
  <2>1. o.tiles \in Seq(Tiles) /\ Visible(o) \in Seq(Tiles)
    BY VisibleTyped DEF Overlays
  <2>2. n \in Nat \ {0} /\ Clamped(o) \in 0..(n - 1)
    BY <1>2, <2>1, ClampedTyped
  <2>3. PICK spot \in Nat : Adjusted(o, direction) = [o EXCEPT !.selected = spot]
    <3> HIDE DEF n
    <3>1. \A step \in {-1, 1} : Cycle(o.mode, n, Clamped(o), step) \in Nat
      BY <2>2, CycleTyped
    <3>2. Navigate(o.mode, n, Clamped(o), direction) \in Nat
      BY <2>2, NavigateTyped
    <3> QED
      BY <1>2, <3>1, <3>2 DEF Adjusted, n
  <2> QED
    BY <2>3, SelectedFaithful
<1> QED
  BY <1>1, <1>2

\* A new highlight shows the same tiles of the same workspaces.
LEMMA HighlightedFaithful ==
  ASSUME NEW o \in Overlays, Faithful(o)
  PROVE  /\ Highlighted(o) \in Overlays /\ Faithful(Highlighted(o))
         /\ Highlighted(o).mode = o.mode
<1> DEFINE tilesOf == [i \in DOMAIN o.tiles |->
                          [o.tiles[i] EXCEPT !.active = o.tiles[i].id = shown[context]]]
           p == [o EXCEPT !.tiles = tilesOf]
           q == [p EXCEPT !.selected = None]
           some == \E t \in Range(p.tiles) : t.active
<1>1. /\ tilesOf \in Seq(Tiles) /\ DOMAIN tilesOf = DOMAIN o.tiles
      /\ \A i \in DOMAIN o.tiles : /\ tilesOf[i].id = o.tiles[i].id
                                   /\ tilesOf[i].full = o.tiles[i].full
  <2> DEFINE tile(i) == [o.tiles[i] EXCEPT !.active = o.tiles[i].id = shown[context]]
  <2>1. o.tiles \in Seq(Tiles)
    BY DEF Overlays
  <2>2. \A i \in DOMAIN o.tiles : /\ tile(i) \in Tiles
                                  /\ tile(i).id = o.tiles[i].id /\ tile(i).full = o.tiles[i].full
    <3>1. \A t \in Tiles, b \in BOOLEAN :
            /\ [t EXCEPT !.active = b] \in Tiles
            /\ [t EXCEPT !.active = b].id = t.id /\ [t EXCEPT !.active = b].full = t.full
      BY DEF Tiles
    <3>2. \A i \in DOMAIN o.tiles :
            o.tiles[i] \in Tiles /\ (o.tiles[i].id = shown[context]) \in BOOLEAN
      BY <2>1
    <3> QED
      BY <3>1, <3>2, Zenon
  <2>3. tilesOf = [i \in DOMAIN o.tiles |-> tile(i)]
    OBVIOUS
  <2> HIDE DEF tile, tilesOf
  <2> QED
    BY <2>1, <2>2, <2>3
<1> HIDE DEF tilesOf
<1>2. /\ p \in Overlays /\ p.mode = o.mode /\ p.drawn = o.drawn /\ p.tiles = tilesOf
      /\ p.selected = o.selected
  BY <1>1 DEF Overlays
<1> HIDE DEF p
<1>3. /\ q \in Overlays /\ q.mode = o.mode /\ q.drawn = o.drawn /\ q.tiles = tilesOf
      /\ q.selected = None
  BY <1>2 DEF Overlays
<1> HIDE DEF q
<1>4. Chosen(q) \in Nat \cup {None} /\ (Visible(q) # <<>> => Chosen(q) \in Nat)
  BY <1>1, <1>3, ChosenTyped
<1>5. CASE some
  <2> DEFINE r == [p EXCEPT !.selected = Chosen(q)]
  <2>1. Highlighted(o) = r
    BY <1>5 DEF Highlighted, p, q, tilesOf
  <2>2. /\ r \in Overlays /\ r.mode = o.mode /\ r.drawn = o.drawn /\ r.tiles = tilesOf
        /\ r.selected = Chosen(q)
    BY <1>2, <1>4 DEF Overlays
  <2> HIDE DEF r
  <2>3. Visible(r) = Visible(q)
    BY <1>3, <2>2 DEF Visible
  <2>4. Faithful(r)
    BY <1>1, <1>4, <2>2, <2>3 DEF Faithful
  <2> QED
    BY <2>1, <2>2, <2>4
<1>6. CASE ~some
  <2>1. Highlighted(o) = p
    BY <1>6 DEF Highlighted, p, q, tilesOf
  <2>2. \A i \in DOMAIN tilesOf : ~tilesOf[i].active
    BY <1>2, <1>6 DEF Range
  <2>3. Visible(p) # <<>> => Visible(o) # <<>>
    <3> DEFINE is(t) == {i \in DOMAIN t : t[i].full \/ t[i].active}
    <3>1. is(tilesOf) \subseteq is(o.tiles)
      BY <1>1, <2>2
    <3>2. Visible(p) = At(tilesOf, is(tilesOf)) /\ Visible(o) = At(o.tiles, is(o.tiles))
      BY <1>2 DEF Visible
    <3>3. is(tilesOf) \subseteq DOMAIN tilesOf /\ is(o.tiles) \subseteq DOMAIN o.tiles
      OBVIOUS
    <3>4. o.tiles \in Seq(Tiles)
      BY DEF Overlays
    <3> HIDE DEF is
    <3>5. /\ At(tilesOf, is(tilesOf)) = <<>> <=> is(tilesOf) = {}
          /\ At(o.tiles, is(o.tiles)) = <<>> <=> is(o.tiles) = {}
      BY <1>1, <3>3, <3>4, ElementsAt
    <3> QED
      BY <3>1, <3>2, <3>5
  <2>4. Faithful(p)
    BY <1>1, <1>2, <2>3 DEF Faithful
  <2> QED
    BY <1>2, <2>1, <2>4
<1> QED
  BY <1>5, <1>6

\* What is picked is what is highlighted.
LEMMA PickHonest ==
  ASSUME NEW o \in Overlays, Faithful(o), Visible(o) # <<>>
  PROVE  Pick(o) \in Honest
<1> DEFINE id == Visible(o)[Clamped(o) + 1].id
           original == (CHOOSE i \in DOMAIN o.tiles : o.tiles[i].id = id) - 1
<1>1. o.tiles \in Seq(Tiles) /\ o.mode \in {"all", "current"} /\ o.drawn \in Drawings
  BY DEF Overlays
<1>2. \E i \in DOMAIN o.tiles : o.tiles[i].id = id
  <2>1. Clamped(o) + 1 \in DOMAIN Visible(o)
    BY ClampedTyped
  <2>2. PICK i \in DOMAIN o.tiles : Visible(o)[Clamped(o) + 1] = o.tiles[i]
    BY <1>1, <2>1, VisibleTyped
  <2> QED
    BY <2>2
<1> DEFINE spot == CHOOSE i \in DOMAIN o.tiles : o.tiles[i].id = id
<1>3. spot \in DOMAIN o.tiles /\ o.tiles[spot].id = id
  <2> HIDE DEF id
  <2> QED
    BY <1>2
<1>4. /\ original \in Nat /\ id \in Workspaces \cup Windows
      /\ original + 1 \in DOMAIN o.tiles /\ o.tiles[original + 1].id = id
  <2>1. original = spot - 1
    OBVIOUS
  <2> HIDE DEF original, spot, id
  <2>2. spot \in Nat \ {0} /\ original + 1 = spot
    <3>1. DOMAIN o.tiles = 1..Len(o.tiles) /\ Len(o.tiles) \in Nat
      BY <1>1
    <3>2. spot \in 1..Len(o.tiles)
      BY <1>3, <3>1
    <3> QED
      BY <2>1, <3>1, <3>2
  <2>3. id \in Workspaces \cup Windows
    <3>1. \A i \in DOMAIN o.tiles : o.tiles[i] \in Tiles
      BY <1>1
    <3>2. o.tiles[spot] \in Tiles /\ o.tiles[spot].id = id
      BY <1>3, <3>1
    <3>3. \A t \in Tiles : t.id \in Workspaces \cup Windows
      BY DEF Tiles
    <3> QED
      BY <3>2, <3>3, Zenon
  <2> QED
    BY <1>3, <2>1, <2>2, <2>3
<1>5. Pick(o) = IF o.mode = "all" THEN Action("switch", original, id, o.drawn)
                ELSE Action("focus", id, id, o.drawn)
  BY DEF Pick
<1> HIDE DEF id, original
<1>6. CASE o.mode = "all"
  <2>1. original + 1 \in DOMAIN o.drawn.list /\ o.drawn.list[original + 1] = id
    BY <1>4, <1>6 DEF Faithful
  <2> QED
    BY <1>1, <1>4, <1>5, <1>6, <2>1 DEF Action, Honest, Sent
<1>7. CASE o.mode # "all"
  BY <1>1, <1>4, <1>5, <1>7 DEF Action, Honest, Sent
<1> QED
  BY <1>6, <1>7

LEMMA MessageHonest ==
  ASSUME NEW kind \in {"all", "current", "dismiss", "refresh", "entered", "exited"}
  PROVE  Message(kind) \in Honest
BY DEF Message, Action, Honest, Sent

LEMMA PickStart == Init => PickInv
<1> SUFFICES ASSUME Init PROVE PickInv
  OBVIOUS
<1>1. owner \in [Workspaces -> Displays \cup {None}]
  <2>1. PICK f \in [Displays -> Workspaces] :
          owner = [s \in Workspaces |->
                     IF s \in Range(f) THEN CHOOSE d \in Displays : f[d] = s
                     ELSE IF s = Last(Order) THEN None ELSE CHOOSE d \in Displays : TRUE]
    BY DEF Init
  <2>2. \A s \in Range(f) : (CHOOSE d \in Displays : f[d] = s) \in Displays
    BY DEF Range
  <2>3. (CHOOSE d \in Displays : TRUE) \in Displays
    BY DEF Init
  <2> QED
    BY <2>1, <2>2, <2>3
<1>2. home \in [Windows -> Workspaces] /\ \A w \in Windows : owner[home[w]] \in Displays
  BY <1>1 DEF Init
<1>3. {posted, rx, events} \subseteq Seq(Honest)
  BY DEF Init
<1> QED
  BY <1>1, <1>2, <1>3 DEF Init, PickInv, PickIsHonoured

\* The keys and the mouse.
LEMMA InputStep ==
  PickInv /\ (ArrowOrTab \/ Return \/ Escape \/ Click \/ MouseMoves) => PickInv'
<1> SUFFICES ASSUME PickInv, ArrowOrTab \/ Return \/ Escape \/ Click \/ MouseMoves
             PROVE  PickInv'
  OBVIOUS
<1>1. Pressed
  BY DEF ArrowOrTab, Return, Escape, Click, MouseMoves
<1>2. /\ overlay # None /\ view # None /\ UNCHANGED <<core, cursor, view, rx, events, picked>>
      /\ overlay \in Overlays /\ Faithful(overlay) /\ overlay.mode = view
  BY <1>1 DEF Pressed, PickInv
<1>3. /\ overlay' \in Overlays /\ Faithful(overlay') /\ overlay'.mode = overlay.mode
      /\ posted' \in Seq(Honest)
  <2>1. CASE ArrowOrTab
    BY <1>2, <2>1, AdjustedFaithful DEF ArrowOrTab, PickInv
  <2>2. CASE Return
    BY <1>2, <2>2, PickHonest DEF Return, Activate, PickInv
  <2>3. CASE Escape
    BY <1>2, <2>3, MessageHonest DEF Escape, PickInv
  <2>4. ASSUME NEW i \in DOMAIN Visible(overlay)
        PROVE  LET o == [overlay EXCEPT !.selected = i - 1]
               IN  /\ o \in Overlays /\ Faithful(o) /\ o.mode = overlay.mode
                   /\ Visible(o) # <<>> => Pick(o) \in Honest
    <3>1. Visible(overlay) \in Seq(Tiles)
      BY <1>2, VisibleTyped DEF Overlays
    <3>2. i - 1 \in Nat
      BY <2>4, <3>1
    <3> QED
      BY <1>2, <3>2, SelectedFaithful, PickHonest
  <2>5. CASE Click
    <3>1. posted \in Seq(Honest) /\ Message("dismiss") \in Honest
      BY MessageHonest DEF PickInv
    <3>2. CASE posted' = Append(posted, Message("dismiss")) /\ UNCHANGED overlay
      BY <1>2, <3>1, <3>2
    <3>3. CASE \E i \in DOMAIN Visible(overlay) :
                 /\ overlay' = [overlay EXCEPT !.selected = i - 1]
                 /\ Activate([overlay EXCEPT !.selected = i - 1])
      <4>1. PICK i \in DOMAIN Visible(overlay) :
              /\ overlay' = [overlay EXCEPT !.selected = i - 1]
              /\ Activate([overlay EXCEPT !.selected = i - 1])
        BY <3>3
      <4> DEFINE o == [overlay EXCEPT !.selected = i - 1]
      <4>2. /\ o \in Overlays /\ Faithful(o) /\ o.mode = overlay.mode
            /\ Visible(o) # <<>> => Pick(o) \in Honest
        BY <2>4
      <4>3. overlay' = o /\ Activate(o)
        BY <4>1
      <4> HIDE DEF o
      <4> QED
        BY <3>1, <4>2, <4>3 DEF Activate
    <3> QED
      BY <2>5, <3>2, <3>3 DEF Click
  <2>6. CASE MouseMoves
    BY <1>2, <2>4, <2>6 DEF MouseMoves, PickInv
  <2> QED
    BY <2>1, <2>2, <2>3, <2>5, <2>6
<1> QED
  BY <1>2, <1>3 DEF PickInv, PickIsHonoured, core

\* What is queued for the actor is queued as it was posted.
LEMMA PostedStep == PickInv /\ ActionPosted => PickInv'
<1> SUFFICES ASSUME PickInv, ActionPosted PROVE PickInv'
  OBVIOUS
<1>1. posted \in Seq(Honest) /\ rx \in Seq(Honest) /\ events \in Seq(Honest)
  BY DEF PickInv
<1>2. Head(posted) \in Honest /\ Tail(posted) \in Seq(Honest)
  BY <1>1 DEF ActionPosted
<1>3. {posted, rx, events}' \subseteq Seq(Honest)
  BY <1>1, <1>2 DEF ActionPosted
<1> QED
  BY <1>3 DEF ActionPosted, PickInv, PickIsHonoured, core

\* The actor shows what is, and passes on what was picked.
LEMMA ActorKeeps == PickInv /\ ActorStep => PickInv'
<1> SUFFICES ASSUME PickInv, ActorStep PROVE PickInv'
  OBVIOUS
<1> DEFINE m == Head(rx)
           Overlaid(o, v) == /\ o # None => v # None
                             /\ v # None => o \in Overlays /\ Faithful(o) /\ o.mode = v
<1>1. rx \in Seq(Honest) /\ events \in Seq(Honest) /\ posted \in Seq(Honest)
      /\ view \in {"all", "current", None} /\ Overlaid(overlay, view)
  BY DEF PickInv
<1>2. m \in Honest /\ Tail(rx) \in Seq(Honest)
  BY <1>1 DEF ActorStep
<1>3. \A mode \in {"all", "current"} :
        Fresh(mode) \in Overlays /\ Faithful(Fresh(mode)) /\ Fresh(mode).mode = mode
  BY FreshFaithful
<1>4. None \notin {"all", "current"}
  BY PicksAssumption DEF OverviewAssumption
<1> DEFINE Kept == /\ view' \in {"all", "current", None} /\ Overlaid(overlay', view')
                   /\ events' \in Seq(Honest)
<1>5. Kept
  <2>1. CASE UNCHANGED <<overlay, view, events>>
    BY <1>1, <2>1
  <2>2. CASE Dispose
    BY <1>1, <2>2 DEF Dispose
  <2>3. CASE m.kind \in {"all", "current"} /\ Show(m.kind)
    <3>1. Dispose => Kept
      BY <2>2
    <3>2. PICK mode \in {"all", "current"} : mode = m.kind
      BY <2>3
    <3>3. Show(mode)
      BY <2>3, <3>2
    <3>4. CASE view # None
      BY <3>1, <3>3, <3>4 DEF Show
    <3>5. CASE view = None
      <4>1. view' = mode /\ overlay' = Fresh(mode) /\ events' = events
        BY <3>3, <3>5 DEF Show
      <4> HIDE DEF m
      <4> QED
        BY <1>1, <1>3, <1>4, <4>1
    <3> QED
      BY <3>4, <3>5
  <2>4. CASE RefreshCurrent
    <3>1. CASE view = "current"
      BY <1>1, <1>3, <1>4, <2>4, <3>1 DEF RefreshCurrent
    <3>2. CASE view = "all"
      BY <1>1, <1>4, <2>4, <3>2, HighlightedFaithful DEF RefreshCurrent
    <3>3. CASE view = None
      BY <1>1, <1>4, <2>4, <3>3 DEF RefreshCurrent
    <3> QED
      BY <1>1, <3>1, <3>2, <3>3
  <2>5. CASE overlay' = None /\ view' = None /\ events' = Append(events, m)
    BY <1>1, <1>2, <2>5
  <2> HIDE DEF Kept
  <2> QED
    BY <2>1, <2>2, <2>3, <2>4, <2>5 DEF ActorStep
<1>6. {posted, rx, events}' \subseteq Seq(Honest)
  BY <1>1, <1>2, <1>5 DEF ActorStep
<1>7. UNCHANGED <<owner, home, context, cursor, picked>>
  BY DEF ActorStep, core
<1> QED
  BY <1>5, <1>6, <1>7 DEF PickInv, PickIsHonoured

\* The reactor finds at the position what was meant, in the list that was drawn.
LEMMA ReactorKeeps == PickInv /\ ReactorStep => PickInv'
<1> SUFFICES ASSUME PickInv, ReactorStep PROVE PickInv'
  OBVIOUS
<1> DEFINE m == Head(events)
<1>1. rx \in Seq(Honest) /\ events \in Seq(Honest) /\ posted \in Seq(Honest)
      /\ cursor \in Displays /\ owner \in [Workspaces -> Displays \cup {None}]
      /\ home \in [Windows -> Workspaces] /\ (\A w \in Windows : owner[home[w]] \in Displays)
      /\ PickIsHonoured
  BY DEF PickInv
<1>2. m \in Honest /\ Tail(events) \in Seq(Honest)
  BY <1>1 DEF ReactorStep
<1>3. {posted, rx, events}' \subseteq Seq(Honest)
  BY <1>1, <1>2 DEF ReactorStep
<1> DEFINE Kept == /\ owner' \in [Workspaces -> Displays \cup {None}]
                   /\ \A w \in Windows : owner'[home[w]] \in Displays
                   /\ UNCHANGED <<home, context>> /\ PickIsHonoured'
<1>4. Kept
  <2>1. CASE m.kind = "switch" /\ Switch(m)
    <3>1. m.drawn \in Drawings /\ m.of \in Nat /\ m.of + 1 \in DOMAIN m.drawn.list
          /\ m.drawn.list[m.of + 1] = m.meant
      BY <1>2, <2>1 DEF Honest
    <3>2. Drawn(cursor).list = ListOf(cursor) /\ ListOf(cursor) \in Seq(Workspaces)
      BY <1>1, DrawnTyped
    <3>3. ASSUME m.drawn = Drawn(cursor)
          PROVE  m.of < Len(ListOf(cursor)) /\ ListOf(cursor)[m.of + 1] = m.meant
      <4>1. m.of + 1 \in 1..Len(ListOf(cursor)) /\ Len(ListOf(cursor)) \in Nat
        BY <3>1, <3>2, <3>3
      <4> HIDE DEF m
      <4> QED
        BY <3>1, <3>2, <3>3, <4>1
    <3>4. UNCHANGED <<owner, home, context>>
      BY <2>1 DEF Switch, core
    <3>5. PickIsHonoured'
      <4> DEFINE got == IF m.of < Len(ListOf(cursor)) THEN ListOf(cursor)[m.of + 1] ELSE None
                 same == m.drawn = Drawn(cursor)
      <4>1. picked' = [meant |-> m.meant, got |-> got, asDrawn |-> same]
        BY <2>1 DEF Switch
      <4>2. \A x, y : \A b \in BOOLEAN :
              LET p == [meant |-> x, got |-> y, asDrawn |-> b]
              IN  p.meant = x /\ p.got = y /\ p.asDrawn = b
        OBVIOUS
      <4>3. same => got = m.meant
        BY <3>3
      <4>4. same \in BOOLEAN
        OBVIOUS
      <4> HIDE DEF m, got, same
      <4>5. picked'.meant = m.meant /\ picked'.got = got /\ picked'.asDrawn = same
        BY <4>1, <4>2, <4>4
      <4> QED
        BY <4>3, <4>5 DEF PickIsHonoured
    <3> QED
      BY <1>1, <3>4, <3>5
  <2>2. CASE m.kind = "focus" /\ FocusWindow(m)
    BY <1>1, <2>2 DEF FocusWindow, PickIsHonoured
  <2>3. CASE m.kind = "number" /\ SwitchByNumber(m)
    BY <1>1, <2>3 DEF SwitchByNumber, PickIsHonoured
  <2>4. CASE UNCHANGED <<core, picked>>
    BY <1>1, <2>4 DEF core, PickIsHonoured
  <2> HIDE DEF Kept
  <2> QED
    BY <2>1, <2>2, <2>3, <2>4 DEF ReactorStep
<1>5. UNCHANGED <<cursor, overlay, view>>
  BY DEF ReactorStep
<1> QED
  BY <1>3, <1>4, <1>5 DEF PickInv

\* The user and the world around send messages that carry no position.
LEMMA WorldKeeps ==
  PickInv /\ (AskForOverlay \/ SwitchHotkey \/ CoreChanges \/ NativeMissionControl) => PickInv'
<1> SUFFICES ASSUME PickInv PROVE
      AskForOverlay \/ SwitchHotkey \/ CoreChanges \/ NativeMissionControl => PickInv'
  OBVIOUS
<1>1. rx \in Seq(Honest) /\ events \in Seq(Honest) /\ posted \in Seq(Honest)
      /\ cursor \in Displays /\ context \in Displays
      /\ owner \in [Workspaces -> Displays \cup {None}]
      /\ home \in [Windows -> Workspaces] /\ (\A w \in Windows : owner[home[w]] \in Displays)
  BY DEF PickInv
<1>2. CASE AskForOverlay
  <2>1. \A kind \in {"all", "current", "dismiss"} : Message(kind) \in Honest
    BY MessageHonest
  <2>2. {posted, rx, events}' \subseteq Seq(Honest)
    <3>1. PICK kind \in {"all", "current", "dismiss"} :
            \/ rx' = Append(rx, Message(kind)) /\ UNCHANGED events
            \/ events' = Append(events, Message(kind)) /\ UNCHANGED rx
      BY <1>2 DEF AskForOverlay
    <3>2. UNCHANGED posted
      BY <1>2 DEF AskForOverlay
    <3>3. Message(kind) \in Honest
      BY <2>1
    <3>4. rx' \in Seq(Honest) /\ events' \in Seq(Honest)
      <4>1. \A q \in Seq(Honest), x \in Honest : Append(q, x) \in Seq(Honest)
        OBVIOUS
      <4>2. Append(rx, Message(kind)) \in Seq(Honest) /\ Append(events, Message(kind)) \in Seq(Honest)
        BY <1>1, <3>3, <4>1
      <4> QED
        BY <1>1, <3>1, <4>2
    <3> QED
      BY <1>1, <3>2, <3>4
  <2> QED
    BY <1>2, <2>2 DEF AskForOverlay, core, PickInv, PickIsHonoured
<1>3. CASE SwitchHotkey
  <2>1. Message("refresh") \in Honest /\ \A s \in Workspaces : Action("number", s, None, None) \in Honest
    BY MessageHonest DEF Action, Honest, Sent
  <2>2. {posted, rx, events}' \subseteq Seq(Honest)
    BY <1>1, <1>3, <2>1 DEF SwitchHotkey
  <2> QED
    BY <1>3, <2>2 DEF SwitchHotkey, core, PickInv, PickIsHonoured
<1>4. CASE CoreChanges
  <2> DEFINE Kept == /\ owner' \in [Workspaces -> Displays \cup {None}]
                     /\ home' \in [Windows -> Workspaces]
                     /\ \A w \in Windows : owner'[home'[w]] \in Displays
                     /\ context' \in Displays /\ cursor' \in Displays
  <2>1. Kept
    <3>1. ASSUME NEW s \in Workspaces, NEW d \in Displays,
                 owner' = [owner EXCEPT ![s] = d], UNCHANGED <<home, context, cursor>>
          PROVE  Kept
      BY <1>1, <3>1
    <3>2. ASSUME NEW s \in Workspaces, s \notin Range(home),
                 owner' = [owner EXCEPT ![s] = None], UNCHANGED <<home, context, cursor>>
          PROVE  Kept
      <4>1. \A w \in Windows : home[w] # s
        BY <1>1, <3>2 DEF Range
      <4> QED
        BY <1>1, <3>2, <4>1
    <3>3. ASSUME NEW w \in Windows, NEW s \in Workspaces, owner[s] # None,
                 home' = [home EXCEPT ![w] = s], UNCHANGED <<owner, context, cursor>>
          PROVE  Kept
      BY <1>1, <3>3
    <3>4. ASSUME NEW w \in Windows, context' = owner[home[w]], UNCHANGED <<owner, home, cursor>>
          PROVE  Kept
      BY <1>1, <3>4
    <3>5. ASSUME NEW d \in Displays, cursor' = d, UNCHANGED core
          PROVE  Kept
      BY <1>1, <3>5 DEF core
    <3> HIDE DEF Kept
    <3> QED
      BY <1>4, <3>1, <3>2, <3>3, <3>4, <3>5 DEF CoreChanges
  <2> QED
    BY <1>1, <1>4, <2>1 DEF CoreChanges, PickInv, PickIsHonoured
<1>5. CASE NativeMissionControl
  <2>1. Message("exited") \in Honest /\ Message("entered") \in Honest
    BY MessageHonest
  <2>2. {posted, rx, events}' \subseteq Seq(Honest)
    BY <1>1, <1>5, <2>1 DEF NativeMissionControl
  <2> QED
    BY <1>5, <2>2 DEF NativeMissionControl, core, PickInv, PickIsHonoured
<1> QED
  BY <1>2, <1>3, <1>4, <1>5

\* Every step of the run keeps what is drawn and what travels true.
LEMMA PickStep ==
  PickInv /\ [MCNext]_<<part, vars, pictureVars, placingVars>> => PickInv'
<1> SUFFICES ASSUME PickInv, [MCNext]_<<part, vars, pictureVars, placingVars>> PROVE PickInv'
  OBVIOUS
<1>1. CASE Next
  BY <1>1, InputStep, PostedStep, ActorKeeps, ReactorKeeps, WorldKeeps DEF Next
<1>2. CASE UNCHANGED vars
  BY <1>2 DEF vars, core, PickInv, PickIsHonoured
<1> QED
  BY <1>1, <1>2 DEF MCNext

\* The workspace that was highlighted is the one that is switched to, if the display
\* commands are for still has the workspaces the overlay was drawn from: whatever tiles
\* are hidden, whatever the keys did and whatever was queued in between.
THEOREM PicksHonoured == MCSpec => []PickIsHonoured
<1>1. MCInit => PickInv
  BY PickStart DEF MCInit
<1>2. PickInv /\ [MCNext]_<<part, vars, pictureVars, placingVars>> => PickInv'
  BY PickStep
<1>3. PickInv => PickIsHonoured
  BY DEF PickInv
<1> QED
  BY <1>1, <1>2, <1>3, PTL DEF MCSpec

-----------------------------------------------------------------------------
(* The places of windows. *)

Places == Placing!Workspaces

\* A set of numbers that is not empty has a least element.
LEMMA LeastNumber ==
  ASSUME NEW T, T \subseteq Nat, T # {}
  PROVE  \E m \in T : \A n \in T : m <= n
<1>1. PICK k \in Nat : k \in T
  OBVIOUS
<1> DEFINE below == {n \in T : n <= k}
<1>2. below \in SUBSET (0..k) /\ k \in below /\ below \subseteq Int
  <2>1. \A n \in T : n \in Nat
    OBVIOUS
  <2>2. \A n \in below : n \in 0..k
    BY <1>1, <2>1
  <2>3. k \in below
    BY <1>1
  <2> HIDE DEF below
  <2> QED
    BY <1>1, <2>2, <2>3
<1> HIDE DEF below
<1>3. IsFiniteSet(below)
  <2>1. IsFiniteSet(0..k)
    BY <1>1, FS_Interval
  <2> QED
    BY <1>2, <2>1, FS_Subset
<1>4. PICK m \in below : \A n \in below : m <= n
  BY <1>2, <1>3, LeastOf
<1>5. m \in T /\ m \in Nat /\ m <= k
  BY <1>2 DEF below
<1> QED
  BY <1>1, <1>4, <1>5 DEF below

\* A set with 0, and with the successor of each number in it, has every number.
LEMMA SetInduction ==
  ASSUME NEW T, 0 \in T, \A n \in Nat : n \in T => n + 1 \in T
  PROVE  Nat \subseteq T
<1>1. SUFFICES ASSUME Nat \ T # {} PROVE FALSE
  OBVIOUS
<1>2. PICK m \in Nat \ T : \A n \in Nat \ T : m <= n
  BY <1>1, LeastNumber
<1>3. m # 0 /\ m - 1 \in Nat /\ m - 1 \in T
  BY <1>2, SMT
<1> QED BY <1>2, <1>3, SMT

\* The loop over windows is what it says, for every list of windows.
LEMMA TurnsExist ==
  ASSUME NEW c, NEW ws
  PROVE  \A n \in Nat : \E f : f = [i \in 0..n |-> IF i = 0 THEN c ELSE Placing!Pulled(f[i - 1], ws[i])]
<1> DEFINE turn(f, i) == IF i = 0 THEN c ELSE Placing!Pulled(f[i - 1], ws[i])
           T == {n \in Nat : \E f : f = [i \in 0..n |-> turn(f, i)]}
<1>1. 0 \in T
  <2> DEFINE f == [i \in 0..0 |-> c]
  <2>1. \A i \in 0..0 : f[i] = turn(f, i)
    OBVIOUS
  <2>2. f = [i \in 0..0 |-> turn(f, i)]
    <3>1. f = [i \in 0..0 |-> f[i]]
      OBVIOUS
    <3> HIDE DEF f, turn
    <3> QED
      BY <2>1, <3>1
  <2> QED
    BY <2>2
<1>2. ASSUME NEW n \in Nat, n \in T PROVE n + 1 \in T
  <2>1. PICK f : f = [i \in 0..n |-> turn(f, i)]
    BY <1>2
  <2> DEFINE last == Placing!Pulled(f[n], ws[n + 1])
             g == [i \in 0..(n + 1) |-> IF i = n + 1 THEN last ELSE f[i]]
  <2>2. \A i \in 0..(n + 1) : g[i] = turn(g, i)
    <3>1. \A i \in 0..n : f[i] = turn(f, i)
      BY <2>1
    <3> QED
      BY <3>1
  <2>3. g = [i \in 0..(n + 1) |-> turn(g, i)]
    <3>1. g = [i \in 0..(n + 1) |-> g[i]]
      OBVIOUS
    <3> HIDE DEF g, turn
    <3> QED
      BY <2>2, <3>1
  <2> HIDE DEF g, turn
  <2> QED
    BY <2>3
<1> QED
  BY <1>1, <1>2, SetInduction

LEMMA RulesUnfold ==
  ASSUME NEW c, NEW ws, Len(ws) \in Nat
  PROVE  \E after :
           /\ after[0] = Placing!Placed(c, known')
           /\ \A i \in 1..Len(ws) : after[i] = Placing!Pulled(after[i - 1], ws[i])
           /\ Placing!ProcessRules(c, ws) = after[Len(ws)]
<1> DEFINE base == Placing!Placed(c, known')
           n == Len(ws)
           after == CHOOSE f : f = [i \in 0..n |-> IF i = 0 THEN base ELSE Placing!Pulled(f[i - 1], ws[i])]
<1>1. \E f : f = [i \in 0..n |-> IF i = 0 THEN base ELSE Placing!Pulled(f[i - 1], ws[i])]
  <2> HIDE DEF base, n
  <2> QED BY TurnsExist DEF n
<1>2. after = [i \in 0..n |-> IF i = 0 THEN base ELSE Placing!Pulled(after[i - 1], ws[i])]
  <2> HIDE DEF base, n
  <2> QED BY <1>1
<1>3. Placing!ProcessRules(c, ws) = after[n]
  BY DEF Placing!ProcessRules
<1> HIDE DEF after
<1> QED
  BY <1>2, <1>3

-----------------------------------------------------------------------------
(* Where windows are. *)

Reasons == {"gone", "nowhere", "hidden", "expected", "late"}

Cores == [owner : [Numbered -> MoveDisplays \cup {None}],
          shown : [MoveDisplays -> Places],
          home : [MovedWindows -> Places \cup {None}],
          focus : MovedWindows \cup {None},
          recent : [MovedWindows -> Places \cup {None}],
          meant : [MovedWindows -> Places \cup {None}],
          spoiled : [MovedWindows -> SUBSET Reasons]]

\* What is shown, what has windows and what is a target exists.
Existing(c) == \A s \in Numbered :
  s \in Range(c.shown) \/ s \in Range(c.home) \/ s \in Range(c.recent) => c.owner[s] # None

\* A window is where it was put, and its target does not say otherwise; one without a
\* workspace has its target still.
Settled(c, w) ==
  c.meant[w] # None /\ c.spoiled[w] = {} =>
    IF c.home[w] = None THEN c.recent[w] = c.meant[w] /\ c.meant[w] \in Numbered
    ELSE c.home[w] = c.meant[w] /\ (c.recent[w] \in Numbered => c.recent[w] = c.home[w])

Fine(c) == c \in Cores /\ Existing(c) /\ \A w \in MovedWindows : Settled(c, w)

MovesInv ==
  /\ Fine(Placing!Core)
  /\ known \subseteq MovedWindows /\ IsFiniteSet(known) /\ \A w \in known : homes[w] # None
  /\ at \in [MovedWindows -> MoveDisplays]
  /\ mainWindow \in MovedWindows \cup {None} /\ mouse \in MoveDisplays

\* A step of the core that moves no window and gives none a new target.
Alike(c, d) ==
  /\ d \in Cores /\ Existing(d)
  /\ d.shown = c.shown /\ d.focus = c.focus /\ d.meant = c.meant
  /\ \A w \in MovedWindows : d.recent[w] \in {c.recent[w], None} /\ c.spoiled[w] \subseteq d.spoiled[w]

LEMMA SameRange == \A f : Placing!Range(f) = Range(f)
BY DEF Placing!Range, Range

LEMMA Constants ==
  /\ None \notin MovedWindows /\ None \notin MoveDisplays /\ None \notin Places /\ None \notin Numbered
  /\ Numbered \subseteq Places /\ \A d \in MoveDisplays : Hidden[d] \in Places
  /\ \A s \in Places \ Numbered : Placing!Display(s) \in MoveDisplays
<1>1. Hidden \in [MoveDisplays -> Range(Hidden)] /\ Places = Numbered \cup Range(Hidden)
      /\ None \notin MovedWindows \cup MoveDisplays \cup Numbered \cup Range(Hidden)
  BY SameRange, PlacesAssumption DEF Placing!MovesAssumption, Placing!Workspaces, Places
<1>2. \A s \in Range(Hidden) : \E d \in MoveDisplays : Hidden[d] = s
  BY <1>1 DEF Range
<1>3. ASSUME NEW s \in Places \ Numbered PROVE Placing!Display(s) \in MoveDisplays
  <2>1. \E d \in MoveDisplays : Hidden[d] = s
    BY <1>1, <1>2
  <2>2. (CHOOSE d \in MoveDisplays : Hidden[d] = s) \in MoveDisplays
    BY <2>1
  <2> QED
    BY <2>2 DEF Placing!Display
<1> QED
  BY <1>1, <1>3

\* The display of a workspace that exists.
LEMMA Owned ==
  ASSUME NEW c \in Cores, NEW s \in Places, s \in Numbered => c.owner[s] # None
  PROVE  Placing!OwnerIn(c, s) \in MoveDisplays
BY Constants DEF Cores, Placing!OwnerIn

\* Destroying an empty workspace takes the targets that name it.
LEMMA SweptKeeps ==
  ASSUME NEW c \in Cores, Existing(c), NEW s
  PROVE  LET d == Placing!Swept(c, s)
         IN  Alike(c, d) /\ d.home = c.home
             /\ \A w \in MovedWindows : Settled(c, w) => Settled(d, w)
<1> DEFINE d == Placing!Swept(c, s)
<1>1. CASE s \notin Numbered \/ s \in Range(c.shown) \/ s \in Range(c.home)
  <2>1. d = c
    BY <1>1, SameRange DEF Placing!Swept
  <2> QED
    BY <2>1 DEF Alike
<1>2. CASE s \in Numbered /\ s \notin Range(c.shown) /\ s \notin Range(c.home)
  <2> DEFINE left == [w \in MovedWindows |-> IF c.recent[w] = s THEN None ELSE c.recent[w]]
             reasons == [w \in MovedWindows |->
                           IF c.recent[w] = s /\ c.home[w] = None
                           THEN c.spoiled[w] \cup {"gone"} ELSE c.spoiled[w]]
             owned == [c.owner EXCEPT ![s] = None]
  <2>1. d = [c EXCEPT !.owner = owned, !.recent = left, !.spoiled = reasons]
    BY <1>2, SameRange DEF Placing!Swept
  <2>2. /\ owned \in [Numbered -> MoveDisplays \cup {None}]
        /\ left \in [MovedWindows -> Places \cup {None}]
        /\ reasons \in [MovedWindows -> SUBSET Reasons]
    <3>1. owned \in [Numbered -> MoveDisplays \cup {None}]
      BY DEF Cores
    <3>2. left \in [MovedWindows -> Places \cup {None}]
      BY DEF Cores
    <3>3. \A w \in MovedWindows : c.spoiled[w] \in SUBSET Reasons /\ c.spoiled[w] \cup {"gone"} \in SUBSET Reasons
      <4>1. c.spoiled \in [MovedWindows -> SUBSET Reasons]
        BY DEF Cores
      <4> QED
        BY <4>1 DEF Reasons
    <3>4. reasons \in [MovedWindows -> SUBSET Reasons]
      BY <3>3
    <3> QED
      BY <3>1, <3>2, <3>4
  <2>3. /\ \A t \in Numbered : t # s => owned[t] = c.owner[t]
        /\ \A w \in MovedWindows :
             /\ left[w] = IF c.recent[w] = s THEN None ELSE c.recent[w]
             /\ reasons[w] = IF c.recent[w] = s /\ c.home[w] = None
                             THEN c.spoiled[w] \cup {"gone"} ELSE c.spoiled[w]
    BY DEF Cores
  <2> HIDE DEF d, left, reasons, owned
  <2>4. /\ d \in Cores /\ d.owner = owned /\ d.shown = c.shown /\ d.home = c.home
        /\ d.focus = c.focus /\ d.recent = left /\ d.meant = c.meant /\ d.spoiled = reasons
    BY <2>1, <2>2 DEF Cores
  <2>5. Existing(d)
    <3>1. \A t \in Numbered : t \in Range(left) => t # s /\ t \in Range(c.recent)
      <4>1. DOMAIN left = MovedWindows /\ DOMAIN c.recent = MovedWindows
        BY <2>2 DEF Cores
      <4> QED
        BY <2>3, <4>1, Constants DEF Range
    <3> QED
      BY <1>2, <2>3, <2>4, <3>1 DEF Existing
  <2>6. Alike(c, d)
    BY <2>3, <2>4, <2>5 DEF Alike
  <2>7. ASSUME NEW w \in MovedWindows, Settled(c, w) PROVE Settled(d, w)
    BY <2>3, <2>4, <2>7, Constants DEF Settled
  <2> QED
    BY <2>4, <2>6, <2>7 DEF d
<1> QED
  BY <1>1, <1>2

\* Moving a window to a workspace, which is created if there is none of it.
LEMMA MovedKeeps ==
  ASSUME NEW c \in Cores, Existing(c), NEW w \in MovedWindows, c.home[w] # None, NEW s \in Places
  PROVE  LET d == Placing!Moved(c, w, s)
         IN  Alike(c, d) /\ d.home = [c.home EXCEPT ![w] = s]
             /\ \A x \in MovedWindows \ {w} : Settled(c, x) => Settled(d, x)
<1> DEFINE source == c.home[w]
           owned == IF Placing!OwnerIn(c, s) # None THEN c.owner
                    ELSE [c.owner EXCEPT ![s] = Placing!OwnerIn(c, source)]
           homed == [c.home EXCEPT ![w] = s]
           made == [c EXCEPT !.owner = owned, !.home = homed]
<1>1. source \in Places /\ (source \in Numbered => c.owner[source] # None)
  <2>1. source \in Places /\ source \in Range(c.home)
    BY DEF Cores, Range
  <2> QED
    BY <2>1 DEF Existing
<1>2. Placing!OwnerIn(c, source) \in MoveDisplays
  <2> HIDE DEF source
  <2> QED BY <1>1, Owned
<1>3. Placing!OwnerIn(c, s) = None => s \in Numbered /\ c.owner[s] = None
  BY Owned, Constants DEF Placing!OwnerIn
<1>4. /\ owned \in [Numbered -> MoveDisplays \cup {None}]
      /\ \A t \in Numbered : c.owner[t] # None => owned[t] # None
      /\ s \in Numbered => owned[s] # None
  <2>1. c.owner \in [Numbered -> MoveDisplays \cup {None}]
    BY DEF Cores
  <2> HIDE DEF source
  <2>2. CASE Placing!OwnerIn(c, s) # None
    BY <2>1, <2>2 DEF Placing!OwnerIn
  <2>3. CASE Placing!OwnerIn(c, s) = None
    BY <1>2, <1>3, <2>1, <2>3, Constants
  <2> QED
    BY <2>2, <2>3
<1>5. /\ homed \in [MovedWindows -> Places \cup {None}] /\ homed[w] = s
      /\ \A x \in MovedWindows \ {w} : homed[x] = c.home[x]
  BY DEF Cores
<1>6. Placing!Moved(c, w, s) = Placing!Swept(made, source)
  <2>1. [c EXCEPT !.owner = c.owner, !.home = homed] = [c EXCEPT !.home = homed]
    BY DEF Cores
  <2>2. CASE Placing!OwnerIn(c, s) # None
    <3> HIDE DEF homed, source
    <3>1. made = [c EXCEPT !.home = homed]
      BY <2>1, <2>2
    <3> QED
      BY <2>2, <3>1 DEF Placing!Moved, homed, source
  <2>3. CASE Placing!OwnerIn(c, s) = None
    BY <2>3 DEF Placing!Moved
  <2> QED
    BY <2>2, <2>3
<1> HIDE DEF owned, homed
<1>7. /\ made \in Cores /\ made.owner = owned /\ made.home = homed
      /\ made.shown = c.shown /\ made.focus = c.focus /\ made.recent = c.recent
      /\ made.meant = c.meant /\ made.spoiled = c.spoiled
  BY <1>4, <1>5 DEF Cores
<1> HIDE DEF made, source
<1>8. Existing(made)
  <2>1. \A t \in Range(homed) : t = s \/ t \in Range(c.home)
    <3>1. DOMAIN homed = MovedWindows /\ DOMAIN c.home = MovedWindows
      BY <1>5 DEF Cores
    <3> QED
      BY <1>5, <3>1 DEF Range
  <2> QED
    BY <1>4, <1>7, <2>1 DEF Existing
<1>9. ASSUME NEW x \in MovedWindows \ {w}, Settled(c, x) PROVE Settled(made, x)
  BY <1>5, <1>7, <1>9 DEF Settled
<1> DEFINE d == Placing!Swept(made, source)
<1>10. Alike(made, d) /\ d.home = made.home /\ \A x \in MovedWindows : Settled(made, x) => Settled(d, x)
  BY <1>7, <1>8, SweptKeeps
<1> HIDE DEF d
<1>11. Alike(c, d)
  BY <1>7, <1>10 DEF Alike
<1> QED
  BY <1>6, <1>7, <1>9, <1>10, <1>11 DEF d, homed

\* A window that has its target still goes there; one that is where it was put stays.
LEMMA PulledKeeps ==
  ASSUME NEW c \in Cores, Existing(c), NEW w \in MovedWindows
  PROVE  LET d == Placing!Pulled(c, w)
         IN  /\ Alike(c, d)
             /\ \A x \in MovedWindows : Settled(c, x) => Settled(d, x)
             /\ \A x \in MovedWindows : c.home[x] # None => d.home[x] # None
             /\ w \in known' /\ c.home[w] # None /\ c.recent[w] \in Numbered =>
                  c.meant[w] # c.recent[w] \/ Settled(d, w)
<1> DEFINE d == Placing!Pulled(c, w)
           goes == Placing!Recent(c, w) \in Numbered /\ c.home[w] # None
<1>1. CASE ~goes
  <2>1. d = c
    BY <1>1 DEF Placing!Pulled
  <2>2. ~(w \in known' /\ c.home[w] # None /\ c.recent[w] \in Numbered)
    <3>1. ASSUME c.recent[w] \in Numbered
          PROVE  Placing!OwnerIn(c, c.recent[w]) # None /\ c.recent[w] # None
      <4>1. c.recent[w] \in Range(c.recent)
        BY DEF Cores, Range
      <4> QED
        BY <3>1, <4>1, Constants DEF Existing, Placing!OwnerIn
    <3> QED
      BY <1>1, <3>1 DEF Placing!Recent
  <2> HIDE DEF d, goes
  <2>3. Alike(c, c)
    BY DEF Alike
  <2> QED
    BY <2>1, <2>2, <2>3 DEF d
<1>2. CASE goes
  <2> DEFINE s == c.recent[w]
  <2>1. s \in Numbered /\ s \in Places /\ c.home[w] # None
    BY <1>2, Constants DEF Placing!Recent
  <2>2. d = Placing!Moved(c, w, s)
    BY <1>2 DEF Placing!Pulled
  <2> HIDE DEF d, goes
  <2>3. /\ Alike(c, d) /\ d.home = [c.home EXCEPT ![w] = s]
        /\ \A x \in MovedWindows \ {w} : Settled(c, x) => Settled(d, x)
    <3> HIDE DEF s
    <3> QED BY <2>1, <2>2, MovedKeeps
  <2>4. d.home[w] = s /\ \A x \in MovedWindows \ {w} : d.home[x] = c.home[x]
    BY <2>3 DEF Cores
  <2>5. d.meant = c.meant /\ d.recent[w] \in {s, None} /\ c.spoiled[w] \subseteq d.spoiled[w]
    BY <2>3 DEF Alike
  <2>6. c.meant[w] = s => Settled(d, w)
    BY <2>1, <2>4, <2>5, Constants DEF Settled
  <2>7. Settled(c, w) => Settled(d, w)
    <3> SUFFICES ASSUME Settled(c, w), c.meant[w] # s PROVE Settled(d, w)
      BY <2>6
    <3>1. c.meant[w] = None \/ c.spoiled[w] # {}
      BY <2>1 DEF Settled
    <3> QED
      BY <2>5, <3>1 DEF Settled
  <2> QED
    BY <2>1, <2>3, <2>4, <2>6, <2>7, Constants DEF d
<1> QED
  BY <1>1, <1>2

\* Windows without a workspace get one that exists.
LEMMA PlacedKeeps ==
  ASSUME NEW c \in Cores, Existing(c), NEW ws \in SUBSET MovedWindows,
         at' \in [MovedWindows -> MoveDisplays]
  PROVE  LET d == Placing!Placed(c, ws)
         IN  /\ Alike(c, d) /\ d.recent = c.recent /\ d.spoiled = c.spoiled
             /\ \A x \in ws : d.home[x] # None
             /\ \A x \in MovedWindows : x \notin ws \/ c.home[x] # None => d.home[x] = c.home[x]
<1> DEFINE new == {w \in ws : c.home[w] = None}
           place(w) == IF Rule[w] # None THEN Rule[w] ELSE c.shown[at'[w]]
           homed == [w \in MovedWindows |-> IF w \in new THEN place(w) ELSE c.home[w]]
           owned == [s \in Numbered |->
                       IF c.owner[s] = None /\ \E w \in new : place(w) = s
                       THEN at'[CHOOSE w \in new : place(w) = s] ELSE c.owner[s]]
           d == Placing!Placed(c, ws)
<1>1. d = [c EXCEPT !.home = homed, !.owner = owned]
  BY DEF Placing!Placed
<1>2. \A w \in new : w \in MovedWindows /\ w \in ws /\ place(w) \in Places
  <2>1. Rule \in [MovedWindows -> Places \cup {None}]
    BY SameRange, PlacesAssumption DEF Placing!MovesAssumption, Placing!Workspaces, Places
  <2>2. c.shown \in [MoveDisplays -> Places]
    BY DEF Cores
  <2> QED
    BY <2>1, <2>2
<1>3. \A s \in Numbered :
        (\E w \in new : place(w) = s) => at'[CHOOSE w \in new : place(w) = s] \in MoveDisplays
  <2> HIDE DEF place
  <2>1. ASSUME NEW s \in Numbered, \E w \in new : place(w) = s
        PROVE  (CHOOSE w \in new : place(w) = s) \in new
    BY <2>1
  <2> HIDE DEF new
  <2> QED
    BY <1>2, <2>1
<1> HIDE DEF place
<1>4. c.home \in [MovedWindows -> Places \cup {None}] /\ c.owner \in [Numbered -> MoveDisplays \cup {None}]
  BY DEF Cores
<1>5. homed \in [MovedWindows -> Places \cup {None}]
  BY <1>2, <1>4
<1>6. /\ owned \in [Numbered -> MoveDisplays \cup {None}]
      /\ \A t \in Numbered : c.owner[t] # None \/ (\E w \in new : place(w) = t) => owned[t] # None
  BY <1>3, <1>4, Constants
<1>7. \A t \in Range(homed) : (\E w \in new : place(w) = t) \/ t \in Range(c.home)
  <2>1. DOMAIN homed = MovedWindows /\ DOMAIN c.home = MovedWindows
    BY <1>4
  <2> QED
    BY <2>1 DEF Range
<1>8. \A x \in MovedWindows : homed[x] = IF x \in new THEN place(x) ELSE c.home[x]
  OBVIOUS
<1> HIDE DEF homed, owned, d
<1>9. /\ d \in Cores /\ d.owner = owned /\ d.home = homed
      /\ d.shown = c.shown /\ d.focus = c.focus /\ d.recent = c.recent
      /\ d.meant = c.meant /\ d.spoiled = c.spoiled
  BY <1>1, <1>5, <1>6 DEF Cores
<1>10. Existing(d)
  BY <1>6, <1>7, <1>9 DEF Existing
<1>11. Alike(c, d)
  BY <1>9, <1>10 DEF Alike
<1>12. \A x \in ws : d.home[x] # None
  BY <1>2, <1>8, <1>9, Constants
<1>13. \A x \in MovedWindows : x \notin ws \/ c.home[x] # None => d.home[x] = c.home[x]
  BY <1>8, <1>9
<1> QED
  BY <1>9, <1>11, <1>12, <1>13 DEF d

LEMMA AlikeAgain ==
  ASSUME NEW a, NEW b, NEW c, Alike(a, b), Alike(b, c)
  PROVE  Alike(a, c)
<1>1. c \in Cores /\ Existing(c) /\ c.shown = a.shown /\ c.focus = a.focus /\ c.meant = a.meant
  BY DEF Alike
<1>2. ASSUME NEW w \in MovedWindows
      PROVE  c.recent[w] \in {a.recent[w], None} /\ a.spoiled[w] \subseteq c.spoiled[w]
  BY DEF Alike
<1> QED
  BY <1>1, <1>2 DEF Alike

\* Applying the rules leaves the windows that had a workspace where they were put.
LEMMA RulesKeep ==
  ASSUME NEW c \in Cores, Existing(c), known' \in SUBSET MovedWindows,
         at' \in [MovedWindows -> MoveDisplays], NEW ws \in Seq(MovedWindows)
  PROVE  LET d == Placing!ProcessRules(c, ws)
         IN  /\ Alike(c, d) /\ \A x \in known' : d.home[x] # None
             /\ \A x \in MovedWindows :
                  Settled(c, x) /\ (x \notin known' \/ c.home[x] # None) => Settled(d, x)
<1> DEFINE Good(d) ==
             /\ Alike(c, d) /\ \A x \in known' : d.home[x] # None
             /\ \A x \in MovedWindows :
                  Settled(c, x) /\ (x \notin known' \/ c.home[x] # None) => Settled(d, x)
<1>1. PICK after :
        /\ after[0] = Placing!Placed(c, known')
        /\ \A i \in 1..Len(ws) : after[i] = Placing!Pulled(after[i - 1], ws[i])
        /\ Placing!ProcessRules(c, ws) = after[Len(ws)]
  BY RulesUnfold
<1>2. Good(after[0])
  <2> DEFINE d == Placing!Placed(c, known')
  <2>1. /\ Alike(c, d) /\ d.recent = c.recent /\ d.spoiled = c.spoiled
        /\ \A x \in known' : d.home[x] # None
        /\ \A x \in MovedWindows : x \notin known' \/ c.home[x] # None => d.home[x] = c.home[x]
    BY PlacedKeeps
  <2>2. after[0] = d
    BY <1>1
  <2> HIDE DEF d
  <2>3. d.meant = c.meant
    BY <2>1 DEF Alike
  <2>4. \A x \in MovedWindows :
          Settled(c, x) /\ (x \notin known' \/ c.home[x] # None) => Settled(d, x)
    BY <2>1, <2>3 DEF Settled
  <2> QED
    BY <2>1, <2>2, <2>4
<1>3. ASSUME NEW n \in Nat, n + 1 <= Len(ws), Good(after[n]) PROVE Good(after[n + 1])
  <2> DEFINE b == after[n]
             d == Placing!Pulled(b, ws[n + 1])
  <2>1. n + 1 \in 1..Len(ws) /\ (n + 1) - 1 = n /\ ws[n + 1] \in MovedWindows
    BY <1>3
  <2>2. after[n + 1] = d
    BY <1>1, <2>1
  <2>3. b \in Cores /\ Existing(b)
    BY <1>3 DEF Alike
  <2>4. /\ Alike(b, d) /\ \A x \in MovedWindows : Settled(b, x) => Settled(d, x)
        /\ \A x \in MovedWindows : b.home[x] # None => d.home[x] # None
    <3> HIDE DEF b
    <3> QED BY <2>1, <2>3, PulledKeeps
  <2>5. Good(b)
    BY <1>3
  <2> HIDE DEF b, d
  <2>6. Alike(c, d)
    BY <2>4, <2>5, AlikeAgain
  <2> QED
    BY <2>2, <2>4, <2>5, <2>6
<1> DEFINE T == {n \in Nat : n <= Len(ws) => Good(after[n])}
<1>4. 0 \in T
  BY <1>2
<1>5. \A n \in Nat : n \in T => n + 1 \in T
  <2> HIDE DEF Good
  <2>1. Len(ws) \in Nat
    OBVIOUS
  <2> QED
    BY <1>3, <2>1
<1>6. Nat \subseteq T
  <2> HIDE DEF T
  <2> QED BY <1>4, <1>5, SetInduction
<1>7. Good(after[Len(ws)])
  <2> HIDE DEF Good
  <2>1. Len(ws) \in Nat /\ Len(ws) <= Len(ws)
    OBVIOUS
  <2> QED
    BY <1>6, <2>1
<1> QED
  BY <1>1, <1>7

\* A new window that was moved before it was seen goes where it was moved.
LEMMA NewcomerKeeps ==
  ASSUME NEW c, Fine(c), NEW w \in MovedWindows, w \in known',
         known' \in SUBSET MovedWindows, \A x \in known' \ {w} : c.home[x] # None,
         at' \in [MovedWindows -> MoveDisplays]
  PROVE  LET d == Placing!ProcessRules(c, <<w>>)
         IN  Fine(d) /\ d.shown = c.shown /\ d.focus = c.focus
             /\ \A x \in known' : d.home[x] # None
<1> DEFINE b == Placing!Placed(c, known')
           d == Placing!ProcessRules(c, <<w>>)
<1>1. c \in Cores /\ Existing(c) /\ <<w>> \in Seq(MovedWindows)
  BY DEF Fine
<1>2. /\ Alike(c, d) /\ \A x \in known' : d.home[x] # None
      /\ \A x \in MovedWindows :
           Settled(c, x) /\ (x \notin known' \/ c.home[x] # None) => Settled(d, x)
  BY <1>1, RulesKeep
<1>3. d = Placing!Pulled(b, w)
  <2>1. Len(<<w>>) = 1 /\ <<w>>[1] = w
    OBVIOUS
  <2>2. PICK after :
          /\ after[0] = b
          /\ \A i \in 1..Len(<<w>>) : after[i] = Placing!Pulled(after[i - 1], <<w>>[i])
          /\ Placing!ProcessRules(c, <<w>>) = after[Len(<<w>>)]
    BY <2>1, RulesUnfold
  <2>3. 1 \in 1..Len(<<w>>) /\ 1 - 1 = 0
    BY <2>1
  <2> HIDE DEF b
  <2>4. after[1] = Placing!Pulled(after[0], w)
    BY <2>1, <2>2, <2>3
  <2> QED
    BY <2>1, <2>2, <2>4
<1>4. /\ Alike(c, b) /\ b.recent = c.recent /\ b.spoiled = c.spoiled
      /\ \A x \in known' : b.home[x] # None
  BY <1>1, PlacedKeeps
<1>5. b \in Cores /\ Existing(b) /\ b.meant = c.meant
  BY <1>4 DEF Alike
<1> HIDE DEF b
<1>6. b.recent[w] \in Numbered => b.meant[w] # b.recent[w] \/ Settled(d, w)
  BY <1>3, <1>4, <1>5, PulledKeeps
<1> HIDE DEF d
<1>7. Settled(d, w)
  <2>1. CASE c.home[w] # None
    BY <1>2, <2>1 DEF Fine
  <2>2. CASE c.home[w] = None
    <3>1. Settled(c, w) /\ d.meant = c.meant /\ c.spoiled[w] \subseteq d.spoiled[w]
      BY <1>2 DEF Fine, Alike
    <3>2. CASE c.meant[w] # None /\ c.spoiled[w] = {}
      <4>1. c.recent[w] = c.meant[w] /\ c.meant[w] \in Numbered
        BY <2>2, <3>1, <3>2 DEF Settled
      <4> QED
        BY <1>4, <1>5, <1>6, <4>1
    <3>3. CASE ~(c.meant[w] # None /\ c.spoiled[w] = {})
      BY <3>1, <3>3 DEF Settled
    <3> QED
      BY <3>2, <3>3
  <2> QED
    BY <2>1, <2>2
<1>8. \A x \in MovedWindows : Settled(d, x)
  BY <1>2, <1>7 DEF Fine
<1> QED
  BY <1>2, <1>8 DEF Fine, Alike, d

-----------------------------------------------------------------------------
\* What the user puts somewhere is meant to be there.
LEMMA MeantKeeps ==
  ASSUME NEW c \in Cores, Existing(c), NEW w \in MovedWindows, NEW s \in Places \cup {None},
         NEW reasons \in SUBSET Reasons
  PROVE  LET d == Placing!Meant(c, w, s, reasons)
         IN  /\ d \in Cores /\ Existing(d) /\ d.owner = c.owner /\ d.home = c.home
             /\ d.shown = c.shown /\ d.recent = c.recent /\ d.focus = c.focus
             /\ d.meant[w] = s /\ d.spoiled[w] = reasons
             /\ \A x \in MovedWindows \ {w} : Settled(c, x) => Settled(d, x)
<1> DEFINE wanted == [c.meant EXCEPT ![w] = s]
           why == [c.spoiled EXCEPT ![w] = reasons]
           d == Placing!Meant(c, w, s, reasons)
<1>1. d = [c EXCEPT !.meant = wanted, !.spoiled = why]
  BY DEF Placing!Meant, Cores
<1>2. /\ wanted \in [MovedWindows -> Places \cup {None}] /\ wanted[w] = s
      /\ why \in [MovedWindows -> SUBSET Reasons] /\ why[w] = reasons
      /\ \A x \in MovedWindows \ {w} : wanted[x] = c.meant[x] /\ why[x] = c.spoiled[x]
  BY DEF Cores
<1> HIDE DEF wanted, why, d
<1>3. /\ d \in Cores /\ d.owner = c.owner /\ d.home = c.home /\ d.shown = c.shown
      /\ d.recent = c.recent /\ d.focus = c.focus /\ d.meant = wanted /\ d.spoiled = why
  BY <1>1, <1>2 DEF Cores
<1>4. Existing(d)
  BY <1>3 DEF Existing
<1>5. \A x \in MovedWindows \ {w} : Settled(c, x) => Settled(d, x)
  BY <1>2, <1>3 DEF Settled
<1> QED
  BY <1>2, <1>3, <1>4, <1>5 DEF d

\* A target is a workspace that exists.
LEMMA TargetKeeps ==
  ASSUME NEW c \in Cores, Existing(c), NEW w \in MovedWindows, NEW s \in Places \cup {None},
         s \in Numbered => c.owner[s] # None
  PROVE  LET d == [c EXCEPT !.recent[w] = s]
         IN  /\ d \in Cores /\ Existing(d) /\ d.owner = c.owner /\ d.home = c.home
             /\ d.shown = c.shown /\ d.focus = c.focus /\ d.meant = c.meant
             /\ d.spoiled = c.spoiled /\ d.recent[w] = s
             /\ \A x \in MovedWindows \ {w} : Settled(c, x) => Settled(d, x)
<1> DEFINE targets == [c.recent EXCEPT ![w] = s]
           d == [c EXCEPT !.recent = targets]
<1>1. /\ targets \in [MovedWindows -> Places \cup {None}] /\ targets[w] = s
      /\ \A x \in MovedWindows \ {w} : targets[x] = c.recent[x]
  BY DEF Cores
<1>2. [c EXCEPT !.recent[w] = s] = d
  OBVIOUS
<1> HIDE DEF targets
<1>3. /\ d \in Cores /\ d.owner = c.owner /\ d.home = c.home /\ d.shown = c.shown
      /\ d.recent = targets /\ d.focus = c.focus /\ d.meant = c.meant /\ d.spoiled = c.spoiled
  BY <1>1 DEF Cores
<1> HIDE DEF d
<1>4. \A t \in Range(targets) : t = s \/ t \in Range(c.recent)
  <2>1. DOMAIN targets = MovedWindows /\ DOMAIN c.recent = MovedWindows
    BY <1>1 DEF Cores
  <2> QED
    BY <1>1, <2>1 DEF Range
<1>5. Existing(d)
  BY <1>3, <1>4 DEF Existing
<1>6. \A x \in MovedWindows \ {w} : Settled(c, x) => Settled(d, x)
  BY <1>1, <1>3 DEF Settled
<1> QED
  BY <1>1, <1>2, <1>3, <1>5, <1>6

LEMMA FocusKeeps ==
  ASSUME NEW c, Fine(c), NEW v \in MovedWindows \cup {None}
  PROVE  LET d == [c EXCEPT !.focus = v]
         IN  Fine(d) /\ d.home = c.home /\ d.shown = c.shown
<1> DEFINE d == [c EXCEPT !.focus = v]
<1>1. /\ d \in Cores /\ d.owner = c.owner /\ d.home = c.home /\ d.shown = c.shown
      /\ d.recent = c.recent /\ d.meant = c.meant /\ d.spoiled = c.spoiled
  BY DEF Cores, Fine
<1> HIDE DEF d
<1>2. Existing(d) /\ \A x \in MovedWindows : Settled(d, x)
  BY <1>1 DEF Fine, Existing, Settled
<1> QED
  BY <1>1, <1>2 DEF Fine, d

\* A window that is moved and remembered there is where it was put.
LEMMA PutThere ==
  ASSUME NEW c, Fine(c), NEW w \in MovedWindows, c.home[w] # None, NEW s \in Places
  PROVE  LET d == Placing!Meant(Placing!Remembered(Placing!Moved(c, w, s), w), w, s, {})
         IN  Fine(d) /\ \A x \in MovedWindows : c.home[x] # None => d.home[x] # None
<1> DEFINE a == Placing!Moved(c, w, s)
           b == Placing!Remembered(a, w)
           d == Placing!Meant(b, w, s, {})
<1>1. c \in Cores /\ Existing(c) /\ \A x \in MovedWindows : Settled(c, x)
  BY DEF Fine
<1>2. /\ Alike(c, a) /\ a.home = [c.home EXCEPT ![w] = s]
      /\ \A x \in MovedWindows \ {w} : Settled(c, x) => Settled(a, x)
  BY <1>1, MovedKeeps
<1>3. a \in Cores /\ Existing(a) /\ a.home[w] = s
      /\ \A x \in MovedWindows \ {w} : a.home[x] = c.home[x]
  BY <1>1, <1>2 DEF Alike, Cores
<1>4. b = [a EXCEPT !.recent[w] = s]
  BY <1>3 DEF Placing!Remembered
<1> HIDE DEF a
<1>5. s \in Numbered => a.owner[s] # None
  <2>1. s \in Range(a.home)
    BY <1>3 DEF Range, Cores
  <2> QED
    BY <1>3, <2>1 DEF Existing
<1>6. /\ b \in Cores /\ Existing(b) /\ b.home = a.home /\ b.recent[w] = s
      /\ \A x \in MovedWindows \ {w} : Settled(a, x) => Settled(b, x)
  <2> HIDE DEF b
  <2> QED BY <1>3, <1>4, <1>5, TargetKeeps
<1> HIDE DEF b
<1>7. /\ d \in Cores /\ Existing(d) /\ d.home = b.home /\ d.recent = b.recent
      /\ d.meant[w] = s /\ d.spoiled[w] = {}
      /\ \A x \in MovedWindows \ {w} : Settled(b, x) => Settled(d, x)
  <2>1. {} \in SUBSET Reasons
    OBVIOUS
  <2> HIDE DEF d
  <2> QED BY <1>6, <2>1, MeantKeeps DEF d
<1> HIDE DEF d
<1>8. Settled(d, w)
  BY <1>3, <1>6, <1>7, Constants DEF Settled
<1>9. \A x \in MovedWindows : Settled(d, x)
  BY <1>1, <1>2, <1>6, <1>7, <1>8
<1> QED
  BY <1>3, <1>6, <1>7, <1>9, Constants DEF Fine, a, b, d

\* What the core becomes.
LEMMA CoreBecomes ==
  ASSUME NEW d \in Cores, Placing!Becomes(d)
  PROVE  Placing!Core' = d /\ homes' = d.home /\ shownOn' = d.shown
BY DEF Placing!Becomes, Placing!Core, Cores

LEMMA CoreFields ==
  /\ Placing!Core.owner = owners /\ Placing!Core.shown = shownOn /\ Placing!Core.home = homes
  /\ Placing!Core.focus = focused /\ Placing!Core.recent = recent /\ Placing!Core.meant = meant
  /\ Placing!Core.spoiled = spoiled
BY DEF Placing!Core

LEMMA MovesStart == Placing!Init => MovesInv
<1> SUFFICES ASSUME Placing!Init PROVE MovesInv
  OBVIOUS
<1> DEFINE c == Placing!Core
<1>1. PICK f \in [MoveDisplays -> Numbered \ {Tenth}] :
        /\ Placing!IsInjective(f) /\ shownOn = f
        /\ owners = [s \in Numbered |->
                       IF \E d \in MoveDisplays : f[d] = s THEN CHOOSE d \in MoveDisplays : f[d] = s
                       ELSE None]
  BY DEF Placing!Init
<1>2. /\ homes = [w \in MovedWindows |-> None] /\ focused = None /\ known = {}
      /\ at = [w \in MovedWindows |-> CHOOSE d \in MoveDisplays : TRUE]
      /\ mainWindow = None /\ mouse \in MoveDisplays
      /\ recent = [w \in MovedWindows |-> None]
      /\ meant = [w \in MovedWindows |-> None] /\ spoiled = [w \in MovedWindows |-> {}]
  BY DEF Placing!Init
<1>3. \A s \in Numbered : (\E d \in MoveDisplays : f[d] = s) =>
        (CHOOSE d \in MoveDisplays : f[d] = s) \in MoveDisplays
  OBVIOUS
<1>4. owners \in [Numbered -> MoveDisplays \cup {None}] /\ shownOn \in [MoveDisplays -> Places]
      /\ \A s \in Numbered : s \in Range(shownOn) => owners[s] # None
  <2>1. owners \in [Numbered -> MoveDisplays \cup {None}]
    BY <1>1, <1>3
  <2>2. shownOn \in [MoveDisplays -> Places]
    BY <1>1, Constants
  <2>3. \A s \in Range(shownOn) : \E d \in MoveDisplays : f[d] = s
    BY <1>1 DEF Range
  <2>4. \A s \in Numbered : s \in Range(shownOn) => owners[s] # None
    BY <1>1, <1>3, <2>3, Constants
  <2> QED
    BY <2>1, <2>2, <2>4
<1>5. c \in Cores
  <2>1. /\ homes \in [MovedWindows -> Places \cup {None}]
        /\ recent \in [MovedWindows -> Places \cup {None}]
        /\ meant \in [MovedWindows -> Places \cup {None}]
        /\ spoiled \in [MovedWindows -> SUBSET Reasons] /\ focused \in MovedWindows \cup {None}
    BY <1>2
  <2> QED
    BY <1>4, <2>1 DEF Placing!Core, Cores
<1>6. Existing(c)
  <2>1. \A s \in Range(homes) \cup Range(recent) : s = None
    BY <1>2 DEF Range
  <2> HIDE DEF c
  <2> QED
    BY <1>4, <2>1, Constants, CoreFields DEF Existing, c
<1>7. \A w \in MovedWindows : Settled(c, w)
  <2> HIDE DEF c
  <2> QED
    BY <1>2, CoreFields DEF Settled, c
<1>8. at \in [MovedWindows -> MoveDisplays] /\ IsFiniteSet(known)
  BY <1>2, FS_EmptySet
<1> QED
  BY <1>2, <1>5, <1>6, <1>7, <1>8 DEF MovesInv, Fine

LEMMA CandidatesTyped ==
  MovesInv => Placing!Candidates \subseteq MovedWindows /\ Placing!Indexed \subseteq MovedWindows
BY CoreFields DEF MovesInv, Fine, Cores, Placing!Candidates, Placing!Resolved, Placing!AppFocus, Placing!ShownWindows,
   Placing!Indexed

LEMMA MoveStep == MovesInv /\ Placing!MoveWindowToWorkspace => MovesInv'
<1> SUFFICES ASSUME MovesInv, Placing!MoveWindowToWorkspace PROVE MovesInv'
  OBVIOUS
<1> DEFINE c == Placing!Core
<1>1. PICK w \in Placing!Candidates, s \in Numbered :
        IF homes[w] = None
        THEN LET b == Placing!RememberedForSlot(c, w, s)
             IN Placing!Becomes(Placing!Meant(b, w, s, IF b.recent[w] = s THEN {} ELSE {"nowhere"}))
        ELSE LET b == Placing!Remembered(Placing!Moved(c, w, s), w)
             IN Placing!Becomes([Placing!Meant(b, w, s, {}) EXCEPT !.focus = w])
  BY DEF Placing!MoveWindowToWorkspace
<1>2. w \in MovedWindows /\ s \in Places
  BY CandidatesTyped, Constants
<1>3. UNCHANGED <<known, at, mainWindow, mouse>>
  BY DEF Placing!MoveWindowToWorkspace
<1>4. /\ Fine(c) /\ c \in Cores /\ Existing(c) /\ (\A x \in MovedWindows : Settled(c, x)) /\ homes = c.home
      /\ c.home = homes /\ c.recent = recent
  BY CoreFields DEF MovesInv, Fine
<1> HIDE DEF c
<1>5. CASE homes[w] = None
  <2> DEFINE b == Placing!RememberedForSlot(c, w, s)
             reasons == IF b.recent[w] = s THEN {} ELSE {"nowhere"}
             d == Placing!Meant(b, w, s, reasons)
  <2>1. Placing!Becomes(d)
    BY <1>1, <1>5
  <2>2. /\ b \in Cores /\ Existing(b) /\ b.home = c.home
        /\ \A x \in MovedWindows \ {w} : Settled(c, x) => Settled(b, x)
    <3>1. CASE s # Tenth /\ c.owner[s] # None
      <4>1. b = [c EXCEPT !.recent[w] = s]
        BY <3>1 DEF Placing!RememberedForSlot
      <4> HIDE DEF b
      <4> QED
        BY <1>2, <1>4, <3>1, <4>1, TargetKeeps
    <3>2. CASE ~(s # Tenth /\ c.owner[s] # None)
      <4>1. b = c
        BY <3>2 DEF Placing!RememberedForSlot
      <4> QED
        BY <1>4, <4>1
    <3> QED
      BY <3>1, <3>2
  <2>3. reasons \in SUBSET Reasons
    BY DEF Reasons
  <2> HIDE DEF b
  <2>4. /\ d \in Cores /\ Existing(d) /\ d.home = b.home /\ d.recent = b.recent
        /\ d.meant[w] = s /\ d.spoiled[w] = reasons
        /\ \A x \in MovedWindows \ {w} : Settled(b, x) => Settled(d, x)
    <3> HIDE DEF reasons
    <3> QED BY <1>2, <2>2, <2>3, MeantKeeps
  <2> HIDE DEF d
  <2>5. Settled(d, w)
    BY <1>4, <1>5, <2>2, <2>4 DEF Settled
  <2>6. Fine(d) /\ d.home = homes
    BY <1>4, <2>2, <2>4, <2>5 DEF Fine
  <2>7. Placing!Core' = d /\ homes' = homes
    BY <2>1, <2>4, <2>6, CoreBecomes
  <2> QED
    BY <1>3, <2>6, <2>7 DEF MovesInv
<1>6. CASE homes[w] # None
  <2> DEFINE b == Placing!Meant(Placing!Remembered(Placing!Moved(c, w, s), w), w, s, {})
             d == [b EXCEPT !.focus = w]
  <2>1. Placing!Becomes(d)
    BY <1>1, <1>6
  <2>2. Fine(b) /\ \A x \in MovedWindows : c.home[x] # None => b.home[x] # None
    BY <1>2, <1>4, <1>6, PutThere
  <2> HIDE DEF b
  <2>3. Fine(d) /\ d.home = b.home
    BY <1>2, <2>2, FocusKeeps
  <2> HIDE DEF d
  <2>4. Placing!Core' = d /\ homes' = d.home
    BY <2>1, <2>3, CoreBecomes DEF Fine
  <2> QED
    BY <1>3, <1>4, <2>2, <2>3, <2>4 DEF MovesInv
<1> QED
  BY <1>5, <1>6

LEMMA IndexedStep == MovesInv /\ Placing!MoveIndexedWindow => MovesInv'
<1> SUFFICES ASSUME MovesInv, Placing!MoveIndexedWindow PROVE MovesInv'
  OBVIOUS
<1> DEFINE c == Placing!Core
           b(w, s) == Placing!Meant(Placing!Remembered(Placing!Moved(c, w, s), w), w, s, {})
<1>1. PICK w \in MovedWindows, s \in Numbered : homes[w] # None /\ Placing!Becomes(b(w, s))
  BY CandidatesTyped DEF Placing!MoveIndexedWindow, Placing!Indexed
<1>2. UNCHANGED <<known, at, mainWindow, mouse>>
  BY DEF Placing!MoveIndexedWindow
<1>3. Fine(c) /\ c.home = homes /\ s \in Places
  BY CoreFields, Constants DEF MovesInv, Fine
<1> DEFINE e == b(w, s)
<1>4. Fine(e) /\ \A x \in MovedWindows : c.home[x] # None => e.home[x] # None
  <2> HIDE DEF c
  <2> QED BY <1>1, <1>3, PutThere
<1>5. Placing!Becomes(e)
  BY <1>1
<1> HIDE DEF e, b, c
<1>6. Placing!Core' = e /\ homes' = e.home
  BY <1>4, <1>5, CoreBecomes DEF Fine
<1> QED
  BY <1>2, <1>3, <1>4, <1>6 DEF MovesInv

\* To another display, by command or by the mouse.
LEMMA DisplayStep ==
  MovesInv /\ (Placing!MoveWindowToDisplay \/ Placing!FrameChangesDisplay) => MovesInv'
<1> SUFFICES ASSUME MovesInv, Placing!MoveWindowToDisplay \/ Placing!FrameChangesDisplay
             PROVE  MovesInv'
  OBVIOUS
<1> DEFINE c == Placing!Core
           b(w, s) == Placing!Meant(Placing!Remembered(Placing!Moved(c, w, s), w), w, s, {})
<1>1. \E w \in MovedWindows, d \in MoveDisplays :
        /\ homes[w] # None /\ at' = [at EXCEPT ![w] = d]
        /\ Placing!Becomes(b(w, shownOn[d]))
  <2>1. CASE Placing!MoveWindowToDisplay
    BY <2>1, CandidatesTyped DEF Placing!MoveWindowToDisplay
  <2>2. CASE Placing!FrameChangesDisplay
    BY <2>2 DEF Placing!FrameChangesDisplay, MovesInv
  <2> QED
    BY <2>1, <2>2
<1>2. PICK w \in MovedWindows, d \in MoveDisplays :
        /\ homes[w] # None /\ at' = [at EXCEPT ![w] = d]
        /\ Placing!Becomes(b(w, shownOn[d]))
  BY <1>1
<1>3. UNCHANGED <<known, mainWindow, mouse>>
  BY DEF Placing!MoveWindowToDisplay, Placing!FrameChangesDisplay
<1>4. Fine(c) /\ c.home = homes /\ shownOn[d] \in Places
  BY CoreFields DEF MovesInv, Fine, Cores
<1> DEFINE e == b(w, shownOn[d])
<1>5. Fine(e) /\ \A x \in MovedWindows : c.home[x] # None => e.home[x] # None
  <2> HIDE DEF c
  <2> QED BY <1>2, <1>4, PutThere
<1>6. Placing!Becomes(e)
  BY <1>2
<1> HIDE DEF e, b, c
<1>7. Placing!Core' = e /\ homes' = e.home
  BY <1>5, <1>6, CoreBecomes DEF Fine
<1>8. at' \in [MovedWindows -> MoveDisplays]
  BY <1>2 DEF MovesInv
<1> QED
  BY <1>3, <1>4, <1>5, <1>7, <1>8 DEF MovesInv

\* To the hidden workspace.
LEMMA HiddenStep == MovesInv /\ Placing!MoveWindowToHidden => MovesInv'
<1> SUFFICES ASSUME MovesInv, Placing!MoveWindowToHidden PROVE MovesInv'
  OBVIOUS
<1> DEFINE c == Placing!Core
           s == Hidden[mouse]
<1>1. PICK w \in MovedWindows :
        homes[w] # None /\ Placing!Becomes(Placing!Meant(Placing!Moved(c, w, s), w, s, {"hidden"}))
  BY CandidatesTyped DEF Placing!MoveWindowToHidden
<1>2. UNCHANGED <<known, at, mainWindow, mouse>>
  BY DEF Placing!MoveWindowToHidden
<1>3. s \in Places
  BY Constants DEF MovesInv
<1>4. /\ c \in Cores /\ Existing(c) /\ (\A x \in MovedWindows : Settled(c, x))
      /\ c.home = homes
  BY CoreFields DEF MovesInv, Fine
<1> HIDE DEF c, s
<1> DEFINE b == Placing!Moved(c, w, s)
           d == Placing!Meant(b, w, s, {"hidden"})
<1>5. /\ Alike(c, b) /\ b.home = [c.home EXCEPT ![w] = s]
      /\ \A x \in MovedWindows \ {w} : Settled(c, x) => Settled(b, x)
  BY <1>1, <1>3, <1>4, MovedKeeps
<1> HIDE DEF b
<1>6. /\ d \in Cores /\ Existing(d) /\ d.home = b.home
      /\ d.spoiled[w] = {"hidden"} /\ \A x \in MovedWindows \ {w} : Settled(b, x) => Settled(d, x)
  <2>1. {"hidden"} \in SUBSET Reasons /\ b \in Cores /\ Existing(b)
    BY <1>5 DEF Reasons, Alike
  <2> QED
    BY <1>3, <2>1, MeantKeeps
<1>7. Placing!Becomes(d)
  BY <1>1 DEF b
<1> HIDE DEF d
<1>8. Settled(d, w)
  BY <1>6 DEF Settled
<1>9. Fine(d)
  BY <1>4, <1>5, <1>6, <1>8 DEF Fine
<1>10. \A x \in MovedWindows : c.home[x] # None => d.home[x] # None
  <2>1. c.home \in [MovedWindows -> Places \cup {None}]
    BY <1>4 DEF Cores
  <2> QED
    BY <1>3, <1>5, <1>6, <2>1, Constants
<1>11. Placing!Core' = d /\ homes' = d.home
  BY <1>6, <1>7, CoreBecomes
<1> QED
  BY <1>2, <1>4, <1>9, <1>10, <1>11 DEF MovesInv

\* What a display shows exists.
LEMMA SwitchStep == MovesInv /\ Placing!SwitchWorkspace => MovesInv'
<1> SUFFICES ASSUME MovesInv, Placing!SwitchWorkspace PROVE MovesInv'
  OBVIOUS
<1> DEFINE c == Placing!Core
           d(s) == IF Placing!Display(s) = None THEN mouse ELSE Placing!Display(s)
           made(s) == IF Placing!Display(s) = None THEN [c EXCEPT !.owner[s] = d(s)] ELSE c
<1>1. PICK s \in Places :
        Placing!Becomes(Placing!Swept([made(s) EXCEPT !.shown[d(s)] = s], shownOn[d(s)]))
  BY DEF Placing!SwitchWorkspace, Places
<1>2. UNCHANGED <<known, at, mainWindow, mouse>>
  BY DEF Placing!SwitchWorkspace
<1>3. /\ c \in Cores /\ Existing(c) /\ (\A x \in MovedWindows : Settled(c, x))
      /\ c.home = homes /\ c.owner = owners /\ mouse \in MoveDisplays
  BY CoreFields DEF MovesInv, Fine
<1> DEFINE owned == IF Placing!Display(s) = None THEN [c.owner EXCEPT ![s] = d(s)] ELSE c.owner
           seen == [c.shown EXCEPT ![d(s)] = s]
           e == [made(s) EXCEPT !.shown[d(s)] = s]
<1>4. Placing!Display(s) = None => s \in Numbered
  BY Constants
<1>5. d(s) \in MoveDisplays
  <2>1. s \in Numbered => Placing!Display(s) = owners[s] /\ owners[s] \in MoveDisplays \cup {None}
    BY <1>3 DEF Placing!Display, Cores
  <2> QED
    BY <1>3, <2>1, Constants
<1> HIDE DEF c, d
<1>6. /\ owned \in [Numbered -> MoveDisplays \cup {None}]
      /\ \A t \in Numbered : c.owner[t] # None => owned[t] # None
      /\ s \in Numbered => owned[s] # None
  <2>1. c.owner \in [Numbered -> MoveDisplays \cup {None}]
    BY <1>3 DEF Cores
  <2>2. CASE Placing!Display(s) = None
    BY <1>4, <1>5, <2>1, <2>2, Constants
  <2>3. CASE Placing!Display(s) # None
    BY <1>3, <2>1, <2>3 DEF Placing!Display
  <2> QED
    BY <2>2, <2>3
<1>7. /\ seen \in [MoveDisplays -> Places] /\ \A t \in Range(seen) : t = s \/ t \in Range(c.shown)
  <2>1. seen \in [MoveDisplays -> Places] /\ c.shown \in [MoveDisplays -> Places]
    BY <1>5, <1>3 DEF Cores
  <2> QED
    BY <2>1 DEF Range
<1>8. e = [c EXCEPT !.owner = owned, !.shown = seen]
  <2>1. CASE Placing!Display(s) = None
    BY <1>3, <2>1 DEF Cores
  <2>2. CASE Placing!Display(s) # None
    BY <1>3, <2>2 DEF Cores
  <2> QED
    BY <2>1, <2>2
<1> DEFINE f == Placing!Swept(e, shownOn[d(s)])
<1>9. Placing!Becomes(f)
  BY <1>1
<1> HIDE DEF owned, seen, e, made
<1>10. /\ e \in Cores /\ e.owner = owned /\ e.shown = seen /\ e.home = c.home
       /\ e.recent = c.recent /\ e.meant = c.meant /\ e.spoiled = c.spoiled
  BY <1>3, <1>6, <1>7, <1>8 DEF Cores
<1>11. Existing(e) /\ \A x \in MovedWindows : Settled(e, x)
  BY <1>3, <1>6, <1>7, <1>10 DEF Existing, Settled
<1>12. Fine(f) /\ f.home = homes
  BY <1>3, <1>10, <1>11, SweptKeeps DEF Fine, Alike
<1> HIDE DEF f
<1>13. Placing!Core' = f /\ homes' = homes
  BY <1>9, <1>12, CoreBecomes DEF Fine
<1> QED
  BY <1>2, <1>12, <1>13 DEF MovesInv

\* A window that appears, and what a command that waits for it does.
LEMMA AppearsStep == MovesInv /\ Placing!WindowAppears => MovesInv'
<1> SUFFICES ASSUME MovesInv, Placing!WindowAppears PROVE MovesInv'
  OBVIOUS
<1> DEFINE c == Placing!Core
           w == CHOOSE x \in known' : x \notin known
           placed == Placing!ProcessRules(c, <<w>>)
           expected == Placing!Expected(placed, w)
           done == IF expected = placed THEN placed
                   ELSE [expected EXCEPT !.spoiled[w] = expected.spoiled[w] \cup {"expected"}]
           v == IF next # None /\ Placing!Lands(done, w) THEN w ELSE done.focus
           last == [done EXCEPT !.focus = v]
<1>1. PICK y \in MovedWindows \ known, d \in MoveDisplays :
        known' = known \cup {y} /\ at' = [at EXCEPT ![y] = d]
  BY DEF Placing!WindowAppears
<1>2. w = y
  BY <1>1
<1>3. Placing!Becomes(last) /\ UNCHANGED <<mainWindow, mouse>>
  BY DEF Placing!WindowAppears
<1>4. w \in MovedWindows /\ w \in known' /\ known' \in SUBSET MovedWindows
      /\ at' \in [MovedWindows -> MoveDisplays] /\ IsFiniteSet(known')
  BY <1>1, <1>2, FS_AddElement DEF MovesInv
<1>5. Fine(c) /\ \A x \in known' \ {w} : c.home[x] # None
  BY <1>1, <1>2, CoreFields DEF MovesInv
<1> HIDE DEF c, w
<1>6. Fine(placed) /\ \A x \in known' : placed.home[x] # None
  BY <1>4, <1>5, NewcomerKeeps
<1> HIDE DEF placed
<1>7. Fine(done) /\ \A x \in known' : done.home[x] # None
  <2>1. CASE expected = placed
    BY <1>6, <2>1
  <2>2. CASE expected # placed
    <3>1. expected = Placing!Moved(placed, w, next) /\ next \in Numbered
      BY <2>2 DEF Placing!Expected
    <3>2. /\ Alike(placed, expected) /\ expected.home = [placed.home EXCEPT ![w] = next]
          /\ \A x \in MovedWindows \ {w} : Settled(placed, x) => Settled(expected, x)
      <4>1. next \in Places /\ placed \in Cores /\ Existing(placed) /\ placed.home[w] # None
        BY <1>4, <1>6, <3>1, Constants DEF Fine
      <4> HIDE DEF expected
      <4> QED
        BY <1>4, <3>1, <4>1, MovedKeeps
    <3>3. expected \in Cores /\ Existing(expected) /\ placed.home \in [MovedWindows -> Places \cup {None}]
      BY <1>6, <3>2 DEF Alike, Fine, Cores
    <3> DEFINE why == [expected.spoiled EXCEPT ![w] = expected.spoiled[w] \cup {"expected"}]
    <3> HIDE DEF expected
    <3>4. done = [expected EXCEPT !.spoiled = why]
      BY <2>2
    <3>5. /\ why \in [MovedWindows -> SUBSET Reasons] /\ why[w] # {}
          /\ \A x \in MovedWindows \ {w} : why[x] = expected.spoiled[x]
      BY <1>4, <3>3 DEF Cores, Reasons
    <3> HIDE DEF why, done
    <3>6. /\ done \in Cores /\ done.owner = expected.owner /\ done.home = expected.home
          /\ done.shown = expected.shown /\ done.recent = expected.recent
          /\ done.meant = expected.meant /\ done.spoiled = why
      BY <3>3, <3>4, <3>5 DEF Cores
    <3>7. Existing(done)
      BY <3>3, <3>6 DEF Existing
    <3>8. \A x \in MovedWindows : Settled(done, x)
      <4>1. Settled(done, w)
        BY <3>5, <3>6 DEF Settled
      <4>2. \A x \in MovedWindows \ {w} : Settled(done, x)
        BY <1>6, <3>2, <3>5, <3>6 DEF Settled, Fine
      <4> QED
        BY <4>1, <4>2
    <3>9. \A x \in known' : done.home[x] # None
      BY <1>4, <1>6, <3>1, <3>2, <3>3, <3>6, Constants
    <3> QED
      BY <3>6, <3>7, <3>8, <3>9 DEF Fine
  <2> QED
    BY <2>1, <2>2
<1> HIDE DEF done
<1>8. v \in MovedWindows \cup {None}
  BY <1>4, <1>7 DEF Fine, Cores
<1> HIDE DEF v
<1>9. Fine(last) /\ last.home = done.home
  BY <1>7, <1>8, FocusKeeps
<1> HIDE DEF last
<1>10. Placing!Core' = last /\ homes' = last.home
  BY <1>3, <1>9, CoreBecomes DEF Fine
<1> QED
  BY <1>3, <1>4, <1>7, <1>9, <1>10 DEF MovesInv

\* The rules are applied again.
LEMMA DiscoveredStep == MovesInv /\ Placing!WindowsDiscovered => MovesInv'
<1> SUFFICES ASSUME MovesInv, Placing!WindowsDiscovered PROVE MovesInv'
  OBVIOUS
<1> DEFINE c == Placing!Core
<1>1. PICK a, ws : /\ ws \in Placing!SetToSeqs({w \in known : App[w] = a})
                   /\ Placing!Becomes(Placing!ProcessRules(c, ws))
  BY DEF Placing!WindowsDiscovered
<1>2. UNCHANGED <<known, at, mainWindow, mouse>>
  BY DEF Placing!WindowsDiscovered
<1>3. ws \in Seq(MovedWindows)
  <2> DEFINE S == {w \in known : App[w] = a}
  <2>1. ws \in Placing!SetToSeqs(S)
    BY <1>1
  <2>2. S \in SUBSET MovedWindows /\ S \in SUBSET known
    BY DEF MovesInv
  <2> HIDE DEF S
  <2>3. ws \in [1..Cardinality(S) -> S]
    BY <2>1 DEF Placing!SetToSeqs, Placing!Cardinality, Cardinality
  <2>4. Cardinality(S) \in Nat
    BY <2>2, FS_Subset, FS_CardinalityType DEF MovesInv
  <2> QED
    BY <2>2, <2>3, <2>4
<1> DEFINE d == Placing!ProcessRules(c, ws)
<1>4. /\ Fine(c) /\ c \in Cores /\ Existing(c) /\ known' \in SUBSET MovedWindows
      /\ at' \in [MovedWindows -> MoveDisplays] /\ \A x \in known' : c.home[x] # None
  BY <1>2, CoreFields DEF MovesInv, Fine
<1> HIDE DEF c
<1>5. /\ Alike(c, d) /\ \A x \in known' : d.home[x] # None
      /\ \A x \in MovedWindows :
           Settled(c, x) /\ (x \notin known' \/ c.home[x] # None) => Settled(d, x)
  BY <1>3, <1>4, RulesKeep
<1>6. Placing!Becomes(d)
  BY <1>1
<1> HIDE DEF d
<1>7. Fine(d)
  BY <1>4, <1>5 DEF Fine, Alike
<1>8. Placing!Core' = d /\ homes' = d.home
  BY <1>6, <1>7, CoreBecomes DEF Fine
<1> QED
  BY <1>2, <1>4, <1>5, <1>7, <1>8 DEF MovesInv

\* A window that is gone is meant to be nowhere.
LEMMA DestroyedStep == MovesInv /\ Placing!WindowDestroyed => MovesInv'
<1> SUFFICES ASSUME MovesInv, Placing!WindowDestroyed PROVE MovesInv'
  OBVIOUS
<1> DEFINE c == Placing!Core
           b(w) == Placing!Meant(c, w, None, {})
           e(w) == [b(w) EXCEPT !.home[w] = None, !.recent[w] = None,
                                !.focus = IF b(w).focus = w THEN None ELSE b(w).focus]
<1>1. PICK w \in known :
        /\ known' = known \ {w} /\ Placing!Becomes(Placing!Swept(e(w), homes[w]))
        /\ mainWindow' = IF mainWindow = w THEN None ELSE mainWindow
  BY DEF Placing!WindowDestroyed
<1>2. UNCHANGED <<at, mouse>>
  BY DEF Placing!WindowDestroyed
<1>3. /\ w \in MovedWindows /\ c \in Cores /\ Existing(c) /\ c.home = homes
      /\ \A x \in MovedWindows : Settled(c, x)
  BY CoreFields DEF MovesInv, Fine
<1> DEFINE d == Placing!Swept(e(w), homes[w])
           gone == e(w)
           was == b(w)
<1>4. Placing!Becomes(d)
  BY <1>1
<1> HIDE DEF c
<1>5. /\ was \in Cores /\ Existing(was) /\ was.home = c.home
      /\ was.meant[w] = None /\ \A x \in MovedWindows \ {w} : Settled(c, x) => Settled(was, x)
  <2>1. {} \in SUBSET Reasons
    OBVIOUS
  <2> QED
    BY <1>3, <2>1, MeantKeeps
<1> DEFINE homed == [was.home EXCEPT ![w] = None]
           targets == [was.recent EXCEPT ![w] = None]
           v == IF was.focus = w THEN None ELSE was.focus
<1>6. gone = [was EXCEPT !.home = homed, !.recent = targets, !.focus = v]
  OBVIOUS
<1> HIDE DEF was, gone, b
<1>7. /\ homed \in [MovedWindows -> Places \cup {None}] /\ homed[w] = None
      /\ targets \in [MovedWindows -> Places \cup {None}] /\ targets[w] = None
      /\ \A x \in MovedWindows \ {w} : homed[x] = was.home[x] /\ targets[x] = was.recent[x]
      /\ v \in MovedWindows \cup {None}
      /\ \A t \in Range(homed) : t = None \/ t \in Range(was.home)
      /\ \A t \in Range(targets) : t = None \/ t \in Range(was.recent)
  <2>1. was.home \in [MovedWindows -> Places \cup {None}] /\ was.recent \in [MovedWindows -> Places \cup {None}]
        /\ was.focus \in MovedWindows \cup {None}
    BY <1>5 DEF Cores
  <2> QED
    BY <1>3, <2>1 DEF Range
<1> HIDE DEF homed, targets, v
<1>8. /\ gone \in Cores /\ gone.owner = was.owner /\ gone.home = homed /\ gone.shown = was.shown
      /\ gone.recent = targets /\ gone.meant = was.meant /\ gone.spoiled = was.spoiled
  BY <1>5, <1>6, <1>7 DEF Cores
<1>9. Existing(gone)
  BY <1>5, <1>7, <1>8, Constants DEF Existing
<1>10. \A x \in MovedWindows : Settled(gone, x)
  <2>1. Settled(gone, w)
    BY <1>5, <1>8 DEF Settled
  <2>2. \A x \in MovedWindows \ {w} : Settled(gone, x)
    BY <1>3, <1>5, <1>7, <1>8 DEF Settled
  <2> QED
    BY <2>1, <2>2
<1>11. d = Placing!Swept(gone, homes[w])
  BY DEF gone
<1> HIDE DEF d, e
<1>12. Fine(d) /\ d.home = gone.home
  BY <1>8, <1>9, <1>10, <1>11, SweptKeeps DEF Fine, Alike
<1>13. Placing!Core' = d /\ homes' = d.home
  BY <1>4, <1>12, CoreBecomes DEF Fine
<1>14. \A x \in known' : homes'[x] # None
  BY <1>1, <1>3, <1>5, <1>7, <1>8, <1>12, <1>13 DEF MovesInv
<1>15. known' \subseteq MovedWindows /\ mainWindow' \in MovedWindows \cup {None}
       /\ IsFiniteSet(known')
  BY <1>1, FS_RemoveElement DEF MovesInv
<1> QED
  BY <1>2, <1>12, <1>13, <1>14, <1>15 DEF MovesInv

\* A window that follows a click is where the click was.
LEMMA FollowStep == MovesInv /\ Placing!FollowClick => MovesInv'
<1> SUFFICES ASSUME MovesInv, Placing!FollowClick PROVE MovesInv'
  OBVIOUS
<1> DEFINE b == Placing!Core
           w == mainWindow
           s == clicked.workspace
           c == [b EXCEPT !.recent[w] = s]
           moved == Placing!Moved(c, w, s)
<1>1. /\ w \in known
      /\ IF s \notin Range(shownOn) THEN UNCHANGED <<owners, shownOn, homes, focused, recent, meant, spoiled>>
         ELSE IF s \in Numbered /\ homes[w] # None
         THEN Placing!Becomes(Placing!Meant(moved, w, s, {}))
         ELSE Placing!Becomes(IF homes[w] \in {None, s} THEN Placing!Meant(c, w, s, {}) ELSE c)
  BY SameRange DEF Placing!FollowClick, Placing!core
<1>2. UNCHANGED <<known, at, mainWindow, mouse>>
  BY DEF Placing!FollowClick
<1>3. /\ w \in MovedWindows /\ b \in Cores /\ Existing(b) /\ b.home = homes /\ b.shown = shownOn
      /\ (\A x \in MovedWindows : Settled(b, x)) /\ homes[w] # None
  BY <1>1, CoreFields DEF MovesInv, Fine
<1>4. CASE s \notin Range(shownOn)
  <2>1. Placing!Core' = b /\ homes' = homes
    BY <1>1, <1>4 DEF Placing!Core
  <2> QED
    BY <1>2, <2>1 DEF MovesInv
<1>5. CASE s \in Range(shownOn)
  <2>1. s \in Places /\ (s \in Numbered => b.owner[s] # None)
    BY <1>3, <1>5 DEF Cores, Range, Existing
  <2> HIDE DEF b, w, s
  <2>2. /\ c \in Cores /\ Existing(c) /\ c.home = homes /\ c.meant = b.meant
        /\ c.spoiled = b.spoiled /\ c.recent[w] = s
        /\ \A x \in MovedWindows \ {w} : Settled(b, x) => Settled(c, x)
    BY <1>3, <2>1, TargetKeeps
  <2> HIDE DEF c
  <2>3. {} \in SUBSET Reasons
    OBVIOUS
  <2>4. CASE s \in Numbered
    <3> DEFINE d == Placing!Meant(moved, w, s, {})
    <3>1. Placing!Becomes(d)
      BY <1>1, <1>3, <1>5, <2>4
    <3>2. /\ Alike(c, moved) /\ moved.home = [homes EXCEPT ![w] = s]
          /\ \A x \in MovedWindows \ {w} : Settled(c, x) => Settled(moved, x)
      BY <1>3, <2>1, <2>2, MovedKeeps
    <3> HIDE DEF moved
    <3>3. /\ moved \in Cores /\ Existing(moved) /\ moved.recent[w] \in {s, None}
          /\ homes \in [MovedWindows -> Places \cup {None}]
      BY <1>3, <2>2, <3>2 DEF Alike, Cores
    <3>4. /\ d \in Cores /\ Existing(d) /\ d.home = moved.home /\ d.recent = moved.recent
          /\ d.meant[w] = s /\ d.spoiled[w] = {}
          /\ \A x \in MovedWindows \ {w} : Settled(moved, x) => Settled(d, x)
      BY <1>3, <2>1, <2>3, <3>3, MeantKeeps
    <3> HIDE DEF d
    <3>5. Settled(d, w)
      BY <1>3, <2>1, <3>2, <3>3, <3>4, Constants DEF Settled
    <3>6. Fine(d)
      BY <1>3, <2>2, <3>2, <3>4, <3>5 DEF Fine
    <3>7. Placing!Core' = d /\ homes' = d.home
      BY <3>1, <3>4, CoreBecomes
    <3>8. \A x \in known : homes'[x] # None
      BY <1>3, <2>1, <3>2, <3>3, <3>4, <3>7, Constants DEF MovesInv
    <3> QED
      BY <1>2, <3>6, <3>7, <3>8 DEF MovesInv
  <2>5. CASE s \notin Numbered /\ homes[w] = s
    <3> DEFINE d == Placing!Meant(c, w, s, {})
    <3>1. Placing!Becomes(d)
      BY <1>1, <1>3, <1>5, <2>5
    <3>2. /\ d \in Cores /\ Existing(d) /\ d.home = c.home /\ d.recent = c.recent
          /\ d.meant[w] = s /\ d.spoiled[w] = {}
          /\ \A x \in MovedWindows \ {w} : Settled(c, x) => Settled(d, x)
      BY <1>3, <2>1, <2>2, <2>3, MeantKeeps
    <3> HIDE DEF d
    <3>3. Settled(d, w)
      BY <1>3, <2>2, <2>5, <3>2 DEF Settled
    <3>4. Fine(d) /\ d.home = homes
      BY <1>3, <2>2, <3>2, <3>3 DEF Fine
    <3>5. Placing!Core' = d /\ homes' = homes
      BY <3>1, <3>4, CoreBecomes DEF Fine
    <3> QED
      BY <1>2, <3>4, <3>5 DEF MovesInv
  <2>6. CASE s \notin Numbered /\ homes[w] # s
    <3>1. Placing!Becomes(c)
      BY <1>1, <1>3, <1>5, <2>6
    <3>2. Settled(c, w)
      BY <1>3, <2>2, <2>6 DEF Settled
    <3>3. Fine(c)
      BY <1>3, <2>2, <3>2 DEF Fine
    <3>4. Placing!Core' = c /\ homes' = homes
      BY <2>2, <3>1, CoreBecomes
    <3> QED
      BY <1>2, <3>3, <3>4 DEF MovesInv
  <2> QED
    BY <2>4, <2>5, <2>6
<1> QED
  BY <1>4, <1>5

\* A target that runs out leaves a window that has a workspace where it is.
LEMMA RunsOutStep == MovesInv /\ Placing!RunsOut => MovesInv'
<1> SUFFICES ASSUME MovesInv, Placing!RunsOut PROVE MovesInv'
  OBVIOUS
<1> DEFINE c == Placing!Core
           why(w) == IF homes[w] = None THEN c.spoiled[w] \cup {"late"} ELSE c.spoiled[w]
           e(w) == [c EXCEPT !.recent[w] = None, !.spoiled[w] = why(w)]
<1>1. UNCHANGED <<known, at, mainWindow, mouse>>
  BY DEF Placing!RunsOut
<1>2. CASE UNCHANGED <<owners, shownOn, homes, focused, recent, meant, spoiled>>
  <2>1. Placing!Core' = c /\ homes' = homes
    BY <1>2 DEF Placing!Core
  <2> QED
    BY <1>1, <2>1 DEF MovesInv
<1>3. CASE \E w \in MovedWindows : Placing!Becomes(e(w))
  <2>1. PICK w \in MovedWindows : Placing!Becomes(e(w))
    BY <1>3
  <2>2. /\ c \in Cores /\ Existing(c) /\ c.home = homes /\ \A x \in MovedWindows : Settled(c, x)
    BY CoreFields DEF MovesInv, Fine
  <2> HIDE DEF c
  <2> DEFINE b == [c EXCEPT !.recent[w] = None]
             reasons == [b.spoiled EXCEPT ![w] = why(w)]
             d == e(w)
  <2>3. /\ b \in Cores /\ Existing(b) /\ b.owner = c.owner /\ b.home = c.home
        /\ b.shown = c.shown /\ b.meant = c.meant /\ b.spoiled = c.spoiled /\ b.recent[w] = None
        /\ \A x \in MovedWindows \ {w} : Settled(c, x) => Settled(b, x)
    <3>1. None \notin Numbered
      BY Constants
    <3> QED
      BY <2>2, <3>1, TargetKeeps
  <2>4. why(w) \in SUBSET Reasons
    BY <2>2 DEF Cores, Reasons
  <2>5. d = [b EXCEPT !.spoiled = reasons]
    BY <2>2 DEF Cores
  <2>6. Placing!Becomes(d)
    BY <2>1
  <2> HIDE DEF b, d, e
  <2>7. /\ reasons \in [MovedWindows -> SUBSET Reasons] /\ reasons[w] = why(w)
        /\ \A x \in MovedWindows \ {w} : reasons[x] = b.spoiled[x]
    <3> HIDE DEF why
    <3> QED BY <2>3, <2>4 DEF Cores
  <2> HIDE DEF reasons
  <2>8. /\ d \in Cores /\ d.owner = b.owner /\ d.home = b.home /\ d.shown = b.shown
        /\ d.recent = b.recent /\ d.meant = b.meant /\ d.spoiled = reasons
    BY <2>3, <2>5, <2>7 DEF Cores
  <2>9. Existing(d)
    BY <2>3, <2>8 DEF Existing
  <2>10. Settled(d, w)
    <3>1. CASE homes[w] = None
      BY <2>7, <2>8, <3>1 DEF Settled
    <3>2. CASE homes[w] # None
      BY <2>2, <2>3, <2>7, <2>8, <3>2, Constants DEF Settled
    <3> QED
      BY <3>1, <3>2
  <2>11. \A x \in MovedWindows \ {w} : Settled(d, x)
    BY <2>2, <2>3, <2>7, <2>8 DEF Settled
  <2>12. Fine(d) /\ d.home = homes
    BY <2>2, <2>3, <2>8, <2>9, <2>10, <2>11 DEF Fine
  <2>13. Placing!Core' = d /\ homes' = homes
    BY <2>6, <2>8, <2>12, CoreBecomes
  <2> QED
    BY <1>1, <2>12, <2>13 DEF MovesInv
<1> QED
  BY <1>2, <1>3, CoreFields DEF Placing!RunsOut, Placing!core

\* Steps that move no window.
LEMMA QuietStep ==
  MovesInv /\ (Placing!FocusNextWindow \/ Placing!FocusDisplay \/ Placing!BecomesMain \/ Placing!ClickAuxiliary
               \/ UNCHANGED placingVars) => MovesInv'
<1> SUFFICES ASSUME MovesInv,
                    Placing!FocusNextWindow \/ Placing!FocusDisplay \/ Placing!BecomesMain
                    \/ Placing!ClickAuxiliary \/ UNCHANGED placingVars
             PROVE  MovesInv'
  OBVIOUS
<1> DEFINE c == Placing!Core
<1>1. /\ UNCHANGED <<owners, shownOn, homes, recent, meant, spoiled, known, at>>
      /\ focused' \in MovedWindows \cup {None} /\ mainWindow' \in MovedWindows \cup {None}
      /\ mouse' \in MoveDisplays
  <2>1. focused \in MovedWindows \cup {None}
    BY CoreFields DEF MovesInv, Fine, Cores
  <2>2. CASE Placing!FocusDisplay
    BY <2>1, <2>2 DEF MovesInv, Placing!FocusDisplay, Placing!ShownWindows
  <2>3. CASE Placing!BecomesMain
    BY <2>1, <2>3 DEF MovesInv, Placing!BecomesMain, Placing!core
  <2>4. CASE Placing!FocusNextWindow \/ Placing!ClickAuxiliary \/ UNCHANGED placingVars
    BY <2>1, <2>4 DEF MovesInv, Placing!FocusNextWindow, Placing!ClickAuxiliary, Placing!core, placingVars
  <2> QED
    BY <2>2, <2>3, <2>4
<1> DEFINE d == [c EXCEPT !.focus = focused']
<1>2. Placing!Core' = d
  BY <1>1 DEF Placing!Core
<1>3. Fine(c)
  BY DEF MovesInv
<1> HIDE DEF c
<1>4. Fine(d)
  BY <1>1, <1>3, FocusKeeps
<1> HIDE DEF d
<1> QED
  BY <1>1, <1>2, <1>4 DEF MovesInv

LEMMA MovesStep ==
  MovesInv /\ [MCNext]_<<part, vars, pictureVars, placingVars>> => MovesInv'
<1> SUFFICES ASSUME MovesInv, [MCNext]_<<part, vars, pictureVars, placingVars>> PROVE MovesInv'
  OBVIOUS
<1>1. CASE Placing!Next
  BY <1>1, MoveStep, IndexedStep, HiddenStep, DisplayStep, SwitchStep, AppearsStep, DiscoveredStep, DestroyedStep,
     FollowStep, RunsOutStep, QuietStep DEF Placing!Next
<1>2. CASE UNCHANGED placingVars
  BY <1>2, QuietStep
<1> QED
  BY <1>1, <1>2 DEF MCNext

\* A window stays where the user last put it, and one that was moved before it had a
\* workspace gets there, however often it is seen again and whatever other windows
\* and rules there are, unless one of the recorded reasons holds.
THEOREM MovesExplained == MCSpec => []MovesAreExplained
<1>1. MCInit => MovesInv
  BY MovesStart DEF MCInit
<1>2. MovesInv /\ [MCNext]_<<part, vars, pictureVars, placingVars>> => MovesInv'
  BY MovesStep
<1>3. MovesInv => MovesAreExplained
  BY CoreFields DEF MovesInv, Fine, Settled, MovesAreExplained, Placing!MovesAreExplained, Placing!Elsewhere
<1> QED
  BY <1>1, <1>2, <1>3, PTL DEF MCSpec
=============================================================================
