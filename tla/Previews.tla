------------------------------ MODULE Previews ------------------------------
(***************************************************************************)
(* The pictures of the windows in Lift's overview (ui/mission_control.rs):   *)
(* the main thread takes the first ones itself and leaves the others to a    *)
(* pool of threads, which put them into a cache that the overlay shares and  *)
(* ask for a refresh.  A generation number tells the threads which jobs      *)
(* have been overtaken, and a set of jobs under way keeps a picture from     *)
(* being taken twice.                                                        *)
(*                                                                           *)
(* A thread, a timer and a fade keep the address of the overlay they were    *)
(* started for.  When it has been dropped, what they do to that address is   *)
(* undefined: here it does nothing, or it reaches the overlay that lives     *)
(* there now.                                                                *)
(***************************************************************************)
EXTENDS Integers, FiniteSetsExt, SequencesExt

CONSTANTS
  Windows,
  Unnamed,      \* the windows without a window server id: no picture can be taken
  Workers,
  SyncLimit,    \* SYNC_PREWARM_LIMIT
  Fades,        \* settings.ui.mission_control.fade_enabled
  MaxUpdates,   \* bound: how often the overlay is shown anew
  MaxRedraws,   \* bound: how often the highlight moves
  None

VARIABLES
  main,        \* what the main thread is doing
  overlay,     \* the number of the overlay, 0 if there is none
  tiles,       \* the windows it shows
  layers,      \* preview_layers
  displayed,   \* the layers that have a picture
  ready,       \* ready_previews
  cache,       \* preview_cache, by overlay: an overlay's jobs keep it alive
  pending,     \* refresh_pending
  timers,      \* the overlays of the refreshes that are due after 8 ms
  generation,  \* CURRENT_GENERATION
  inFlight,    \* IN_FLIGHT
  jobs,        \* CAPTURE_POOL: jobs no thread has taken yet
  worker,      \* what each thread is doing
  failed,      \* ghost: windows of which a picture could not be taken
  updates, redraws, born

bounds == <<updates, redraws, born>>
shownVars == <<tiles, layers, displayed, ready>>
vars == <<main, overlay, shownVars, cache, pending, timers, generation, inFlight,
          jobs, worker, failed, bounds>>

\* What the bounds must be.
PreviewsAssumption == MaxUpdates \in Nat /\ SyncLimit \in Nat

Idle == [at |-> "idle", job |-> None]
-----------------------------------------------------------------------------
(* The main thread: update(), redraws and hiding. *)

\* set_mode and prune_preview_cache: what is kept belongs to windows still shown.
SetMode ==
  /\ main = "idle" /\ updates < MaxUpdates
  /\ updates' = updates + 1
  /\ overlay' = IF overlay = 0 THEN born + 1 ELSE overlay
  /\ born' = IF overlay = 0 THEN born + 1 ELSE born
  /\ \E ws \in SUBSET Windows :
       LET kept == IF overlay = 0 THEN {} ELSE cache[overlay] \cap ws
       IN /\ tiles' = ws
          /\ cache' = [cache EXCEPT ![overlay'] = kept]
          /\ layers' = IF overlay = 0 THEN {}
                       ELSE IF cache[overlay] = {} THEN layers ELSE layers \cap ws
          /\ displayed' = displayed \cap layers'
  /\ ready' = {}
  /\ pending' = (overlay # 0 /\ pending)
  /\ generation' = generation + 1
  /\ main' = "prewarm" /\ failed' = {}
  /\ UNCHANGED <<timers, inFlight, jobs, worker, redraws>>

Job(w) == [of |-> w, generation |-> generation', overlay |-> overlay]

\* request_refresh for an overlay that is there: only the first request before a
\* refresh starts a timer.
Ask == pending' = TRUE /\ timers' = IF pending THEN timers ELSE timers \cup {overlay}

\* prewarm_previews: the first SyncLimit windows at once, some of which fail; jobs for
\* the others.  A window that is in the cache is passed over.
Prewarm ==
  /\ main = "prewarm"
  /\ main' = "draw"
  /\ LET named == tiles \ Unnamed
     IN IF named = {}
        THEN UNCHANGED <<generation, cache, ready, failed, inFlight, jobs, pending, timers>>
        ELSE /\ generation' = generation + 1
             /\ \E now \in kSubset(Min({SyncLimit, Cardinality(named)}), named) :
                \E works \in SUBSET (now \ cache[overlay]) :
                  LET later == (named \ now) \ cache[overlay]
                  IN /\ cache' = [cache EXCEPT ![overlay] = @ \cup works]
                     /\ ready' = ready \cup works
                     /\ failed' = failed \cup ((now \ cache[overlay]) \ works)
                     /\ inFlight' = inFlight \cup {<<generation', w>> : w \in later}
                     /\ jobs' = jobs \cup {Job(w) : w \in later}
                     /\ IF works = {} THEN UNCHANGED <<pending, timers>> ELSE Ask
  /\ UNCHANGED <<overlay, tiles, layers, displayed, worker, bounds>>

\* draw_windows_tile: a layer for every tile, with its picture if the cache has it;
\* schedule_capture for those that have none and whose job is not under way.
Drawing ==
  LET here == tiles \cap cache[overlay]
      wanted == {w \in (tiles \ Unnamed) \ (cache[overlay] \cup ready) :
                   <<generation, w>> \notin inFlight}
  IN /\ layers' = layers \cup tiles
     /\ displayed' = displayed \cup here
     /\ ready' = ready \cup here
     /\ UNCHANGED generation
     /\ inFlight' = inFlight \cup {<<generation, w>> : w \in wanted}
     /\ jobs' = jobs \cup {Job(w) : w \in wanted}
     /\ failed' = failed \ wanted
     /\ UNCHANGED <<overlay, tiles, cache, pending, timers, worker>>

Draw == main = "draw" /\ main' = "idle" /\ Drawing /\ UNCHANGED bounds

Redraw ==
  /\ main = "idle" /\ overlay # 0 /\ redraws < MaxRedraws
  /\ redraws' = redraws + 1
  /\ Drawing
  /\ UNCHANGED <<main, updates, born>>

\* hide() and then the overlay is dropped.  With a fade it is dropped before the fade
\* is over and is never purged, so that its jobs are not overtaken.
Dispose ==
  /\ main = "idle" /\ overlay # 0
  /\ overlay' = 0
  /\ tiles' = {} /\ layers' = {} /\ displayed' = {} /\ ready' = {}
  /\ pending' = FALSE /\ failed' = {}
  /\ IF Fades THEN UNCHANGED <<cache, generation>>
     ELSE cache' = [cache EXCEPT ![overlay] = {}] /\ generation' = generation + 1
  /\ UNCHANGED <<main, timers, inFlight, jobs, worker, bounds>>
-----------------------------------------------------------------------------
(* The refresh, 8 ms after it was asked for. *)

\* Mutant of RefreshBegins: the flag is not reset.
FaultyRefreshBegins(o) ==
  IF o = overlay THEN UNCHANGED pending /\ main' = "refresh"
  ELSE \/ UNCHANGED <<pending, main>>
       \/ overlay # 0 /\ UNCHANGED pending /\ main' = "refresh"

\* The flag is reset before the cache is read: a picture that is too late for this
\* refresh asks for another one.
RefreshBegins(o) ==
  IF o = overlay THEN pending' = FALSE /\ main' = "refresh"
  ELSE \/ UNCHANGED <<pending, main>>
       \/ overlay # 0 /\ pending' = FALSE /\ main' = "refresh"

RefreshDue ==
  /\ main = "idle"
  /\ \E o \in timers : timers' = timers \ {o} /\ RefreshBegins(o)
  /\ UNCHANGED <<overlay, shownVars, cache, generation, inFlight, jobs, worker, failed, bounds>>

RefreshPreviews ==
  /\ main = "refresh" /\ main' = "idle"
  /\ displayed' = displayed \cup (layers \cap cache[overlay])
  /\ ready' = ready \cup (layers \cap cache[overlay])
  /\ UNCHANGED <<overlay, tiles, layers, cache, pending, timers, generation, inFlight,
                 jobs, worker, failed, bounds>>
-----------------------------------------------------------------------------
(* The pool. *)

Becomes(k, at, job) == worker' = [worker EXCEPT ![k] = [at |-> at, job |-> job]]

\* The entry is removed unless another thread holds the lock at that moment.
Landed(job) ==
  \/ inFlight' = inFlight \ {<<job.generation, job.of>>}
  \/ /\ main # "idle" \/ \E k \in Workers : worker[k].job \notin {None, job}
     /\ UNCHANGED inFlight

\* A job of an older generation is not worked on.
TakeJob(k) ==
  /\ worker[k].at = "idle"
  /\ \E job \in jobs :
       /\ jobs' = jobs \ {job}
       /\ IF job.generation = generation
          THEN Becomes(k, "capture", job) /\ UNCHANGED inFlight
          ELSE Landed(job) /\ UNCHANGED worker
  /\ UNCHANGED <<main, overlay, shownVars, cache, pending, timers, generation, failed, bounds>>

Capture(k) ==
  LET job == worker[k].job
  IN /\ worker[k].at = "capture"
     /\ \/ /\ cache' = [cache EXCEPT ![job.overlay] = @ \cup {job.of}]
           /\ Becomes(k, "captured", job) /\ UNCHANGED <<inFlight, failed>>
        \/ /\ Becomes(k, "idle", None) /\ Landed(job)
           /\ failed' = IF job.overlay = overlay THEN failed \cup {job.of} ELSE failed
           /\ UNCHANGED cache
     /\ UNCHANGED <<main, overlay, shownVars, pending, timers, generation, jobs, bounds>>

RequestRefresh(k) ==
  LET job == worker[k].job
  IN /\ worker[k].at = "captured"
     /\ Landed(job)
     /\ Becomes(k, "idle", None)
     /\ IF job.overlay = overlay THEN Ask
        ELSE UNCHANGED <<pending, timers>> \/ (overlay # 0 /\ Ask)
     /\ UNCHANGED <<main, overlay, shownVars, cache, generation, jobs, failed, bounds>>
-----------------------------------------------------------------------------
Init ==
  /\ main = "idle" /\ overlay = 0 /\ born = 0
  /\ tiles = {} /\ layers = {} /\ displayed = {} /\ ready = {}
  /\ cache = [o \in 1..MaxUpdates |-> {}]
  /\ pending = FALSE /\ timers = {} /\ generation = 1 /\ inFlight = {}
  /\ jobs = {} /\ worker = [k \in Workers |-> Idle] /\ failed = {}
  /\ updates = 0 /\ redraws = 0

Next ==
  \/ SetMode \/ Prewarm \/ Draw \/ Redraw \/ Dispose
  \/ RefreshDue \/ RefreshPreviews
  \/ \E k \in Workers : TakeJob(k) \/ Capture(k) \/ RequestRefresh(k)

Spec == Init /\ [][Next]_vars
-----------------------------------------------------------------------------
AtRest ==
  /\ main = "idle" /\ timers = {} /\ jobs = {} /\ \A k \in Workers : worker[k] = Idle

\* When nothing is under way, every tile shows the picture of its window, unless none
\* could be taken: no picture that was taken is left in the cache unseen, however the
\* overlay is shown anew, redrawn or dropped while pictures are being taken.
PreviewsAppear == AtRest /\ overlay # 0 => tiles \subseteq displayed \cup failed \cup Unnamed
=============================================================================
