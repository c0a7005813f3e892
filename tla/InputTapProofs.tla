--------------------------- MODULE InputTapProofs ---------------------------
(***************************************************************************)
(* The input thread, for any keys, layouts, bindings and configurations:   *)
(* the tap listens, hotkeys fire, and focus follows the mouse.  The        *)
(* trackpad, for any fingers and settings: swipes switch the workspace.    *)
(* The activation of spaces, for any screens and spaces: the user's        *)
(* choices stand.                                                          *)
(***************************************************************************)
EXTENDS MCInput, FiniteSetTheorems, WellFoundedInduction, TLAPS

StateType ==
  [hidden : Nat, config : Configs, processing : BOOLEAN, ffm : BOOLEAN, active : BOOLEAN,
   pressed : SUBSET AllKeys, flags : SUBSET (Families \cup Single), sampled : BOOLEAN,
   resize : {"no", "on", "late"}]

\* A tap that does not listen is under repair, or could not be replaced; its mask is
\* the one that is wanted, or was refused.
Repaired ==
  /\ tap \in {"on", "off", "dead"}
  /\ tap = "dead" => generation \in recoveries \/ "tap" \in failed
  /\ tap = "off" => notified \/ generation \in recoveries \/ "tap" \in failed
Masked == "mask" \notin failed => mask = DesiredMask(hotkeys, disable, state)

\* The table of hotkeys is the one of the layout in use, and the key that suspends the
\* focus is the configured one.
Tabled == hotkeys = Table(specs, layout)
Configured == disable = state.config.disable

TypeOK == state \in StateType /\ held \in SUBSET AllKeys
IInv == TypeOK /\ Repaired /\ Masked /\ Tabled /\ Configured

-----------------------------------------------------------------------------
(* What the handlers of events make of what the thread believes. *)

\* What a step leaves alone of the configuration.
Chosen(s) == <<s.config, s.processing, s.ffm>>

LEMMA FlagsType == ASSUME NEW down \in SUBSET AllKeys
                   PROVE  FlagsOf(down) \in SUBSET (Families \cup Single)
BY DEF FlagsOf, Flag, IsModifier, ModKeys

LEMMA ResetType == ASSUME NEW s \in StateType, NEW b \in BOOLEAN
  PROVE  /\ Reset(s, b) \in StateType /\ Chosen(Reset(s, b)) = Chosen(s)
         /\ Reset(s, b).active = s.active /\ Reset(s, b).flags = s.flags
         /\ Reset(s, b).pressed = s.pressed /\ Reset(s, b).resize = "no"
BY DEF StateType, Reset, Chosen

LEMMA ReconcileType == ASSUME NEW s \in StateType
  PROVE  /\ Reconcile(s) \in StateType /\ Chosen(Reconcile(s)) = Chosen(s)
         /\ Reconcile(s).active = s.active /\ Reconcile(s).flags = s.flags
         /\ Reconcile(s).resize = s.resize
BY DEF StateType, Reconcile, Chosen

LEMMA RefreshType == ASSUME NEW s \in StateType, NEW target
  PROVE  /\ Refresh(s, target) \in StateType /\ Chosen(Refresh(s, target)) = Chosen(s)
         /\ Refresh(s, target).flags = s.flags /\ Refresh(s, target).pressed = s.pressed
         /\ Refresh(s, target).resize \in {s.resize, "no"}
<1>. DEFINE resting == [s EXCEPT !.active = FALSE]
<1>1. /\ resting \in StateType /\ Chosen(resting) = Chosen(s) /\ resting.flags = s.flags
      /\ resting.pressed = s.pressed
  BY DEF StateType, Chosen
<1>2. CASE Refresh(s, target) = s
  BY <1>2
<1>3. CASE Refresh(s, target) = [s EXCEPT !.active = TRUE]
  BY <1>3 DEF StateType, Chosen
<1>4. CASE Refresh(s, target) = Reset(resting, TRUE)
  BY <1>1, <1>4, ResetType, ZenonT(30)
<1>. QED  BY <1>2, <1>3, <1>4 DEF Refresh

LEMMA SameDesires ==
  ASSUME NEW s, NEW t, Chosen(s) = Chosen(t), NEW table, NEW target
  PROVE  DesiredMask(table, target, s) = DesiredMask(table, target, t)
BY DEF Chosen, DesiredMask, FocusFollows

\* What an event makes of the state: the settings stay, the resize mode never begins, and
\* the flags are those of the event.
LEMMA CatchUpType ==
  ASSUME state \in StateType, NEW type, NEW flags \in SUBSET (Families \cup Single)
  PROVE  /\ CatchUp(state, type, flags) \in StateType
         /\ Chosen(CatchUp(state, type, flags)) = Chosen(state)
         /\ CatchUp(state, type, flags).resize \in {state.resize, "no"}
         /\ type \notin KeyEvents => CatchUp(state, type, flags).flags = flags
<1>. DEFINE after == [state EXCEPT !.pressed = {}, !.flags = flags]
            s1 == IF reenabled THEN Refresh(Reconcile(after), disable) ELSE state
            now == [s1 EXCEPT !.flags = flags]
<1>1. after \in StateType /\ Chosen(after) = Chosen(state) /\ after.resize = state.resize
  BY DEF StateType, Chosen
<1>2. s1 \in StateType /\ Chosen(s1) = Chosen(state) /\ s1.resize \in {state.resize, "no"}
  <2>1. CASE reenabled
    <3>. HIDE DEF after
    <3>. QED  BY <1>1, <2>1, ReconcileType, RefreshType
  <2>2. CASE ~reenabled
    BY <2>2
  <2>. QED  BY <2>1, <2>2
<1>. HIDE DEF s1
<1>3. /\ now \in StateType /\ Chosen(now) = Chosen(state) /\ now.flags = flags
      /\ now.resize = s1.resize
  BY <1>2 DEF StateType, Chosen
<1>4. CatchUp(state, type, flags) = IF type \in KeyEvents \/ flags = s1.flags THEN s1
                                    ELSE Refresh(Reconcile(now), disable)
  BY DEF CatchUp, s1
<1>5. /\ Refresh(Reconcile(now), disable) \in StateType
      /\ Chosen(Refresh(Reconcile(now), disable)) = Chosen(state)
      /\ Refresh(Reconcile(now), disable).flags = flags
      /\ Refresh(Reconcile(now), disable).resize \in {state.resize, "no"}
  <2>. HIDE DEF now
  <2>1. /\ Reconcile(now) \in StateType /\ Chosen(Reconcile(now)) = Chosen(state)
        /\ Reconcile(now).flags = flags /\ Reconcile(now).resize \in {state.resize, "no"}
    BY <1>2, <1>3, ReconcileType
  <2>. QED  BY <2>1, RefreshType
<1>. QED  BY <1>2, <1>4, <1>5

LEMMA NotedType ==
  ASSUME NEW s \in StateType, NEW type, NEW key \in AllKeys, NEW flags \in SUBSET (Families \cup Single)
  PROVE  LET t == [Noted(s, type, key) EXCEPT !.flags = flags]
         IN  t \in StateType /\ Chosen(t) = Chosen(s) /\ t.flags = flags /\ t.resize = s.resize
BY DEF StateType, Noted, Chosen

LEMMA ForgetType ==
  ASSUME state \in StateType
  PROVE  Forget(state) \in StateType /\ Chosen(Forget(state)) = Chosen(state)
<1>. DEFINE s == [state EXCEPT !.pressed = {}, !.flags = {}]
<1>1. s \in StateType /\ Chosen(s) = Chosen(state)
  BY DEF StateType, Chosen
<1>2. Forget(state) = Refresh(Reconcile(s), disable)
  BY DEF Forget
<1>. HIDE DEF s
<1>. QED  BY <1>1, <1>2, ReconcileType, RefreshType

LEMMA ReportFields ==
  ASSUME NEW type, NEW key, NEW done
  PROVE  LET r == Report(type, key, done)
         IN  r.type = type /\ r.key = key /\ r.done = done /\ (~r.resizing => state.resize # "on")
BY DEF Report

\* A key goes through the flags, the key that suspends the focus, and resize mode.
LEMMA KeyEventStep ==
  ASSUME IInv, NEW type, NEW key \in AllKeys, NEW down \in SUBSET AllKeys, KeyEvent(type, key, down)
  PROVE  /\ state' \in StateType /\ Chosen(state') = Chosen(state)
         /\ out' # None /\ out'.type = "down" /\ ~out'.resizing =>
              /\ type = "down" /\ out'.key = key
              /\ \E pressed :
                   out'.done = {h.command : h \in {h \in hotkeys :
                      h.mods = ModifiersFrom(FlagsOf(down), pressed) /\ h.key = key}}
<1>. DEFINE s1 == CatchUp(state, type, FlagsOf(down))
            noted == [Noted(s1, type, key) EXCEPT !.flags = FlagsOf(down)]
            s2 == Refresh(noted, disable)
            s3 == AfterResizeKey(s2, key)
            act == ResizeAction(s2, key)
            hits == {h.command : h \in {h \in hotkeys :
                        h.mods = ModifiersFrom(s3.flags, s3.pressed) /\ h.key = key}}
<1>1. FlagsOf(down) \in SUBSET (Families \cup Single) /\ state \in StateType
  BY FlagsType DEF IInv, TypeOK
<1>2. s1 \in StateType /\ Chosen(s1) = Chosen(state) /\ s1.resize \in {state.resize, "no"}
  BY <1>1, CatchUpType
<1>3. /\ noted \in StateType /\ Chosen(noted) = Chosen(state)
      /\ noted.flags = FlagsOf(down) /\ noted.resize \in {state.resize, "no"}
  <2>. HIDE DEF s1
  <2>. QED  BY <1>1, <1>2, NotedType
<1>4. /\ s2 \in StateType /\ Chosen(s2) = Chosen(state)
      /\ s2.flags = FlagsOf(down) /\ s2.resize \in {state.resize, "no"}
  <2>. HIDE DEF noted
  <2>. QED  BY <1>3, RefreshType
<1>5. /\ s3 \in StateType /\ Chosen(s3) = Chosen(state) /\ s3.flags = FlagsOf(down)
  <2>. HIDE DEF s2
  <2>. QED  BY <1>4 DEF AfterResizeKey, StateType, Chosen
<1>6. IF type # "down" THEN state' = s2 /\ out' = Report(type, key, {})
      ELSE IF act # None THEN state' = s3 /\ out' = Report(type, key, {act})
      ELSE /\ state' = [s3 EXCEPT !.resize = IF ResizeMode \in hits THEN "on" ELSE @]
           /\ out' = Report(type, key, hits)
  BY DEF KeyEvent
<1>7. state.resize # "on" => act = None
  <2>. HIDE DEF s2
  <2>. QED  BY <1>4 DEF ResizeAction
<1>. HIDE DEF s2, s3, act
<1>8. state' \in StateType /\ Chosen(state') = Chosen(state)
  <2>1. CASE state' = [s3 EXCEPT !.resize = IF ResizeMode \in hits THEN "on" ELSE @]
    <3>. HIDE DEF hits
    <3>. QED  BY <1>5, <2>1 DEF StateType, Chosen
  <2>. QED  BY <1>4, <1>5, <1>6, <2>1
<1>9. ASSUME out'.type = "down", ~out'.resizing
      PROVE  type = "down" /\ out'.key = key /\ out'.done = hits
  <2>. HIDE DEF hits
  <2>. QED  BY <1>6, <1>7, <1>9, ReportFields
<1>10. hits = {h.command : h \in {h \in hotkeys :
                   h.mods = ModifiersFrom(FlagsOf(down), s3.pressed) /\ h.key = key}}
  BY <1>5
<1>. QED  BY <1>8, <1>9, <1>10

\* An event of the mouse only makes the thread catch up and look.
LEMMA MouseEventStep ==
  ASSUME IInv, NEW type, NEW onIndicator, NEW far, MouseEvent(type, onIndicator, far)
  PROVE  state' \in StateType /\ Chosen(state') = Chosen(state)
<1>. DEFINE s1 == CatchUp(state, type, FlagsOf(held))
            s2 == Shown(s1)
<1>1. s1 \in StateType /\ Chosen(s1) = Chosen(state)
  BY FlagsType, CatchUpType DEF IInv, TypeOK
<1>0. state' \in {s1, s2, [s2 EXCEPT !.sampled = TRUE]}
  BY DEF MouseEvent
<1>. HIDE DEF s1
<1>2. s2 \in StateType /\ Chosen(s2) = Chosen(state)
  BY <1>1 DEF Shown, StateType, Chosen
<1>. HIDE DEF s2
<1>3. LET t == [s2 EXCEPT !.sampled = TRUE] IN t \in StateType /\ Chosen(t) = Chosen(state)
  BY <1>2 DEF StateType, Chosen
<1>. QED  BY <1>1, <1>2, <1>3, <1>0

\* A new configuration is in the state, and the key that suspends the focus is its key.
LEMMA ConfigUpdatedStep ==
  ASSUME IInv, ConfigUpdated
  PROVE  /\ state' \in StateType /\ disable' = state'.config.disable
         /\ state'.active = DisableActive(disable', state')
<1>1. PICK c \in Configs :
        LET s1 == [state EXCEPT !.config = c]
            s2 == [s1 EXCEPT !.active = DisableActive(c.disable, s1)]
            s3 == IF state.active /\ ~s2.active THEN Reset(s2, TRUE) ELSE s2
        IN  /\ disable' = c.disable
            /\ state' = IF state.config.hides /\ ~c.hides THEN Shown(s3) ELSE s3
  BY DEF ConfigUpdated
<1>. DEFINE s1 == [state EXCEPT !.config = c]
            b == DisableActive(c.disable, s1)
            s2 == [s1 EXCEPT !.active = b]
            s3 == IF state.active /\ ~s2.active THEN Reset(s2, TRUE) ELSE s2
<1>2. b \in BOOLEAN
  BY DEF DisableActive
<1>3. s1 \in StateType /\ s1.config = c
  BY DEF IInv, TypeOK, StateType
<1>4. b = DisableActive(c.disable, s1)
  OBVIOUS
<1>. HIDE DEF s1, b
<1>5. s2 \in StateType /\ s2.config = c /\ s2.active = b /\ s2.flags = s1.flags /\ s2.pressed = s1.pressed
  BY <1>2, <1>3 DEF StateType
<1>. HIDE DEF s2
<1>6. s3 \in StateType /\ s3.config = c /\ s3.active = b /\ s3.flags = s1.flags /\ s3.pressed = s1.pressed
  BY <1>5, ResetType DEF Chosen
<1>7. disable' = c.disable /\ state' \in {s3, Shown(s3)}
  BY <1>1 DEF s1, b, s2
<1>. HIDE DEF s3
<1>8. /\ state' \in StateType /\ state'.config = c /\ state'.active = b
      /\ state'.flags = s1.flags /\ state'.pressed = s1.pressed
  BY <1>6, <1>7 DEF Shown, StateType
<1>9. DisableActive(c.disable, state') = DisableActive(c.disable, s1)
  BY <1>8 DEF DisableActive, BaseKeyActive
<1>. QED  BY <1>4, <1>7, <1>8, <1>9

-----------------------------------------------------------------------------
(* The invariant. *)

LEMMA InitInv == Init => IInv
<1>. SUFFICES ASSUME Init PROVE IInv
  OBVIOUS
<1>1. PICK c \in Configs : state = NewState(c) /\ disable = c.disable
  BY DEF Init
<1>2. state \in StateType
  BY <1>1 DEF NewState, StateType
<1>3. disable = state.config.disable
  BY <1>1 DEF NewState
<1>4. Table({}, layout) = {}
  BY DEF Table
<1>. QED  BY <1>2, <1>3, <1>4 DEF Init, IInv, TypeOK, Repaired, Masked, Tabled, Configured

\* What leaves the tap, the tables and the settings alone keeps the mask the wanted one.
LEMMA SameMask ==
  ASSUME IInv, state' \in StateType, Chosen(state') = Chosen(state),
         UNCHANGED <<mask, keymaps>>, "mask" \notin failed' => "mask" \notin failed
  PROVE  Masked' /\ Configured'
<1>1. DesiredMask(hotkeys, disable, state') = DesiredMask(hotkeys, disable, state)
  BY SameDesires
<1>2. state'.config = state.config
  BY DEF Chosen
<1>. QED  BY <1>1, <1>2 DEF IInv, Masked, Configured, keymaps

\* A request that wants another mask gets it, or the mask counts as refused.
LEMMA RemaskStep ==
  ASSUME IInv, Remask, UNCHANGED recoveries
  PROVE  Repaired' /\ Masked'
<1>. DEFINE wanted == DesiredMask(hotkeys', disable', state')
<1>1. RebuildMaskIfNeeded(wanted)
  BY DEF Remask
<1>. HIDE DEF wanted
<1>2. /\ \/ tap' = "on"
         \/ tap' = tap /\ notified' = notified /\ generation' = generation
      /\ "tap" \in failed => tap' = "on" \/ "tap" \in failed'
      /\ "mask" \in failed' \/ mask' = wanted
  BY <1>1 DEF RebuildMaskIfNeeded, CreateTap
<1>. QED  BY <1>2 DEF IInv, Repaired, Masked, wanted

LEMMA StepInv == IInv /\ [Next]_vars => IInv'
<1>. SUFFICES ASSUME IInv, [Next]_vars  PROVE IInv'
  OBVIOUS
<1>. USE DEF IInv, TypeOK
<1>1. ASSUME Disable \/ Reenable \/ Invalidate  PROVE IInv'
  <2>1. UNCHANGED <<held, layout, keymaps, state, mask, failed>>
    BY <1>1 DEF Disable, Reenable, Invalidate, world
  <2>2. Masked' /\ Configured'
    BY <2>1, SameMask
  <2>3. Repaired'
    BY <1>1 DEF Disable, Reenable, Invalidate, Repaired
  <2>. QED  BY <2>1, <2>2, <2>3 DEF Tabled, keymaps
<1>2. CASE Recover
  <2>1. PICK g \in recoveries :
          /\ recoveries' = recoveries \ {g}
          /\ IF g # generation
             THEN UNCHANGED <<tap, mask, generation, notified, failed, reenabled, faults, state>>
             ELSE CreateTap(mask, "tap") /\ state' = IF "tap" \in failed' THEN state ELSE Forget(state)
          /\ UNCHANGED <<world, button, keymaps, requests>>
    BY <1>2 DEF Recover
  <2>2. state' \in StateType /\ Chosen(state') = Chosen(state)
    BY <2>1, ForgetType
  <2>3. mask' = mask /\ ("mask" \notin failed' => "mask" \notin failed)
    BY <2>1 DEF CreateTap
  <2>4. Masked' /\ Configured'
    BY <2>1, <2>2, <2>3, SameMask
  <2>5. Repaired'
    BY <2>1 DEF CreateTap, Repaired
  <2>. QED  BY <2>1, <2>2, <2>4, <2>5 DEF Tabled, keymaps, world
<1>3. CASE Watchdog
  <2>1. state' \in StateType /\ Chosen(state') = Chosen(state)
    BY <1>3, ReconcileType DEF Watchdog
  <2>2. Masked' /\ Configured'
    BY <1>3, <2>1, SameMask DEF Watchdog
  <2>3. Repaired'
    BY <1>3 DEF Watchdog, Repaired
  <2>. QED  BY <1>3, <2>1, <2>2, <2>3 DEF Watchdog, Tabled, keymaps, world
<1>4. ASSUME NEW type, NEW key \in AllKeys, NEW down \in SUBSET AllKeys, Stroke(type, key, down)
      PROVE  IInv'
  <2>1. state' \in StateType /\ Chosen(state') = Chosen(state)
    BY <1>4, KeyEventStep DEF Stroke, Unheard
  <2>2. Masked' /\ Configured'
    BY <1>4, <2>1, SameMask DEF Stroke, system
  <2>3. Repaired' /\ Tabled' /\ held' \in SUBSET AllKeys
    BY <1>4 DEF Stroke, system, keymaps, Repaired, Tabled
  <2>. QED  BY <2>1, <2>2, <2>3
<1>5. CASE PressKey
  <2>1. PICK key \in AllKeys \ held :
          Stroke(IF IsModifier(key) THEN "flags" ELSE "down", key, held \cup {key})
    BY <1>5 DEF PressKey
  <2>. QED  BY <1>4, <2>1
<1>6. CASE ReleaseKey
  <2>1. PICK key \in held :
          Stroke(IF IsModifier(key) THEN "flags" ELSE "up", key, held \ {key})
    BY <1>6 DEF ReleaseKey
  <2>. QED  BY <1>4, <2>1
<1>7. CASE Mouse
  <2>1. UNCHANGED <<world, system, keymaps, requests, faults>>
    BY <1>7 DEF Mouse
  <2>2. state' \in StateType /\ Chosen(state') = Chosen(state)
    BY <1>7, MouseEventStep DEF Mouse, Unheard
  <2>3. Masked' /\ Configured'
    BY <2>1, <2>2, SameMask DEF system
  <2>. QED  BY <2>1, <2>2, <2>3 DEF system, keymaps, world, Repaired, Tabled
<1>8. ASSUME Warp \/ EnforceHidden \/ EnterResizeMode \/ Deadline  PROVE IInv'
  <2>1. UNCHANGED <<held, layout, keymaps, tap, mask, generation, recoveries, notified, failed>>
    BY <1>8 DEF Warp, EnforceHidden, EnterResizeMode, Deadline, Still, SameTap
  <2>2. state' \in StateType /\ Chosen(state') = Chosen(state)
    <3>1. CASE Warp
      BY <3>1 DEF Warp, StateType, Chosen
    <3>2. CASE EnforceHidden
      BY <3>2 DEF EnforceHidden, StateType, Chosen
    <3>3. CASE EnterResizeMode
      BY <3>3 DEF EnterResizeMode, StateType, Chosen
    <3>4. CASE Deadline
      BY <3>4 DEF Deadline, StateType, Chosen
    <3>. QED  BY <1>8, <3>1, <3>2, <3>3, <3>4
  <2>3. Masked' /\ Configured'
    BY <2>1, <2>2, SameMask
  <2>. QED  BY <2>1, <2>2, <2>3 DEF keymaps, Repaired, Tabled
<1>9. ASSUME NEW b \in BOOLEAN, SetEventProcessing(b) \/ SetFocusFollowsMouse(b)  PROVE IInv'
  <2>1. UNCHANGED <<held, recoveries, layout, keymaps>> /\ Remask
    BY <1>9 DEF SetEventProcessing, SetFocusFollowsMouse, Still
  <2>2. PICK s \in StateType : s.config = state.config /\ state' = Reset(s, b)
    <3>1. CASE SetEventProcessing(b)
      <4>1. LET s == [state EXCEPT !.processing = b] IN s \in StateType /\ s.config = state.config
        BY DEF StateType
      <4>. QED  BY <3>1, <4>1 DEF SetEventProcessing
    <3>2. CASE SetFocusFollowsMouse(b)
      <4>1. LET s == [state EXCEPT !.ffm = b] IN s \in StateType /\ s.config = state.config
        BY DEF StateType
      <4>. QED  BY <3>2, <4>1 DEF SetFocusFollowsMouse
    <3>. QED  BY <1>9, <3>1, <3>2
  <2>3. state' \in StateType /\ state'.config = state.config
    BY <2>2, ResetType DEF Chosen
  <2>4. Repaired' /\ Masked'
    BY <2>1, RemaskStep
  <2>. QED  BY <2>1, <2>3, <2>4 DEF keymaps, Tabled, Configured
<1>10. CASE SetHotkeys \/ KeyboardLayoutChanged
  <2>1. UNCHANGED <<held, recoveries, disable, state>> /\ Remask
    BY <1>10 DEF SetHotkeys, KeyboardLayoutChanged, Still
  <2>2. Repaired' /\ Masked'
    BY <2>1, RemaskStep
  <2>3. Tabled'
    BY <1>10 DEF SetHotkeys, KeyboardLayoutChanged, Tabled
  <2>. QED  BY <2>1, <2>2, <2>3 DEF Configured
<1>11. CASE ConfigUpdated
  <2>1. UNCHANGED <<held, recoveries, layout, specs, hotkeys>> /\ Remask
    BY <1>11 DEF ConfigUpdated, Still
  <2>2. state' \in StateType /\ disable' = state'.config.disable
    BY <1>11, ConfigUpdatedStep
  <2>3. Repaired' /\ Masked'
    BY <2>1, RemaskStep
  <2>. QED  BY <2>1, <2>2, <2>3 DEF Configured, Tabled
<1>12. CASE UNCHANGED vars
  BY <1>12 DEF vars, world, system, keymaps, Repaired, Masked, Tabled, Configured
<1>. QED
  BY <1>1, <1>2, <1>3, <1>5, <1>6, <1>7, <1>8, <1>9, <1>10, <1>11, <1>12 DEF Next

\* The invariant that the other proofs rest on.
THEOREM Invariance == Spec => []IInv
BY InitInv, StepInv, PTL DEF Spec

\* What the thread believes of the keyboard and of its configuration is always of its type.
THEOREM TypeCorrect == Spec => []TypeOK
<1>1. IInv => TypeOK
  BY DEF IInv
<1>. QED  BY <1>1, Invariance, PTL

\* Whatever the system does to the tap, and whichever masks and taps it refuses: once
\* nothing is left to recover the tap is enabled, with the mask that its handlers want.
THEOREM Listens == Spec => []TapListens
<1>1. IInv => TapListens
  BY DEF IInv, Repaired, Masked, TapListens
<1>. QED  BY <1>1, Invariance, PTL

-----------------------------------------------------------------------------
(* Hotkeys. *)

LEMMA TableMembers ==
  ASSUME NEW bound, NEW l, NEW h
  PROVE  h \in Table(bound, l) <=>
           \E b \in bound : \E m \in Expand(b.mods) :
              l[b.char] # None /\ h = [mods |-> m, key |-> l[b.char], command |-> b.command]
BY DEF Table

\* The families whose flag is set are those of which a key is held.
LEMMA FamilyFlags ==
  ASSUME NEW down \in SUBSET AllKeys, NEW f \in Families
  PROVE  f \in FlagsOf(down) <=> \E s \in Sides : <<f, s>> \in down
<1>1. ASSUME NEW s \in Sides, <<f, s>> \in down
      PROVE  f \in FlagsOf(down)
  <2>1. <<f, s>> \in ModKeys
    BY DEF ModKeys
  <2>. QED  BY <1>1, <2>1 DEF FlagsOf, Flag, IsModifier
<1>2. ASSUME f \in FlagsOf(down)
      PROVE  \E s \in Sides : <<f, s>> \in down
  <2>1. PICK key \in down : IsModifier(key) /\ f = Flag(key)
    BY <1>2 DEF FlagsOf
  <2>2. key \in ModKeys
    BY <2>1, InputAssumption DEF Flag, IsModifier
  <2>3. PICK g \in Families, s \in Sides : key = <<g, s>>
    BY <2>2 DEF ModKeys
  <2>4. g = f
    BY <2>1, <2>2, <2>3 DEF Flag
  <2>. QED  BY <2>1, <2>3, <2>4
<1>. QED  BY <1>1, <1>2

\* Of each family that is active some side counts as held.
LEMMA ModifiersFromFlags ==
  ASSUME NEW flags, NEW pressed
  PROVE  /\ ModifiersFrom(flags, pressed) \in Modifiers
         /\ \A f \in Families : ModifiersFrom(flags, pressed)[f] = {} <=> f \notin flags
BY DEF ModifiersFrom, Modifiers, Sides

\* An ordinary key does not change the modifiers.
LEMMA OrdinaryKey ==
  ASSUME NEW key, ~IsModifier(key), NEW down
  PROVE  FlagsOf(down \cup {key}) = FlagsOf(down)
BY DEF FlagsOf

HotkeyFires ==
  out' # None /\ out'.type = "down" /\ ~out'.resizing =>
        \A b \in specs : Generic(b.mods) =>
            /\ Asked(b) /\ HeldMatch(b) => b.command \in out'.done
            /\ b.command \in out'.done =>
                \E other \in specs : other.command = b.command /\ Asked(other) /\ HeldMatch(other)

\* An event of the mouse reports no key.
LEMMA MouseReports ==
  ASSUME Mouse, out' # None
  PROVE  out'.type # "down"
<1>1. PICK type \in {"click", "drag", "release", "move"}, onIndicator \in BOOLEAN, far \in BOOLEAN :
        MouseEvent(type, onIndicator, far)
  BY DEF Mouse, Unheard
<1>2. \E done : out' = Report(type, None, done)
  BY <1>1 DEF MouseEvent
<1>. QED  BY <1>1, <1>2, ReportFields

LEMMA HotkeyStep == IInv /\ Next => HotkeyFires
<1>. SUFFICES ASSUME IInv, Next, out' # None, out'.type = "down", ~out'.resizing
              PROVE  HotkeyFires
  BY DEF HotkeyFires
<1>0. PICK key \in AllKeys :
        /\ ~IsModifier(key) /\ out'.key = key
        /\ \E pressed : out'.done = {h.command : h \in {h \in hotkeys :
               h.mods = ModifiersFrom(FlagsOf(held \cup {key}), pressed) /\ h.key = key}}
  <2>1. ASSUME NEW type, NEW key \in AllKeys, NEW down \in SUBSET AllKeys, Stroke(type, key, down)
        PROVE  /\ type = "down" /\ out'.key = key
               /\ \E pressed :
                    out'.done = {h.command : h \in {h \in hotkeys :
                       h.mods = ModifiersFrom(FlagsOf(down), pressed) /\ h.key = key}}
    <3>1. KeyEvent(type, key, down)
      BY <2>1 DEF Stroke, Unheard
    <3>. QED  BY <3>1, KeyEventStep
  <2>2. CASE PressKey
    <3>1. PICK key \in AllKeys \ held :
            Stroke(IF IsModifier(key) THEN "flags" ELSE "down", key, held \cup {key})
      BY <2>2 DEF PressKey
    <3>. DEFINE type == IF IsModifier(key) THEN "flags" ELSE "down"
                down == held \cup {key}
    <3>2. key \in AllKeys /\ down \in SUBSET AllKeys
      BY DEF IInv, TypeOK
    <3>3. Stroke(type, key, down)
      BY <3>1
    <3>. HIDE DEF type, down
    <3>4. /\ type = "down" /\ out'.key = key
          /\ \E pressed :
               out'.done = {h.command : h \in {h \in hotkeys :
                  h.mods = ModifiersFrom(FlagsOf(down), pressed) /\ h.key = key}}
      BY <2>1, <3>2, <3>3
    <3>5. ~IsModifier(key)
      BY <3>4 DEF type
    <3>. QED  BY <3>2, <3>4, <3>5 DEF down
  <2>3. ~ReleaseKey
    <3>1. SUFFICES ASSUME ReleaseKey PROVE FALSE
      OBVIOUS
    <3>2. PICK key \in held :
            Stroke(IF IsModifier(key) THEN "flags" ELSE "up", key, held \ {key})
      BY <3>1 DEF ReleaseKey
    <3>. DEFINE type == IF IsModifier(key) THEN "flags" ELSE "up"
                down == held \ {key}
    <3>3. key \in AllKeys /\ down \in SUBSET AllKeys
      BY DEF IInv, TypeOK
    <3>4. Stroke(type, key, down) /\ type # "down"
      BY <3>2
    <3>. HIDE DEF type, down
    <3>. QED  BY <2>1, <3>3, <3>4
  <2>4. ~Mouse
    BY MouseReports
  <2>5. ~(Disable \/ Reenable \/ Invalidate \/ Recover \/ Watchdog \/ Deadline)
    BY DEF Disable, Reenable, Invalidate, Recover, Watchdog, Deadline
  <2>6. ~Request
    BY DEF Request
  <2>7. /\ ~(Warp \/ EnforceHidden \/ SetHotkeys \/ KeyboardLayoutChanged \/ EnterResizeMode \/ ConfigUpdated)
        /\ \A b \in BOOLEAN : ~(SetEventProcessing(b) \/ SetFocusFollowsMouse(b))
    BY <2>6 DEF Warp, EnforceHidden, SetHotkeys, KeyboardLayoutChanged, EnterResizeMode,
                ConfigUpdated, SetEventProcessing, SetFocusFollowsMouse
  <2>. QED  BY <2>2, <2>3, <2>4, <2>5, <2>7 DEF Next
<1>1. PICK pressed :
        /\ ~IsModifier(key) /\ out'.key = key
        /\ out'.done = {h.command : h \in {h \in hotkeys :
               h.mods = ModifiersFrom(FlagsOf(held \cup {key}), pressed) /\ h.key = key}}
  BY <1>0
<1>. DEFINE M == ModifiersFrom(FlagsOf(held \cup {key}), pressed)
<1>2. FlagsOf(held \cup {key}) = FlagsOf(held)
  BY <1>1, OrdinaryKey
<1>3. M \in Modifiers /\ \A f \in Families : M[f] = {} <=> HeldSides(f) = {}
  <2>1. \A f \in Families : f \in FlagsOf(held) <=> HeldSides(f) # {}
    BY FamilyFlags DEF HeldSides, IInv, TypeOK
  <2>. QED  BY <1>2, <2>1, ModifiersFromFlags
<1>4. out'.done = {h.command : h \in {h \in hotkeys : h.mods = M /\ h.key = key}}
  BY <1>1
<1>. HIDE DEF M
<1>5. ASSUME NEW b \in specs, Generic(b.mods), Asked(b), HeldMatch(b)
      PROVE  b.command \in out'.done
  <2>1. M \in Expand(b.mods)
    BY <1>3, <1>5 DEF Expand, Generic, HeldMatch, Modifiers
  <2>2. layout[b.char] = key /\ key # None
    BY <1>1, <1>5, InputAssumption DEF Asked
  <2>. DEFINE h == [mods |-> M, key |-> key, command |-> b.command]
  <2>3. h \in hotkeys
    BY <2>1, <2>2, TableMembers DEF IInv, Tabled
  <2>4. h.mods = M /\ h.key = key /\ h.command = b.command
    OBVIOUS
  <2>. HIDE DEF h
  <2>. QED  BY <1>4, <2>3, <2>4
<1>6. ASSUME NEW b \in specs, b.command \in out'.done
      PROVE  \E other \in specs : other.command = b.command /\ Asked(other) /\ HeldMatch(other)
  <2>1. PICK h \in hotkeys : h.mods = M /\ h.key = key /\ h.command = b.command
    BY <1>4, <1>6
  <2>0. PICK other \in specs : \E m \in Expand(other.mods) :
          h = [mods |-> m, key |-> layout[other.char], command |-> other.command]
    BY TableMembers DEF IInv, Tabled
  <2>2. PICK m \in Expand(other.mods) :
          h = [mods |-> m, key |-> layout[other.char], command |-> other.command]
    BY <2>0
  <2>3. m = M /\ layout[other.char] = key /\ other.command = b.command
    BY <2>1, <2>2
  <2>4. HeldMatch(other)
    BY <1>3, <2>2, <2>3 DEF Expand, HeldMatch
  <2>. QED  BY <1>1, <2>3, <2>4 DEF Asked
<1>. QED  BY <1>5, <1>6 DEF HotkeyFires

\* A key triggers the bindings for it whose modifiers, named without a side, are held, and
\* no others: whichever events were lost, and whichever layout was in use when they came.
THEOREM Fires == Spec => HotkeysFire
<1>1. IInv /\ [Next]_vars => [HotkeyFires]_vars
  BY HotkeyStep
<1>. QED  BY <1>1, Invariance, PTL DEF Spec, HotkeysFire, HotkeyFires

-----------------------------------------------------------------------------
(* Moves of the mouse. *)

\* If focus is suspended by a modifier, ...
Suspending(target) == target # None => IsModifier(target.key) /\ Generic(target.mods)

\* ... then the flags tell whether it is suspended, ...
Suspends(target, flags) ==
  /\ target # None /\ Flag(target.key) \in flags
  /\ \A f \in Families : target.mods[f] = {} \/ f \in flags

\* ... and the thread has drawn the conclusion from those that it knows.
Concluded(s) == s.active <=> Suspends(disable, s.flags)
ConcludedNow == SuspendedByModifier => Concluded(state)

LEMMA FlagsDecide ==
  ASSUME NEW s, NEW target, Suspending(target)
  PROVE  DisableActive(target, s) <=> Suspends(target, s.flags)
<1>. DEFINE now == ModifiersFrom(s.flags, s.pressed)
<1>1. now \in Modifiers /\ \A f \in Families : now[f] = {} <=> f \notin s.flags
  BY ModifiersFromFlags
<1>. HIDE DEF now
<1>2. ASSUME NEW f \in Families, target # None
      PROVE  (target.mods[f] = {} \/ target.mods[f] \cap now[f] # {}) <=>
             (target.mods[f] = {} \/ f \in s.flags)
  BY <1>1, <1>2 DEF Suspending, Generic, Modifiers
<1>3. target # None => (BaseKeyActive(target.key, s) <=> Flag(target.key) \in s.flags)
  BY DEF Suspending, BaseKeyActive
<1>4. DisableActive(target, s) <=>
        /\ target # None
        /\ \A f \in Families : target.mods[f] = {} \/ target.mods[f] \cap now[f] # {}
        /\ BaseKeyActive(target.key, s)
  BY DEF DisableActive, now
<1>. QED  BY <1>2, <1>3, <1>4 DEF Suspends

LEMMA RefreshConcludes ==
  ASSUME NEW s \in StateType, Suspending(disable), disable = None => ~s.active
  PROVE  Concluded(Refresh(s, disable))
<1>. DEFINE resting == [s EXCEPT !.active = FALSE]
            awake == [s EXCEPT !.active = TRUE]
            b == DisableActive(disable, s)
<1>1. b <=> Suspends(disable, s.flags)
  BY FlagsDecide
<1>2. b \in BOOLEAN
  BY DEF DisableActive
<1>3. Refresh(s, disable) = IF disable = None \/ b = s.active THEN s
                            ELSE IF b THEN awake ELSE Reset(resting, TRUE)
  BY DEF Refresh
<1>. HIDE DEF b
<1>4. CASE disable = None \/ b = s.active
  BY <1>1, <1>2, <1>3, <1>4 DEF Concluded, Suspends
<1>5. CASE ~(disable = None \/ b = s.active) /\ b
  <2>1. awake.active /\ awake.flags = s.flags
    BY DEF StateType
  <2>. HIDE DEF awake
  <2>. QED  BY <1>1, <1>3, <1>5, <2>1 DEF Concluded
<1>6. CASE ~(disable = None \/ b = s.active) /\ ~b
  <2>1. resting \in StateType /\ ~resting.active /\ resting.flags = s.flags
    BY DEF StateType
  <2>. HIDE DEF resting
  <2>2. ~Reset(resting, TRUE).active /\ Reset(resting, TRUE).flags = s.flags
    BY <2>1, ResetType
  <2>. QED  BY <1>1, <1>3, <1>6, <2>2 DEF Concluded
<1>. QED  BY <1>4, <1>5, <1>6

\* What is concluded from flags that are read anew.
LEMMA RereadConcludes ==
  ASSUME NEW s \in StateType, Concluded(s), Suspending(disable),
         NEW t \in StateType, t.active = s.active
  PROVE  Concluded(Refresh(Reconcile(t), disable)) /\ Concluded(Refresh(t, disable))
<1>1. disable = None => ~t.active
  BY DEF Concluded, Suspends
<1>2. Reconcile(t) \in StateType /\ Reconcile(t).active = t.active
  BY ReconcileType
<1>. QED  BY <1>1, <1>2, RefreshConcludes

LEMMA CatchUpConcludes ==
  ASSUME state \in StateType, Concluded(state), Suspending(disable),
         NEW type, NEW flags \in SUBSET (Families \cup Single)
  PROVE  Concluded(CatchUp(state, type, flags))
<1>. DEFINE after == [state EXCEPT !.pressed = {}, !.flags = flags]
            s1 == IF reenabled THEN Refresh(Reconcile(after), disable) ELSE state
            now == [s1 EXCEPT !.flags = flags]
<1>1. after \in StateType /\ after.active = state.active
  BY DEF StateType
<1>2. s1 \in StateType /\ Concluded(s1)
  <2>. HIDE DEF after
  <2>. QED  BY <1>1, ReconcileType, RefreshType, RereadConcludes
<1>. HIDE DEF s1
<1>3. now \in StateType /\ now.active = s1.active
  BY <1>2 DEF StateType
<1>4. CatchUp(state, type, flags) = IF type \in KeyEvents \/ flags = s1.flags THEN s1
                                    ELSE Refresh(Reconcile(now), disable)
  BY DEF CatchUp, s1
<1>. HIDE DEF now
<1>. QED  BY <1>2, <1>3, <1>4, RereadConcludes

LEMMA KeyEventConcludes ==
  ASSUME IInv, Concluded(state), Suspending(disable),
         NEW type, NEW key \in AllKeys, NEW down \in SUBSET AllKeys, KeyEvent(type, key, down),
         UNCHANGED disable
  PROVE  Concluded(state)'
<1>. DEFINE s1 == CatchUp(state, type, FlagsOf(down))
            noted == [Noted(s1, type, key) EXCEPT !.flags = FlagsOf(down)]
            s2 == Refresh(noted, disable)
            s3 == AfterResizeKey(s2, key)
<1>1. FlagsOf(down) \in SUBSET (Families \cup Single) /\ state \in StateType
  BY FlagsType DEF IInv, TypeOK
<1>2. s1 \in StateType /\ Concluded(s1)
  BY <1>1, CatchUpType, CatchUpConcludes
<1>. HIDE DEF s1
<1>3. noted \in StateType /\ noted.active = s1.active
  <2>1. noted \in StateType
    BY <1>1, <1>2, NotedType
  <2>2. noted.active = s1.active
    BY <1>2 DEF Noted, StateType
  <2>. QED  BY <2>1, <2>2
<1>. HIDE DEF noted
<1>4. s2 \in StateType /\ Concluded(s2)
  BY <1>2, <1>3, RefreshType, RereadConcludes
<1>. HIDE DEF s2
<1>5. s3 \in StateType /\ s3.active = s2.active /\ s3.flags = s2.flags
  BY <1>4 DEF AfterResizeKey, StateType
<1>6. state' = s2 \/ \E r : state' = [s3 EXCEPT !.resize = r]
  <2>1. s3 = [s3 EXCEPT !.resize = s3.resize]
    BY <1>5 DEF StateType
  <2>. QED  BY <2>1 DEF KeyEvent, s1, noted, s2
<1>. HIDE DEF s3
<1>7. state'.active = s2.active /\ state'.flags = s2.flags
  BY <1>5, <1>6 DEF StateType
<1>. QED  BY <1>4, <1>7 DEF Concluded

\* What a sampled move that is delivered makes of the state and reports.
MoveFollows ==
  out' # None /\ out'.type = "move" /\ "unsampled" \notin out'.done /\ SuspendedByModifier =>
        ("move" \in out'.done <=> state.processing /\ FocusFollows(state) /\ ~DisableHeld)

LEMMA HeldSuspends ==
  ASSUME IInv, Suspending(disable)
  PROVE  Suspends(disable, FlagsOf(held)) <=> DisableHeld
<1>1. \A f \in Families : f \in FlagsOf(held) <=> HeldSides(f) # {}
  BY FamilyFlags DEF HeldSides, IInv, TypeOK
<1>. QED  BY <1>1 DEF Suspends, DisableHeld

LEMMA MouseEventConcludes ==
  ASSUME IInv, Concluded(state), Suspending(disable),
         NEW type \in {"click", "drag", "release", "move"}, NEW onIndicator, NEW far,
         MouseEvent(type, onIndicator, far), UNCHANGED disable
  PROVE  Concluded(state)' /\ MoveFollows
<1>. DEFINE s1 == CatchUp(state, type, FlagsOf(held))
            s2 == Shown(s1)
            seen == far \/ ~s2.sampled
            seenDone == (IF s2.config.stackLine THEN {"hover"} ELSE {})
                          \cup (IF FocusFollows(s2) /\ ~s2.active THEN {"move"} ELSE {})
<1>1. FlagsOf(held) \in SUBSET (Families \cup Single) /\ state \in StateType /\ type \notin KeyEvents
  BY FlagsType DEF IInv, TypeOK, KeyEvents
<1>2. /\ s1 \in StateType /\ Chosen(s1) = Chosen(state) /\ s1.flags = FlagsOf(held)
      /\ Concluded(s1)
  BY <1>1, CatchUpType, CatchUpConcludes
<1>3. /\ IF type = "click" /\ onIndicator THEN state' = s1 /\ out' = Report(type, None, {"indicator"})
         ELSE IF ~s1.processing THEN state' = s1 /\ out' = Report(type, None, {})
         ELSE IF type # "move" THEN state' = s2 /\ out' = Report(type, None, {type} \ {"drag"})
         ELSE /\ state' = IF seen THEN [s2 EXCEPT !.sampled = TRUE] ELSE s2
              /\ out' = Report(type, None, IF ~seen THEN {"unsampled"} ELSE seenDone)
  BY DEF MouseEvent
<1>. HIDE DEF s1
<1>4. /\ s2 \in StateType /\ Chosen(s2) = Chosen(state)
      /\ s2.active = s1.active /\ s2.flags = s1.flags
  BY <1>2 DEF Shown, StateType, Chosen
<1>. HIDE DEF s2
<1>5. /\ [s2 EXCEPT !.sampled = TRUE].active = s1.active
      /\ [s2 EXCEPT !.sampled = TRUE].flags = s1.flags
  BY <1>4 DEF StateType
<1>6. state'.active = s1.active /\ state'.flags = s1.flags
  BY <1>3, <1>4, <1>5
<1>7. s1.active <=> DisableHeld
  BY <1>2, HeldSuspends DEF Concluded
<1>8. s1.processing = state.processing /\ (FocusFollows(s2) <=> FocusFollows(state))
  BY <1>2, <1>4 DEF Chosen, FocusFollows
<1>. HIDE DEF seen, seenDone
<1>9. ASSUME out'.type = "move", "unsampled" \notin out'.done
      PROVE  "move" \in out'.done <=> state.processing /\ FocusFollows(state) /\ ~DisableHeld
  <2>1. type = "move"
    BY <1>3, <1>9, ReportFields
  <2>2. CASE ~s1.processing
    <3>1. out'.done = {}
      BY <1>3, <2>1, <2>2, ReportFields
    <3>. QED  BY <1>8, <2>2, <3>1
  <2>3. CASE s1.processing
    <3>1. out'.done = IF ~seen THEN {"unsampled"} ELSE seenDone
      BY <1>3, <2>1, <2>3, ReportFields
    <3>2. out'.done = seenDone
      BY <1>9, <3>1
    <3>3. "move" \in seenDone <=> FocusFollows(s2) /\ ~s2.active
      BY DEF seenDone
    <3>4. s2.active <=> DisableHeld
      BY <1>4, <1>7
    <3>. QED  BY <1>8, <2>3, <3>2, <3>3, <3>4
  <2>. QED  BY <2>2, <2>3
<1>10. Concluded(state)'
  BY <1>2, <1>6 DEF Concluded
<1>. QED  BY <1>9, <1>10 DEF MoveFollows

\* A new configuration draws the conclusion for its own key.
LEMMA ConfigConcludes ==
  ASSUME IInv, ConfigUpdated, Suspending(disable')
  PROVE  Concluded(state)' /\ out' = None
<1>1. /\ state' \in StateType /\ disable' = state'.config.disable
      /\ state'.active = DisableActive(disable', state')
  BY ConfigUpdatedStep
<1>2. DisableActive(disable', state') <=> Suspends(disable', state'.flags)
  BY FlagsDecide
<1>3. out' = None
  BY DEF ConfigUpdated, Request
<1>. QED  BY <1>1, <1>2, <1>3 DEF Concluded

LEMMA SuspendedStep ==
  ASSUME IInv, Suspending(disable), Concluded(state), [Next]_vars, ~ConfigUpdated
  PROVE  Concluded(state)' /\ [MoveFollows]_vars
<1>0. state \in StateType
  BY DEF IInv, TypeOK
<1>1. ASSUME out' = None
      PROVE  MoveFollows
  BY <1>1 DEF MoveFollows
<1>2. CASE Disable \/ Reenable \/ Invalidate
  BY <1>1, <1>2 DEF Disable, Reenable, Invalidate, keymaps, Concluded
<1>3. CASE Recover
  <2>1. UNCHANGED disable /\ out' = None /\ (state' = state \/ state' = Forget(state))
    BY <1>3 DEF Recover, keymaps
  <2>. DEFINE s == [state EXCEPT !.pressed = {}, !.flags = {}]
  <2>2. s \in StateType /\ s.active = state.active /\ Forget(state) = Refresh(Reconcile(s), disable)
    BY <1>0 DEF StateType, Forget
  <2>. HIDE DEF s
  <2>3. Concluded(Forget(state))
    BY <1>0, <2>2, RereadConcludes
  <2>. QED  BY <1>1, <2>1, <2>3 DEF Concluded
<1>4. CASE Watchdog
  <2>1. UNCHANGED disable /\ out' = None /\ state' = Reconcile(state)
    BY <1>4 DEF Watchdog, keymaps
  <2>. QED  BY <1>0, <1>1, <2>1, ReconcileType DEF Concluded
<1>5. ASSUME NEW type, type # "move", NEW key \in AllKeys, NEW down \in SUBSET AllKeys,
             Stroke(type, key, down)
      PROVE  Concluded(state)' /\ MoveFollows
  <2>1. UNCHANGED disable
    BY <1>5 DEF Stroke, keymaps
  <2>2. CASE KeyEvent(type, key, down)
    <3>1. \E done : out' = Report(type, key, done)
      BY <2>2 DEF KeyEvent
    <3>2. out'.type # "move"
      BY <1>5, <3>1, ReportFields
    <3>. QED  BY <1>0, <2>1, <2>2, <3>2, KeyEventConcludes DEF MoveFollows
  <2>3. CASE Unheard
    BY <1>1, <2>1, <2>3 DEF Unheard, Concluded
  <2>. QED  BY <1>5, <2>2, <2>3 DEF Stroke
<1>6. CASE PressKey
  <2>1. PICK key \in AllKeys \ held :
          Stroke(IF IsModifier(key) THEN "flags" ELSE "down", key, held \cup {key})
    BY <1>6 DEF PressKey
  <2>. DEFINE type == IF IsModifier(key) THEN "flags" ELSE "down"
  <2>2. type # "move" /\ held \cup {key} \in SUBSET AllKeys /\ Stroke(type, key, held \cup {key})
    BY <2>1 DEF IInv, TypeOK
  <2>. HIDE DEF type
  <2>. QED  BY <1>5, <2>2
<1>7. CASE ReleaseKey
  <2>1. PICK key \in held :
          Stroke(IF IsModifier(key) THEN "flags" ELSE "up", key, held \ {key})
    BY <1>7 DEF ReleaseKey
  <2>. DEFINE type == IF IsModifier(key) THEN "flags" ELSE "up"
  <2>2. /\ type # "move" /\ key \in AllKeys /\ held \ {key} \in SUBSET AllKeys
        /\ Stroke(type, key, held \ {key})
    BY <2>1 DEF IInv, TypeOK
  <2>. HIDE DEF type
  <2>. QED  BY <1>5, <2>2
<1>8. CASE Mouse
  <2>1. UNCHANGED disable
    BY <1>8 DEF Mouse, keymaps
  <2>2. CASE Unheard
    BY <1>1, <2>1, <2>2 DEF Unheard, Concluded
  <2>3. CASE ~Unheard
    <3>1. PICK type \in {"click", "drag", "release", "move"}, onIndicator \in BOOLEAN, far \in BOOLEAN :
            MouseEvent(type, onIndicator, far)
      BY <1>8, <2>3 DEF Mouse
    <3>. QED  BY <1>0, <2>1, <3>1, MouseEventConcludes
  <2>. QED  BY <2>2, <2>3
<1>9. ASSUME Warp \/ EnforceHidden \/ EnterResizeMode \/ Deadline
      PROVE  Concluded(state)' /\ MoveFollows
  <2>1. UNCHANGED disable /\ out' = None
    BY <1>9 DEF Warp, EnforceHidden, EnterResizeMode, Deadline, Request, keymaps
  <2>2. state'.active = state.active /\ state'.flags = state.flags
    BY <1>0, <1>9 DEF Warp, EnforceHidden, EnterResizeMode, Deadline, StateType
  <2>. QED  BY <1>1, <2>1, <2>2 DEF Concluded
<1>10. ASSUME NEW b \in BOOLEAN, SetEventProcessing(b) \/ SetFocusFollowsMouse(b)
       PROVE  Concluded(state)' /\ MoveFollows
  <2>1. UNCHANGED disable /\ out' = None
    BY <1>10 DEF SetEventProcessing, SetFocusFollowsMouse, Request, keymaps
  <2>2. PICK s \in StateType : s.active = state.active /\ s.flags = state.flags /\ state' = Reset(s, b)
    <3>1. CASE SetEventProcessing(b)
      <4>1. LET s == [state EXCEPT !.processing = b]
            IN  s \in StateType /\ s.active = state.active /\ s.flags = state.flags
        BY <1>0 DEF StateType
      <4>. QED  BY <3>1, <4>1 DEF SetEventProcessing
    <3>2. CASE SetFocusFollowsMouse(b)
      <4>1. LET s == [state EXCEPT !.ffm = b]
            IN  s \in StateType /\ s.active = state.active /\ s.flags = state.flags
        BY <1>0 DEF StateType
      <4>. QED  BY <3>2, <4>1 DEF SetFocusFollowsMouse
    <3>. QED  BY <1>10, <3>1, <3>2
  <2>3. state'.active = state.active /\ state'.flags = state.flags
    BY <2>2, ResetType
  <2>. QED  BY <1>1, <2>1, <2>3 DEF Concluded
<1>11. CASE SetHotkeys \/ KeyboardLayoutChanged
  BY <1>1, <1>11 DEF SetHotkeys, KeyboardLayoutChanged, Request, Concluded
<1>13. CASE UNCHANGED vars
  BY <1>13 DEF vars, keymaps, Concluded
<1>. QED
  BY <1>2, <1>3, <1>4, <1>6, <1>7, <1>8, <1>9, <1>10, <1>11, <1>13 DEF Next

LEMMA MovesStep == IInv /\ ConcludedNow /\ [Next]_vars => ConcludedNow' /\ [MoveFollows]_vars
<1>. SUFFICES ASSUME IInv, ConcludedNow, [Next]_vars PROVE ConcludedNow' /\ [MoveFollows]_vars
  OBVIOUS
<1>0. /\ SuspendedByModifier <=> Suspending(disable)
      /\ SuspendedByModifier' <=> Suspending(disable')
  BY DEF SuspendedByModifier, Suspending, Generic
<1>1. CASE ConfigUpdated
  <2>1. out' = None
    BY <1>1 DEF ConfigUpdated, Request
  <2>. QED  BY <1>0, <1>1, <2>1, ConfigConcludes DEF ConcludedNow, MoveFollows
<1>2. CASE ~ConfigUpdated /\ Suspending(disable)
  BY <1>0, <1>2, SuspendedStep DEF ConcludedNow
<1>3. CASE ~ConfigUpdated /\ ~Suspending(disable)
  <2>1. UNCHANGED disable
    BY <1>3 DEF Next, Disable, Reenable, Invalidate, Recover, Watchdog, PressKey, ReleaseKey, Stroke, Mouse,
       Warp, EnforceHidden, SetHotkeys, KeyboardLayoutChanged, EnterResizeMode, SetEventProcessing,
       SetFocusFollowsMouse, Deadline, keymaps, vars
  <2>. QED  BY <1>0, <1>3, <2>1 DEF ConcludedNow, MoveFollows
<1>. QED  BY <1>1, <1>2, <1>3

LEMMA InitConcluded == Init => ConcludedNow
<1>. SUFFICES ASSUME Init PROVE Concluded(state)
  BY DEF ConcludedNow
<1>1. PICK c \in Configs : state = NewState(c) /\ disable = c.disable
  BY DEF Init
<1>. QED  BY <1>1 DEF NewState, Concluded, Suspends

\* Hotkeys fire as above, and a sampled move is passed on exactly when focus follows the
\* mouse and the suspending key is not held, though its press or release may have been lost
\* while the tap was off; as long as that key is a modifier, whichever were configured before.
THEOREM Handled == Spec => InputIsHandled
<1>1. Init => ConcludedNow
  BY InitConcluded
<1>2. IInv /\ ConcludedNow /\ [Next]_vars => ConcludedNow' /\ [MoveFollows]_vars
  BY MovesStep
<1>3. Spec => MovesAreFollowed
  BY <1>1, <1>2, Invariance, PTL DEF Spec, MovesAreFollowed, MoveFollows
<1>. QED  BY <1>3, Fires DEF InputIsHandled

-----------------------------------------------------------------------------
(* Swipes: the average of the fingers, from which the handler tells a      *)
(* swipe, moves as the fingers themselves do.                              *)

\* A set of numbers has a least one: the intervals below them are well founded.
LEMMA LeastNumber ==
  ASSUME NEW T, T \subseteq Nat, T # {}
  PROVE  \E m \in T : \A n \in T : m <= n
<1> DEFINE F == {0..n : n \in T}
<1>1. F \subseteq FiniteSubsetsOf(Nat)
  <2>1. \A n \in T : 0..n \subseteq Nat /\ IsFiniteSet(0..n)
    BY FS_Interval
  <2> QED BY <2>1 DEF FiniteSubsetsOf
<1>2. F # {}
  OBVIOUS
<1>3. \E x \in F : \A y \in F : ~(<<y, x>> \in StrictSubsetOrdering(Nat))
  <2>1. IsWellFoundedOn(StrictSubsetOrdering(Nat), FiniteSubsetsOf(Nat))
    BY FS_StrictSubsetOrderingWellFounded
  <2> HIDE DEF F
  <2> QED BY <1>1, <1>2, <2>1, WFMin
<1>4. PICK m \in T : \A n \in T : ~(<<0..n, 0..m>> \in StrictSubsetOrdering(Nat))
  BY <1>3
<1>5. ASSUME NEW n \in T PROVE m <= n
  <2>1. SUFFICES ASSUME n < m PROVE FALSE
    OBVIOUS
  <2>2. 0..n \subseteq 0..m /\ 0..n # 0..m /\ 0..n \in SUBSET Nat /\ 0..m \in SUBSET Nat
    BY <2>1, SMT
  <2> QED BY <1>4, <2>2 DEF StrictSubsetOrdering
<1> QED BY <1>5

\* A set with 0, and with the successor of each number in it, has every number.
LEMMA SetInduction ==
  ASSUME NEW T, 0 \in T, \A n \in Nat : n \in T => n + 1 \in T
  PROVE  Nat \subseteq T
<1>1. SUFFICES ASSUME Nat \ T # {} PROVE FALSE
  OBVIOUS
<1>2. PICK m \in Nat \ T : \A n \in Nat \ T : m <= n
  BY <1>1, LeastNumber
<1>3. m # 0 /\ m - 1 \in Nat /\ m - 1 \in T
  BY <1>2, SMT
<1> QED BY <1>2, <1>3, SMT

\* A sum over a set takes the elements one by one.
Taken(s) == CHOOSE x \in s : TRUE
Grown(v, g, s) == IF s = {} THEN 0 ELSE v[Taken(s)] + g[s \ {Taken(s)}]
Small(fs, n) == {s \in SUBSET fs : Cardinality(s) <= n}

\* How far the fingers have moved, summed finger by finger.
ApartTotal(t, o, axis, fs) == MapThenSumSet(LAMBDA f : t[f][axis] - o[f][axis], fs)
IsSum(g, v, fs) == g = [s \in SUBSET fs |-> g[s]] /\ \A s \in SUBSET fs : g[s] = Grown(v, g, s)

\* The smaller sets come first, so that there is such a sum for every finite set.
LEMMA Smaller ==
  ASSUME NEW fs, IsFiniteSet(fs), NEW s \in SUBSET fs, s # {}
  PROVE  /\ Taken(s) \in s /\ s \ {Taken(s)} \in SUBSET fs
         /\ Cardinality(s) \in Nat /\ Cardinality(s \ {Taken(s)}) = Cardinality(s) - 1
<1>1. Taken(s) \in s
  BY DEF Taken
<1>2. IsFiniteSet(s)
  BY FS_Subset
<1> QED BY <1>1, <1>2, FS_RemoveElement, FS_CardinalityType

LEMMA SumExists ==
  ASSUME NEW fs, IsFiniteSet(fs), NEW v
  PROVE  \E g : IsSum(g, v, fs)
<1> DEFINE T == {n \in Nat : \E k : k = [s \in Small(fs, n) |-> Grown(v, k, s)]}
<1>1. 0 \in T
  <2> DEFINE g == [s \in Small(fs, 0) |-> 0]
  <2>1. \A s \in Small(fs, 0) : s = {}
    <3> SUFFICES ASSUME NEW s \in Small(fs, 0), s # {} PROVE FALSE
      OBVIOUS
    <3>1. s \in SUBSET fs /\ Cardinality(s) <= 0
      BY DEF Small
    <3>2. Cardinality(s) \in Nat /\ Cardinality(s) # 0
      BY <3>1, FS_Subset, FS_EmptySet, FS_CardinalityType
    <3> QED BY <3>1, <3>2
  <2>2. \A s \in Small(fs, 0) : g[s] = Grown(v, g, s)
    BY <2>1 DEF Grown
  <2>3. g = [s \in Small(fs, 0) |-> g[s]]
    OBVIOUS
  <2> HIDE DEF g
  <2>4. g = [s \in Small(fs, 0) |-> Grown(v, g, s)]
    BY <2>2, <2>3
  <2> QED BY <2>4
<1>2. ASSUME NEW n \in Nat, n \in T PROVE n + 1 \in T
  <2>1. PICK f : f = [s \in Small(fs, n) |-> Grown(v, f, s)]
    BY <1>2
  <2> DEFINE g == [s \in Small(fs, n + 1) |-> Grown(v, f, s)]
  <2>2. \A s \in Small(fs, n) : g[s] = f[s]
    <3>1. \A s \in Small(fs, n) : s \in Small(fs, n + 1)
      <4> SUFFICES ASSUME NEW s \in Small(fs, n) PROVE s \in Small(fs, n + 1)
        OBVIOUS
      <4>1. Cardinality(s) \in Nat
        BY FS_Subset, FS_CardinalityType DEF Small
      <4> QED BY <4>1 DEF Small
    <3> QED BY <2>1, <3>1
  <2>3. ASSUME NEW s \in Small(fs, n + 1) PROVE g[s] = Grown(v, g, s)
    <3>1. CASE s = {}
      BY <3>1 DEF Grown
    <3>2. CASE s # {}
      <4>1. s \ {Taken(s)} \in Small(fs, n)
        BY <3>2, Smaller DEF Small
      <4>2. g[s \ {Taken(s)}] = f[s \ {Taken(s)}]
        BY <2>2, <4>1
      <4>3. g[s] = Grown(v, f, s)
        OBVIOUS
      <4> HIDE DEF g
      <4> QED BY <3>2, <4>2, <4>3 DEF Grown
    <3> QED BY <3>1, <3>2
  <2>4. g = [s \in Small(fs, n + 1) |-> g[s]]
    OBVIOUS
  <2> HIDE DEF g
  <2>5. g = [s \in Small(fs, n + 1) |-> Grown(v, g, s)]
    BY <2>3, <2>4
  <2> QED BY <2>5
<1>3. Cardinality(fs) \in T
  BY <1>1, <1>2, SetInduction, FS_CardinalityType
<1>4. SUBSET fs = Small(fs, Cardinality(fs))
  BY FS_Subset DEF Small
<1>5. PICK g : g = [s \in SUBSET fs |-> Grown(v, g, s)]
  BY <1>3, <1>4
<1>6. IsSum(g, v, fs)
  BY <1>5 DEF IsSum
<1> QED BY <1>6

\* The sums over the subsets.
\* The sums of the model are such sums; they add up to integers, and so do the differences.
LEMMA TouchSum ==
  ASSUME NEW fs, IsFiniteSet(fs), NEW t, NEW axis, NEW v, \A f \in fs : v[f] = t[f][axis]
  PROVE  \E g : IsSum(g, v, fs) /\ Swipes!Sum(t, axis, fs) = g[fs]
<1>0. PICK g0 : IsSum(g0, v, fs)
  BY SumExists
<1> DEFINE turn(k, s) == IF s = {} THEN 0 ELSE t[Taken(s)][axis] + k[s \ {Taken(s)}]
           g == CHOOSE k : k = [s \in SUBSET fs |-> turn(k, s)]
<1>1. ASSUME NEW k, NEW s \in SUBSET fs PROVE turn(k, s) = Grown(v, k, s)
  BY Smaller DEF Grown
<1>2. \E k : k = [s \in SUBSET fs |-> turn(k, s)]
  <2>2. g0 = [s \in SUBSET fs |-> turn(g0, s)]
    <3>1. \A s \in SUBSET fs : turn(g0, s) = Grown(v, g0, s)
      BY <1>1
    <3> HIDE DEF turn
    <3> QED BY <1>0, <3>1 DEF IsSum
  <2> QED BY <2>2
<1>3. g = [s \in SUBSET fs |-> turn(g, s)]
  BY <1>2
<1>4. Swipes!Sum(t, axis, fs) = g[fs]
  BY DEF Swipes!Sum, Swipes!MapThenSumSet, Swipes!MapThenFoldSet, Taken
<1> HIDE DEF g, turn
<1> QED BY <1>1, <1>3, <1>4 DEF IsSum

LEMMA ApartSum ==
  ASSUME NEW fs, IsFiniteSet(fs), NEW t, NEW o, NEW axis, NEW v, \A f \in fs : v[f] = t[f][axis] - o[f][axis]
  PROVE  \E g : IsSum(g, v, fs) /\ ApartTotal(t, o, axis, fs) = g[fs]
<1>0. PICK g0 : IsSum(g0, v, fs)
  BY SumExists
<1> DEFINE turn(k, s) == IF s = {} THEN 0 ELSE (t[Taken(s)][axis] - o[Taken(s)][axis]) + k[s \ {Taken(s)}]
           g == CHOOSE k : k = [s \in SUBSET fs |-> turn(k, s)]
<1>1. ASSUME NEW k, NEW s \in SUBSET fs PROVE turn(k, s) = Grown(v, k, s)
  BY Smaller DEF Grown
<1>2. \E k : k = [s \in SUBSET fs |-> turn(k, s)]
  <2>2. g0 = [s \in SUBSET fs |-> turn(g0, s)]
    <3>1. \A s \in SUBSET fs : turn(g0, s) = Grown(v, g0, s)
      BY <1>1
    <3> HIDE DEF turn
    <3> QED BY <1>0, <3>1 DEF IsSum
  <2> QED BY <2>2
<1>3. g = [s \in SUBSET fs |-> turn(g, s)]
  BY <1>2
<1>4. ApartTotal(t, o, axis, fs) = g[fs]
  BY DEF ApartTotal, MapThenSumSet, MapThenFoldSet, Taken
<1> HIDE DEF g, turn
<1> QED BY <1>1, <1>3, <1>4 DEF IsSum

LEMMA SumsDiffer ==
  ASSUME NEW fs, IsFiniteSet(fs), NEW a, NEW b, NEW d,
         \A f \in fs : a[f] \in Int /\ b[f] \in Int /\ d[f] = a[f] - b[f],
         NEW ga, NEW gb, NEW gd, IsSum(ga, a, fs), IsSum(gb, b, fs), IsSum(gd, d, fs)
  PROVE  ga[fs] \in Int /\ gb[fs] \in Int /\ gd[fs] = ga[fs] - gb[fs]
<1> DEFINE good(s) == ga[s] \in Int /\ gb[s] \in Int /\ gd[s] = ga[s] - gb[s]
           T == {n \in Nat : \A s \in Small(fs, n) : good(s)}
<1>1. \A s \in SUBSET fs : /\ ga[s] = Grown(a, ga, s) /\ gb[s] = Grown(b, gb, s) /\ gd[s] = Grown(d, gd, s)
  BY DEF IsSum
<1>2. good({})
  <2>1. {} \in SUBSET fs /\ \A v, g : Grown(v, g, {}) = 0
    BY DEF Grown
  <2> QED BY <1>1, <2>1
<1>3. 0 \in T
  <2> HIDE DEF good
  <2> SUFFICES ASSUME NEW s \in Small(fs, 0) PROVE s = {}
    BY <1>2
  <2>1. s \in SUBSET fs /\ Cardinality(s) <= 0
    BY DEF Small
  <2>2. Cardinality(s) \in Nat /\ (Cardinality(s) = 0 => s = {})
    BY <2>1, FS_Subset, FS_EmptySet, FS_CardinalityType
  <2> QED BY <2>1, <2>2
<1>4. ASSUME NEW n \in Nat, n \in T PROVE n + 1 \in T
  <2>1. ASSUME NEW s \in Small(fs, n + 1), s # {} PROVE good(s)
    <3> DEFINE x == Taken(s)
               r == s \ {x}
    <3>1. s \in SUBSET fs /\ Cardinality(s) <= n + 1
      BY DEF Small
    <3>2. x \in s /\ r \in SUBSET fs /\ Cardinality(s) \in Nat /\ Cardinality(r) = Cardinality(s) - 1
      BY <2>1, <3>1, Smaller
    <3>3. ga[s] = a[x] + ga[r] /\ gb[s] = b[x] + gb[r] /\ gd[s] = d[x] + gd[r]
      BY <1>1, <2>1, <3>1 DEF Grown
    <3> HIDE DEF r, x
    <3>4. x \in fs /\ r \in Small(fs, n)
      BY <3>1, <3>2 DEF Small
    <3>5. good(r) /\ a[x] \in Int /\ b[x] \in Int /\ d[x] = a[x] - b[x]
      BY <1>4, <3>4
    <3> QED BY <3>3, <3>5
  <2> HIDE DEF good
  <2>2. \A s \in Small(fs, n + 1) : good(s)
    BY <1>2, <2>1
  <2> QED BY <2>2
<1>5. Cardinality(fs) \in T
  BY <1>3, <1>4, SetInduction, FS_CardinalityType
<1>6. fs \in Small(fs, Cardinality(fs))
  BY FS_CardinalityType DEF Small
<1> QED BY <1>5, <1>6

LEMMA SameCount == \A S : Swipes!Cardinality(S) = Cardinality(S) /\ (Swipes!IsFiniteSet(S) <=> IsFiniteSet(S))
BY DEF Swipes!Cardinality, Cardinality, Swipes!IsFiniteSet, IsFiniteSet

LEMMA TotalIs ==
  ASSUME NEW fs, NEW t
  PROVE  Swipes!Total(t, fs) = [x |-> Swipes!Sum(t, "x", fs), y |-> Swipes!Sum(t, "y", fs), n |-> Cardinality(fs)]
BY SameCount DEF Swipes!Total

\* The difference of the totals is the total of the differences.
LEMMA Totals ==
  ASSUME NEW fs, IsFiniteSet(fs), NEW t, NEW o, \A f \in fs : t[f] \in Swipes!Touches /\ o[f] \in Swipes!Touches
  PROVE  /\ Swipes!Total(t, fs) \in Swipes!Sums /\ Swipes!Total(t, fs).n = Cardinality(fs)
         /\ \A axis \in {"x", "y"} :
              ApartTotal(t, o, axis, fs) =
                Swipes!Total(t, fs)[axis] - Swipes!Total(o, fs)[axis]
<1>1. ASSUME NEW axis \in {"x", "y"}
      PROVE  /\ Swipes!Sum(t, axis, fs) \in Int
             /\ Swipes!Sum(o, axis, fs) \in Int
             /\ ApartTotal(t, o, axis, fs) =
                  Swipes!Sum(t, axis, fs) - Swipes!Sum(o, axis, fs)
  <2> DEFINE a == [f \in fs |-> t[f][axis]]
             b == [f \in fs |-> o[f][axis]]
             d == [f \in fs |-> t[f][axis] - o[f][axis]]
  <2>1. \A f \in fs : a[f] = t[f][axis] /\ b[f] = o[f][axis] /\ d[f] = t[f][axis] - o[f][axis]
    OBVIOUS
  <2>2. \A f \in fs : t[f][axis] \in Int /\ o[f][axis] \in Int
    BY DEF Swipes!Touches
  <2> HIDE DEF a, b, d
  <2>3. PICK ga : IsSum(ga, a, fs) /\ Swipes!Sum(t, axis, fs) = ga[fs]
    BY <2>1, TouchSum
  <2>4. PICK gb : IsSum(gb, b, fs) /\ Swipes!Sum(o, axis, fs) = gb[fs]
    BY <2>1, TouchSum
  <2>5. PICK gd : IsSum(gd, d, fs) /\ ApartTotal(t, o, axis, fs) = gd[fs]
    BY <2>1, ApartSum
  <2>6. ga[fs] \in Int /\ gb[fs] \in Int /\ gd[fs] = ga[fs] - gb[fs]
    <3>1. \A f \in fs : a[f] \in Int /\ b[f] \in Int /\ d[f] = a[f] - b[f]
      BY <2>1, <2>2
    <3> QED BY <2>3, <2>4, <2>5, <3>1, SumsDiffer, SMTT(30)
  <2> QED BY <2>3, <2>4, <2>5, <2>6
<1>2. \A axis \in {"x", "y"} : /\ Swipes!Total(t, fs)[axis] = Swipes!Sum(t, axis, fs)
                               /\ Swipes!Total(o, fs)[axis] = Swipes!Sum(o, axis, fs)
  BY TotalIs
<1>3. Swipes!Total(t, fs).n = Cardinality(fs) /\ Cardinality(fs) \in Nat
  BY FS_CardinalityType, TotalIs
<1>4. Swipes!Total(t, fs) \in Swipes!Sums
  BY <1>1, <1>3, TotalIs DEF Swipes!Sums
<1> QED BY <1>1, <1>2, <1>3, <1>4

\* Averages compare as the totals do, when as many fingers are counted.
LEMMA Scaled ==
  ASSUME NEW n \in Nat \ {0}, NEW p \in Int, NEW q \in Int, NEW k \in Nat
  PROVE  /\ Swipes!Size(p * n - q * n) >= k * n * n <=> Swipes!Size(p - q) >= k * n
         /\ Swipes!Size(p * n - q * n) <= k * n * n <=> Swipes!Size(p - q) <= k * n
         /\ p * n - q * n < 0 <=> p - q < 0
<1> DEFINE m == p - q
           c == k * n
<1>1. p * n - q * n = m * n /\ k * n * n = c * n /\ m \in Int /\ c \in Nat
  OBVIOUS
<1>2. \A x \in Int : /\ x * n \in Int /\ (x * n < 0 <=> x < 0) /\ (-x) * n = -(x * n)
                     /\ (x * n >= 0 <=> x >= 0)
  OBVIOUS
<1>3. \A x, y \in Int : (x - y) * n = x * n - y * n
  OBVIOUS
<1> HIDE DEF m, c
<1>4. \A x, y \in Int : (x * n >= y * n <=> x >= y) /\ (x * n <= y * n <=> x <= y)
  <2> SUFFICES ASSUME NEW x \in Int, NEW y \in Int
               PROVE  (x * n >= y * n <=> x >= y) /\ (x * n <= y * n <=> x <= y)
    OBVIOUS
  <2>1. /\ (x - y) * n = x * n - y * n /\ (y - x) * n = y * n - x * n
        /\ ((x - y) * n >= 0 <=> x - y >= 0) /\ ((y - x) * n >= 0 <=> y - x >= 0)
        /\ x * n \in Int /\ y * n \in Int
    BY <1>2, <1>3
  <2> QED BY <2>1
<1>5. Swipes!Size(m * n) = Swipes!Size(m) * n /\ Swipes!Size(m) \in Int
  BY <1>1, <1>2 DEF Swipes!Size
<1>6. (Swipes!Size(m * n) >= c * n <=> Swipes!Size(m) >= c) /\ (Swipes!Size(m * n) <= c * n <=> Swipes!Size(m) <= c)
  BY <1>1, <1>4, <1>5
<1>7. m * n < 0 <=> m < 0
  BY <1>1, <1>2
<1> QED BY <1>1, <1>6, <1>7 DEF m, c

Directions == {"next", "previous"}

SwipeTyped ==
  /\ touch \in Swipes!Trackpads /\ origin \in Swipes!Trackpads \cup {None}
  /\ swipe \in Swipes!Handlers \cup {None} /\ sent \in Seq(Directions)

\* While something is remembered, the handler is armed, or was used since.  It is armed with
\* the fingers where they came together, the same that are down, as long as it can be told
\* what their movement asks for.
SwipeFollowed ==
  /\ swipe = None \/ swipeTap = "none" => origin = None
  /\ swipe # None => (swipe.phase = "idle" <=> origin = None)
  /\ origin = None => sent = <<>> /\ owed = <<>>
  /\ origin # None /\ owed # None =>
       /\ Swipes!Down(origin) = Swipes!Down(touch) /\ Swipes!Down(touch) # {}
       /\ Cardinality(Swipes!Down(touch)) = swipe.cfg.fingers
       /\ swipe.start = Swipes!Total(origin, Swipes!Down(touch))
       /\ sent = owed /\ (swipe.phase = "armed" <=> owed = <<>>)

SwipeInv == SwipeTyped /\ SwipeFollowed

LEMMA DownIs ==
  ASSUME NEW t \in Swipes!Trackpads
  PROVE  /\ Swipes!Down(t) \in SUBSET Fingers /\ IsFiniteSet(Swipes!Down(t))
         /\ \A f \in Swipes!Down(t) : t[f] \in Swipes!Touches
<1>1. Swipes!Down(t) \in SUBSET Fingers /\ \A f \in Swipes!Down(t) : t[f] \in Swipes!Touches
  BY DEF Swipes!Down, Swipes!Trackpads
<1>2. IsFiniteSet(Fingers)
  BY GesturesAssumption, SameCount DEF Swipes!GesturesAssumption
<1> QED BY <1>1, <1>2, FS_Subset

\* What the average of the fingers has moved is what they have moved themselves.
LEMMA WantedIs ==
  ASSUME NEW t \in Swipes!Trackpads, origin \in Swipes!Trackpads, swipe \in Swipes!Handlers,
         NEW fs, fs = Swipes!Down(t), fs = Swipes!Down(origin), fs # {},
         Cardinality(fs) = swipe.cfg.fingers, swipe.start = Swipes!Total(origin, fs)
  PROVE  Swipes!Wanted(t) =
           IF Swipes!Far(Swipes!Total(t, fs), swipe.start)
           THEN <<Swipes!Direction(swipe.cfg, Swipes!Apart(Swipes!Total(t, fs), swipe.start, "x"))>> ELSE <<>>
<1> DEFINE now == Swipes!Total(t, fs)
           start == Swipes!Total(origin, fs)
           n == Cardinality(fs)
<1>1. IsFiniteSet(fs) /\ \A f \in fs : t[f] \in Swipes!Touches /\ origin[f] \in Swipes!Touches
  BY DownIs
<1>2. n \in Nat \ {0}
  BY <1>1, FS_CardinalityType, FS_EmptySet
<1>3. /\ now \in Swipes!Sums /\ start \in Swipes!Sums /\ now.n = n /\ start.n = n
      /\ \A axis \in {"x", "y"} : ApartTotal(t, origin, axis, fs) = now[axis] - start[axis]
  BY <1>1, Totals
<1>4. \A axis \in {"x", "y"} : /\ Swipes!Moved(t, axis) = now[axis] - start[axis]
                               /\ now[axis] \in Int /\ start[axis] \in Int
                               /\ Swipes!Apart(now, start, axis) = now[axis] * n - start[axis] * n
  <2> SUFFICES ASSUME NEW axis \in {"x", "y"}
               PROVE  /\ Swipes!Moved(t, axis) = now[axis] - start[axis]
                      /\ now[axis] \in Int /\ start[axis] \in Int
                      /\ Swipes!Apart(now, start, axis) = now[axis] * n - start[axis] * n
    OBVIOUS
  <2>1. Swipes!Moved(t, axis) = ApartTotal(t, origin, axis, fs)
    BY DEF Swipes!Moved, ApartTotal, Swipes!MapThenSumSet, MapThenSumSet, Swipes!MapThenFoldSet, MapThenFoldSet
  <2> HIDE DEF now, start, n
  <2> QED BY <1>3, <2>1 DEF Swipes!Sums, Swipes!Apart
<1> DEFINE px == now["x"]  qx == start["x"]  py == now["y"]  qy == start["y"]
<1> HIDE DEF now, start, n
<1>5. Distance \in Nat /\ Tolerance \in Nat
  BY GesturesAssumption DEF Swipes!GesturesAssumption
<1>6. /\ px \in Int /\ qx \in Int /\ py \in Int /\ qy \in Int
      /\ Swipes!Moved(t, "x") = px - qx /\ Swipes!Moved(t, "y") = py - qy
      /\ Swipes!Apart(now, start, "x") = px * n - qx * n /\ Swipes!Apart(now, start, "y") = py * n - qy * n
  BY <1>4
<1> HIDE DEF px, qx, py, qy
<1>7. /\ Swipes!Size(px * n - qx * n) >= Distance * n * n <=> Swipes!Size(px - qx) >= Distance * n
      /\ Swipes!Size(py * n - qy * n) <= Tolerance * n * n <=> Swipes!Size(py - qy) <= Tolerance * n
      /\ px * n - qx * n < 0 <=> px - qx < 0
  BY <1>2, <1>5, <1>6, Scaled
<1>8. Swipes!Far(now, start) <=> /\ Swipes!Size(Swipes!Moved(t, "x")) >= Distance * n
                                 /\ Swipes!Size(Swipes!Moved(t, "y")) <= Tolerance * n
  BY <1>3, <1>6, <1>7 DEF Swipes!Far
<1>9. Swipes!Direction(swipe.cfg, Swipes!Apart(now, start, "x")) = Swipes!Direction(swipe.cfg, Swipes!Moved(t, "x"))
  <2>1. (px * n - qx * n < 0) = (px - qx < 0)
    BY <1>7
  <2> QED BY <1>6, <2>1 DEF Swipes!Direction
<1> QED BY <1>8, <1>9 DEF Swipes!Wanted, now, start, n

LEMMA HandlerIs ==
  ASSUME NEW h \in Swipes!Handlers
  PROVE  h # None /\ h.cfg \in Settings /\ h.phase \in {"idle", "armed", "committed"}
BY GesturesAssumption DEF Swipes!GesturesAssumption, Swipes!Handlers

\* What an event that is heard makes of the handler and of what is remembered.
LEMMA Heard ==
  ASSUME SwipeInv, NEW phase \in {"began", "changed", "ended", "cancelled"},
         NEW t \in Swipes!Trackpads, NEW ended, touch' \in Swipes!Trackpads,
         swipe # None, swipeTap # "none", UNCHANGED <<swipeTap, lost>>,
         swipe' = Swipes!Gesture(phase, t, ended), Swipes!Remember(phase, t, ended),
         Swipes!Active(t, ended) = Swipes!Down(t) /\ phase \in {"began", "changed"} => touch' = t,
         (/\ origin # None /\ owed # None /\ phase = "changed"
          /\ Swipes!Together(t) /\ Swipes!Active(t, ended) = Swipes!Down(t))
           => Swipes!Down(t) = Swipes!Down(touch)
  PROVE  SwipeInv'
<1> DEFINE active0 == Swipes!Active(t, ended)
           now == Swipes!Total(t, active0)
           over == phase \in {"ended", "cancelled"} \/ ~Swipes!Together(t) \/ active0 = {}
<1>1. /\ swipe \in Swipes!Handlers /\ swipe.phase \in {"idle", "armed", "committed"}
      /\ sent \in Seq(Directions) /\ (swipe.phase = "idle" <=> origin = None)
      /\ origin \in Swipes!Trackpads \cup {None}
  BY HandlerIs DEF SwipeInv, SwipeTyped, SwipeFollowed
<1>2. active0 \subseteq Swipes!Down(t) /\ IsFiniteSet(active0) /\ \A f \in active0 : t[f] \in Swipes!Touches
  <2>1. active0 \subseteq Swipes!Down(t)
    BY DEF Swipes!Active
  <2> HIDE DEF active0
  <2> QED BY <2>1, DownIs, FS_Subset
<1>3. now \in Swipes!Sums /\ now.n = Cardinality(active0) /\ (now.n = 0 <=> active0 = {})
  <2> HIDE DEF active0
  <2>1. Cardinality(active0) = 0 <=> active0 = {}
    BY <1>2, FS_EmptySet
  <2> QED BY <1>2, <2>1, Totals
<1>4. None \notin Swipes!Trackpads /\ None # <<>>
  BY GesturesAssumption DEF Swipes!GesturesAssumption
<1>5. swipe' = IF over THEN Swipes!Reset
               ELSE IF phase = "began" \/ swipe.phase = "idle" THEN [swipe EXCEPT !.phase = "armed", !.start = now]
               ELSE IF swipe.phase = "armed" /\ Swipes!Far(now, swipe.start) THEN [swipe EXCEPT !.phase = "committed"]
               ELSE swipe
  BY <1>3 DEF Swipes!Gesture, Swipes!Committed
<1> HIDE DEF now
<1>6. CASE over
  <2>1. sent' = <<>> /\ owed' = <<>> /\ origin' = None
    BY <1>6 DEF Swipes!Remember
  <2>2. swipe' \in Swipes!Handlers /\ swipe'.phase = "idle"
    <3>1. swipe' = [swipe EXCEPT !.phase = "idle", !.start = None]
      BY <1>5, <1>6 DEF Swipes!Reset
    <3> QED BY <1>1, <3>1 DEF Swipes!Handlers
  <2> QED BY <2>1, <2>2 DEF SwipeInv, SwipeTyped, SwipeFollowed
<1>7. CASE ~over /\ (origin = None \/ phase = "began")
  <2>1. /\ sent' = <<>> /\ owed' = (IF active0 = Swipes!Down(t) THEN <<>> ELSE None) /\ origin' = t
    BY <1>7 DEF Swipes!Remember
  <2>2. swipe' = [swipe EXCEPT !.phase = "armed", !.start = now]
    BY <1>1, <1>5, <1>7
  <2>3. /\ swipe' \in Swipes!Handlers /\ swipe'.phase = "armed" /\ swipe'.start = now /\ swipe'.cfg = swipe.cfg
    BY <1>1, <1>3, <2>2 DEF Swipes!Handlers
  <2>4. origin' # None /\ swipe' # None
    <3>1. swipe' # None
      BY <2>3, HandlerIs
    <3> QED BY <1>4, <2>1, <3>1
  <2>5. ASSUME owed' # None
        PROVE  /\ Swipes!Down(origin') = Swipes!Down(touch') /\ Swipes!Down(touch') # {}
               /\ Cardinality(Swipes!Down(touch')) = swipe'.cfg.fingers
               /\ swipe'.start = Swipes!Total(origin', Swipes!Down(touch'))
               /\ owed' = <<>>
    <3>1. active0 = Swipes!Down(t) /\ owed' = <<>> /\ touch' = t
      BY <1>7, <2>1, <2>5
    <3>2. Swipes!Together(t) /\ active0 # {}
      BY <1>7
    <3>3. Cardinality(Swipes!Down(t)) = swipe.cfg.fingers
      BY <3>2, SameCount DEF Swipes!Together
    <3> QED BY <2>1, <2>3, <3>1, <3>2, <3>3 DEF now
  <2>7. SwipeTyped'
    BY <2>1, <2>3 DEF SwipeTyped
  <2>8. SwipeFollowed'
    BY <2>1, <2>3, <2>4, <2>5 DEF SwipeFollowed
  <2> QED BY <2>7, <2>8 DEF SwipeInv
<1>8. CASE ~over /\ origin # None /\ phase # "began"
  <2> DEFINE far == Swipes!Far(now, swipe.start)
             way == <<Swipes!Direction(swipe.cfg, Swipes!Apart(now, swipe.start, "x"))>>
             fired == IF swipe.phase = "armed" /\ far THEN way ELSE <<>>
  <2>1. phase = "changed" /\ swipe.phase \in {"armed", "committed"} /\ Swipes!Together(t) /\ now.n # 0
    BY <1>1, <1>3, <1>8
  <2>2. Swipes!Commands(phase, t, ended) = fired
    BY <2>1 DEF Swipes!Commands, now
  <2>3. /\ sent' = sent \o fired /\ UNCHANGED origin
        /\ owed' = IF owed = None \/ active0 # Swipes!Down(t) THEN None
                   ELSE IF owed = <<>> THEN Swipes!Wanted(t) ELSE owed
    BY <1>8, <2>2 DEF Swipes!Remember
  <2>4. swipe' = IF swipe.phase = "armed" /\ far THEN [swipe EXCEPT !.phase = "committed"] ELSE swipe
    BY <1>5, <1>8, <2>1
  <2>5. way \in Seq(Directions) /\ way # <<>>
    BY DEF Directions, Swipes!Direction
  <2> HIDE DEF far, way
  <2>6. /\ swipe' \in Swipes!Handlers /\ swipe'.cfg = swipe.cfg /\ swipe'.start = swipe.start
        /\ swipe'.phase = IF swipe.phase = "armed" /\ far THEN "committed" ELSE swipe.phase
    <3> DEFINE k == [swipe EXCEPT !.phase = "committed"]
    <3>1. k \in Swipes!Handlers /\ k.cfg = swipe.cfg /\ k.start = swipe.start /\ k.phase = "committed"
      BY <1>1 DEF Swipes!Handlers
    <3>2. swipe' = IF swipe.phase = "armed" /\ far THEN k ELSE swipe
      BY <2>4
    <3> HIDE DEF k
    <3> QED BY <1>1, <3>1, <3>2
  <2>7. sent' \in Seq(Directions)
    BY <1>1, <2>3, <2>5
  <2>8. ASSUME owed' # None
        PROVE  /\ Swipes!Down(origin') = Swipes!Down(touch') /\ Swipes!Down(touch') # {}
               /\ Cardinality(Swipes!Down(touch')) = swipe'.cfg.fingers
               /\ swipe'.start = Swipes!Total(origin', Swipes!Down(touch'))
               /\ sent' = owed' /\ (swipe'.phase = "armed" <=> owed' = <<>>)
    <3>1. owed # None /\ active0 = Swipes!Down(t)
      BY <2>3, <2>8
    <3>2. Swipes!Down(t) = Swipes!Down(touch) /\ touch' = t
      BY <1>8, <2>1, <3>1
    <3>3. /\ Swipes!Down(origin) = Swipes!Down(touch) /\ Swipes!Down(touch) # {}
          /\ Cardinality(Swipes!Down(touch)) = swipe.cfg.fingers
          /\ swipe.start = Swipes!Total(origin, Swipes!Down(touch))
          /\ sent = owed /\ (swipe.phase = "armed" <=> owed = <<>>)
      BY <1>8, <3>1 DEF SwipeInv, SwipeFollowed
    <3>4. sent' = owed' /\ (swipe'.phase = "armed" <=> owed' = <<>>)
      <4>1. CASE owed = <<>>
        <5>1. owed' = Swipes!Wanted(t)
          BY <1>4, <2>3, <3>1, <4>1
        <5>2. Swipes!Wanted(t) = IF far THEN way ELSE <<>>
          BY <1>1, <1>8, <3>1, <3>2, <3>3, WantedIs DEF far, way, now
        <5>3. swipe.phase = "armed" /\ sent' = fired
          BY <2>3, <2>5, <3>3, <4>1
        <5> QED BY <2>5, <2>6, <5>1, <5>2, <5>3
      <4>2. CASE owed # <<>>
        <5>1. owed' = owed /\ swipe.phase = "committed"
          BY <2>1, <2>3, <3>1, <3>3, <4>2
        <5>2. sent' = sent
          BY <1>1, <2>3, <5>1
        <5> QED BY <2>6, <3>3, <4>2, <5>1, <5>2
      <4> QED BY <4>1, <4>2
    <3> QED BY <2>3, <2>6, <3>2, <3>3, <3>4
  <2>10. SwipeTyped'
    BY <1>1, <2>3, <2>6, <2>7 DEF SwipeTyped
  <2>11. swipe'.phase # "idle" /\ origin' # None /\ swipe' # None
    BY <1>8, <2>1, <2>3, <2>6, HandlerIs
  <2>12. SwipeFollowed'
    BY <2>8, <2>11 DEF SwipeFollowed
  <2> QED BY <2>10, <2>12 DEF SwipeInv
<1> QED BY <1>6, <1>7, <1>8

\* A step of the trackpad.
LEMMA Hearing ==
  ASSUME SwipeInv, NEW phase \in {"began", "changed", "ended", "cancelled"},
         NEW t \in Swipes!Trackpads, NEW ended, touch' \in Swipes!Trackpads,
         UNCHANGED swipeTap, Swipes!Hears(phase, t, ended),
         Swipes!Active(t, ended) = Swipes!Down(t) /\ phase \in {"began", "changed"} => touch' = t,
         (/\ origin # None /\ owed # None /\ phase = "changed"
          /\ Swipes!Together(t) /\ Swipes!Active(t, ended) = Swipes!Down(t))
           => Swipes!Down(t) = Swipes!Down(touch)
  PROVE  SwipeInv'
<1>1. CASE swipe = None \/ swipeTap = "none"
  <2>1. UNCHANGED <<swipe, sent, owed, origin>> /\ origin = None
    BY <1>1 DEF Swipes!Hears, SwipeInv, SwipeFollowed
  <2> QED BY <1>1, <2>1 DEF SwipeInv, SwipeTyped, SwipeFollowed
<1>2. CASE /\ swipe # None /\ swipeTap # "none"
           /\ owed' = (IF origin = None THEN owed ELSE None) /\ UNCHANGED <<swipe, sent, origin>>
  BY <1>2 DEF SwipeInv, SwipeTyped, SwipeFollowed
<1>3. CASE /\ swipe # None /\ swipeTap # "none"
           /\ swipe' = Swipes!Gesture(phase, t, ended) /\ Swipes!Remember(phase, t, ended) /\ UNCHANGED lost
  BY <1>3, Heard
<1> QED BY <1>1, <1>2, <1>3 DEF Swipes!Hears

\* The steps.
LEMMA PutStep ==
  ASSUME SwipeInv, NEW f \in Fingers, NEW x \in 0..Columns, NEW y \in 0..Rows, Swipes!Put(f, x, y)
  PROVE  SwipeInv'
<1>1. /\ touch \in Swipes!Trackpads /\ touch[f] = None /\ UNCHANGED swipeTap
      /\ touch' = [touch EXCEPT ![f] = [x |-> x, y |-> y, resting |-> FALSE]]
      /\ Swipes!Hears(IF Swipes!Down(touch) = {} THEN "began" ELSE "changed", touch', {})
  BY DEF Swipes!Put, Swipes!Event, SwipeInv, SwipeTyped
<1>2. [x |-> x, y |-> y, resting |-> FALSE] \in Swipes!Touches
  BY DEF Swipes!Touches
<1>3. touch' \in Swipes!Trackpads
  BY <1>1, <1>2 DEF Swipes!Trackpads
<1>4. Swipes!Down(touch') = Swipes!Down(touch) \cup {f} /\ f \notin Swipes!Down(touch)
  BY <1>1, <1>2, GesturesAssumption DEF Swipes!Down, Swipes!Trackpads, Swipes!GesturesAssumption
<1>5. ~(origin # None /\ owed # None /\ Swipes!Together(touch'))
  <2> SUFFICES ASSUME origin # None, owed # None, Swipes!Together(touch') PROVE FALSE
    OBVIOUS
  <2>1. Cardinality(Swipes!Down(touch)) = swipe.cfg.fingers
    BY DEF SwipeInv, SwipeFollowed
  <2>2. Cardinality(Swipes!Down(touch')) = swipe.cfg.fingers
    BY SameCount DEF Swipes!Together
  <2>3. IsFiniteSet(Swipes!Down(touch))
    BY <1>1, DownIs
  <2>4. Cardinality(Swipes!Down(touch')) = Cardinality(Swipes!Down(touch)) + 1
        /\ Cardinality(Swipes!Down(touch)) \in Nat
    BY <1>4, <2>3, FS_AddElement, FS_CardinalityType
  <2> QED BY <2>1, <2>2, <2>4
<1> DEFINE phase == IF Swipes!Down(touch) = {} THEN "began" ELSE "changed"
<1>6. phase \in {"began", "changed", "ended", "cancelled"}
  OBVIOUS
<1> HIDE DEF phase
<1> QED BY <1>1, <1>3, <1>5, <1>6, Hearing DEF phase

LEMMA MoveStep ==
  ASSUME SwipeInv, NEW fs, NEW dx \in -1..1, NEW dy \in -1..1, Swipes!Move(fs, dx, dy)
  PROVE  SwipeInv'
<1>1. /\ touch \in Swipes!Trackpads /\ fs \subseteq Swipes!Down(touch) /\ UNCHANGED swipeTap
      /\ touch' = [f \in Fingers |-> IF f \in fs THEN [touch[f] EXCEPT !.x = @ + dx, !.y = @ + dy] ELSE touch[f]]
      /\ \A f \in fs : touch[f].x + dx \in 0..Columns /\ touch[f].y + dy \in 0..Rows
      /\ Swipes!Hears("changed", touch', {})
  BY DEF Swipes!Move, Swipes!Event, SwipeInv, SwipeTyped
<1>2. ASSUME NEW f \in Fingers
      PROVE  /\ f \in fs => touch[f] \in Swipes!Touches /\ touch'[f] \in Swipes!Touches
             /\ f \notin fs => touch'[f] = touch[f]
             /\ touch'[f] \in Swipes!Touches \cup {None}
  <2>1. CASE f \in fs
    <3>1. touch[f] \in Swipes!Touches
      BY <1>1, <2>1, DownIs
    <3>2. touch'[f] = [touch[f] EXCEPT !.x = touch[f].x + dx, !.y = touch[f].y + dy]
      BY <1>1, <2>1
    <3>3. touch[f].x + dx \in 0..Columns /\ touch[f].y + dy \in 0..Rows
      BY <1>1, <2>1
    <3>4. [touch[f] EXCEPT !.x = touch[f].x + dx, !.y = touch[f].y + dy] \in Swipes!Touches
      BY <3>1, <3>3 DEF Swipes!Touches
    <3> QED BY <2>1, <3>1, <3>2, <3>4
  <2>2. CASE f \notin fs
    BY <1>1, <2>2 DEF Swipes!Trackpads
  <2> QED BY <2>1, <2>2
<1>3. touch' \in Swipes!Trackpads
  BY <1>1, <1>2 DEF Swipes!Trackpads
<1>4. Swipes!Down(touch') = Swipes!Down(touch)
  BY <1>2, GesturesAssumption DEF Swipes!Down, Swipes!GesturesAssumption
<1> QED BY <1>1, <1>3, <1>4, Hearing

LEMMA RestStep ==
  ASSUME SwipeInv, NEW f \in Fingers, Swipes!Rest(f)
  PROVE  SwipeInv'
<1>1. /\ touch \in Swipes!Trackpads /\ touch[f] # None /\ UNCHANGED swipeTap
      /\ touch' = [touch EXCEPT ![f].resting = ~@] /\ Swipes!Hears("changed", touch', {})
  BY DEF Swipes!Rest, Swipes!Event, SwipeInv, SwipeTyped
<1>2. touch[f] \in Swipes!Touches
  BY <1>1 DEF Swipes!Trackpads
<1> DEFINE new == [touch[f] EXCEPT !.resting = ~touch[f].resting]
<1>3. new \in Swipes!Touches
  BY <1>2 DEF Swipes!Touches
<1>4. touch' = [touch EXCEPT ![f] = new]
  BY <1>1
<1> HIDE DEF new
<1>5. touch' \in Swipes!Trackpads
  BY <1>1, <1>3, <1>4 DEF Swipes!Trackpads
<1>6. Swipes!Down(touch') = Swipes!Down(touch)
  BY <1>1, <1>3, <1>4, GesturesAssumption DEF Swipes!Down, Swipes!Trackpads, Swipes!GesturesAssumption
<1> QED BY <1>1, <1>5, <1>6, Hearing

LEMMA LiftStep ==
  ASSUME SwipeInv, NEW f \in Fingers, Swipes!Lift(f)
  PROVE  SwipeInv'
<1>1. /\ touch \in Swipes!Trackpads /\ touch[f] # None /\ UNCHANGED swipeTap
      /\ touch' = [touch EXCEPT ![f] = None]
      /\ Swipes!Hears(IF Swipes!Down(touch) = {f} THEN "ended" ELSE "changed", touch, {f})
  BY DEF Swipes!Lift, Swipes!Event, SwipeInv, SwipeTyped
<1>2. touch' \in Swipes!Trackpads
  BY <1>1 DEF Swipes!Trackpads
<1>3. Swipes!Active(touch, {f}) # Swipes!Down(touch)
  BY <1>1 DEF Swipes!Active, Swipes!Down
<1> DEFINE phase == IF Swipes!Down(touch) = {f} THEN "ended" ELSE "changed"
<1>4. phase \in {"began", "changed", "ended", "cancelled"}
  OBVIOUS
<1> HIDE DEF phase
<1> QED BY <1>1, <1>2, <1>3, <1>4, Hearing DEF phase

LEMMA CancelStep ==
  ASSUME SwipeInv, Swipes!Cancel
  PROVE  SwipeInv'
<1>1. /\ touch \in Swipes!Trackpads /\ UNCHANGED <<touch, swipeTap>> /\ Swipes!Hears("cancelled", touch, {})
  BY DEF Swipes!Cancel, Swipes!Event, SwipeInv, SwipeTyped
<1> QED BY <1>1, Hearing

LEMMA HandlerTyped ==
  ASSUME NEW c \in Settings
  PROVE  /\ Swipes!Handler(c) \in Swipes!Handlers \cup {None}
         /\ Swipes!Handler(c) # None => Swipes!Handler(c).phase = "idle"
BY DEF Swipes!Handler, Swipes!Handlers

LEMMA UpdateStep ==
  ASSUME SwipeInv, NEW c \in Settings, Swipes!ConfigUpdated(c)
  PROVE  SwipeInv'
<1>1. /\ swipe' = Swipes!Handler(c) /\ sent' = <<>> /\ owed' = <<>> /\ origin' = None /\ UNCHANGED touch
  BY DEF Swipes!ConfigUpdated
<1> QED BY <1>1, HandlerTyped DEF SwipeInv, SwipeTyped, SwipeFollowed

\* While the right number of fingers stays on the trackpad and none of them rests, the
\* workspace is switched at most once, and just when and where their movement asks for:
\* for any number of fingers, positions and settings, whatever is lost in between.
THEOREM SwipesRight == MCSpec => []SwipesSwitch
<1>1. MCInit => SwipeInv
  <2> SUFFICES ASSUME Swipes!Init PROVE SwipeInv
    BY DEF MCInit
  <2>1. PICK c \in Settings : swipe = Swipes!Handler(c)
    BY DEF Swipes!Init
  <2>2. touch \in Swipes!Trackpads /\ sent = <<>> /\ owed = <<>> /\ origin = None
    BY DEF Swipes!Init, Swipes!Trackpads
  <2> QED BY <2>1, <2>2, HandlerTyped DEF SwipeInv, SwipeTyped, SwipeFollowed
<1>2. SwipeInv /\ [MCNext]_<<part, tapVars, swipeVars, spaceVars>> => SwipeInv'
  <2> SUFFICES ASSUME SwipeInv, Swipes!Next \/ UNCHANGED swipeVars PROVE SwipeInv'
    BY DEF MCNext
  <2>1. CASE UNCHANGED swipeVars
    BY <2>1 DEF swipeVars, SwipeInv, SwipeTyped, SwipeFollowed
  <2>2. CASE Swipes!Next
    BY <2>2, PutStep, MoveStep, RestStep, LiftStep, CancelStep, UpdateStep DEF Swipes!Next
  <2> QED BY <2>1, <2>2
<1>3. SwipeInv => SwipesSwitch
  <2>1. origin = None \/ origin # None
    OBVIOUS
  <2> QED BY <2>1 DEF SwipeInv, SwipeFollowed, SwipesSwitch, Swipes!SwipesSwitch
<1> QED BY <1>1, <1>2, <1>3, PTL DEF MCSpec
-----------------------------------------------------------------------------
(***************************************************************************)
(* The choices of the user.  What the policy disables is kept under the    *)
(* ids by which it knows the spaces, those last seen on the screens, while *)
(* the system renumbers them: the invariant ties the two together.         *)
(***************************************************************************)
Scr == Activation!Screens

\* A policy is a record of its parts, of which the last ids and UUIDs are those of screens.
IsPolicy(p) ==
  /\ p = [enabled |-> p.enabled, disabled |-> p.disabled, displays |-> p.displays, known |-> p.known,
          starting |-> p.starting, lastSpace |-> p.lastSpace, lastDisplay |-> p.lastDisplay, login |-> p.login]
  /\ p.lastSpace \in [Scr -> Nat \cup {None}]
  /\ p.lastDisplay = [s \in Scr |-> p.lastDisplay[s]]

\* The snapshot of a screen renames a space, or a display.
Transfers(p, s, id) == id # None /\ p.lastSpace[s] # None /\ p.lastSpace[s] \notin p.known \cup {id}
Takes(p, s, u) == cfg.default_disable /\ u # None /\ p.lastDisplay[s] # None /\ p.lastDisplay[s] # u

\* What the two transfers make of a policy.
LEMMA TransferSpaceFields ==
  ASSUME NEW p, IsPolicy(p), NEW old, NEW new
  PROVE  LET q == Activation!TransferSpace(p, old, new)
             moves == old \notin p.known \cup {new}
         IN  /\ IsPolicy(q) /\ q.known = p.known /\ q.displays = p.displays /\ q.login = p.login
             /\ q.lastSpace = p.lastSpace /\ q.lastDisplay = p.lastDisplay
             /\ q.disabled = IF moves /\ ~cfg.default_disable THEN Activation!Renamed(p.disabled, old, new)
                             ELSE p.disabled
BY DEF IsPolicy, Activation!TransferSpace

LEMMA TransferDisplayFields ==
  ASSUME NEW p, IsPolicy(p), NEW old, NEW new
  PROVE  LET q == Activation!TransferDisplay(p, old, new)
         IN  /\ IsPolicy(q) /\ q.known = p.known /\ q.login = p.login
             /\ q.lastSpace = p.lastSpace /\ q.lastDisplay = p.lastDisplay /\ q.disabled = p.disabled
             /\ q.displays = IF cfg.default_disable /\ old # new THEN Activation!Renamed(p.displays, old, new)
                             ELSE p.displays
BY DEF IsPolicy, Activation!TransferDisplay

\* What the snapshot of a screen makes of a policy.
LEMMA UpdateFields ==
  ASSUME NEW p, IsPolicy(p), NEW s \in Scr, NEW scr, scr[s].space \in Nat \cup {None}
  PROVE  LET q == Activation!UpdateScreen(p, s, scr)
             id == scr[s].space
             u == scr[s].display
         IN  /\ IsPolicy(q) /\ q.login = p.login
             /\ q.known = IF id = None THEN p.known ELSE p.known \cup {id}
             /\ q.lastSpace = IF id = None THEN p.lastSpace ELSE [p.lastSpace EXCEPT ![s] = id]
             /\ q.lastDisplay = IF u = None THEN p.lastDisplay ELSE [p.lastDisplay EXCEPT ![s] = u]
             /\ q.disabled = IF Transfers(p, s, id) /\ ~cfg.default_disable
                             THEN Activation!Renamed(p.disabled, p.lastSpace[s], id) ELSE p.disabled
             /\ q.displays = IF Takes(p, s, u) THEN Activation!Renamed(p.displays, p.lastDisplay[s], u)
                             ELSE p.displays
<1> DEFINE id == scr[s].space
           u == scr[s].display
           q1 == IF p.lastSpace[s] = None THEN p ELSE Activation!TransferSpace(p, p.lastSpace[s], id)
           p1 == IF id = None THEN p ELSE [q1 EXCEPT !.known = @ \cup {id}, !.lastSpace[s] = id]
           q2 == IF p.lastDisplay[s] = None THEN p1 ELSE Activation!TransferDisplay(p1, p.lastDisplay[s], u)
           p2 == IF u = None THEN p1 ELSE [q2 EXCEPT !.lastDisplay[s] = u]
<1>1. Activation!UpdateScreen(p, s, scr) = p2
  BY DEF Activation!UpdateScreen
<1> HIDE DEF id, u
<1>2. /\ IsPolicy(q1) /\ q1.known = p.known /\ q1.displays = p.displays /\ q1.login = p.login
      /\ q1.lastSpace = p.lastSpace /\ q1.lastDisplay = p.lastDisplay
      /\ id # None => q1.disabled = IF Transfers(p, s, id) /\ ~cfg.default_disable
                                   THEN Activation!Renamed(p.disabled, p.lastSpace[s], id) ELSE p.disabled
  BY TransferSpaceFields DEF Transfers
<1> HIDE DEF q1
<1>3. /\ IsPolicy(p1) /\ p1.known = (IF id = None THEN p.known ELSE p.known \cup {id})
      /\ p1.displays = p.displays /\ p1.login = p.login
      /\ p1.lastSpace = (IF id = None THEN p.lastSpace ELSE [p.lastSpace EXCEPT ![s] = id])
      /\ p1.lastDisplay = p.lastDisplay
      /\ p1.disabled = IF Transfers(p, s, id) /\ ~cfg.default_disable
                       THEN Activation!Renamed(p.disabled, p.lastSpace[s], id) ELSE p.disabled
  BY <1>2 DEF IsPolicy, id, Transfers
<1> HIDE DEF p1
<1>4. /\ IsPolicy(q2) /\ q2.known = p1.known /\ q2.login = p1.login
      /\ q2.lastSpace = p1.lastSpace /\ q2.lastDisplay = p1.lastDisplay /\ q2.disabled = p1.disabled
      /\ u # None => q2.displays = IF Takes(p, s, u) THEN Activation!Renamed(p.displays, p.lastDisplay[s], u)
                                  ELSE p.displays
  BY <1>3, TransferDisplayFields DEF Takes
<1> HIDE DEF q2
<1>5. /\ IsPolicy(p2) /\ p2.known = p1.known /\ p2.login = p1.login /\ p2.lastSpace = p1.lastSpace
      /\ p2.lastDisplay = (IF u = None THEN p.lastDisplay ELSE [p.lastDisplay EXCEPT ![s] = u])
      /\ p2.disabled = p1.disabled
      /\ p2.displays = IF Takes(p, s, u) THEN Activation!Renamed(p.displays, p.lastDisplay[s], u)
                       ELSE p.displays
  BY <1>3, <1>4 DEF IsPolicy, Takes
<1> HIDE DEF p2
<1> QED BY <1>1, <1>3, <1>5 DEF id, u

-----------------------------------------------------------------------------
Default == cfg.default_disable
Bound == Activation!Cardinality(Spaces) + changes

\* The id by which the policy knows a space.
KnownAs(x) == IF was[Home[x]] = x THEN policy.lastSpace[Home[x]] ELSE number[x]

\* The ids of the spaces are distinct, and those in use are below the bound.
SpacesTyped ==
  /\ online \subseteq Scr /\ on \subseteq online /\ changes \in Nat
  /\ shown \in [Scr -> Spaces \cup {None}] /\ number \in [Spaces -> 0..Bound]
  /\ \A s \in Scr : shown[s] # None => Home[shown[s]] = s /\ number[shown[s]] # 0
  /\ \A x, y \in Spaces : number[x] # 0 /\ number[x] = number[y] => x = y
  /\ was \in [Scr -> Spaces \cup {None}] /\ \A s \in Scr : was[s] # None => Home[was[s]] = s
  /\ uuid = [s \in Scr |-> uuid[s]]
  /\ IsPolicy(policy)
  /\ DOMAIN screens \subseteq Scr /\ \A s \in DOMAIN screens : screens[s].space \in Nat \cup {None}
  /\ active = Activation!ActiveOn(policy, screens)

\* A space or a UUID that the reactor has of a screen is what the policy last saw there.
SeenSame ==
  \A s \in DOMAIN screens :
    /\ screens[s].space # None => policy.lastSpace[s] = screens[s].space
    /\ screens[s].display # None => policy.lastDisplay[s] = screens[s].display

\* The id last seen on a screen was that of the space last seen there, and is no other's.
LastOwned ==
  /\ \A s \in Scr : /\ was[s] = None <=> policy.lastSpace[s] = None
                    /\ policy.lastSpace[s] # None => policy.lastSpace[s] \in 1..Bound
                    /\ \A x \in Spaces : x # was[s] => number[x] # policy.lastSpace[s]
  /\ \A s, t \in Scr : policy.lastSpace[s] # None /\ policy.lastSpace[s] = policy.lastSpace[t] => s = t

\* No space is disabled under an id that the policy has not seen.
DisabledSeen ==
  /\ policy.disabled \subseteq 1..Bound
  /\ Default => policy.disabled = {}
  /\ \A x \in Spaces : KnownAs(x) # number[x] => number[x] \notin policy.disabled

\* While no id was taken for another, what is disabled is what the user turned off, under
\* the ids that the policy knows.
OffDisabled ==
  ~Default /\ ~odd => \A x \in Spaces : number[x] # 0 => (KnownAs(x) \in policy.disabled <=> x \in off)

\* The display of a screen that was turned on is enabled, and so is the space on it.
OnEnabled ==
  Default => \A s \in on :
    /\ policy.lastDisplay[s] # None /\ policy.lastDisplay[s] \in policy.displays
    /\ s \in DOMAIN screens /\ screens[s].space # None => screens[s].space \in policy.enabled

\* A UUID belongs to one screen, now and in what the policy remembers.
UuidsApart ==
  \A s, t \in Scr :
    /\ uuid[s] = uuid[t] => s = t \/ uuid[s] = None
    /\ policy.lastDisplay[s] = policy.lastDisplay[t] => s = t \/ policy.lastDisplay[s] = None
    /\ policy.lastDisplay[s] = uuid[t] => s = t \/ uuid[t] = None

ChoiceInv ==
  SpacesTyped /\ SeenSame /\ LastOwned /\ DisabledSeen /\ OffDisabled /\ OnEnabled /\ UuidsApart

LEMMA BoundType == changes \in Nat => Bound \in Nat
<1>1. IsFiniteSet(Spaces)
  BY SpacesAssumption DEF Activation!SpacesAssumption, Activation!IsFiniteSet, IsFiniteSet
<1>2. Activation!Cardinality(Spaces) = Cardinality(Spaces)
  BY DEF Activation!Cardinality, Cardinality
<1> QED BY <1>1, <1>2, FS_CardinalityType DEF Bound

LEMMA NoneApart ==
  /\ None \notin Nat /\ None \notin Spaces /\ Home \in [Spaces -> Scr]
BY SpacesAssumption DEF Activation!SpacesAssumption, Scr

\* The world.
LEMMA ChangeIs ==
  ASSUME ChoiceInv, Activation!Change
  PROVE  /\ changes' = changes + 1 /\ changes' \in Nat /\ Bound \in Nat /\ Bound' = Bound + 1
         /\ Activation!Fresh = Bound + 1
         /\ UNCHANGED <<cfg, screens, policy, active, was>>
<1>1. changes \in Nat /\ changes' = changes + 1 /\ UNCHANGED <<cfg, screens, policy, active, was>>
  BY DEF ChoiceInv, SpacesTyped, Activation!Change, Activation!reactor
<1>2. Activation!Cardinality(Spaces) \in Nat
  <2>1. Activation!Cardinality(Spaces) = Cardinality(Spaces) /\ IsFiniteSet(Spaces)
    BY SpacesAssumption DEF Activation!Cardinality, Cardinality, Activation!SpacesAssumption, Activation!IsFiniteSet, IsFiniteSet
  <2> QED BY <2>1, FS_CardinalityType
<1> QED BY <1>1, <1>2 DEF Bound, Activation!Fresh

LEMMA ShowStep ==
  ASSUME ChoiceInv, NEW s \in Scr, NEW space \in Spaces \cup {None}, Activation!Show(s, space)
  PROVE  ChoiceInv'
<1>1. /\ Bound \in Nat /\ Bound' = Bound + 1 /\ changes' \in Nat
      /\ UNCHANGED <<cfg, screens, policy, active, was, online, uuid, number, off, on, odd>>
      /\ space # None => Home[space] = s /\ number[space] # 0
      /\ shown' = [shown EXCEPT ![s] = space]
  BY ChangeIs DEF Activation!Show
<1>2. SpacesTyped'
  BY <1>1 DEF ChoiceInv, SpacesTyped, Activation!ActiveOn, Activation!Enabled
<1>3. SeenSame' /\ LastOwned' /\ DisabledSeen' /\ OffDisabled' /\ OnEnabled' /\ UuidsApart'
  BY <1>1 DEF ChoiceInv, SeenSame, LastOwned, DisabledSeen, OffDisabled, OnEnabled, UuidsApart, KnownAs, Default
<1> QED BY <1>2, <1>3 DEF ChoiceInv

LEMMA UnplugStep ==
  ASSUME ChoiceInv, NEW s \in Scr, Activation!Unplug(s)
  PROVE  ChoiceInv'
<1>1. /\ Bound \in Nat /\ Bound' = Bound + 1 /\ changes' \in Nat
      /\ UNCHANGED <<cfg, screens, policy, active, was, shown, uuid, number, off, odd>>
      /\ online' = online \ {s} /\ on' = on \ {s}
  BY ChangeIs DEF Activation!Unplug
<1>2. SpacesTyped'
  BY <1>1 DEF ChoiceInv, SpacesTyped, Activation!ActiveOn, Activation!Enabled
<1>3. SeenSame' /\ LastOwned' /\ DisabledSeen' /\ OffDisabled' /\ OnEnabled' /\ UuidsApart'
  BY <1>1 DEF ChoiceInv, SeenSame, LastOwned, DisabledSeen, OffDisabled, OnEnabled, UuidsApart, KnownAs, Default
<1> QED BY <1>2, <1>3 DEF ChoiceInv

LEMMA PlugStep ==
  ASSUME ChoiceInv, NEW s \in Scr, Activation!Plug(s)
  PROVE  ChoiceInv'
<1>1. /\ Bound \in Nat /\ Bound' = Bound + 1 /\ changes' \in Nat
      /\ UNCHANGED <<cfg, screens, policy, active, was, shown, uuid, number, off, on, odd>>
      /\ online' = online \cup {s}
  BY ChangeIs DEF Activation!Plug
<1>2. SpacesTyped'
  BY <1>1 DEF ChoiceInv, SpacesTyped, Activation!ActiveOn, Activation!Enabled
<1>3. SeenSame' /\ LastOwned' /\ DisabledSeen' /\ OffDisabled' /\ OnEnabled' /\ UuidsApart'
  BY <1>1 DEF ChoiceInv, SeenSame, LastOwned, DisabledSeen, OffDisabled, OnEnabled, UuidsApart, KnownAs, Default
<1> QED BY <1>2, <1>3 DEF ChoiceInv

LEMMA RenameStep ==
  ASSUME ChoiceInv, NEW s \in Scr, NEW u, Activation!Rename(s, u)
  PROVE  ChoiceInv'
<1>1. /\ Bound \in Nat /\ Bound' = Bound + 1 /\ changes' \in Nat
      /\ UNCHANGED <<cfg, screens, policy, active, was, online, shown, number, off, on, odd>>
      /\ uuid' = [uuid EXCEPT ![s] = u]
      /\ u # None => \A t \in Scr : u # uuid[t] /\ u # policy.lastDisplay[t]
  BY ChangeIs DEF Activation!Rename, Scr
<1>2. SpacesTyped'
  BY <1>1 DEF ChoiceInv, SpacesTyped, Activation!ActiveOn, Activation!Enabled
<1>3. SeenSame' /\ LastOwned' /\ DisabledSeen' /\ OffDisabled' /\ OnEnabled'
  BY <1>1 DEF ChoiceInv, SeenSame, LastOwned, DisabledSeen, OffDisabled, OnEnabled, KnownAs, Default
<1>4. UuidsApart'
  <2>1. \A t \in Scr : uuid'[t] = IF t = s THEN u ELSE uuid[t]
    BY <1>1 DEF ChoiceInv, SpacesTyped
  <2> QED BY <1>1, <2>1 DEF ChoiceInv, UuidsApart
<1> QED BY <1>2, <1>3, <1>4 DEF ChoiceInv

LEMMA RenumberStep ==
  ASSUME ChoiceInv, NEW x \in Spaces, Activation!Renumber(x)
  PROVE  ChoiceInv'
<1>1. /\ Bound \in Nat /\ Bound' = Bound + 1 /\ changes' \in Nat
      /\ UNCHANGED <<cfg, screens, policy, active, was, online, shown, uuid, off, on>>
      /\ number[x] # 0 /\ number' = [number EXCEPT ![x] = Bound + 1]
      /\ odd' = (odd \/ was[Home[x]] # x \/ shown[Home[x]] # x)
  BY ChangeIs DEF Activation!Renumber
<1>2. number \in [Spaces -> 0..Bound] /\ \A y \in Spaces : number'[y] = IF y = x THEN Bound + 1 ELSE number[y]
  BY <1>1 DEF ChoiceInv, SpacesTyped
<1>3. number' \in [Spaces -> 0..Bound']
  BY <1>1, <1>2
<1>4. \A s \in Scr : shown[s] # None => Home[shown[s]] = s /\ number'[shown[s]] # 0
  <2>1. \A s \in Scr : shown[s] # None => shown[s] \in Spaces /\ Home[shown[s]] = s /\ number[shown[s]] # 0
    BY DEF ChoiceInv, SpacesTyped
  <2> QED BY <1>1, <1>2, <2>1
<1>5. \A y, z \in Spaces : number'[y] # 0 /\ number'[y] = number'[z] => y = z
  <2>1. \A y, z \in Spaces : number[y] # 0 /\ number[y] = number[z] => y = z
    BY DEF ChoiceInv, SpacesTyped
  <2> QED BY <1>1, <1>2, <2>1
<1>6. SpacesTyped'
  BY <1>1, <1>3, <1>4, <1>5 DEF ChoiceInv, SpacesTyped, Activation!ActiveOn, Activation!Enabled
<1>7. LastOwned'
  <2>1. /\ \A t \in Scr : policy.lastSpace[t] # Bound + 1
        /\ \A t \in Scr : policy.lastSpace[t] # None => policy.lastSpace[t] \in 1..Bound'
    BY <1>1, NoneApart DEF ChoiceInv, LastOwned
  <2> QED BY <1>1, <1>2, <2>1 DEF ChoiceInv, LastOwned
<1>8. DisabledSeen'
  BY <1>1, <1>2 DEF ChoiceInv, DisabledSeen, KnownAs, Default
<1>9. OffDisabled'
  BY <1>1, <1>2 DEF ChoiceInv, OffDisabled, KnownAs, Default
<1>10. SeenSame' /\ OnEnabled' /\ UuidsApart'
  BY <1>1 DEF ChoiceInv, SeenSame, OnEnabled, UuidsApart, Default
<1> QED BY <1>6, <1>7, <1>8, <1>9, <1>10 DEF ChoiceInv

LEMMA CloseStep ==
  ASSUME ChoiceInv, NEW x \in Spaces, Activation!Close(x)
  PROVE  ChoiceInv'
<1>1. /\ Bound \in Nat /\ Bound' = Bound + 1 /\ changes' \in Nat
      /\ UNCHANGED <<cfg, screens, policy, active, was, online, shown, uuid, on, odd>>
      /\ number[x] # 0 /\ number' = [number EXCEPT ![x] = 0] /\ off' = off \ {x}
      /\ \A s \in Scr : shown[s] # x
  BY ChangeIs DEF Activation!Close, Scr
<1>2. number \in [Spaces -> 0..Bound] /\ \A y \in Spaces : number'[y] = IF y = x THEN 0 ELSE number[y]
  BY <1>1 DEF ChoiceInv, SpacesTyped
<1>3. number' \in [Spaces -> 0..Bound']
  BY <1>1, <1>2
<1>4. \A s \in Scr : shown[s] # None => Home[shown[s]] = s /\ number'[shown[s]] # 0
  <2>1. \A s \in Scr : shown[s] # None => shown[s] \in Spaces /\ Home[shown[s]] = s /\ number[shown[s]] # 0
    BY DEF ChoiceInv, SpacesTyped
  <2> QED BY <1>1, <1>2, <2>1
<1>5. \A y, z \in Spaces : number'[y] # 0 /\ number'[y] = number'[z] => y = z
  <2>1. \A y, z \in Spaces : number[y] # 0 /\ number[y] = number[z] => y = z
    BY DEF ChoiceInv, SpacesTyped
  <2> QED BY <1>1, <1>2, <2>1
<1>6. SpacesTyped'
  BY <1>1, <1>3, <1>4, <1>5 DEF ChoiceInv, SpacesTyped, Activation!ActiveOn, Activation!Enabled
<1>7. LastOwned'
  BY <1>1, <1>2, NoneApart DEF ChoiceInv, LastOwned
<1>8. DisabledSeen'
  BY <1>1, <1>2 DEF ChoiceInv, DisabledSeen, KnownAs, Default
<1>9. OffDisabled'
  BY <1>1, <1>2 DEF ChoiceInv, OffDisabled, KnownAs, Default
<1>10. SeenSame' /\ OnEnabled' /\ UuidsApart'
  BY <1>1 DEF ChoiceInv, SeenSame, OnEnabled, UuidsApart, Default
<1> QED BY <1>6, <1>7, <1>8, <1>9, <1>10 DEF ChoiceInv

\* The reactor learns of spaces, and of the login window.
LEMMA ToldStep ==
  ASSUME ChoiceInv, NEW q, NEW k, NEW l, q = [policy EXCEPT !.known = k, !.login = l],
         policy' = q, UNCHANGED <<online, shown, uuid, number, changes, cfg, screens, was, off, on, odd>>,
         active' = Activation!ActiveOn(policy', screens')
  PROVE  ChoiceInv'
<1>1. /\ IsPolicy(q) /\ q.lastSpace = policy.lastSpace /\ q.lastDisplay = policy.lastDisplay
      /\ q.disabled = policy.disabled /\ q.enabled = policy.enabled /\ q.displays = policy.displays
  <2>1. IsPolicy(policy)
    BY DEF ChoiceInv, SpacesTyped
  <2> QED BY <2>1 DEF IsPolicy
<1>2. SpacesTyped'
  <2>1. active' = Activation!ActiveOn(policy, screens)'
    BY DEF Activation!ActiveOn, Activation!Enabled
  <2> QED BY <1>1, <2>1 DEF ChoiceInv, SpacesTyped, Bound
<1>3. SeenSame' /\ LastOwned' /\ DisabledSeen' /\ OffDisabled' /\ OnEnabled' /\ UuidsApart'
  BY <1>1 DEF ChoiceInv, SeenSame, LastOwned, DisabledSeen, OffDisabled, OnEnabled, UuidsApart, KnownAs, Default, Bound
<1> QED BY <1>2, <1>3 DEF ChoiceInv

LEMMA ToldSteps ==
  ASSUME ChoiceInv,
         \/ \E id \in Activation!Ids : Activation!SpaceCreated(id) \/ Activation!SpaceDestroyed(id)
         \/ \E shows \in BOOLEAN : Activation!LoginWindow(shows)
  PROVE  ChoiceInv'
<1>1. \A k, l : IsPolicy(policy) => /\ [policy EXCEPT !.known = k] = [policy EXCEPT !.known = k, !.login = policy.login]
                                    /\ [policy EXCEPT !.login = l] = [policy EXCEPT !.known = policy.known, !.login = l]
  BY ZenonT(30) DEF IsPolicy
<1>2. IsPolicy(policy)
  BY DEF ChoiceInv, SpacesTyped
<1>3. CASE \E id \in Activation!Ids : Activation!SpaceCreated(id) \/ Activation!SpaceDestroyed(id)
  <2>1. PICK k : policy' = [policy EXCEPT !.known = k]
    BY <1>3, SMTT(30) DEF Activation!SpaceCreated, Activation!SpaceDestroyed
  <2>2. policy' = [policy EXCEPT !.known = k, !.login = policy.login]
    BY <1>1, <1>2, <2>1, ZenonT(30)
  <2> QED BY <1>3, <2>2, ToldStep DEF Activation!SpaceCreated, Activation!SpaceDestroyed, Activation!Still,
            Activation!wishes, Activation!Recompute
<1>4. CASE \E shows \in BOOLEAN : Activation!LoginWindow(shows)
  <2>1. PICK l : policy' = [policy EXCEPT !.login = l]
    BY <1>4 DEF Activation!LoginWindow
  <2>2. policy' = [policy EXCEPT !.known = policy.known, !.login = l]
    BY <1>1, <1>2, <2>1
  <2> QED BY <1>4, <2>2, ToldStep, ZenonT(30) DEF Activation!LoginWindow, Activation!Still, Activation!wishes,
            Activation!Recompute
<1> QED BY <1>3, <1>4

\* The user's choice.
LEMMA ToggleStep ==
  ASSUME ChoiceInv, NEW s \in Scr, Activation!Toggle(s)
  PROVE  ChoiceInv'
<1> DEFINE L == screens[s].space
           d == screens[s].display
           w == was[s]
<1>1. /\ UNCHANGED <<online, shown, uuid, number, changes, cfg, screens, was, odd>>
      /\ s \in DOMAIN screens /\ L # None
      /\ policy' = Activation!Toggled(L, d)
      /\ off' = IF w \in off THEN off \ {w} ELSE off \cup {w}
      /\ on' = IF L \notin policy.enabled /\ d # None /\ s \in online THEN on \cup {s} ELSE on \ {s}
      /\ active' = Activation!ActiveOn(policy', screens')
  BY DEF Activation!Toggle, Activation!Still, Activation!Recompute
<1>2. /\ IsPolicy(policy') /\ UNCHANGED <<policy.lastSpace, policy.lastDisplay>>
      /\ Default => policy'.disabled = policy.disabled
      /\ ~Default => policy'.disabled = IF L \in policy.disabled THEN policy.disabled \ {L} ELSE policy.disabled \cup {L}
      /\ Default => policy'.enabled = IF L \in policy.enabled THEN policy.enabled \ {L} ELSE policy.enabled \cup {L}
      /\ Default => policy'.displays = IF L \in policy.enabled
                                      THEN policy.displays \ (IF d = None THEN {} ELSE {d})
                                      ELSE policy.displays \cup (IF d = None THEN {} ELSE {d})
  <2>1. IsPolicy(policy)
    BY DEF ChoiceInv, SpacesTyped
  <2> HIDE DEF L, d
  <2>2. policy' = Activation!Toggled(L, d)
    BY <1>1
  <2> QED BY <2>1, <2>2 DEF IsPolicy, Default, Activation!Toggled
<1>3. /\ policy.lastSpace[s] = L /\ L \in 1..Bound /\ w # None /\ w \in Spaces /\ Home[w] = s /\ KnownAs(w) = L
      /\ d # None => policy.lastDisplay[s] = d
      /\ \A x \in Spaces : x # w => number[x] # L
  <2>1. policy.lastSpace[s] = L /\ (d # None => policy.lastDisplay[s] = d)
    BY <1>1 DEF ChoiceInv, SeenSame
  <2>2. L \in 1..Bound /\ w # None /\ \A x \in Spaces : x # w => number[x] # L
    BY <1>1, <2>1 DEF ChoiceInv, LastOwned
  <2>3. w \in Spaces /\ Home[w] = s
    BY <2>2 DEF ChoiceInv, SpacesTyped
  <2> QED BY <2>1, <2>2, <2>3 DEF KnownAs
<1>4. \A x \in Spaces : x # w => KnownAs(x) # L
  BY <1>1, <1>3, NoneApart DEF ChoiceInv, LastOwned, KnownAs
<1> HIDE DEF L, d, w
<1>5. SpacesTyped'
  <2>1. active' = Activation!ActiveOn(policy, screens)'
    BY <1>1 DEF Activation!ActiveOn, Activation!Enabled
  <2>2. on' \subseteq online'
    BY <1>1 DEF ChoiceInv, SpacesTyped
  <2> QED BY <1>1, <1>2, <2>1, <2>2 DEF ChoiceInv, SpacesTyped, Bound
<1>6. SeenSame' /\ LastOwned' /\ UuidsApart'
  BY <1>1, <1>2 DEF ChoiceInv, SeenSame, LastOwned, UuidsApart, Bound
<1>7. DisabledSeen'
  BY <1>1, <1>2, <1>3 DEF ChoiceInv, DisabledSeen, KnownAs, Bound, Default
<1>8. OffDisabled'
  <2>1. \A x \in Spaces : KnownAs(x)' = KnownAs(x)
    BY <1>1, <1>2 DEF KnownAs
  <2> QED BY <1>1, <1>2, <1>3, <1>4, <2>1 DEF ChoiceInv, OffDisabled, Default
<1>9. OnEnabled'
  <2>1. SUFFICES ASSUME Default, NEW t \in on'
                 PROVE  /\ policy.lastDisplay[t] # None /\ policy.lastDisplay[t] \in policy'.displays
                        /\ t \in DOMAIN screens /\ screens[t].space # None => screens[t].space \in policy'.enabled
    BY <1>1, <1>2 DEF OnEnabled, Default
  <2>2. t # s => /\ t \in on /\ t \in Scr
                 /\ t \in DOMAIN screens /\ screens[t].space # None => screens[t].space # L
                 /\ d # None => policy.lastDisplay[t] # d
    BY <1>1, <1>3, <2>1 DEF ChoiceInv, SpacesTyped, SeenSame, LastOwned, UuidsApart
  <2>3. t = s => L \notin policy.enabled /\ d # None
    BY <1>1, <2>1
  <2> QED BY <1>1, <1>2, <1>3, <2>1, <2>2, <2>3 DEF ChoiceInv, OnEnabled, L
<1> QED BY <1>5, <1>6, <1>7, <1>8, <1>9 DEF ChoiceInv

-----------------------------------------------------------------------------
Id(s) == Activation!IdOf(s)
Open(s) == s \in online /\ Id(s) # None

\* What the reactor may be told of the screens: their spaces, and no UUID that is new but
\* the present ones.
Tells(L) ==
  /\ DOMAIN L = online
  /\ \A s \in online : L[s].space = Id(s) /\ L[s].display \in {None, uuid[s], policy.lastDisplay[s]}

LEMMA IdIs ==
  ASSUME ChoiceInv
  PROVE  /\ online \subseteq Scr
         /\ \A s \in Scr : /\ Id(s) \in Nat \cup {None}
                           /\ Id(s) = None <=> shown[s] = None
                           /\ Id(s) # None => /\ shown[s] \in Spaces /\ Home[shown[s]] = s
                                              /\ Id(s) = number[shown[s]] /\ Id(s) \in 1..Bound
<1>1. Bound \in Nat
  BY BoundType DEF ChoiceInv, SpacesTyped
<1>2. online \subseteq Scr
  BY DEF ChoiceInv, SpacesTyped
<1>4. ASSUME NEW s \in Scr, shown[s] # None
      PROVE  shown[s] \in Spaces /\ Home[shown[s]] = s /\ number[shown[s]] \in 1..Bound
  <2>1. /\ shown[s] \in Spaces /\ Home[shown[s]] = s /\ number[shown[s]] # 0
        /\ number \in [Spaces -> 0..Bound]
    BY <1>4 DEF ChoiceInv, SpacesTyped
  <2> QED BY <1>1, <2>1
<1> QED BY <1>1, <1>2, <1>4, NoneApart DEF Id, Activation!IdOf

\* The policy once the screens of `done` are read.
NowKnown(x, done) == IF Home[x] \in done /\ Open(Home[x]) THEN number[x] ELSE KnownAs(x)
Quiet == ~Default /\ ~odd /\ \A s \in Scr : ~Activation!Misread(s)

\* What the policy has last seen and what it knows, what is disabled and who it belongs to,
\* and what is enabled, in between.
ReadLast(L, p, done) ==
  /\ IsPolicy(p) /\ p.login = policy.login
  /\ \A s \in Scr : p.lastSpace[s] = IF s \notin online THEN None
                                     ELSE IF s \in done /\ Id(s) # None THEN Id(s) ELSE policy.lastSpace[s]
  /\ \A s \in Scr : p.lastDisplay[s] = IF s \notin online THEN None
                                       ELSE IF s \in done /\ L[s].display # None THEN L[s].display
                                       ELSE policy.lastDisplay[s]
ReadKnown(p, done) ==
  \A id \in Nat : id \in p.known => id \in policy.known \/ \E s \in done : Open(s) /\ id = Id(s)
ReadSeen(p, done) ==
  /\ policy.known \subseteq p.known
  /\ p.disabled \subseteq 1..Bound
  /\ Default => p.disabled = {}
  /\ \A x \in Spaces : KnownAs(x) # number[x] /\ number[x] \in p.disabled =>
       Home[x] \in done /\ Open(Home[x]) /\ Id(Home[x]) = number[x]
ReadOff(p, done) ==
  Quiet => \A x \in Spaces : number[x] # 0 => (NowKnown(x, done) \in p.disabled <=> x \in off)
ReadOn(p) ==
  Default => \A s \in on : p.lastDisplay[s] # None /\ p.lastDisplay[s] \in p.displays
Reading(L, p, done) ==
  ReadLast(L, p, done) /\ ReadKnown(p, done) /\ ReadSeen(p, done) /\ ReadOff(p, done) /\ ReadOn(p)

\* A screen that is not connected changes nothing.
LEMMA ReadAway ==
  ASSUME NEW L, NEW p, NEW done, NEW s \in Scr, s \notin online, Reading(L, p, done)
  PROVE  Reading(L, p, done \cup {s})
BY DEF Reading, ReadLast, ReadKnown, ReadSeen, ReadOff, ReadOn, NowKnown, Open

\* A space whose id moved is the one that the screen showed before.
LEMMA MovedIsSame ==
  ASSUME ChoiceInv, NEW L, Tells(L), NEW p, NEW done \in SUBSET Scr, NEW s \in online \ done, Reading(L, p, done), Quiet,
         Transfers(p, s, Id(s))
  PROVE  shown[s] = was[s] /\ shown[s] \in Spaces /\ Id(s) = number[was[s]] /\ p.lastSpace[s] = policy.lastSpace[s]
<1>1. s \in Scr /\ Id(s) # None /\ shown[s] # None /\ shown[s] \in Spaces /\ Id(s) = number[shown[s]]
  BY IdIs DEF Transfers
<1>2. p.lastSpace[s] = policy.lastSpace[s] /\ policy.lastSpace[s] # None
  BY <1>1 DEF Reading, ReadLast, Transfers
<1>3. policy.lastSpace[s] \notin policy.known /\ policy.lastSpace[s] # Id(s)
  BY <1>2 DEF Reading, ReadSeen, Transfers
<1>4. ~Activation!Misread(s)
  BY <1>1 DEF Quiet
<1>5. shown[s] = was[s]
  BY <1>1, <1>2, <1>3, <1>4 DEF Activation!Misread, Id
<1> QED BY <1>1, <1>2, <1>5

\* Without a transfer the space that a screen showed before has the id it had, or none.
LEMMA StillIsSame ==
  ASSUME ChoiceInv, NEW L, Tells(L), NEW p, NEW done \in SUBSET Scr, NEW s \in online \ done, Reading(L, p, done), Quiet,
         Id(s) # None, ~Transfers(p, s, Id(s)), was[s] # None
  PROVE  policy.lastSpace[s] = number[was[s]] \/ number[was[s]] = 0
<1> DEFINE last == policy.lastSpace[s]
           w == was[s]
<1>1. /\ s \in Scr /\ shown[s] # None /\ shown[s] \in Spaces /\ Id(s) = number[shown[s]]
      /\ Home[shown[s]] = s
  BY IdIs
<1>2. p.lastSpace[s] = last
  BY <1>1 DEF Reading, ReadLast
<1>3. last # None /\ last \in Nat /\ w \in Spaces /\ \A x \in Spaces : x # w => number[x] # last
  <2>1. Bound \in Nat
    BY BoundType DEF ChoiceInv, SpacesTyped
  <2> QED BY <1>1, <2>1 DEF ChoiceInv, SpacesTyped, LastOwned
<1>4. last = Id(s) \/ last \in p.known
  BY <1>2, <1>3 DEF Transfers
<1>5. ~Activation!Misread(s)
  BY <1>1 DEF Quiet
<1>6. CASE last = Id(s)
  BY <1>1, <1>3, <1>6
<1>7. CASE last # Id(s) /\ shown[s] # w
  BY <1>1, <1>3, <1>5, <1>7 DEF Activation!Misread, Id
<1>8. CASE last # Id(s) /\ shown[s] = w
  <2>1. last \notin policy.known
    BY <1>1, <1>3, <1>5, <1>8 DEF Activation!Misread, Id
  <2>2. PICK t \in done : Open(t) /\ last = Id(t)
    BY <1>3, <1>4, <1>8, <2>1 DEF Reading, ReadKnown
  <2>3. t \in Scr /\ t # s /\ shown[t] \in Spaces /\ Home[shown[t]] = t /\ Id(t) = number[shown[t]]
    BY <2>2, IdIs DEF Open
  <2> QED BY <1>1, <1>3, <1>8, <2>2, <2>3
<1> QED BY <1>6, <1>7, <1>8

\* What the snapshot of one more screen does to each part.
LEMMA ReadOffStep ==
  ASSUME ChoiceInv, NEW L, Tells(L), NEW p, NEW done \in SUBSET Scr, NEW s \in online \ done, Reading(L, p, done), NEW q,
         q.disabled = IF Transfers(p, s, Id(s)) /\ ~cfg.default_disable
                      THEN Activation!Renamed(p.disabled, p.lastSpace[s], Id(s)) ELSE p.disabled
  PROVE  ReadOff(q, done \cup {s})
<1> DEFINE last == policy.lastSpace[s]
           w == was[s]
           id == Id(s)
<1>1. SUFFICES ASSUME Quiet, NEW x \in Spaces, number[x] # 0
               PROVE  NowKnown(x, done \cup {s}) \in q.disabled <=> x \in off
  BY DEF ReadOff
<1>2. NowKnown(x, done) \in p.disabled <=> x \in off
  BY <1>1 DEF Reading, ReadOff
<1>3. s \in Scr /\ s \notin done /\ online \subseteq Scr /\ (Open(s) <=> id # None)
  BY IdIs DEF Open
<1>4. Home[x] # s => NowKnown(x, done \cup {s}) = NowKnown(x, done)
  BY DEF NowKnown
<1>5. Home[x] = s => /\ NowKnown(x, done) = KnownAs(x)
                     /\ NowKnown(x, done \cup {s}) = IF id # None THEN number[x] ELSE KnownAs(x)
  BY <1>3 DEF NowKnown
<1>6. w # x /\ Home[x] = s => KnownAs(x) = number[x]
  BY DEF KnownAs
<1>7. CASE id = None
  <2>1. q.disabled = p.disabled
    BY <1>7 DEF Transfers
  <2> QED BY <1>2, <1>4, <1>5, <1>7, <2>1
<1>8. CASE id # None /\ ~Transfers(p, s, id)
  <2>1. q.disabled = p.disabled
    BY <1>8
  <2>2. w # None => last = number[w] \/ number[w] = 0
    BY <1>1, <1>8, StillIsSame
  <2>3. w = x => w # None /\ KnownAs(x) = IF Home[x] = s THEN last ELSE KnownAs(x)
    BY NoneApart DEF KnownAs
  <2> QED BY <1>1, <1>2, <1>4, <1>5, <1>6, <1>8, <2>1, <2>2, <2>3
<1>9. CASE Transfers(p, s, id)
  <2>1. /\ shown[s] = w /\ w \in Spaces /\ id = number[w] /\ p.lastSpace[s] = last
        /\ last # None /\ id # None /\ last # id /\ ~cfg.default_disable
    BY <1>1, <1>9, MovedIsSame DEF Transfers, Quiet, Default
  <2>2. q.disabled = IF last \in p.disabled THEN (p.disabled \ {last}) \cup {id} ELSE p.disabled
    BY <1>9, <2>1 DEF Activation!Renamed
  <2>3. /\ Home[w] = s /\ KnownAs(w) = last
        /\ \A y \in Spaces : y # w => number[y] # last
    BY <1>3, <2>1, NoneApart DEF ChoiceInv, SpacesTyped, LastOwned, KnownAs
  <2>4. CASE x = w
    <3>1. id \notin p.disabled
      BY <1>3, <2>1, <2>3 DEF Reading, ReadSeen
    <3> QED BY <1>2, <1>5, <2>1, <2>2, <2>3, <2>4, <3>1
  <2>5. CASE x # w
    <3>1. number[x] # last /\ number[x] # id
      BY <1>1, <2>1, <2>3, <2>5 DEF ChoiceInv, SpacesTyped
    <3>2. Home[x] # s => KnownAs(x) # last /\ KnownAs(x) # id
      <4>1. Home[x] \in Scr
        BY NoneApart
      <4> SUFFICES ASSUME Home[x] # s, was[Home[x]] = x
                   PROVE  policy.lastSpace[Home[x]] # last /\ policy.lastSpace[Home[x]] # id
        BY <3>1 DEF KnownAs
      <4>2. policy.lastSpace[Home[x]] # last
        BY <1>3, <2>1, <4>1 DEF ChoiceInv, LastOwned
      <4>3. policy.lastSpace[Home[x]] # number[w]
        BY <2>1, <2>5, <4>1 DEF ChoiceInv, LastOwned
      <4> QED BY <2>1, <4>2, <4>3
    <3>3. NowKnown(x, done) # last /\ NowKnown(x, done) # id /\ NowKnown(x, done \cup {s}) = NowKnown(x, done)
      BY <1>4, <1>5, <1>6, <2>1, <2>5, <3>1, <3>2 DEF NowKnown
    <3> QED BY <1>2, <2>2, <3>3
  <2> QED BY <2>4, <2>5
<1> QED BY <1>7, <1>8, <1>9

LEMMA ReadSeenStep ==
  ASSUME ChoiceInv, NEW L, Tells(L), NEW p, NEW done \in SUBSET Scr, NEW s \in online \ done, Reading(L, p, done), NEW q,
         q.known = IF Id(s) = None THEN p.known ELSE p.known \cup {Id(s)},
         q.disabled = IF Transfers(p, s, Id(s)) /\ ~cfg.default_disable
                      THEN Activation!Renamed(p.disabled, p.lastSpace[s], Id(s)) ELSE p.disabled
  PROVE  ReadKnown(q, done \cup {s}) /\ ReadSeen(q, done \cup {s})
<1>1. /\ s \in Scr /\ online \subseteq Scr /\ (Open(s) <=> Id(s) # None)
      /\ Id(s) # None => Id(s) = number[shown[s]] /\ shown[s] \in Spaces /\ Home[shown[s]] = s /\ Id(s) \in 1..Bound
  BY IdIs DEF Open
<1>2. ReadKnown(q, done \cup {s})
  BY <1>1 DEF Reading, ReadKnown
<1>3. q.disabled = p.disabled \/ (Id(s) # None /\ q.disabled \subseteq p.disabled \cup {Id(s)})
  BY DEF Transfers, Activation!Renamed
<1>4. policy.known \subseteq q.known /\ q.disabled \subseteq 1..Bound /\ (Default => q.disabled = {})
  BY <1>1, <1>3 DEF Reading, ReadSeen, Default
<1>5. ASSUME NEW x \in Spaces, KnownAs(x) # number[x], number[x] \in q.disabled
      PROVE  Home[x] \in done \cup {s} /\ Open(Home[x]) /\ Id(Home[x]) = number[x]
  <2>1. CASE number[x] \in p.disabled
    BY <1>5, <2>1 DEF Reading, ReadSeen
  <2>2. CASE number[x] \notin p.disabled
    <3>1. Id(s) # None /\ number[x] = Id(s)
      BY <1>3, <1>5, <2>2
    <3>2. x = shown[s]
      BY <1>1, <3>1 DEF ChoiceInv, SpacesTyped
    <3> QED BY <1>1, <3>1, <3>2
  <2> QED BY <2>1, <2>2
<1> QED BY <1>2, <1>4, <1>5 DEF ReadSeen

LEMMA ReadOnStep ==
  ASSUME ChoiceInv, NEW L, Tells(L), NEW p, NEW done \in SUBSET Scr, NEW s \in online \ done, Reading(L, p, done), NEW q,
         q.lastDisplay = IF L[s].display = None THEN p.lastDisplay ELSE [p.lastDisplay EXCEPT ![s] = L[s].display],
         q.displays = IF Takes(p, s, L[s].display) THEN Activation!Renamed(p.displays, p.lastDisplay[s], L[s].display)
                      ELSE p.displays
  PROVE  ReadOn(q)
<1>1. SUFFICES ASSUME Default, NEW t \in on PROVE q.lastDisplay[t] # None /\ q.lastDisplay[t] \in q.displays
  BY DEF ReadOn
<1>2. p.lastDisplay[t] # None /\ p.lastDisplay[t] \in p.displays
  BY <1>1 DEF Reading, ReadOn
<1>3. s \in Scr /\ t \in Scr /\ s \notin done /\ p.lastDisplay = [r \in Scr |-> p.lastDisplay[r]]
  BY DEF ChoiceInv, SpacesTyped, Reading, ReadLast, IsPolicy
<1>4. \A r \in Scr : q.lastDisplay[r] = IF r = s /\ L[s].display # None THEN L[s].display ELSE p.lastDisplay[r]
  BY <1>3
<1>5. CASE t = s
  BY <1>1, <1>2, <1>3, <1>4, <1>5 DEF Takes, Default, Activation!Renamed
<1>6. CASE t # s
  <2>1. p.lastDisplay[s] = policy.lastDisplay[s]
    BY <1>3 DEF Reading, ReadLast
  <2>2. p.lastDisplay[t] \in {uuid[t], policy.lastDisplay[t]}
    BY <1>2, <1>3 DEF Reading, ReadLast, Tells
  <2>3. p.lastDisplay[s] # None => p.lastDisplay[t] # p.lastDisplay[s]
    BY <1>2, <1>3, <1>6, <2>1, <2>2 DEF ChoiceInv, UuidsApart
  <2> QED BY <1>2, <1>3, <1>4, <1>6, <2>3 DEF Takes, Activation!Renamed
<1> QED BY <1>5, <1>6

LEMMA ReadStep ==
  ASSUME ChoiceInv, NEW L, Tells(L), NEW p, NEW done \in SUBSET Scr, NEW s \in online \ done, Reading(L, p, done)
  PROVE  Reading(L, Activation!UpdateScreen(p, s, L), done \cup {s})
<1> DEFINE q == Activation!UpdateScreen(p, s, L)
<1>1. s \in Scr /\ L[s].space = Id(s) /\ Id(s) \in Nat \cup {None} /\ s \notin done
  BY IdIs DEF Tells
<1>2. IsPolicy(p) /\ p.login = policy.login
  BY DEF Reading, ReadLast
<1>3. /\ IsPolicy(q) /\ q.login = p.login
      /\ q.known = IF Id(s) = None THEN p.known ELSE p.known \cup {Id(s)}
      /\ q.lastSpace = IF Id(s) = None THEN p.lastSpace ELSE [p.lastSpace EXCEPT ![s] = Id(s)]
      /\ q.lastDisplay = IF L[s].display = None THEN p.lastDisplay ELSE [p.lastDisplay EXCEPT ![s] = L[s].display]
      /\ q.disabled = IF Transfers(p, s, Id(s)) /\ ~cfg.default_disable
                      THEN Activation!Renamed(p.disabled, p.lastSpace[s], Id(s)) ELSE p.disabled
      /\ q.displays = IF Takes(p, s, L[s].display) THEN Activation!Renamed(p.displays, p.lastDisplay[s], L[s].display)
                      ELSE p.displays
  <2> HIDE DEF Id
  <2> QED BY <1>1, <1>2, UpdateFields, SMTT(30)
<1> HIDE DEF q
<1>4. ReadLast(L, q, done \cup {s})
  <2>1. \A r \in Scr : /\ q.lastSpace[r] = IF r = s /\ Id(s) # None THEN Id(s) ELSE p.lastSpace[r]
                       /\ q.lastDisplay[r] = IF r = s /\ L[s].display # None THEN L[s].display ELSE p.lastDisplay[r]
    BY <1>1, <1>2, <1>3 DEF IsPolicy
  <2> QED BY <1>1, <1>2, <1>3, <2>1 DEF Reading, ReadLast
<1>5. ReadKnown(q, done \cup {s}) /\ ReadSeen(q, done \cup {s})
  BY <1>3, ReadSeenStep
<1>6. ReadOff(q, done \cup {s})
  BY <1>3, ReadOffStep
<1>7. ReadOn(q)
  BY <1>3, ReadOnStep
<1> QED BY <1>4, <1>5, <1>6, <1>7 DEF Reading, q

\* The screens are read one after the other.
IsTurn(L, turn, p, n) ==
  turn = [i \in 0..n |-> IF i = 0 THEN p
                         ELSE IF Order[i] \in DOMAIN L THEN Activation!UpdateScreen(turn[i - 1], Order[i], L)
                         ELSE turn[i - 1]]

LEMMA TurnsExist ==
  ASSUME NEW L, NEW p, NEW n \in Nat
  PROVE  \E turn : IsTurn(L, turn, p, n)
<1> DEFINE T == {m \in Nat : \E turn : IsTurn(L, turn, p, m)}
<1>1. 0 \in T
  <2> DEFINE g == [i \in 0..0 |-> p]
  <2>1. IsTurn(L, g, p, 0)
    BY DEF IsTurn
  <2> QED BY <2>1
<1>2. ASSUME NEW m \in Nat, m \in T PROVE m + 1 \in T
  <2>1. PICK f : IsTurn(L, f, p, m)
    BY <1>2
  <2> DEFINE read(h, i) == IF i = 0 THEN p
                           ELSE IF Order[i] \in DOMAIN L THEN Activation!UpdateScreen(h[i - 1], Order[i], L)
                           ELSE h[i - 1]
             g == [i \in 0..m + 1 |-> read(f, i)]
  <2>2. \A i \in 0..m : f[i] = read(f, i)
    BY <2>1 DEF IsTurn
  <2> HIDE DEF read
  <2>3. \A i \in 0..m : g[i] = f[i]
    BY <2>2
  <2>4. ASSUME NEW i \in 0..m + 1 PROVE g[i] = read(g, i)
    <3>1. i # 0 => i - 1 \in 0..m
      BY <2>4
    <3>2. i # 0 => g[i - 1] = f[i - 1]
      BY <2>3, <3>1
    <3>3. g[i] = read(f, i)
      BY <2>4
    <3> HIDE DEF g
    <3>4. read(g, i) = read(f, i)
      BY <3>2 DEF read
    <3> QED BY <3>3, <3>4
  <2>5. g = [i \in 0..m + 1 |-> g[i]]
    OBVIOUS
  <2> HIDE DEF g
  <2>6. g = [i \in 0..m + 1 |-> read(g, i)]
    BY <2>4, <2>5
  <2>7. IsTurn(L, g, p, m + 1)
    BY <2>6 DEF IsTurn, read
  <2> QED BY <2>7
<1> HIDE DEF T
<1>3. Nat \subseteq T
  BY <1>1, <1>2, SetInduction
<1> QED BY <1>3 DEF T

LEMMA ReadsTurns ==
  ASSUME NEW L, NEW p, Len(Order) \in Nat
  PROVE  \E turn : IsTurn(L, turn, p, Len(Order)) /\ Activation!UpdateScreens(p, L) = turn[Len(Order)]
<1> DEFINE g == CHOOSE turn : turn = [i \in 0..Len(Order) |->
                  IF i = 0 THEN p
                  ELSE IF Order[i] \in DOMAIN L THEN Activation!UpdateScreen(turn[i - 1], Order[i], L)
                  ELSE turn[i - 1]]
<1>1. PICK turn : IsTurn(L, turn, p, Len(Order))
  BY TurnsExist
<1>2. IsTurn(L, g, p, Len(Order))
  BY <1>1 DEF IsTurn
<1>3. Activation!UpdateScreens(p, L) = g[Len(Order)]
  BY DEF Activation!UpdateScreens
<1> HIDE DEF g
<1> QED BY <1>2, <1>3

LEMMA ReadAll ==
  ASSUME ChoiceInv, NEW L, Tells(L), NEW p, Reading(L, p, {})
  PROVE  Reading(L, Activation!UpdateScreens(p, L), Scr)
<1>1. /\ Order \in Seq(Scr) /\ Len(Order) \in Nat /\ DOMAIN Order = 1..Len(Order)
      /\ Scr = {Order[i] : i \in 1..Len(Order)}
      /\ \A i, j \in 1..Len(Order) : Order[i] = Order[j] => i = j
  <2>1. Order \in Seq(Scr)
    BY SpacesAssumption DEF Activation!SpacesAssumption, Scr
  <2>2. Len(Order) \in Nat /\ DOMAIN Order = 1..Len(Order)
    BY <2>1
  <2>3. Activation!IsInjective(Order)
    BY SpacesAssumption DEF Activation!SpacesAssumption
  <2> QED BY <2>1, <2>2, <2>3 DEF Scr, Activation!Screens, ToSet, Activation!ToSet, Activation!IsInjective
<1>2. PICK turn : IsTurn(L, turn, p, Len(Order)) /\ Activation!UpdateScreens(p, L) = turn[Len(Order)]
  BY <1>1, ReadsTurns
<1> DEFINE upto(n) == {Order[i] : i \in 1..n}
           T == {n \in Nat : n <= Len(Order) => Reading(L, turn[n], upto(n))}
<1>3. \A i \in 0..Len(Order) : turn[i] = IF i = 0 THEN p
        ELSE IF Order[i] \in DOMAIN L THEN Activation!UpdateScreen(turn[i - 1], Order[i], L) ELSE turn[i - 1]
  BY <1>2 DEF IsTurn
<1>4. 0 \in T
  <2>1. turn[0] = p
    BY <1>1, <1>3
  <2>2. upto(0) = {}
    OBVIOUS
  <2> QED BY <2>1, <2>2
<1>5. ASSUME NEW n \in Nat, n \in T PROVE n + 1 \in T
  <2>1. SUFFICES ASSUME n + 1 <= Len(Order) PROVE Reading(L, turn[n + 1], upto(n + 1))
    OBVIOUS
  <2>2. n + 1 \in 0..Len(Order) /\ n + 1 # 0 /\ (n + 1) - 1 = n /\ n <= Len(Order) /\ n + 1 \in 1..Len(Order)
    BY <1>1, <2>1
  <2>3. Reading(L, turn[n], upto(n))
    BY <1>5, <2>2
  <2>4. turn[n + 1] = IF Order[n + 1] \in DOMAIN L THEN Activation!UpdateScreen(turn[n], Order[n + 1], L)
                      ELSE turn[n]
    BY <1>3, <2>2
  <2>5. /\ upto(n + 1) = upto(n) \cup {Order[n + 1]} /\ upto(n) \in SUBSET Scr
        /\ Order[n + 1] \in Scr /\ Order[n + 1] \notin upto(n)
    <3>1. 1..n + 1 = 1..n \cup {n + 1}
      OBVIOUS
    <3>2. 1..n \subseteq 1..Len(Order) /\ n + 1 \notin 1..n
      BY <1>1, <2>2
    <3> QED BY <1>1, <2>2, <3>1, <3>2
  <2> HIDE DEF upto
  <2>6. DOMAIN L = online
    BY DEF Tells
  <2>7. CASE Order[n + 1] \in online
    BY <2>3, <2>4, <2>5, <2>6, <2>7, ReadStep
  <2>8. CASE Order[n + 1] \notin online
    BY <2>3, <2>4, <2>5, <2>6, <2>8, ReadAway
  <2> QED BY <2>7, <2>8
<1> HIDE DEF T
<1>6. Len(Order) \in T
  BY <1>1, <1>4, <1>5, SetInduction
<1>7. Reading(L, turn[Len(Order)], Scr)
  BY <1>1, <1>6 DEF T
<1> QED BY <1>2, <1>7

\* A function on the screens.
OnScreens(f) == f = [s \in Scr |-> f[s]]

\* Single parts of a policy change.
LEMMA PolicyShows ==
  ASSUME NEW p, IsPolicy(p), NEW v, NEW q, q = [p EXCEPT !.displays = v]
  PROVE  /\ IsPolicy(q) /\ q.displays = v /\ q.lastSpace = p.lastSpace /\ q.lastDisplay = p.lastDisplay
         /\ q.disabled = p.disabled
BY DEF IsPolicy

LEMMA PolicyEnables ==
  ASSUME NEW p, IsPolicy(p), NEW v, NEW q, q = [p EXCEPT !.enabled = v]
  PROVE  /\ IsPolicy(q) /\ q.enabled = v /\ q.lastSpace = p.lastSpace /\ q.lastDisplay = p.lastDisplay
         /\ q.disabled = p.disabled /\ q.displays = p.displays
BY DEF IsPolicy

LEMMA PolicyKept ==
  ASSUME NEW p, IsPolicy(p), NEW spaces \in [Scr -> Nat \cup {None}], NEW displays,
         OnScreens(displays),
         NEW q, q = [enabled |-> p.enabled, disabled |-> p.disabled, displays |-> p.displays, known |-> p.known,
                     starting |-> p.starting, lastSpace |-> spaces, lastDisplay |-> displays, login |-> p.login]
  PROVE  /\ IsPolicy(q) /\ q.login = p.login /\ q.known = p.known /\ q.disabled = p.disabled
         /\ q.displays = p.displays /\ q.lastSpace = spaces /\ q.lastDisplay = displays
<1>1. /\ q.enabled = p.enabled /\ q.login = p.login /\ q.known = p.known /\ q.disabled = p.disabled
      /\ q.displays = p.displays /\ q.lastSpace = spaces /\ q.lastDisplay = displays /\ q.starting = p.starting
  OBVIOUS
<1>2. q = [enabled |-> q.enabled, disabled |-> q.disabled, displays |-> q.displays, known |-> q.known,
           starting |-> q.starting, lastSpace |-> q.lastSpace, lastDisplay |-> q.lastDisplay, login |-> q.login]
  BY <1>1
<1> QED BY <1>1, <1>2 DEF IsPolicy, OnScreens

\* What a snapshot makes of the policy.
LEMMA UpdatedFields ==
  ASSUME ChoiceInv, NEW L, Tells(L)
  PROVE  \E p : LET q == Activation!OnSpacesUpdated(L) IN
           /\ Reading(L, p, Scr) /\ IsPolicy(q)
           /\ q.lastSpace = p.lastSpace /\ q.lastDisplay = p.lastDisplay /\ q.disabled = p.disabled
           /\ q.displays = p.displays \cap {p.lastDisplay[s] : s \in online}
           /\ Default => \A s \in online :
                L[s].space # None /\ p.lastDisplay[s] \in q.displays => L[s].space \in q.enabled
<1> DEFINE keptIds == [s \in Scr |-> IF s \in DOMAIN L THEN policy.lastSpace[s] ELSE None]
           keptUuids == [s \in Scr |-> IF s \in DOMAIN L THEN policy.lastDisplay[s] ELSE None]
           p0 == [policy EXCEPT !.lastSpace = keptIds, !.lastDisplay = keptUuids]
           p1 == Activation!UpdateScreens(p0, L)
           here == {p1.lastDisplay[s] : s \in DOMAIN L}
           p2 == [p1 EXCEPT !.displays = @ \cap here]
           marked == {L[s].space : s \in {s \in DOMAIN L : L[s].space # None /\ p2.lastDisplay[s] \in p2.displays}}
           p3 == [p2 EXCEPT !.enabled = IF cfg.default_disable THEN @ \cup marked ELSE @]
           p4 == [p3 EXCEPT !.starting = IF @ # None /\ @ \in {L[s].space : s \in DOMAIN L} THEN @
                                         ELSE Activation!First(L)]
<1>1. Activation!OnSpacesUpdated(L) = p4
  BY DEF Activation!OnSpacesUpdated, Scr
<1>2. DOMAIN L = online /\ online \subseteq Scr /\ on \subseteq online
  BY IdIs DEF ChoiceInv, SpacesTyped, Tells
<1>3. /\ IsPolicy(p0) /\ p0.login = policy.login /\ p0.known = policy.known /\ p0.disabled = policy.disabled
      /\ p0.displays = policy.displays
      /\ \A s \in Scr : p0.lastSpace[s] = IF s \in online THEN policy.lastSpace[s] ELSE None
      /\ \A s \in Scr : p0.lastDisplay[s] = IF s \in online THEN policy.lastDisplay[s] ELSE None
  <2>1. IsPolicy(policy)
    BY DEF ChoiceInv, SpacesTyped
  <2>2. \A s \in Scr : policy.lastSpace[s] \in Nat \cup {None}
    BY <2>1 DEF IsPolicy
  <2>3. /\ keptIds \in [Scr -> Nat \cup {None}] /\ OnScreens(keptUuids)
        /\ \A s \in Scr : keptIds[s] = IF s \in online THEN policy.lastSpace[s] ELSE None
        /\ \A s \in Scr : keptUuids[s] = IF s \in online THEN policy.lastDisplay[s] ELSE None
    BY <1>2, <2>2 DEF OnScreens
  <2> HIDE DEF keptIds, keptUuids
  <2>4. /\ IsPolicy(p0) /\ p0.login = policy.login /\ p0.known = policy.known /\ p0.disabled = policy.disabled
        /\ p0.displays = policy.displays /\ p0.lastSpace = keptIds /\ p0.lastDisplay = keptUuids
    <3>1. p0 = [enabled |-> policy.enabled, disabled |-> policy.disabled, displays |-> policy.displays,
                known |-> policy.known, starting |-> policy.starting, lastSpace |-> keptIds,
                lastDisplay |-> keptUuids, login |-> policy.login]
      <4>1. policy = [enabled |-> policy.enabled, disabled |-> policy.disabled, displays |-> policy.displays,
                      known |-> policy.known, starting |-> policy.starting, lastSpace |-> policy.lastSpace,
                      lastDisplay |-> policy.lastDisplay, login |-> policy.login]
        BY <2>1 DEF IsPolicy
      <4> DEFINE q == [policy EXCEPT !.lastSpace = keptIds]
      <4>2. q = [enabled |-> policy.enabled, disabled |-> policy.disabled, displays |-> policy.displays,
                 known |-> policy.known, starting |-> policy.starting, lastSpace |-> keptIds,
                 lastDisplay |-> policy.lastDisplay, login |-> policy.login]
        BY <4>1
      <4>3. p0 = [q EXCEPT !.lastDisplay = keptUuids]
        OBVIOUS
      <4> HIDE DEF q, p0
      <4>4. q.enabled = policy.enabled /\ q.disabled = policy.disabled /\ q.displays = policy.displays
            /\ q.known = policy.known /\ q.starting = policy.starting /\ q.lastSpace = keptIds /\ q.login = policy.login
        BY <4>2
      <4>5. [q EXCEPT !.lastDisplay = keptUuids] =
              [enabled |-> q.enabled, disabled |-> q.disabled, displays |-> q.displays, known |-> q.known,
               starting |-> q.starting, lastSpace |-> q.lastSpace, lastDisplay |-> keptUuids, login |-> q.login]
        BY <4>2
      <4> QED BY <4>3, <4>4, <4>5
    <3>2. keptIds \in [Scr -> Nat \cup {None}] /\ OnScreens(keptUuids)
      BY <2>3
    <3> HIDE DEF p0
    <3> QED BY <2>1, <3>1, <3>2, PolicyKept
  <2> HIDE DEF p0
  <2> QED BY <2>3, <2>4
<1> HIDE DEF p0
<1>4. Reading(L, p0, {})
  <2>1. ReadLast(L, p0, {}) /\ ReadKnown(p0, {})
    BY <1>3 DEF ReadLast, ReadKnown
  <2>2. ReadSeen(p0, {})
    BY <1>3 DEF ReadSeen, ChoiceInv, DisabledSeen
  <2>3. ReadOff(p0, {})
    BY <1>3 DEF ReadOff, NowKnown, Quiet, ChoiceInv, OffDisabled
  <2>4. ReadOn(p0)
    BY <1>2, <1>3 DEF ReadOn, ChoiceInv, OnEnabled
  <2> QED BY <2>1, <2>2, <2>3, <2>4 DEF Reading
<1>5. Reading(L, p1, Scr)
  BY <1>4, ReadAll
<1>6. IsPolicy(p1)
  BY <1>5 DEF Reading, ReadLast
<1> HIDE DEF p1
<1>7. /\ IsPolicy(p2) /\ p2.lastSpace = p1.lastSpace /\ p2.lastDisplay = p1.lastDisplay /\ p2.disabled = p1.disabled
      /\ p2.displays = p1.displays \cap {p1.lastDisplay[s] : s \in online}
  <2>1. here = {p1.lastDisplay[s] : s \in online}
    BY <1>2
  <2> HIDE DEF here
  <2> DEFINE both == p1.displays \cap here
  <2>2. p2 = [p1 EXCEPT !.displays = both]
    OBVIOUS
  <2> HIDE DEF p2, both
  <2>3. /\ IsPolicy(p2) /\ p2.displays = both /\ p2.lastSpace = p1.lastSpace /\ p2.lastDisplay = p1.lastDisplay
        /\ p2.disabled = p1.disabled
    BY <1>6, <2>2, PolicyShows
  <2> QED BY <2>1, <2>3 DEF both
<1>8. \A s \in online : L[s].space # None /\ p1.lastDisplay[s] \in p2.displays => L[s].space \in marked
  BY <1>2, <1>7
<1> HIDE DEF p2, marked
<1>9. /\ IsPolicy(p3) /\ p3.lastSpace = p2.lastSpace /\ p3.lastDisplay = p2.lastDisplay /\ p3.disabled = p2.disabled
      /\ p3.displays = p2.displays /\ (cfg.default_disable => marked \subseteq p3.enabled)
  <2>1. IsPolicy(p2)
    BY <1>7
  <2> DEFINE grown == IF cfg.default_disable THEN p2.enabled \cup marked ELSE p2.enabled
  <2>2. p3 = [p2 EXCEPT !.enabled = grown]
    OBVIOUS
  <2> HIDE DEF p3, grown
  <2>3. /\ IsPolicy(p3) /\ p3.enabled = grown /\ p3.lastSpace = p2.lastSpace /\ p3.lastDisplay = p2.lastDisplay
        /\ p3.disabled = p2.disabled /\ p3.displays = p2.displays
    BY <2>1, <2>2, PolicyEnables
  <2> QED BY <2>3 DEF grown
<1> HIDE DEF p3
<1>10. /\ IsPolicy(p4) /\ p4.lastSpace = p3.lastSpace /\ p4.lastDisplay = p3.lastDisplay /\ p4.disabled = p3.disabled
       /\ p4.displays = p3.displays /\ p4.enabled = p3.enabled
  BY <1>9 DEF IsPolicy
<1> HIDE DEF p4
<1> QED BY <1>1, <1>5, <1>7, <1>8, <1>9, <1>10 DEF Default

\* A change of space to no space at all does not ask the policy.
LEMMA BlindStep ==
  ASSUME ChoiceInv, Activation!SpaceChanged, ~Activation!AnySpace
  PROVE  ChoiceInv'
<1>1. /\ UNCHANGED <<online, shown, uuid, number, changes, cfg, policy, was, off, on, odd>>
      /\ screens' = Activation!Spaced /\ DOMAIN screens = online
      /\ active' = Activation!ActiveOn(policy', screens')
  BY DEF Activation!SpaceChanged, Activation!Still, Activation!Recompute, Activation!wishes
<1>2. DOMAIN screens' = online /\ \A s \in online : screens'[s].space = None /\ screens'[s].display = screens[s].display
  <2>1. \A s \in online : Id(s) = None
    BY IdIs DEF Activation!AnySpace
  <2> QED BY <1>1, <2>1 DEF Activation!Spaced, Id
<1>3. active' = Activation!ActiveOn(policy, screens)'
  BY <1>1 DEF Activation!ActiveOn, Activation!Enabled
<1>4. SpacesTyped'
  BY <1>1, <1>2, <1>3 DEF ChoiceInv, SpacesTyped, Bound
<1>5. SeenSame' /\ OnEnabled'
  BY <1>1, <1>2 DEF ChoiceInv, SeenSame, OnEnabled, Default
<1>6. LastOwned' /\ DisabledSeen' /\ UuidsApart' /\ OffDisabled'
  BY <1>1 DEF ChoiceInv, LastOwned, DisabledSeen, UuidsApart, OffDisabled, KnownAs, Bound, Default
<1> QED BY <1>4, <1>5, <1>6 DEF ChoiceInv

LEMMA SeenStep ==
  ASSUME ChoiceInv, NEW L, Tells(L), Activation!SpacesUpdated(L)
  PROVE  ChoiceInv'
<1>1. /\ UNCHANGED <<online, shown, uuid, number, changes, cfg, off, on>>
      /\ screens' = L /\ policy' = Activation!OnSpacesUpdated(L)
      /\ active' = Activation!ActiveOn(policy', screens')
      /\ was' = [s \in Scr |-> IF s \notin online THEN None ELSE IF shown[s] = None THEN was[s] ELSE shown[s]]
      /\ odd' = (odd \/ \E s \in Scr : Activation!Misread(s))
  BY DEF Activation!SpacesUpdated, Activation!Still, Activation!Recompute, Scr
<1>2. PICK p : /\ Reading(L, p, Scr) /\ IsPolicy(policy')
               /\ policy'.lastSpace = p.lastSpace /\ policy'.lastDisplay = p.lastDisplay
               /\ policy'.disabled = p.disabled
               /\ policy'.displays = p.displays \cap {p.lastDisplay[s] : s \in online}
               /\ Default => \A s \in online :
                    L[s].space # None /\ p.lastDisplay[s] \in policy'.displays => L[s].space \in policy'.enabled
  BY <1>1, UpdatedFields
<1>3. /\ DOMAIN L = online /\ online \subseteq Scr
      /\ \A s \in online : L[s].space = Id(s) /\ L[s].display \in {None, uuid[s], policy.lastDisplay[s]}
      /\ \A s \in Scr : /\ Id(s) \in Nat \cup {None}
                        /\ Id(s) = None <=> shown[s] = None
                        /\ Id(s) # None => /\ shown[s] \in Spaces /\ Home[shown[s]] = s
                                           /\ Id(s) = number[shown[s]] /\ Id(s) \in 1..Bound
  BY IdIs DEF Tells
<1>4. \A s \in Scr : /\ policy'.lastSpace[s] = IF s \notin online THEN None
                                               ELSE IF Id(s) # None THEN Id(s) ELSE policy.lastSpace[s]
                     /\ policy'.lastDisplay[s] = IF s \notin online THEN None
                                                 ELSE IF L[s].display # None THEN L[s].display
                                                 ELSE policy.lastDisplay[s]
                     /\ was'[s] = IF s \notin online THEN None ELSE IF Id(s) # None THEN shown[s] ELSE was[s]
  BY <1>1, <1>2, <1>3 DEF Reading, ReadLast
<1>5. Bound \in Nat /\ Bound' = Bound /\ None \notin Nat /\ None \notin Spaces /\ number \in [Spaces -> 0..Bound]
  BY <1>1, BoundType, NoneApart DEF ChoiceInv, SpacesTyped, Bound
<1> HIDE DEF Id
<1>6. SpacesTyped'
  <2>1. active' = Activation!ActiveOn(policy, screens)'
    BY <1>1 DEF Activation!ActiveOn, Activation!Enabled
  <2>2. was' \in [Scr -> Spaces \cup {None}] /\ \A s \in Scr : was'[s] # None => Home[was'[s]] = s
    <3>1. was \in [Scr -> Spaces \cup {None}] /\ \A s \in Scr : was[s] # None => Home[was[s]] = s
      BY DEF ChoiceInv, SpacesTyped
    <3> QED BY <1>1, <1>3, <1>4, <3>1
  <2>3. DOMAIN screens' \subseteq Scr /\ \A s \in DOMAIN screens' : screens'[s].space \in Nat \cup {None}
    BY <1>1, <1>3
  <2> QED BY <1>1, <1>2, <1>5, <2>1, <2>2, <2>3 DEF ChoiceInv, SpacesTyped
<1>7. SeenSame'
  BY <1>1, <1>3, <1>4 DEF SeenSame
<1>8. LastOwned'
  <2>1. ASSUME NEW s \in Scr
        PROVE  /\ was'[s] = None <=> policy'.lastSpace[s] = None
               /\ policy'.lastSpace[s] # None => policy'.lastSpace[s] \in 1..Bound
               /\ \A x \in Spaces : x # was'[s] => number[x] # policy'.lastSpace[s]
    <3>1. /\ was[s] = None <=> policy.lastSpace[s] = None
          /\ policy.lastSpace[s] # None => policy.lastSpace[s] \in 1..Bound
          /\ \A x \in Spaces : x # was[s] => number[x] # policy.lastSpace[s]
      BY DEF ChoiceInv, LastOwned
    <3>2. CASE s \notin online
      BY <1>4, <1>5, <3>2
    <3>3. CASE s \in online /\ Id(s) = None
      BY <1>4, <3>1, <3>3
    <3>4. CASE s \in online /\ Id(s) # None
      <4>1. \A x, y \in Spaces : number[x] # 0 /\ number[x] = number[y] => x = y
        BY DEF ChoiceInv, SpacesTyped
      <4> QED BY <1>3, <1>4, <1>5, <3>4, <4>1
    <3> QED BY <3>2, <3>3, <3>4
  <2>2. ASSUME NEW s \in Scr, NEW t \in Scr, policy'.lastSpace[s] # None,
               policy'.lastSpace[s] = policy'.lastSpace[t]
        PROVE  s = t
    <3>1. \A r \in Scr : policy.lastSpace[r] # None => was[r] \in Spaces /\ Home[was[r]] = r
      BY DEF ChoiceInv, SpacesTyped, LastOwned
    <3>2. s \in online /\ t \in online
      BY <1>4, <2>2
    <3>3. ASSUME NEW r \in online, Id(r) # None, NEW v \in online, Id(v) = None, policy.lastSpace[v] # None,
                 Id(r) = policy.lastSpace[v]
          PROVE  r = v
      <4>1. shown[r] = was[v]
        BY <1>3, <3>3 DEF ChoiceInv, LastOwned
      <4> QED BY <1>3, <3>1, <3>3, <4>1
    <3>4. CASE Id(s) # None /\ Id(t) # None
      <4>1. shown[s] = shown[t]
        BY <1>3, <1>4, <2>2, <3>2, <3>4, <1>5 DEF ChoiceInv, SpacesTyped
      <4> QED BY <1>3, <3>4, <4>1
    <3>5. CASE Id(s) # None /\ Id(t) = None
      BY <1>4, <2>2, <3>2, <3>3, <3>5
    <3>6. CASE Id(s) = None /\ Id(t) # None
      BY <1>4, <2>2, <3>2, <3>3, <3>6
    <3>7. CASE Id(s) = None /\ Id(t) = None
      BY <1>4, <2>2, <3>2, <3>7 DEF ChoiceInv, LastOwned
    <3> QED BY <3>4, <3>5, <3>6, <3>7
  <2> QED BY <1>1, <1>5, <2>1, <2>2 DEF LastOwned
<1>9. ASSUME NEW x \in Spaces
      PROVE  KnownAs(x)' = IF Home[x] \in online /\ Id(Home[x]) = None THEN KnownAs(x) ELSE number[x]
  <2>1. Home[x] \in Scr /\ x # None
    BY <1>5, NoneApart
  <2> QED BY <1>1, <1>3, <1>4, <2>1 DEF KnownAs
<1>10. DisabledSeen'
  <2>1. \A x \in Spaces : KnownAs(x) # number[x] /\ number[x] \in p.disabled => Id(Home[x]) # None
    <3>1. \A x \in Spaces : number[x] # None
      BY <1>5
    <3> QED BY <1>2, <3>1 DEF Reading, ReadSeen
  <2>2. p.disabled \subseteq 1..Bound /\ (Default => p.disabled = {})
    BY <1>2 DEF Reading, ReadSeen
  <2> QED BY <1>1, <1>2, <1>5, <1>9, <2>1, <2>2 DEF DisabledSeen, Default
<1>11. OffDisabled'
  <2>1. SUFFICES ASSUME ~Default, ~odd', NEW x \in Spaces, number[x] # 0
                 PROVE  KnownAs(x)' \in p.disabled <=> x \in off
    BY <1>1, <1>2 DEF OffDisabled, Default
  <2>2. Quiet
    BY <1>1, <2>1 DEF Quiet
  <2>3. NowKnown(x, Scr) \in p.disabled <=> x \in off
    BY <1>2, <2>1, <2>2 DEF Reading, ReadOff
  <2>4. Home[x] \in Scr /\ x # None
    BY <1>5, NoneApart
  <2>5. CASE Home[x] \in online
    BY <1>9, <2>3, <2>4, <2>5 DEF NowKnown, Open
  <2>6. CASE Home[x] \notin online
    <3>1. NowKnown(x, Scr) = KnownAs(x)
      BY <2>6 DEF NowKnown, Open
    <3>2. was[Home[x]] = x => policy.lastSpace[Home[x]] = number[x]
      <4>1. SUFFICES ASSUME was[Home[x]] = x PROVE policy.lastSpace[Home[x]] = number[x]
        OBVIOUS
      <4>2. /\ policy.lastSpace[Home[x]] # None
            /\ \A y \in Spaces : y # x => number[y] # policy.lastSpace[Home[x]]
        BY <2>4, <4>1 DEF ChoiceInv, LastOwned
      <4>3. ~Activation!Misread(Home[x])
        BY <2>2, <2>4 DEF Quiet
      <4>4. CASE policy.lastSpace[Home[x]] = Id(Home[x])
        BY <1>3, <2>4, <4>2, <4>4
      <4>5. CASE policy.lastSpace[Home[x]] # Id(Home[x])
        BY <2>6, <4>1, <4>2, <4>3, <4>5 DEF Activation!Misread, Id
      <4> QED BY <4>4, <4>5
    <3>3. KnownAs(x) = number[x]
      BY <3>2 DEF KnownAs
    <3> QED BY <1>9, <2>3, <2>6, <3>1, <3>3
  <2> QED BY <2>5, <2>6
<1>12. OnEnabled'
  <2>1. SUFFICES ASSUME Default, NEW s \in on
                 PROVE  /\ p.lastDisplay[s] # None /\ p.lastDisplay[s] \in policy'.displays
                        /\ L[s].space # None => L[s].space \in policy'.enabled
    BY <1>1, <1>2 DEF OnEnabled, Default
  <2>2. s \in online
    BY DEF ChoiceInv, SpacesTyped
  <2>3. p.lastDisplay[s] # None /\ p.lastDisplay[s] \in p.displays
    BY <1>2, <2>1 DEF Reading, ReadOn
  <2> QED BY <1>2, <2>1, <2>2, <2>3
<1>13. UuidsApart'
  <2>1. \A s \in Scr : policy'.lastDisplay[s] \in {None, uuid[s], policy.lastDisplay[s]}
    BY <1>3, <1>4
  <2> QED BY <1>1, <2>1 DEF ChoiceInv, UuidsApart
<1> QED BY <1>6, <1>7, <1>8, <1>10, <1>11, <1>12, <1>13 DEF ChoiceInv

\* A snapshot tells of every screen; a change of space tells what the reactor knew of UUIDs.
LEMMA NoticeSteps ==
  ASSUME ChoiceInv, Activation!ScreenParametersChanged \/ Activation!SpaceChanged
  PROVE  ChoiceInv'
<1>1. CASE Activation!ScreenParametersChanged
  <2>1. Tells(Activation!Snapshot)
    BY DEF Tells, Activation!Snapshot, Id
  <2> QED BY <1>1, <2>1, SeenStep DEF Activation!ScreenParametersChanged
<1>2. CASE Activation!SpaceChanged /\ Activation!AnySpace
  <2>1. Tells(Activation!Spaced)
    <3>1. DOMAIN screens = online
      BY <1>2 DEF Activation!SpaceChanged
    <3>2. \A s \in online : screens[s].display \in {None, policy.lastDisplay[s]}
      BY <3>1 DEF ChoiceInv, SeenSame
    <3> QED BY <3>1, <3>2 DEF Tells, Activation!Spaced, Id
  <2>2. Activation!SpacesUpdated(Activation!Spaced)
    BY <1>2 DEF Activation!SpaceChanged
  <2> QED BY <2>1, <2>2, SeenStep
<1> QED BY <1>1, <1>2, BlindStep

-----------------------------------------------------------------------------
\* There are as many numbers as spaces.
LEMMA SpacesNumbered ==
  \E n \in [Spaces -> 1..Activation!Cardinality(Spaces)] : Activation!IsInjective(n)
<1>1. IsFiniteSet(Spaces) /\ Activation!Cardinality(Spaces) = Cardinality(Spaces)
  BY SpacesAssumption DEF Activation!SpacesAssumption, Activation!IsFiniteSet, IsFiniteSet,
     Activation!Cardinality, Cardinality
<1>2. ExistsBijection(1..Cardinality(Spaces), Spaces)
  BY <1>1, FS_CardinalityType
<1>3. PICK f : f \in Bijection(1..Cardinality(Spaces), Spaces)
  BY <1>2 DEF ExistsBijection
<1>4. \A x \in Spaces : \E i \in 1..Cardinality(Spaces) : f[i] = x
  BY <1>3 DEF Bijection, Surjection
<1> DEFINE n == [x \in Spaces |-> CHOOSE i \in 1..Cardinality(Spaces) : f[i] = x]
<1>5. n \in [Spaces -> 1..Cardinality(Spaces)] /\ \A x \in Spaces : f[n[x]] = x
  BY <1>4
<1>6. DOMAIN n = Spaces
  OBVIOUS
<1> HIDE DEF n
<1>7. Activation!IsInjective(n)
  BY <1>5, <1>6 DEF Activation!IsInjective
<1> QED BY <1>1, <1>5, <1>7

\* The invariant holds at first, is kept, and says that the choices stand.
LEMMA ChoiceInit == Activation!Init => ChoiceInv
<1> SUFFICES ASSUME Activation!Init PROVE ChoiceInv
  OBVIOUS
<1>1. /\ online = Scr /\ shown \in [Scr -> Spaces] /\ \A s \in Scr : Home[shown[s]] = s
      /\ uuid = [s \in Scr |-> Uuids[s]] /\ changes = 0
      /\ screens = <<>> /\ active = {} /\ off = {} /\ on = {} /\ was = [s \in Scr |-> None]
      /\ number = CHOOSE n \in [Spaces -> 1..Activation!Cardinality(Spaces)] : Activation!IsInjective(n)
      /\ policy = [enabled |-> {}, disabled |-> {}, displays |-> {}, known |-> {}, starting |-> None,
                   lastSpace |-> [s \in Scr |-> None], lastDisplay |-> [s \in Scr |-> None], login |-> FALSE]
  BY DEF Activation!Init, Scr
<1>2. number \in [Spaces -> 1..Activation!Cardinality(Spaces)] /\ Activation!IsInjective(number)
  BY <1>1, SpacesNumbered
<1>3. /\ Activation!Cardinality(Spaces) \in Nat /\ Bound = Activation!Cardinality(Spaces)
      /\ number \in [Spaces -> 1..Bound]
      /\ \A x, y \in Spaces : number[x] = number[y] => x = y
  <2>1. IsFiniteSet(Spaces) /\ Activation!Cardinality(Spaces) = Cardinality(Spaces)
    BY SpacesAssumption DEF Activation!SpacesAssumption, Activation!IsFiniteSet, IsFiniteSet,
       Activation!Cardinality, Cardinality
  <2>2. Activation!Cardinality(Spaces) \in Nat
    BY <2>1, FS_CardinalityType
  <2>3. Bound = Activation!Cardinality(Spaces)
    BY <1>1, <2>2 DEF Bound
  <2>4. DOMAIN number = Spaces
    BY <1>2
  <2> QED BY <1>2, <2>2, <2>3, <2>4 DEF Activation!IsInjective
<1>4. /\ policy.disabled = {} /\ policy.displays = {}
      /\ \A s \in Scr : policy.lastSpace[s] = None /\ policy.lastDisplay[s] = None /\ was[s] = None
      /\ IsPolicy(policy)
  BY <1>1 DEF IsPolicy
<1>5. DOMAIN screens = {}
  BY <1>1
<1>6. SpacesTyped
  <2>1. active = Activation!ActiveOn(policy, screens)
    BY <1>1, <1>5 DEF Activation!ActiveOn
  <2>2. uuid = [s \in Scr |-> uuid[s]]
    BY <1>1
  <2>3. number \in [Spaces -> 0..Bound] /\ \A x \in Spaces : number[x] # 0
    BY <1>3
  <2>4. shown \in [Scr -> Spaces \cup {None}] /\ \A s \in Scr : shown[s] \in Spaces
    BY <1>1
  <2>5. was \in [Scr -> Spaces \cup {None}]
    BY <1>1
  <2>6. online \subseteq Scr /\ on \subseteq online /\ changes \in Nat
    BY <1>1
  <2> HIDE DEF Scr
  <2> QED BY <1>1, <1>3, <1>4, <1>5, <2>1, <2>2, <2>3, <2>4, <2>5, <2>6 DEF SpacesTyped
<1>7. LastOwned /\ DisabledSeen /\ OffDisabled
  <2>1. \A x \in Spaces : number[x] # None /\ x # None /\ Home[x] \in Scr
    BY <1>3, NoneApart
  <2> QED BY <1>1, <1>4, <2>1 DEF LastOwned, DisabledSeen, OffDisabled, KnownAs
<1>8. SeenSame /\ OnEnabled
  BY <1>1, <1>5 DEF SeenSame, OnEnabled
<1>9. UuidsApart
  <2>1. \A s \in Scr : Uuids[s] # None /\ \A t \in Scr : Uuids[s] = Uuids[t] => s = t
    BY SpacesAssumption DEF Activation!SpacesAssumption, Scr
  <2> QED BY <1>1, <1>4, <2>1 DEF UuidsApart
<1> QED BY <1>6, <1>7, <1>8, <1>9 DEF ChoiceInv

LEMMA ChoiceNext == ChoiceInv /\ [MCNext]_<<part, tapVars, swipeVars, spaceVars>> => ChoiceInv'
<1> SUFFICES ASSUME ChoiceInv, Activation!Next \/ UNCHANGED spaceVars PROVE ChoiceInv'
  BY DEF MCNext
<1>1. CASE UNCHANGED spaceVars
  BY <1>1 DEF spaceVars, ChoiceInv, SpacesTyped, SeenSame, LastOwned, DisabledSeen, OffDisabled, OnEnabled,
     UuidsApart, KnownAs, Default, Bound, Activation!ActiveOn, Activation!Enabled
<1>2. CASE Activation!Next
  BY <1>2, UnplugStep, PlugStep, ToggleStep, ShowStep, RenameStep, RenumberStep, CloseStep, ToldSteps,
     NoticeSteps DEF Activation!Next, Scr
<1> QED BY <1>1, <1>2

LEMMA ChoiceStands == ChoiceInv => ChoicesStand
<1> SUFFICES ASSUME ChoiceInv, Activation!Seen, NEW s \in Scr, Activation!Open(s)
             PROVE  /\ ~cfg.default_disable /\ ~odd => (Id(s) \in active <=> shown[s] \notin off)
                    /\ cfg.default_disable /\ s \in on => Id(s) \in active
  BY DEF ChoicesStand, Activation!ChoicesStand, Scr, Id
<1>1. /\ s \in online /\ Id(s) # None /\ shown[s] \in Spaces /\ Id(s) = number[shown[s]] /\ number[shown[s]] # 0
      /\ Home[shown[s]] = s /\ DOMAIN screens = online /\ screens[s].space = Id(s) /\ online \subseteq Scr
      /\ ~policy.login /\ ~cfg.one_space
  BY IdIs DEF Activation!Open, Activation!Seen, Activation!Snapshot, Id, ChoiceInv, SpacesTyped
<1>2. policy.lastSpace[s] = Id(s)
  BY <1>1 DEF ChoiceInv, SeenSame
<1>3. was[s] = shown[s]
  BY <1>1, <1>2 DEF ChoiceInv, LastOwned
<1>4. KnownAs(shown[s]) = Id(s)
  BY <1>1, <1>2 DEF KnownAs
<1>5. Id(s) \in active <=> \E t \in online : /\ screens[t].space = Id(s) /\ screens[t].space # None
                                             /\ Activation!Enabled(policy, screens[t].space, screens[t].display)
  BY <1>1 DEF ChoiceInv, SpacesTyped, Activation!ActiveOn
<1>6. ASSUME ~cfg.default_disable, ~odd PROVE Id(s) \in active <=> shown[s] \notin off
  <2>1. Id(s) \in policy.disabled <=> shown[s] \in off
    BY <1>1, <1>4, <1>6 DEF ChoiceInv, OffDisabled, Default
  <2>2. \A d : Activation!Enabled(policy, Id(s), d) <=> Id(s) \notin policy.disabled
    BY <1>1, <1>6 DEF Activation!Enabled
  <2> QED BY <1>1, <1>5, <2>1, <2>2
<1>7. ASSUME cfg.default_disable, s \in on PROVE Id(s) \in active
  <2>1. Id(s) \in policy.enabled
    BY <1>1, <1>7 DEF ChoiceInv, OnEnabled, Default
  <2>2. Id(s) \notin policy.disabled
    BY <1>7 DEF ChoiceInv, DisabledSeen, Default
  <2> QED BY <1>1, <1>5, <1>7, <2>1, <2>2 DEF Activation!Enabled
<1> QED BY <1>6, <1>7

\* Whatever screens, UUIDs and spaces come and go, and whatever the system calls a space now,
\* a space on a screen is active as the user last chose, unless an id was taken for that of
\* another space (odd): for any number of spaces and screens.
THEOREM ChoicesRight == MCSpec => []ChoicesStand
<1>1. MCInit => ChoiceInv
  BY ChoiceInit DEF MCInit
<1> QED BY <1>1, ChoiceNext, ChoiceStands, PTL DEF MCSpec
=============================================================================
