----------------------------- MODULE InputTap -----------------------------
(***************************************************************************)
(* The input thread (actor/event_tap.rs): a tap that the system calls for  *)
(* every key and mouse event of its mask, the table of hotkeys, the keys   *)
(* it believes to be down, resize mode, the hidden cursor, and the moves   *)
(* that let focus follow the mouse.  The system may disable the tap when   *)
(* it is slow or invalidate its port, and events are lost meanwhile.       *)
(* Callbacks and requests run on one thread, so each is a step.            *)
(***************************************************************************)
EXTENDS Naturals, FiniteSets, SequencesExt

CONSTANTS Families,     \* modifiers that have a left and a right key: alt, ctrl, shift, meta
          Single,       \* modifiers that have one key: Fn
          Keys,         \* other keys that hotkeys name
          Arrow, Escape,\* the keys of resize mode
          Characters,   \* what hotkeys call their keys
          Layouts,      \* keyboard layouts: which key types a character, None where no key does
          Bindings,     \* what the user may bind: sets of [mods, char, command]
          Configs,      \* [ffm, stackLine, hides : BOOLEAN, disable : a hotkey or None]
          ResizeMode,   \* the command that enters resize mode
          MaxRequests,  \* bound: requests, ...
          MaxFaults,    \* bound: ... faults of the tap, ...
          MaxStrokes,   \* bound: ... and changes of the keyboard
          None

Sides     == {"left", "right"}
ModKeys   == Families \X Sides
AllKeys   == ModKeys \cup Single \cup Keys \cup {Arrow, Escape}
Modifiers == [Families -> SUBSET Sides]
Flag(key) == IF key \in ModKeys THEN key[1] ELSE key
IsModifier(key) == key \in ModKeys \cup Single
FlagsOf(down)   == {Flag(key) : key \in {k \in down : IsModifier(k)}}

ASSUME InputAssumption ==
    /\ Families \cap Single = {}
    /\ None \notin AllKeys

VARIABLES
    held,       \* the keys that the user holds down
    layout,     \* the keyboard layout
    button,     \* MOUSE_STATE
    tap,        \* "on", "off" when the system disabled it, or "dead"
    mask,       \* event_mask: which of "keys" and "moves" it has
    generation, \* tap_generation
    recoveries, \* the generations in Recovery::TapInvalidated messages
    notified,   \* the system still has to tell the callback that it disabled the tap
    reenabled,  \* was_reenabled
    specs,      \* hotkey_specs
    hotkeys,    \* the table: [mods, key, command]
    disable,    \* disable_hotkey
    state,      \* State
    out,        \* history: what the last event that arrived was and did; None after a request
    failed,     \* history: whether the last new mask, and the last replacement, was refused
    requests, faults, strokes

world   == <<held, layout, strokes>>
system  == <<tap, mask, generation, recoveries, notified, failed>>
keymaps == <<specs, hotkeys, disable>>
vars    == <<world, button, system, reenabled, keymaps, state, out, requests, faults>>

(* modifiers_from_flags_with_keys: the sides of an active family are told  *)
(* by the keys believed to be down, and left where none is.                *)
ModifiersFrom(flags, pressed) ==
    [f \in Families |->
        LET sides == {s \in Sides : <<f, s>> \in pressed} IN
        IF f \notin flags THEN {} ELSE IF sides = {} THEN {"left"} ELSE sides]

(* Mutant of Expand: no variant with both keys of a modifier held down.    *)
FaultyExpand(mods) ==
    {m \in Modifiers : \A f \in Families : m[f] \subseteq mods[f] /\ m[f] # Sides /\ (m[f] = {} <=> mods[f] = {})}

(* Modifiers::expand_to_specific. *)
Expand(mods) == {m \in Modifiers : \A f \in Families : m[f] \subseteq mods[f] /\ (m[f] = {} <=> mods[f] = {})}

(* rebuild_hotkeys_for_current_layout: a binding whose character no key of *)
(* the layout types is skipped.                                            *)
Table(bound, l) ==
    UNION {{[mods |-> m, key |-> l[b.char], command |-> b.command] : m \in Expand(b.mods)}
              : b \in {b \in bound : l[b.char] # None}}

BaseKeyActive(key, s) == IF IsModifier(key) THEN Flag(key) \in s.flags ELSE key \in s.pressed
DisableActive(target, s) ==
    /\ target # None
    /\ LET now == ModifiersFrom(s.flags, s.pressed) IN
       \A f \in Families : target.mods[f] = {} \/ target.mods[f] \cap now[f] # {}
    /\ BaseKeyActive(target.key, s)

FocusFollows(s) == s.config.ffm /\ s.ffm
DesiredMask(table, target, s) ==
    (IF target # None \/ table # {} THEN {"keys"} ELSE {})
        \cup (IF s.processing /\ (s.config.stackLine \/ FocusFollows(s)) THEN {"moves"} ELSE {})

(* reset: what is forgotten when handlers start or stop. *)
Reset(s, on) == [s EXCEPT !.resize = "no", !.sampled = IF on THEN FALSE ELSE @]

(* refresh_disable_hotkey_state. *)
Refresh(s, target) ==
    LET active == DisableActive(target, s) IN
    IF target = None \/ active = s.active THEN s
    ELSE IF active THEN [s EXCEPT !.active = TRUE] ELSE Reset([s EXCEPT !.active = FALSE], TRUE)

(* reconcile_modifier_keys. *)
Reconcile(s) == [s EXCEPT !.pressed = {k \in @ : IsModifier(k) => Flag(k) \in s.flags}]

NewState(c) ==
    [hidden |-> 0, config |-> c, processing |-> FALSE, ffm |-> TRUE, active |-> FALSE,
     pressed |-> {}, flags |-> {}, sampled |-> FALSE, resize |-> "no"]

Init ==
    /\ held = {} /\ layout \in Layouts /\ button = "up"
    /\ tap = "on" /\ generation = 1 /\ recoveries = {} /\ notified = FALSE /\ failed = {}
    /\ reenabled = FALSE
    /\ specs = {} /\ hotkeys = {}
    /\ \E c \in Configs : state = NewState(c) /\ disable = c.disable
    /\ mask = DesiredMask({}, disable, state)
    /\ out = None /\ requests = 0 /\ faults = 0 /\ strokes = 0

(***************************************************************************)
(* The tap.                                                                *)
(***************************************************************************)
(* create_tap_with_mask may fail; a tap that is replaced says no more. *)
CreateTap(wanted, purpose) ==
    \/ /\ tap' = "on" /\ mask' = wanted /\ generation' = generation + 1
       /\ notified' = FALSE /\ failed' = failed \ {"tap", purpose} /\ reenabled' = FALSE
       /\ faults' = faults
    \/ /\ faults < MaxFaults /\ faults' = faults + 1
       /\ failed' = failed \cup {purpose}
       /\ UNCHANGED <<tap, mask, generation, notified, reenabled>>

RebuildMaskIfNeeded(wanted) ==
    IF wanted # mask THEN CreateTap(wanted, "mask")
    ELSE failed' = failed \ {"mask"} /\ UNCHANGED <<tap, mask, generation, notified, reenabled, faults>>

(* Mutant of Reenable: a tap that cannot be enabled again is given up.     *)
FaultyReenable ==
    /\ notified /\ tap # "dead"
    /\ notified' = FALSE /\ out' = None
    /\ \/ tap' = "on" /\ reenabled' = TRUE
       \/ UNCHANGED <<tap, reenabled>>
    /\ UNCHANGED <<world, button, mask, generation, recoveries, failed, keymaps, state, requests, faults>>

(* The system disables the tap and tells its callback, and the trampoline  *)
(* enables it again, which may not work.                                   *)
Disable ==
    /\ tap = "on" /\ faults < MaxFaults
    /\ tap' = "off" /\ notified' = TRUE /\ faults' = faults + 1 /\ out' = None
    /\ UNCHANGED <<world, button, mask, generation, recoveries, failed, reenabled, keymaps, state, requests>>

Reenable ==
    /\ notified /\ tap # "dead"
    /\ notified' = FALSE /\ out' = None
    /\ \/ tap' = "on" /\ reenabled' = TRUE /\ UNCHANGED recoveries
       \/ recoveries' = recoveries \cup {generation} /\ UNCHANGED <<tap, reenabled>>
    /\ UNCHANGED <<world, button, mask, generation, failed, keymaps, state, requests, faults>>

Invalidate ==
    /\ tap # "dead" /\ faults < MaxFaults
    /\ tap' = "dead" /\ recoveries' = recoveries \cup {generation}
    /\ notified' = FALSE /\ faults' = faults + 1 /\ out' = None
    /\ UNCHANGED <<world, button, mask, generation, failed, reenabled, keymaps, state, requests>>

(* rebuild_invalidated_event_tap; what was believed about the keyboard is  *)
(* forgotten.                                                              *)
Forget(s) == Refresh(Reconcile([s EXCEPT !.pressed = {}, !.flags = {}]), disable)
Recover ==
    \E g \in recoveries :
        /\ recoveries' = recoveries \ {g} /\ out' = None
        /\ IF g # generation THEN UNCHANGED <<tap, mask, generation, notified, failed, reenabled, faults, state>>
           ELSE CreateTap(mask, "tap") /\ state' = IF "tap" \in failed' THEN state ELSE Forget(state)
        /\ UNCHANGED <<world, button, keymaps, requests>>

Watchdog ==
    /\ tap' = IF tap = "off" THEN "on" ELSE tap
    /\ state' = Reconcile(state) /\ out' = None
    /\ UNCHANGED <<world, button, mask, generation, recoveries, notified, failed, reenabled, keymaps, requests, faults>>

(***************************************************************************)
(* Events.                                                                 *)
(***************************************************************************)
KeyEvents == {"down", "up", "flags"}
Arrives(type) == tap = "on" /\ (type \in KeyEvents => "keys" \in mask) /\ (type = "move" => "moves" \in mask)

(* note_key_down, note_key_up and note_flags_changed: the last looks at    *)
(* the flags before the event.                                             *)
Noted(s, type, key) ==
    [s EXCEPT !.pressed =
        CASE type = "down" -> @ \cup {key}
          [] type = "up"   -> @ \ {key}
          [] OTHER         -> IF Flag(key) \in s.flags THEN @ \cup {key} ELSE @ \ {key}]

(* resize_mode_action: what a key does while resize mode lasts. *)
ResizeAction(s, key) ==
    IF s.resize # "on" THEN None
    ELSE IF key = Arrow THEN "resize" ELSE IF key = Escape THEN "exit" ELSE None
AfterResizeKey(s, key) == [s EXCEPT !.resize = IF @ = "on" /\ key = Arrow THEN @ ELSE "no"]

(* The start of on_event: what an event after a gap, or a mouse event,     *)
(* tells about the modifiers.                                              *)
CatchUp(s, type, flags) ==
    LET s1 == IF reenabled
              THEN Refresh(Reconcile([s EXCEPT !.pressed = {}, !.flags = flags]), disable) ELSE s
    IN  IF type \in KeyEvents \/ flags = s1.flags THEN s1
        ELSE Refresh(Reconcile([s1 EXCEPT !.flags = flags]), disable)

Report(type, key, done) == [type |-> type, key |-> key, done |-> done, resizing |-> state.resize = "on"]

(* handle_keyboard_event. *)
KeyEvent(type, key, down) ==
    LET s1   == CatchUp(state, type, FlagsOf(down))
        s2   == Refresh([Noted(s1, type, key) EXCEPT !.flags = FlagsOf(down)], disable)
        act  == ResizeAction(s2, key)
        s3   == AfterResizeKey(s2, key)
        mods == ModifiersFrom(s3.flags, s3.pressed)
        hits == {h.command : h \in {h \in hotkeys : h.mods = mods /\ h.key = key}}
    IN  /\ reenabled' = FALSE /\ UNCHANGED button
        /\ IF type # "down" THEN state' = s2 /\ out' = Report(type, key, {})
           ELSE IF act # None THEN state' = s3 /\ out' = Report(type, key, {act})
           ELSE /\ state' = [s3 EXCEPT !.resize = IF ResizeMode \in hits THEN "on" ELSE @]
                /\ out' = Report(type, key, hits)

Unheard == out' = None /\ UNCHANGED <<button, reenabled, state>>
Stroke(type, key, down) ==
    /\ strokes < MaxStrokes /\ strokes' = strokes + 1
    /\ held' = down
    /\ IF Arrives(type) THEN KeyEvent(type, key, down) ELSE Unheard
    /\ UNCHANGED <<layout, system, keymaps, requests, faults>>

PressKey == \E key \in AllKeys \ held :
    /\ IsModifier(key) \/ held \subseteq ModKeys \cup Single     \* bound: one other key at a time
    /\ Stroke(IF IsModifier(key) THEN "flags" ELSE "down", key, held \cup {key})
ReleaseKey == \E key \in held :
    Stroke(IF IsModifier(key) THEN "flags" ELSE "up", key, held \ {key})

(* on_event for the mouse.  A click on an indicator of a stack is taken.   *)
Shown(s) == [s EXCEPT !.hidden = 0]
MouseEvent(type, onIndicator, far) ==
    LET s1   == CatchUp(state, type, FlagsOf(held))
        s2   == Shown(s1)
        seen == far \/ ~s2.sampled
    IN  /\ reenabled' = FALSE
        /\ button' = CASE type \in {"click", "drag"} -> "down" [] type = "release" -> "up" [] OTHER -> button
        /\ IF type = "click" /\ onIndicator THEN state' = s1 /\ out' = Report(type, None, {"indicator"})
           ELSE IF ~s1.processing THEN state' = s1 /\ out' = Report(type, None, {})
           ELSE IF type # "move" THEN state' = s2 /\ out' = Report(type, None, {type} \ {"drag"})
           ELSE /\ state' = IF seen THEN [s2 EXCEPT !.sampled = TRUE] ELSE s2
                /\ out' = Report(type, None,
                             IF ~seen THEN {"unsampled"}
                             ELSE (IF s2.config.stackLine THEN {"hover"} ELSE {})
                                \cup (IF FocusFollows(s2) /\ ~s2.active THEN {"move"} ELSE {}))

Mouse ==
    \E type \in {"click", "drag", "release", "move"}, onIndicator, far \in BOOLEAN :
        /\ onIndicator => type = "click" /\ state.config.stackLine
        /\ type # "move" => far
        /\ IF Arrives(type) THEN MouseEvent(type, onIndicator, far) ELSE Unheard
        /\ UNCHANGED <<world, system, keymaps, requests, faults>>

(***************************************************************************)
(* Requests, and the deadline of resize mode.                              *)
(***************************************************************************)
Request == requests < MaxRequests /\ requests' = requests + 1 /\ out' = None
Still   == UNCHANGED <<held, strokes, button, recoveries>>
SameTap == UNCHANGED <<tap, mask, generation, notified, failed, reenabled, faults>>
Remask  == RebuildMaskIfNeeded(DesiredMask(hotkeys', disable', state'))

Warp ==
    /\ Request /\ Still /\ SameTap /\ UNCHANGED <<layout, keymaps>>
    /\ state' = [state EXCEPT !.hidden = IF state.config.hides /\ @ = 0 THEN 1 ELSE @]

EnforceHidden ==
    /\ state.hidden = 1     \* bound: the count grows with every call
    /\ Request /\ Still /\ SameTap /\ UNCHANGED <<layout, keymaps>>
    /\ state' = [state EXCEPT !.hidden = @ + 1]

SetEventProcessing(on) ==
    /\ Request /\ Still /\ UNCHANGED <<layout, keymaps>>
    /\ state' = Reset([state EXCEPT !.processing = on], on)
    /\ Remask

SetFocusFollowsMouse(on) ==
    /\ Request /\ Still /\ UNCHANGED <<layout, keymaps>>
    /\ state' = Reset([state EXCEPT !.ffm = on], on)
    /\ Remask

SetHotkeys ==
    /\ Request /\ Still /\ UNCHANGED <<layout, disable, state>>
    /\ \E bound \in Bindings : specs' = bound /\ hotkeys' = Table(bound, layout)
    /\ Remask

(* The layout changes and the notification of it is handled. *)
KeyboardLayoutChanged ==
    /\ Request /\ Still /\ UNCHANGED <<specs, disable, state>>
    /\ layout' \in Layouts \ {layout}
    /\ hotkeys' = Table(specs, layout')
    /\ Remask

EnterResizeMode ==
    /\ Request /\ Still /\ SameTap /\ UNCHANGED <<layout, keymaps>>
    /\ state' = [state EXCEPT !.resize = "on"]

ConfigUpdated ==
    /\ Request /\ Still /\ UNCHANGED <<layout, specs, hotkeys>>
    /\ \E c \in Configs :
        LET s1 == [state EXCEPT !.config = c]
            s2 == [s1 EXCEPT !.active = DisableActive(c.disable, s1)]
            s3 == IF state.active /\ ~s2.active THEN Reset(s2, TRUE) ELSE s2
        IN  /\ disable' = c.disable
            /\ state' = IF state.config.hides /\ ~c.hides THEN Shown(s3) ELSE s3
    /\ Remask

Deadline ==
    /\ state.resize = "on"
    /\ state' = [state EXCEPT !.resize = "late"] /\ out' = None
    /\ Still /\ SameTap /\ UNCHANGED <<layout, keymaps, requests>>

Next ==
    \/ Disable \/ Reenable \/ Invalidate \/ Recover \/ Watchdog
    \/ PressKey \/ ReleaseKey \/ Mouse
    \/ Warp \/ EnforceHidden \/ SetHotkeys \/ KeyboardLayoutChanged \/ EnterResizeMode \/ ConfigUpdated
    \/ \E on \in BOOLEAN : SetEventProcessing(on) \/ SetFocusFollowsMouse(on)
    \/ Deadline

Spec == Init /\ [][Next]_vars

(***************************************************************************)
(* Properties.                                                             *)
(***************************************************************************)
(* What the keys that are really down ask for. *)
HeldSides(f)   == {s \in Sides : <<f, s>> \in held}
Generic(mods)  == \A f \in Families : mods[f] \in {{}, Sides}
HeldMatch(b)   == \A f \in Families : b.mods[f] = {} <=> HeldSides(f) = {}
HeldExactly(b) == \A f \in Families : (b.mods[f] = {} <=> HeldSides(f) = {}) /\ HeldSides(f) \subseteq b.mods[f]
Asked(b)       == layout[b.char] = out'.key

(* A key that arrives outside resize mode triggers every binding for it    *)
(* whose modifiers, named without a side, are the ones held down, and none *)
(* whose modifiers are not: whatever the thread believes to be down, which *)
(* events it lost while the tap was off, and which layout was in use when  *)
(* the bindings came.                                                      *)
HotkeysFire ==
    [][out' # None /\ out'.type = "down" /\ ~out'.resizing =>
        \A b \in specs : Generic(b.mods) =>
            /\ Asked(b) /\ HeldMatch(b) => b.command \in out'.done
            /\ b.command \in out'.done =>
                \E other \in specs : other.command = b.command /\ Asked(other) /\ HeldMatch(other)]_vars

(* A binding that names a side of its modifier fires for that side only.   *)
SidesAreTold ==
    [][out' # None /\ out'.type = "down" /\ ~out'.resizing =>
        \A b \in specs : b.command \in out'.done <=> Asked(b) /\ HeldExactly(b)]_vars

(* While nothing is left to recover, the tap is enabled and delivers just  *)
(* the events that its handlers want, unless the system refused the last   *)
(* one: an invalidation of a tap that was replaced does no harm, and one   *)
(* of the tap in use is never missed.                                      *)
TapListens ==
    recoveries = {} /\ ~notified =>
        /\ "tap" \notin failed => tap = "on"
        /\ "mask" \notin failed => mask = DesiredMask(hotkeys, disable, state)

(* A move of the mouse that is sampled is passed on exactly when focus     *)
(* follows the mouse and the key that suspends this is not held, also when *)
(* its press or release was never delivered; if that key is a modifier,    *)
(* named without a side.  Of another key the thread knows no more than the *)
(* presses and releases that it was told.                                  *)
SuspendedByModifier == disable # None => IsModifier(disable.key) /\ Generic(disable.mods)
DisableHeld ==
    /\ disable # None /\ Flag(disable.key) \in FlagsOf(held)
    /\ \A f \in Families : disable.mods[f] # {} => HeldSides(f) # {}
MovesAreFollowed ==
    [][out' # None /\ out'.type = "move" /\ "unsampled" \notin out'.done /\ SuspendedByModifier =>
        ("move" \in out'.done <=> state.processing /\ FocusFollows(state) /\ ~DisableHeld)]_vars

(* Both: what the tap delivers, it delivers to whom it must.               *)
InputIsHandled == HotkeysFire /\ MovesAreFollowed

(* A hidden cursor is shown again when the mouse moves. *)
CursorReturns == [][Mouse => state'.hidden = 0 \/ state.hidden = 0]_vars
=============================================================================
