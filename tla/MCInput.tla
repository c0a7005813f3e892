------------------------------ MODULE MCInput ------------------------------
(***************************************************************************)
(* The input thread, the trackpad and the activation of spaces side by     *)
(* side: a behaviour is one of them.                                       *)
(***************************************************************************)
EXTENDS InputTap, TLC

CONSTANTS
  Fingers, Columns, Rows, Distance, Tolerance, Settings, MaxEvents, MaxUpdates, MaxLost,
  Order, Spaces, Home, Uuids, SpaceConfigs, MaxChanges, MaxToggles,
  alt, k1, c1, c2, jump, a1, a2, b1, u1, u2, u3

VARIABLES
  part,
  touch, swipe, swipeTap, sent, owed, origin, events, updates, lost,
  online, shown, uuid, number, created, destroyed, changes, toggles, cfg, screens, policy,
  active, was, off, on, odd

Swipes == INSTANCE Gestures WITH tap <- swipeTap
Activation == INSTANCE SpaceActivation WITH Configs <- SpaceConfigs

ASSUME GesturesAssumption == Swipes!GesturesAssumption
ASSUME SpacesAssumption == Activation!SpacesAssumption

tapVars == <<held, layout, strokes, button, tap, mask, generation, recoveries, notified, failed,
             reenabled, specs, hotkeys, disable, state, out, requests, faults>>
swipeVars == <<touch, swipe, swipeTap, sent, owed, origin, events, updates, lost>>
spaceVars == <<online, shown, uuid, number, created, destroyed, changes, toggles, cfg, screens,
               policy, active, was, off, on, odd>>

\* A part that rests has one initial state.
MCInit ==
  /\ part \in {"tap", "swipes", "spaces"}
  /\ Init /\ Swipes!Init /\ Activation!Init
  /\ part # "tap" => disable = None /\ layout = CHOOSE l \in Layouts : TRUE
  /\ part # "swipes" => swipe = None
  /\ part # "spaces" => cfg.default_disable /\ shown = CHOOSE s \in [ToSet(Order) -> Spaces] : \A i \in ToSet(Order) : Home[s[i]] = i

MCNext ==
  \/ part = "tap" /\ Next /\ UNCHANGED <<part, swipeVars, spaceVars>>
  \/ part = "swipes" /\ Swipes!Next /\ UNCHANGED <<part, tapVars, spaceVars>>
  \/ part = "spaces" /\ Activation!Next /\ UNCHANGED <<part, tapVars, swipeVars>>

MCSpec == MCInit /\ [][MCNext]_<<part, tapVars, swipeVars, spaceVars>>

\* Two layouts, of which each types one of the characters; a hotkey with the modifier on
\* either side and one without; suspending with the left Alt key, another key, or nothing.
No == [f \in Families |-> {}]
Only(s) == [f \in Families |-> s]
MCLayouts == {(c1 :> k1) @@ (c2 :> None), (c1 :> None) @@ (c2 :> k1)}
Binding(m, c, x) == [mods |-> m, char |-> c, command |-> x]
MCBindings == {{Binding(Only(Sides), c1, jump), Binding(No, c2, ResizeMode)}, {}}
Config(f, s, h, d) == [ffm |-> f, stackLine |-> s, hides |-> h, disable |-> d]
MCConfigs == {Config(TRUE, FALSE, TRUE, [mods |-> Only(Sides), key |-> <<alt, "left">>]),
              Config(TRUE, FALSE, FALSE, [mods |-> No, key |-> k1]),
              Config(FALSE, TRUE, FALSE, None)}
MCSided == {{Binding(Only({"right"}), c1, jump)}}
MCSuspended == {Config(TRUE, FALSE, TRUE, [mods |-> Only(Sides), key |-> <<alt, "left">>])}

Setting(e, i, n) == [enabled |-> e, invert |-> i, fingers |-> n]
MCSettings == {Setting(TRUE, FALSE, 2), Setting(TRUE, TRUE, 1), Setting(FALSE, FALSE, 2)}

\* Two screens, the first with two spaces, and a UUID that no display has at first.
MCOrder == <<1, 2>>
MCHome == (a1 :> 1) @@ (a2 :> 1) @@ (b1 :> 2)
MCUuids == <<u1, u2, u3>>
MCSpaceConfigs == [default_disable : BOOLEAN, one_space : {FALSE}]
MCOneSpace == [default_disable : BOOLEAN, one_space : {TRUE}]

\* What rests, and the history that the tap's properties do not read, is left out.
View ==
  CASE part = "tap" -> <<part, world, tap, mask, {g = generation : g \in recoveries}, notified,
                         failed, reenabled, keymaps, state, requests, faults>>
    [] part = "swipes" -> <<part, swipeVars>>
    [] part = "spaces" -> <<part, spaceVars>>

SwipesSwitch == Swipes!SwipesSwitch
StillnessIsRespected ==
  [][sent' # sent /\ sent' # <<>> =>
       \E f \in Swipes!Down(touch) \cap Swipes!Down(touch') : touch'[f].x # touch[f].x]_<<part, swipeVars>>
ChoicesStand == Activation!ChoicesStand
OneSpaceOnly == [][cfg.one_space /\ active # {} => active' \subseteq active]_<<part, spaceVars>>
=============================================================================
