--------------------------- MODULE SpaceActivation ---------------------------
(***************************************************************************)
(* Which of the system's spaces Lift manages (model/space_activation.rs,   *)
(* and the reactor's use of it): the user turns single spaces on or off,   *)
(* the login window turns all of them off, and the choice must outlive     *)
(* switches between spaces, displays that come and go or change their      *)
(* UUID, and spaces that the system numbers anew.  Snapshots of the        *)
(* screens and the creation and destruction of spaces are told by          *)
(* different threads and reach the reactor in any order.                   *)
(***************************************************************************)
EXTENDS Naturals, FiniteSets, SequencesExt

CONSTANTS Order,        \* the ScreenIds, in the order in which the system lists them
          Spaces,       \* the spaces as the user knows them
          Home,         \* the screen that a space belongs to
          Uuids,        \* the UUIDs that displays may have, those of the screens first
          Configs,      \* [default_disable, one_space : BOOLEAN]
          MaxChanges,   \* bound: changes of the world, ...
          MaxToggles,   \* bound: ... and of the user's mind
          None

Screens == ToSet(Order)

SpacesAssumption ==
    /\ Order \in Seq(Screens) /\ IsInjective(Order)
    /\ IsFiniteSet(Spaces) /\ Home \in [Spaces -> Screens]
    /\ \A s \in Screens : Uuids[s] # None /\ \A t \in Screens : Uuids[s] = Uuids[t] => s = t
    /\ None \notin Nat \cup Spaces

VARIABLES
    online,     \* the screens that are connected
    shown,      \* the space that a screen shows; None for one that Lift does not count
    uuid,       \* the UUID of a screen's display; None while the system does not tell
    number,     \* the id that a space has now; 0 for one that does not exist
    created, destroyed, \* the ids whose creation or destruction the reactor has not heard of
    changes, toggles,
    cfg,        \* SpaceActivationConfig
    screens,    \* the reactor's screens: an online screen's [space, display]
    policy,     \* SpaceActivationPolicy
    active,     \* active_spaces
    was,        \* history: the space that the last snapshot with one had on a screen
    off,        \* history: the spaces that the user turned off
    on,         \* history: the screens on which the user turned a space on, and none off since
    odd         \* history: an id was replaced in a way that the policy cannot see through

world   == <<online, shown, uuid, number, created, destroyed, changes>>
reactor == <<screens, policy, active>>
wishes  == <<toggles, was, off, on>>
vars    == <<world, cfg, reactor, wishes, odd>>

Ids == {0} \cup 1..(Cardinality(Spaces) + MaxChanges)
IdOf(s) == IF shown[s] = None THEN None ELSE number[shown[s]]
Snapshot == [s \in online |-> [space |-> IdOf(s), display |-> uuid[s]]]

(***************************************************************************)
(* The policy.                                                             *)
(***************************************************************************)
(* compute_active_spaces; nothing ever enters disabled_displays. *)
Enabled(p, space, display) ==
    /\ ~p.login
    /\ cfg.one_space => space = p.starting
    /\ space \notin p.disabled
    /\ \/ space \in p.enabled
       \/ cfg.default_disable /\ display # None /\ display \in p.displays
       \/ ~cfg.default_disable
ActiveOn(p, scr) ==
    {scr[s].space : s \in {s \in DOMAIN scr : scr[s].space # None /\ Enabled(p, scr[s].space, scr[s].display)}}

Renamed(set, old, new) == IF old \in set THEN (set \ {old}) \cup {new} ELSE set

(* Mutant of TransferSpace: every switch of spaces takes the state along.  *)
FaultyTransferSpace(p, old, new) ==
    [p EXCEPT !.enabled  = IF cfg.default_disable THEN Renamed(@, old, new) ELSE @,
              !.disabled = IF cfg.default_disable THEN @ ELSE Renamed(@, old, new)]

(* transfer_space_activation, of a space whose id is known no more.        *)
TransferSpace(p, old, new) ==
    IF old \in p.known \cup {new} THEN p
    ELSE [p EXCEPT !.enabled  = IF cfg.default_disable THEN Renamed(@, old, new) ELSE @,
                   !.disabled = IF cfg.default_disable THEN @ ELSE Renamed(@, old, new),
                   !.starting = IF @ = old THEN new ELSE @]

(* transfer_display_activation.                                            *)
TransferDisplay(p, old, new) ==
    IF cfg.default_disable /\ old # new THEN [p EXCEPT !.displays = Renamed(@, old, new)] ELSE p

(* on_spaces_updated, of one screen, with the id first and then the UUID;  *)
(* no id is on two screens.                                                *)
UpdateScreen(p, s, scr) ==
    LET space == scr[s].space
        display == scr[s].display
        p1 == IF space = None THEN p
              ELSE LET q == IF p.lastSpace[s] = None THEN p ELSE TransferSpace(p, p.lastSpace[s], space)
                   IN  [q EXCEPT !.known = @ \cup {space}, !.lastSpace[s] = space]
        p2 == IF display = None THEN p1
              ELSE LET q == IF p.lastDisplay[s] = None THEN p1 ELSE TransferDisplay(p1, p.lastDisplay[s], display)
                   IN  [q EXCEPT !.lastDisplay[s] = display]
    IN  p2

UpdateScreens(p, scr) ==
    LET turn[i \in 0..Len(Order)] ==
          IF i = 0 THEN p
          ELSE IF Order[i] \in DOMAIN scr THEN UpdateScreen(turn[i - 1], Order[i], scr)
          ELSE turn[i - 1]
    IN  turn[Len(Order)]

Listed(scr) == SelectSeq(Order, LAMBDA s : s \in DOMAIN scr)
First(scr)  == IF scr = <<>> THEN None ELSE scr[Listed(scr)[1]].space

OnSpacesUpdated(scr) ==
    LET p0 == [policy EXCEPT !.lastSpace   = [s \in Screens |-> IF s \in DOMAIN scr THEN @[s] ELSE None],
                             !.lastDisplay = [s \in Screens |-> IF s \in DOMAIN scr THEN @[s] ELSE None]]
        p1 == UpdateScreens(p0, scr)
        p2 == [p1 EXCEPT !.displays = @ \cap {p1.lastDisplay[s] : s \in DOMAIN scr}]
        marked == {scr[s].space : s \in {s \in DOMAIN scr : scr[s].space # None /\ p2.lastDisplay[s] \in p2.displays}}
        p3 == [p2 EXCEPT !.enabled = IF cfg.default_disable THEN @ \cup marked ELSE @]
    IN  [p3 EXCEPT !.starting = IF @ # None /\ @ \in {scr[s].space : s \in DOMAIN scr} THEN @ ELSE First(scr)]

(* toggle_space_activated. *)
Toggled(space, display) ==
    LET displays == IF display = None THEN {} ELSE {display} IN
    IF ~cfg.default_disable THEN [policy EXCEPT !.disabled = IF space \in @ THEN @ \ {space} ELSE @ \cup {space}]
    ELSE IF space \in policy.enabled
    THEN [policy EXCEPT !.enabled = @ \ {space}, !.displays = @ \ displays]
    ELSE [policy EXCEPT !.enabled = @ \cup {space}, !.displays = @ \cup displays]

Init ==
    /\ online = Screens
    /\ shown \in [Screens -> Spaces] /\ \A s \in Screens : Home[shown[s]] = s
    /\ uuid = [s \in Screens |-> Uuids[s]]
    /\ number = CHOOSE n \in [Spaces -> 1..Cardinality(Spaces)] : IsInjective(n)
    /\ created = {} /\ destroyed = {} /\ changes = 0 /\ toggles = 0
    /\ cfg \in Configs
    /\ screens = <<>>
    /\ policy = [enabled |-> {}, disabled |-> {}, displays |-> {}, known |-> {}, starting |-> None,
                 lastSpace |-> [s \in Screens |-> None], lastDisplay |-> [s \in Screens |-> None], login |-> FALSE]
    /\ active = {} /\ off = {} /\ on = {} /\ was = [s \in Screens |-> None] /\ odd = FALSE

(***************************************************************************)
(* The world.                                                              *)
(***************************************************************************)
Change == changes < MaxChanges /\ changes' = changes + 1 /\ UNCHANGED <<cfg, reactor, toggles, was>>
Fresh  == Cardinality(Spaces) + changes + 1

Show(s, space) ==
    /\ Change /\ s \in online /\ space # shown[s]
    /\ space # None => Home[space] = s /\ number[space] # 0
    /\ shown' = [shown EXCEPT ![s] = space]
    /\ UNCHANGED <<online, uuid, number, created, destroyed, off, on, odd>>

(* One screen is left: of a snapshot without any, the policy is not told,  *)
(* and nothing is managed until the next.                                  *)
Unplug(s) ==
    /\ Change /\ s \in online /\ online # {s}
    /\ online' = online \ {s} /\ on' = on \ {s}
    /\ UNCHANGED <<shown, uuid, number, created, destroyed, off, odd>>

Plug(s) ==
    /\ Change /\ s \notin online /\ online' = online \cup {s}
    /\ UNCHANGED <<shown, uuid, number, created, destroyed, off, on, odd>>

(* A UUID goes to another display only after a snapshot without it. *)
Rename(s, u) ==
    /\ Change /\ s \in online /\ u # uuid[s]
    /\ u # None => \A t \in Screens : u \notin {uuid[t], policy.lastDisplay[t]}
    /\ uuid' = [uuid EXCEPT ![s] = u]
    /\ UNCHANGED <<online, shown, number, created, destroyed, off, on, odd>>

(* The system numbers a space anew.  The policy knows it again when the    *)
(* space was on its screen at the last snapshot and will be at the next,   *)
(* and the destruction of the old id is heard in between.                  *)
Renumber(x) ==
    /\ Change /\ number[x] # 0
    /\ number' = [number EXCEPT ![x] = Fresh]
    /\ created' = created \cup {Fresh} /\ destroyed' = destroyed \cup {number[x]}
    /\ odd' = (odd \/ was[Home[x]] # x \/ shown[Home[x]] # x)
    /\ UNCHANGED <<online, shown, uuid, off, on>>

(* The user removes a space that is not shown. *)
Close(x) ==
    /\ Change /\ number[x] # 0 /\ \A s \in Screens : shown[s] # x
    /\ number' = [number EXCEPT ![x] = 0]
    /\ destroyed' = destroyed \cup {number[x]} /\ off' = off \ {x}
    /\ UNCHANGED <<online, shown, uuid, created, on, odd>>

(***************************************************************************)
(* The reactor.                                                            *)
(***************************************************************************)
Still == UNCHANGED <<online, shown, uuid, number, changes, cfg>>
Recompute == active' = ActiveOn(policy', screens')

(* The policy takes a space for another, or for a new one, or forgets the  *)
(* old id with its screen.                                                 *)
Misread(s) ==
    LET last == policy.lastSpace[s] IN
    /\ last # None /\ last # IdOf(s)
    /\ \/ s \notin online /\ number[was[s]] # last
       \/ s \in online /\ shown[s] # None /\ shown[s] = was[s] /\ last \in policy.known
       \/ /\ s \in online /\ shown[s] # None /\ shown[s] # was[s]
          /\ last \notin policy.known \/ number[was[s]] \notin {0, last}

(* What both notices of the screens do to the policy.                      *)
SpacesUpdated(scr) ==
    /\ screens' = scr /\ policy' = OnSpacesUpdated(scr) /\ Still
    /\ was' = [s \in Screens |-> IF s \notin online THEN None
                                ELSE IF shown[s] = None THEN was[s] ELSE shown[s]]
    /\ odd' = (odd \/ \E s \in Screens : Misread(s))
    /\ UNCHANGED <<created, destroyed, toggles, off, on>>
    /\ Recompute

(* handle_screen_parameters_changed: the policy reads the screens even     *)
(* when none of them shows a space.                                        *)
ScreenParametersChanged == SpacesUpdated(Snapshot)

(* handle_space_changed brings the spaces of the screens that the reactor  *)
(* knows, and no UUIDs (screens_for_spaces).  Spaces of other screens are  *)
(* ignored; when there is no space at all, the policy is not asked.  That  *)
(* the same spaces once more are mostly ignored is left out.               *)
Spaced == [s \in DOMAIN screens |-> [space |-> IdOf(s), display |-> screens[s].display]]
AnySpace == \E s \in online : shown[s] # None

SpaceChanged ==
    /\ DOMAIN screens = online
    /\ IF AnySpace THEN SpacesUpdated(Spaced)
       ELSE /\ screens' = Spaced /\ policy' = policy /\ Still
            /\ UNCHANGED <<created, destroyed, wishes, odd>>
            /\ Recompute

SpaceCreated(id) ==
    /\ id \in created /\ created' = created \ {id} /\ Still
    /\ policy' = [policy EXCEPT !.known = @ \cup {id}]
    /\ UNCHANGED <<destroyed, screens, wishes, odd>>
    /\ Recompute

SpaceDestroyed(id) ==
    /\ id \in destroyed /\ destroyed' = destroyed \ {id} /\ Still
    /\ policy' = [policy EXCEPT !.known = @ \ {id}]
    /\ UNCHANGED <<created, screens, wishes, odd>>
    /\ Recompute

LoginWindow(shows) ==
    /\ policy.login # shows /\ Still
    /\ policy' = [policy EXCEPT !.login = shows]
    /\ UNCHANGED <<created, destroyed, screens, wishes, odd>>
    /\ Recompute

(* handle_command_reactor_toggle_space_activated, with the cursor on s. *)
Toggle(s) ==
    /\ toggles < MaxToggles /\ toggles' = toggles + 1 /\ Still
    /\ s \in DOMAIN screens /\ screens[s].space # None
    /\ policy' = Toggled(screens[s].space, screens[s].display)
    /\ off' = IF was[s] \in off THEN off \ {was[s]} ELSE off \cup {was[s]}
    /\ on' = IF screens[s].space \notin policy.enabled /\ screens[s].display # None /\ s \in online
              THEN on \cup {s} ELSE on \ {s}
    /\ UNCHANGED <<created, destroyed, screens, was, odd>>
    /\ Recompute

Next ==
    \/ \E s \in Screens : Unplug(s) \/ Plug(s) \/ Toggle(s)
    \/ \E s \in Screens, x \in Spaces \cup {None} : Show(s, x)
    \/ \E s \in Screens, u \in ToSet(Uuids) \cup {None} : Rename(s, u)
    \/ \E x \in Spaces : Renumber(x) \/ Close(x)
    \/ \E id \in Ids : SpaceCreated(id) \/ SpaceDestroyed(id)
    \/ ScreenParametersChanged \/ SpaceChanged
    \/ \E shows \in BOOLEAN : LoginWindow(shows)

Spec == Init /\ [][Next]_vars
-----------------------------------------------------------------------------
Open(s) == s \in online /\ shown[s] # None
Seen    == screens = Snapshot /\ ~policy.login /\ ~cfg.one_space

(* What the user turned off is not managed, and nothing else, whatever     *)
(* screens and UUIDs came and went, and whatever the system calls the      *)
(* space now: as far as a new id can be told from another space.  Where    *)
(* spaces are off by default, a screen on which one was turned on stays    *)
(* on, for all its spaces, until it is unplugged.                          *)
ChoicesStand ==
    Seen => \A s \in Screens : Open(s) =>
        /\ ~cfg.default_disable /\ ~odd => (IdOf(s) \in active <=> shown[s] \notin off)
        /\ cfg.default_disable /\ s \in on => IdOf(s) \in active

(* What does not hold: with one_space, nothing but the space that was      *)
(* shown when Lift started is managed.                                     *)
OneSpaceOnly == [][cfg.one_space /\ active # {} => active' \subseteq active]_vars
=============================================================================
