-------------------------- MODULE MCSurroundings ---------------------------
(***************************************************************************)
(* The core's focus and drag (CoreState), and what is around the core: the  *)
(* lines that mark stacked windows (StackLine) and the menu bar item        *)
(* (MenuBar), which show it, the file that outlives it (Persistence) and    *)
(* the run loop on which it is driven (RunLoop).  A behaviour is one of the *)
(* five.                                                                    *)
(***************************************************************************)
EXTENDS MCCoreState

CONSTANTS Order, Sights, Sizes, MaxNews, MaxClicks,
          Styles, Wide, Narrow, Padding, Margin, Rooms, MaxUpdates, MaxEdits, MaxRooms,
          Numbers, MaxId, MaxLives, MaxSavedChanges,
          Senders, Messages, Timeout, Early, MaxTime
VARIABLES
  part,
  pictures, setting, due, letters, on, size, indicators, sigs, rects, owed, aged,
  happenings, clicks, collided, lost,
  sent, config, rx, pending, arms, armed, ticks, settings, lastUpdate, lastSignature, icon, drawn,
  compact, prevWidth, dirty, lastFrame, frame, room, updates, edits, rooms, turns,
  layoutFile, temporary, process, saved, nextId, encoded, lives, savedChanges, foreign, committed,
  now, sender, inbox, leftWaker, signalled, woken, status, timerWaker, fireAt, loop, active, early

\* Two displays, of which one shows up to two stacks, the order of their windows or the
\* selected one changed, or a window in fullscreen, and the other a stack with an id of
\* its own or with one that the first display has, too.
Stack(i, place, members, n) == [id |-> i, place |-> place, windows |-> members, selected |-> n]
Picture(groups, full) == [groups |-> groups, full |-> full]
MCPictures ==
  [left |->
     {Picture({}, FALSE), Picture({Stack(1, "l1", <<"a", "b">>, 1)}, FALSE),
      Picture({Stack(1, "l1", <<"a", "b">>, 2)}, TRUE),
      Picture({Stack(1, "l1", <<"b", "a">>, 1), Stack(2, "l2", <<"c", "d">>, 1)}, FALSE)},
   right |->
     {Picture({}, FALSE), Picture({Stack(3, "r1", <<"e", "f">>, 1)}, FALSE),
      Picture({Stack(1, "r1", <<"e", "f">>, 1)}, FALSE)}]

MCOrder == <<"left", "right">>

\* Three displays, the order of the last two or the active one of which changes, and of
\* which the first has two windows, that change their places in the order, or one, that
\* is moved.
Window(pid, n, f) == [pid |-> pid, idx |-> n, frame |-> f]
Update(order, context, windows) ==
  [order |-> order, active |-> context,
   windows |-> [d \in {"d", "e", "f"} |-> IF d = "d" THEN windows ELSE <<>>]]
MCUpdates ==
  LET two == <<Window("p", 1, "l"), Window("q", 1, "r")>>
  IN {Update(<<"d", "e", "f">>, "d", two), Update(<<"d", "f", "e">>, "d", two),
      Update(<<"d", "e", "f">>, "e", two),
      Update(<<"d", "e", "f">>, "d", <<Window("q", 1, "r"), Window("p", 1, "l")>>),
      Update(<<"d", "e", "f">>, "d", <<Window("p", 1, "l")>>),
      Update(<<"d", "e", "f">>, "d", <<Window("p", 1, "r")>>)}

\* Files of both schemas and of one that is not known, with numbers that are the same once
\* they are migrated, or that there are not.
Numbered(i, n) == [id |-> i, number |-> n]
MCFound ==
  {[kind |-> "missing"], [kind |-> "torn"]}
  \union {[kind |-> "whole", schema |-> f[1], workspaces |-> f[2]] :
            f \in {<<1, {Numbered(1, 10), Numbered(2, 1)}>>, <<1, {Numbered(1, 10), Numbered(2, 0)}>>,
                   <<2, {Numbered(1, 1), Numbered(2, 0)}>>, <<2, {Numbered(1, 10)}>>,
                   <<3, {Numbered(1, 1)}>>}}

Lines == INSTANCE StackLine
  WITH shown <- pictures
Bar == INSTANCE MenuBar
  WITH Updates <- MCUpdates
Saving == INSTANCE Persistence
  WITH Found <- MCFound, MaxChanges <- MaxSavedChanges, catalog <- saved, changes <- savedChanges
Loop == INSTANCE RunLoop

ASSUME PartsAssumption ==
  /\ Lines!LinesAssumption /\ Bar!MenuBarAssumption
  /\ Saving!PersistenceAssumption /\ Loop!RunLoopAssumption

lineVars == <<pictures, setting, due, letters, on, size, indicators, sigs, rects, owed, aged,
              happenings, clicks, collided, lost>>
barVars == <<sent, config, rx, pending, arms, armed, ticks, settings, lastUpdate, lastSignature,
             icon, drawn, compact, prevWidth, dirty, lastFrame, frame, room, updates, edits,
             rooms, turns>>
saveVars == <<layoutFile, temporary, process, saved, nextId, encoded, lives, savedChanges, foreign,
              committed>>
loopVars == <<now, sender, inbox, leftWaker, signalled, woken, status, timerWaker, fireAt, loop,
              active, early>>

\* A part that rests has one initial state.
MCInit ==
  /\ part \in {"core", "lines", "bar", "save", "loop"}
  /\ Init /\ Lines!Init /\ Bar!Init /\ Saving!Init /\ Loop!Init
  /\ part # "lines" => setting = [enabled |-> TRUE, size |-> CHOOSE n \in Sizes : TRUE]
  /\ part # "bar" =>
       /\ config = [enabled |-> TRUE, style |-> CHOOSE s \in Styles : TRUE]
       /\ room = CHOOSE r \in Rooms : TRUE
  /\ part # "save" => layoutFile = [kind |-> "missing"] /\ temporary = [kind |-> "missing"]

MCNext ==
  \/ part = "core" /\ Next /\ UNCHANGED <<part, lineVars, barVars, saveVars, loopVars>>
  \/ part = "lines" /\ Lines!Next /\ UNCHANGED <<part, vars, barVars, saveVars, loopVars>>
  \/ part = "bar" /\ Bar!Next /\ UNCHANGED <<part, vars, lineVars, saveVars, loopVars>>
  \/ part = "save" /\ Saving!Next /\ UNCHANGED <<part, vars, lineVars, barVars, loopVars>>
  \/ part = "loop" /\ Loop!Next /\ UNCHANGED <<part, vars, lineVars, barVars, saveVars>>

MCSpec == MCInit /\ [][MCNext]_<<part, vars, lineVars, barVars, saveVars, loopVars>>

\* What rests is left out.  TLC writes states to the disk once their values are computed,
\* which the comparison makes sure of for those that the view of the core leaves out.
View ==
  CASE part = "core" /\ vars = vars -> <<part, InteractionView>>
    [] part = "lines" -> <<part, lineVars>>
    [] part = "bar" -> <<part, barVars>>
    [] part = "save" -> <<part, saveVars>>
    [] part = "loop" -> <<part, loopVars>>

\* The lines follow the stacks, and a click on one leads to its window.
LinesAreTrue == Lines!LinesAreShown /\ Lines!ClicksArrive

\* The menu bar item follows the reactor, and its form the room it has.
MenuIsCurrent == Bar!MenuIsCurrent /\ Bar!FormIsStable

\* What was saved last is what the next start restores, and what it restores is sound.
LayoutIsRestored == Saving!SavedIsRestored /\ Saving!RestoredIsSound

\* No message and no timeout is slept through, and no sequence is timed out early.
NothingIsSleptThrough == Loop!NothingIsSleptThrough /\ Loop!NoneIsTimedOutEarly

\* What does not hold.
EveryGroupHasItsLine == Lines!EveryGroupHasItsLine
RefusedIsTriedAgain == Lines!RefusedIsTriedAgain
SettingsAreDrawn == Lines!SettingsAreDrawn
DisabledShowsNothing == Lines!DisabledShowsNothing
OrderIsShown == Bar!OrderIsShown
IconsAreShown == Bar!IconsAreShown
=============================================================================
