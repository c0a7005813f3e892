---------------------------- MODULE MCCoreState ----------------------------
(* Small instances of CoreState for TLC. *)
EXTENDS CoreState, FiniteSetsExt

Rule(matched, target, slot, floating, placed) ==
  [managed |-> TRUE, matched |-> matched, target |-> target, slot |-> slot,
   floating |-> floating, placed |-> placed]
Default == Rule(FALSE, "current", None, FALSE, FALSE)
Ignore == [Default EXCEPT !.managed = FALSE, !.matched = TRUE]

\* Every kind of rule: none, ignore, by number, floating with and without a
\* placement, by name.
MCEveryRule ==
  {Default, Ignore, Rule(TRUE, "number", 2, FALSE, FALSE),
   Rule(TRUE, "current", None, TRUE, TRUE), Rule(TRUE, "name", 1, TRUE, FALSE)}
\* Two windows may ask for the same new number or for two.
MCNumberRules ==
  {Rule(TRUE, "number", 2, FALSE, FALSE), Rule(TRUE, "number", 3, FALSE, FALSE)}
MCDefaultRules == {Default}

\* Any displays in any order; the receiver only matters when a display is missing.
MCTopologies ==
  {t \in [displays : SUBSET Displays, queue : [Displays -> 1..Cardinality(Displays)],
          receiver : Opt(Displays)] :
     /\ \A d, e \in t.displays : t.queue[d] = t.queue[e] => d = e
     /\ \A d \in Displays \ t.displays : t.queue[d] = 1
     /\ CASE t.displays = {} -> t.receiver = None
          [] t.displays = Displays -> t.receiver = Max(Displays)
          [] OTHER -> t.receiver \in t.displays}

\* Views.  The catalog never depends on the focus history or on a drag, nor do these
\* on each other, and nothing depends on the remembered frames.  With rules that
\* manage every window, where a window was seen does not matter either.  A run that
\* checks only some of the state explores one state per value of what it checks and
\* of what that depends on.
CatalogView == <<catalog, online, present, seenOn, managed>>
ManagedView == <<catalog, online, managed>>
FramelessView == <<[catalog EXCEPT !.positions = {}], online, managed>>
\* The focus is told apart while nothing is dragged: every focus is reached without a
\* drag, and every drag with any focus.
InteractionView == IF drag = NoDrag THEN <<FramelessView, focus>> ELSE <<FramelessView, drag>>
=============================================================================
