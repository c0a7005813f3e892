----------------------------- MODULE MCDisplays -----------------------------
(***************************************************************************)
(* DisplayChurn and WindowTracking side by side: a behaviour is one of the  *)
(* displays, or one of the windows.                                         *)
(***************************************************************************)
EXTENDS MCDisplayChurn

CONSTANTS Windows, MaxChurns
VARIABLES
  part,
  app, alive, born, ACTIVE, owed, churns, notices, thread, elements, requests,
  window_channel, window_topology, pre_known, known, windows, tracked, info,
  observed, dropped, late

Tracking == INSTANCE WindowTracking
  WITH channel <- window_channel, topology <- window_topology

trackingVars ==
  <<app, alive, born, ACTIVE, owed, churns, notices, thread, elements, requests,
    window_channel, window_topology, pre_known, known, windows, tracked, info,
    observed, dropped, late>>

MCInit == part \in {"displays", "windows"} /\ Init /\ Tracking!Init

MCNext ==
  \/ part = "displays" /\ Next /\ UNCHANGED <<part, trackingVars>>
  \/ part = "windows" /\ Tracking!Next /\ UNCHANGED <<part, vars>>

MCSpec == MCInit /\ [][MCNext]_<<part, vars, trackingVars>>

\* Once nothing is under way the screens show their own spaces and the quarantine is
\* over; with the type invariant of the displays.
ScreensSettle == TypeOK /\ ScreensShowOwnSpaces /\ QuarantineEnds

\* The reactor misses no window, and of those that are gone it keeps only what can be
\* explained; with the type invariant of the windows.
WindowsAreKnown == Tracking!TypeOK /\ Tracking!NothingMissed /\ Tracking!GhostsAreExplained
=============================================================================
