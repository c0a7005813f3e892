--------------------------- MODULE MCDisplayChurn ---------------------------
(* Small instances of DisplayChurn.                                         *)
EXTENDS DisplayChurn, TLC

AnyDisplays == SUBSET Displays
OneAfterAnother == {{}, {2}}

\* The reactor handles a snapshot at once: no other party reads what it changes
\* then, and it reads only its own state.  Begin and End, whose handlers read the
\* atomics, may wait.
SnapshotsAtOnce ==
  (channel # <<>> /\ channel[1].op \in {"Screens", "Spaces"}) => channel' = Tail(channel)
=============================================================================
