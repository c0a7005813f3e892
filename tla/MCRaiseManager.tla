-------------------------- MODULE MCRaiseManager ---------------------------
(* Small instances of RaiseManager for TLC. *)
EXTENDS RaiseManager

Response(batches, focus) == [batches |-> batches, focus |-> focus]
a1 == <<1, 1>>
a2 == <<1, 2>>
b1 == <<2, 1>>

\* Two applications, one with two windows, the first of which gets the focus; or nothing.
MCThreeWindows == {a1, a2, b1}
MCAnyResponse == {Response(<< <<b1>>, <<a1, a2>> >>, a1), Response(<<>>, None)}

MCTargets == {a1, b1}
MCMortal == {2}
=============================================================================
