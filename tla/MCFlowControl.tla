--------------------------- MODULE MCFlowControl ---------------------------
(* FlowControl on two streams with windows that run out.                    *)
EXTENDS FlowControl, TLC

MCSettingsDeltas == {-2, 1}
MCSymmetry == Permutations(Streams)
=============================================================================
