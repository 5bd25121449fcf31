--------------------------- MODULE MCStreamSession ---------------------------
(* Model-checking instance of StreamSession.                               *)
EXTENDS StreamSession, TLC

(* One kind that a join selects by name, one that it selects by family.    *)
MCWriterKinds == {"values", "messages/partial"}

MCModeSets == {{"messages-tuple"}}

(* -1 (everything), an id in the middle of the stream, and no header.      *)
MCAfterIds == {0, 1}

Symmetry == Permutations(Joiners)
=============================================================================
