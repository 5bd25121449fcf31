------------------------- MODULE MCAssistantVersions -------------------------
(* AssistantVersions with three requests on one assistant.                 *)
EXTENDS AssistantVersions, TLC

CONSTANTS q1, q2, q3, f1, f2

Symmetry == Permutations(Requests) \union Permutations(Fields)
=============================================================================
