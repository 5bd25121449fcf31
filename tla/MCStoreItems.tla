---------------------------- MODULE MCStoreItems ----------------------------
(* StoreItems with three requests on three namespaces that begin alike:    *)
(* ["a","b"], ["a.b"] (for blobs ["a/b"]) and ["ab"], searched under "a"   *)
(* and without a prefix.                                                   *)
EXTENDS StoreItems, TLC

CONSTANTS q1, q2, q3

Symmetry == Permutations(Requests)

Nested == << <<"a">>, <<"b">> >>
Dotted == << <<"a", Separator, "b">> >>
Merged == << <<"a", "b">> >>

AlikeNamespaces == {Nested, Dotted, Merged}
NoneAndParent   == {<<>>, << <<"a">> >>}
FewLetters      == {"a", "b", Separator}
OneTtl          == {1}
=============================================================================
