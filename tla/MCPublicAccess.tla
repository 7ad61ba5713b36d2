--------------------------- MODULE MCPublicAccess ---------------------------
(* Instances of PublicAccess for TLC: prefixes with and without a slash at *)
(* the end, the root and the empty one, which stands for the root.         *)
EXTENDS PublicAccess

CONSTANTS h1, h2, l1, l2, c1, c2, g1, g2

SomePrefixes == {<<>>, <<"">>, <<"a">>, <<"a", "">>, <<"a", "b">>}

SomePaths == {<<"">>, <<"a">>, <<"a", "">>, <<"a", "b">>, <<"b">>}
=============================================================================
