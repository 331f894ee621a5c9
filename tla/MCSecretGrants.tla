--------------------------- MODULE MCSecretGrants ---------------------------
(* Small instances of SecretGrants for TLC: two aliases a and b, processes   *)
(* as model values; OfB are the rotations that add b, the others add a.      *)
EXTENDS SecretGrants

CONSTANTS a, b, OfB

MCAliasOf == [c \in Rotation |-> IF c \in OfB THEN b ELSE a]
=============================================================================
