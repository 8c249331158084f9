--------------------------- MODULE MCSingleServer ---------------------------
\* Instances of SingleServer for TLC: two clients of one user, or of two.
EXTENDS SingleServer, TLC

CONSTANTS c1, c2

Symmetry == Permutations(Message)

OneOrTwoUsers == {(c1 :> "ann") @@ (c2 :> "ann"), (c1 :> "ann") @@ (c2 :> "bob")}
=============================================================================
