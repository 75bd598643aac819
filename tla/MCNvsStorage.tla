---------------------------- MODULE MCNvsStorage ----------------------------
(***************************************************************************)
(* Small instances of NvsStorage: three pages of three entries, two keys   *)
(* in one namespace, a scalar of one entry and a string of two.            *)
(***************************************************************************)
EXTENDS NvsStorage, TLC

CONSTANTS k1, k2, space, scalar, string

mcNsOf == [k \in {k1, k2} |-> space]
mcSpan == scalar :> 1 @@ string :> 2

\* Every value has the same type: a call may change the length, not the type.
mcOneType == [v \in {scalar, string} |-> "any"]
\* A call may change the type.
mcTwoTypes == scalar :> "u8" @@ string :> "str"

\* No two keys share a hash; all do.
mcHash == [k \in {k1, k2} |-> k]
mcCollidingHash == [k \in {k1, k2} |-> k1]

mcSymmetry == Permutations({k1, k2})
=============================================================================
