----------------------------- MODULE MCNvsBlob -----------------------------
(***************************************************************************)
(* Small instances of NvsBlob: pages of four to six entries, one key or    *)
(* two, blobs of no to seven entries.                                      *)
(***************************************************************************)
EXTENDS NvsBlob

CONSTANTS k1, k2, space

mcNsOf == [k \in Keys |-> space]

\* Blobs that fit with the old version beside the new one.
mcShort == {<<"a">>, <<"b", "a">>, <<"a", "b", "b">>}
\* An empty blob, and two that a page does not hold.
mcLong == {<<>>, <<"a">>, <<"a", "b", "c", "d">>, <<"b", "b", "b", "b">>}
\* Blobs of one to three chunks, told apart by their length.
mcGrowing == {[i \in 1 .. n |-> "a"] : n \in {1, 3, 5, 7}}
mcUpToFive == {[i \in 1 .. n |-> "a"] : n \in {1, 3, 5}}
=============================================================================
