----------------------------- MODULE MCNvsChange -----------------------------
(***************************************************************************)
(* A small instance of NvsChange. In the images a key has two types, as    *)
(* firmware without the check for other types leaves it, an entry has no   *)
(* name, a namespace has no key and one has a blob.                        *)
(***************************************************************************)
EXTENDS NvsChange

CONSTANTS n1, n2, k1, k2, a, b

mcTwins ==
  { NsItem(n1, 2), Item(2, k1, "u8", a), Item(2, k1, "str", a),
    NsItem(n2, 3), Item(1, k1, "u8", a) }
mcBlob ==
  { NsItem(n2, 2), Item(2, k2, "data", 2), Item(2, k2, "more", 2), Item(2, k2, "index", 2),
    Item(3, k1, "u8", b) }

mcImages == {{}, mcTwins, mcBlob}
=============================================================================
