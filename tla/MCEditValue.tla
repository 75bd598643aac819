---------------------------- MODULE MCEditValue ----------------------------
(***************************************************************************)
(* Numbers of 3 and 5 bits, so that texts of four characters go past both, *)
(* and strings as long as the field; in mcLong one is longer.              *)
(***************************************************************************)
EXTENDS EditValue

mcTyped   == {"-", "+", "0", "1", "F", "f", "x"}
mcStrings == {<<>>, <<"0">>, <<"0", "8">>, <<"0", "8", "x">>}
mcLong    == mcStrings \cup {<<"0", "8", "x", "8", "x", "0">>}
=============================================================================
