--------------------------- MODULE MCListScreens ---------------------------
(***************************************************************************)
(* Names of one and two letters, of which one is also a command, in lists  *)
(* longer and shorter than the window; the namespace whose keys are shown  *)
(* may go.                                                                 *)
(***************************************************************************)
EXTENDS ListScreens

\* "b", "S", "ab", "sa" and "a" hold keys; after a change some are gone.
mcContents ==
  {<<>>,
   <<[name |-> <<98>>, keys |-> <<<<97>>, <<115>>, <<98>>>>],
     [name |-> <<83>>, keys |-> <<<<98>>>>],
     [name |-> <<97, 98>>, keys |-> <<<<97>>>>],
     [name |-> <<115, 97>>, keys |-> <<<<97>>, <<98>>>>]>>,
   <<[name |-> <<115, 97>>, keys |-> <<<<98>>, <<115>>>>],
     [name |-> <<98>>, keys |-> <<<<98>>>>],
     [name |-> <<97>>, keys |-> <<<<97>>>>]>>}

\* a, s, /, d, e, r, ; and .
mcCodes == {97, 115, 47, 100, 101, 114, 59, 46}
=============================================================================
