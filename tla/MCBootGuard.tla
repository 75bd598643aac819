----------------------------- MODULE MCBootGuard -----------------------------
(***************************************************************************)
(* Small instances of BootGuard: two NVS partitions of three pages. Images *)
(* hold full pages, a page written by newer firmware, a page move cut      *)
(* short before or after the copy, and none, one or more free pages.       *)
(***************************************************************************)
EXTENDS BootGuard

CONSTANTS nvs, other, d1, d2, d3

mcSectors == 1 .. 3

mcBuilds == {{"nvs_flash_init"}, {"esp_partition_erase_range"},
             {"nvs_flash_init", "esp_partition_erase_range"}}

\* The entries a page holds when nothing was copied to it.
Own(s) == CASE s = 1 -> {d1} [] s = 2 -> {d2} [] s = 3 -> {d3}
PageIn(st, s) == IF st = "uninit" THEN Blank ELSE [state |-> st, holds |-> Own(s)]
States == [mcSectors -> {"uninit", "full", "active", "freeing", "newer"}]
Count(f, st) == Cardinality({s \in mcSectors : f[s] = st})

\* The page begun for a page that is freed holds none of its entries, or all.
Begun(f) ==
  {[s \in mcSectors |-> IF f[s] = "active" /\ Count(f, "freeing") = 1
                        THEN [state |-> "active", holds |-> h] ELSE PageIn(f[s], s)] :
     h \in {{}} \cup {Own(s) : s \in {q \in mcSectors : f[q] = "freeing"}}}

mcImages ==
  UNION {Begun(f) : f \in {g \in States :
    /\ Count(g, "active") <= 1 /\ Count(g, "freeing") <= 1 /\ Count(g, "newer") <= 1
    /\ Count(g, "freeing") = 1 => Count(g, "uninit") + Count(g, "active") > 0}}
=============================================================================
