------------------------------ MODULE BootGuard ------------------------------
(***************************************************************************)
(* The start of the device up to setup() and beyond (NvsBootGuard). The    *)
(* Arduino core opens NVS before any code of the application runs and, on  *)
(* two errors, erases the whole of the first NVS partition it finds        *)
(* (docs/RESEARCH.md section 3). The linker puts the guard around both     *)
(* calls. A mount that finds a page move cut short finishes it, and that   *)
(* and every later move erase single sectors through the same guard.       *)
(*                                                                         *)
(* A page holds a set of entries. Sequence numbers, items and the repair   *)
(* of single entries are NvsStorage's.                                     *)
(***************************************************************************)
EXTENDS Naturals, FiniteSets

CONSTANTS
  NvsPartitions, \* the partitions of subtype NVS
  Default,       \* the one labelled "nvs"
  Sectors,       \* the sectors of a partition, one page each
  Entries,       \* what pages may hold
  Builds,        \* which of the two calls the linker may have wrapped
  Images,        \* what partitions may hold when the device starts
  MaxBoots       \* bound: starts of the device

ASSUME PartitionAssumption ==
  /\ Default \in NvsPartitions
  /\ Builds \subseteq (SUBSET {"nvs_flash_init", "esp_partition_erase_range"}) \ {{}}
  /\ IsFiniteSet(Sectors) /\ Cardinality(Sectors) > 1

Page == [state : {"uninit", "full", "active", "freeing", "newer"}, holds : SUBSET Entries]

\* As the library leaves them: one page at most is being freed, and the page begun
\* for it holds nothing yet but what was copied (NvsStorage).
ASSUME ImageAssumption ==
  \A image \in Images :
    /\ image \in [Sectors -> Page]
    /\ \A s \in Sectors : image[s].state = "uninit" => image[s].holds = {}
    /\ \A s, t \in Sectors : image[s].state = "freeing" =>
         /\ image[t].state = "freeing" => s = t
         /\ image[t].state = "active" => image[t].holds \subseteq image[s].holds

VARIABLES
  linked,         \* the calls that are wrapped in this build
  first,          \* the partition that the core finds first
  flash,          \* the pages of each partition
  pc,             \* "core", "again", "erase", "app", "running" or "moving"
  initSeen,       \* g_initSeen
  initResult,     \* g_initResult
  blockedErases,  \* g_blockedErases
  appResult,      \* what the application's own mount returned
  boots           \* starts so far

guard == <<initSeen, initResult, blockedErases>>
device == <<linked, first>>
vars  == <<device, flash, pc, guard, appResult, boots>>

Blank     == [state |-> "uninit", holds |-> {}]
Pages     == flash[Default]
InState(st) == {s \in Sectors : Pages[s].state = st}

-----------------------------------------------------------------------------
(* The guard.                                                              *)

isEraseTrigger(err) == err \in {"NO_FREE_PAGES", "NEW_VERSION_FOUND"}

\* What the core gets to see of a result, and what is kept of it.
Seen(err) == IF "nvs_flash_init" \in linked /\ isEraseTrigger(err) THEN "FAIL" ELSE err

\* Wrong on purpose: keeps what the core was told.
Keep_Told(err) ==
  /\ initSeen' = (initSeen \/ "nvs_flash_init" \in linked)
  /\ initResult' = IF initSeen \/ "nvs_flash_init" \notin linked THEN initResult ELSE Seen(err)

Keep(err) ==
  /\ initSeen' = (initSeen \/ "nvs_flash_init" \in linked)
  /\ initResult' = IF initSeen \/ "nvs_flash_init" \notin linked THEN initResult ELSE err

\* The erase of a range of sectors of an NVS partition is refused when it is
\* the whole.

\* Wrong on purpose: the end of the range is not looked at.
Refused_FromStart(range) ==
  "esp_partition_erase_range" \in linked /\ \A s \in Sectors : \E r \in range : r <= s

\* Wrong on purpose: an erase of just the partition is let through.
Refused_PastEnd(range) ==
  "esp_partition_erase_range" \in linked /\ Sectors \subseteq range /\ Sectors # range

Refused(range) == "esp_partition_erase_range" \in linked /\ Sectors \subseteq range

-----------------------------------------------------------------------------
(* Mounting: PageManager::load. The page begun for one that is being freed *)
(* is erased, the entries are copied anew, and the freed page is erased.   *)

HalfMoved == InState("newer") = {} /\ InState("freeing") # {}
CopyTo    == InState("uninit") \cup InState("active")

Moved(from, to) ==
  [flash EXCEPT ![Default] = [s \in Sectors |->
     CASE s = to                                      -> [state |-> "active", holds |-> Pages[from].holds]
       [] s # to /\ s \in InState("active") \cup {from} -> Blank
       [] OTHER                                       -> Pages[s]]]

Repairs(err) ==
  /\ HalfMoved /\ CopyTo # {}
  /\ \E from \in InState("freeing"), to \in CopyTo :
       IF \E s \in InState("active") \cup {from} : Refused({s})
       THEN err = "NOT_ALLOWED" /\ blockedErases' = blockedErases + 1 /\ UNCHANGED flash
       ELSE err = "OK" /\ flash' = Moved(from, to) /\ UNCHANGED blockedErases

LoadResult ==
  CASE InState("newer") # {}  -> "NEW_VERSION_FOUND"
    [] HalfMoved              -> "NOT_ENOUGH_SPACE"
    [] InState("uninit") = {} -> "NO_FREE_PAGES"
    [] OTHER                  -> "OK"

Loads(err) ==
  /\ ~(HalfMoved /\ CopyTo # {})
  /\ err = LoadResult
  /\ UNCHANGED <<flash, blockedErases>>

Mount(err) == Repairs(err) \/ Loads(err)
Results == {"OK", "NEW_VERSION_FOUND", "NOT_ENOUGH_SPACE", "NO_FREE_PAGES", "NOT_ALLOWED"}

-----------------------------------------------------------------------------
(* initArduino, then the application.                                      *)

CoreInit ==
  /\ pc \in {"core", "again"}
  /\ \E err \in Results :
       /\ Mount(err) /\ Keep(err)
       /\ pc' = IF pc = "core" /\ Seen(err) \in {"NO_FREE_PAGES", "NEW_VERSION_FOUND"}
                THEN "erase" ELSE "app"
  /\ UNCHANGED <<device, appResult, boots>>

\* The core erases the partition it finds first, and tries again if it could.
CoreErase ==
  /\ pc = "erase"
  /\ IF Refused(Sectors)
     THEN pc' = "app" /\ blockedErases' = blockedErases + 1 /\ UNCHANGED flash
     ELSE /\ flash' = [flash EXCEPT ![first] = [s \in Sectors |-> Blank]]
          /\ pc' = "again" /\ UNCHANGED blockedErases
  /\ UNCHANGED <<device, initSeen, initResult, appResult, boots>>

\* The application mounts by nvs_flash_init_partition, which is not wrapped,
\* and a partition that is mounted is not mounted again.
AppInit ==
  /\ pc = "app"
  /\ \E err \in Results : Mount(err) /\ appResult' = err
  /\ pc' = "running"
  /\ UNCHANGED <<device, initSeen, initResult, boots>>

\* A write that needs a page when one is left: PageManager::requestNewPage.
\* The page written last is full by then.
MoveBegins ==
  /\ pc = "running" /\ appResult = "OK" /\ Cardinality(InState("uninit")) = 1
  /\ \E to \in InState("uninit"), from \in InState("full") \cup InState("active") :
       flash' = [flash EXCEPT ![Default] = [s \in Sectors |->
                  [state |-> CASE s = from -> "freeing" [] s = to -> "active" [] OTHER -> "full",
                   holds |-> IF s = to THEN Pages[from].holds ELSE Pages[s].holds]]]
  /\ pc' = "moving"
  /\ UNCHANGED <<device, guard, appResult, boots>>

MoveEnds ==
  /\ pc = "moving"
  /\ \E from \in InState("freeing") :
       IF Refused({from})
       THEN blockedErases' = blockedErases + 1 /\ UNCHANGED flash
       ELSE flash' = [flash EXCEPT ![Default][from] = Blank] /\ UNCHANGED blockedErases
  /\ pc' = "running"
  /\ UNCHANGED <<device, initSeen, initResult, appResult, boots>>

-----------------------------------------------------------------------------
(* Power.                                                                  *)

Reset ==
  /\ boots < MaxBoots
  /\ boots' = boots + 1
  /\ pc' = "core"
  /\ initSeen' = FALSE /\ initResult' = "OK" /\ blockedErases' = 0 /\ appResult' = "none"
  /\ UNCHANGED <<device, flash>>

Init ==
  /\ linked \in Builds /\ first \in NvsPartitions
  /\ flash \in [NvsPartitions -> Images]
  /\ pc = "core" /\ boots = 1
  /\ initSeen = FALSE /\ initResult = "OK" /\ blockedErases = 0 /\ appResult = "none"

Next == CoreInit \/ CoreErase \/ AppInit \/ MoveBegins \/ MoveEnds \/ Reset

Spec == Init /\ [][Next]_vars

-----------------------------------------------------------------------------
(* Properties.                                                             *)

\* No start and no page move loses an entry of any NVS partition, whatever the
\* mount returns and whichever partition the core finds: either wrapped call
\* alone is enough for it.
Holds(p) == UNION {flash[p][s].holds : s \in Sectors}
KeepsData == [][ \A p \in NvsPartitions : Holds(p) \subseteq Holds(p)' ]_vars

\* The first result is reported as it was, and it is what the application
\* meets: nothing has changed NVS on the way to setup(). With the first call
\* wrapped the core never comes to ask for the erase (docs/RESEARCH.md:98), and
\* no erase of a sector is refused: the report counts none.
ReportIsTruth ==
  "nvs_flash_init" \in linked =>
    /\ pc \in {"running", "moving"} => initSeen /\ initResult = appResult
    /\ blockedErases = 0

\* A page move, also one that a power loss cut short, is finished: the guard
\* lets it erase the pages it frees.
MovesFinish == pc = "running" /\ appResult = "OK" => InState("freeing") = {}
=============================================================================
