--------------------------- MODULE BootGuardProofs ---------------------------
(***************************************************************************)
(* The start of the device loses no entry, reports what happened and lets  *)
(* page moves finish: for every number of NVS partitions and sectors, every *)
(* image the library can leave, and with either of the two calls wrapped.  *)
(***************************************************************************)
EXTENDS BootGuard, FiniteSetTheorems, TLAPS

USE PartitionAssumption

\* What the library keeps to on the default partition.
Kept(pages) ==
  /\ \A s \in Sectors : pages[s].state = "uninit" => pages[s].holds = {}
  /\ \A s, t \in Sectors : pages[s].state = "freeing" =>
       /\ pages[t].state = "freeing" => s = t
       /\ pages[t].state = "active" => pages[t].holds \subseteq pages[s].holds

FlashInv ==
  /\ flash \in [NvsPartitions -> [Sectors -> Page]]
  /\ Kept(Pages)
  /\ pc = "moving" =>
       \A s \in InState("freeing") : \E t \in InState("active") : Pages[s].holds \subseteq Pages[t].holds

\* The core comes to erase only where its own call is not wrapped; then the other is.
GuardInv ==
  /\ linked \in Builds
  /\ pc \in {"core", "erase", "app", "running", "moving"}
  /\ pc = "core" => ~initSeen
  /\ pc = "erase" => "nvs_flash_init" \notin linked

\* Between the two mounts nothing is left to repair, so the second has the result
\* of the first.
ReportInv ==
  "nvs_flash_init" \in linked =>
    /\ blockedErases = 0
    /\ pc = "app" => initSeen /\ initResult = LoadResult /\ ~(HalfMoved /\ CopyTo # {})
    /\ pc \in {"running", "moving"} => initSeen /\ initResult = appResult

GuardedInv == FlashInv /\ GuardInv /\ ReportInv /\ MovesFinish

Keeping == \A p \in NvsPartitions : Holds(p) \subseteq Holds(p)'

-----------------------------------------------------------------------------
(* The guard.                                                              *)

\* A page is never the whole of a partition.
LEMMA SingleSectorsPass == \A s \in Sectors : ~Refused({s})
<1> SUFFICES ASSUME NEW s \in Sectors, Sectors \subseteq {s} PROVE FALSE BY DEF Refused
<1>1. Sectors = {s} OBVIOUS
<1>2. Cardinality(Sectors) = 1 BY <1>1, FS_Singleton
<1> QED BY <1>2

\* A call that may be the core's first erases nothing unless it is not wrapped.
LEMMA WholeIsRefused ==
  ASSUME GuardInv, pc = "erase"
  PROVE  Refused(Sectors) /\ "nvs_flash_init" \notin linked
<1>1. linked # {} /\ linked \subseteq {"nvs_flash_init", "esp_partition_erase_range"} BY DEF GuardInv
<1> QED BY <1>1 DEF GuardInv, Refused

-----------------------------------------------------------------------------
(* Mounting.                                                               *)

LEMMA PagesType ==
  ASSUME flash \in [NvsPartitions -> [Sectors -> Page]]
  PROVE  /\ Pages \in [Sectors -> Page]
         /\ \A s \in Sectors : Pages[s] \in Page /\ Pages[s].holds \subseteq Entries
BY DEF Pages, Page

LEMMA LoadsChangesNothing == ASSUME NEW err, Loads(err) PROVE flash' = flash /\ blockedErases' = blockedErases
BY DEF Loads

\* A repaired move: the entries are on the new page, nothing is being freed.
LEMMA RepairMoves ==
  ASSUME FlashInv, NEW err, Repairs(err)
  PROVE  /\ err = "OK" /\ blockedErases' = blockedErases /\ InState("newer") = {}
         /\ \E from \in InState("freeing"), to \in CopyTo : from # to /\ flash' = Moved(from, to)
<1>1. PICK from \in InState("freeing"), to \in CopyTo :
        IF \E s \in InState("active") \cup {from} : Refused({s})
        THEN err = "NOT_ALLOWED" /\ blockedErases' = blockedErases + 1 /\ UNCHANGED flash
        ELSE err = "OK" /\ flash' = Moved(from, to) /\ UNCHANGED blockedErases
  BY DEF Repairs
<1>2. InState("active") \cup {from} \subseteq Sectors BY DEF InState
<1>3. ~\E s \in InState("active") \cup {from} : Refused({s}) BY <1>2, SingleSectorsPass
<1>4. from # to BY DEF CopyTo, InState
<1> QED BY <1>1, <1>3, <1>4 DEF Repairs, HalfMoved

LEMMA MovedPages ==
  ASSUME FlashInv, NEW from \in InState("freeing"), NEW to \in CopyTo, from # to, flash' = Moved(from, to)
  PROVE  /\ flash' \in [NvsPartitions -> [Sectors -> Page]]
         /\ \A p \in NvsPartitions \ {Default} : flash'[p] = flash[p]
         /\ Pages'[to] = [state |-> "active", holds |-> Pages[from].holds]
         /\ \A s \in Sectors \ {to} : Pages'[s] = IF s \in InState("active") \cup {from} THEN Blank ELSE Pages[s]
<1>1. from \in Sectors /\ to \in Sectors BY DEF InState, CopyTo
<1>2. Pages \in [Sectors -> Page] /\ \A s \in Sectors : Pages[s] \in Page BY PagesType DEF FlashInv
<1> DEFINE new == [s \in Sectors |->
              CASE s = to                                      -> [state |-> "active", holds |-> Pages[from].holds]
                [] s # to /\ s \in InState("active") \cup {from} -> Blank
                [] OTHER                                       -> Pages[s]]
<1>3. Blank \in Page /\ [state |-> "active", holds |-> Pages[from].holds] \in Page BY <1>1, <1>2 DEF Blank, Page
<1>4. /\ new[to] = [state |-> "active", holds |-> Pages[from].holds]
      /\ \A s \in Sectors \ {to} : new[s] = IF s \in InState("active") \cup {from} THEN Blank ELSE Pages[s]
  BY <1>1
<1>5. new \in [Sectors -> Page]
  <2>1. \A s \in Sectors : new[s] \in Page BY <1>1, <1>2, <1>3, <1>4
  <2> QED BY <2>1
<1>6. flash' = [flash EXCEPT ![Default] = new] BY DEF Moved
<1> HIDE DEF new
<1>7. /\ flash' \in [NvsPartitions -> [Sectors -> Page]]
      /\ \A p \in NvsPartitions \ {Default} : flash'[p] = flash[p]
      /\ flash'[Default] = new
  BY <1>5, <1>6 DEF FlashInv
<1>8. Pages' = flash'[Default] BY DEF Pages
<1> QED BY <1>4, <1>7, <1>8

LEMMA MovedKeeps ==
  ASSUME FlashInv, NEW from \in InState("freeing"), NEW to \in CopyTo, from # to, flash' = Moved(from, to)
  PROVE  /\ Kept(Pages') /\ InState("freeing")' = {} /\ InState("uninit")' # {}
         /\ InState("newer") = {} => InState("newer")' = {}
         /\ Keeping
<1> USE DEF Blank
<1>1. from \in Sectors /\ to \in Sectors /\ Pages[from].state = "freeing" BY DEF InState, CopyTo
<1>2. /\ Pages'[to] = [state |-> "active", holds |-> Pages[from].holds]
      /\ \A s \in Sectors \ {to} : Pages'[s] = IF s \in InState("active") \cup {from} THEN Blank ELSE Pages[s]
      /\ \A p \in NvsPartitions \ {Default} : flash'[p] = flash[p]
  BY MovedPages
<1>3. InState("freeing")' = {}
  <2> SUFFICES ASSUME NEW s \in Sectors PROVE Pages'[s].state # "freeing" BY DEF InState
  <2>1. CASE s = to BY <1>2, <2>1
  <2>2. CASE s # to /\ s \in InState("active") \cup {from} BY <1>2, <2>2
  <2>3. CASE s # to /\ s \notin InState("active") \cup {from}
    <3>1. Pages[s].state # "freeing" BY <1>1, <2>3 DEF FlashInv, Kept
    <3> QED BY <1>2, <2>3, <3>1
  <2> QED BY <2>1, <2>2, <2>3
<1>4. InState("uninit")' # {}
  <2>1. Pages'[from].state = "uninit" BY <1>1, <1>2
  <2> QED BY <1>1, <2>1 DEF InState
<1>5. InState("newer") = {} => InState("newer")' = {}
  <2> SUFFICES ASSUME InState("newer") = {}, NEW s \in Sectors PROVE Pages'[s].state # "newer" BY DEF InState
  <2>1. Pages[s].state # "newer" BY DEF InState
  <2> QED BY <1>2, <2>1
<1>6. Kept(Pages')
  <2>1. ASSUME NEW s \in Sectors, Pages'[s].state = "uninit" PROVE Pages'[s].holds = {}
    <3>1. s # to BY <1>2, <2>1
    <3> QED BY <1>2, <2>1, <3>1 DEF FlashInv, Kept
  <2>2. ASSUME NEW s \in Sectors PROVE Pages'[s].state # "freeing" BY <1>3 DEF InState
  <2> QED BY <2>1, <2>2 DEF Kept
<1>7. Keeping
  <2> SUFFICES ASSUME NEW p \in NvsPartitions, NEW s \in Sectors, NEW e \in flash[p][s].holds
               PROVE  \E t \in Sectors : e \in flash'[p][t].holds
    BY DEF Keeping, Holds
  <2>1. CASE p # Default BY <1>2, <2>1
  <2>2. CASE p = Default
    <3>1. e \in Pages[s].holds /\ Pages' = flash'[p] BY <2>2 DEF Pages
    <3>2. CASE s \in InState("active") \cup {from} \/ s = to
      <4>1. Pages[s].holds \subseteq Pages[from].holds
        BY <1>1, <3>2 DEF FlashInv, Kept, InState, CopyTo
      <4> QED BY <1>1, <1>2, <3>1, <4>1
    <3>3. CASE s \notin InState("active") \cup {from} /\ s # to BY <1>2, <3>1, <3>3
    <3> QED BY <3>2, <3>3
  <2> QED BY <2>1, <2>2
<1> QED BY <1>3, <1>4, <1>5, <1>6, <1>7

LEMMA SameFlashKeeps ==
  ASSUME flash' = flash
  PROVE  Keeping /\ Pages' = Pages /\ (\A st : InState(st)' = InState(st))
BY DEF Keeping, Holds, Pages, InState

\* What a mount does and returns.
LEMMA MountKeeps ==
  ASSUME FlashInv, NEW err, Mount(err), pc' # "moving"
  PROVE  /\ FlashInv' /\ Keeping /\ blockedErases' = blockedErases
         /\ err = LoadResult' /\ ~(HalfMoved /\ CopyTo # {})'
         /\ ~(HalfMoved /\ CopyTo # {}) => err = LoadResult
         /\ err = "OK" => InState("freeing")' = {}
<1>1. CASE Repairs(err)
  <2>1. PICK from \in InState("freeing"), to \in CopyTo : from # to /\ flash' = Moved(from, to)
    BY <1>1, RepairMoves
  <2>2. err = "OK" /\ blockedErases' = blockedErases /\ InState("newer") = {} BY <1>1, RepairMoves
  <2>3. /\ Kept(Pages') /\ InState("freeing")' = {} /\ InState("uninit")' # {} /\ InState("newer")' = {} /\ Keeping
    BY <2>1, <2>2, MovedKeeps
  <2>4. FlashInv' BY <2>1, <2>3, MovedPages DEF FlashInv
  <2>5. HalfMoved /\ CopyTo # {} BY <1>1 DEF Repairs
  <2>6. ~HalfMoved' /\ LoadResult' = "OK" BY <2>3 DEF HalfMoved, LoadResult
  <2> QED BY <2>2, <2>3, <2>4, <2>5, <2>6
<1>2. CASE Loads(err)
  <2>1. flash' = flash /\ blockedErases' = blockedErases /\ err = LoadResult /\ ~(HalfMoved /\ CopyTo # {})
    BY <1>2 DEF Loads
  <2>2. Keeping /\ Pages' = Pages /\ (\A st : InState(st)' = InState(st)) BY <2>1, SameFlashKeeps
  <2>3. LoadResult' = LoadResult /\ HalfMoved' = HalfMoved /\ CopyTo' = CopyTo
    BY <2>2 DEF LoadResult, HalfMoved, CopyTo
  <2>4. FlashInv' BY <2>1, <2>2 DEF FlashInv
  <2>5. err = "OK" => InState("freeing") = {} BY <2>1 DEF LoadResult, HalfMoved
  <2> QED BY <2>1, <2>2, <2>3, <2>4, <2>5
<1> QED BY <1>1, <1>2 DEF Mount

-----------------------------------------------------------------------------
(* The steps.                                                              *)

LEMMA CoreInitKeeps == ASSUME GuardedInv, CoreInit PROVE GuardedInv' /\ Keeping
<1> USE DEF GuardedInv
<1>1. PICK err \in Results :
        /\ Mount(err) /\ Keep(err)
        /\ pc' = IF pc = "core" /\ Seen(err) \in {"NO_FREE_PAGES", "NEW_VERSION_FOUND"} THEN "erase" ELSE "app"
  BY DEF CoreInit
<1>2. pc = "core" /\ ~initSeen /\ linked' = linked BY DEF CoreInit, GuardInv, device
<1>3. /\ FlashInv' /\ Keeping /\ blockedErases' = blockedErases
      /\ err = LoadResult' /\ ~(HalfMoved /\ CopyTo # {})'
  BY <1>1, MountKeeps
<1>4. "nvs_flash_init" \in linked => pc' = "app" /\ initSeen' /\ initResult' = err
  BY <1>1, <1>2 DEF Keep, Seen, isEraseTrigger
<1>5. GuardInv' BY <1>1, <1>2, <1>4 DEF GuardInv
<1>6. ReportInv' BY <1>2, <1>3, <1>4 DEF ReportInv
<1>7. MovesFinish' BY <1>1 DEF MovesFinish
<1> QED BY <1>3, <1>5, <1>6, <1>7

LEMMA CoreEraseKeeps == ASSUME GuardedInv, CoreErase PROVE GuardedInv' /\ Keeping
<1> USE DEF GuardedInv
<1>1. "nvs_flash_init" \notin linked /\ pc' = "app" /\ flash' = flash /\ linked' = linked
  BY WholeIsRefused DEF CoreErase, device
<1>2. Keeping /\ Pages' = Pages BY <1>1, SameFlashKeeps
<1>3. FlashInv' BY <1>1, <1>2 DEF FlashInv
<1> QED BY <1>1, <1>2, <1>3 DEF GuardInv, ReportInv, MovesFinish

LEMMA AppInitKeeps == ASSUME GuardedInv, AppInit PROVE GuardedInv' /\ Keeping
<1> USE DEF GuardedInv
<1>1. PICK err \in Results : Mount(err) /\ appResult' = err BY DEF AppInit
<1>2. pc = "app" /\ pc' = "running" /\ linked' = linked /\ initSeen' = initSeen /\ initResult' = initResult
  BY DEF AppInit, device
<1>3. /\ FlashInv' /\ Keeping /\ blockedErases' = blockedErases
      /\ ~(HalfMoved /\ CopyTo # {}) => err = LoadResult
      /\ err = "OK" => InState("freeing")' = {}
  BY <1>1, <1>2, MountKeeps
<1>4. GuardInv' BY <1>2 DEF GuardInv
<1>5. ReportInv' BY <1>1, <1>2, <1>3 DEF ReportInv
<1>6. MovesFinish' BY <1>1, <1>3 DEF MovesFinish
<1> QED BY <1>3, <1>4, <1>5, <1>6

LEMMA MoveBeginsKeeps == ASSUME GuardedInv, MoveBegins PROVE GuardedInv' /\ Keeping
<1> USE DEF GuardedInv
<1>1. PICK to \in InState("uninit"), from \in InState("full") \cup InState("active") :
        flash' = [flash EXCEPT ![Default] = [s \in Sectors |->
                   [state |-> CASE s = from -> "freeing" [] s = to -> "active" [] OTHER -> "full",
                    holds |-> IF s = to THEN Pages[from].holds ELSE Pages[s].holds]]]
  BY DEF MoveBegins
<1>2. pc = "running" /\ pc' = "moving" /\ UNCHANGED <<linked, initSeen, initResult, blockedErases, appResult>>
  BY DEF MoveBegins, device, guard
<1>3. to \in Sectors /\ from \in Sectors /\ to # from /\ Pages[to].holds = {} BY DEF InState, FlashInv, Kept
<1>4. Pages \in [Sectors -> Page] /\ \A s \in Sectors : Pages[s] \in Page /\ Pages[s].holds \subseteq Entries
  BY PagesType DEF FlashInv
<1> DEFINE new == [s \in Sectors |->
              [state |-> CASE s = from -> "freeing" [] s = to -> "active" [] OTHER -> "full",
               holds |-> IF s = to THEN Pages[from].holds ELSE Pages[s].holds]]
<1>5. /\ new[from].state = "freeing" /\ new[from].holds = Pages[from].holds
      /\ new[to].state = "active" /\ new[to].holds = Pages[from].holds
      /\ \A s \in Sectors \ {from, to} : new[s].state = "full" /\ new[s].holds = Pages[s].holds
  BY <1>3
<1>6. new \in [Sectors -> Page]
  <2>1. ASSUME NEW s \in Sectors PROVE new[s] \in Page
    <3>1. \E st \in {"full", "active", "freeing"}, h \in SUBSET Entries : new[s] = [state |-> st, holds |-> h]
      BY <1>3, <1>4
    <3> QED BY <3>1 DEF Page
  <2> QED BY <2>1
<1> HIDE DEF new
<1>7. /\ flash' \in [NvsPartitions -> [Sectors -> Page]] /\ Pages' = new
      /\ \A p \in NvsPartitions \ {Default} : flash'[p] = flash[p]
  BY <1>1, <1>6 DEF FlashInv, Pages, new
<1>8. Kept(new)
  <2>1. ASSUME NEW s \in Sectors PROVE new[s].state # "uninit" BY <1>5
  <2>2. ASSUME NEW s \in Sectors, new[s].state = "freeing" PROVE s = from BY <1>5, <2>2
  <2>3. ASSUME NEW s \in Sectors, new[s].state = "active" PROVE new[s].holds = new[from].holds BY <1>5, <2>3
  <2> QED BY <2>1, <2>2, <2>3 DEF Kept
<1>9. \A s \in InState("freeing")' : \E t \in InState("active")' : Pages'[s].holds \subseteq Pages'[t].holds
  <2>1. to \in InState("active")' BY <1>3, <1>5, <1>7 DEF InState
  <2>2. ASSUME NEW s \in InState("freeing")' PROVE s = from BY <1>5, <1>7, <2>2 DEF InState
  <2> QED BY <1>5, <1>7, <2>1, <2>2
<1>10. FlashInv' BY <1>7, <1>8, <1>9 DEF FlashInv
<1>11. Keeping
  <2> SUFFICES ASSUME NEW p \in NvsPartitions, NEW s \in Sectors, NEW e \in flash[p][s].holds
               PROVE  e \in flash'[p][s].holds
    BY DEF Keeping, Holds
  <2>1. CASE p # Default BY <1>7, <2>1
  <2>2. CASE p = Default
    <3>1. e \in Pages[s].holds /\ flash'[p] = new BY <1>7, <2>2 DEF Pages
    <3> QED BY <1>3, <1>5, <3>1
  <2> QED BY <2>1, <2>2
<1>12. GuardInv' /\ ReportInv' /\ MovesFinish' BY <1>2 DEF GuardInv, ReportInv, MovesFinish
<1> QED BY <1>10, <1>11, <1>12

LEMMA MoveEndsKeeps == ASSUME GuardedInv, MoveEnds PROVE GuardedInv' /\ Keeping
<1> USE DEF GuardedInv
<1>1. pc = "moving" /\ pc' = "running" /\ UNCHANGED <<linked, initSeen, initResult, appResult>>
  BY DEF MoveEnds, device
<1>2. PICK from \in InState("freeing") :
        flash' = [flash EXCEPT ![Default][from] = Blank] /\ blockedErases' = blockedErases
  BY SingleSectorsPass DEF MoveEnds, InState
<1>3. from \in Sectors /\ Blank \in Page BY DEF InState, Blank, Page
<1>4. /\ flash' \in [NvsPartitions -> [Sectors -> Page]]
      /\ \A p \in NvsPartitions \ {Default} : flash'[p] = flash[p]
      /\ Pages'[from] = Blank /\ \A s \in Sectors \ {from} : Pages'[s] = Pages[s]
  <2> DEFINE new == [Pages EXCEPT ![from] = Blank]
  <2>1. Pages \in [Sectors -> Page] BY PagesType DEF FlashInv
  <2>2. new \in [Sectors -> Page] /\ new[from] = Blank /\ \A s \in Sectors \ {from} : new[s] = Pages[s]
    BY <1>3, <2>1
  <2>3. flash' = [flash EXCEPT ![Default] = new] BY <1>2 DEF Pages
  <2> HIDE DEF new
  <2>4. flash' \in [NvsPartitions -> [Sectors -> Page]] /\ flash'[Default] = new
        /\ \A p \in NvsPartitions \ {Default} : flash'[p] = flash[p]
    BY <2>2, <2>3 DEF FlashInv
  <2> QED BY <2>2, <2>4 DEF Pages
<1>5. PICK to \in InState("active") : Pages[from].holds \subseteq Pages[to].holds BY <1>1 DEF FlashInv
<1>6. to \in Sectors /\ to # from BY DEF InState
<1>7. InState("freeing")' = {}
  <2> SUFFICES ASSUME NEW s \in Sectors PROVE Pages'[s].state # "freeing" BY DEF InState
  <2>1. CASE s = from BY <1>4, <2>1 DEF Blank
  <2>2. CASE s # from
    <3>1. Pages[s].state # "freeing" BY <1>3, <2>2 DEF FlashInv, Kept, InState
    <3> QED BY <1>4, <2>2, <3>1
  <2> QED BY <2>1, <2>2
<1>8. Kept(Pages')
  <2>1. ASSUME NEW s \in Sectors, Pages'[s].state = "uninit" PROVE Pages'[s].holds = {}
    BY <1>4, <2>1 DEF FlashInv, Kept, Blank
  <2>2. ASSUME NEW s \in Sectors PROVE Pages'[s].state # "freeing" BY <1>7 DEF InState
  <2> QED BY <2>1, <2>2 DEF Kept
<1>9. FlashInv' BY <1>1, <1>4, <1>8 DEF FlashInv
<1>10. Keeping
  <2> SUFFICES ASSUME NEW p \in NvsPartitions, NEW s \in Sectors, NEW e \in flash[p][s].holds
               PROVE  \E t \in Sectors : e \in flash'[p][t].holds
    BY DEF Keeping, Holds
  <2>1. CASE p # Default BY <1>4, <2>1
  <2>2. CASE p = Default
    <3>1. e \in Pages[s].holds /\ Pages' = flash'[p] BY <2>2 DEF Pages
    <3> QED BY <1>4, <1>5, <1>6, <3>1
  <2> QED BY <2>1, <2>2
<1>11. MovesFinish' BY <1>7 DEF MovesFinish
<1>12. GuardInv' /\ ReportInv' BY <1>1, <1>2 DEF GuardInv, ReportInv
<1> QED BY <1>9, <1>10, <1>11, <1>12

LEMMA ResetKeeps == ASSUME GuardedInv, Reset PROVE GuardedInv' /\ Keeping
<1> USE DEF GuardedInv
<1>1. pc' = "core" /\ ~initSeen' /\ blockedErases' = 0 /\ flash' = flash /\ linked' = linked BY DEF Reset, device
<1>2. Keeping /\ Pages' = Pages BY <1>1, SameFlashKeeps
<1>3. FlashInv' BY <1>1, <1>2 DEF FlashInv
<1> QED BY <1>1, <1>2, <1>3 DEF GuardInv, ReportInv, MovesFinish

LEMMA GuardedNext == ASSUME GuardedInv, [Next]_vars PROVE GuardedInv' /\ Keeping
<1>1. CASE UNCHANGED vars
  <2>1. flash' = flash /\ UNCHANGED <<linked, pc, initSeen, initResult, blockedErases, appResult>>
    BY <1>1 DEF vars, device, guard
  <2>2. Keeping /\ Pages' = Pages /\ (\A st : InState(st)' = InState(st)) BY <2>1, SameFlashKeeps
  <2>3. LoadResult' = LoadResult /\ HalfMoved' = HalfMoved /\ CopyTo' = CopyTo
    BY <2>2 DEF LoadResult, HalfMoved, CopyTo
  <2> QED BY <2>1, <2>2, <2>3 DEF GuardedInv, FlashInv, GuardInv, ReportInv, MovesFinish
<1> QED BY <1>1, CoreInitKeeps, CoreEraseKeeps, AppInitKeeps, MoveBeginsKeeps, MoveEndsKeeps, ResetKeeps DEF Next

LEMMA GuardedAtFirst == ASSUME Init PROVE GuardedInv
<1>1. Pages \in Images /\ flash \in [NvsPartitions -> [Sectors -> Page]]
  <2>1. \A image \in Images : image \in [Sectors -> Page] BY ImageAssumption
  <2> QED BY <2>1 DEF Init, Pages
<1>2. Kept(Pages) BY <1>1, ImageAssumption DEF Kept
<1> QED BY <1>1, <1>2 DEF Init, GuardedInv, FlashInv, GuardInv, ReportInv, MovesFinish

LEMMA AlwaysGuarded == Spec => []GuardedInv
<1>1. Init => GuardedInv BY GuardedAtFirst
<1>2. GuardedInv /\ [Next]_vars => GuardedInv' BY GuardedNext
<1> QED BY <1>1, <1>2, PTL DEF Spec

-----------------------------------------------------------------------------
(* The theorems.                                                           *)

\* No start and no page move loses an entry of any NVS partition: the core never
\* gets to erase one (NvsBootGuard.cpp, docs/RESEARCH.md section 3).
THEOREM DataIsKept == Spec => KeepsData
<1>1. GuardedInv /\ [Next]_vars => [Keeping]_vars BY GuardedNext
<1> QED BY <1>1, AlwaysGuarded, PTL DEF Spec, KeepsData, Keeping

\* The guard reports the result that the application's own mount has, and no erase
\* that it refused (initResult and blockedErases in NvsBootGuard.cpp).
THEOREM ReportIsTrue == Spec => []ReportIsTruth
<1>1. GuardedInv => ReportIsTruth BY DEF GuardedInv, ReportInv, ReportIsTruth
<1> QED BY <1>1, AlwaysGuarded, PTL

\* The guard lets every page move erase the page it frees.
THEOREM MovesAreFinished == Spec => []MovesFinish
BY AlwaysGuarded, PTL DEF GuardedInv
=============================================================================
