---------------------------- MODULE BackupRestore ----------------------------
(***************************************************************************)
(* Raw backups on the SD card and restoring them over the NVS partition    *)
(* (app/Export rawBackup, app/Restore, nvs/NvsRestore and the two screens  *)
(* that run them). A backup is two files, written one after the other and  *)
(* read back; a restore first makes a backup of what it replaces and then  *)
(* writes the chosen image sector by sector. The program has one thread;   *)
(* what interrupts it is the power, a failing card and a failing flash     *)
(* sector, and between two operations the user may take the card to a PC.  *)
(***************************************************************************)
EXTENDS Naturals

CONSTANTS
  Sector,      \* sectors of the partition, written from 1 upwards
  LastSector,  \* Sector is 1..LastSector
  MaxNumber,   \* backups are numbered from 1 to kMaxSequence (9999)
  Content,     \* what a sector may hold
  Blank,       \* an erased sector
  Torn,        \* a page whose header does not match its checksum
  Foreign,     \* a page of another device
  None,        \* no such file
  Damaged      \* a file that does not hold what was written to it

ASSUME PartitionAssumption == LastSector \in Nat \ {0} /\ Sector = 1 .. LastSector
ASSUME NumberAssumption    == MaxNumber \in Nat \ {0}
ASSUME ContentAssumption   ==
  /\ Blank \in Content /\ Torn \in Content /\ Foreign \in Content
  /\ Foreign # Blank /\ Foreign # Torn

Number == 1 .. MaxNumber
Image  == [Sector -> Content]

\* Who made a backup: this device from this partition; another device or
\* another partition (or the partition is encrypted); or a version that did
\* not record the device.
Origin   == {"here", "elsewhere", "unrecorded"}
Manifest == [origin : Origin, sha256 : Image]

\* What the preview screen keeps of a backup that passed the checks.
RestoreCheck == [image : Image, origin : Origin]

ASSUME FileAssumption ==
  /\ None \notin Image /\ Damaged \notin Image /\ None # Damaged
  /\ None \notin Manifest /\ Damaged \notin Manifest
  /\ None \notin RestoreCheck

VARIABLES
  flash,    \* the partition
  bin,      \* [Number -> Image or None or Damaged]: the nvs-NNNN.bin files
  json,     \* [Number -> Manifest or None or Damaged]: the nvs-NNNN.json files
  mounted,  \* g_sdMounted
  pc,
  job,      \* what the running backup is for
  listed,   \* the manifest of the backup chosen in the list, as it was when listed
  check,    \* the RestoreCheck the preview screen holds, None when it is not shown
  image,    \* what rawBackup read from the partition
  base,     \* the number rawBackup chose, or that of the backup chosen in the list
  sector,   \* the sector restorePartition works on
  owed,     \* auxiliary: partition contents a restore has replaced, and the
            \* user has not touched the card since
  adopted   \* auxiliary: a backup of unrecorded origin was restored

ram  == <<mounted, pc, job, listed, check, image, base, sector>>
vars == <<flash, bin, json, ram, owed, adopted>>

-----------------------------------------------------------------------------
(* Making a backup: rawBackup.                                             *)

Free(n) == bin[n] = None /\ json[n] = None

\* Wrong on purpose: looks for a free manifest name only.
NextBase_ManifestOnly(n) == json[n] = None /\ \A m \in 1 .. (n - 1) : json[m] # None

\* nextBase: the lowest number that neither file uses.
NextBase(n) == Free(n) /\ \A m \in 1 .. (n - 1) : ~Free(m)

\* The operation ends and its result is shown; the screens it came from close.
End ==
  /\ pc' = "idle" /\ job' = "none" /\ listed' = None /\ check' = None /\ image' = None
  /\ base' = 0 /\ sector' = 0
  /\ UNCHANGED <<mounted, adopted>>

\* A backup that fails leaves the files written so far; a restore it was made
\* for writes nothing.

\* Wrong on purpose: the restore goes on without the backup.
BackupFails_RestoreGoesOn ==
  /\ IF job = "restore"
       THEN pc' = "close" /\ UNCHANGED <<mounted, job, listed, check, image, base, sector, adopted>>
       ELSE End
  /\ UNCHANGED <<flash, bin, json, owed>>

BackupFails ==
  /\ End
  /\ UNCHANGED <<flash, bin, json, owed>>

StartBackup ==
  /\ pc = "idle"
  /\ pc' = "read" /\ job' = "backup"
  /\ UNCHANGED <<flash, bin, json, mounted, listed, check, image, base, sector, owed, adopted>>

ReadPartition ==
  /\ pc = "read" /\ mounted
  /\ \E n \in Number : NextBase(n) /\ base' = n
  /\ image' = flash
  /\ pc' = "bin"
  /\ UNCHANGED <<flash, bin, json, mounted, job, listed, check, sector, owed, adopted>>

\* No card, no readable partition, no directory or no free number.
ReadFails ==
  /\ pc = "read"
  /\ BackupFails

\* storageWrite fills a temporary file and renames it: the file is there
\* completely or not at all, but the card may return something else later.
WriteBin ==
  /\ pc = "bin"
  /\ \E stored \in {image, Damaged} : bin' = [bin EXCEPT ![base] = stored]
  /\ pc' = "read_back"
  /\ UNCHANGED <<flash, json, mounted, job, listed, check, image, base, sector, owed, adopted>>

ReadBackBin ==
  /\ pc = "read_back" /\ bin[base] = image
  /\ pc' = "json"
  /\ UNCHANGED <<flash, bin, json, mounted, job, listed, check, image, base, sector, owed, adopted>>

WriteJson ==
  /\ pc = "json"
  /\ \E stored \in {[origin |-> "here", sha256 |-> image], Damaged} :
       json' = [json EXCEPT ![base] = stored]
  /\ pc' = "json_back"
  /\ UNCHANGED <<flash, bin, mounted, job, listed, check, image, base, sector, owed, adopted>>

BackupDone ==
  /\ pc = "json_back" /\ json[base] # Damaged
  /\ IF job = "restore"
       THEN pc' = "close" /\ UNCHANGED <<mounted, job, listed, check, image, base, sector, adopted>>
       ELSE End
  /\ UNCHANGED <<flash, bin, json, owed>>

\* Writing or reading a file fails, or it reads back differently.
CardFails ==
  /\ pc \in {"bin", "read_back", "json", "json_back"}
  /\ BackupFails

-----------------------------------------------------------------------------
(* Choosing a backup: the list and checkBackup.                            *)

Ours(m) == m.origin # "elsewhere"

\* checkImage: pages NVS would accept; an erased page is one.
ValidImage(i) == \A s \in Sector : i[s] # Torn

\* Wrong on purpose: trusts the manifest.
Intact_Unchecked(n) == bin[n] \in Image

Intact(n) == bin[n] = listed.sha256

CheckPasses(n) ==
  /\ bin[n] # None
  /\ listed \in Manifest
  /\ Ours(listed)
  /\ Intact(n)
  /\ ValidImage(bin[n])
  /\ bin[n] # flash

\* The list reads every manifest when it opens; the image is read later, when
\* the user asks for the preview of the one backup chosen.
ListBackups(n) ==
  /\ pc = "idle" /\ mounted
  /\ bin[n] # None
  /\ base' = n /\ listed' = json[n]
  /\ pc' = "list"
  /\ UNCHANGED <<flash, bin, json, mounted, job, check, image, sector, owed, adopted>>

\* The preview of a backup that fails a check offers nothing to confirm.
Preview ==
  /\ pc = "list"
  /\ CheckPasses(base)
  /\ check' = [image |-> bin[base], origin |-> listed.origin]
  /\ listed' = None /\ base' = 0
  /\ pc' = "preview"
  /\ UNCHANGED <<flash, bin, json, mounted, job, image, sector, owed, adopted>>

Back ==
  /\ pc \in {"list", "preview"}
  /\ pc' = "idle" /\ listed' = None /\ check' = None /\ base' = 0
  /\ UNCHANGED <<flash, bin, json, mounted, job, image, sector, owed, adopted>>

-----------------------------------------------------------------------------
(* Restoring: restoreBackup, NvsWriter::restorePartition and the refresh   *)
(* that follows every change.                                              *)

Confirm ==
  /\ pc = "preview"
  /\ pc' = "read" /\ job' = "restore"
  /\ UNCHANGED <<flash, bin, json, mounted, listed, check, image, base, sector, owed, adopted>>

\* Opening the partition recovers from what looks like a power loss: it may
\* erase a page or move one. Whether it succeeds depends on the pages.
Opened(f) ==
  {f} \cup {[f EXCEPT ![s] = Blank] : s \in Sector}
      \cup {[f EXCEPT ![s] = Blank, ![t] = f[s]] : s \in Sector, t \in {x \in Sector : f[x] = Blank}}

RestoreFails ==
  /\ flash' \in Opened(flash)
  /\ End
  /\ UNCHANGED <<bin, json, owed>>

CloseNvs ==
  /\ pc = "close"
  /\ pc' = "erase" /\ sector' = 1
  /\ owed' = owed \cup {flash}
  /\ adopted' = (adopted \/ check.origin = "unrecorded")
  /\ UNCHANGED <<flash, bin, json, mounted, job, listed, check, image, base>>

EraseSector ==
  /\ pc = "erase"
  /\ flash' = [flash EXCEPT ![sector] = Blank]
  /\ pc' = "write"
  /\ UNCHANGED <<bin, json, mounted, job, listed, check, image, base, sector, owed, adopted>>

\* A sector that wears out may hold something else than was written.
WriteSector ==
  /\ pc = "write"
  /\ \E written \in {check.image[sector], Torn} : flash' = [flash EXCEPT ![sector] = written]
  /\ pc' = "compare"
  /\ UNCHANGED <<bin, json, mounted, job, listed, check, image, base, sector, owed, adopted>>

\* Wrong on purpose: does not read the sector back.
CompareSector_Unread ==
  /\ pc = "compare"
  /\ IF sector = LastSector THEN pc' = "open" /\ UNCHANGED sector
                            ELSE pc' = "erase" /\ sector' = sector + 1
  /\ UNCHANGED <<flash, bin, json, mounted, job, listed, check, image, base, owed, adopted>>

\* Wrong on purpose: one sector too many.
CompareSector_PastEnd ==
  /\ pc = "compare" /\ flash[sector] = check.image[sector]
  /\ IF sector > LastSector THEN pc' = "open" /\ UNCHANGED sector
                            ELSE pc' = "erase" /\ sector' = sector + 1
  /\ UNCHANGED <<flash, bin, json, mounted, job, listed, check, image, base, owed, adopted>>

CompareSector ==
  /\ pc = "compare" /\ flash[sector] = check.image[sector]
  /\ IF sector = LastSector THEN pc' = "open" /\ UNCHANGED sector
                            ELSE pc' = "erase" /\ sector' = sector + 1
  /\ UNCHANGED <<flash, bin, json, mounted, job, listed, check, image, base, owed, adopted>>

OpenNvs ==
  /\ pc = "open"
  /\ flash' \in Opened(flash)
  /\ End
  /\ UNCHANGED <<bin, json, owed>>

FlashFails ==
  /\ pc \in {"close", "erase", "write", "compare", "open"}
  /\ RestoreFails

-----------------------------------------------------------------------------
(* The surroundings.                                                       *)

Boot ==
  /\ pc = "off"
  /\ pc' = "idle"
  /\ mounted' \in BOOLEAN
  /\ flash' \in Opened(flash)
  /\ UNCHANGED <<bin, json, job, listed, check, image, base, sector, owed, adopted>>

\* R on the backup screen.
Remount ==
  /\ pc = "idle"
  /\ mounted' \in BOOLEAN
  /\ UNCHANGED <<flash, bin, json, pc, job, listed, check, image, base, sector, owed, adopted>>

\* A delete or edit in NVS Manager, or anything other firmware stores; when
\* the power goes meanwhile, the header of a page may be torn.
ChangeNvs(s, c) ==
  /\ pc \in {"idle", "off"}
  /\ c # Foreign
  /\ c = Torn => pc = "off"
  /\ flash' = [flash EXCEPT ![s] = c]
  /\ UNCHANGED <<bin, json, ram, owed, adopted>>

ForeignImage == [s \in Sector |-> Foreign]

\* The card in a PC. Whatever the user does there no longer counts against the
\* program's backups.
AtCard ==
  /\ pc \in {"idle", "list", "preview", "off"}
  /\ owed' = {}
  /\ UNCHANGED <<flash, ram, adopted>>

UserDeletes(n) ==
  /\ AtCard
  /\ bin' = [bin EXCEPT ![n] = None]
  /\ json' \in {json, [json EXCEPT ![n] = None]}

\* An image is copied over another one, or a whole backup of another device or
\* of a version that did not record the device.
UserCopies(n) ==
  /\ AtCard
  /\ bin' = [bin EXCEPT ![n] = ForeignImage]
  /\ \/ UNCHANGED json
     \/ \E o \in {"elsewhere", "unrecorded"} :
          json' = [json EXCEPT ![n] = [origin |-> o, sha256 |-> ForeignImage]]

PowerLoss ==
  /\ pc # "off"
  /\ pc' = "off" /\ mounted' = FALSE
  /\ job' = "none" /\ listed' = None /\ check' = None /\ image' = None
  /\ base' = 0 /\ sector' = 0
  /\ UNCHANGED <<flash, bin, json, owed, adopted>>

-----------------------------------------------------------------------------
Init ==
  /\ flash \in {f \in Image : \A s \in Sector : f[s] # Foreign}
  /\ bin = [n \in Number |-> None] /\ json = [n \in Number |-> None]
  /\ mounted = FALSE /\ pc = "off" /\ job = "none" /\ listed = None /\ check = None
  /\ image = None /\ base = 0 /\ sector = 0
  /\ owed = {} /\ adopted = FALSE

BackingUp ==
  \/ StartBackup \/ ReadPartition \/ ReadFails \/ WriteBin \/ ReadBackBin \/ WriteJson
  \/ BackupDone \/ CardFails

Restoring ==
  \/ (\E n \in Number : ListBackups(n)) \/ Preview \/ Back \/ Confirm
  \/ CloseNvs \/ EraseSector \/ WriteSector \/ CompareSector \/ OpenNvs \/ FlashFails

Surroundings ==
  \/ Boot \/ Remount \/ PowerLoss
  \/ \E s \in Sector, c \in Content : ChangeNvs(s, c)
  \/ \E n \in Number : UserDeletes(n) \/ UserCopies(n)

Next == BackingUp \/ Restoring \/ Surroundings

Spec == Init /\ [][Next]_vars

-----------------------------------------------------------------------------
(* Properties.                                                             *)

TypeOK ==
  /\ flash \in Image
  /\ bin \in [Number -> Image \cup {None, Damaged}]
  /\ json \in [Number -> Manifest \cup {None, Damaged}]
  /\ mounted \in BOOLEAN
  /\ pc \in {"off", "idle", "read", "bin", "read_back", "json", "json_back", "list", "preview",
             "close", "erase", "write", "compare", "open"}
  /\ job \in {"none", "backup", "restore"}
  /\ listed \in Manifest \cup {None, Damaged}
  /\ check \in RestoreCheck \cup {None}
  /\ image \in Image \cup {None}
  /\ base \in Number \cup {0}
  /\ sector \in Sector \cup {0}
  /\ owed \subseteq Image
  /\ adopted \in BOOLEAN

\* A backup whose two files are complete and belong together.
Saved(n, i) == bin[n] = i /\ json[n] = [origin |-> "here", sha256 |-> i]

\* Every content of the partition that a restore has begun to replace is on
\* the card as a complete backup, whatever failed since: the restore itself,
\* the power in the middle of it, later backups and restores.
RestoreUndoable == \A i \in owed : \E n \in Number : Saved(n, i)

\* The program never replaces a file on the card, not even one left behind by
\* an interrupted backup.
NeverOverwrites ==
  [][ \A n \in Number : pc \in {"bin", "json"} =>
                          /\ bin[n] # None => bin'[n] = bin[n]
                          /\ json[n] # None => json'[n] = json[n] ]_vars

HasForeign(i) == \E s \in Sector : i[s] = Foreign

\* Pages of another device get into the partition only through a backup that
\* does not say where it was made, which the preview warns about.
NoForeignPages == HasForeign(flash) => adopted

\* Before the partition is opened again it holds exactly the checked image.
WrittenAsChecked == pc = "open" => flash = check.image

\* Restore.h and README.md say the list shows the "newest (highest number)
\* first": a new backup has a higher number than every backup on the card.
NewestIsHighest ==
  [][ pc = "bin" /\ bin' # bin => \A n \in Number : n > base => bin[n] = None ]_vars

\* README.md: "the NVS as it was is saved as a new backup, so a restore can be
\* undone the same way", that is, the saved backup passes the checks.
UndoneTheSameWay ==
  pc = "idle" => \A i \in owed : \E n \in Number : Saved(n, i) /\ ValidImage(i)

-----------------------------------------------------------------------------
(* The inductive invariant.                                                *)

\* rawBackup works on a number that was free and on what the partition holds.
Backing ==
  /\ pc \in {"bin", "read_back", "json", "json_back"} => base \in Number /\ image = flash
  /\ pc = "bin" => Free(base)
  /\ pc \in {"read_back", "json"} => json[base] = None
  /\ pc \in {"json", "json_back"} => bin[base] = image
  /\ pc = "json_back" => json[base] \in {[origin |-> "here", sha256 |-> image], Damaged}

\* A restore has a checked image, starts with the partition saved and has
\* written the sectors below the one it works on.
Checked ==
  /\ pc \in {"off", "idle", "list", "preview"} => job = "none"
  /\ pc = "list" => base \in Number
  /\ pc \in {"preview", "close", "erase", "write", "compare", "open"} \/ job = "restore" =>
       check \in RestoreCheck
  /\ pc = "close" => \E n \in Number : Saved(n, flash)
  /\ pc \in {"erase", "write", "compare"} =>
       sector \in Sector /\ \A s \in 1 .. (sector - 1) : flash[s] = check.image[s]
  /\ WrittenAsChecked

\* Where foreign pages may be without a backup of unrecorded origin restored.
Provenance ==
  /\ NoForeignPages
  /\ \A n \in Number : json[n] \in Manifest /\ json[n].origin = "here" /\ HasForeign(json[n].sha256) => adopted
  /\ listed \in Manifest /\ listed.origin = "here" /\ HasForeign(listed.sha256) => adopted
  /\ check \in RestoreCheck /\ HasForeign(check.image) => adopted \/ check.origin = "unrecorded"
  /\ pc \in {"erase", "write", "compare", "open"} /\ check.origin = "unrecorded" => adopted

BackupInv == Backing /\ Checked /\ Provenance /\ RestoreUndoable
=============================================================================
