------------------------- MODULE BackupRestoreProofs -------------------------
(***************************************************************************)
(* BackupRestore keeps its promises for every partition size, every number *)
(* of backups and every content: the type invariant, the inductive         *)
(* invariant BackupInv and what follows from it.                           *)
(***************************************************************************)
EXTENDS BackupRestore, TLAPS

USE PartitionAssumption, NumberAssumption, ContentAssumption, FileAssumption

\* Opening the partition yields a partition and brings in no foreign page.
LEMMA OpenedImage ==
  ASSUME NEW f \in Image, NEW g \in Opened(f)
  PROVE  g \in Image /\ (HasForeign(g) => HasForeign(f))
BY DEF Opened, Image, HasForeign

-----------------------------------------------------------------------------
(* The type invariant.                                                     *)

LEMMA TypeInit == Init => TypeOK
BY DEF Init, TypeOK, Number, Image

LEMMA TypeNext == TypeOK /\ BackupInv /\ [Next]_vars => TypeOK'
<1> SUFFICES ASSUME TypeOK, BackupInv, [Next]_vars PROVE TypeOK'
  OBVIOUS
<1> USE DEF TypeOK
<1>1. CASE BackingUp
  <2>1. CASE StartBackup BY <2>1 DEF StartBackup
  <2>2. CASE ReadPartition BY <2>2 DEF ReadPartition
  <2>3. CASE ReadFails BY <2>3 DEF ReadFails, BackupFails, End
  <2>4. CASE WriteBin BY <2>4 DEF WriteBin, BackupInv, Backing
  <2>5. CASE ReadBackBin BY <2>5 DEF ReadBackBin
  <2>6. CASE WriteJson
    <3>1. image \in Image BY <2>6 DEF WriteJson, BackupInv, Backing
    <3>2. [origin |-> "here", sha256 |-> image] \in Manifest BY <3>1 DEF Manifest, Origin
    <3>3. PICK stored \in Manifest \cup {Damaged} : json' = [json EXCEPT ![base] = stored]
      BY <2>6, <3>2 DEF WriteJson
    <3>4. json' \in [Number -> Manifest \cup {None, Damaged}]
      BY <3>3
    <3> QED BY <2>6, <3>4 DEF WriteJson
  <2>7. CASE BackupDone BY <2>7 DEF BackupDone, End
  <2>8. CASE CardFails BY <2>8 DEF CardFails, BackupFails, End
  <2> QED BY <1>1, <2>1, <2>2, <2>3, <2>4, <2>5, <2>6, <2>7, <2>8 DEF BackingUp
<1>2. CASE Restoring
  <2>1. ASSUME NEW n \in Number, ListBackups(n) PROVE TypeOK' BY <2>1 DEF ListBackups
  <2>2. CASE Preview
    <3>1. [image |-> bin[base], origin |-> listed.origin] \in RestoreCheck
      BY <2>2 DEF Preview, CheckPasses, Intact, RestoreCheck, Manifest
    <3> QED BY <2>2, <3>1 DEF Preview
  <2>3. CASE Back BY <2>3 DEF Back
  <2>4. CASE Confirm BY <2>4 DEF Confirm
  <2>5. CASE CloseNvs BY <2>5 DEF CloseNvs
  <2>6. CASE EraseSector BY <2>6 DEF EraseSector, Image
  <2>7. CASE WriteSector
    BY <2>7 DEF WriteSector, BackupInv, Checked, Image, RestoreCheck
  <2>8. CASE CompareSector BY <2>8 DEF CompareSector, BackupInv, Checked
  <2>9. CASE OpenNvs BY <2>9, OpenedImage DEF OpenNvs, End
  <2>10. CASE FlashFails BY <2>10, OpenedImage DEF FlashFails, RestoreFails, End
  <2> QED
    BY <1>2, <2>1, <2>2, <2>3, <2>4, <2>5, <2>6, <2>7, <2>8, <2>9, <2>10 DEF Restoring
<1>3. CASE Surroundings
  <2>1. CASE Boot BY <2>1, OpenedImage DEF Boot
  <2>2. CASE Remount BY <2>2 DEF Remount
  <2>3. CASE PowerLoss BY <2>3 DEF PowerLoss
  <2>4. ASSUME NEW s \in Sector, NEW c \in Content, ChangeNvs(s, c) PROVE TypeOK'
    BY <2>4 DEF ChangeNvs, Image, ram
  <2>5. ASSUME NEW n \in Number, UserDeletes(n) PROVE TypeOK'
    BY <2>5 DEF UserDeletes, AtCard, ram
  <2>6. ASSUME NEW n \in Number, UserCopies(n) PROVE TypeOK'
    <3>1. ForeignImage \in Image BY DEF ForeignImage, Image
    <3>2. \A o \in {"elsewhere", "unrecorded"} : [origin |-> o, sha256 |-> ForeignImage] \in Manifest
      BY <3>1 DEF Manifest, Origin
    <3> QED BY <2>6, <3>1, <3>2 DEF UserCopies, AtCard, ram
  <2> QED BY <1>3, <2>1, <2>2, <2>3, <2>4, <2>5, <2>6 DEF Surroundings
<1>4. CASE UNCHANGED vars BY <1>4 DEF vars, ram
<1> QED BY <1>1, <1>2, <1>3, <1>4 DEF Next

-----------------------------------------------------------------------------
(* The inductive invariant.                                                *)

LEMMA InvInit == Init => BackupInv
BY DEF Init, BackupInv, Backing, Checked, Provenance, RestoreUndoable, WrittenAsChecked,
   NoForeignPages, HasForeign, Image

LEMMA BackingNext == TypeOK /\ BackupInv /\ [Next]_vars => Backing'
<1> SUFFICES ASSUME TypeOK, BackupInv, [Next]_vars PROVE Backing'
  OBVIOUS
<1> USE DEF TypeOK, BackupInv, Backing, Free
<1>1. CASE BackingUp
  <2>1. CASE StartBackup BY <2>1 DEF StartBackup
  <2>2. CASE ReadPartition BY <2>2 DEF ReadPartition, NextBase
  <2>3. CASE ReadFails BY <2>3 DEF ReadFails, BackupFails, End
  <2>4. CASE WriteBin BY <2>4 DEF WriteBin
  <2>5. CASE ReadBackBin BY <2>5 DEF ReadBackBin
  <2>6. CASE WriteJson BY <2>6 DEF WriteJson
  <2>7. CASE BackupDone BY <2>7 DEF BackupDone, End
  <2>8. CASE CardFails BY <2>8 DEF CardFails, BackupFails, End
  <2> QED
    BY <1>1, <2>1, <2>2, <2>3, <2>4, <2>5, <2>6, <2>7, <2>8 DEF BackingUp
<1>2. CASE Restoring
  <2>1. CASE Preview BY <2>1 DEF Preview
  <2>2. CASE Back BY <2>2 DEF Back
  <2>3. CASE Confirm BY <2>3 DEF Confirm
  <2>4. CASE CloseNvs BY <2>4 DEF CloseNvs
  <2>5. CASE EraseSector BY <2>5 DEF EraseSector
  <2>6. CASE WriteSector BY <2>6 DEF WriteSector
  <2>7. CASE CompareSector BY <2>7 DEF CompareSector
  <2>8. CASE OpenNvs BY <2>8 DEF OpenNvs, End
  <2>9. CASE FlashFails BY <2>9 DEF FlashFails, RestoreFails, End
  <2>10. ASSUME NEW n \in Number, ListBackups(n) PROVE Backing'
    BY <2>10 DEF ListBackups
  <2> QED
    BY <1>2, <2>1, <2>2, <2>3, <2>4, <2>5, <2>6, <2>7, <2>8, <2>9, <2>10 DEF Restoring
<1>3. CASE Surroundings
  <2>1. CASE Boot BY <2>1 DEF Boot
  <2>2. CASE Remount BY <2>2 DEF Remount
  <2>3. CASE PowerLoss BY <2>3 DEF PowerLoss
  <2>4. ASSUME NEW s \in Sector, NEW c \in Content, ChangeNvs(s, c) PROVE Backing'
    BY <2>4 DEF ChangeNvs, ram
  <2>5. ASSUME NEW n \in Number, UserDeletes(n) PROVE Backing'
    BY <2>5 DEF UserDeletes, AtCard, ram
  <2>6. ASSUME NEW n \in Number, UserCopies(n) PROVE Backing'
    BY <2>6 DEF UserCopies, AtCard, ram
  <2> QED
    BY <1>3, <2>1, <2>2, <2>3, <2>4, <2>5, <2>6 DEF Surroundings
<1>4. CASE UNCHANGED vars BY <1>4 DEF vars, ram
<1> QED BY <1>1, <1>2, <1>3, <1>4 DEF Next

LEMMA CheckedNext == TypeOK /\ BackupInv /\ [Next]_vars => Checked'
<1> SUFFICES ASSUME TypeOK, BackupInv, [Next]_vars PROVE Checked'
  OBVIOUS
<1> USE DEF TypeOK, BackupInv, Checked, WrittenAsChecked
<1>1. CASE BackingUp
  <2>1. CASE StartBackup BY <2>1 DEF StartBackup
  <2>2. CASE ReadPartition BY <2>2 DEF ReadPartition, NextBase
  <2>3. CASE ReadFails BY <2>3 DEF ReadFails, BackupFails, End
  <2>4. CASE WriteBin BY <2>4 DEF WriteBin
  <2>5. CASE ReadBackBin BY <2>5 DEF ReadBackBin
  <2>6. CASE WriteJson BY <2>6 DEF WriteJson
  <2>7. CASE BackupDone
    <3>1. CASE job = "restore"
      <4>1. base \in Number /\ Saved(base, flash)
        BY <2>7 DEF BackupDone, Backing, Saved
      <4>2. \E n \in Number : Saved(n, flash)'
        BY <2>7, <3>1, <4>1 DEF BackupDone, Saved
      <4> QED BY <2>7, <3>1, <4>2 DEF BackupDone
    <3>2. CASE job # "restore" BY <2>7, <3>2 DEF BackupDone, End
    <3> QED BY <3>1, <3>2
  <2>8. CASE CardFails BY <2>8 DEF CardFails, BackupFails, End
  <2> QED
    BY <1>1, <2>1, <2>2, <2>3, <2>4, <2>5, <2>6, <2>7, <2>8 DEF BackingUp
<1>2. CASE Restoring
  <2>1. CASE Preview
    <3>1. [image |-> bin[base], origin |-> listed.origin] \in RestoreCheck
      BY <2>1 DEF Preview, CheckPasses, Intact, RestoreCheck, Manifest
    <3> QED BY <2>1, <3>1 DEF Preview
  <2>2. CASE Back BY <2>2 DEF Back
  <2>3. CASE Confirm BY <2>3 DEF Confirm
  <2>4. CASE CloseNvs BY <2>4 DEF CloseNvs
  <2>5. CASE EraseSector BY <2>5 DEF EraseSector
  <2>6. CASE WriteSector BY <2>6 DEF WriteSector
  <2>7. CASE CompareSector
    <3>1. sector \in Sector /\ \A s \in 1 .. sector : flash[s] = check.image[s]
      BY <2>7 DEF CompareSector
    <3>2. CASE sector = LastSector
      <4>1. flash \in Image /\ check.image \in Image
        BY <2>7 DEF CompareSector, RestoreCheck
      <4>2. flash = check.image
        BY <3>1, <3>2, <4>1 DEF Image
      <4> QED BY <2>7, <3>2, <4>2 DEF CompareSector
    <3>3. CASE sector # LastSector
      <4>1. sector + 1 \in Sector /\ 1 .. (sector + 1) - 1 = 1 .. sector
        BY <3>1, <3>3
      <4> QED BY <2>7, <3>1, <3>3, <4>1 DEF CompareSector
    <3> QED BY <3>2, <3>3
  <2>8. CASE OpenNvs BY <2>8 DEF OpenNvs, End
  <2>9. CASE FlashFails BY <2>9 DEF FlashFails, RestoreFails, End
  <2>10. ASSUME NEW n \in Number, ListBackups(n) PROVE Checked'
    BY <2>10 DEF ListBackups
  <2> QED
    BY <1>2, <2>1, <2>2, <2>3, <2>4, <2>5, <2>6, <2>7, <2>8, <2>9, <2>10 DEF Restoring
<1>3. CASE Surroundings
  <2>1. CASE Boot BY <2>1 DEF Boot
  <2>2. CASE Remount BY <2>2 DEF Remount
  <2>3. CASE PowerLoss BY <2>3 DEF PowerLoss
  <2>4. ASSUME NEW s \in Sector, NEW c \in Content, ChangeNvs(s, c) PROVE Checked'
    BY <2>4 DEF ChangeNvs, ram
  <2>5. ASSUME NEW n \in Number, UserDeletes(n) PROVE Checked'
    BY <2>5 DEF UserDeletes, AtCard, ram
  <2>6. ASSUME NEW n \in Number, UserCopies(n) PROVE Checked'
    BY <2>6 DEF UserCopies, AtCard, ram
  <2> QED
    BY <1>3, <2>1, <2>2, <2>3, <2>4, <2>5, <2>6 DEF Surroundings
<1>4. CASE UNCHANGED vars BY <1>4 DEF vars, ram, Saved
<1> QED BY <1>1, <1>2, <1>3, <1>4 DEF Next

LEMMA ProvenanceNext == TypeOK /\ BackupInv /\ [Next]_vars => Provenance'
<1> SUFFICES ASSUME TypeOK, BackupInv, [Next]_vars PROVE Provenance'
  OBVIOUS
<1> USE DEF TypeOK, BackupInv, Provenance, NoForeignPages
<1>1. CASE BackingUp
  <2>1. CASE StartBackup BY <2>1 DEF StartBackup
  <2>2. CASE ReadPartition BY <2>2 DEF ReadPartition, NextBase
  <2>3. CASE ReadFails BY <2>3 DEF ReadFails, BackupFails, End
  <2>4. CASE WriteBin BY <2>4 DEF WriteBin
  <2>5. CASE ReadBackBin BY <2>5 DEF ReadBackBin
  <2>6. CASE WriteJson
    <3>1. image = flash BY <2>6 DEF WriteJson, Backing
    <3>2. PICK stored \in {[origin |-> "here", sha256 |-> image], Damaged} :
            json' = [json EXCEPT ![base] = stored]
      BY <2>6 DEF WriteJson
    <3>3. stored \in Manifest /\ HasForeign(stored.sha256) => adopted
      BY <3>1, <3>2
    <3>4. \A n \in Number : json'[n] = json[n] \/ json'[n] = stored
      BY <3>2
    <3> QED BY <2>6, <3>3, <3>4 DEF WriteJson
  <2>7. CASE BackupDone BY <2>7 DEF BackupDone, End
  <2>8. CASE CardFails BY <2>8 DEF CardFails, BackupFails, End
  <2> QED
    BY <1>1, <2>1, <2>2, <2>3, <2>4, <2>5, <2>6, <2>7, <2>8 DEF BackingUp
<1>2. CASE Restoring
  <2>1. CASE Preview
    <3>1. check' = [image |-> listed.sha256, origin |-> listed.origin] /\ listed \in Manifest
      BY <2>1 DEF Preview, CheckPasses, Intact
    <3>2. listed.origin \in {"here", "unrecorded"}
      BY <2>1 DEF Preview, CheckPasses, Ours, Manifest, Origin
    <3>3. check'.image = listed.sha256 /\ check'.origin = listed.origin
      BY <3>1
    <3>4. (HasForeign(check.image) => adopted \/ check.origin = "unrecorded")'
      BY <2>1, <3>1, <3>2, <3>3 DEF Preview, HasForeign
    <3> QED BY <2>1, <3>4 DEF Preview
  <2>2. CASE Back BY <2>2 DEF Back
  <2>3. CASE Confirm BY <2>3 DEF Confirm
  <2>4. CASE CloseNvs BY <2>4 DEF CloseNvs, Checked
  <2>5. CASE EraseSector
    <3>1. HasForeign(flash') => HasForeign(flash)
      BY <2>5 DEF EraseSector, HasForeign, Image
    <3> QED BY <2>5, <3>1 DEF EraseSector
  <2>6. CASE WriteSector
    <3>1. check \in RestoreCheck /\ sector \in Sector BY <2>6 DEF WriteSector, Checked
    <3>2. HasForeign(flash') => HasForeign(flash) \/ HasForeign(check.image)
      BY <2>6, <3>1 DEF WriteSector, HasForeign, Image
    <3> QED BY <2>6, <3>1, <3>2 DEF WriteSector, Checked
  <2>7. CASE CompareSector BY <2>7 DEF CompareSector
  <2>8. CASE OpenNvs BY <2>8, OpenedImage DEF OpenNvs, End
  <2>9. CASE FlashFails BY <2>9, OpenedImage DEF FlashFails, RestoreFails, End
  <2>10. ASSUME NEW n \in Number, ListBackups(n) PROVE Provenance'
    BY <2>10 DEF ListBackups
  <2> QED
    BY <1>2, <2>1, <2>2, <2>3, <2>4, <2>5, <2>6, <2>7, <2>8, <2>9, <2>10 DEF Restoring
<1>3. CASE Surroundings
  <2>1. CASE Boot BY <2>1, OpenedImage DEF Boot
  <2>2. CASE Remount BY <2>2 DEF Remount
  <2>3. CASE PowerLoss BY <2>3 DEF PowerLoss
  <2>4. ASSUME NEW s \in Sector, NEW c \in Content, ChangeNvs(s, c) PROVE Provenance'
    <3>1. HasForeign(flash') => HasForeign(flash)
      BY <2>4 DEF ChangeNvs, HasForeign, Image
    <3> QED BY <2>4, <3>1 DEF ChangeNvs, ram
  <2>5. ASSUME NEW n \in Number, UserDeletes(n) PROVE Provenance'
    BY <2>5 DEF UserDeletes, AtCard, ram
  <2>6. ASSUME NEW n \in Number, UserCopies(n) PROVE Provenance'
    BY <2>6 DEF UserCopies, AtCard, ram
  <2> QED
    BY <1>3, <2>1, <2>2, <2>3, <2>4, <2>5, <2>6 DEF Surroundings
<1>4. CASE UNCHANGED vars BY <1>4 DEF vars, ram
<1> QED BY <1>1, <1>2, <1>3, <1>4 DEF Next

LEMMA UndoableNext == TypeOK /\ BackupInv /\ [Next]_vars => RestoreUndoable'
<1> SUFFICES ASSUME TypeOK, BackupInv, [Next]_vars PROVE RestoreUndoable'
  OBVIOUS
<1> USE DEF TypeOK, BackupInv, RestoreUndoable, Saved
<1>1. CASE BackingUp
  <2>1. CASE StartBackup BY <2>1 DEF StartBackup
  <2>2. CASE ReadPartition BY <2>2 DEF ReadPartition, NextBase
  <2>3. CASE ReadFails BY <2>3 DEF ReadFails, BackupFails, End
  <2>4. CASE WriteBin
    <3>1. base \in Number /\ bin[base] = None BY <2>4 DEF WriteBin, Backing, Free
    <3>2. \A n \in Number : n # base => bin'[n] = bin[n] BY <2>4 DEF WriteBin
    <3>3. \A i \in owed : i # None BY DEF Image
    <3> QED BY <2>4, <3>1, <3>2, <3>3 DEF WriteBin
  <2>5. CASE ReadBackBin BY <2>5 DEF ReadBackBin
  <2>6. CASE WriteJson
    <3>1. base \in Number /\ json[base] = None BY <2>6 DEF WriteJson, Backing
    <3>2. \A n \in Number : n # base => json'[n] = json[n] BY <2>6 DEF WriteJson
    <3>3. \A i \in owed : [origin |-> "here", sha256 |-> i] # None BY DEF Manifest, Origin
    <3> QED BY <2>6, <3>1, <3>2, <3>3 DEF WriteJson
  <2>7. CASE BackupDone BY <2>7 DEF BackupDone, End
  <2>8. CASE CardFails BY <2>8 DEF CardFails, BackupFails, End
  <2> QED
    BY <1>1, <2>1, <2>2, <2>3, <2>4, <2>5, <2>6, <2>7, <2>8 DEF BackingUp
<1>2. CASE Restoring
  <2>1. CASE Preview BY <2>1 DEF Preview
  <2>2. CASE Back BY <2>2 DEF Back
  <2>3. CASE Confirm BY <2>3 DEF Confirm
  <2>4. CASE CloseNvs BY <2>4 DEF CloseNvs, Checked
  <2>5. CASE EraseSector BY <2>5 DEF EraseSector
  <2>6. CASE WriteSector BY <2>6 DEF WriteSector
  <2>7. CASE CompareSector BY <2>7 DEF CompareSector
  <2>8. CASE OpenNvs BY <2>8 DEF OpenNvs, End
  <2>9. CASE FlashFails BY <2>9 DEF FlashFails, RestoreFails, End
  <2>10. ASSUME NEW n \in Number, ListBackups(n) PROVE RestoreUndoable'
    BY <2>10 DEF ListBackups
  <2> QED
    BY <1>2, <2>1, <2>2, <2>3, <2>4, <2>5, <2>6, <2>7, <2>8, <2>9, <2>10 DEF Restoring
<1>3. CASE Surroundings
  <2>1. CASE Boot BY <2>1 DEF Boot
  <2>2. CASE Remount BY <2>2 DEF Remount
  <2>3. CASE PowerLoss BY <2>3 DEF PowerLoss
  <2>4. ASSUME NEW s \in Sector, NEW c \in Content, ChangeNvs(s, c) PROVE RestoreUndoable'
    BY <2>4 DEF ChangeNvs, ram
  <2>5. ASSUME NEW n \in Number, UserDeletes(n) PROVE RestoreUndoable'
    BY <2>5 DEF UserDeletes, AtCard, ram
  <2>6. ASSUME NEW n \in Number, UserCopies(n) PROVE RestoreUndoable'
    BY <2>6 DEF UserCopies, AtCard, ram
  <2> QED
    BY <1>3, <2>1, <2>2, <2>3, <2>4, <2>5, <2>6 DEF Surroundings
<1>4. CASE UNCHANGED vars BY <1>4 DEF vars, ram
<1> QED BY <1>1, <1>2, <1>3, <1>4 DEF Next

-----------------------------------------------------------------------------
(* The theorems.                                                           *)

IndInv == TypeOK /\ BackupInv

LEMMA Inductive == Spec => []IndInv
<1>1. Init => IndInv
  BY TypeInit, InvInit DEF IndInv
<1>2. IndInv /\ [Next]_vars => IndInv'
  BY TypeNext, BackingNext, CheckedNext, ProvenanceNext, UndoableNext DEF IndInv, BackupInv
<1> QED BY <1>1, <1>2, PTL DEF Spec

\* The variables of the model keep to their types.
THEOREM TypesPreserved == Spec => []TypeOK
<1>1. IndInv => TypeOK
  BY DEF IndInv
<1> QED BY <1>1, Inductive, PTL

\* Whatever fails after a restore began to replace the partition, its old
\* content is on the card as a complete backup until the user touches the card.
THEOREM OldContentIsSaved == Spec => []RestoreUndoable
<1>1. IndInv => RestoreUndoable
  BY DEF IndInv, BackupInv
<1> QED BY <1>1, Inductive, PTL

\* Pages of another device reach the partition only through a backup that does
\* not record its device.
THEOREM ForeignPagesStayOut == Spec => []NoForeignPages
<1>1. IndInv => NoForeignPages
  BY DEF IndInv, BackupInv, Provenance
<1> QED BY <1>1, Inductive, PTL

\* The partition is opened again only when every sector holds what the checked
\* image has there.
THEOREM ImageIsWritten == Spec => []WrittenAsChecked
<1>1. IndInv => WrittenAsChecked
  BY DEF IndInv, BackupInv, Checked
<1> QED BY <1>1, Inductive, PTL

\* No step of the program replaces a file that is on the card.
THEOREM FilesAreKept == Spec => NeverOverwrites
<1>1. IndInv /\ [Next]_vars =>
        [\A n \in Number : pc \in {"bin", "json"} =>
            /\ bin[n] # None => bin'[n] = bin[n]
            /\ json[n] # None => json'[n] = json[n]]_vars
  <2> SUFFICES ASSUME IndInv, Next, NEW n \in Number, pc \in {"bin", "json"}
               PROVE  /\ bin[n] # None => bin'[n] = bin[n]
                      /\ json[n] # None => json'[n] = json[n]
    OBVIOUS
  <2>1. CASE WriteBin
    BY <2>1 DEF WriteBin, IndInv, TypeOK, BackupInv, Backing, Free
  <2>2. CASE WriteJson
    BY <2>2 DEF WriteJson, IndInv, TypeOK, BackupInv, Backing
  <2>3. CASE CardFails
    BY <2>3 DEF CardFails, BackupFails
  <2>4. CASE PowerLoss
    BY <2>4 DEF PowerLoss
  <2> QED
    BY <2>1, <2>2, <2>3, <2>4
    DEF Next, BackingUp, Restoring, Surroundings, StartBackup, ReadPartition, ReadFails,
        ReadBackBin, BackupDone, ListBackups, Preview, Back, Confirm, CloseNvs, EraseSector,
        WriteSector, CompareSector, OpenNvs, FlashFails, Boot, Remount, ChangeNvs,
        UserDeletes, UserCopies, AtCard
<1> QED BY <1>1, Inductive, PTL DEF Spec, NeverOverwrites

=============================================================================
