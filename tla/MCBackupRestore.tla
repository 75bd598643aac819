--------------------------- MODULE MCBackupRestore ---------------------------
(***************************************************************************)
(* Two sectors and two backup numbers: a restore can stop between sectors, *)
(* and the card is full after the backup of one restore.                   *)
(***************************************************************************)
EXTENDS BackupRestore

mcSector == 1 .. 2

\* A card that has never been in another device: the user only deletes backups.
OwnCardNext ==
  \/ BackingUp \/ Restoring \/ Boot \/ Remount \/ PowerLoss
  \/ \E s \in Sector, c \in Content : ChangeNvs(s, c)
  \/ \E n \in Number : UserDeletes(n)

OwnCardSpec == Init /\ [][OwnCardNext]_vars
=============================================================================
