-------------------------- MODULE EngineProperties --------------------------
(***************************************************************************)
(* What must hold of updates and rollbacks, in EngineCutover.              *)
(***************************************************************************)
EXTENDS EngineCutover

Places   == {"legacy", "private"}
Receipts == [status : {"none", "publishing", "private", "legacy"}, db : Database \cup {None}]

FloorTypes ==
  /\ disk \in SUBSET Versions /\ disk # {}
  /\ pin \in Versions \cup {NoVersion} /\ prev \in Versions \cup {NoVersion}
  /\ manifest \in Versions \cup {NoVersion}

CopyTypes ==
  /\ legacy \in Database \cup {None, Torn} /\ private \in Database \cup {None, Torn}
  /\ candidate \in Database \cup {None} /\ receipt \in Receipts

BackupTypes == restore \in [Places -> Database \cup {None}] /\ kept \in SUBSET (1..MaxRow)

CountTypes ==
  /\ server \in BOOLEAN /\ intent \in BOOLEAN
  /\ written \in 0..MaxRow /\ expected \in SUBSET (1..written)
  /\ acts \in 0..MaxActs /\ aborts \in 0..MaxAborts

(* Types: the floor and its pins, the copies of the database, the backups, the
   runtime and the bounds. *)
TypeOK == FloorTypes /\ CopyTypes /\ BackupTypes /\ CountTypes

RowsOf(db) == IF db \in {None, Torn} THEN {} ELSE db.rows

(* No row is ever lost: what is in no backup is in a whole database that the next
   command starts from, wherever a relocation or a rollback was cut short. *)
NothingIsLost ==
  1..written \subseteq kept \cup RowsOf(legacy) \cup RowsOf(private)

(* The database that a launch would open has every row that was not rolled back,
   and none that was. *)
SelectorIsCurrent ==
  Named # "refused" /\ Copy(Named) # Torn /\ cmd.at # "copying" => RowsOf(Copy(Named)) = expected

(* A rollback that was cut short, or a database used since under an older floor's
   receipt: "by hand" from here on. *)
ByHand ==
  \/ Torn \in {legacy, private}
  \/ receipt.status = "legacy"
  \/ receipt.status = "private" /\ legacy \notin {None, receipt.db}

Whole(db) == db \notin {None, Torn}

Complete ==
  /\ cmd = Idle /\ disk = {pin} /\ Named # "refused" /\ Whole(Copy(Named))
  /\ Copy(Named).schema >= Schema(pin) /\ ~intent

(* An update that was cut short anywhere ends when it is run again, with the
   release pinned that is on the floor and its schema in the live database. *)
UpdateResumes == At("laying") ~> Complete \/ ByHand
=============================================================================
