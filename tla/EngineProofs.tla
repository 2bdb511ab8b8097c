------------------------------ MODULE EngineProofs ------------------------------
(***************************************************************************)
(* Theorems about EngineCutover, for every number of releases, migration   *)
(* files, rows, launches and aborts: its types are kept, no row is ever    *)
(* lost, and the selector names a current database.                        *)
(***************************************************************************)
EXTENDS EngineProperties, WellFoundedInduction, TLAPS

Stages ==
  {"idle", "laying", "hashing", "stopping", "noting", "leasing", "relocating", "declaring",
   "backing", "migrating", "restarting", "erasing", "copying", "reviving", "receipting",
   "dropping", "relaying", "repinning", "rehashing", "consuming"}

Commands ==
  [at : Stages, target : Versions \cup {NoVersion}, backup : BOOLEAN,
   live : Places \cup {"none"}, src : Database \cup {None}]

(* What the stages of a command know of the release they bring. *)
CommandOK ==
  /\ cmd \in Commands
  /\ cmd.at \in {"laying", "hashing"} => cmd.target \in Versions
  /\ cmd.at \in {"reviving", "receipting", "dropping", "relaying", "repinning", "rehashing"}
       => prev \in Versions

TypeInv == TypeOK /\ CommandOK

Saved(db) == RowsOf(db) \subseteq kept

(* What was copied has been backed up. *)
CopiesAreSaved ==
  /\ kept \subseteq 1..written
  /\ \A place \in Places : Saved(restore[place])
  /\ Saved(candidate) /\ Saved(receipt.db) /\ Saved(cmd.src)
  /\ receipt.status \in {"publishing", "private"} => Saved(legacy)

RowsAreWritten == RowsOf(legacy) \cup RowsOf(private) \subseteq 1..written

(* Every status of the receipt has the databases it speaks of. *)
ReceiptOK ==
  /\ receipt.status # "none" => receipt.db # None
  /\ receipt.status = "none" => legacy # None \/ private # None
  /\ receipt.status = "private" => private # None
  /\ receipt.status = "legacy" => legacy # None
  /\ receipt.status = "publishing" => receipt.db.rows = expected

(* The runtime is down under a command's lease, and up over a whole database. *)
RuntimeOK ==
  /\ Leased => ~server
  /\ server /\ Named # "refused" => Whole(Copy(Named))

(* What the stages of an update found. *)
UpdateOK ==
  /\ At("declaring") => /\ candidate = legacy /\ Named = "legacy" /\ Whole(legacy)
  /\ cmd.at \in {"backing", "migrating", "restarting"} => Named = "private"
  /\ cmd.at \in {"migrating", "restarting"} => Whole(private)

(* What the stages of a rollback found. *)
RollbackOK ==
  /\ cmd.at \in {"erasing", "copying", "reviving"} => cmd.live \in Places /\ Named = cmd.live
  /\ cmd.at \in {"erasing", "reviving"} => Whole(Copy(Named)) /\ Saved(Copy(Named))
  /\ At("copying") => Copy(cmd.live) = Torn
  /\ cmd.at \in {"erasing", "copying"} => Whole(cmd.src)
  /\ cmd.at \in {"receipting", "dropping"}
       => /\ Whole(private) /\ Saved(private) /\ private.rows = expected
          /\ legacy = private
  /\ At("dropping") => receipt.status = "legacy"
  /\ At("receipting") => Named \in {"private", "refused"}

CutoverInv ==
  /\ TypeInv /\ NothingIsLost /\ SelectorIsCurrent
  /\ CopiesAreSaved /\ RowsAreWritten /\ ReceiptOK /\ RuntimeOK /\ UpdateOK /\ RollbackOK

LEMMA Smallest ==
  ASSUME NEW T \in SUBSET Nat, T # {} PROVE \E x \in T : \A y \in T : x <= y
<1> DEFINE R == {ss \in Nat \X Nat : ss[1] < ss[2]}
<1>1. IsWellFoundedOn(R, Nat)
  BY NatLessThanWellFounded DEF OpToRel
<1>2. \A x, y \in Nat : <<y, x>> \in R <=> y < x
  OBVIOUS
<1> HIDE DEF R
<1>3. \E x \in T : \A y \in T : ~ (<<y, x>> \in R)
  <2>1. T \subseteq Nat /\ T # {}
    OBVIOUS
  <2> QED
    BY ONLY <1>1, <2>1, WFMin, Zenon
<1>4. PICK x \in T : \A y \in T : ~ (<<y, x>> \in R)
  BY <1>3
<1>5. ASSUME NEW y \in T PROVE x <= y
  <2>1. x \in Nat /\ y \in Nat /\ ~(y < x)
    BY <1>2, <1>4
  <2> QED
    BY <2>1
<1> QED
  BY <1>5

LEMMA NewestIs ==
  ASSUME NEW S \in SUBSET Versions, S # {}
  PROVE Newest(S) \in S /\ \A w \in S : w <= Newest(S)
<1> DEFINE T == {MaxVersion - v : v \in S}
<1>1. MaxVersion \in Nat /\ \A v \in S : v \in 0..MaxVersion
  BY CutoverConstants DEF Versions
<1>2. T \in SUBSET Nat
  BY <1>1
<1>3. T # {}
  OBVIOUS
<1> HIDE DEF T
<1>4. PICK x \in T : \A y \in T : x <= y
  BY <1>2, <1>3, Smallest
<1>5. PICK v \in S : x = MaxVersion - v
  BY <1>4 DEF T
<1>6. \A w \in S : w <= v
  <2> SUFFICES ASSUME NEW w \in S PROVE w <= v
    OBVIOUS
  <2>1. MaxVersion - w \in T
    BY DEF T
  <2>2. MaxVersion - v <= MaxVersion - w
    BY <1>4, <1>5, <2>1
  <2> QED
    BY <1>1, <2>2
<1> QED
  BY <1>5, <1>6 DEF Newest

(* The selector, by what there is. *)
NamedBy(status, l, p, place) ==
  /\ status = "publishing" => place = "refused"
  /\ status = "private" => place = "private"
  /\ status \notin {"publishing", "private"}
       => place = IF l = None THEN "private" ELSE IF p = None THEN "legacy" ELSE "refused"

LEMMA NamedIs == /\ NamedBy(receipt.status, legacy, private, Named)
                 /\ NamedBy(receipt'.status, legacy', private', Named')
BY DEF Named, NamedBy

LEMMA RefusesIs ==
  ASSUME ~Refuses
  PROVE /\ receipt.status = "publishing" =>
             receipt.db = IF private # None THEN private
                          ELSE IF candidate # None THEN candidate ELSE legacy
        /\ receipt.status = "private" => private # None /\ legacy \in {None, receipt.db}
        /\ receipt.status \notin {"publishing", "private"}
             => Unmoved /\ (legacy = None \/ private = None) /\ legacy # Torn
BY DEF Refuses

LEMMA NamedIsThere ==
  ASSUME CutoverInv, Named \in Places PROVE Copy(Named) # None
<1>1. receipt.status \in {"none", "publishing", "private", "legacy"}
  BY DEF CutoverInv, TypeInv, TypeOK, CopyTypes, Receipts
<1>2. CASE receipt.status = "publishing"
  BY <1>2, NamedIs DEF NamedBy, Places
<1>3. CASE receipt.status = "private"
  BY <1>3, NamedIs DEF NamedBy, CutoverInv, ReceiptOK, Copy
<1>4. CASE receipt.status \in {"none", "legacy"}
  BY <1>4, NamedIs DEF NamedBy, CutoverInv, ReceiptOK, Copy
<1> QED
  BY <1>1, <1>2, <1>3, <1>4

LEMMA SchemaTypes == \A v \in Versions : Schema(v) \in 0..Schema(MaxVersion)
<1> SUFFICES ASSUME NEW v \in Versions PROVE Schema(v) \in 0..Schema(MaxVersion)
  OBVIOUS
<1>1. v \in Nat /\ MaxVersion \in Nat /\ Files \in Nat /\ v <= MaxVersion
  BY CutoverConstants DEF Versions
<1>2. v * Files \in Nat /\ MaxVersion * Files \in Nat /\ v * Files <= MaxVersion * Files
  BY <1>1
<1> QED
  BY <1>2 DEF Schema

LEMMA GotoTypes ==
  ASSUME cmd \in Commands, NEW x \in Stages, Goto(x)
  PROVE /\ cmd' \in Commands /\ cmd'.at = x
        /\ cmd'.target = cmd.target /\ cmd'.live = cmd.live /\ cmd'.src = cmd.src
        /\ cmd'.backup = cmd.backup
BY DEF Commands, Goto

LEMMA IdleTypes == Idle \in Commands /\ Idle.at = "idle" /\ Idle.live = "none" /\ Idle.src = None
BY DEF Commands, Idle, Stages, Places

LEMMA StageNames ==
  {"idle", "laying", "hashing", "stopping", "noting", "leasing", "relocating", "declaring",
   "backing", "migrating", "restarting", "erasing", "copying", "reviving", "receipting",
   "dropping", "relaying", "repinning", "rehashing", "consuming"} \subseteq Stages
BY DEF Stages

LEMMA CommandKept ==
  ASSUME CutoverInv, Next PROVE CommandOK'
<1>0. cmd \in Commands /\ CommandOK
  BY DEF CutoverInv, TypeInv, CommandOK
<1>1. CASE Overlay \/ Publish \/ Settle \/ Retire \/ Migrate \/ Launch \/ Write
  <2>1. UNCHANGED cmd /\ prev' = prev
    BY <1>1 DEF Overlay, Publish, Settle, Retire, Migrate, Launch, Write, floor
  <2> QED
    BY <1>0, <2>1 DEF CommandOK
<1>2. CASE Refuse \/ Restart \/ Abort \/ Consume
  <2>1. cmd' = Idle
    BY <1>2 DEF Refuse, Restart, Abort, Consume
  <2> QED
    BY <2>1, IdleTypes DEF CommandOK
<1>3. CASE Lay
  BY <1>0, <1>3, GotoTypes, StageNames DEF Lay, CommandOK, At, floor
<1>4. CASE Hash
  BY <1>0, <1>4, GotoTypes, StageNames DEF Hash, CommandOK, At, floor
<1>5. CASE StopRuntime
  BY <1>0, <1>5, GotoTypes, StageNames DEF StopRuntime, CommandOK, At, floor
<1>6. CASE NoteIntent
  BY <1>0, <1>6, GotoTypes, StageNames DEF NoteIntent, CommandOK, At, floor
<1>7. CASE Prepare
  BY <1>0, <1>7, GotoTypes, StageNames DEF Prepare, CommandOK, At, floor
<1>8. CASE Declare
  BY <1>0, <1>8, GotoTypes, StageNames DEF Declare, CommandOK, At, floor
<1>9. CASE Relocated
  BY <1>0, <1>9, GotoTypes, StageNames DEF Relocated, CommandOK, At, floor
<1>10. CASE PublishRef
  BY <1>0, <1>10, GotoTypes, StageNames DEF PublishRef, CommandOK, At, floor
<1>11. CASE Erase
  BY <1>0, <1>11, GotoTypes, StageNames DEF Erase, CommandOK, At, floor
<1>12. CASE ReceiptLegacy
  BY <1>0, <1>12, GotoTypes, StageNames DEF ReceiptLegacy, CommandOK, At, floor
<1>13. CASE ReviveLegacy
  BY <1>0, <1>13, GotoTypes, StageNames DEF ReviveLegacy, CommandOK, At, floor
<1>14. CASE Revive
  BY <1>0, <1>14, GotoTypes, StageNames DEF Revive, CommandOK, At, floor
<1>15. CASE Relay
  BY <1>0, <1>15, GotoTypes, StageNames DEF Relay, CommandOK, At, floor
<1>16. CASE Repin
  BY <1>0, <1>16, GotoTypes, StageNames DEF Repin, CommandOK, At, floor
<1>17. CASE Rehash
  BY <1>0, <1>17, GotoTypes, StageNames DEF Rehash, CommandOK, At, floor
<1>18. CASE BeginReconcile
  BY <1>0, <1>18, IdleTypes, StageNames DEF BeginReconcile, CommandOK, Commands, Places, At,
     Idle, floor
<1>19. CASE Lease
  BY <1>0, <1>19, IdleTypes, StageNames DEF Lease, CommandOK, Commands, Places, At, Idle, floor
<1>20. CASE BackUp
  BY <1>0, <1>20, IdleTypes, StageNames DEF BackUp, CommandOK, Commands, Places, At, Idle, floor
<1>21. CASE Restore
  <2>1. cmd' = Idle \/ (Goto("reviving") /\ prev # NoVersion)
    BY <1>21 DEF Restore, Goto
  <2>2. UNCHANGED prev /\ prev \in Versions \cup {NoVersion}
    BY <1>21 DEF Restore, floor, CutoverInv, TypeInv, TypeOK, FloorTypes
  <2> QED
    BY <1>0, <2>1, <2>2, IdleTypes, GotoTypes, StageNames DEF CommandOK
<1>22. CASE DropPrivate
  BY <1>0, <1>22, IdleTypes, StageNames DEF DropPrivate, CommandOK, Commands, Places, At, Idle,
     floor
<1>23. ASSUME NEW v \in Versions, BeginUpdate(v) PROVE CommandOK'
  BY <1>23, IdleTypes, StageNames DEF BeginUpdate, Idle, CommandOK, Commands
<1>24. ASSUME NEW place \in Places, BeginRollback(place) \/ BeginEngineOnly(place) PROVE CommandOK'
  <2>1. Idle.src = None /\ cmd' \in Commands /\ cmd'.at \in {"erasing", "reviving"}
    <3>1. CASE BeginRollback(place)
      BY <3>1, IdleTypes, StageNames DEF BeginRollback, Undo, Commands, CutoverInv, TypeInv, TypeOK,
         BackupTypes
    <3>2. CASE BeginEngineOnly(place)
      BY <3>2, IdleTypes, StageNames DEF BeginEngineOnly, Undo, Commands
    <3> QED
      BY <1>24, <3>1, <3>2, IdleTypes
  <2>2. BeginEngineOnly(place) => prev' \in Versions
    BY DEF BeginEngineOnly, Undo, floor, CutoverInv, TypeInv, TypeOK, FloorTypes
  <2>3. BeginRollback(place) => cmd'.at = "erasing"
    BY IdleTypes DEF BeginRollback, Undo, Idle
  <2> QED
    BY <1>24, <2>1, <2>2, <2>3 DEF CommandOK
<1> QED
  BY <1>1, <1>2, <1>3, <1>4, <1>5, <1>6, <1>7, <1>8, <1>9, <1>10, <1>11, <1>12, <1>13, <1>14,
     <1>15, <1>16, <1>17, <1>18, <1>19, <1>20, <1>21, <1>22, <1>23, <1>24 DEF Next, UpdateStep,
     RollbackStep, Relocation, Update, Places

LEMMA DatabaseIs ==
  \A db \in Database :
    /\ db # None /\ db # Torn /\ RowsOf(db) = db.rows
    /\ db.rows \in SUBSET (1..MaxRow) /\ db.schema \in 0..Schema(MaxVersion)
    /\ \A n \in 1..MaxRow : LET x == [db EXCEPT !.rows = @ \cup {n}]
                            IN x \in Database /\ x.rows = db.rows \cup {n} /\ x.schema = db.schema
    /\ db.schema < Schema(MaxVersion) =>
         LET x == [db EXCEPT !.schema = @ + 1]
         IN x \in Database /\ x.rows = db.rows
<1> SUFFICES ASSUME NEW db \in Database
             PROVE /\ db # None /\ db # Torn /\ RowsOf(db) = db.rows
                   /\ db.rows \in SUBSET (1..MaxRow) /\ db.schema \in 0..Schema(MaxVersion)
                   /\ \A n \in 1..MaxRow :
                        LET x == [db EXCEPT !.rows = @ \cup {n}]
                        IN x \in Database /\ x.rows = db.rows \cup {n} /\ x.schema = db.schema
                   /\ db.schema < Schema(MaxVersion) =>
                        LET x == [db EXCEPT !.schema = @ + 1]
                        IN x \in Database /\ x.rows = db.rows
  OBVIOUS
<1>1. db # None /\ db # Torn
  BY CutoverConstants
<1>2. Schema(MaxVersion) \in Nat
  BY SchemaTypes, CutoverConstants DEF Versions
<1>3. db.rows \in SUBSET (1..MaxRow) /\ db.schema \in 0..Schema(MaxVersion)
  BY DEF Database
<1>4. ASSUME NEW n \in 1..MaxRow
      PROVE LET x == [db EXCEPT !.rows = @ \cup {n}]
            IN x \in Database /\ x.rows = db.rows \cup {n} /\ x.schema = db.schema
  BY <1>4 DEF Database
<1>5. ASSUME db.schema < Schema(MaxVersion)
      PROVE LET x == [db EXCEPT !.schema = @ + 1] IN x \in Database /\ x.rows = db.rows
  BY <1>2, <1>5 DEF Database
<1> QED
  BY <1>1, <1>3, <1>4, <1>5 DEF RowsOf

(* A migration file changes no row. *)
LEMMA MigrateKeepsRows ==
  ASSUME CutoverInv, Migrate
  PROVE private \in Database /\ private' \in Database /\ private'.rows = private.rows
<1>1. private \in Database /\ Pending
  BY DEF Migrate, At, CutoverInv, UpdateOK, Whole, TypeInv, TypeOK, CopyTypes
<1>2. private.schema < Schema(MaxVersion)
  <2>1. Newest(disk) \in Versions
    BY NewestIs DEF CutoverInv, TypeInv, TypeOK, FloorTypes
  <2>2. Schema(Newest(disk)) \in 0..Schema(MaxVersion) /\ Schema(MaxVersion) \in Nat
    BY <2>1, SchemaTypes, CutoverConstants DEF Versions
  <2>3. private.schema \in 0..Schema(MaxVersion)
    BY <1>1 DEF Database
  <2> QED
    BY <1>1, <2>2, <2>3 DEF Pending
<1>3. PICK x \in Database : x = [private EXCEPT !.schema = @ + 1] /\ x.rows = private.rows
  BY <1>1, <1>2, DatabaseIs
<1> QED
  BY <1>1, <1>3 DEF Migrate

LEMMA FloorKept ==
  ASSUME CutoverInv, Next PROVE FloorTypes'
<1>0. FloorTypes /\ CommandOK
  BY DEF CutoverInv, TypeInv, TypeOK
<1>1. CASE BeginReconcile \/ StopRuntime \/ NoteIntent \/ Lease \/ Refuse \/ Prepare \/
            Declare \/ Publish \/ Settle \/ Retire \/ Relocated \/ BackUp \/ Migrate \/
            Restart \/ Erase \/ Restore \/ ReviveLegacy \/ ReceiptLegacy \/ DropPrivate \/
            Abort \/ Launch \/ Write
  BY <1>0, <1>1
     DEF BeginReconcile, StopRuntime, NoteIntent, Lease, Refuse, Prepare, Declare, Publish,
         Settle, Retire, Relocated, BackUp, Migrate, Restart, Erase, Restore, ReviveLegacy,
         ReceiptLegacy, DropPrivate, Abort, Launch, Write, FloorTypes, floor
<1>2. CASE Overlay
  BY <1>0, <1>2 DEF Overlay, FloorTypes, CommandOK, At
<1>3. CASE Lay
  BY <1>0, <1>3 DEF Lay, FloorTypes, CommandOK, At
<1>4. CASE Hash
  BY <1>0, <1>4 DEF Hash, FloorTypes, CommandOK, At
<1>5. CASE Revive
  BY <1>0, <1>5 DEF Revive, FloorTypes, CommandOK, At
<1>6. CASE Relay
  BY <1>0, <1>6 DEF Relay, FloorTypes, CommandOK, At
<1>7. CASE Repin
  BY <1>0, <1>7 DEF Repin, FloorTypes, CommandOK, At
<1>8. CASE Rehash
  BY <1>0, <1>8 DEF Rehash, FloorTypes, CommandOK, At
<1>9. CASE Consume
  BY <1>0, <1>9 DEF Consume, FloorTypes, CommandOK, At
<1>10. CASE PublishRef
  <2>1. UNCHANGED <<disk, prev, manifest>> /\ pin' \in {pin, cmd.target}
    BY <1>10 DEF PublishRef, FloorTypes
  <2>2. cmd.target \in Versions \cup {NoVersion}
    BY <1>0 DEF CommandOK, Commands
  <2> QED
    BY <1>0, <2>1, <2>2 DEF FloorTypes
<1>11. ASSUME NEW v \in Versions, BeginUpdate(v) PROVE FloorTypes'
  BY <1>0, <1>11 DEF BeginUpdate, FloorTypes, floor
<1>12. ASSUME NEW place \in Places, BeginRollback(place) \/ BeginEngineOnly(place)
      PROVE FloorTypes'
  BY <1>0, <1>12 DEF BeginRollback, BeginEngineOnly, Undo, FloorTypes, floor
<1> QED
  BY <1>1, <1>2, <1>3, <1>4, <1>5, <1>6, <1>7, <1>8, <1>9, <1>10, <1>11, <1>12
     DEF Next, UpdateStep, RollbackStep, Relocation, Update, Places

LEMMA CopiesKept ==
  ASSUME CutoverInv, Next PROVE CopyTypes'
<1>0. CopyTypes /\ CommandOK
  BY DEF CutoverInv, TypeInv, TypeOK
<1>1. CASE BeginReconcile \/ Overlay \/ Lay \/ Hash \/ StopRuntime \/ NoteIntent \/ Lease \/
            Refuse \/ Relocated \/ BackUp \/ PublishRef \/ Restart \/ Revive \/ Relay \/
            Repin \/ Rehash \/ Consume \/ Abort \/ Launch
  BY <1>0, <1>1
     DEF BeginReconcile, Overlay, Lay, Hash, StopRuntime, NoteIntent, Lease, Refuse, Relocated,
         BackUp, PublishRef, Restart, Revive, Relay, Repin, Rehash, Consume, Abort, Launch,
         CopyTypes, copies
<1>2. CASE Write
  <2>1. PICK db \in Database : db = Copy(Named)
    BY <1>0, <1>2, NamedIs DEF CutoverInv, RuntimeOK, Write, Whole, Copy, CopyTypes
  <2>2. written' \in 1..MaxRow
    BY <1>2, CutoverConstants DEF Write, CutoverInv, TypeInv, TypeOK, CountTypes
  <2>3. PICK x \in Database : x = [db EXCEPT !.rows = @ \cup {written'}]
    BY <2>2, DatabaseIs
  <2>4. /\ legacy' \in {legacy, x} /\ private' \in {private, x}
        /\ UNCHANGED <<candidate, receipt>>
    BY <1>2, <2>1, <2>3 DEF Write, Store
  <2> QED
    BY <1>0, <2>4 DEF CopyTypes
<1>3. CASE Prepare
  <2>1. UNCHANGED <<legacy, private, receipt>> /\ candidate' = legacy /\ legacy # None
    BY <1>3 DEF Prepare, CopyTypes
  <2>2. legacy # Torn
    BY <1>3, RefusesIs DEF Prepare
  <2> QED
    BY <1>0, <2>1, <2>2 DEF CopyTypes
<1>4. CASE Declare
  <2>1. /\ UNCHANGED <<legacy, private, candidate>>
        /\ receipt' = [status |-> "publishing", db |-> candidate]
    BY <1>4 DEF Declare
  <2> QED
    BY <1>0, <2>1 DEF CopyTypes, Receipts
<1>5. CASE Publish
  <2>1. UNCHANGED <<legacy, receipt>> /\ private' = receipt.db /\ candidate' = None
    BY <1>5 DEF Publish
  <2> QED
    BY <1>0, <2>1 DEF CopyTypes, Receipts
<1>6. CASE Settle
  <2>1. UNCHANGED <<legacy, private, candidate>> /\ receipt' = [receipt EXCEPT !.status = "private"]
    BY <1>6 DEF Settle
  <2> QED
    BY <1>0, <2>1 DEF CopyTypes, Receipts
<1>7. CASE Retire
  BY <1>0, <1>7 DEF Retire, CopyTypes
<1>8. CASE Migrate
  BY <1>0, <1>8, MigrateKeepsRows DEF Migrate, CopyTypes
<1>9. CASE Erase
  BY <1>0, <1>9 DEF Erase, CopyTypes, Store
<1>10. CASE Restore
  <2>1. cmd.src \in Database
    BY <1>0, <1>10 DEF Restore, At, CutoverInv, RollbackOK, Whole, CommandOK, Commands
  <2> QED
    BY <1>0, <1>10, <2>1 DEF Restore, CopyTypes, Store
<1>11. CASE ReviveLegacy
  BY <1>0, <1>11 DEF ReviveLegacy, CopyTypes
<1>12. CASE ReceiptLegacy
  <2>1. private \in Database
    BY <1>0, <1>12 DEF ReceiptLegacy, At, CutoverInv, RollbackOK, Whole, CopyTypes
  <2>2. /\ UNCHANGED <<legacy, private, candidate>>
        /\ receipt' = [status |-> "legacy", db |-> private]
    BY <1>12 DEF ReceiptLegacy
  <2> QED
    BY <1>0, <2>1, <2>2 DEF CopyTypes, Receipts
<1>13. CASE DropPrivate
  BY <1>0, <1>13 DEF DropPrivate, CopyTypes
<1>14. ASSUME NEW v \in Versions, BeginUpdate(v) PROVE CopyTypes'
  BY <1>0, <1>14 DEF BeginUpdate, CopyTypes, copies
<1>15. ASSUME NEW place \in Places, BeginRollback(place) \/ BeginEngineOnly(place)
      PROVE CopyTypes'
  BY <1>0, <1>15 DEF BeginRollback, BeginEngineOnly, Undo, CopyTypes, copies
<1> QED
  BY <1>1, <1>2, <1>3, <1>4, <1>5, <1>6, <1>7, <1>8, <1>9, <1>10, <1>11, <1>12, <1>13, <1>14,
     <1>15
     DEF Next, UpdateStep, RollbackStep, Relocation, Update, Places

LEMMA BackupsKept ==
  ASSUME CutoverInv, Next PROVE BackupTypes'
<1>0. BackupTypes /\ CommandOK
  BY DEF CutoverInv, TypeInv, TypeOK
<1>1. CASE BeginReconcile \/ Overlay \/ Lay \/ Hash \/ StopRuntime \/ NoteIntent \/ Lease \/
            Refuse \/ Declare \/ Publish \/ Settle \/ Retire \/ Relocated \/ Migrate \/
            PublishRef \/ Restart \/ Erase \/ Restore \/ ReviveLegacy \/ ReceiptLegacy \/
            DropPrivate \/ Revive \/ Relay \/ Repin \/ Rehash \/ Consume \/ Abort \/ Launch \/
            Write
  BY <1>0, <1>1
     DEF BeginReconcile, Overlay, Lay, Hash, StopRuntime, NoteIntent, Lease, Refuse, Declare,
         Publish, Settle, Retire, Relocated, Migrate, PublishRef, Restart, Erase, Restore,
         ReviveLegacy, ReceiptLegacy, DropPrivate, Revive, Relay, Repin, Rehash, Consume,
         Abort, Launch, Write, BackupTypes, backups
<1>2. CASE Prepare
  <2>1. legacy \in Database
    BY <1>2, RefusesIs DEF Prepare, CutoverInv, TypeInv, TypeOK, CopyTypes
  <2>2. restore' = [restore EXCEPT !["private"] = legacy] /\ kept' = kept \cup legacy.rows
    BY <1>2 DEF Prepare
  <2> QED
    BY <1>0, <2>1, <2>2, DatabaseIs DEF BackupTypes
<1>3. CASE BackUp
  <2>1. CASE UNCHANGED backups
    BY <1>0, <2>1 DEF BackupTypes, backups
  <2>2. CASE cmd.backup /\ private # Torn
    <3>1. restore' = [restore EXCEPT !["private"] = private] /\ kept' = kept \cup private.rows
      BY <1>3, <2>2 DEF BackUp
    <3>2. private # None
      BY <1>3, NamedIsThere DEF BackUp, At, CutoverInv, UpdateOK, Copy, Places
    <3>3. private \in Database
      BY <2>2, <3>2 DEF CutoverInv, TypeInv, TypeOK, CopyTypes
    <3> QED
      BY <1>0, <3>1, <3>3, DatabaseIs DEF BackupTypes
  <2> QED
    BY <1>3, <2>1, <2>2 DEF BackUp
<1>4. ASSUME NEW v \in Versions, BeginUpdate(v) PROVE BackupTypes'
  BY <1>0, <1>4 DEF BeginUpdate, BackupTypes, backups
<1>5. ASSUME NEW place \in Places, BeginRollback(place) \/ BeginEngineOnly(place)
      PROVE BackupTypes'
  <2>1. Copy(place) \in Database
    BY <1>5 DEF BeginRollback, BeginEngineOnly, Undo, Copy, CutoverInv, TypeInv, TypeOK, CopyTypes
  <2>2. UNCHANGED restore /\ kept' = kept \cup Copy(place).rows
    BY <1>5 DEF BeginRollback, BeginEngineOnly, Undo
  <2> QED
    BY <1>0, <2>1, <2>2, DatabaseIs DEF BackupTypes
<1> QED
  BY <1>1, <1>2, <1>3, <1>4, <1>5
     DEF Next, UpdateStep, RollbackStep, Relocation, Update, Places

LEMMA CountsKept ==
  ASSUME CutoverInv, Next PROVE CountTypes'
<1>0. CountTypes /\ CommandOK
  BY DEF CutoverInv, TypeInv, TypeOK
<1>1. CASE Overlay \/ Lay \/ Hash \/ Lease \/ Refuse \/ Prepare \/ Declare \/ Publish \/
            Settle \/ Retire \/ Relocated \/ BackUp \/ Migrate \/ PublishRef \/ Erase \/
            ReviveLegacy \/ ReceiptLegacy \/ DropPrivate \/ Revive \/ Relay \/ Repin \/
            Rehash \/ Consume
  BY <1>0, <1>1
     DEF Overlay, Lay, Hash, Lease, Refuse, Prepare, Declare, Publish, Settle, Retire,
         Relocated, BackUp, Migrate, PublishRef, Erase, ReviveLegacy, ReceiptLegacy,
         DropPrivate, Revive, Relay, Repin, Rehash, Consume, CountTypes, runtime, rows, bounds
<1>2. CASE Launch
  BY <1>0, <1>2, CutoverConstants DEF Launch, CountTypes, runtime, rows, bounds
<1>3. CASE BeginReconcile
  BY <1>0, <1>3, CutoverConstants DEF BeginReconcile, CountTypes, runtime, rows, bounds
<1>4. CASE StopRuntime
  BY <1>0, <1>4, CutoverConstants DEF StopRuntime, CountTypes, runtime, rows, bounds
<1>5. CASE NoteIntent
  BY <1>0, <1>5, CutoverConstants DEF NoteIntent, CountTypes, runtime, rows, bounds
<1>6. CASE Restart
  BY <1>0, <1>6, CutoverConstants DEF Restart, CountTypes, runtime, rows, bounds
<1>7. CASE Abort
  BY <1>0, <1>7, CutoverConstants DEF Abort, CountTypes, runtime, rows, bounds
<1>8. CASE Write
  BY <1>0, <1>8, CutoverConstants DEF Write, CountTypes, runtime, rows, bounds
<1>9. CASE Restore
  <2>1. cmd.src \in Database
    BY <1>0, <1>9 DEF Restore, At, CutoverInv, RollbackOK, Whole, CommandOK, Commands
  <2>2. cmd.src.rows \in SUBSET (1..written)
    BY <2>1, DatabaseIs DEF CutoverInv, CopiesAreSaved, Saved
  <2>3. expected' = cmd.src.rows /\ UNCHANGED <<server, intent, written, acts, aborts>>
    BY <1>9 DEF Restore, runtime, bounds
  <2> QED
    BY <1>0, <2>2, <2>3 DEF CountTypes
<1>10. ASSUME NEW v \in Versions, BeginUpdate(v) PROVE CountTypes'
  BY <1>0, <1>10 DEF BeginUpdate, CountTypes, runtime, rows, bounds
<1>11. ASSUME NEW place \in Places, BeginRollback(place) \/ BeginEngineOnly(place)
      PROVE CountTypes'
  <2>1. /\ acts' = acts + 1 /\ acts < MaxActs
        /\ UNCHANGED <<server, intent, written, expected, aborts>>
    BY <1>11 DEF BeginRollback, BeginEngineOnly, Undo, runtime, rows
  <2> QED
    BY <1>0, <2>1, CutoverConstants DEF CountTypes
<1> QED
  BY <1>1, <1>2, <1>3, <1>4, <1>5, <1>6, <1>7, <1>8, <1>9, <1>10, <1>11
     DEF Next, UpdateStep, RollbackStep, Relocation, Update, Places

LEMMA StateTypes ==
  ASSUME CutoverInv
  PROVE /\ legacy \in Database \cup {None, Torn} /\ private \in Database \cup {None, Torn}
        /\ candidate \in Database \cup {None} /\ receipt \in Receipts /\ cmd \in Commands
        /\ restore \in [Places -> Database \cup {None}] /\ kept \in SUBSET (1..MaxRow)
        /\ written \in 0..MaxRow /\ expected \in SUBSET (1..written)
BY DEF CutoverInv, TypeInv, TypeOK, CopyTypes, BackupTypes, CountTypes, CommandOK

LEMMA RowsOfNothing == RowsOf(None) = {} /\ RowsOf(Torn) = {}
BY DEF RowsOf

(* A step that touches no database, no backup and no row. *)
Quiet ==
  /\ UNCHANGED <<copies, backups, rows>>
  /\ cmd'.src \in {cmd.src, None}
  /\ \/ /\ cmd' = cmd
        /\ server' => server \/ (~Leased /\ Whole(Copy(Named)))
     \/ /\ cmd'.at \in {"idle", "laying", "hashing", "stopping", "noting", "leasing"}
        /\ server' => server \/ Whole(Copy(Named))
     \/ /\ cmd'.at \in {"relocating", "relaying", "repinning", "rehashing", "consuming"}
        /\ ~server'
     \/ cmd'.at = "backing" /\ Named = "private" /\ ~server'
     \/ cmd.at = "migrating" /\ cmd'.at = "restarting" /\ ~server'

LEMMA AbortIsQuiet ==
  ASSUME CutoverInv, UNCHANGED <<copies, backups, rows, server>>, cmd' = Idle PROVE Quiet
BY IdleTypes DEF Quiet

LEMMA CommandIsQuiet ==
  ASSUME CutoverInv, UNCHANGED <<copies, backups, rows>>, server' => server,
         NEW stage \in {"idle", "laying", "hashing", "stopping", "noting", "leasing"},
         Goto(stage)
  PROVE Quiet
BY GotoTypes, StageNames DEF Quiet, CutoverInv, TypeInv, CommandOK

LEMMA LeasedIsQuiet ==
  ASSUME CutoverInv, UNCHANGED <<copies, backups, rows, server>>, Leased,
         NEW stage \in Stages, Goto(stage),
         \/ stage \in {"relocating", "relaying", "repinning", "rehashing", "consuming"}
         \/ stage = "backing" /\ Named = "private"
         \/ cmd.at = "migrating" /\ stage = "restarting"
  PROVE Quiet
BY GotoTypes DEF Quiet, CutoverInv, TypeInv, CommandOK, RuntimeOK

(* A rollback has saved the database it starts from. *)
Undoes(place) ==
  /\ UNCHANGED <<copies, restore, rows, server, prev>>
  /\ ~server /\ Named = place /\ Copy(place) \in Database
  /\ kept' = kept \cup Copy(place).rows
  /\ cmd'.live = place
  /\ \/ cmd'.at = "erasing" /\ cmd'.src = restore[place] /\ Whole(cmd'.src)
     \/ cmd'.at = "reviving" /\ cmd'.src = None

LEMMA UndoesIs ==
  ASSUME CutoverInv, NEW place \in Places, BeginRollback(place) \/ BeginEngineOnly(place)
  PROVE Undoes(place)
<1>1. Copy(place) \in Database
  BY DEF BeginRollback, BeginEngineOnly, Undo, Copy, CutoverInv, TypeInv, TypeOK, CopyTypes
<1>2. CASE BeginRollback(place)
  <2>1. cmd' = [Idle EXCEPT !.at = "erasing", !.live = place, !.src = restore[place]]
    BY <1>2 DEF BeginRollback, Undo
  <2>2. restore[place] \in Database
    BY <1>2 DEF BeginRollback, CutoverInv, TypeInv, TypeOK, BackupTypes
  <2>3. cmd'.at = "erasing" /\ cmd'.live = place /\ cmd'.src = restore[place] /\ Whole(cmd'.src)
    BY <2>1, <2>2, DatabaseIs DEF Idle, Whole
  <2> QED
    BY <1>1, <1>2, <2>3 DEF BeginRollback, Undo, Undoes, floor, runtime
<1>3. CASE BeginEngineOnly(place)
  <2>1. cmd' = [Idle EXCEPT !.at = "reviving", !.live = place]
    BY <1>3 DEF BeginEngineOnly, Undo
  <2>2. cmd'.at = "reviving" /\ cmd'.live = place /\ cmd'.src = None
    BY <2>1 DEF Idle
  <2> QED
    BY <1>1, <1>3, <2>2 DEF BeginEngineOnly, Undo, Undoes, floor, runtime
<1> QED
  BY <1>2, <1>3

(* A row is added to the database the selector names. *)
Adds(db, x) ==
  /\ db \in Database /\ x \in Database /\ db = Copy(Named)
  /\ written' = written + 1 /\ written' \in 1..MaxRow /\ expected' = expected \cup {written'}
  /\ x.rows = db.rows \cup {written'}
  /\ \/ Named = "legacy" /\ legacy' = x /\ UNCHANGED private
     \/ Named = "private" /\ private' = x /\ UNCHANGED legacy
  /\ server /\ Named' = Named
  /\ UNCHANGED <<candidate, receipt, restore, kept, server, cmd>>

LEMMA WriteAdds ==
  ASSUME CutoverInv, Write PROVE \E db, x \in Database : Adds(db, x)
<1>1. Named \in Places /\ Copy(Named) \in Database
  BY NamedIs DEF CutoverInv, TypeInv, TypeOK, RuntimeOK, Write, Whole, Copy, CopyTypes, NamedBy,
     Places
<1>2. PICK db \in Database : db = Copy(Named)
  BY <1>1
<1>3. written' \in 1..MaxRow
  BY CutoverConstants DEF Write, CutoverInv, TypeInv, TypeOK, CountTypes
<1>4. PICK x \in Database : /\ x = [db EXCEPT !.rows = @ \cup {written'}]
                            /\ x.rows = db.rows \cup {written'}
  <2> DEFINE y == [db EXCEPT !.rows = @ \cup {written'}]
  <2>1. y \in Database /\ y.rows = db.rows \cup {written'}
    BY <1>3, DatabaseIs
  <2> HIDE DEF y
  <2>2. \E x \in Database : x = y /\ x.rows = db.rows \cup {written'}
    BY ONLY <2>1
  <2> QED
    BY <2>2 DEF y
<1>5. /\ legacy' = (IF Named = "legacy" THEN x ELSE legacy)
      /\ private' = (IF Named = "private" THEN x ELSE private)
  BY <1>2, <1>4 DEF Write, Store
<1>6. Named' = Named
  <2>1. (legacy' = None <=> legacy = None) /\ (private' = None <=> private = None)
    BY <1>1, <1>2, <1>5, DatabaseIs DEF Places, Copy
  <2> QED
    BY <2>1, NamedIs DEF NamedBy, Write
<1> QED
  BY <1>1, <1>2, <1>3, <1>4, <1>5, <1>6 DEF Adds, Write, Places, backups, runtime

(* A step of a relocation, a backup, a migration or a restore. *)
Moves ==
  \/ Prepare \/ Declare \/ Publish \/ Settle \/ Retire \/ BackUp \/ Migrate
  \/ Erase \/ Restore \/ ReviveLegacy \/ ReceiptLegacy \/ DropPrivate

(* Every step is one of these, or a quiet one. *)
Loud ==
  \/ \E db, x \in Database : Adds(db, x)
  \/ \E place \in Places : Undoes(place)
  \/ Moves

LEMMA Steps == ASSUME CutoverInv, Next PROVE Quiet \/ Loud
<1>1. CASE BeginReconcile
  BY <1>1, IdleTypes DEF BeginReconcile, Quiet, Idle, runtime
<1>2. ASSUME NEW v \in Versions, BeginUpdate(v) PROVE Quiet
  BY <1>2 DEF BeginUpdate, Quiet, Idle, runtime
<1>3. CASE Refuse \/ Abort \/ Consume
  BY <1>3, AbortIsQuiet DEF Refuse, Abort, Consume, runtime
<1>4. CASE Lay \/ Hash \/ StopRuntime \/ NoteIntent
  BY <1>4, CommandIsQuiet DEF Lay, Hash, StopRuntime, NoteIntent, runtime
<1>5. CASE Revive \/ Relay \/ Repin \/ Rehash
  BY <1>5, LeasedIsQuiet, StageNames DEF Revive, Relay, Repin, Rehash, runtime, At, Leased
<1>6. CASE Relocated
  <2>1. Named = "private"
    BY <1>6, NamedIs DEF Relocated, NamedBy
  <2> QED
    BY <1>6, <2>1, LeasedIsQuiet, StageNames DEF Relocated, runtime, At, Leased
<1>7. CASE PublishRef
  BY <1>7, LeasedIsQuiet, StageNames DEF PublishRef, runtime, At, Leased
<1>8. CASE Overlay
  BY <1>8 DEF Overlay, Quiet, runtime
<1>9. CASE Launch
  BY <1>9 DEF Launch, Quiet, Whole
<1>10. CASE Restart
  <2>1. Whole(Copy(Named))
    BY <1>10 DEF Restart, At, CutoverInv, UpdateOK, Copy
  <2> QED
    BY <1>10, <2>1, IdleTypes DEF Restart, Quiet
<1>11. CASE Lease
  <2>1. CASE server
    BY <1>11, <2>1, AbortIsQuiet DEF Lease, runtime
  <2>2. CASE ~server
    <3>1. cmd \in Commands
      BY DEF CutoverInv, TypeInv, CommandOK
    <3> QED
      BY <1>11, <2>2, <3>1 DEF Lease, runtime, Quiet, Commands
  <2> QED
    BY <2>1, <2>2
<1> QED
  BY <1>1, <1>2, <1>3, <1>4, <1>5, <1>6, <1>7, <1>8, <1>9, <1>10, <1>11, UndoesIs, WriteAdds
     DEF Next, UpdateStep, RollbackStep, Relocation, Update, Places, Loud, Moves

LEMMA AddsRows ==
  ASSUME CutoverInv, NEW db \in Database, NEW x \in Database, Adds(db, x)
  PROVE /\ RowsOf(Copy(Named))' = RowsOf(Copy(Named)) \cup {written'}
        /\ RowsOf(legacy') \cup RowsOf(private')
             = RowsOf(legacy) \cup RowsOf(private) \cup {written'}
        /\ 1..written' = 1..written \cup {written'}
<1>1. RowsOf(x) = RowsOf(db) \cup {written'}
  BY DatabaseIs DEF Adds
<1>2. written \in Nat /\ written' = written + 1
  BY CutoverConstants DEF Adds, CutoverInv, TypeInv, TypeOK, CountTypes
<1>3. 1..written' = 1..written \cup {written'}
  BY <1>2
<1>4. CASE Named = "legacy"
  BY <1>1, <1>3, <1>4 DEF Adds, Copy
<1>5. CASE Named = "private"
  BY <1>1, <1>3, <1>5 DEF Adds, Copy
<1> QED
  BY <1>4, <1>5 DEF Adds

(* No database has rows that nobody wrote. *)
LEMMA RowsWrittenKept ==
  ASSUME CutoverInv, Next PROVE RowsAreWritten'
<1>1. CASE Quiet
  BY <1>1 DEF Quiet, CutoverInv, RowsAreWritten, copies, backups, rows
<1>2. ASSUME NEW db \in Database, NEW x \in Database, Adds(db, x) PROVE RowsAreWritten'
  BY <1>2, AddsRows DEF CutoverInv, RowsAreWritten
<1>3. ASSUME NEW place \in Places, Undoes(place) PROVE RowsAreWritten'
  BY <1>3 DEF Undoes, CutoverInv, RowsAreWritten, copies, rows
<1>4. CASE Publish
  <2>1. receipt.db.rows \subseteq 1..written /\ receipt.db \in Database
    BY StateTypes, <1>4, DatabaseIs, RowsOfNothing DEF Publish, CutoverInv, CopiesAreSaved, Saved,
       ReceiptOK, Receipts
  <2> QED
    BY StateTypes, <1>4, <2>1, DatabaseIs, RowsOfNothing DEF Publish, CutoverInv, RowsAreWritten, rows
<1>5. CASE Retire
  BY StateTypes, <1>5, DatabaseIs, RowsOfNothing DEF Retire, CutoverInv, RowsAreWritten, rows
<1>6. CASE Migrate
  BY <1>6, MigrateKeepsRows, DatabaseIs, RowsOfNothing DEF Migrate, CutoverInv, RowsAreWritten, rows
<1>7. CASE Erase
  BY <1>7, DatabaseIs, RowsOfNothing DEF Erase, CutoverInv, RowsAreWritten, Store, rows
<1>8. CASE Restore
  <2>1. RowsOf(cmd.src) \subseteq 1..written
    BY DEF CutoverInv, CopiesAreSaved, Saved
  <2> QED
    BY StateTypes, <1>8, <2>1 DEF Restore, CutoverInv, RowsAreWritten, Store
<1>9. CASE ReviveLegacy
  BY <1>9 DEF ReviveLegacy, CutoverInv, RowsAreWritten, rows
<1>10. CASE DropPrivate
  BY <1>10, DatabaseIs, RowsOfNothing DEF DropPrivate, CutoverInv, RowsAreWritten, rows
<1>11. CASE Prepare \/ Declare \/ Settle \/ BackUp \/ ReceiptLegacy
  BY <1>11
     DEF Prepare, Declare, Settle, BackUp, ReceiptLegacy, CutoverInv, RowsAreWritten, copies,
         backups, rows
<1> QED
  BY <1>1, <1>2, <1>3, <1>4, <1>5, <1>6, <1>7, <1>8, <1>9, <1>10, <1>11, Steps DEF Loud, Moves

(* What leaves a database has been backed up. *)
LEMMA NothingLostKept ==
  ASSUME CutoverInv, Next PROVE NothingIsLost'
<1>1. CASE Quiet
  BY <1>1 DEF Quiet, CutoverInv, NothingIsLost, copies, backups, rows
<1>2. ASSUME NEW db \in Database, NEW x \in Database, Adds(db, x) PROVE NothingIsLost'
  BY <1>2, AddsRows DEF Adds, CutoverInv, NothingIsLost
<1>3. ASSUME NEW place \in Places, Undoes(place) PROVE NothingIsLost'
  BY <1>3 DEF Undoes, CutoverInv, NothingIsLost, copies, rows
<1>4. CASE Prepare
  BY StateTypes, <1>4 DEF Prepare, CutoverInv, NothingIsLost, rows
<1>5. CASE Publish
  BY StateTypes, <1>5, DatabaseIs, RowsOfNothing DEF Publish, CutoverInv, NothingIsLost, backups, rows
<1>6. CASE Retire
  BY StateTypes, <1>6, DatabaseIs, RowsOfNothing DEF Retire, CutoverInv, CopiesAreSaved, Saved,
     NothingIsLost, backups, rows
<1>7. CASE BackUp
  BY StateTypes, <1>7 DEF BackUp, CutoverInv, NothingIsLost, backups, copies, rows
<1>8. CASE Migrate
  BY <1>8, MigrateKeepsRows, DatabaseIs, RowsOfNothing DEF Migrate, CutoverInv, NothingIsLost,
     backups, rows
<1>9. CASE Erase
  <2>1. Saved(Copy(cmd.live))
    BY <1>9 DEF Erase, At, CutoverInv, RollbackOK
  <2> QED
    BY <1>9, <2>1, DatabaseIs, RowsOfNothing DEF Erase, CutoverInv, NothingIsLost, Saved, Store,
       Copy, backups, rows
<1>10. CASE Restore
  <2>1. Copy(cmd.live) = Torn
    BY <1>10 DEF Restore, At, CutoverInv, RollbackOK
  <2> QED
    BY <1>10, <2>1, DatabaseIs, RowsOfNothing DEF Restore, CutoverInv, NothingIsLost, Store,
       Copy, backups
<1>11. CASE ReviveLegacy
  <2>1. Saved(legacy)
    BY <1>11, NamedIs, DatabaseIs, RowsOfNothing DEF ReviveLegacy, At, Outdated, CutoverInv,
       CopiesAreSaved, Saved, RollbackOK, NamedBy
  <2> QED
    BY <1>11, <2>1 DEF ReviveLegacy, CutoverInv, NothingIsLost, Saved, backups, rows
<1>12. CASE DropPrivate
  <2>1. Saved(private)
    BY <1>12 DEF DropPrivate, At, CutoverInv, RollbackOK
  <2> QED
    BY <1>12, <2>1, DatabaseIs, RowsOfNothing DEF DropPrivate, CutoverInv, NothingIsLost, Saved,
       backups, rows
<1>13. CASE Declare \/ Settle \/ ReceiptLegacy
  BY <1>13
     DEF Declare, Settle, ReceiptLegacy, CutoverInv, NothingIsLost, copies, backups, rows
<1> QED
  BY <1>1, <1>2, <1>3, <1>4, <1>5, <1>6, <1>7, <1>8, <1>9, <1>10, <1>11, <1>12, <1>13, Steps DEF
     Loud, Moves

(* Only a rollback takes a backup up. *)
LEMMA SourceStays ==
  ASSUME CutoverInv, Moves
  PROVE cmd'.src \in {cmd.src, None}
<1>t. cmd \in Commands
  BY DEF CutoverInv, TypeInv, CommandOK
<1>1. \/ cmd' = cmd \/ cmd' = Idle \/ \E stage \in Stages : Goto(stage)
      \/ cmd' = [cmd EXCEPT !.at = "reviving", !.live = "legacy"]
  BY StageNames
     DEF Moves, Prepare, Declare, Publish, Settle, Retire, BackUp, Migrate, Erase, Restore,
         ReviveLegacy, ReceiptLegacy, DropPrivate, Goto
<1> QED
  BY <1>t, <1>1, GotoTypes, IdleTypes DEF Commands

LEMMA SavedKept ==
  ASSUME CutoverInv, Next PROVE CopiesAreSaved'
<1>1. CASE Quiet
  <2>1. RowsOf(cmd'.src) \subseteq kept
    BY <1>1, RowsOfNothing DEF Quiet, CutoverInv, CopiesAreSaved, Saved
  <2> QED
    BY <1>1, <2>1 DEF Quiet, CutoverInv, CopiesAreSaved, Saved, copies, backups, rows
<1>2. ASSUME NEW db \in Database, NEW x \in Database, Adds(db, x) PROVE CopiesAreSaved'
  <2>1. receipt.status \in {"publishing", "private"} => legacy' = legacy
    BY <1>2, NamedIs DEF Adds, NamedBy
  <2> QED
    BY <1>2, <2>1, AddsRows DEF Adds, CutoverInv, CopiesAreSaved, Saved
<1>3. ASSUME NEW place \in Places, Undoes(place) PROVE CopiesAreSaved'
  <2>1. RowsOf(Copy(place)) = Copy(place).rows /\ RowsOf(Copy(place)) \subseteq 1..written
    BY <1>3, DatabaseIs DEF Undoes, Copy, CutoverInv, RowsAreWritten
  <2>2. RowsOf(cmd'.src) \subseteq kept
    BY <1>3, RowsOfNothing DEF Undoes, CutoverInv, CopiesAreSaved, Saved
  <2> QED
    BY <1>3, <2>1, <2>2 DEF Undoes, CutoverInv, CopiesAreSaved, Saved, copies, rows
<1>4. CASE Prepare
  <2>1. legacy \in Database
    BY StateTypes, <1>4, RefusesIs DEF Prepare
  <2>2. RowsOf(legacy) = legacy.rows /\ RowsOf(legacy) \subseteq 1..written
    BY <2>1, DatabaseIs DEF CutoverInv, RowsAreWritten
  <2>3. /\ restore' = [restore EXCEPT !["private"] = legacy] /\ kept' = kept \cup legacy.rows
        /\ candidate' = legacy /\ UNCHANGED <<legacy, receipt, written>>
    BY <1>4 DEF Prepare, rows
  <2>4. RowsOf(cmd'.src) \subseteq kept
    BY <1>4, SourceStays, RowsOfNothing DEF Moves, CutoverInv, CopiesAreSaved, Saved
  <2> QED
    BY StateTypes, <2>2, <2>3, <2>4 DEF CutoverInv, CopiesAreSaved, Saved
<1>5. CASE Declare
  <2>1. receipt'.db = candidate /\ UNCHANGED <<legacy, candidate, restore, kept, written>>
    BY <1>5 DEF Declare, backups, rows
  <2>2. RowsOf(cmd'.src) \subseteq kept
    BY <1>5, SourceStays, RowsOfNothing DEF Moves, CutoverInv, CopiesAreSaved, Saved
  <2>3. candidate = legacy
    BY <1>5 DEF Declare, CutoverInv, UpdateOK
  <2> QED
    BY <2>1, <2>2, <2>3 DEF CutoverInv, CopiesAreSaved, Saved
<1>6. CASE Publish
  <2>1. RowsOf(cmd'.src) \subseteq kept
    BY <1>6, SourceStays, RowsOfNothing DEF Moves, CutoverInv, CopiesAreSaved, Saved
  <2> QED
    BY <1>6, <2>1, RowsOfNothing DEF Publish, CutoverInv, CopiesAreSaved, Saved, backups, rows
<1>7. CASE Settle
  <2>1. RowsOf(cmd'.src) \subseteq kept
    BY <1>7, SourceStays, RowsOfNothing DEF Moves, CutoverInv, CopiesAreSaved, Saved
  <2>2. receipt'.db = receipt.db /\ UNCHANGED <<legacy, candidate, restore, kept, written>>
    BY StateTypes, <1>7 DEF Settle, Receipts, backups, rows
  <2> QED
    BY <1>7, <2>1, <2>2 DEF Settle, CutoverInv, CopiesAreSaved, Saved
<1>8. CASE Retire
  <2>1. RowsOf(cmd'.src) \subseteq kept
    BY <1>8, SourceStays, RowsOfNothing DEF Moves, CutoverInv, CopiesAreSaved, Saved
  <2> QED
    BY <1>8, <2>1, RowsOfNothing DEF Retire, CutoverInv, CopiesAreSaved, Saved, backups, rows
<1>9. CASE BackUp
  <2>1. RowsOf(cmd'.src) \subseteq kept
    BY <1>9, SourceStays, RowsOfNothing DEF Moves, CutoverInv, CopiesAreSaved, Saved
  <2>2. CASE UNCHANGED backups
    BY <1>9, <2>1, <2>2 DEF BackUp, CutoverInv, CopiesAreSaved, Saved, backups, copies, rows
  <2>3. CASE cmd.backup /\ private # Torn
    <3>1. private \in Database
      BY StateTypes, <1>9, <2>3, NamedIsThere DEF BackUp, At, CutoverInv, UpdateOK, Copy, Places
    <3>2. RowsOf(private) = private.rows /\ RowsOf(private) \subseteq 1..written
      BY <3>1, DatabaseIs DEF CutoverInv, RowsAreWritten
    <3>3. /\ restore' = [restore EXCEPT !["private"] = private] /\ kept' = kept \cup private.rows
          /\ UNCHANGED <<legacy, candidate, receipt, written>>
      BY <1>9, <2>3 DEF BackUp, copies, rows
    <3> QED
      BY StateTypes, <2>1, <3>2, <3>3 DEF CutoverInv, CopiesAreSaved, Saved
  <2> QED
    BY <1>9, <2>2, <2>3 DEF BackUp
<1>10. CASE Migrate
  <2>1. RowsOf(cmd'.src) \subseteq kept
    BY <1>10, SourceStays, RowsOfNothing DEF Moves, CutoverInv, CopiesAreSaved, Saved
  <2> QED
    BY <1>10, <2>1 DEF Migrate, CutoverInv, CopiesAreSaved, Saved, backups, rows
<1>11. CASE Erase
  <2>1. RowsOf(cmd'.src) \subseteq kept
    BY <1>11, SourceStays, RowsOfNothing DEF Moves, CutoverInv, CopiesAreSaved, Saved
  <2> QED
    BY <1>11, <2>1, RowsOfNothing DEF Erase, CutoverInv, CopiesAreSaved, Saved, Store, backups, rows
<1>12. CASE Restore
  <2>1. RowsOf(cmd'.src) \subseteq kept
    BY <1>12, SourceStays, RowsOfNothing DEF Moves, CutoverInv, CopiesAreSaved, Saved
  <2>2. RowsOf(legacy') \in {RowsOf(legacy), RowsOf(cmd.src)}
    BY <1>12 DEF Restore, Store
  <2> QED
    BY <1>12, <2>1, <2>2 DEF Restore, CutoverInv, CopiesAreSaved, Saved, backups
<1>13. CASE ReviveLegacy
  <2>1. RowsOf(cmd'.src) \subseteq kept
    BY <1>13, SourceStays, RowsOfNothing DEF Moves, CutoverInv, CopiesAreSaved, Saved
  <2>2. Saved(private)
    BY <1>13 DEF ReviveLegacy, At, Outdated, CutoverInv, RollbackOK, Copy
  <2> QED
    BY <1>13, <2>1, <2>2 DEF ReviveLegacy, CutoverInv, CopiesAreSaved, Saved, backups, rows
<1>14. CASE ReceiptLegacy
  <2>1. RowsOf(cmd'.src) \subseteq kept
    BY <1>14, SourceStays, RowsOfNothing DEF Moves, CutoverInv, CopiesAreSaved, Saved
  <2>2. Saved(private)
    BY <1>14 DEF ReceiptLegacy, At, CutoverInv, RollbackOK
  <2> QED
    BY <1>14, <2>1, <2>2 DEF ReceiptLegacy, CutoverInv, CopiesAreSaved, Saved, backups, rows
<1>15. CASE DropPrivate
  <2>1. RowsOf(cmd'.src) \subseteq kept
    BY <1>15, SourceStays, RowsOfNothing DEF Moves, CutoverInv, CopiesAreSaved, Saved
  <2> QED
    BY <1>15, <2>1 DEF DropPrivate, CutoverInv, CopiesAreSaved, Saved, backups, rows
<1> QED
  BY <1>1, <1>2, <1>3, <1>4, <1>5, <1>6, <1>7, <1>8, <1>9, <1>10, <1>11, <1>12, <1>13, <1>14,
     <1>15, Steps DEF Loud, Moves

LEMMA ReceiptKept ==
  ASSUME CutoverInv, Next PROVE ReceiptOK'
<1>1. CASE Quiet
  BY <1>1 DEF Quiet, CutoverInv, ReceiptOK, copies, backups, rows
<1>2. ASSUME NEW db \in Database, NEW x \in Database, Adds(db, x) PROVE ReceiptOK'
  <2>1. receipt.status # "publishing"
    BY <1>2, NamedIs DEF Adds, NamedBy
  <2>2. (legacy' = None <=> legacy = None) /\ (private' = None <=> private = None)
    BY <1>2, DatabaseIs DEF Adds, Copy
  <2> QED
    BY <1>2, <2>1, <2>2 DEF Adds, CutoverInv, ReceiptOK
<1>3. ASSUME NEW place \in Places, Undoes(place) PROVE ReceiptOK'
  BY <1>3 DEF Undoes, CutoverInv, ReceiptOK, copies, rows
<1>4. CASE Declare
  <2>1. candidate = legacy /\ Named = "legacy" /\ legacy \in Database
    BY StateTypes, <1>4 DEF Declare, CutoverInv, UpdateOK, Whole
  <2>2. legacy.rows = expected
    BY <1>4, <2>1, DatabaseIs DEF Declare, At, CutoverInv, SelectorIsCurrent, Copy
  <2>3. /\ receipt'.status = "publishing" /\ receipt'.db = candidate
        /\ UNCHANGED expected
    BY <1>4 DEF Declare, rows
  <2> QED
    BY <2>1, <2>2, <2>3, DatabaseIs DEF ReceiptOK
<1>5. CASE Publish
  <2>1. receipt.db # None
    BY <1>5 DEF Publish, CutoverInv, ReceiptOK
  <2> QED
    BY <1>5, <2>1 DEF Publish, CutoverInv, ReceiptOK, rows
<1>6. CASE Settle
  <2>1. receipt'.db = receipt.db /\ receipt'.status = "private"
    BY StateTypes, <1>6 DEF Settle, Receipts
  <2> QED
    BY <1>6, <2>1 DEF Settle, CutoverInv, ReceiptOK
<1>7. CASE Retire
  BY <1>7 DEF Retire, CutoverInv, ReceiptOK, rows
<1>8. CASE Migrate
  BY <1>8, MigrateKeepsRows, DatabaseIs DEF Migrate, CutoverInv, ReceiptOK, rows
<1>9. CASE Erase
  BY <1>9, CutoverConstants DEF Erase, CutoverInv, ReceiptOK, Store, rows
<1>10. CASE Restore
  <2>1. receipt.status # "publishing" /\ cmd.src # None
    BY <1>10, NamedIs DEF Restore, At, CutoverInv, RollbackOK, NamedBy, Places, Whole
  <2> QED
    BY <1>10, <2>1 DEF Restore, CutoverInv, ReceiptOK, Store
<1>11. CASE ReviveLegacy
  <2>1. private # None
    BY <1>11 DEF ReviveLegacy, At, Outdated, CutoverInv, RollbackOK, Copy, Whole
  <2> QED
    BY <1>11, <2>1 DEF ReviveLegacy, CutoverInv, ReceiptOK, rows
<1>12. CASE ReceiptLegacy
  <2>1. private # None /\ legacy = private
    BY <1>12 DEF ReceiptLegacy, At, CutoverInv, RollbackOK, Whole
  <2> QED
    BY <1>12, <2>1 DEF ReceiptLegacy, CutoverInv, ReceiptOK, rows
<1>13. CASE DropPrivate
  <2>1. receipt.status = "legacy"
    BY <1>13 DEF DropPrivate, At, CutoverInv, RollbackOK
  <2> QED
    BY <1>13, <2>1 DEF DropPrivate, CutoverInv, ReceiptOK, rows
<1>14. CASE Prepare \/ BackUp
  BY <1>14
     DEF Prepare, BackUp, CutoverInv, ReceiptOK, copies, backups, rows
<1> QED
  BY <1>1, <1>2, <1>3, <1>4, <1>5, <1>6, <1>7, <1>8, <1>9, <1>10, <1>11, <1>12, <1>13, <1>14,
     Steps DEF Loud, Moves

LEMMA SelectorStays ==
  ASSUME CutoverInv, UNCHANGED <<legacy, private, receipt, expected>>,
         cmd.at # "copying" \/ Copy(Named) = Torn
  PROVE SelectorIsCurrent'
BY DEF CutoverInv, SelectorIsCurrent, Named, Copy

(* A relocation and a rollback change what the selector names only where both
   copies have the same rows, or while it names none. *)
LEMMA SelectorKept ==
  ASSUME CutoverInv, Next PROVE SelectorIsCurrent'
<1>1. CASE Quiet
  <2>1. UNCHANGED <<legacy, private, receipt, expected>>
    BY <1>1 DEF Quiet, copies, rows
  <2>2. CASE At("copying")
    <3>1. Copy(Named) = Torn
      BY <2>2 DEF At, CutoverInv, RollbackOK
    <3> QED
      BY <2>1, <3>1, SelectorStays
  <2>3. CASE ~At("copying")
    BY <2>1, <2>3, SelectorStays DEF At
  <2> QED
    BY <2>2, <2>3
<1>2. ASSUME NEW db \in Database, NEW x \in Database, Adds(db, x) PROVE SelectorIsCurrent'
  <2>1. Copy(Named) # Torn /\ cmd'.at = cmd.at
    BY <1>2, DatabaseIs DEF Adds
  <2>2. Named \in Places
    BY <1>2 DEF Adds, Places
  <2>3. CASE cmd'.at = "copying"
    BY <2>3 DEF SelectorIsCurrent
  <2>4. CASE cmd'.at # "copying"
    <3>1. RowsOf(Copy(Named)) = expected
      BY <2>1, <2>2, <2>4 DEF CutoverInv, SelectorIsCurrent, Places
    <3>2. RowsOf(Copy(Named))' = expected'
      BY <1>2, <3>1, AddsRows DEF Adds
    <3> QED
      BY <3>2 DEF SelectorIsCurrent
  <2> QED
    BY <2>3, <2>4
<1>3. ASSUME NEW place \in Places, Undoes(place) PROVE SelectorIsCurrent'
  <2>1. UNCHANGED <<legacy, private, receipt, expected>> /\ ~At("copying")
    BY <1>3, DatabaseIs DEF Undoes, copies, rows, At, CutoverInv, RollbackOK
  <2> QED
    BY <2>1, SelectorStays DEF At
<1>4. CASE Prepare
  BY <1>4, SelectorStays DEF Prepare, At, rows
<1>5. CASE Declare
  BY <1>5, NamedIs DEF Declare, NamedBy, SelectorIsCurrent
<1>6. CASE Publish
  BY <1>6, NamedIs DEF Publish, NamedBy, SelectorIsCurrent
<1>7. CASE Settle
  <2>1. private = receipt.db /\ private # None
    BY <1>7, RefusesIs DEF Settle
  <2>2. RowsOf(private) = expected
    BY StateTypes, <2>1, <1>7, DatabaseIs DEF Settle, CutoverInv, ReceiptOK, Receipts
  <2>3. receipt'.status = "private"
    BY StateTypes, <1>7 DEF Settle, Receipts
  <2>4. Named' = "private"
    BY <2>3, NamedIs DEF NamedBy
  <2> QED
    BY <1>7, <2>2, <2>4 DEF Settle, SelectorIsCurrent, Copy, rows
<1>8. CASE Retire
  <2>1. Named = "private" /\ Named' = "private"
    BY <1>8, NamedIs DEF Retire, NamedBy
  <2> QED
    BY <1>8, <2>1 DEF Retire, At, CutoverInv, SelectorIsCurrent, Copy, rows
<1>9. CASE BackUp
  BY <1>9, SelectorStays DEF BackUp, At, copies, rows
<1>10. CASE Migrate
  <2>1. Named = "private" /\ Named' = "private"
    BY <1>10, MigrateKeepsRows, DatabaseIs, NamedIs DEF Migrate, At, NamedBy, CutoverInv, UpdateOK
  <2> QED
    BY <1>10, <2>1, MigrateKeepsRows, DatabaseIs DEF Migrate, At, CutoverInv, SelectorIsCurrent,
       Copy, rows
<1>11. CASE Erase
  <2>1. cmd'.at = "copying"
    BY StateTypes, <1>11, GotoTypes, StageNames DEF Erase
  <2> QED
    BY <2>1 DEF SelectorIsCurrent
<1>12. CASE Restore
  <2>1. cmd.live \in Places /\ Named = cmd.live /\ Copy(cmd.live) = Torn /\ cmd.src \in Database
    BY StateTypes, <1>12 DEF Restore, At, CutoverInv, RollbackOK, Whole, Commands
  <2>2. CASE cmd.live = "legacy"
    <3>1. legacy' = cmd.src /\ UNCHANGED <<private, receipt>> /\ legacy = Torn
      BY <1>12, <2>1, <2>2 DEF Restore, Store, Copy
    <3>2. legacy # None /\ legacy' # None
      BY <2>1, <3>1, CutoverConstants
    <3>3. Named' = "legacy"
      BY <2>1, <2>2, <3>1, <3>2, NamedIs DEF NamedBy
    <3> QED
      BY <1>12, <2>1, <3>1, <3>3, DatabaseIs DEF Restore, SelectorIsCurrent, Copy
  <2>3. CASE cmd.live = "private"
    <3>1. private' = cmd.src /\ UNCHANGED <<legacy, receipt>> /\ private = Torn
      BY <1>12, <2>1, <2>3 DEF Restore, Store, Copy
    <3>2. private # None /\ private' # None
      BY <2>1, <3>1, CutoverConstants
    <3>3. Named' = "private"
      BY <2>1, <2>3, <3>1, <3>2, NamedIs DEF NamedBy
    <3> QED
      BY <1>12, <2>1, <3>1, <3>3, DatabaseIs DEF Restore, SelectorIsCurrent, Copy
  <2> QED
    BY <2>1, <2>2, <2>3 DEF Places
<1>13. CASE ReviveLegacy
  <2>1. Named = "private" /\ private # None
    BY <1>13 DEF ReviveLegacy, At, Outdated, CutoverInv, RollbackOK, Copy, Whole
  <2>2. Named' \in {"private", "refused"}
    BY <1>13, <2>1, NamedIs DEF ReviveLegacy, NamedBy
  <2> QED
    BY <1>13, <2>1, <2>2 DEF ReviveLegacy, At, CutoverInv, SelectorIsCurrent, Copy, rows
<1>14. CASE ReceiptLegacy
  <2>1. private # None /\ legacy = private
    BY <1>14 DEF ReceiptLegacy, At, CutoverInv, RollbackOK, Whole
  <2>2. receipt'.status = "legacy" /\ UNCHANGED <<legacy, private>>
    BY <1>14 DEF ReceiptLegacy
  <2>3. Named' = "refused"
    BY <2>1, <2>2, NamedIs DEF NamedBy
  <2> QED
    BY <2>3 DEF SelectorIsCurrent
<1>15. CASE DropPrivate
  <2>1. /\ receipt.status = "legacy" /\ legacy \in Database /\ legacy.rows = expected
    BY StateTypes, <1>15 DEF DropPrivate, At, CutoverInv, RollbackOK, Whole
  <2>2. private' = None /\ UNCHANGED <<legacy, receipt, expected>>
    BY <1>15 DEF DropPrivate, rows
  <2>3. Named' = "legacy"
    BY <2>1, <2>2, NamedIs, DatabaseIs DEF NamedBy
  <2> QED
    BY <2>1, <2>2, <2>3, DatabaseIs DEF SelectorIsCurrent, Copy
<1> QED
  BY <1>1, <1>2, <1>3, <1>4, <1>5, <1>6, <1>7, <1>8, <1>9, <1>10, <1>11, <1>12, <1>13, <1>14,
     <1>15, Steps DEF Loud, Moves

(* A step that changes what there is to start from runs under the lease. *)
LEMMA MovesAreLeased ==
  ASSUME CutoverInv, Moves
  PROVE Leased /\ ~server /\ ~server'
<1>1. Leased
  BY DEF Moves, Prepare, Declare, Publish, Settle, Retire, BackUp, Migrate, Erase, Restore, ReviveLegacy,
         ReceiptLegacy, DropPrivate, At, Leased
<1>2. server' = server
  BY DEF Moves, Prepare, Declare, Publish, Settle, Retire, BackUp, Migrate, Erase, Restore, ReviveLegacy,
         ReceiptLegacy, DropPrivate, runtime
<1> QED
  BY <1>1, <1>2 DEF CutoverInv, RuntimeOK

LEMMA RuntimeKept ==
  ASSUME CutoverInv, Next PROVE RuntimeOK'
<1>1. CASE Quiet
  <2>1. Named' = Named /\ Copy(Named)' = Copy(Named)
    BY <1>1 DEF Quiet, Named, Copy, copies
  <2>2. Leased' => ~server'
    BY <1>1 DEF Quiet, Leased, CutoverInv, RuntimeOK
  <2>3. server' => server \/ Whole(Copy(Named))
    BY <1>1 DEF Quiet
  <2>4. server' /\ Named # "refused" => Whole(Copy(Named))
    BY <2>3 DEF CutoverInv, RuntimeOK
  <2> QED
    BY <2>1, <2>2, <2>4 DEF RuntimeOK, Whole
<1>2. ASSUME NEW db \in Database, NEW x \in Database, Adds(db, x) PROVE RuntimeOK'
  <2>1. Copy(Named)' = x /\ x # None /\ x # Torn
    BY <1>2, DatabaseIs DEF Adds, Copy
  <2> QED
    BY <1>2, <2>1 DEF Adds, Leased, CutoverInv, RuntimeOK, Whole
<1>3. ASSUME NEW place \in Places, Undoes(place) PROVE RuntimeOK'
  BY <1>3 DEF Undoes, RuntimeOK
<1>4. CASE Moves
  BY <1>4, MovesAreLeased DEF RuntimeOK
<1> QED
  BY <1>1, <1>2, <1>3, <1>4, Steps DEF Loud, Moves

LEMMA UpdateKept ==
  ASSUME CutoverInv, Next PROVE UpdateOK'
<1>1. CASE Quiet
  <2>1. Named' = Named /\ UNCHANGED <<legacy, private, candidate>>
    BY <1>1 DEF Quiet, Named, copies
  <2> QED
    BY <1>1, <2>1 DEF Quiet, CutoverInv, UpdateOK, At, Whole
<1>2. ASSUME NEW db \in Database, NEW x \in Database, Adds(db, x) PROVE UpdateOK'
  <2>1. ~Leased
    BY <1>2 DEF Adds, CutoverInv, RuntimeOK
  <2>2. cmd.at \notin {"declaring", "backing", "migrating"}
    BY <2>1 DEF Leased
  <2>3. cmd.at = "restarting" => private' = x /\ Named' = "private"
    BY <1>2 DEF Adds, CutoverInv, UpdateOK
  <2>4. Whole(x) /\ cmd' = cmd
    BY <1>2, DatabaseIs DEF Adds, Whole
  <2> QED
    BY <2>2, <2>3, <2>4 DEF UpdateOK, At, Whole
<1>3. ASSUME NEW place \in Places, Undoes(place) PROVE UpdateOK'
  BY <1>3 DEF Undoes, UpdateOK, At
<1>4. CASE Prepare
  <2>1. cmd'.at = "declaring" /\ candidate' = legacy /\ UNCHANGED <<legacy, private, receipt>>
    BY StateTypes, <1>4, GotoTypes, StageNames DEF Prepare
  <2>2. legacy \notin {None, Torn} /\ private = None /\ receipt.status \in {"none", "legacy"}
    BY <1>4, RefusesIs DEF Prepare
  <2>3. Named' = "legacy"
    BY <2>1, <2>2, NamedIs DEF NamedBy
  <2> QED
    BY <2>1, <2>2, <2>3 DEF UpdateOK, At, Whole
<1>5. CASE Declare
  <2>1. cmd'.at = "relocating"
    BY StateTypes, <1>5, GotoTypes, StageNames DEF Declare
  <2> QED
    BY <2>1 DEF UpdateOK, At
<1>6. CASE Publish
  BY <1>6 DEF Publish, UpdateOK, At
<1>7. CASE Settle
  BY <1>7 DEF Settle, UpdateOK, At
<1>8. CASE Retire
  BY <1>8 DEF Retire, UpdateOK, At
<1>9. CASE BackUp
  <2>1. Named = "private" /\ Named' = Named /\ UNCHANGED private
    BY <1>9 DEF BackUp, At, CutoverInv, UpdateOK, copies, Named
  <2>2. CASE private = Torn
    BY <1>9, <2>2, IdleTypes DEF BackUp, UpdateOK, At
  <2>3. CASE private # Torn
    <3>1. private # None
      BY <2>1, NamedIsThere DEF Copy, Places
    <3>2. cmd'.at = "migrating"
      BY StateTypes, <1>9, <2>3 DEF BackUp, Commands
    <3> QED
      BY <2>1, <2>3, <3>1, <3>2 DEF UpdateOK, At, Whole
  <2> QED
    BY <2>2, <2>3
<1>10. CASE Migrate
  <2>1. Named = "private" /\ Named' = "private"
    BY <1>10, MigrateKeepsRows, DatabaseIs, NamedIs DEF Migrate, At, NamedBy, CutoverInv, UpdateOK
  <2>2. Whole(private) /\ Whole(private') /\ cmd'.at = "migrating"
    BY <1>10, MigrateKeepsRows, DatabaseIs DEF Migrate, Whole, At
  <2> QED
    BY <2>1, <2>2 DEF UpdateOK, At, Whole
<1>11. CASE Erase
  <2>1. cmd'.at = "copying"
    BY StateTypes, <1>11, GotoTypes, StageNames DEF Erase
  <2> QED
    BY <2>1 DEF UpdateOK, At
<1>12. CASE Restore
  <2>1. cmd'.at \in {"idle", "reviving"}
    BY StateTypes, <1>12, IdleTypes DEF Restore, Commands
  <2> QED
    BY <2>1 DEF UpdateOK, At
<1>13. CASE ReviveLegacy
  <2>1. cmd'.at = "receipting"
    BY StateTypes, <1>13, GotoTypes, StageNames DEF ReviveLegacy
  <2> QED
    BY <2>1 DEF UpdateOK, At
<1>14. CASE ReceiptLegacy
  <2>1. cmd'.at = "dropping"
    BY StateTypes, <1>14, GotoTypes, StageNames DEF ReceiptLegacy
  <2> QED
    BY <2>1 DEF UpdateOK, At
<1>15. CASE DropPrivate
  <2>1. cmd'.at = "reviving"
    BY StateTypes, <1>15 DEF DropPrivate, Commands
  <2> QED
    BY <2>1 DEF UpdateOK, At
<1> QED
  BY <1>1, <1>2, <1>3, <1>4, <1>5, <1>6, <1>7, <1>8, <1>9, <1>10, <1>11, <1>12, <1>13, <1>14,
     <1>15, Steps DEF Loud, Moves

LEMMA RollbackKept ==
  ASSUME CutoverInv, Next PROVE RollbackOK'
<1>1. CASE Quiet
  <2>1. Named' = Named /\ UNCHANGED <<legacy, private, receipt, kept, expected>>
    BY <1>1 DEF Quiet, Named, copies, backups, rows
  <2>2. cmd' = cmd \/ cmd'.at \notin {"erasing", "copying", "reviving", "receipting", "dropping"}
    BY <1>1 DEF Quiet
  <2> QED
    BY <2>1, <2>2 DEF CutoverInv, RollbackOK, At, Whole, Saved, Copy
<1>2. ASSUME NEW db \in Database, NEW x \in Database, Adds(db, x) PROVE RollbackOK'
  <2>1. ~Leased
    BY <1>2 DEF Adds, CutoverInv, RuntimeOK
  <2>2. cmd.at \notin {"erasing", "copying", "reviving", "receipting", "dropping"} /\ cmd' = cmd
    BY <1>2, <2>1 DEF Leased, Adds
  <2> QED
    BY <2>2 DEF RollbackOK, At
<1>3. ASSUME NEW place \in Places, Undoes(place) PROVE RollbackOK'
  <2>1. /\ UNCHANGED <<legacy, private, receipt, expected>>
        /\ Named = place /\ Copy(place) \in Database
    BY <1>3 DEF Undoes, copies, rows
  <2>2. Named' = place /\ Copy(Named)' = Copy(place)
    BY <2>1 DEF Named, Copy
  <2>3. Whole(Copy(place)) /\ RowsOf(Copy(place)) \subseteq kept'
    BY <1>3, <2>1, DatabaseIs DEF Undoes, Whole
  <2>4. cmd'.live = place /\ (cmd'.at = "reviving" \/ (cmd'.at = "erasing" /\ Whole(cmd'.src)))
    BY <1>3 DEF Undoes
  <2> QED
    BY <2>2, <2>3, <2>4 DEF RollbackOK, At, Whole, Saved
<1>4. CASE Prepare
  <2>1. cmd'.at = "declaring"
    BY StateTypes, <1>4, GotoTypes, StageNames DEF Prepare
  <2> QED
    BY <2>1 DEF RollbackOK, At
<1>5. CASE Declare
  <2>1. cmd'.at = "relocating"
    BY StateTypes, <1>5, GotoTypes, StageNames DEF Declare
  <2> QED
    BY <2>1 DEF RollbackOK, At
<1>6. CASE Publish
  BY <1>6 DEF Publish, RollbackOK, At
<1>7. CASE Settle
  BY <1>7 DEF Settle, RollbackOK, At
<1>8. CASE Retire
  BY <1>8 DEF Retire, RollbackOK, At
<1>9. CASE Migrate
  BY <1>9 DEF Migrate, RollbackOK, At
<1>10. CASE BackUp
  <2>1. cmd'.at \in {"idle", "migrating"}
    BY StateTypes, <1>10, IdleTypes DEF BackUp, Commands
  <2> QED
    BY <2>1 DEF RollbackOK, At
<1>11. CASE Erase
  <2>1. cmd'.at = "copying" /\ cmd'.live = cmd.live /\ cmd'.src = cmd.src
    BY StateTypes, <1>11, GotoTypes, StageNames DEF Erase
  <2>2. /\ cmd.live \in Places /\ Named = cmd.live /\ Whole(cmd.src)
        /\ Copy(cmd.live) # None
    BY <1>11 DEF Erase, At, CutoverInv, RollbackOK, Whole
  <2>3. /\ legacy' = (IF cmd.live = "legacy" THEN Torn ELSE legacy)
        /\ private' = (IF cmd.live = "private" THEN Torn ELSE private)
        /\ UNCHANGED receipt
    BY <1>11 DEF Erase, Store
  <2>4. Copy(cmd.live)' = Torn
    BY <2>1, <2>2, <2>3 DEF Copy, Places
  <2>5. (legacy' = None <=> legacy = None) /\ (private' = None <=> private = None)
    BY <2>2, <2>3, CutoverConstants DEF Copy, Places
  <2>6. Named' = cmd.live
    BY <2>2, <2>3, <2>5, NamedIs DEF NamedBy
  <2> QED
    BY <2>1, <2>2, <2>4, <2>6 DEF RollbackOK, At, Whole
<1>12. CASE Restore
  <2>1. cmd.live \in Places /\ Named = cmd.live /\ Copy(cmd.live) = Torn /\ cmd.src \in Database
    BY StateTypes, <1>12 DEF Restore, At, CutoverInv, RollbackOK, Whole, Commands
  <2>2. PICK place \in Places : place = cmd.live
    BY <2>1
  <2>3. /\ legacy' = (IF place = "legacy" THEN cmd.src ELSE legacy)
        /\ private' = (IF place = "private" THEN cmd.src ELSE private)
        /\ UNCHANGED <<receipt, kept>>
    BY <1>12, <2>2 DEF Restore, Store, backups
  <2>4. Copy(place)' = cmd.src
    BY <2>3 DEF Copy, Places
  <2>5. (legacy' = None <=> legacy = None) /\ (private' = None <=> private = None)
    BY <2>1, <2>2, <2>3, CutoverConstants DEF Copy, Places
  <2>6. Named' = place
    BY <2>1, <2>2, <2>3, <2>5, NamedIs DEF NamedBy
  <2>7. Whole(cmd.src) /\ RowsOf(cmd.src) \subseteq kept
    BY <2>1, DatabaseIs DEF Whole, CutoverInv, CopiesAreSaved, Saved
  <2>8. cmd'.at = "idle" \/ (cmd'.at = "reviving" /\ cmd'.live = place)
    BY StateTypes, <1>12, <2>2, IdleTypes DEF Restore, Commands
  <2>9. Copy(Named)' = cmd.src
    BY <2>4, <2>6 DEF Copy
  <2> QED
    BY <2>2, <2>3, <2>6, <2>7, <2>8, <2>9 DEF RollbackOK, At, Whole, Saved
<1>13. CASE ReviveLegacy
  <2>1. cmd'.at = "receipting"
    BY StateTypes, <1>13, GotoTypes, StageNames DEF ReviveLegacy
  <2>2. Named = "private" /\ Whole(private) /\ Saved(private)
    BY <1>13 DEF ReviveLegacy, At, Outdated, CutoverInv, RollbackOK, Copy
  <2>3. private.rows = expected
    BY StateTypes, <1>13, <2>2, DatabaseIs DEF ReviveLegacy, At, Whole, CutoverInv, SelectorIsCurrent,
       Copy
  <2>4. legacy' = private /\ UNCHANGED <<private, receipt, kept, expected>>
    BY <1>13 DEF ReviveLegacy, backups, rows
  <2>5. Named' \in {"private", "refused"}
    BY <2>2, <2>4, NamedIs DEF NamedBy, Whole
  <2> QED
    BY <2>1, <2>2, <2>3, <2>4, <2>5 DEF RollbackOK, At, Whole, Saved
<1>14. CASE ReceiptLegacy
  <2>1. cmd'.at = "dropping"
    BY StateTypes, <1>14, GotoTypes, StageNames DEF ReceiptLegacy
  <2>2. Whole(private) /\ Saved(private) /\ private.rows = expected /\ legacy = private
    BY <1>14 DEF ReceiptLegacy, At, CutoverInv, RollbackOK
  <2>3. receipt'.status = "legacy" /\ UNCHANGED <<private, legacy, kept, expected>>
    BY <1>14 DEF ReceiptLegacy, backups, rows
  <2> QED
    BY <2>1, <2>2, <2>3 DEF RollbackOK, At, Whole, Saved
<1>15. CASE DropPrivate
  <2>1. cmd'.at = "reviving" /\ cmd'.live = "legacy"
    BY StateTypes, <1>15 DEF DropPrivate, Commands
  <2>2. receipt.status = "legacy" /\ Whole(legacy) /\ Saved(legacy)
    BY <1>15 DEF DropPrivate, At, CutoverInv, RollbackOK, Whole, Saved
  <2>3. private' = None /\ UNCHANGED <<legacy, receipt, kept>>
    BY <1>15 DEF DropPrivate, backups
  <2>4. Named' = "legacy"
    BY <2>2, <2>3, NamedIs DEF NamedBy, Whole
  <2> QED
    BY <2>1, <2>2, <2>3, <2>4 DEF RollbackOK, At, Whole, Saved, Copy, Places
<1> QED
  BY <1>1, <1>2, <1>3, <1>4, <1>5, <1>6, <1>7, <1>8, <1>9, <1>10, <1>11, <1>12, <1>13, <1>14,
     <1>15, Steps DEF Loud, Moves

LEMMA CutoverStep ==
  ASSUME CutoverInv, [Next]_vars PROVE CutoverInv'
<1>1. CASE Next
  <2>1. TypeOK' /\ CommandOK'
    BY <1>1, FloorKept, CopiesKept, BackupsKept, CountsKept, CommandKept DEF TypeOK
  <2> QED
    BY <1>1, <2>1, RowsWrittenKept, NothingLostKept, SavedKept, ReceiptKept, SelectorKept,
       RuntimeKept, UpdateKept, RollbackKept DEF CutoverInv, TypeInv
<1>2. CASE UNCHANGED vars
  <2>1. /\ UNCHANGED <<disk, pin, prev, manifest, legacy, private, candidate, receipt>>
        /\ UNCHANGED <<restore, kept, server, intent, cmd, written, expected, acts, aborts>>
    BY <1>2 DEF vars, floor, copies, backups, runtime, rows, bounds
  <2>2. TypeInv'
    BY <2>1 DEF CutoverInv, TypeInv, TypeOK, CommandOK, FloorTypes, CopyTypes, BackupTypes,
       CountTypes
  <2>3. NothingIsLost' /\ RowsAreWritten' /\ CopiesAreSaved' /\ ReceiptOK'
    BY <2>1 DEF CutoverInv, NothingIsLost, RowsAreWritten, CopiesAreSaved, ReceiptOK, Saved
  <2>4. SelectorIsCurrent' /\ RuntimeOK'
    BY <2>1 DEF CutoverInv, SelectorIsCurrent, RuntimeOK, Named, Copy, Whole, Leased
  <2>5. UpdateOK' /\ RollbackOK'
    BY <2>1 DEF CutoverInv, UpdateOK, RollbackOK, Named, Copy, Whole, Saved, At
  <2> QED
    BY <2>2, <2>3, <2>4, <2>5 DEF CutoverInv
<1> QED
  BY <1>1, <1>2

LEMMA InitCutover ==
  ASSUME Init PROVE CutoverInv
<1>1. Fresh(1) \in Database /\ Fresh(0) \in Database
  BY SchemaTypes, CutoverConstants DEF Fresh, Database, Versions
<1>2. /\ Fresh(1) \notin {None, Torn} /\ Fresh(0) \notin {None, Torn}
      /\ RowsOf(Fresh(1)) = {} /\ RowsOf(Fresh(0)) = {}
  BY <1>1, DatabaseIs DEF Fresh
<1>3. /\ cmd \in Commands /\ cmd.at = "idle" /\ cmd.src = None
      /\ receipt.status = "none" /\ receipt.db = None /\ receipt \in Receipts
  BY IdleTypes DEF Init, NoReceipt, Receipts
<1>4. TypeInv
  <2>1. MaxVersion \in Nat /\ 0 \in Versions /\ 1 \in Versions
    BY CutoverConstants DEF Versions
  <2>2. FloorTypes
    BY <2>1 DEF Init, FloorTypes
  <2>3. CopyTypes
    BY <1>1, <1>3 DEF Init, CopyTypes
  <2>4. BackupTypes
    BY <1>1 DEF Init, BackupTypes, Places
  <2>5. CountTypes
    <3>1. MaxRow \in Nat /\ MaxActs \in Nat /\ MaxAborts \in Nat
      BY CutoverConstants
    <3>2. 0 \in 0..MaxRow /\ 0 \in 0..MaxActs /\ 0 \in 0..MaxAborts
      BY <3>1
    <3> QED
      BY <3>2 DEF Init, CountTypes
  <2> QED
    BY <1>3, <2>2, <2>3, <2>4, <2>5 DEF TypeInv, TypeOK, CommandOK
<1>5. NothingIsLost /\ RowsAreWritten /\ CopiesAreSaved
  BY <1>2, <1>3, RowsOfNothing DEF Init, NothingIsLost, RowsAreWritten, CopiesAreSaved, Saved,
     Places
<1>6. ReceiptOK /\ RuntimeOK /\ UpdateOK /\ RollbackOK
  BY <1>2, <1>3 DEF Init, ReceiptOK, RuntimeOK, UpdateOK, RollbackOK, At, Leased
<1>7. SelectorIsCurrent
  BY <1>2, <1>3, NamedIs, RowsOfNothing DEF Init, SelectorIsCurrent, NamedBy, Copy
<1> QED
  BY <1>4, <1>5, <1>6, <1>7 DEF CutoverInv

LEMMA CutoverInvHolds == Spec => []CutoverInv
BY InitCutover, CutoverStep, PTL DEF Spec

(* The releases, pins, copies, receipts and backups of every update and rollback,
   cut short or not, are what the files can hold. *)
THEOREM CutoverTypes == Spec => []TypeOK
<1>1. CutoverInv => TypeOK
  BY DEF CutoverInv, TypeInv
<1> QED
  BY <1>1, CutoverInvHolds, PTL

(* Wherever an update, a relocation or a rollback is cut short, each row that the
   runtime committed is in a backup or in a whole database. *)
THEOREM RowsAreNeverLost == Spec => []NothingIsLost
<1>1. CutoverInv => NothingIsLost
  BY DEF CutoverInv
<1> QED
  BY <1>1, CutoverInvHolds, PTL

(* The database that active_database_path names, if it names one, has every row
   that no rollback undid: the relocation's receipt, its copies and the restore
   change places only under the lease. *)
THEOREM SelectedIsCurrent == Spec => []SelectorIsCurrent
<1>1. CutoverInv => SelectorIsCurrent
  BY DEF CutoverInv
<1> QED
  BY <1>1, CutoverInvHolds, PTL
=============================================================================
