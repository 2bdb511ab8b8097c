---------------------------- MODULE EngineCutover ----------------------------
(***************************************************************************)
(* How one installation moves between engine releases.  ./sc update lays   *)
(* the files of a release over the floor, stops the runtime, moves a       *)
(* database that still lives in the repository to the owner's private      *)
(* state, backs it up, migrates it in place and pins the release;          *)
(* ./sc rollback restores the newest backup and the files of the pin that  *)
(* the last update found.                                                  *)
(*                                                                         *)
(* There is one operator, so one command at a time.  A command may be cut  *)
(* short after every durable step, by a crash or by an error that exits;   *)
(* only files are left of it.  The runtime may be launched at any time in  *)
(* between and writes rows; of a row only that it was committed matters.   *)
(***************************************************************************)
EXTENDS Integers

CONSTANTS
  MaxVersion,   \* bound: releases 0 .. MaxVersion; release 1 is installed
  PrivateSince, \* the first release whose database is in the private state
  Files,        \* migration files that a release adds
  MaxRow,       \* bound: rows written
  MaxActs,      \* bound: launches by hand, rollbacks, updates with --no-fetch
  MaxAborts,    \* bound: commands cut short
  None,         \* no database
  Torn          \* a database whose copy was cut short

VARIABLES
  disk,       \* the releases whose files lie on the floor
  pin, prev,  \* .sc-state/engine.ref and engine.ref.prev
  manifest,   \* the release that the manifest of hashes covers
  legacy,     \* .super-coder/shell_db.db
  private,    \* shell_db.db of the private state
  candidate,  \* the verified copy that is about to be published
  receipt,    \* the relocation receipt: its status and its fingerprint
  restore,    \* the newest preupdate backup of either place
  kept,       \* rows that some backup has
  server,     \* the runtime is up
  intent,     \* update-runtime-intent.json
  cmd,        \* the command that runs
  written,    \* rows committed so far
  expected,   \* rows that nothing has rolled back
  acts, aborts

floor == <<disk, pin, prev, manifest>>
copies == <<legacy, private, candidate, receipt>>
backups == <<restore, kept>>
runtime == <<server, intent>>
rows == <<written, expected>>
bounds == <<acts, aborts>>
vars == <<floor, copies, backups, runtime, cmd, rows, bounds>>

Versions == 0..MaxVersion
NoVersion == -1
Schema(v) == v * Files

Database == [rows : SUBSET (1..MaxRow), schema : 0..Schema(MaxVersion)]

ASSUME CutoverConstants ==
  /\ {MaxVersion, PrivateSince, MaxRow, MaxActs, MaxAborts} \subseteq Nat
  /\ MaxVersion > 0 /\ Files \in Nat \ {0}
  /\ None # Torn /\ None \notin Database /\ Torn \notin Database

Idle == [at |-> "idle", target |-> NoVersion, backup |-> FALSE, live |-> "none", src |-> None]

NoReceipt == [status |-> "none", db |-> None]

Newest(S) == CHOOSE v \in S : \A w \in S : w <= v

(***************************************************************************)
(* Which database is the live one.                                         *)
(***************************************************************************)
(* active_database_path: a published copy, or the only one; never a guess. *)
Named ==
  CASE receipt.status = "publishing" -> "refused"
    [] receipt.status = "private" -> "private"
    [] OTHER -> IF legacy # None /\ private # None THEN "refused"
                ELSE IF legacy # None THEN "legacy" ELSE "private"

Copy(place) == IF place = "legacy" THEN legacy ELSE private

Store(place, db) ==
  /\ legacy' = (IF place = "legacy" THEN db ELSE legacy)
  /\ private' = (IF place = "private" THEN db ELSE private)

(* The lease is held from here on, shared by the runtime, exclusive in a command. *)
Leased == cmd.at \notin {"idle", "laying", "hashing", "stopping", "noting", "leasing", "restarting"}

(* Once an older floor is back, its own programs take over. *)
Runnable == cmd = Idle /\ \E v \in disk : v >= PrivateSince

At(stage) == cmd.at = stage
Goto(stage) == cmd' = [cmd EXCEPT !.at = stage]

(***************************************************************************)
(* The runtime.                                                            *)
(***************************************************************************)
Launch ==
  /\ acts < MaxActs /\ acts' = acts + 1
  /\ ~server /\ ~Leased /\ Named # "refused" /\ Copy(Named) \notin {None, Torn}
  /\ server' = TRUE
  /\ UNCHANGED <<floor, copies, backups, intent, cmd, rows, aborts>>

Write ==
  /\ server /\ Named # "refused" /\ written < MaxRow
  /\ written' = written + 1
  /\ expected' = expected \cup {written'}
  /\ Store(Named, [Copy(Named) EXCEPT !.rows = @ \cup {written'}])
  /\ UNCHANGED <<floor, candidate, receipt, backups, runtime, cmd, bounds>>

(***************************************************************************)
(* ./sc update.                                                            *)
(***************************************************************************)
(* The updater is loaded: it needs a database to aim at, if only a published one. *)
Aims == Named # "refused" \/ receipt.status = "publishing"

(* Seeded fault: only the manifest vouches for a file. *)
UneditedSinceHash(v) == disk = {manifest} /\ v \in Versions

(* check_local_edits: every file is what the manifest, the target or the pin says. *)
Unedited(v) == disk \subseteq {manifest, v, pin}

(* engine.ref is copied to engine.ref.prev before the first file is laid. *)
BeginUpdate(v) ==
  /\ Runnable /\ Aims
  /\ v >= Newest(disk)  \* upstream moves forward
  /\ Unedited(v)
  /\ prev' = pin
  /\ cmd' = [Idle EXCEPT !.at = "laying", !.target = v]
  /\ UNCHANGED <<disk, pin, manifest, copies, backups, runtime, rows, bounds>>

(* --no-fetch: the files and both pins stay as they are. *)
BeginReconcile ==
  /\ Runnable /\ Aims
  /\ acts < MaxActs /\ acts' = acts + 1
  /\ cmd' = [Idle EXCEPT !.at = "stopping"]
  /\ UNCHANGED <<floor, copies, backups, runtime, rows, aborts>>

(* Files of the target over the others, and then only they. *)
Overlay ==
  /\ At("laying") /\ cmd.target \notin disk
  /\ disk' = disk \cup {cmd.target}
  /\ UNCHANGED <<pin, prev, manifest, copies, backups, runtime, cmd, rows, bounds>>

Lay ==
  /\ At("laying") /\ cmd.target \in disk
  /\ disk' = {cmd.target} /\ Goto("hashing")
  /\ UNCHANGED <<pin, prev, manifest, copies, backups, runtime, rows, bounds>>

Hash ==
  /\ At("hashing") /\ manifest' = cmd.target /\ Goto("stopping")
  /\ UNCHANGED <<disk, pin, prev, copies, backups, runtime, rows, bounds>>

(* The runtime is stopped first and noted for relaunch after that. *)
StopRuntime ==
  /\ At("stopping") /\ server' = FALSE
  /\ Goto(IF server THEN "noting" ELSE "leasing")
  /\ UNCHANGED <<floor, copies, backups, intent, rows, bounds>>

NoteIntent ==
  /\ At("noting") /\ intent' = TRUE /\ Goto("leasing")
  /\ UNCHANGED <<floor, copies, backups, server, rows, bounds>>

(* Seeded fault: the runtime may have come back meanwhile. *)
LeaseShared ==
  /\ At("leasing")
  /\ cmd' = [cmd EXCEPT !.at = "relocating", !.backup = legacy = None, !.live = "private"]
  /\ UNCHANGED <<floor, copies, backups, runtime, rows, bounds>>

(* A database still in the repository is backed up by its relocation. *)
Lease ==
  /\ At("leasing")
  /\ cmd' = IF server THEN Idle
            ELSE [cmd EXCEPT !.at = "relocating", !.backup = legacy = None, !.live = "private"]
  /\ UNCHANGED <<floor, copies, backups, runtime, rows, bounds>>

(* relocate_legacy_state, by what its receipt says. *)
Unmoved == receipt.status = "none" \/ (receipt.status = "legacy" /\ legacy = receipt.db)

Refuses ==
  CASE receipt.status = "publishing" ->
         receipt.db # (IF private # None THEN private
                       ELSE IF candidate # None THEN candidate ELSE legacy)
    [] receipt.status = "private" -> private = None \/ legacy \notin {None, receipt.db}
    [] OTHER -> ~Unmoved \/ (legacy # None /\ private # None) \/ legacy = Torn

Refuse ==
  /\ At("relocating") /\ Refuses
  /\ cmd' = Idle
  /\ UNCHANGED <<floor, copies, backups, runtime, rows, bounds>>

(* The verified backup, and the candidate. *)
Prepare ==
  /\ At("relocating") /\ ~Refuses
  /\ receipt.status \in {"none", "legacy"} /\ legacy # None
  /\ restore' = [restore EXCEPT !["private"] = legacy]
  /\ kept' = kept \cup legacy.rows
  /\ candidate' = legacy /\ Goto("declaring")
  /\ UNCHANGED <<floor, legacy, private, receipt, runtime, rows, bounds>>

Declare ==
  /\ At("declaring")
  /\ receipt' = [status |-> "publishing", db |-> candidate] /\ Goto("relocating")
  /\ UNCHANGED <<floor, legacy, private, candidate, backups, runtime, rows, bounds>>

(* The candidate replaces the private database, or a new copy of the legacy one. *)
Publish ==
  /\ At("relocating") /\ ~Refuses /\ receipt.status = "publishing" /\ private = None
  /\ private' = receipt.db /\ candidate' = None
  /\ UNCHANGED <<floor, legacy, receipt, backups, runtime, cmd, rows, bounds>>

Settle ==
  /\ At("relocating") /\ ~Refuses /\ receipt.status = "publishing" /\ private # None
  /\ receipt' = [receipt EXCEPT !.status = "private"]
  /\ UNCHANGED <<floor, legacy, private, candidate, backups, runtime, cmd, rows, bounds>>

Retire ==
  /\ At("relocating") /\ ~Refuses /\ receipt.status = "private" /\ legacy # None
  /\ legacy' = None
  /\ UNCHANGED <<floor, private, candidate, receipt, backups, runtime, cmd, rows, bounds>>

Relocated ==
  /\ At("relocating") /\ ~Refuses /\ legacy = None /\ receipt.status # "publishing"
  /\ Goto("backing")
  /\ UNCHANGED <<floor, copies, backups, runtime, rows, bounds>>

(* backup_existing("preupdate"); a torn database fails it and ends the update. *)
BackUp ==
  /\ At("backing")
  /\ IF cmd.backup /\ private # Torn
       THEN /\ restore' = [restore EXCEPT !["private"] = private]
            /\ kept' = kept \cup private.rows
       ELSE UNCHANGED backups
  /\ cmd' = IF private = Torn THEN Idle ELSE [cmd EXCEPT !.at = "migrating"]
  /\ UNCHANGED <<floor, copies, runtime, rows, bounds>>

(* Seeded fault: one file more. *)
PendingOneMore == private.schema <= Schema(Newest(disk))

(* Each migration file commits with its row of the ledger. *)
Pending == private.schema < Schema(Newest(disk))

Migrate ==
  /\ At("migrating") /\ Pending
  /\ private' = [private EXCEPT !.schema = @ + 1]
  /\ UNCHANGED <<floor, legacy, candidate, receipt, backups, runtime, cmd, rows, bounds>>

(* What follows the migrations may fail; the pin is published after it. *)
PublishRef ==
  /\ At("migrating") /\ ~Pending
  /\ pin' = (IF cmd.target = NoVersion THEN pin ELSE cmd.target)
  /\ Goto("restarting")
  /\ UNCHANGED <<disk, prev, manifest, copies, backups, runtime, rows, bounds>>

(* The runtimes that this run or one cut short before it has noted are launched. *)
Restart ==
  /\ At("restarting") /\ cmd' = Idle
  /\ server' = (server \/ intent) /\ intent' = FALSE
  /\ UNCHANGED <<floor, copies, backups, rows, bounds>>

(***************************************************************************)
(* ./sc rollback.                                                          *)
(***************************************************************************)
(* Seeded fault: the newest update's backup has to do. *)
UndoUnsaved(cmd1, place) ==
  /\ Runnable /\ Named = place /\ ~server
  /\ Copy(place) \notin {None, Torn}
  /\ acts < MaxActs /\ acts' = acts + 1
  /\ cmd' = cmd1
  /\ UNCHANGED <<floor, copies, backups, runtime, rows, aborts>>

(* Under the lease, with the current database backed up first. *)
Undo(cmd1, place) ==
  /\ Runnable /\ Named = place /\ ~server
  /\ Copy(place) \notin {None, Torn}
  /\ acts < MaxActs /\ acts' = acts + 1
  /\ kept' = kept \cup Copy(place).rows
  /\ cmd' = cmd1
  /\ UNCHANGED <<floor, copies, restore, runtime, rows, aborts>>

BeginRollback(place) ==
  /\ restore[place] # None
  /\ Undo([Idle EXCEPT !.at = "erasing", !.live = place, !.src = restore[place]], place)

(* --engine-only: new files over a database that is still exactly the old one. *)
BeginEngineOnly(place) ==
  /\ prev # NoVersion /\ pin \notin {NoVersion, prev}
  /\ Schema(Newest(disk)) > Schema(prev)
  /\ Undo([Idle EXCEPT !.at = "reviving", !.live = place], place)
  /\ Copy(place).schema = Schema(prev)

(* shutil.copy2: truncated, then written. *)
Erase ==
  /\ At("erasing") /\ Store(cmd.live, Torn) /\ Goto("copying")
  /\ UNCHANGED <<floor, candidate, receipt, backups, runtime, rows, bounds>>

Restore ==
  /\ At("copying") /\ Store(cmd.live, cmd.src)
  /\ expected' = cmd.src.rows
  /\ cmd' = IF prev = NoVersion THEN Idle ELSE [cmd EXCEPT !.at = "reviving"]
  /\ UNCHANGED <<floor, candidate, receipt, backups, runtime, written, bounds>>

(* An older floor knows only the database in the repository. *)
Outdated == cmd.live = "private" /\ prev < PrivateSince

ReviveLegacy ==
  /\ At("reviving") /\ Outdated
  /\ legacy' = private /\ Goto("receipting")
  /\ UNCHANGED <<floor, private, candidate, receipt, backups, runtime, rows, bounds>>

ReceiptLegacy ==
  /\ At("receipting")
  /\ receipt' = [status |-> "legacy", db |-> private] /\ Goto("dropping")
  /\ UNCHANGED <<floor, legacy, private, candidate, backups, runtime, rows, bounds>>

DropPrivate ==
  /\ At("dropping") /\ private' = None
  /\ cmd' = [cmd EXCEPT !.at = "reviving", !.live = "legacy"]
  /\ UNCHANGED <<floor, legacy, candidate, receipt, backups, runtime, rows, bounds>>

(* restore_engine: the files, then the pin and the manifest. *)
Revive ==
  /\ At("reviving") /\ ~Outdated
  /\ disk' = disk \cup {prev} /\ Goto("relaying")
  /\ UNCHANGED <<pin, prev, manifest, copies, backups, runtime, rows, bounds>>

Relay ==
  /\ At("relaying") /\ disk' = {prev} /\ Goto("repinning")
  /\ UNCHANGED <<pin, prev, manifest, copies, backups, runtime, rows, bounds>>

Repin ==
  /\ At("repinning") /\ pin' = prev /\ Goto("rehashing")
  /\ UNCHANGED <<disk, prev, manifest, copies, backups, runtime, rows, bounds>>

Rehash ==
  /\ At("rehashing") /\ manifest' = prev /\ Goto("consuming")
  /\ UNCHANGED <<disk, pin, prev, copies, backups, runtime, rows, bounds>>

Consume ==
  /\ At("consuming") /\ prev' = NoVersion /\ cmd' = Idle
  /\ UNCHANGED <<disk, pin, manifest, copies, backups, runtime, rows, bounds>>

(* The command dies, or exits with an error; its lease goes with it. *)
Abort ==
  /\ cmd # Idle /\ aborts < MaxAborts
  /\ aborts' = aborts + 1 /\ cmd' = Idle
  /\ UNCHANGED <<floor, copies, backups, runtime, rows, acts>>

(***************************************************************************)
(* The specification.                                                      *)
(***************************************************************************)
Fresh(v) == [rows |-> {}, schema |-> Schema(v)]

(* Release 1 was laid by an older updater over a database in the repository, with
   a backup in the operator's home; or it was installed with a private one. *)
Init ==
  /\ disk = {1} /\ pin = 1 /\ manifest = 1
  /\ \/ legacy = Fresh(1) /\ private = None /\ prev = 0
        /\ restore = [legacy |-> Fresh(0), private |-> None]
     \/ legacy = None /\ private = Fresh(1) /\ prev = NoVersion
        /\ restore = [legacy |-> None, private |-> None]
  /\ candidate = None /\ receipt = NoReceipt /\ kept = {}
  /\ server = FALSE /\ intent = FALSE /\ cmd = Idle
  /\ written = 0 /\ expected = {} /\ acts = 0 /\ aborts = 0

Relocation ==
  Refuse \/ Prepare \/ Declare \/ Publish \/ Settle \/ Retire \/ Relocated

UpdateStep ==
  \/ Overlay \/ Lay \/ Hash \/ StopRuntime \/ NoteIntent \/ Lease \/ Relocation
  \/ BackUp \/ Migrate \/ PublishRef \/ Restart

RollbackStep ==
  \/ Erase \/ Restore \/ ReviveLegacy \/ ReceiptLegacy \/ DropPrivate
  \/ Revive \/ Relay \/ Repin \/ Rehash \/ Consume

Update == \E v \in Versions : BeginUpdate(v)

Next ==
  \/ Launch \/ Write \/ Update \/ BeginReconcile \/ UpdateStep
  \/ \E place \in {"legacy", "private"} : BeginRollback(place) \/ BeginEngineOnly(place)
  \/ RollbackStep \/ Abort

Spec == Init /\ [][Next]_vars

(* The operator repeats an update that stopped, and a command that runs goes on. *)
FairSpec == Spec /\ WF_vars(Update) /\ WF_vars(UpdateStep) /\ WF_vars(RollbackStep)
=============================================================================
