----------------------------- MODULE EepromSave -----------------------------
(***************************************************************************)
(* EepromFile, SaveStore and commit_snapshot_parts: the EEPROM mirror of a *)
(* game, the thread that loads and flushes it, the transaction on the file *)
(* system, and power loss at any step.                                     *)
(*                                                                         *)
(* Three actors.  The game mutates the mirror under lock_.  One owner      *)
(* thread loads and flushes; its control point is `pc`.  Another           *)
(* EepromFile of the same MBA may hold the shared scratch buffer.          *)
(*                                                                         *)
(* A byte is a member of Byte and the mirror has Size of them.  A save     *)
(* file keeps the payload byte by byte and its header as the verdict       *)
(* save_format::decode gives on it.  The CRC32 of a payload is the payload *)
(* itself: collisions are abstracted away.                                 *)
(***************************************************************************)
EXTENDS Integers

CONSTANTS
  Byte, Erased,        \* mirror bytes, and erased_value_
  Size,                \* size_
  Capacity,            \* payload bytes the scratch buffer holds
  Schema,              \* schema_: 0 keeps raw .dat files, else .sav envelopes
  HasMigration,        \* migration_ # nullptr
  Migrated,            \* what the migration callback makes of a source payload
  InitialFiles,        \* save directories the first boot may find
  GenMod,              \* generation_ counts modulo this (2^32 in the code)
  EditBound            \* bound on mutations during one flush

Image == [1..Size -> Byte]
Blank == [i \in 1..Size |-> Erased]

Verdict == {"none", "ok", "bad", "version", "foreign"}
File == [present : BOOLEAN, hdr : Verdict, schema : Nat, size : Nat,
         sum : Image, len : Nat, body : Image, synced : BOOLEAN]
Name == {"dat", "sav", "tmp"}

\* A file with the header of f and this payload.
WithPayload(f, len, body, synced) ==
  [present |-> f.present, hdr |-> f.hdr, schema |-> f.schema, size |-> f.size,
   sum |-> f.sum, len |-> len, body |-> body, synced |-> synced]

Empty(present, synced) ==
  [present |-> present, hdr |-> "none", schema |-> 0, size |-> 0,
   sum |-> Blank, len |-> 0, body |-> Blank, synced |-> synced]
Created == Empty(TRUE, FALSE)
NoFile  == Empty(FALSE, TRUE)

ASSUME SaveAssumption ==
  /\ Size \in Nat \ {0}
  /\ Capacity \in Nat /\ Size <= Capacity
  /\ Erased \in Byte
  /\ Schema \in Nat
  /\ HasMigration \in BOOLEAN
  /\ Schema = 0 => ~HasMigration
  /\ Migrated \in [Image -> Image]
  /\ InitialFiles \subseteq {d \in [Name -> File] : \A n \in Name : d[n].synced}
  /\ GenMod \in Nat /\ EditBound \in Nat /\ EditBound < GenMod

VARIABLES
  data, dirty, generation,   \* EepromFile: the mirror and its flags
  lock,                      \* lock_ is held: by the game while it stores a
                             \* block, by the owner while it copies
  writable, status,          \* SaveStore
  scratch, busy, other,      \* the shared buffer, scratch_busy, and whether
                             \* another store holds the lease
  pc, job, rc,               \* owner: control point, operation, result
  snap, cursor, crc,         \* owner: generation, copy position, header CRC
  game, want,                \* the game, and the block it is storing
  edits,                     \* mutations since the snapshot of this flush
  files                      \* the save directory

mirrorVars == <<data, dirty, generation>>
storeVars  == <<writable, status>>
leaseVars  == <<scratch, busy, other>>
ownerVars  == <<pc, job, rc, snap, cursor, crc>>
gameVars   == <<game, want, edits>>
locals     == <<snap, cursor, crc>>
vars == <<mirrorVars, lock, storeVars, leaseVars, ownerVars, gameVars, files>>

\* What a step of the game, of the owner on its own, or of a file operation
\* leaves alone.
ownerSide == <<storeVars, leaseVars, ownerVars, files>>
calm      == <<mirrorVars, lock, storeVars, leaseVars, gameVars>>

Status == {"not_loaded", "fresh", "loaded", "legacy_available", "migrated",
           "corrupt", "size_mismatch", "schema_mismatch",
           "identity_mismatch", "migration_failed", "io_error"}
Pc == {"off", "idle", "lease", "lock", "copy", "read", "mkdir", "open",
       "write", "sync", "close", "rename", "unlink", "ack"}
Rc == {"OK", "ERR"}   \* 0, or any negative errno

-----------------------------------------------------------------------------
(* The format of a save file. *)

\* path_: .dat without a schema, .sav with one.
Path == IF Schema = 0 THEN "dat" ELSE "sav"

\* What save_format::decode says of a .sav file, in the order it looks.
Decode(f) ==
  IF f.hdr \in {"none", "bad"} THEN "corrupt"
  ELSE IF f.hdr = "version" THEN "schema_mismatch"
  ELSE IF f.hdr = "foreign" THEN "identity_mismatch"
  ELSE IF f.schema = 0 \/ f.size \notin 1..Capacity \/ f.len # f.size
    THEN "size_mismatch"
  ELSE IF f.sum # f.body THEN "corrupt" ELSE "ok"

\* The file holds one whole payload in the layout of this program.
Whole(f) == /\ f.present
            /\ f.len = Size
            /\ Schema # 0 => Decode(f) = "ok" /\ f.schema = Schema

\* The file as far as the first n payload bytes (-1: not even the header).
Truncated(f, n) ==
  IF n < 0 THEN Empty(TRUE, TRUE)
  ELSE WithPayload(f, n, [i \in 1..Size |-> IF i <= n THEN f.body[i] ELSE Erased],
                   TRUE)

\* What a power failure may leave of a file: all of it once it was synced.
Survivors(f) == IF f.synced THEN {f}
                ELSE {NoFile} \cup {Truncated(f, n) : n \in -1..f.len}

-----------------------------------------------------------------------------
Init ==
  /\ data = Blank /\ dirty = FALSE /\ generation = 0
  /\ lock = FALSE
  /\ writable = FALSE /\ status = "not_loaded"
  /\ scratch = Blank /\ busy = FALSE /\ other = FALSE
  /\ pc = "off" /\ job = "none" /\ rc = "OK"
  /\ snap = 0 /\ cursor = 0 /\ crc = Blank
  /\ game = "stopped" /\ want = Blank /\ edits = 0
  /\ files \in InitialFiles

\* init / init_versioned, after power-up or of an object used before: raw
\* saves are writable at once, versioned ones only after a load.
InitFile ==
  /\ pc = "off" \/ (pc = "idle" /\ game = "stopped")
  /\ pc' = "idle"
  /\ data' = Blank /\ dirty' = FALSE /\ generation' = 0
  /\ writable' = (Schema = 0) /\ status' = "not_loaded"
  /\ UNCHANGED <<locals, lock, leaseVars, job, rc, gameVars, files>>

\* The power fails: RAM is lost, unsynced file contents are lost in part.
PowerLoss ==
  /\ pc # "off"
  /\ data' = Blank /\ dirty' = FALSE /\ generation' = 0
  /\ lock' = FALSE
  /\ writable' = FALSE /\ status' = "not_loaded"
  /\ scratch' = Blank /\ busy' = FALSE /\ other' = FALSE
  /\ pc' = "off" /\ job' = "none" /\ rc' = "OK"
  /\ snap' = 0 /\ cursor' = 0 /\ crc' = Blank
  /\ game' = "stopped" /\ want' = Blank /\ edits' = 0
  /\ \E d \in Survivors(files["dat"]), s \in Survivors(files["sav"]),
        t \in Survivors(files["tmp"]) :
       files' = [n \in Name |-> IF n = "dat" THEN d
                                ELSE IF n = "sav" THEN s ELSE t]

-----------------------------------------------------------------------------
(* The game.  init, load and reset require a stopped game. *)

StartStopGame ==
  /\ pc = "idle"
  /\ \/ game = "stopped" /\ game' = "running"
     \/ game = "running" /\ game' = "stopped"
  /\ UNCHANGED <<mirrorVars, lock, want, edits, ownerSide>>

\* A flush has taken its snapshot and has not returned.
InFlight == job = "flush" /\ pc \notin {"lease", "lock", "copy"}

NoLock == TRUE   \* mutant: a Guard that does not wait
\* k_sem_take(&lock_) waits for this.
LockFree == ~lock

NextGeneration == IF generation + 1 = GenMod THEN 0 ELSE generation + 1

\* EditBound: mutations during one flush, fewer than generation_ can count.
Mutated ==
  /\ dirty' = TRUE
  /\ generation' = NextGeneration
  /\ InFlight => edits < EditBound
  /\ edits' = IF InFlight THEN edits + 1 ELSE edits

\* write: one byte, always a mutation, even of an equal value.
Write(i, b) ==
  /\ game = "running" /\ LockFree
  /\ data' = [data EXCEPT ![i] = b]
  /\ Mutated
  /\ UNCHANGED <<ownerSide, lock, game, want>>

\* update_block (and update, a block of one byte): nothing to do if equal,
\* otherwise the whole block is copied under lock_, byte after byte.
UpdateBlock(img) ==
  /\ game = "running" /\ LockFree
  /\ img # data
  /\ InFlight => edits < EditBound
  /\ lock' = TRUE /\ game' = "storing" /\ want' = img
  /\ UNCHANGED <<ownerSide, mirrorVars, edits>>

UpdateBlockCopy(i) ==
  /\ game = "storing"
  /\ data[i] # want[i] /\ \A j \in 1..(i - 1) : data[j] = want[j]
  /\ data' = [data EXCEPT ![i] = want[i]]
  /\ UNCHANGED <<ownerSide, dirty, generation, lock, gameVars>>

UpdateBlockDone ==
  /\ game = "storing" /\ data = want
  /\ lock' = FALSE /\ game' = "running" /\ want' = Blank
  /\ Mutated
  /\ UNCHANGED <<ownerSide, data>>

-----------------------------------------------------------------------------
(* Another EepromFile of the MBA uses the scratch buffer. *)

NoLease == TRUE   \* mutant: a lease that is always granted
\* ScratchLease: one atomic exchange.
ScratchFree == ~busy

OtherLease ==
  /\ pc # "off" /\ ~other /\ ScratchFree
  /\ busy' = TRUE /\ other' = TRUE
  /\ UNCHANGED <<mirrorVars, lock, storeVars, scratch, ownerVars, gameVars,
                 files>>

OtherUses ==
  /\ other
  /\ scratch' \in Image
  /\ UNCHANGED <<mirrorVars, lock, storeVars, busy, other, ownerVars, gameVars,
                 files>>

OtherRelease ==
  /\ other
  /\ busy' = FALSE /\ other' = FALSE
  /\ UNCHANGED <<mirrorVars, lock, storeVars, scratch, ownerVars, gameVars,
                 files>>

-----------------------------------------------------------------------------
(* flush: early returns, lease, snapshot under the lock. *)

\* Not writable: -EACCES.  Not dirty: 0.  Scratch in use: -EBUSY.
FlushReturns ==
  /\ \/ pc = "idle" /\ ~writable /\ rc' = "ERR"
     \/ pc = "idle" /\ writable /\ LockFree /\ ~dirty /\ rc' = "OK"
     \/ pc = "lease" /\ ~ScratchFree /\ rc' = "ERR"
  /\ pc' = "idle" /\ job' = "none"
  /\ UNCHANGED <<calm, locals, files>>

FlushDirty ==
  /\ pc = "idle" /\ writable /\ LockFree /\ dirty
  /\ pc' = "lease" /\ job' = "flush"
  /\ UNCHANGED <<calm, locals, rc, files>>

FlushLease ==
  /\ pc = "lease" /\ ScratchFree
  /\ busy' = TRUE /\ pc' = "lock"
  /\ UNCHANGED <<locals, mirrorVars, lock, storeVars, scratch, other, job, rc,
                 gameVars, files>>

SnapshotLock ==
  /\ pc = "lock" /\ LockFree
  /\ lock' = TRUE /\ cursor' = 0 /\ pc' = "copy"
  /\ UNCHANGED <<mirrorVars, storeVars, leaseVars, job, rc, snap, crc,
                 gameVars, files>>

SnapshotCopy ==
  /\ pc = "copy" /\ cursor < Size
  /\ scratch' = [scratch EXCEPT ![cursor + 1] = data[cursor + 1]]
  /\ cursor' = cursor + 1
  /\ UNCHANGED <<mirrorVars, lock, storeVars, busy, other, pc, job, rc, snap,
                 crc, gameVars, files>>

SnapshotDone ==
  /\ pc = "copy" /\ cursor = Size
  /\ snap' = generation /\ edits' = 0 /\ cursor' = 0
  /\ lock' = FALSE
  /\ pc' = "mkdir" /\ rc' = "OK"
  /\ UNCHANGED <<mirrorVars, storeVars, leaseVars, job, crc, game, want,
                 files>>

-----------------------------------------------------------------------------
(* commit_snapshot_parts.  It ends in Return: flush or load gives up the    *)
(* lease; a migration is writable only if its commit succeeded.             *)

\* The payload to store: the snapshot, or the mirror a migration filled.
Source == IF job = "flush" THEN scratch ELSE data

Return(r) ==
  /\ pc' = "idle" /\ job' = "none" /\ rc' = r
  /\ busy' = FALSE /\ UNCHANGED <<scratch, other>>
  /\ snap' = 0 /\ edits' = 0 /\ crc' = Blank
  /\ IF job = "flush" THEN UNCHANGED storeVars
     ELSE /\ writable' = (IF r = "OK" THEN TRUE ELSE writable)
          /\ status' = IF r = "OK" THEN "migrated" ELSE "io_error"

\* encode (only with a schema), then ensure_save_dir.
Mkdir ==
  /\ pc = "mkdir"
  /\ crc' = IF Schema = 0 THEN Blank ELSE Source
  /\ pc' = "open"
  /\ UNCHANGED <<calm, job, rc, snap, cursor, files>>

\* Before the temporary file is open a failure returns at once.
OpenFails ==
  /\ pc \in {"mkdir", "open"}
  /\ Return("ERR")
  /\ UNCHANGED <<mirrorVars, lock, cursor, game, want, files>>

Open ==
  /\ pc = "open"
  /\ files' = [files EXCEPT !["tmp"] = Created]
  /\ pc' = "write"
  /\ UNCHANGED <<calm, locals, job, rc>>

HeaderWritten == Schema = 0 \/ files["tmp"].hdr = "ok"

WriteHeader ==
  /\ pc = "write" /\ ~HeaderWritten
  /\ files' = [files EXCEPT !["tmp"] =
       [present |-> TRUE, hdr |-> "ok", schema |-> Schema, size |-> Size,
        sum |-> crc, len |-> 0, body |-> Blank, synced |-> FALSE]]
  /\ UNCHANGED <<calm, ownerVars>>

NoSync == "close"   \* mutant: the sync is left out
\* Every byte is written: sync before close.
AfterWrite == "sync"

\* fs_write may store fewer bytes than asked: n of those that are left.
WriteBody(n) ==
  LET tmp == files["tmp"]
      len == tmp.len + n
      body == [i \in 1..Size |-> IF i \in (tmp.len + 1)..len THEN Source[i]
                                 ELSE tmp.body[i]] IN
  /\ pc = "write" /\ HeaderWritten
  /\ len <= Size
  /\ files' = [files EXCEPT !["tmp"] = WithPayload(tmp, len, body, FALSE)]
  /\ pc' = IF len = Size THEN AfterWrite ELSE "write"
  /\ UNCHANGED <<calm, locals, job, rc>>

\* A failed write or sync still closes the file, a failed close or rename
\* does not: the commit goes on to the unlink.
FileOpFails ==
  /\ pc \in {"write", "sync", "close", "rename"}
  /\ pc' = IF pc \in {"write", "sync"} THEN "close" ELSE "unlink"
  /\ rc' = "ERR"
  /\ UNCHANGED <<calm, job, locals, files>>

Sync ==
  /\ pc = "sync"
  /\ files' = [files EXCEPT !["tmp"] =
                 WithPayload(files["tmp"], files["tmp"].len, files["tmp"].body, TRUE)]
  /\ pc' = "close"
  /\ UNCHANGED <<calm, locals, job, rc>>

\* The file is closed in any case; only a commit without error renames.
Close ==
  /\ pc = "close"
  /\ pc' = IF rc = "OK" THEN "rename" ELSE "unlink"
  /\ UNCHANGED <<calm, locals, job, rc, files>>

\* fs_rename replaces the committed save atomically.
Rename ==
  /\ pc = "rename"
  /\ files' = [files EXCEPT ![Path] = files["tmp"], !["tmp"] = NoFile]
  /\ pc' = "ack"
  /\ UNCHANGED <<calm, locals, job, rc>>

UnlinkResult == "OK"   \* mutant: rc = fs_unlink(temporary)
\* The result of the unlink is ignored: the commit returns the first error.
CommitResult == rc

\* The temporary file is unlinked; that may fail too.
Unlink ==
  /\ pc = "unlink"
  /\ \/ files' = [files EXCEPT !["tmp"] = NoFile]
     \/ UNCHANGED files
  /\ Return(CommitResult)
  /\ UNCHANGED <<mirrorVars, lock, cursor, game, want>>

\* The committed migration makes the save writable.
MigrateDone ==
  /\ pc = "ack" /\ job = "migrate"
  /\ Return("OK")
  /\ UNCHANGED <<mirrorVars, lock, cursor, game, want, files>>

ForgetsMutations == FALSE   \* mutant: dirty_ = false
\* The save is clean only if no mutation came after the snapshot.
MutatedSinceSnapshot == generation # snap

Ack ==
  /\ pc = "ack" /\ job = "flush" /\ LockFree
  /\ dirty' = MutatedSinceSnapshot
  /\ Return("OK")
  /\ UNCHANGED <<data, generation, lock, cursor, game, want, files>>

-----------------------------------------------------------------------------
(* load: reset, read the save or the legacy file, decide. *)

Loading == job = "load" /\ pc = "read"

Legacy == Schema # 0 /\ ~files[Path].present
Found  == IF Legacy THEN files["dat"] ELSE files[Path]

FoundVerdict == IF Found.len > Capacity THEN "size_mismatch"
                ELSE IF Schema # 0 /\ ~Legacy THEN Decode(Found) ELSE "ok"
FoundSchema  == IF Schema # 0 /\ ~Legacy THEN Found.schema ELSE 0
AnySchema    == Found.len = Size   \* mutant: the schema is not compared
Current      == FoundSchema = Schema /\ Found.len = Size

\* Why a save that is not current is refused without a migration.
Refusal == IF Legacy THEN "legacy_available"
           ELSE IF Found.len # Size THEN "size_mismatch" ELSE "schema_mismatch"

KeepsPermission == writable   \* mutant: writable_ survives a failed load
\* A load starts by withdrawing the permission to write.
WritableWhileLoading == FALSE

LoadBusy ==
  /\ pc = "idle" /\ game = "stopped" /\ ~ScratchFree
  /\ data' = Blank /\ dirty' = FALSE
  /\ writable' = WritableWhileLoading /\ status' = "io_error" /\ rc' = "ERR"
  /\ UNCHANGED <<locals, generation, lock, leaseVars, pc, job, gameVars,
                 files>>

LoadBegin ==
  /\ pc = "idle" /\ game = "stopped" /\ ScratchFree
  /\ data' = Blank /\ dirty' = FALSE
  /\ writable' = WritableWhileLoading /\ busy' = TRUE
  /\ pc' = "read" /\ job' = "load"
  /\ UNCHANGED <<locals, generation, lock, status, scratch, other, rc, gameVars,
                 files>>

\* The load returns; data and scratch are left to the caller.
LoadReturns(ok, st) ==
  /\ Loading
  /\ writable' = (IF ok THEN TRUE ELSE writable) /\ status' = st
  /\ busy' = FALSE /\ pc' = "idle" /\ job' = "none"
  /\ rc' = IF ok THEN "OK" ELSE "ERR"
  /\ UNCHANGED <<locals, dirty, generation, lock, other, gameVars, files>>

LoadFails == /\ LoadReturns(FALSE, "io_error")
             /\ UNCHANGED <<data, scratch>>

LoadFresh == /\ ~Found.present
             /\ LoadReturns(TRUE, "fresh")
             /\ UNCHANGED <<data, scratch>>

LoadInvalid == /\ Found.present /\ FoundVerdict # "ok"
               /\ LoadReturns(FALSE, FoundVerdict)
               /\ scratch' = Found.body
               /\ UNCHANGED data

LoadCurrent == /\ Found.present /\ FoundVerdict = "ok" /\ Current
               /\ LoadReturns(TRUE, "loaded")
               /\ data' = Found.body /\ scratch' = Found.body

Outdated == Found.present /\ FoundVerdict = "ok" /\ ~Current

LoadRefused == /\ Outdated /\ ~HasMigration
               /\ LoadReturns(FALSE, Refusal)
               /\ scratch' = Found.body
               /\ UNCHANGED data

\* A callback that fails may have written any part of the mirror.
LoadMigrateFails == /\ Outdated /\ HasMigration
                    /\ LoadReturns(FALSE, "migration_failed")
                    /\ scratch' = Found.body
                    /\ data' \in Image

LoadMigrate ==
  /\ Loading
  /\ Outdated /\ HasMigration
  /\ scratch' = Found.body
  /\ data' = Migrated[Found.body]
  /\ pc' = "mkdir" /\ job' = "migrate" /\ rc' = "OK"
  /\ UNCHANGED <<locals, dirty, generation, lock, storeVars, busy, other,
                 gameVars,
                 files>>

-----------------------------------------------------------------------------
Game == \/ StartStopGame
        \/ \E i \in 1..Size, b \in Byte : Write(i, b)
        \/ \E img \in Image : UpdateBlock(img)
        \/ \E i \in 1..Size : UpdateBlockCopy(i)
        \/ UpdateBlockDone

Flush == \/ FlushReturns \/ FlushDirty \/ FlushLease
         \/ SnapshotLock \/ SnapshotCopy \/ SnapshotDone
         \/ Ack

Commit == \/ Mkdir \/ Open \/ OpenFails \/ WriteHeader
          \/ \E n \in 1..Size : WriteBody(n)
          \/ Sync \/ Close \/ FileOpFails \/ Rename \/ Unlink
          \/ MigrateDone

Load == \/ LoadBusy \/ LoadBegin \/ LoadFails \/ LoadFresh \/ LoadInvalid
        \/ LoadCurrent \/ LoadRefused \/ LoadMigrateFails \/ LoadMigrate

Next == InitFile \/ PowerLoss \/ Game \/ OtherLease \/ OtherUses \/ OtherRelease
        \/ Flush \/ Commit \/ Load

Spec == Init /\ [][Next]_vars

\* The owner flushes every 250 ms and every call it makes returns; a thread
\* that waits for lock_ gets it; a file operation that is tried again and
\* again succeeds some time.  A flush does not wait for the scratch buffer, it
\* returns -EBUSY: its user gives it back, and a flush that is tried again and
\* again meets it free some time.
Fairness ==
  /\ SF_vars(ScratchFree /\ FlushDirty) /\ SF_vars(FlushLease) /\ WF_vars(OtherRelease)
  /\ SF_vars(SnapshotLock \/ Ack)
  /\ WF_vars(SnapshotCopy \/ SnapshotDone \/ Commit)
  /\ WF_vars(UpdateBlockDone \/ \E i \in 1..Size : UpdateBlockCopy(i))
  /\ SF_vars(Mkdir) /\ SF_vars(Open) /\ SF_vars(WriteHeader)
  /\ SF_vars(\E n \in 1..Size : WriteBody(n))
  /\ SF_vars(Sync) /\ SF_vars(rc = "OK" /\ Close) /\ SF_vars(Rename)

FairSpec == Spec /\ Fairness

-----------------------------------------------------------------------------
TypeOK ==
  /\ data \in Image /\ dirty \in BOOLEAN /\ generation \in 0..(GenMod - 1)
  /\ lock \in BOOLEAN
  /\ writable \in BOOLEAN /\ status \in Status
  /\ scratch \in Image /\ busy \in BOOLEAN /\ other \in BOOLEAN
  /\ pc \in Pc /\ job \in {"none", "flush", "load", "migrate"} /\ rc \in Rc
  /\ snap \in 0..(GenMod - 1) /\ cursor \in 0..Size /\ crc \in Image
  /\ game \in {"stopped", "running", "storing"} /\ want \in Image
  /\ edits \in 0..EditBound
  /\ files \in [Name -> File]

Accepted == {"fresh", "loaded", "migrated"}
Refused  == Status \ (Accepted \cup {"not_loaded"})

\* The next load would fill the mirror with this image.
SavedImage == IF files[Path].present THEN files[Path].body ELSE Blank

\* The object vouches for the mirror: nothing needs to be flushed.
Clean == writable /\ status \in Accepted /\ ~dirty /\ game # "storing"

Saveable == writable /\ status \in Accepted /\ game # "stopped"

\* EepromFile::dirty_ never lies: when a loaded save is not dirty, the
\* committed file is whole, is durable and holds exactly the mirror, whatever
\* the game stored during a flush, whichever file operation failed and
\* wherever the power was lost.
CleanIsDurable ==
  Clean => /\ files[Path].present => Whole(files[Path]) /\ files[Path].synced
           /\ SavedImage = data

\* "Never truncate or unlink the previously committed save on an I/O
\* failure" (storage.hpp): the only change ever made to a committed save is
\* its replacement by a whole, synced file, and the raw file of a versioned
\* save is never touched; power loss included.
SaveNeverTorn ==
  [][\A n \in {"dat", "sav"} : files'[n] # files[n] =>
        n = Path /\ Whole(files'[n]) /\ files'[n].synced]_vars

\* The object has no say over the file: load refused it, or it is a versioned
\* save that no load has looked at.  (A raw save is writable from init on.)
Unaccepted == status \in Refused \/ (Schema # 0 /\ status = "not_loaded")

\* A save that load refused stays as it was, for manual recovery, and so does a
\* versioned save before its first load (tests/save_schema.cpp:20): no flush
\* replaces it as long as the object says so.  (A migration in progress still
\* shows the status of the load before.)
RefusedSaveKept ==
  [][job # "migrate" /\ Unaccepted =>
       \A n \in {"dat", "sav"} : files'[n] = files[n]]_vars

\* flush tells the truth: 0 means that the snapshot is the save and that the
\* mirror is dirty only because of mutations after the snapshot (with a
\* stopped game, the final flush leaves nothing unsaved); after an error the
\* mirror is still dirty, so that the next call tries again.
FlushTellsTruth ==
  [][job = "flush" /\ pc' = "idle" =>
       IF rc' = "OK" THEN files[Path].body = scratch /\ (dirty' <=> edits > 0)
       ELSE dirty']_vars

\* If the mirror stays as it is and the save stays writable, the periodic flush
\* stores the mirror: in spite of failed file operations, of -EBUSY while another
\* store uses the scratch buffer, and of a game that keeps writing equal bytes.  No
\* exit of a flush keeps the buffer or forgets that there is something to store.
EventuallySaved ==
  \A img \in Image :
    <>[](Saveable /\ data = img) => <>[](SavedImage = img)
=============================================================================
