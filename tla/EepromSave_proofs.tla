------------------------- MODULE EepromSave_proofs -------------------------
(* Proofs about EepromSave, for every mirror size, schema and content.     *)
EXTENDS EepromSaveRefines, TLAPS

USE DEF mirrorVars, storeVars, leaseVars, ownerVars, gameVars, locals,
        ownerSide, calm

LEMMA ConstantTypes ==
  /\ Blank \in Image
  /\ Created \in File /\ NoFile \in File
  /\ Path \in Name /\ Path \in {"dat", "sav"}
  /\ 0 \in 0..(GenMod - 1) /\ 0 \in 0..EditBound /\ 0 \in 0..Size
  BY SaveAssumption DEF Blank, Image, Created, NoFile, Empty, File, Verdict, Path, Name

LEMMA Numbers == Size \in Nat \ {0} /\ GenMod \in Nat /\ EditBound \in Nat
  BY SaveAssumption

\* The names a step assigns, so that Pc, Rc and Status can stay folded.
LEMMA Names ==
  /\ "off" \in Pc /\ "idle" \in Pc /\ "lease" \in Pc /\ "lock" \in Pc
  /\ "copy" \in Pc /\ "read" \in Pc /\ "mkdir" \in Pc /\ "open" \in Pc
  /\ "write" \in Pc /\ "sync" \in Pc /\ "close" \in Pc /\ "rename" \in Pc
  /\ "unlink" \in Pc /\ "ack" \in Pc
  /\ "OK" \in Rc /\ "ERR" \in Rc
  /\ "not_loaded" \in Status /\ "migrated" \in Status /\ "io_error" \in Status
  /\ "fresh" \in Status /\ "loaded" \in Status
  /\ "migration_failed" \in Status
  BY DEF Pc, Rc, Status

\* A power failure leaves files behind.
LEMMA SurvivorsAreFiles ==
  ASSUME NEW f \in File
  PROVE  Survivors(f) \subseteq File
  <1>1. ASSUME NEW n \in -1..f.len
        PROVE  Truncated(f, n) \in File
    <2>1. CASE n < 0
      BY <2>1, ConstantTypes DEF Truncated, Empty, File, Verdict
    <2>2. CASE ~(n < 0)
      <3>1. [i \in 1..Size |-> IF i <= n THEN f.body[i] ELSE Erased] \in Image
        BY SaveAssumption DEF Image, File
      <3>2. n \in Nat
        BY <2>2 DEF File
      <3> QED BY <2>2, <3>1, <3>2 DEF Truncated, WithPayload, File
    <2> QED BY <2>1, <2>2
  <1> QED BY <1>1, ConstantTypes DEF Survivors

LEMMA GenerationStaysInRange ==
  ASSUME generation \in 0..(GenMod - 1)
  PROVE  NextGeneration \in 0..(GenMod - 1)
  BY SaveAssumption DEF NextGeneration

LEMMA TypeStep ==
  ASSUME TypeOK, [Next]_vars
  PROVE  TypeOK'
  <1> USE ConstantTypes, Names DEF TypeOK
  <1>1. CASE InitFile BY <1>1 DEF InitFile
  <1>2. CASE PowerLoss
    <2>1. files' \in [Name -> File]
      BY <1>2, SurvivorsAreFiles DEF PowerLoss, Name
    <2> QED BY <1>2, <2>1 DEF PowerLoss
  <1>3. CASE Game
    <2> USE Numbers
    <2>1. CASE StartStopGame BY <2>1 DEF StartStopGame
    <2>2. ASSUME NEW i \in 1..Size, NEW b \in Byte, Write(i, b) PROVE TypeOK'
      BY <2>2, GenerationStaysInRange DEF Write, Mutated, Image
    <2>3. ASSUME NEW img \in Image, UpdateBlock(img) PROVE TypeOK'
      BY <2>3 DEF UpdateBlock
    <2>4. ASSUME NEW i \in 1..Size, UpdateBlockCopy(i) PROVE TypeOK'
      BY <2>4 DEF UpdateBlockCopy, Image
    <2>5. CASE UpdateBlockDone
      <3>1. generation' \in 0..(GenMod - 1) /\ edits' \in 0..EditBound
        BY <2>5, GenerationStaysInRange DEF UpdateBlockDone, Mutated
      <3> QED BY <2>5, <3>1 DEF UpdateBlockDone, Mutated
    <2> QED BY <1>3, <2>1, <2>2, <2>3, <2>4, <2>5 DEF Game
  <1>4. CASE OtherLease \/ OtherUses \/ OtherRelease
    BY <1>4 DEF OtherLease, OtherUses, OtherRelease
  <1>5. CASE Flush
    <2>1. CASE FlushReturns BY <2>1 DEF FlushReturns
    <2>2. CASE FlushDirty BY <2>2 DEF FlushDirty
    <2>3. CASE FlushLease BY <2>3 DEF FlushLease
    <2>4. CASE SnapshotLock BY <2>4 DEF SnapshotLock
    <2>5. CASE SnapshotCopy
      BY <2>5, Numbers DEF SnapshotCopy, Image
    <2>6. CASE SnapshotDone BY <2>6 DEF SnapshotDone
    <2>7. CASE Ack
      BY <2>7, Numbers DEF Ack, Return, MutatedSinceSnapshot
    <2> QED BY <1>5, <2>1, <2>2, <2>3, <2>4, <2>5, <2>6, <2>7 DEF Flush
  <1>6. CASE Commit
    <2> USE Numbers
    <2>1. CASE Mkdir BY <2>1 DEF Mkdir, Source
    <2>2. CASE OpenFails BY <2>2 DEF OpenFails, Return
    <2>3. CASE Open BY <2>3 DEF Open, Name
    <2>4. CASE WriteHeader
      <3>1. \A f : f = [present |-> TRUE, hdr |-> "ok", schema |-> Schema,
                      size |-> Size, sum |-> crc, len |-> 0, body |-> Blank,
                      synced |-> FALSE] => f \in File
        BY SaveAssumption DEF File, Verdict
      <3>2. files' \in [Name -> File]
        BY <2>4, <3>1 DEF WriteHeader, Name
      <3> QED BY <2>4, <3>2 DEF WriteHeader
    <2>5. ASSUME NEW n \in 1..Size, WriteBody(n) PROVE TypeOK'
      <3> DEFINE tmp == files["tmp"]
                 body == [i \in 1..Size |->
                            IF i \in (tmp.len + 1)..(tmp.len + n)
                            THEN Source[i] ELSE tmp.body[i]]
      <3>1. body \in Image
        BY DEF Source, Image, File, Name
      <3>2. tmp \in File
        BY DEF Name
      <3>3. tmp.len + n \in Nat
        BY <3>2 DEF File
      <3>4. WithPayload(tmp, tmp.len + n, body, FALSE) \in File
        BY <3>1, <3>2, <3>3 DEF WithPayload, File
      <3>5. files' \in [Name -> File]
        BY <2>5, <3>4 DEF WriteBody, Name
      <3> QED BY <2>5, <3>5 DEF WriteBody, AfterWrite
    <2>6. CASE Sync
      <3>1. files' \in [Name -> File]
        BY <2>6 DEF Sync, WithPayload, File, Name
      <3> QED BY <2>6, <3>1 DEF Sync
    <2>7. CASE Close BY <2>7 DEF Close
    <2>8. CASE FileOpFails BY <2>8 DEF FileOpFails
    <2>9. CASE Rename BY <2>9 DEF Rename, Name
    <2>10. CASE Unlink
      BY <2>10 DEF Unlink, Return, CommitResult, Name
    <2>11. CASE MigrateDone BY <2>11 DEF MigrateDone, Return
    <2> QED BY <1>6, <2>1, <2>2, <2>3, <2>4, <2>5, <2>6, <2>7, <2>8, <2>9,
               <2>10, <2>11 DEF Commit
  <1>7. CASE Load
    <2>1. Found \in File
      BY DEF Found, Name
    <2>2. Found.body \in Image
      BY <2>1 DEF File
    <2>3. FoundVerdict \in Status \/ FoundVerdict = "ok"
      BY DEF FoundVerdict, Decode, Status
    <2>4. Refusal \in Status
      BY DEF Refusal, Status
    <2>5. Migrated[Found.body] \in Image
      BY <2>2, SaveAssumption
    <2>6. \A ok \in BOOLEAN, st \in Status :
            LoadReturns(ok, st) /\ data' \in Image /\ scratch' \in Image => TypeOK'
      BY DEF LoadReturns
    <2>8. CASE LoadBusy BY <2>8 DEF LoadBusy, WritableWhileLoading
    <2>9. CASE LoadBegin BY <2>9 DEF LoadBegin, WritableWhileLoading
    <2>10. CASE LoadFails BY <2>10, <2>6 DEF LoadFails
    <2>11. CASE LoadFresh BY <2>11, <2>6 DEF LoadFresh
    <2>12. CASE LoadInvalid BY <2>12, <2>2, <2>3, <2>6 DEF LoadInvalid
    <2>13. CASE LoadCurrent BY <2>13, <2>2, <2>6 DEF LoadCurrent
    <2>14. CASE LoadRefused BY <2>14, <2>2, <2>4, <2>6 DEF LoadRefused
    <2>15. CASE LoadMigrateFails
      BY <2>15, <2>2, <2>6 DEF LoadMigrateFails
    <2>16. CASE LoadMigrate BY <2>16, <2>2, <2>5 DEF LoadMigrate
    <2> QED BY <1>7, <2>8, <2>9, <2>10, <2>11, <2>12, <2>13, <2>14, <2>15,
               <2>16 DEF Load
  <1>8. CASE UNCHANGED vars BY <1>8 DEF vars
  <1> QED BY <1>1, <1>2, <1>3, <1>4, <1>5, <1>6, <1>7, <1>8 DEF Next

\* Who runs, who may write and who holds lock_ and the lease, together.
LEMMA StructureStep ==
  ASSUME IInv, [Next]_vars
  PROVE  Control' /\ Permission' /\ LockHeld' /\ LeaseHeld'
  <1> USE ConstantTypes DEF IInv, TypeOK, Control, Permission, LockHeld, LeaseHeld
  <1>1. CASE InitFile \/ PowerLoss
    BY <1>1 DEF InitFile, PowerLoss, CommitPc, LockFree, ScratchFree, Rc,
    Unaccepted, Refused, Accepted
  <1>2. CASE StartStopGame \/ (\E i \in 1..Size, b \in Byte : Write(i, b))
    BY <1>2 DEF StartStopGame, Write, Mutated, CommitPc, LockFree,
    ScratchFree, Rc, Unaccepted, Refused, Accepted
  <1>3. CASE (\E img \in Image : UpdateBlock(img)) \/ (\E i \in 1..Size :
  UpdateBlockCopy(i))
    BY <1>3 DEF UpdateBlock, UpdateBlockCopy, CommitPc, LockFree, ScratchFree,
    Rc, Unaccepted, Refused, Accepted
  <1>4. CASE UpdateBlockDone
    BY <1>4 DEF UpdateBlockDone, Mutated, CommitPc, LockFree, ScratchFree, Rc,
    Unaccepted, Refused, Accepted
  <1>5. CASE OtherLease \/ OtherUses
    BY <1>5 DEF OtherLease, OtherUses, CommitPc, LockFree, ScratchFree, Rc,
    Unaccepted, Refused, Accepted
  <1>6. CASE OtherRelease
    BY <1>6 DEF OtherRelease, CommitPc, LockFree, ScratchFree, Rc, Unaccepted, Refused,
    Accepted
  <1>7. CASE FlushReturns \/ FlushDirty
    BY <1>7 DEF FlushReturns, FlushDirty, CommitPc, LockFree, ScratchFree, Rc,
    Unaccepted, Refused, Accepted
  <1>8. CASE FlushLease \/ SnapshotLock
    BY <1>8 DEF FlushLease, SnapshotLock, CommitPc, LockFree, ScratchFree, Rc,
    Unaccepted, Refused, Accepted
  <1>9. CASE SnapshotCopy \/ SnapshotDone
    BY <1>9 DEF SnapshotCopy, SnapshotDone, CommitPc, LockFree, ScratchFree,
    Rc, Unaccepted, Refused, Accepted
  <1>10. CASE Ack
    BY <1>10 DEF Ack, Return, MutatedSinceSnapshot, CommitPc, LockFree,
    ScratchFree, Rc, Unaccepted, Refused, Accepted
  <1>11. CASE Mkdir \/ Open
    BY <1>11 DEF Mkdir, Open, CommitPc, LockFree, ScratchFree, Rc, Unaccepted, Refused,
    Accepted
  <1>12. CASE OpenFails \/ WriteHeader
    BY <1>12 DEF OpenFails, Return, WriteHeader, CommitPc, LockFree,
    ScratchFree, Rc, Unaccepted, Refused, Accepted
  <1>13. CASE (\E n \in 1..Size : WriteBody(n))
    BY <1>13 DEF WriteBody, AfterWrite, CommitPc, LockFree, ScratchFree, Rc,
    Unaccepted, Refused, Accepted
  <1>14. CASE Sync
    BY <1>14 DEF Sync, CommitPc, LockFree, ScratchFree, Rc, Unaccepted, Refused, Accepted
  <1>15. CASE Close \/ FileOpFails
    BY <1>15 DEF Close, FileOpFails, CommitPc, LockFree, ScratchFree, Rc,
    Unaccepted, Refused, Accepted
  <1>16. CASE Rename
    BY <1>16 DEF Rename, CommitPc, LockFree, ScratchFree, Rc, Unaccepted, Refused,
    Accepted
  <1>17. CASE Unlink
    BY <1>17 DEF Unlink, Return, CommitResult, CommitPc, LockFree,
    ScratchFree, Rc, Unaccepted, Refused, Accepted
  <1>18. CASE MigrateDone
    BY <1>18 DEF MigrateDone, Return, CommitPc, LockFree, ScratchFree, Rc,
    Unaccepted, Refused, Accepted
  <1>19. CASE LoadBusy \/ LoadBegin
    BY <1>19 DEF LoadBusy, WritableWhileLoading, LoadBegin, CommitPc,
    LockFree, ScratchFree, Rc, Unaccepted, Refused, Accepted
  <1>20. CASE LoadFails
    BY <1>20 DEF LoadFails, LoadReturns, Loading, Outdated, CommitPc,
    LockFree, ScratchFree, Rc, Unaccepted, Refused, Accepted
  <1>21. CASE LoadFresh
    BY <1>21 DEF LoadFresh, LoadReturns, Loading, Outdated, CommitPc,
    LockFree, ScratchFree, Rc, Unaccepted, Refused, Accepted
  <1>22. CASE LoadInvalid
    BY <1>22 DEF LoadInvalid, LoadReturns, Loading, Outdated, CommitPc,
    LockFree, ScratchFree, Rc, Unaccepted, Refused, Accepted
  <1>23. CASE LoadCurrent
    BY <1>23 DEF LoadCurrent, LoadReturns, Loading, Outdated, CommitPc,
    LockFree, ScratchFree, Rc, Unaccepted, Refused, Accepted
  <1>24. CASE LoadRefused \/ LoadMigrateFails
    BY <1>24 DEF LoadRefused, LoadReturns, Loading, Outdated,
    LoadMigrateFails, CommitPc, LockFree, ScratchFree, Rc, Unaccepted, Refused, Accepted
  <1>25. CASE LoadMigrate
    BY <1>25 DEF LoadMigrate, LoadReturns, Loading, Outdated, CommitPc,
    LockFree, ScratchFree, Rc, Unaccepted, Refused, Accepted
  <1>26. CASE UNCHANGED vars
    BY <1>26 DEF vars, CommitPc, LockFree, ScratchFree, Rc, Unaccepted, Refused, Accepted
  <1> QED BY <1>1, <1>2, <1>3, <1>4, <1>5, <1>6, <1>7, <1>8, <1>9, <1>10,
  <1>11, <1>12, <1>13, <1>14, <1>15, <1>16, <1>17, <1>18, <1>19, <1>20, <1>21,
  <1>22, <1>23, <1>24, <1>25, <1>26 DEF Next, Game, Flush, Commit, Load

LEMMA ImageEquality ==
  ASSUME NEW f \in Image, NEW g \in Image, \A i \in 1..Size : f[i] = g[i]
  PROVE  f = g
  <1>1. f = [i \in 1..Size |-> f[i]] /\ g = [i \in 1..Size |-> g[i]]
    BY DEF Image
  <1> QED BY <1>1

\* A mutation moves generation_ one step further from the snapshot.
LEMMA MutatedKeepsDistance ==
  ASSUME TypeOK, Snapshot, Mutated, UNCHANGED <<pc, job, snap>>
  PROVE  /\ ~InFlight' => edits' = 0
         /\ InFlight' => /\ edits' # 0
                         /\ \/ generation' = snap' + edits'
                            \/ generation' + GenMod = snap' + edits'
  BY SaveAssumption DEF TypeOK, Snapshot, Mutated, NextGeneration, InFlight

\* From the snapshot on the owner is in the commit and holds the lease.
LEMMA InFlightIsCommit ==
  ASSUME TypeOK, Control
  PROVE  InFlight => pc \in CommitPc
  BY DEF TypeOK, Pc, Control, InFlight, CommitPc

\* The snapshot is exact, and generation_ remembers what came after it.
LEMMA SnapshotStep ==
  ASSUME IInv, [Next]_vars
  PROVE  Snapshot'
  <1> USE ConstantTypes DEF IInv, TypeOK, Control, LockHeld, LeaseHeld, Snapshot
  <1>1. CASE InitFile \/ PowerLoss
    BY <1>1 DEF InitFile, PowerLoss, InFlight
  <1>2. CASE StartStopGame \/ (\E img \in Image : UpdateBlock(img)) \/ (\E i
  \in 1..Size : UpdateBlockCopy(i))
    BY <1>2 DEF StartStopGame, UpdateBlock, UpdateBlockCopy, InFlight
  <1>3. CASE OtherLease \/ OtherRelease
    BY <1>3 DEF OtherLease, OtherRelease, InFlight
  <1>4. CASE FlushReturns \/ FlushDirty \/ FlushLease
    BY <1>4 DEF FlushReturns, FlushDirty, FlushLease, InFlight
  <1>5. CASE SnapshotLock
    BY <1>5 DEF SnapshotLock, InFlight
  <1>6. CASE Ack
    BY <1>6 DEF Ack, Return, MutatedSinceSnapshot, InFlight
  <1>7. CASE Mkdir
    BY <1>7 DEF Mkdir, InFlight
  <1>8. CASE Open
    BY <1>8 DEF Open, InFlight
  <1>9. CASE OpenFails
    BY <1>9 DEF OpenFails, Return, InFlight
  <1>10. CASE WriteHeader
    BY <1>10 DEF WriteHeader, InFlight
  <1>11. CASE (\E n \in 1..Size : WriteBody(n))
    BY <1>11 DEF WriteBody, AfterWrite, InFlight
  <1>12. CASE Sync
    BY <1>12 DEF Sync, InFlight
  <1>13. CASE Close \/ FileOpFails \/ Rename
    BY <1>13 DEF Close, FileOpFails, Rename, InFlight
  <1>14. CASE Unlink \/ MigrateDone
    BY <1>14 DEF Unlink, Return, CommitResult, MigrateDone, InFlight
  <1>15. CASE LoadBusy \/ LoadBegin \/ LoadFails
    BY <1>15 DEF LoadBusy, WritableWhileLoading, LoadBegin, LoadFails,
    LoadReturns, Loading, Outdated, InFlight
  <1>16. CASE LoadFresh \/ LoadInvalid \/ LoadCurrent
    BY <1>16 DEF LoadFresh, LoadReturns, Loading, Outdated, LoadInvalid,
    LoadCurrent, InFlight
  <1>17. CASE LoadRefused \/ LoadMigrateFails \/ LoadMigrate
    BY <1>17 DEF LoadRefused, LoadReturns, Loading, Outdated,
    LoadMigrateFails, LoadMigrate, InFlight
  <1>18. CASE \E i \in 1..Size, b \in Byte : Write(i, b)
    <2>1. Mutated /\ UNCHANGED <<pc, job, snap, scratch, cursor, game>>
      BY <1>18 DEF Write
    <2>2. pc # "copy"
      BY <1>18 DEF Write, LockFree, LockHeld
    <2> QED BY <2>1, <2>2, MutatedKeepsDistance
  <1>19. CASE UpdateBlockDone
    <2>1. Mutated /\ UNCHANGED <<pc, job, snap, scratch, data, cursor>>
      BY <1>19 DEF UpdateBlockDone
    <2> QED BY <2>1, MutatedKeepsDistance
  <1>20. CASE OtherUses
    <2>1. pc # "copy" /\ ~InFlight
      BY <1>20, InFlightIsCommit DEF OtherUses, LeaseHeld
    <2> QED BY <1>20, <2>1 DEF OtherUses, InFlight
  <1>21. CASE SnapshotCopy
    <2>1. \A i \in 1..cursor' : scratch'[i] = data'[i]
      BY <1>21, Numbers DEF SnapshotCopy, Image
    <2> QED BY <1>21, <2>1 DEF SnapshotCopy, InFlight
  <1>22. CASE SnapshotDone
    <2>1. scratch = data
      BY <1>22 DEF SnapshotDone, Image
    <2> QED BY <1>22, <2>1, Numbers DEF SnapshotDone, InFlight
  <1>23. CASE UNCHANGED vars
    BY <1>23 DEF vars, InFlight
  <1> QED BY <1>1, <1>2, <1>3, <1>4, <1>5, <1>6, <1>7, <1>8, <1>9, <1>10,
  <1>11, <1>12, <1>13, <1>14, <1>15, <1>16, <1>17, <1>18, <1>19, <1>20, <1>21,
  <1>22, <1>23 DEF Next, Game, Flush, Commit, Load

\* The temporary file grows into the image that is to be stored.
LEMMA TemporaryStep ==
  ASSUME IInv, [Next]_vars
  PROVE  Temporary'
  <1> USE ConstantTypes DEF IInv, TypeOK, Control, LeaseHeld, Permission, Temporary
  <1>1. CASE InitFile \/ PowerLoss
    BY <1>1 DEF InitFile, PowerLoss, CommitPc, Source, HeaderWritten
  <1>2. CASE StartStopGame \/ (\E i \in 1..Size, b \in Byte : Write(i, b)) \/
  (\E img \in Image : UpdateBlock(img))
    BY <1>2 DEF StartStopGame, Write, Mutated, UpdateBlock, CommitPc, Source,
    HeaderWritten
  <1>3. CASE (\E i \in 1..Size : UpdateBlockCopy(i)) \/ UpdateBlockDone
    BY <1>3 DEF UpdateBlockCopy, UpdateBlockDone, Mutated, CommitPc, Source,
    HeaderWritten
  <1>4. CASE OtherLease \/ OtherUses \/ OtherRelease
    BY <1>4 DEF OtherLease, OtherUses, OtherRelease, CommitPc, Source,
    HeaderWritten
  <1>5. CASE FlushReturns \/ FlushDirty \/ FlushLease
    BY <1>5 DEF FlushReturns, FlushDirty, FlushLease, CommitPc, Source,
    HeaderWritten
  <1>6. CASE SnapshotLock \/ SnapshotCopy \/ SnapshotDone
    BY <1>6 DEF SnapshotLock, SnapshotCopy, SnapshotDone, CommitPc, Source,
    HeaderWritten
  <1>7. CASE Ack
    BY <1>7 DEF Ack, Return, MutatedSinceSnapshot, CommitPc, Source,
    HeaderWritten
  <1>8. CASE Mkdir
    BY <1>8 DEF Mkdir, CommitPc, Source, HeaderWritten
  <1>9. CASE OpenFails
    BY <1>9 DEF OpenFails, Return, CommitPc, Source, HeaderWritten
  <1>10. CASE WriteHeader
    BY <1>10 DEF WriteHeader, CommitPc, Source, HeaderWritten
  <1>11. CASE Close \/ FileOpFails \/ Rename
    BY <1>11 DEF Close, FileOpFails, Rename, CommitPc, Source, HeaderWritten
  <1>12. CASE Unlink \/ MigrateDone
    BY <1>12 DEF Unlink, Return, CommitResult, MigrateDone, CommitPc, Source,
    HeaderWritten
  <1>13. CASE LoadBusy \/ LoadBegin \/ LoadFails
    BY <1>13 DEF LoadBusy, WritableWhileLoading, LoadBegin, LoadFails,
    LoadReturns, Loading, Outdated, CommitPc, Source, HeaderWritten
  <1>14. CASE LoadFresh \/ LoadInvalid \/ LoadCurrent
    BY <1>14 DEF LoadFresh, LoadReturns, Loading, Outdated, LoadInvalid,
    LoadCurrent, CommitPc, Source, HeaderWritten
  <1>15. CASE LoadRefused \/ LoadMigrateFails \/ LoadMigrate
    BY <1>15 DEF LoadRefused, LoadReturns, Loading, Outdated,
    LoadMigrateFails, LoadMigrate, CommitPc, Source, HeaderWritten
  <1>16. CASE Open
    <2>1. files'["tmp"] = Created
      BY <1>16 DEF Open, Name
    <2> QED BY <1>16, <2>1, Numbers DEF Open, Created, Empty, CommitPc, Source, HeaderWritten
  <1>17. ASSUME NEW n \in 1..Size, WriteBody(n) PROVE Temporary'
    <2> DEFINE tmp == files["tmp"]
               body == [i \in 1..Size |-> IF i \in (tmp.len + 1)..(tmp.len + n)
                                          THEN Source[i] ELSE tmp.body[i]]
    <2>1. tmp \in File
      BY DEF Name
    <2>2. files'["tmp"] = WithPayload(tmp, tmp.len + n, body, FALSE)
      BY <1>17 DEF WriteBody, Name
    <2>3. tmp.len + n <= Size /\ tmp.len \in Nat
      BY <1>17, <2>1 DEF WriteBody, File
    <2>4. \A i \in 1..(tmp.len + n) : body[i] = Source[i]
      BY <1>17, <2>3, Numbers DEF WriteBody, CommitPc
    <2>5. /\ files'["tmp"].len = tmp.len + n
          /\ files'["tmp"].body = body
          /\ files'["tmp"].hdr = tmp.hdr /\ files'["tmp"].present = tmp.present
          /\ files'["tmp"].schema = tmp.schema /\ files'["tmp"].size = tmp.size
          /\ files'["tmp"].sum = tmp.sum
      BY <2>2 DEF WithPayload
    <2>6. Source' = Source /\ pc' \in {"write", "sync"}
          /\ (pc' = "sync" => tmp.len + n = Size) /\ rc' = rc /\ crc' = crc
      BY <1>17 DEF WriteBody, Source, AfterWrite
    <2>7. HeaderWritten /\ pc = "write"
      BY <1>17 DEF WriteBody
    <2> HIDE DEF body
    <2> QED BY <2>3, <2>4, <2>5, <2>6, <2>7 DEF HeaderWritten
  <1>18. CASE Sync
    <2> DEFINE tmp == files["tmp"]
    <2>1. files'["tmp"] = WithPayload(tmp, tmp.len, tmp.body, TRUE)
      BY <1>18 DEF Sync, Name
    <2> QED BY <1>18, <2>1 DEF Sync, WithPayload, Source, HeaderWritten
  <1>19. CASE UNCHANGED vars
    BY <1>19 DEF vars, CommitPc, Source, HeaderWritten
  <1> QED BY <1>1, <1>2, <1>3, <1>4, <1>5, <1>6, <1>7, <1>8, <1>9, <1>10,
  <1>11, <1>12, <1>13, <1>14, <1>15, <1>16, <1>17, <1>18, <1>19 DEF Next,
  Game, Flush, Commit, Load

\* The committed files are durable, and the rename publishes the image.
LEMMA CommittedStep ==
  ASSUME IInv, [Next]_vars
  PROVE  Committed'
  <1> USE ConstantTypes DEF IInv, TypeOK, Control, LeaseHeld, Permission, Committed
  <1>1. CASE InitFile
    BY <1>1 DEF InitFile, CommitPc, Source, Whole, Decode
  <1>2. CASE StartStopGame \/ (\E i \in 1..Size, b \in Byte : Write(i, b)) \/
  (\E img \in Image : UpdateBlock(img))
    BY <1>2 DEF StartStopGame, Write, Mutated, UpdateBlock, CommitPc, Source,
    Whole, Decode
  <1>3. CASE (\E i \in 1..Size : UpdateBlockCopy(i)) \/ UpdateBlockDone
    BY <1>3 DEF UpdateBlockCopy, UpdateBlockDone, Mutated, CommitPc, Source,
    Whole, Decode
  <1>4. CASE OtherLease \/ OtherUses \/ OtherRelease
    BY <1>4 DEF OtherLease, OtherUses, OtherRelease, CommitPc, Source, Whole,
    Decode
  <1>5. CASE FlushReturns \/ FlushDirty \/ FlushLease
    BY <1>5 DEF FlushReturns, FlushDirty, FlushLease, CommitPc, Source, Whole,
    Decode
  <1>6. CASE SnapshotLock \/ SnapshotCopy \/ SnapshotDone
    BY <1>6 DEF SnapshotLock, SnapshotCopy, SnapshotDone, CommitPc, Source,
    Whole, Decode
  <1>7. CASE Ack
    BY <1>7 DEF Ack, Return, MutatedSinceSnapshot, CommitPc, Source, Whole,
    Decode
  <1>8. CASE Mkdir
    BY <1>8 DEF Mkdir, CommitPc, Source, Whole, Decode
  <1>9. CASE Open
    BY <1>9 DEF Open, CommitPc, Source, Whole, Decode
  <1>10. CASE OpenFails
    BY <1>10 DEF OpenFails, Return, CommitPc, Source, Whole, Decode
  <1>11. CASE WriteHeader
    BY <1>11 DEF WriteHeader, CommitPc, Source, Whole, Decode
  <1>12. CASE (\E n \in 1..Size : WriteBody(n))
    BY <1>12 DEF WriteBody, AfterWrite, CommitPc, Source, Whole, Decode
  <1>13. CASE Sync
    BY <1>13 DEF Sync, CommitPc, Source, Whole, Decode
  <1>14. CASE Close \/ FileOpFails \/ MigrateDone
    BY <1>14 DEF Close, FileOpFails, MigrateDone, Return, CommitPc, Source,
    Whole, Decode
  <1>15. CASE LoadBusy \/ LoadBegin \/ LoadFails
    BY <1>15 DEF LoadBusy, WritableWhileLoading, LoadBegin, LoadFails,
    LoadReturns, Loading, Outdated, CommitPc, Source, Whole, Decode
  <1>16. CASE LoadFresh \/ LoadInvalid \/ LoadCurrent
    BY <1>16 DEF LoadFresh, LoadReturns, Loading, Outdated, LoadInvalid,
    LoadCurrent, CommitPc, Source, Whole, Decode
  <1>17. CASE LoadRefused \/ LoadMigrateFails \/ LoadMigrate
    BY <1>17 DEF LoadRefused, LoadReturns, Loading, Outdated,
    LoadMigrateFails, LoadMigrate, CommitPc, Source, Whole, Decode
  <1>18. CASE PowerLoss
    <2>1. files'["dat"] = files["dat"] /\ files'["sav"] = files["sav"]
      BY <1>18 DEF PowerLoss, Survivors, Name
    <2> QED BY <1>18, <2>1 DEF PowerLoss
  <1>19. CASE Rename
    <2> DEFINE tmp == files["tmp"]
    <2>1. /\ files'[Path] = tmp
          /\ \A n \in {"dat", "sav"} : files'[n] \in {files[n], tmp}
      BY <1>19 DEF Rename, Path, Name
    <2>2. tmp.synced /\ tmp.present /\ tmp.len = Size /\ HeaderWritten
          /\ (\A i \in 1..Size : tmp.body[i] = Source[i])
          /\ (Schema # 0 => tmp.hdr = "ok" /\ tmp.schema = Schema
                            /\ tmp.size = Size /\ tmp.sum = Source)
      BY <1>19 DEF Rename, Temporary, Control, HeaderWritten
    <2>3. tmp.body \in Image /\ Source \in Image
      BY DEF File, Name, Source
    <2>4. tmp.body = Source
      BY <2>2, <2>3, ImageEquality
    <2>5. Whole(tmp)
      BY <2>2, <2>4, SaveAssumption DEF Whole, Decode
    <2> QED BY <1>19, <2>1, <2>2, <2>4, <2>5 DEF Rename, Source, Whole
  <1>20. CASE Unlink
    <2>1. files'["dat"] = files["dat"] /\ files'["sav"] = files["sav"]
          /\ pc' = "idle"
      BY <1>20 DEF Unlink, Return, Name
    <2> QED BY <2>1
  <1>21. CASE UNCHANGED vars
    BY <1>21 DEF vars, CommitPc, Source, Whole, Decode
  <1> QED BY <1>1, <1>2, <1>3, <1>4, <1>5, <1>6, <1>7, <1>8, <1>9, <1>10,
  <1>11, <1>12, <1>13, <1>14, <1>15, <1>16, <1>17, <1>18, <1>19, <1>20, <1>21
  DEF Next, Game, Flush, Commit, Load

\* dirty_ is cleared only when the save equals the mirror.
LEMMA CleanStep ==
  ASSUME IInv, [Next]_vars
  PROVE  CleanIsDurable'
  <1> USE ConstantTypes DEF IInv, TypeOK, Control, Permission, CleanIsDurable
  <1>1. CASE InitFile \/ PowerLoss
    BY <1>1 DEF InitFile, PowerLoss, Clean, SavedImage, Whole, Decode,
    Accepted, Path
  <1>2. CASE StartStopGame \/ (\E i \in 1..Size, b \in Byte : Write(i, b)) \/
  (\E img \in Image : UpdateBlock(img))
    BY <1>2 DEF StartStopGame, Write, Mutated, UpdateBlock, Clean, SavedImage,
    Whole, Decode, Accepted, Path
  <1>3. CASE (\E i \in 1..Size : UpdateBlockCopy(i)) \/ UpdateBlockDone
    BY <1>3 DEF UpdateBlockCopy, UpdateBlockDone, Mutated, Clean, SavedImage,
    Whole, Decode, Accepted, Path
  <1>4. CASE OtherLease \/ OtherUses \/ OtherRelease
    BY <1>4 DEF OtherLease, OtherUses, OtherRelease, Clean, SavedImage, Whole,
    Decode, Accepted, Path
  <1>5. CASE FlushReturns \/ FlushDirty \/ FlushLease
    BY <1>5 DEF FlushReturns, FlushDirty, FlushLease, Clean, SavedImage,
    Whole, Decode, Accepted, Path
  <1>6. CASE SnapshotLock \/ SnapshotCopy \/ SnapshotDone
    BY <1>6 DEF SnapshotLock, SnapshotCopy, SnapshotDone, Clean, SavedImage,
    Whole, Decode, Accepted, Path
  <1>7. CASE Mkdir
    BY <1>7 DEF Mkdir, Clean, SavedImage, Whole, Decode, Accepted, Path
  <1>8. CASE Open
    BY <1>8 DEF Open, Clean, SavedImage, Whole, Decode, Accepted, Path
  <1>9. CASE OpenFails
    BY <1>9 DEF OpenFails, Return, Clean, SavedImage, Whole, Decode, Accepted,
    Path
  <1>10. CASE WriteHeader
    BY <1>10 DEF WriteHeader, Clean, SavedImage, Whole, Decode, Accepted, Path
  <1>11. CASE (\E n \in 1..Size : WriteBody(n))
    BY <1>11 DEF WriteBody, AfterWrite, Clean, SavedImage, Whole, Decode,
    Accepted, Path
  <1>12. CASE Sync
    BY <1>12 DEF Sync, Clean, SavedImage, Whole, Decode, Accepted, Path
  <1>13. CASE Close \/ FileOpFails
    BY <1>13 DEF Close, FileOpFails, Clean, SavedImage, Whole, Decode,
    Accepted, Path
  <1>14. CASE LoadBusy \/ LoadBegin \/ LoadFails
    BY <1>14 DEF LoadBusy, WritableWhileLoading, LoadBegin, LoadFails,
    LoadReturns, Loading, Outdated, Clean, SavedImage, Whole, Decode,
    Accepted, Path
  <1>15. CASE LoadInvalid \/ LoadRefused \/ LoadMigrateFails
    BY <1>15 DEF LoadInvalid, LoadReturns, Loading, Outdated, LoadRefused,
    LoadMigrateFails, Clean, SavedImage, Whole, Decode, Accepted, Path
  <1>16. CASE LoadMigrate
    BY <1>16 DEF LoadMigrate, LoadReturns, Loading, Outdated, Clean,
    SavedImage, Whole, Decode, Accepted, Path
  <1>17. CASE Ack
    <2>1. CASE generation # snap
      BY <1>17, <2>1 DEF Ack, MutatedSinceSnapshot, Clean
    <2>2. CASE generation = snap
      <3>1. InFlight /\ game # "storing"
        BY <1>17 DEF Ack, InFlight, LockFree, LockHeld
      <3>2. edits = 0
        BY <2>2, <3>1, SaveAssumption DEF Snapshot
      <3>3. files[Path].body = data /\ Whole(files[Path])
        BY <1>17, <3>1, <3>2 DEF Ack, Snapshot, Committed, Source
      <3>4. UNCHANGED <<files, data>>
        BY <1>17 DEF Ack
      <3> QED BY <3>3, <3>4 DEF SavedImage, Committed, Whole, Path
    <2> QED BY <2>1, <2>2
  <1>18. CASE MigrateDone
    <2>1. files[Path].body = data /\ Whole(files[Path])
      BY <1>18 DEF MigrateDone, Committed, Source
    <2>2. UNCHANGED <<files, data>>
      BY <1>18 DEF MigrateDone
    <2> QED BY <2>1, <2>2 DEF SavedImage, Committed, Whole, Path
  <1>19. CASE Unlink
    <2>1. ~Clean'
      BY <1>19 DEF Unlink, Return, CommitResult, CommitPc, Clean
    <2> QED BY <2>1
  <1>20. CASE LoadFresh
    <2>1. ~files[Path].present /\ data = Blank
      BY <1>20 DEF LoadFresh, LoadReturns, Loading, Found, Legacy
    <2> QED BY <1>20, <2>1 DEF LoadFresh, LoadReturns, SavedImage
  <1>21. CASE LoadCurrent
    <2>1. files[Path].present /\ Found = files[Path] /\ Found.len = Size
          /\ (Schema # 0 => Found.schema = Schema /\ ~Legacy)
      BY <1>21, SaveAssumption DEF LoadCurrent, Current, FoundSchema, Found, Legacy
    <2>2. Schema # 0 => Decode(files[Path]) = "ok"
      BY <1>21, <2>1, SaveAssumption DEF LoadCurrent, FoundVerdict
    <2>3. Whole(files[Path]) /\ files[Path].synced
      BY <2>1, <2>2 DEF Whole, Committed, Path
    <2> QED BY <1>21, <2>1, <2>3 DEF LoadCurrent, LoadReturns, SavedImage
  <1>22. CASE Rename
    <2>1. ~Clean'
      BY <1>22 DEF Rename, Clean, CommitPc
    <2> QED BY <2>1
  <1>23. CASE UNCHANGED vars
    BY <1>23 DEF vars, Clean, SavedImage, Whole, Decode, Accepted, Path
  <1> QED BY <1>1, <1>2, <1>3, <1>4, <1>5, <1>6, <1>7, <1>8, <1>9, <1>10,
  <1>11, <1>12, <1>13, <1>14, <1>15, <1>16, <1>17, <1>18, <1>19, <1>20, <1>21,
  <1>22, <1>23 DEF Next, Game, Flush, Commit, Load

-----------------------------------------------------------------------------
LEMMA InitInvariant == Init => IInv
  <1> SUFFICES ASSUME Init PROVE IInv OBVIOUS
  <1>1. files \in [Name -> File]
    BY SaveAssumption DEF Init
  <1>2. TypeOK
    BY <1>1, ConstantTypes, Names DEF Init, TypeOK
  <1>3. Control /\ Permission /\ LockHeld /\ LeaseHeld /\ Snapshot
    BY DEF Init, Control, Permission, LockHeld, LeaseHeld, Snapshot, CommitPc,
           InFlight
  <1>4. Temporary
    BY DEF Init, Temporary
  <1>5. Committed
    BY SaveAssumption DEF Init, Committed, Name
  <1>6. CleanIsDurable
    BY DEF Init, CleanIsDurable, Clean
  <1> QED BY <1>2, <1>3, <1>4, <1>5, <1>6 DEF IInv

\* The invariant the other theorems rest on.
THEOREM Invariance == Spec => []IInv
  <1>1. IInv /\ [Next]_vars => IInv'
    <2> SUFFICES ASSUME IInv, [Next]_vars PROVE IInv' OBVIOUS
    <2>1. TypeOK'
      BY TypeStep DEF IInv
    <2> QED
      BY <2>1, StructureStep, SnapshotStep, TemporaryStep, CommittedStep,
         CleanStep DEF IInv
  <1> QED BY <1>1, InitInvariant, PTL DEF Spec

\* dirty_ never lies: a loaded mirror that is not dirty is exactly what the
\* committed, whole and durable save holds, however the game's stores, the
\* flush, failing file operations and power losses interleave.
THEOREM CleanMeansDurable == Spec => []CleanIsDurable
  <1>1. IInv => CleanIsDurable
    BY DEF IInv
  <1> QED BY <1>1, Invariance, PTL

\* What a step may do to the committed files.
LEMMA FileStep ==
  ASSUME IInv, [Next]_vars, NEW n \in {"dat", "sav"}, files'[n] # files[n]
  PROVE  Rename /\ n = Path
  <1> USE DEF IInv, TypeOK
  <1>1. CASE files' = files BY <1>1
  <1>2. CASE PowerLoss
    <2>1. files'["dat"] = files["dat"] /\ files'["sav"] = files["sav"]
      BY <1>2 DEF PowerLoss, Survivors, Name, Committed
    <2> QED BY <2>1
  <1>3. ASSUME NEW f, files' = [files EXCEPT !["tmp"] = f] PROVE FALSE
    BY <1>3
  <1>4. CASE Open BY <1>3, <1>4 DEF Open
  <1>5. CASE WriteHeader BY <1>3, <1>5 DEF WriteHeader
  <1>6. ASSUME NEW k \in 1..Size, WriteBody(k) PROVE FALSE
    BY <1>3, <1>6 DEF WriteBody
  <1>7. CASE Sync BY <1>3, <1>7 DEF Sync
  <1>8. CASE Unlink BY <1>1, <1>3, <1>8 DEF Unlink
  <1>9. CASE Rename
    BY <1>9, ConstantTypes DEF Rename, Name
  <1>10. CASE InitFile BY <1>1, <1>10 DEF InitFile
  <1>11. CASE Game
    <2>1. files' = files
      BY <1>11 DEF Game, StartStopGame, Write, UpdateBlock, UpdateBlockCopy,
                   UpdateBlockDone
    <2> QED BY <1>1, <2>1
  <1>12. CASE OtherLease \/ OtherUses \/ OtherRelease
    BY <1>1, <1>12 DEF OtherLease, OtherUses, OtherRelease
  <1>13. CASE Flush
    <2>1. files' = files
      BY <1>13 DEF Flush, FlushReturns, FlushDirty, FlushLease, SnapshotLock,
                   SnapshotCopy, SnapshotDone, Ack
    <2> QED BY <1>1, <2>1
  <1>14. CASE Mkdir \/ OpenFails \/ Close \/ FileOpFails \/ MigrateDone
    BY <1>1, <1>14 DEF Mkdir, OpenFails, Close, FileOpFails, MigrateDone
  <1>15. CASE Load
    <2>1. files' = files
      BY <1>15 DEF Load, LoadBusy, LoadBegin, LoadFails, LoadFresh, LoadInvalid,
                   LoadCurrent, LoadRefused, LoadMigrateFails, LoadMigrate,
                   LoadReturns
    <2> QED BY <1>1, <2>1
  <1>16. CASE UNCHANGED vars BY <1>1, <1>16 DEF vars
  <1> QED BY <1>2, <1>4, <1>5, <1>6, <1>7, <1>8, <1>9, <1>10, <1>11, <1>12,
             <1>13, <1>14, <1>15, <1>16 DEF Next, Commit

\* The committed save is only ever replaced by a whole and durable one, and
\* the raw file of a versioned save is never touched: no failed write, sync,
\* close, rename or unlink and no loss of power truncates or removes it.
THEOREM SaveIsNeverTorn == Spec => SaveNeverTorn
  <1>1. IInv /\ IInv' /\ [Next]_vars =>
          [\A n \in {"dat", "sav"} : files'[n] # files[n] =>
             n = Path /\ Whole(files'[n]) /\ files'[n].synced]_vars
    <2> SUFFICES ASSUME IInv, IInv', [Next]_vars,
                        NEW n \in {"dat", "sav"}, files'[n] # files[n]
                 PROVE  n = Path /\ Whole(files'[n]) /\ files'[n].synced
      OBVIOUS
    <2>1. Rename /\ n = Path
      BY FileStep
    <2>2. pc' = "ack"
      BY <2>1 DEF Rename
    <2> QED BY <2>1, <2>2 DEF IInv, Committed, Whole
  <1> QED BY <1>1, Invariance, PTL DEF Spec, SaveNeverTorn

\* A save that a load refused is not changed as long as the object says so, nor is
\* a versioned save that no load has looked at.
THEOREM RefusedSaveIsKept == Spec => RefusedSaveKept
  <1>1. IInv /\ [Next]_vars =>
          [job # "migrate" /\ Unaccepted =>
             \A n \in {"dat", "sav"} : files'[n] = files[n]]_vars
    <2> SUFFICES ASSUME IInv, [Next]_vars, job # "migrate", Unaccepted,
                        NEW n \in {"dat", "sav"}
                 PROVE  files'[n] = files[n]
      OBVIOUS
    <2>1. ~Rename
      BY DEF IInv, Rename, Control, Permission, CommitPc
    <2> QED BY <2>1, FileStep
  <1> QED BY <1>1, Invariance, PTL DEF Spec, RefusedSaveKept

\* How a flush can end, and what it finds.
LEMMA FlushEnds ==
  ASSUME IInv, [Next]_vars, job = "flush", pc' = "idle"
  PROVE  Ack \/ (rc' = "ERR" /\ UNCHANGED dirty)
  <1> USE DEF IInv, Control
  <1>0. pc \notin {"off", "idle", "read"}
    BY DEF CommitPc
  <1>1. CASE InitFile \/ PowerLoss
    BY <1>0, <1>1 DEF InitFile, PowerLoss
  <1>2. CASE Game \/ OtherLease \/ OtherUses \/ OtherRelease
    <2>1. UNCHANGED pc
      BY <1>2 DEF Game, StartStopGame, Write, UpdateBlock, UpdateBlockCopy, UpdateBlockDone,
                  OtherLease, OtherUses, OtherRelease
    <2> QED BY <1>0, <2>1
  <1>3. CASE FlushReturns \/ FlushDirty \/ FlushLease
    BY <1>0, <1>3 DEF FlushReturns, FlushDirty, FlushLease
  <1>4. CASE SnapshotLock \/ SnapshotCopy \/ SnapshotDone
    BY <1>0, <1>4 DEF SnapshotLock, SnapshotCopy, SnapshotDone
  <1>5. CASE Mkdir \/ Open \/ WriteHeader \/ (\E n \in 1..Size : WriteBody(n))
    BY <1>0, <1>5 DEF Mkdir, Open, WriteHeader, WriteBody, AfterWrite
  <1>6. CASE Sync \/ Close \/ FileOpFails \/ Rename \/ MigrateDone
    BY <1>0, <1>6 DEF Sync, Close, FileOpFails, Rename, MigrateDone
  <1>7. CASE OpenFails \/ Unlink
    BY <1>7 DEF OpenFails, Unlink, Return, CommitResult
  <1>8. CASE Load
    BY <1>0, <1>8 DEF Load, LoadBusy, LoadBegin, LoadFails, LoadFresh, LoadInvalid, LoadCurrent,
                      LoadRefused, LoadMigrateFails, LoadMigrate, LoadReturns, Loading
  <1>9. CASE UNCHANGED vars
    BY <1>0, <1>9 DEF vars
  <1> QED BY <1>1, <1>2, <1>3, <1>4, <1>5, <1>6, <1>7, <1>8, <1>9 DEF Next, Flush, Commit

\* The flag an acknowledged flush leaves is whether the mirror moved on.
LEMMA AckTellsEdits ==
  ASSUME IInv, Ack
  PROVE  files[Path].body = scratch /\ (dirty' <=> edits > 0)
  <1>1. files[Path].body = scratch
    BY DEF Ack, IInv, Committed, Source
  <1>2. generation = snap + edits \/ generation + GenMod = snap + edits
    BY DEF Ack, IInv, Snapshot, InFlight
  <1>3. /\ generation \in 0..(GenMod - 1) /\ snap \in 0..(GenMod - 1) /\ edits \in 0..EditBound
        /\ GenMod \in Nat /\ EditBound \in Nat /\ EditBound < GenMod
    BY SaveAssumption DEF IInv, TypeOK
  <1>4. generation # snap <=> edits > 0
    BY <1>2, <1>3
  <1> QED BY <1>1, <1>4 DEF Ack, MutatedSinceSnapshot

\* flush() tells the truth: 0 is returned only when the snapshot is the save and every
\* later mutation is still marked, an error leaves the mirror marked.
THEOREM FlushIsTruthful == Spec => FlushTellsTruth
  <1>1. ASSUME IInv, [Next]_vars, job = "flush", pc' = "idle"
        PROVE  IF rc' = "OK" THEN files[Path].body = scratch /\ (dirty' <=> edits > 0) ELSE dirty'
    <2>1. dirty
      BY <1>1 DEF IInv, Permission
    <2>2. CASE Ack
      BY <2>2, <1>1, AckTellsEdits DEF Ack, Return
    <2>3. CASE rc' = "ERR" /\ UNCHANGED dirty
      BY <2>1, <2>3
    <2> QED BY <1>1, <2>2, <2>3, FlushEnds
  <1>2. IInv /\ [Next]_vars =>
          [job = "flush" /\ pc' = "idle" =>
             IF rc' = "OK" THEN files[Path].body = scratch /\ (dirty' <=> edits > 0)
             ELSE dirty']_vars
    BY <1>1
  <1> QED BY <1>2, Invariance, PTL DEF Spec, FlushTellsTruth

-----------------------------------------------------------------------------
(* EepromSave implements DurableSave: a commit is its rename, a capture the *)
(* end of the copy under lock_, and every other step of the file            *)
(* transaction stutters.                                                    *)

LEMMA MirrorIsImage == IInv => Mirror \in Image /\ data \in Image /\ scratch \in Image
  BY DEF IInv, TypeOK, Mirror

\* Only the rename changes what the next boot would load.
LEMMA SaveStands ==
  ASSUME IInv, [Next]_vars, ~Rename
  PROVE  Saved' = Saved
  <1>1. files'[Path] = files[Path]
    BY FileStep, ConstantTypes
  <1> QED BY <1>1 DEF Saved, Whole

\* A commit runs in job flush, over a dirty mirror, or in a migration, which may not write.
LEMMA CommittingIsNotClean ==
  ASSUME IInv
  PROVE  job \in {"flush", "load", "migrate"} => Clean = FALSE
  BY DEF IInv, Permission, Clean

\* What the object vouches for is what the next boot would load.
LEMMA CleanIsLoadable ==
  IInv /\ Clean => Saved # Junk /\ data = Durable!Loadable
  <1> SUFFICES ASSUME IInv, Clean PROVE Saved # Junk /\ data = Durable!Loadable
    OBVIOUS
  <1>1. SavedImage = data /\ (files[Path].present => Whole(files[Path]))
    BY DEF IInv, CleanIsDurable
  <1>2. data \in Image
    BY MirrorIsImage
  <1>3. CASE files[Path].present
    <2>1. Saved = data
      BY <1>1, <1>3 DEF Saved, SavedImage
    <2> QED BY <1>2, <2>1, NoImage DEF Durable!Loadable
  <1>4. CASE ~files[Path].present
    BY <1>1, <1>4, NoImage DEF Saved, SavedImage, Durable!Loadable
  <1> QED BY <1>3, <1>4

LEMMA CleanStaysLoadable ==
  ASSUME IInv', Clean'
  PROVE  (Saved # Junk)' /\ (data = Durable!Loadable)'
  BY CleanIsLoadable, PTL

\* Steps that neither copy to the buffer during a commit nor touch mirror or flags.
LEMMA Stutters ==
  ASSUME Mirror' = Mirror, Saved' = Saved, Shot' = Shot, Clean' = Clean
  PROVE  UNCHANGED Durable!absvars
  BY DEF Durable!absvars

\* A return of flush() or of a migration settles the commit.
LEMMA Settles ==
  ASSUME IInv, IInv', Saved' = Saved, Committing, pc' = "idle", job' = "none",
         data' = data, game' = game, want' = want
  PROVE  Durable!Settle
  <1>1. Shot' = None /\ Mirror' = Mirror
    BY DEF Shot, Committing, Mirror
  <1>2. Clean = FALSE
    BY CommittingIsNotClean DEF Committing
  <1>3. Clean' \in {Clean, Mirror = Durable!Loadable}
    <2>1. CASE Clean'
      <3>1. (data = Durable!Loadable)'
        BY <2>1, CleanStaysLoadable
      <3>2. Mirror = data
        BY <2>1 DEF Clean, Mirror
      <3>3. Durable!Loadable' = Durable!Loadable
        BY DEF Durable!Loadable
      <3>4. Clean' = TRUE
        BY <2>1 DEF Clean
      <3> QED BY <3>1, <3>2, <3>3, <3>4
    <2>2. CASE ~Clean'
      <3>1. Clean' = FALSE
        BY <2>2 DEF Clean
      <3> QED BY <1>2, <3>1
    <2> QED BY <2>1, <2>2
  <1> QED BY <1>1, <1>3 DEF Durable!Settle

LEMMA GameRefines ==
  ASSUME IInv, IInv', [Next]_vars, Game
  PROVE  Durable!Next \/ UNCHANGED Durable!absvars
  <1>r. Saved' = Saved
    <2>1. ~Rename
      BY DEF Game, StartStopGame, Write, UpdateBlock, UpdateBlockCopy, UpdateBlockDone, Rename
    <2> QED BY <2>1, SaveStands
  <1>s. game # "stopped" => Shot' = Shot
    <2>1. UNCHANGED <<pc, job, scratch>>
      BY DEF Game, StartStopGame, Write, UpdateBlock, UpdateBlockCopy, UpdateBlockDone
    <2>2. game # "stopped" => job # "migrate"
      BY DEF IInv, Permission
    <2> QED BY <2>1, <2>2 DEF Shot, Committing, Source
  <1>1. CASE StartStopGame
    <2>1. Mirror' = Mirror /\ Clean' = Clean /\ Shot' = Shot
      BY <1>1 DEF StartStopGame, Mirror, Clean, Shot, Committing, Source
    <2> QED BY <1>r, <2>1, Stutters
  <1>2. CASE \E i \in 1..Size, b \in Byte : Write(i, b)
    <2>1. Clean' = FALSE /\ Mirror' = data'
      BY <1>2 DEF Write, Mutated, Clean, Mirror
    <2>2. Shot' = Shot /\ data' \in Image
      BY <1>2, <1>s, MirrorIsImage DEF Write, IInv, TypeOK
    <2> QED BY <1>r, <2>1, <2>2 DEF Durable!Next, Durable!Edit
  <1>3. ASSUME NEW img \in Image, UpdateBlock(img) PROVE Durable!Next
    <2>1. Clean' = FALSE /\ Mirror' = img /\ game # "stopped"
      BY <1>3 DEF UpdateBlock, Clean, Mirror
    <2> QED BY <1>r, <1>s, <2>1 DEF Durable!Next, Durable!Edit
  <1>4. CASE \E i \in 1..Size : UpdateBlockCopy(i)
    <2>1. Mirror' = Mirror /\ Clean' = FALSE /\ Clean = FALSE /\ game # "stopped"
      BY <1>4 DEF UpdateBlockCopy, Mirror, Clean
    <2> QED BY <1>r, <1>s, <2>1, Stutters
  <1>5. CASE UpdateBlockDone
    <2>1. Mirror' = Mirror /\ Clean' = FALSE /\ Clean = FALSE /\ game # "stopped"
      BY <1>5 DEF UpdateBlockDone, Mutated, Mirror, Clean
    <2> QED BY <1>r, <1>s, <2>1, Stutters
  <1> QED BY <1>1, <1>2, <1>3, <1>4, <1>5 DEF Game

LEMMA FlushRefines ==
  ASSUME IInv, IInv', [Next]_vars, Flush \/ OtherLease \/ OtherUses \/ OtherRelease
  PROVE  Durable!Next \/ UNCHANGED Durable!absvars
  <1>r. Saved' = Saved
    <2>1. ~Rename
      BY DEF Flush, FlushReturns, FlushDirty, FlushLease, SnapshotLock, SnapshotCopy,
             SnapshotDone, Ack, OtherLease, OtherUses, OtherRelease, Rename
    <2> QED BY <2>1, SaveStands
  <1>1. CASE OtherLease \/ OtherUses \/ OtherRelease
    <2>1. Mirror' = Mirror /\ Clean' = Clean
      BY <1>1 DEF OtherLease, OtherUses, OtherRelease, Mirror, Clean
    <2>2. UNCHANGED <<pc, job, data>> /\ (Committing => scratch' = scratch)
      BY <1>1 DEF OtherLease, OtherUses, OtherRelease, Committing, IInv, LeaseHeld, CommitPc
    <2>3. Shot' = Shot
      BY <2>2 DEF Shot, Committing, Source
    <2> QED BY <1>r, <2>1, <2>3, Stutters
  <1>2. CASE FlushReturns \/ FlushDirty \/ FlushLease \/ SnapshotLock \/ SnapshotCopy
    <2>1. Mirror' = Mirror /\ Clean' = Clean
      BY <1>2 DEF FlushReturns, FlushDirty, FlushLease, SnapshotLock, SnapshotCopy, Mirror, Clean
    <2>2. ~Committing /\ ~Committing'
      BY <1>2 DEF FlushReturns, FlushDirty, FlushLease, SnapshotLock, SnapshotCopy, Committing
    <2> QED BY <1>r, <2>1, <2>2, Stutters DEF Shot
  <1>3. CASE SnapshotDone
    <2>1. job = "flush" /\ game # "storing" /\ scratch = data
      <3>1. \A i \in 1..Size : scratch[i] = data[i]
        BY <1>3 DEF SnapshotDone, IInv, Snapshot
      <3> QED BY <1>3, <3>1, ImageEquality, MirrorIsImage
              DEF SnapshotDone, IInv, Control, LockHeld
    <2>2. Mirror' = Mirror /\ Mirror = data /\ Clean' = Clean
      BY <1>3, <2>1 DEF SnapshotDone, Mirror, Clean
    <2>3. Shot' = scratch
      BY <1>3, <2>1 DEF SnapshotDone, Shot, Committing, Source
    <2> QED BY <1>r, <2>1, <2>2, <2>3 DEF Durable!Next, Durable!Capture
  <1>4. CASE Ack
    <2>1. Durable!Settle
      BY <1>4, <1>r, Settles DEF Ack, Return, Committing
    <2> QED BY <2>1 DEF Durable!Next
  <1> QED BY <1>1, <1>2, <1>3, <1>4 DEF Flush

LEMMA CommitRefines ==
  ASSUME IInv, IInv', [Next]_vars, Commit
  PROVE  Durable!Next \/ UNCHANGED Durable!absvars
  <1>c. pc \in CommitPc /\ Committing
    <2>1. pc \in CommitPc
      BY DEF Commit, Mkdir, Open, OpenFails, WriteHeader, WriteBody, Sync, Close, FileOpFails,
             Rename, Unlink, MigrateDone, CommitPc
    <2> QED BY <2>1 DEF IInv, Control, Committing, CommitPc
  <1>1. CASE Mkdir \/ Open \/ WriteHeader \/ (\E n \in 1..Size : WriteBody(n)) \/ Sync
             \/ Close \/ FileOpFails
    <2>1. pc' \in CommitPc /\ UNCHANGED <<job, data, scratch, game, want, dirty, storeVars>>
      BY <1>1 DEF Mkdir, Open, WriteHeader, WriteBody, AfterWrite, Sync, Close, FileOpFails, CommitPc
    <2>2. Mirror' = Mirror /\ Clean' = Clean
      BY <2>1 DEF Mirror, Clean
    <2>3. Shot' = Shot
      BY <1>c, <2>1 DEF Shot, Committing, Source, CommitPc
    <2>4. ~Rename
      BY <1>1 DEF Mkdir, Open, WriteHeader, WriteBody, Sync, Close, FileOpFails, Rename, AfterWrite
    <2> QED BY <2>2, <2>3, <2>4, SaveStands, Stutters
  <1>2. CASE OpenFails \/ Unlink \/ MigrateDone
    <2>1. ~Rename
      BY <1>2 DEF OpenFails, Unlink, MigrateDone, Return, Rename
    <2>2. pc' = "idle" /\ job' = "none" /\ data' = data /\ game' = game /\ want' = want
      BY <1>2 DEF OpenFails, Unlink, MigrateDone, Return
    <2>3. Durable!Settle
      BY <1>c, <2>1, <2>2, SaveStands, Settles
    <2> QED BY <2>3 DEF Durable!Next
  <1>3. CASE Rename
    <2>1. pc' = "ack" /\ UNCHANGED <<job, data, scratch, game, want, dirty, storeVars>>
      BY <1>3 DEF Rename
    <2>2. Mirror' = Mirror /\ Clean' = Clean /\ ~Clean
      BY <1>c, <2>1, CommittingIsNotClean DEF Mirror, Clean, Committing
    <2>3. Shot' = Shot /\ Shot = Source /\ Source' = Source
      BY <1>c, <2>1 DEF Shot, Committing, Source
    <2>4. Whole(files[Path])' /\ (files[Path].body)' = Source
      BY <2>1, <2>3 DEF IInv, Committed
    <2>5. Saved' = Source /\ Source \in Image
      BY <2>4, MirrorIsImage DEF Saved, Whole, Source
    <2> QED BY <2>2, <2>3, <2>5 DEF Durable!Next, Durable!Commit
  <1> QED BY <1>1, <1>2, <1>3 DEF Commit

LEMMA LoadRefines ==
  ASSUME IInv, IInv', [Next]_vars, Load \/ InitFile \/ PowerLoss
  PROVE  Durable!Next \/ UNCHANGED Durable!absvars
  <1>r. Saved' = Saved
    <2>1. ~Rename
      BY DEF Load, LoadBusy, LoadBegin, LoadFails, LoadFresh, LoadInvalid, LoadCurrent,
             LoadRefused, LoadMigrateFails, LoadMigrate, LoadReturns, Loading, InitFile,
             PowerLoss, Rename, IInv, Control, CommitPc
    <2> QED BY <2>1, SaveStands
  <1>1. CASE InitFile \/ PowerLoss \/ LoadBusy \/ LoadBegin
    <2>1. data' = Blank /\ game' = "stopped"
      BY <1>1 DEF InitFile, PowerLoss, LoadBusy, LoadBegin, IInv, Permission
    <2>2. ~Committing'
      BY <1>1 DEF InitFile, PowerLoss, LoadBusy, LoadBegin, Committing
    <2>3. Clean' = FALSE
      BY <1>1 DEF InitFile, PowerLoss, LoadBusy, LoadBegin, WritableWhileLoading, Clean, Accepted
    <2> QED BY <1>r, <2>1, <2>2, <2>3 DEF Durable!Next, Durable!Discard, Mirror, Shot
  <1>2. ASSUME Loading, pc' = "idle", game' = game, data' \in Image,
               Clean' => data' = Durable!Loadable /\ Saved # Junk
        PROVE  Durable!Next \/ UNCHANGED Durable!absvars
    <2>1. Mirror' = data' /\ Shot = None /\ Shot' = None
      BY <1>2 DEF Loading, Mirror, Shot, Committing, IInv, Permission
    <2>2. CASE Clean'
      <3>1. Clean' = TRUE
        BY <2>2 DEF Clean
      <3> QED BY <1>r, <1>2, <2>1, <2>2, <3>1 DEF Durable!Next, Durable!Load
    <2>3. CASE ~Clean'
      <3>1. Clean' = FALSE
        BY <2>3 DEF Clean
      <3> QED BY <1>r, <1>2, <2>1, <3>1 DEF Durable!Next, Durable!Edit
    <2> QED BY <2>2, <2>3
  <1>3. CASE LoadFails \/ LoadFresh \/ LoadInvalid \/ LoadCurrent \/ LoadRefused \/ LoadMigrateFails
    <2>1. Loading /\ pc' = "idle" /\ game' = game
      BY <1>3 DEF LoadFails, LoadFresh, LoadInvalid, LoadCurrent, LoadRefused, LoadMigrateFails,
                  LoadReturns
    <2>2. data' \in Image
      BY MirrorIsImage DEF IInv, TypeOK
    <2>3. ASSUME Clean' PROVE data' = Durable!Loadable /\ Saved # Junk
      <3>1. (data = Durable!Loadable)' /\ (Saved # Junk)'
        BY <2>3, CleanStaysLoadable
      <3>2. Durable!Loadable' = Durable!Loadable
        BY <1>r DEF Durable!Loadable
      <3> QED BY <1>r, <3>1, <3>2
    <2> QED BY <1>2, <2>1, <2>2, <2>3
  <1>4. CASE LoadMigrate
    <2>1. data' \in Image /\ game' = "stopped" /\ pc' = "mkdir" /\ job' = "migrate"
      BY <1>4 DEF LoadMigrate, Loading, IInv, TypeOK, Permission
    <2>2. Clean' = FALSE
      BY <1>4 DEF LoadMigrate, Loading, IInv, Permission, Clean
    <2>3. Mirror' = data' /\ Shot' = data'
      BY <2>1 DEF Mirror, Shot, Committing, Source
    <2> QED BY <1>r, <2>1, <2>2, <2>3 DEF Durable!Next, Durable!Migrate
  <1> QED BY <1>1, <1>3, <1>4 DEF Load

\* The save promises what DurableSave says: captured at one instant, replaced in one step.
THEOREM SaveIsDurable == Spec => ImplementsDurableSave
  <1>1. Init => Durable!Init
    <2> SUFFICES ASSUME Init PROVE Durable!Init OBVIOUS
    <2>1. Mirror = Blank /\ Shot = None /\ Clean = FALSE
      BY DEF Init, Mirror, Shot, Committing, Clean
    <2>2. files[Path].body \in Image
      BY InitInvariant, ConstantTypes DEF IInv, TypeOK, File
    <2>3. Saved \in Image \cup {None, Junk}
      BY <2>2 DEF Saved
    <2> QED BY <2>1, <2>3 DEF Durable!Init
  <1>2. IInv /\ IInv' /\ [Next]_vars => [Durable!Next]_(Durable!absvars)
    <2> SUFFICES ASSUME IInv, IInv', [Next]_vars PROVE Durable!Next \/ UNCHANGED Durable!absvars
      OBVIOUS
    <2>1. CASE UNCHANGED vars
      <3>1. ~Rename
        BY <2>1 DEF vars, Rename
      <3>2. Mirror' = Mirror /\ Clean' = Clean /\ Shot' = Shot
        BY <2>1 DEF vars, Mirror, Clean, Shot, Committing, Source
      <3> QED BY <3>1, <3>2, SaveStands, Stutters
    <2> QED BY <2>1, GameRefines, FlushRefines, CommitRefines, LoadRefines DEF Next
  <1> QED BY <1>1, <1>2, Invariance, PTL DEF Spec, ImplementsDurableSave, Durable!Spec

====
