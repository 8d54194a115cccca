--------------------------- MODULE EepromSaveInv ---------------------------
(* The inductive invariant of EepromSave, in named parts.                  *)
EXTENDS EepromSave

CommitPc == {"mkdir", "open", "write", "sync", "close", "rename", "unlink",
             "ack"}

\* The control point says which operation runs, and whether it still succeeds.
Control ==
  /\ pc \in {"off", "idle"} => job = "none"
  /\ pc \in {"lease", "lock", "copy"} => job = "flush"
  /\ pc = "read" => job = "load"
  /\ pc \in CommitPc => job \in {"flush", "migrate"}
  /\ pc \in {"mkdir", "open", "write", "sync", "rename", "ack"} => rc = "OK"
  /\ pc = "unlink" => rc = "ERR"

\* A load and a migration run without a game and without permission to write,
\* a flush with that permission and on a dirty mirror.
Permission ==
  /\ pc = "off" \/ job \in {"load", "migrate"} => game = "stopped"
  /\ job \in {"load", "migrate"} => ~writable
  /\ job = "flush" => writable /\ dirty
  /\ pc = "off" => ~writable
  /\ writable => ~Unaccepted
  /\ pc = "read" => data = Blank

\* Whoever copies under lock_ does so alone.
LockHeld ==
  /\ game = "storing" => lock
  /\ pc = "copy" => lock /\ game # "storing"

\* The owner has the scratch buffer for itself from the lease to the return.
LeaseHeld ==
  /\ other => busy
  /\ pc \in CommitPc \cup {"lock", "copy", "read"} => busy /\ ~other

\* The snapshot: what is copied equals the mirror; afterwards generation_
\* tells whether the mirror has moved on.
Snapshot ==
  /\ pc = "copy" => \A i \in 1..cursor : scratch[i] = data[i]
  /\ ~InFlight => edits = 0
  /\ InFlight => \/ generation = snap + edits
                 \/ generation + GenMod = snap + edits
  /\ InFlight /\ edits = 0 /\ game # "storing" => scratch = data

\* The temporary file holds a prefix of the snapshot, and all of it, synced,
\* once the commit can only succeed.
Temporary ==
  LET tmp == files["tmp"] IN
  /\ pc \in {"open", "write"} /\ Schema # 0 => crc = Source
  /\ pc \in {"write", "sync"} \/ (pc \in {"close", "rename"} /\ rc = "OK") =>
       /\ tmp.present /\ tmp.len <= Size
       /\ \A i \in 1..tmp.len : tmp.body[i] = Source[i]
       /\ tmp.hdr \in {"none", "ok"}
       /\ Schema # 0 /\ tmp.hdr = "ok" =>
            tmp.schema = Schema /\ tmp.size = Size /\ tmp.sum = Source
  /\ pc = "sync" \/ (pc \in {"close", "rename"} /\ rc = "OK") =>
       tmp.len = Size /\ HeaderWritten
  /\ pc \in {"close", "rename"} /\ rc = "OK" => tmp.synced

\* The committed files survive a power failure, and after the rename the save
\* is the image that was to be stored.
Committed ==
  /\ files["dat"].synced /\ files["sav"].synced
  /\ pc = "ack" => Whole(files[Path]) /\ files[Path].body = Source

IInv == /\ TypeOK
        /\ Control /\ Permission
        /\ LockHeld /\ LeaseHeld
        /\ Snapshot /\ Temporary /\ Committed
        /\ CleanIsDurable
=============================================================================
