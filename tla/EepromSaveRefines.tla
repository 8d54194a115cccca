------------------------- MODULE EepromSaveRefines -------------------------
(* EepromSave keeps the promise of DurableSave.                            *)
EXTENDS EepromSaveInv

CONSTANTS None, Junk

ASSUME NoImage == None \notin Image /\ Junk \notin Image /\ None # Junk

\* A block store counts as done when it takes the lock.
Mirror == IF game = "storing" THEN want ELSE data

Saved == LET f == files[Path] IN
         IF ~f.present THEN None ELSE IF Whole(f) THEN f.body ELSE Junk

Committing == /\ job \in {"flush", "migrate"}
              /\ pc \in {"mkdir", "open", "write", "sync", "close", "rename",
                         "unlink", "ack"}

Shot == IF Committing THEN Source ELSE None

Durable == INSTANCE DurableSave
             WITH mirror <- Mirror, saved <- Saved, shot <- Shot, clean <- Clean

\* Every behaviour of the locked mirror, the shared scratch buffer and the
\* file transaction looks like a save that is captured at one instant and
\* replaced in one step: no torn block, no foreign payload, no half commit.
ImplementsDurableSave == Durable!Spec
=============================================================================
