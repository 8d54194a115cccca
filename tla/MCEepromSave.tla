---------------------------- MODULE MCEepromSave ----------------------------
(* Small instances of EepromSave: a mirror of MCSize bytes over two values. *)
EXTENDS EepromSaveRefines, TLC

MCByte == {"ff", "00"}

Filled(b) == [i \in 1..Size |-> b]

\* A migration callback: the erased source stays, others are converted.
MCMigrated == [img \in Image |-> IF img = Filled("ff") THEN img ELSE Filled("00")]

RawFile(n) == WithPayload(Created, n, Filled("00"), TRUE)

\* Nothing, a raw save, one cut short, one of an older and longer layout, and
\* one that overflows the scratch buffer.
MCRawDirs ==
  {[n \in Name |-> IF n = "dat" THEN d ELSE NoFile] :
     d \in {NoFile} \cup {RawFile(n) : n \in {Size - 1, Size, Size + 1, Capacity + 1}}}

Envelope(s) == [present |-> TRUE, hdr |-> "ok", schema |-> s, size |-> Size,
                sum |-> Filled("00"), len |-> Size, body |-> Filled("00"),
                synced |-> TRUE]

\* No .sav, a current one, one of the schema before, and every way in which
\* one can be invalid; each without and with a raw save beside it.
MCEnvelopes ==
  {NoFile, Envelope(Schema), Envelope(Schema - 1),
   [Envelope(Schema) EXCEPT !.hdr = "bad"],
   [Envelope(Schema) EXCEPT !.hdr = "version"],
   [Envelope(Schema) EXCEPT !.hdr = "foreign"],
   [Envelope(Schema) EXCEPT !.len = Size - 1],
   [Envelope(Schema) EXCEPT !.size = Size + 1, !.len = Size + 1],
   [Envelope(Schema) EXCEPT !.size = 0, !.len = 0],
   [Envelope(Schema) EXCEPT !.size = Capacity + 1, !.len = Capacity],
   Envelope(0),
   [Envelope(Schema) EXCEPT !.body = Filled("ff")]}

MCVersionedDirs ==
  {[n \in Name |-> CASE n = "sav" -> s [] n = "dat" -> d [] OTHER -> NoFile] :
     s \in MCEnvelopes, d \in {NoFile, RawFile(Size)}}

\* For liveness: an empty directory.
MCEmptyDir == {[n \in Name |-> NoFile]}
=============================================================================
