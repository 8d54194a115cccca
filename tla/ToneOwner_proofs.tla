-------------------------- MODULE ToneOwner_proofs --------------------------
(***************************************************************************)
(* The audio adapter for any number of notes and tokens.  ToneInv is       *)
(* inductive: every request and every stop goes through StopTone, after    *)
(* which nothing of the sketch sounds, so the notes may be rewritten; and  *)
(* what the host accepts is the notes as they are at that moment.          *)
(* ScoreInv is inductive beside it: a word more of a score adds its note,   *)
(* or the channel it sets, to what the score so far means, which no later   *)
(* word changes.                                                            *)
(***************************************************************************)
EXTENDS ToneOwner, SequenceTheorems, FiniteSetTheorems, WellFoundedInduction, TLAPS

USE DEF settings, decodeVars

LEMMA QuietIsPlayback == Quiet \in Playback
  <1>1. <<>> \in Seq(Note)
    BY EmptySeq
  <1> QED
    BY <1>1, SMT DEF Quiet, Playback

LEMMA NoChannelOK == NoChannel \in [0 .. 1 -> Nat]
  BY SMT DEF NoChannel

LEMMA InitTone == ASSUME Init PROVE ToneInv
  <1>1. FlagsOK
    BY Zenon DEF Init, FlagsOK
  <1>2. DecodeOK
    BY ToneAssumption, NoChannelOK, SMT DEF Init, DecodeOK, Note
  <1>3. HostOK
    BY QuietIsPlayback, Zenon DEF Init, HostOK
  <1>4. host.sound = "none" /\ host.token = NoToken /\ ~busy /\ left = 0 /\ count = 0
    BY Zenon DEF Init, Quiet
  <1> QED
    BY <1>1, <1>2, <1>3, <1>4, Zenon DEF ToneInv, ToneTypeOK, Owned, Borrowed, Audible, Requesting

-----------------------------------------------------------------------------
(* Stopping: after it nothing of the sketch sounds. *)

LEMMA StopSilences ==
  ASSUME HostOK, Owned, StopTone
  PROVE  HostOK' /\ Owned' /\ toneToken' = NoToken /\ host'.sound # "sketch"
  <1>1. host' \in {Quiet, host} /\ toneToken' = NoToken
    BY Zenon DEF StopTone, Stopped
  <1>2. HostOK'
    BY <1>1, QuietIsPlayback, Zenon DEF HostOK
  <1>3. CASE host.sound = "sketch"
    <2>1. host' = Quiet
      BY <1>3, Zenon DEF StopTone, Stopped, Owned
    <2> QED
      BY <1>1, <1>2, <2>1, Zenon DEF Owned, Quiet
  <1>4. CASE host.sound # "sketch"
    <2>1. CASE host' = Quiet
      BY <1>1, <1>2, <2>1, Zenon DEF Owned, Quiet
    <2>2. CASE host' = host
      BY <1>1, <1>2, <1>4, <2>2, Zenon DEF Owned
    <2> QED
      BY <1>1, <2>1, <2>2
  <1> QED
    BY <1>3, <1>4

\* ... so a request may begin, and a session may end.
LEMMA StoppedKeeps ==
  ASSUME ToneInv, StopTone, FlagsOK', DecodeOK', busy' => CanPlay',
         left' # 0 => busy' /\ kind' = "pairs", count' # 0 => busy'
  PROVE  ToneInv'
  <1>1. HostOK' /\ Owned' /\ toneToken' = NoToken /\ host'.sound # "sketch"
    BY StopSilences, Zenon DEF ToneInv, ToneTypeOK
  <1> QED
    BY <1>1, Zenon DEF ToneInv, ToneTypeOK, Borrowed, Audible, Requesting

LEMMA NoToneKeeps == ASSUME ToneInv, NoTone PROVE ToneInv'
  <1>1. FlagsOK' /\ ~busy' /\ left' = 0 /\ count' = 0
    BY Zenon DEF ToneInv, ToneTypeOK, FlagsOK, Requesting, NoTone
  <1>2. DecodeOK'
    BY Zenon DEF ToneInv, ToneTypeOK, DecodeOK, NoTone
  <1> QED
    BY <1>1, <1>2, StoppedKeeps, Zenon DEF NoTone

LEMMA SetEnabledKeeps ==
  ASSUME ToneInv, NEW on \in BOOLEAN, SetEnabled(on)
  PROVE  ToneInv'
  <1>1. FlagsOK' /\ ~busy' /\ left' = 0 /\ count' = 0
    BY Zenon DEF ToneInv, ToneTypeOK, FlagsOK, Requesting, SetEnabled
  <1>2. DecodeOK'
    BY Zenon DEF ToneInv, ToneTypeOK, DecodeOK, SetEnabled
  <1>3. CASE on
    <2>1. HostOK' /\ Owned' /\ Borrowed' /\ Requesting'
      BY <1>1, <1>3, Zenon DEF ToneInv, ToneTypeOK, HostOK, Owned, Borrowed, Requesting, SetEnabled
    <2>2. Audible'
      BY <1>3, Zenon DEF ToneInv, Audible, CanPlay, SetEnabled
    <2> QED
      BY <1>1, <1>2, <2>1, <2>2, Zenon DEF ToneInv, ToneTypeOK
  <1>4. CASE ~on
    BY <1>1, <1>2, <1>4, StoppedKeeps, Zenon DEF SetEnabled
  <1> QED
    BY <1>3, <1>4

LEMMA LeaveKeeps == ASSUME ToneInv, Leave PROVE ToneInv'
  <1>1. FlagsOK' /\ ~busy' /\ left' = 0 /\ count' = 0
    BY Zenon DEF ToneInv, ToneTypeOK, FlagsOK, Requesting, Leave
  <1>2. DecodeOK'
    BY Zenon DEF ToneInv, ToneTypeOK, DecodeOK, Leave
  <1> QED
    BY <1>1, <1>2, StoppedKeeps, Zenon DEF Leave

\* No tone of the sketch sounds outside a session.
LEMMA EnterKeeps == ASSUME ToneInv, Enter PROVE ToneInv'
  <1>1. FlagsOK' /\ ~busy' /\ left' = 0 /\ count' = 0
    BY Zenon DEF ToneInv, ToneTypeOK, FlagsOK, Requesting, Enter
  <1>2. DecodeOK'
    BY Zenon DEF ToneInv, ToneTypeOK, DecodeOK, Enter
  <1>3. host.sound # "sketch"
    BY Zenon DEF ToneInv, Audible, CanPlay, Enter
  <1>4. HostOK' /\ Owned'
    BY <1>3, Zenon DEF ToneInv, ToneTypeOK, HostOK, Owned, Enter
  <1>5. Borrowed' /\ Audible' /\ Requesting'
    BY <1>1, <1>3, Zenon DEF Borrowed, Audible, Requesting, Enter
  <1> QED
    BY <1>1, <1>2, <1>4, <1>5, Zenon DEF ToneInv, ToneTypeOK

LEMMA RefusedKeeps == ASSUME ToneInv, RequestRefused PROVE ToneInv'
  <1>1. FlagsOK' /\ ~busy' /\ left' = 0 /\ count' = 0 /\ StopTone
    BY Zenon DEF ToneInv, ToneTypeOK, FlagsOK, Requesting, RequestRefused, SynchronizeNotes
  <1>2. DecodeOK'
    BY Zenon DEF ToneInv, ToneTypeOK, DecodeOK, RequestRefused
  <1> QED
    BY <1>1, <1>2, StoppedKeeps, Zenon

LEMMA RequestKeeps ==
  ASSUME ToneInv, NEW k \in {"pairs", "score", "legacy"}, NEW n \in 0 .. MaxNotes,
         n = 0 \/ k = "pairs", Request(k, n)
  PROVE  ToneInv'
  <1>1. FlagsOK' /\ StopTone /\ CanPlay' /\ busy' /\ kind' = k
    BY Zenon DEF ToneInv, ToneTypeOK, FlagsOK, Request, SynchronizeNotes, CanPlay
  <1>2. left' = n /\ count = 0 /\ UNCHANGED <<notes, count, channel>> /\ DecodeOK
    BY Zenon DEF ToneInv, ToneTypeOK, Requesting, Request
  <1>3. DecodeOK'
    BY <1>2, ToneAssumption, SMT DEF DecodeOK
  <1> QED
    BY <1>1, <1>2, <1>3, StoppedKeeps, Zenon

-----------------------------------------------------------------------------
(* Decoding: nothing of the sketch sounds while the notes are written. *)

LEMMA Decoding ==
  ASSUME ToneInv, busy
  PROVE  host.sound # "sketch" /\ toneToken = NoToken /\ CanPlay
  BY Zenon DEF ToneInv, Borrowed, Requesting

LEMMA RefuseKeeps ==
  ASSUME ToneInv, busy, NEW e, Refuse(e), UNCHANGED <<settings, kind, notes>>
  PROVE  ToneInv'
  <1>1. FlagsOK' /\ ~busy'
    BY Zenon DEF ToneInv, ToneTypeOK, FlagsOK, Refuse
  <1>2. DecodeOK'
    BY ToneAssumption, NoChannelOK, SMT DEF ToneInv, ToneTypeOK, DecodeOK, Refuse, LocalsEnd
  <1>3. HostOK' /\ Owned'
    BY Zenon DEF ToneInv, ToneTypeOK, HostOK, Owned, Refuse
  <1>4. Borrowed' /\ Audible' /\ Requesting'
    BY <1>1, Decoding, Zenon DEF Borrowed, Audible, Requesting, Refuse, LocalsEnd
  <1> QED
    BY <1>1, <1>2, <1>3, <1>4, Zenon DEF ToneInv, ToneTypeOK

\* A step that goes on decoding.
LEMMA WriteKeeps ==
  ASSUME ToneInv, busy, UNCHANGED <<settings, busy, kind, toneToken, host>>, DecodeOK',
         left' # 0 => kind = "pairs"
  PROVE  ToneInv'
  <1>1. FlagsOK' /\ HostOK' /\ Owned'
    BY Zenon DEF ToneInv, ToneTypeOK, FlagsOK, HostOK, Owned
  <1>2. Borrowed' /\ Audible' /\ Requesting'
    BY Decoding, Zenon DEF Borrowed, Audible, Requesting, CanPlay
  <1> QED
    BY <1>1, <1>2, Zenon DEF ToneInv, ToneTypeOK

LEMMA RoomForOne ==
  ASSUME NEW l \in Nat, NEW c \in 0 .. MaxNotes, l + c < MaxNotes
  PROVE  c + 1 \in 0 .. MaxNotes /\ l + (c + 1) <= MaxNotes
  BY ToneAssumption, SMT

LEMMA NotePut ==
  ASSUME DecodeOK, NEW f \in Nat, NEW d \in Nat, PutNote(f, d), UNCHANGED channel,
         left' \in Nat, left' + count < MaxNotes
  PROVE  DecodeOK'
  <1>1. [freq |-> f, dur |-> d] \in Note
    BY SMT DEF Note
  <1>2. MaxNotes \in Nat /\ count \in 0 .. MaxNotes
    BY ToneAssumption, Zenon DEF DecodeOK
  <1>3. count' = count + 1 /\ notes' = [notes EXCEPT ![count + 1] = [freq |-> f, dur |-> d]]
    BY Zenon DEF PutNote
  <1>4. notes' \in [1 .. MaxNotes -> Note]
    BY <1>1, <1>3, Zenon DEF DecodeOK
  <1>5. count' \in 0 .. MaxNotes /\ left' + count' <= MaxNotes
    BY <1>2, <1>3, RoomForOne, Zenon
  <1> QED
    BY <1>4, <1>5, Zenon DEF DecodeOK

LEMMA FrequencyIsNat == ASSUME NEW w \in Words PROVE Frequency(w) \in Nat
  BY ToneAssumption, SMT DEF Frequency

\* What the host accepts is the notes as they are.
LEMMA PlayKeeps ==
  ASSUME ToneInv, busy, count > 0, NEW r \in BOOLEAN, Play(r), UNCHANGED <<settings, kind, notes>>
  PROVE  ToneInv'
  <1>1. FlagsOK' /\ ~busy'
    BY Zenon DEF ToneInv, ToneTypeOK, FlagsOK, Play
  <1>2. DecodeOK'
    BY ToneAssumption, NoChannelOK, SMT DEF ToneInv, ToneTypeOK, DecodeOK, Play, LocalsEnd
  <1>3. CASE toneToken' = NoToken /\ UNCHANGED host
    <2>1. HostOK' /\ Owned'
      BY <1>3, Decoding, Zenon DEF ToneInv, ToneTypeOK, HostOK, Owned
    <2>2. Borrowed' /\ Audible' /\ Requesting'
      BY <1>1, <1>3, Decoding, Zenon DEF Borrowed, Audible, Requesting, Play, LocalsEnd
    <2> QED
      BY <1>1, <1>2, <2>1, <2>2, Zenon DEF ToneInv, ToneTypeOK
  <1>4. ASSUME NEW t \in Tokens, toneToken' = t,
               host' = [sound |-> "sketch", token |-> t, melody |-> SubSeq(notes, 1, count),
                        at |-> 1, repeat |-> r]
        PROVE  ToneInv'
    <2>1. count \in 1 .. MaxNotes /\ notes \in [1 .. MaxNotes -> Note]
      BY ToneAssumption, SMT DEF ToneInv, ToneTypeOK, DecodeOK
    <2>2. \A i \in 1 .. count : notes[i] \in Note
      BY <2>1, ToneAssumption, SMT
    <2>3. /\ SubSeq(notes, 1, count) \in Seq(Note)
          /\ Len(SubSeq(notes, 1, count)) = IF 1 <= count THEN count - 1 + 1 ELSE 0
          /\ \A i \in 1 .. count - 1 + 1 : SubSeq(notes, 1, count)[i] = notes[1 + i - 1]
      BY <2>1, <2>2, SubSeqProperties, SMT
    <2>4. /\ host'.sound = "sketch" /\ host'.token = t /\ host'.melody = SubSeq(notes, 1, count)
          /\ host'.at = 1
      BY <1>4, Zenon
    <2>5. HostOK'
      BY <1>4, <2>3, SMT DEF HostOK, Playback
    <2>6. Owned'
      BY <1>4, <2>4, ToneAssumption, Zenon DEF Owned
    <2>7. /\ Len(host'.melody) \in 1 .. MaxNotes /\ host'.at \in 1 .. Len(host'.melody)
          /\ \A i \in 1 .. Len(host'.melody) : notes[i] = host'.melody[i]
      BY <2>1, <2>3, <2>4, ToneAssumption, SMT
    <2>8. Borrowed'
      BY <1>1, <2>7, Zenon DEF Borrowed
    <2>9. Audible' /\ Requesting'
      BY <1>1, Decoding, Zenon DEF Audible, Requesting, CanPlay, Play, LocalsEnd
    <2> QED
      BY <1>1, <1>2, <2>5, <2>6, <2>8, <2>9, Zenon DEF ToneInv, ToneTypeOK
  <1> QED
    BY <1>3, <1>4, Zenon DEF Play

LEMMA SubmitKeeps ==
  ASSUME ToneInv, busy, Submit, UNCHANGED <<settings, kind, notes>>
  PROVE  ToneInv'
  BY PlayKeeps, RefuseKeeps, Zenon DEF Submit

-----------------------------------------------------------------------------
(* The steps of the three formats. *)

LEMMA DecodeIsNat == ASSUME ToneInv PROVE left \in Nat /\ count \in Nat /\ MaxNotes \in Nat
  BY ToneAssumption, SMT DEF ToneInv, ToneTypeOK, DecodeOK

LEMMA PairKeeps == ASSUME ToneInv, Pair PROVE ToneInv'
  <1>1. busy /\ kind = "pairs" /\ UNCHANGED <<settings, kind>> /\ left > 0
    BY Zenon DEF Pair
  <1>2. PICK f \in Words :
          \/ Refuse("ENOTSUP") /\ UNCHANGED notes
          \/ \E d \in Durations : PutNote(Frequency(f), d) /\ left' = left - 1 /\ UNCHANGED channel
    BY Zenon DEF Pair
  <1>3. CASE Refuse("ENOTSUP") /\ UNCHANGED notes
    BY <1>1, <1>3, RefuseKeeps, Zenon
  <1>4. ASSUME NEW d \in Durations, PutNote(Frequency(f), d), left' = left - 1, UNCHANGED channel
        PROVE  ToneInv'
    <2>1. left' \in Nat /\ left' + count < MaxNotes
      <3>1. left \in Nat /\ count \in Nat /\ MaxNotes \in Nat /\ left + count <= MaxNotes
        BY DecodeIsNat, Zenon DEF ToneInv, ToneTypeOK, DecodeOK
      <3> QED
        BY <1>1, <1>4, <3>1, SMT
    <2>2. DecodeOK'
      BY <1>4, <2>1, NotePut, FrequencyIsNat, ToneAssumption, Zenon DEF ToneInv, ToneTypeOK
    <2> QED
      BY <1>1, <1>4, <2>2, WriteKeeps, Zenon DEF PutNote
  <1> QED
    BY <1>2, <1>3, <1>4

\* Outside the pairs nothing is counted down.
LEMMA RoomLeft ==
  ASSUME ToneInv, kind # "pairs", ~Full
  PROVE  left = 0 /\ left \in Nat /\ left + count < MaxNotes
  <1>1. left = 0
    BY Zenon DEF ToneInv, Requesting
  <1>2. MaxNotes \in Nat /\ count \in 0 .. MaxNotes /\ count # MaxNotes
    BY ToneAssumption, Zenon DEF ToneInv, ToneTypeOK, DecodeOK, Full
  <1> QED
    BY <1>1, <1>2, SMT

LEMMA PairsEndKeeps == ASSUME ToneInv, PairsEnd PROVE ToneInv'
  BY SubmitKeeps, Zenon DEF PairsEnd

LEMMA ScoreSpanEndsKeeps == ASSUME ToneInv, ScoreSpanEnds PROVE ToneInv'
  BY RefuseKeeps, Zenon DEF ScoreSpanEnds, Unterminated

LEMMA ScoreWordKeeps == ASSUME ToneInv, ScoreWord PROVE ToneInv'
  <1>1. busy /\ kind = "score" /\ UNCHANGED <<settings, kind>>
    BY Zenon DEF ScoreWord
  <1>2. PICK f \in Words :
          \/ Submit /\ UNCHANGED notes
          \/ \E e \in {"ENOTSUP", "E2BIG", "EINVAL"} : Refuse(e) /\ UNCHANGED notes
          \/ ~Full /\ \E d \in Durations : PutNote(Frequency(f), d) /\ UNCHANGED <<left, channel>>
    BY Zenon DEF ScoreWord
  <1>3. CASE Submit /\ UNCHANGED notes
    BY <1>1, <1>3, SubmitKeeps, Zenon
  <1>4. CASE \E e \in {"ENOTSUP", "E2BIG", "EINVAL"} : Refuse(e) /\ UNCHANGED notes
    BY <1>1, <1>4, RefuseKeeps, Zenon
  <1>5. ASSUME ~Full, NEW d \in Durations, PutNote(Frequency(f), d), UNCHANGED <<left, channel>>
        PROVE  ToneInv'
    <2>1. left = 0 /\ left \in Nat /\ left + count < MaxNotes
      BY <1>1, <1>5, RoomLeft, Zenon
    <2>2. DecodeOK'
      BY <1>5, <2>1, NotePut, FrequencyIsNat, ToneAssumption, Zenon DEF ToneInv, ToneTypeOK
    <2> QED
      BY <1>1, <1>5, <2>1, <2>2, WriteKeeps, Zenon DEF PutNote
  <1> QED
    BY <1>2, <1>3, <1>4, <1>5

LEMMA LegacySpanEndsKeeps == ASSUME ToneInv, LegacySpanEnds PROVE ToneInv'
  BY RefuseKeeps, Zenon DEF LegacySpanEnds

LEMMA LegacyEndKeeps == ASSUME ToneInv, LegacyEnd PROVE ToneInv'
  <1>1. busy /\ UNCHANGED <<settings, kind, notes>>
    BY Zenon DEF LegacyEnd
  <1>2. Refuse("EINVAL") \/ Submit \/ (count > 0 /\ Play(TRUE))
    BY Zenon DEF LegacyEnd
  <1>3. CASE count > 0 /\ Play(TRUE)
    BY <1>1, <1>3, PlayKeeps, Zenon
  <1> QED
    BY <1>1, <1>2, <1>3, RefuseKeeps, SubmitKeeps, Zenon

\* The channels keep frequencies.
LEMMA ChannelKeeps ==
  ASSUME ToneInv, busy, NEW c \in 0 .. 1, NEW p \in Nat, channel' = [channel EXCEPT ![c] = p],
         UNCHANGED <<settings, busy, kind, toneToken, host, notes, left, count>>
  PROVE  ToneInv'
  <1>1. DecodeOK'
    BY Zenon DEF ToneInv, ToneTypeOK, DecodeOK
  <1>2. left' # 0 => kind = "pairs"
    BY Zenon DEF ToneInv, Requesting
  <1> QED
    BY <1>1, <1>2, WriteKeeps, Zenon

LEMMA HeardIsNat == ASSUME ToneInv PROVE Heard \in Nat
  BY SMT DEF ToneInv, ToneTypeOK, DecodeOK, Heard

LEMMA LegacyCommandKeeps == ASSUME ToneInv, LegacyCommand PROVE ToneInv'
  <1>1. busy /\ kind = "legacy" /\ UNCHANGED <<settings, kind>>
    BY Zenon DEF LegacyCommand
  <1>2. \/ \E e \in {"ENOTSUP", "ERANGE", "EINVAL", "E2BIG"} : Refuse(e) /\ UNCHANGED notes
        \/ \E c \in 0 .. 1, p \in Pitches \cup {0} :
             /\ channel' = [channel EXCEPT ![c] = p]
             /\ UNCHANGED <<busy, status, notes, left, count, toneToken, host>>
        \/ ~Full /\ \E d \in Durations : PutNote(Heard, d) /\ UNCHANGED <<left, channel>>
    BY Zenon DEF LegacyCommand
  <1>3. CASE \E e \in {"ENOTSUP", "ERANGE", "EINVAL", "E2BIG"} : Refuse(e) /\ UNCHANGED notes
    BY <1>1, <1>3, RefuseKeeps, Zenon
  <1>4. ASSUME NEW c \in 0 .. 1, NEW p \in Pitches \cup {0}, channel' = [channel EXCEPT ![c] = p],
               UNCHANGED <<busy, status, notes, left, count, toneToken, host>>
        PROVE  ToneInv'
    <2>1. p \in Nat
      BY ToneAssumption, SMT
    <2> QED
      BY <1>1, <1>4, <2>1, ChannelKeeps, Zenon
  <1>5. ASSUME ~Full, NEW d \in Durations, PutNote(Heard, d), UNCHANGED <<left, channel>>
        PROVE  ToneInv'
    <2>1. left = 0 /\ left \in Nat /\ left + count < MaxNotes
      BY <1>1, <1>5, RoomLeft, Zenon
    <2>2. DecodeOK'
      BY <1>5, <2>1, NotePut, HeardIsNat, ToneAssumption, Zenon DEF ToneInv, ToneTypeOK
    <2> QED
      BY <1>1, <1>5, <2>1, <2>2, WriteKeeps, Zenon DEF PutNote
  <1> QED
    BY <1>2, <1>3, <1>4, <1>5

-----------------------------------------------------------------------------
(* The host: it reads what it borrowed, and takes its tokens anew. *)

\* A step of the host that leaves no tone of the sketch where there was none.
LEMMA HostKeeps ==
  ASSUME ToneInv, HostStep, HostOK', Owned', Borrowed', host'.sound = "sketch" => host.sound = "sketch"
  PROVE  ToneInv'
  <1>1. UNCHANGED <<settings, toneToken, notes, status, busy, kind, score, decodeVars>>
    BY Zenon DEF HostStep, HostReads, SystemSound, SystemEnds
  <1>2. FlagsOK' /\ DecodeOK'
    BY <1>1, Zenon DEF ToneInv, ToneTypeOK, FlagsOK, DecodeOK
  <1>3. Audible' /\ Requesting'
    BY <1>1, Zenon DEF ToneInv, Audible, Requesting, CanPlay
  <1> QED
    BY <1>2, <1>3, Zenon DEF ToneInv, ToneTypeOK

LEMMA HostReadsKeeps == ASSUME ToneInv, HostReads PROVE ToneInv'
  <1>1. /\ host.sound = "sketch" /\ HostStep /\ UNCHANGED <<toneToken, notes, busy>>
        /\ HostOK /\ Owned /\ Borrowed
    BY Zenon DEF HostReads, HostStep, ToneInv, ToneTypeOK
  <1>2. CASE host' = Quiet
    <2>1. HostOK'
      BY <1>1, <1>2, QuietIsPlayback, Zenon DEF HostOK
    <2> QED
      BY <1>1, <1>2, <2>1, HostKeeps, Zenon DEF Owned, Borrowed, Quiet
  <1>3. ASSUME NEW n \in 1 .. Len(host.melody), host' = [host EXCEPT !.at = n]
        PROVE  ToneInv'
    <2>1. Len(host.melody) \in Nat
      BY <1>1, LenProperties, Zenon DEF HostOK, Playback
    <2>2. n \in Nat
      BY <2>1, SMT
    <2>3. HostOK'
      BY <1>1, <1>3, <2>2, Zenon DEF HostOK, Playback
    <2>4. /\ host'.sound = host.sound /\ host'.token = host.token /\ host'.melody = host.melody
          /\ host'.at = n
      BY <1>1, <1>3, Zenon DEF HostOK, Playback
    <2>5. Owned' /\ Borrowed'
      BY <1>1, <1>3, <2>4, Zenon DEF Owned, Borrowed
    <2> QED
      BY <1>1, <2>3, <2>4, <2>5, HostKeeps, Zenon
  <1>4. Len(host.melody) \in Nat \ {0} /\ host.at \in 1 .. Len(host.melody)
    BY <1>1, ToneAssumption, SMT DEF Borrowed
  <1>5. host.at < Len(host.melody) => host.at + 1 \in 1 .. Len(host.melody)
    BY <1>4, SMT
  <1>6. 1 \in 1 .. Len(host.melody)
    BY <1>4, SMT
  <1>7. \/ host' = Quiet \/ host' = [host EXCEPT !.at = 1]
        \/ host.at < Len(host.melody) /\ host' = [host EXCEPT !.at = host.at + 1]
    BY Zenon DEF HostReads
  <1> QED
    BY <1>2, <1>3, <1>5, <1>6, <1>7, Zenon

LEMMA SystemKeeps == ASSUME ToneInv, SystemSound \/ SystemEnds PROVE ToneInv'
  <1>1. HostStep /\ UNCHANGED <<toneToken, notes, busy>> /\ HostOK /\ Owned
    BY Zenon DEF HostStep, SystemSound, SystemEnds, ToneInv, ToneTypeOK
  <1>2. CASE SystemSound
    <2>1. PICK t \in Tokens \ {toneToken, host.token} :
            host' = [Quiet EXCEPT !.sound = "system", !.token = t]
      BY <1>2, Zenon DEF SystemSound
    <2>2. host'.sound = "system" /\ host'.token = t /\ t # NoToken
      BY <2>1, ToneAssumption, SMT DEF Quiet
    <2>3. HostOK'
      BY <1>1, <2>1, QuietIsPlayback, Zenon DEF HostOK, Playback
    <2> QED
      BY <1>1, <2>1, <2>2, <2>3, HostKeeps, Zenon DEF Owned, Borrowed
  <1>3. CASE SystemEnds
    <2>1. host'.sound = "none" /\ host'.token = NoToken /\ HostOK'
      BY <1>1, <1>3, QuietIsPlayback, Zenon DEF SystemEnds, Quiet, HostOK
    <2> QED
      BY <1>1, <2>1, HostKeeps, Zenon DEF Owned, Borrowed
  <1> QED
    BY <1>2, <1>3

-----------------------------------------------------------------------------
LEMMA NextKeeps == ASSUME ToneInv, [Next]_vars PROVE ToneInv'
  <1>1. CASE UNCHANGED vars
    BY <1>1, Zenon DEF vars, ToneInv, ToneTypeOK, FlagsOK, DecodeOK, HostOK, Owned, Borrowed, Audible,
                       Requesting, CanPlay
  <1>2. CASE HostStep
    BY <1>2, HostReadsKeeps, SystemKeeps, Zenon DEF HostStep
  <1>3. CASE Enter \/ Leave \/ NoTone \/ (\E on \in BOOLEAN : SetEnabled(on)) \/ RequestRefused
    BY <1>3, EnterKeeps, LeaveKeeps, NoToneKeeps, SetEnabledKeeps, RefusedKeeps, Zenon
  <1>4. CASE (\E n \in 1 .. MaxNotes : Request("pairs", n)) \/ Request("score", 0) \/ Request("legacy", 0)
    <2>1. 0 \in 0 .. MaxNotes /\ \A n \in 1 .. MaxNotes : n \in 0 .. MaxNotes
      BY ToneAssumption, SMT
    <2> QED
      BY <1>4, <2>1, RequestKeeps, Zenon
  <1>5. CASE Pair \/ PairsEnd \/ ScoreSpanEnds \/ ScoreWord
    BY <1>5, PairKeeps, PairsEndKeeps, ScoreSpanEndsKeeps, ScoreWordKeeps, Zenon
  <1>6. CASE LegacySpanEnds \/ LegacyEnd \/ LegacyCommand
    BY <1>6, LegacySpanEndsKeeps, LegacyEndKeeps, LegacyCommandKeeps, Zenon
  <1> QED
    BY <1>1, <1>2, <1>3, <1>4, <1>5, <1>6, Zenon DEF Next

(* A tone the sketch can stop is the sketch's, the notes the host borrowed  *)
(* are not written while it plays them, and nothing of the sketch sounds    *)
(* outside a session or with its audio off.                                 *)
THEOREM ToneInvariance == Spec => []ToneInv
  BY InitTone, NextKeeps, PTL DEF Spec

\* A stop leaves a system sound, a request that is refused leaves the host,
\* and one that the host accepts sounds itself.
LEMMA StopLeavesSystem ==
  ASSUME Owned, host.sound = "system", StopTone
  PROVE  UNCHANGED host
  BY Zenon DEF StopTone, Stopped, Owned

LEMMA PlaySounds == ASSUME NEW r, Play(r) PROVE UNCHANGED host \/ host'.sound = "sketch"
  <1>1. CASE UNCHANGED host
    BY <1>1
  <1>2. ASSUME NEW t, NEW m, host' = [sound |-> "sketch", token |-> t, melody |-> m, at |-> 1, repeat |-> r]
        PROVE  host'.sound = "sketch"
    BY <1>2, Zenon
  <1> QED
    BY <1>1, <1>2, Zenon DEF Play

LEMMA RefusalLeaves == ASSUME NEW e, Refuse(e) PROVE UNCHANGED host
  BY Zenon DEF Refuse

LEMMA SubmitSounds == ASSUME Submit PROVE UNCHANGED host \/ host'.sound = "sketch"
  BY PlaySounds, RefusalLeaves, Zenon DEF Submit

LEMMA StepsLeaveSystem ==
  ASSUME ToneInv, [Next]_vars, host.sound = "system", host'.sound = "none"
  PROVE  SystemEnds
  <1>1. CASE UNCHANGED vars
    BY <1>1, Zenon DEF vars
  <1>2. CASE HostStep
    <2>1. CASE SystemSound
      <3>1. PICK t \in Tokens : host' = [Quiet EXCEPT !.sound = "system", !.token = t]
        BY <2>1, Zenon DEF SystemSound
      <3> QED
        BY <3>1, Zenon DEF Quiet
    <2> QED
      BY <1>2, <2>1, Zenon DEF HostStep, HostReads
  <1>3. CASE Enter \/ Leave \/ NoTone \/ (\E on \in BOOLEAN : SetEnabled(on)) \/ RequestRefused
    <2>1. UNCHANGED host \/ StopTone
      BY <1>3, Zenon DEF Enter, Leave, NoTone, SetEnabled, RequestRefused, SynchronizeNotes
    <2> QED
      BY <2>1, StopLeavesSystem, Zenon DEF ToneInv
  <1>4. CASE (\E n \in 1 .. MaxNotes : Request("pairs", n)) \/ Request("score", 0) \/ Request("legacy", 0)
    <2>1. StopTone
      BY <1>4, Zenon DEF Request, SynchronizeNotes
    <2> QED
      BY <2>1, StopLeavesSystem, Zenon DEF ToneInv
  <1>5. CASE Pair \/ PairsEnd \/ ScoreSpanEnds \/ ScoreWord
    <2>1. UNCHANGED host \/ host'.sound = "sketch"
      BY <1>5, SubmitSounds, RefusalLeaves, Zenon DEF Pair, PairsEnd, ScoreSpanEnds, ScoreWord, Unterminated, PutNote
    <2> QED
      BY <2>1, Zenon
  <1>6. CASE LegacySpanEnds \/ LegacyEnd \/ LegacyCommand
    <2>1. UNCHANGED host \/ host'.sound = "sketch"
      BY <1>6, SubmitSounds, PlaySounds, RefusalLeaves, Zenon DEF LegacySpanEnds, LegacyEnd, LegacyCommand, PutNote
    <2> QED
      BY <2>1, Zenon
  <1> QED
    BY <1>1, <1>2, <1>3, <1>4, <1>5, <1>6, Zenon DEF Next

(* Nothing the sketch does silences the system.                             *)
THEOREM SystemSoundsAreSafe == Spec => SystemSoundsStand
  <1>1. ToneInv /\ [Next]_vars => [host.sound = "system" /\ host'.sound = "none" => SystemEnds]_vars
    BY StepsLeaveSystem
  <1> QED
    BY <1>1, ToneInvariance, PTL DEF Spec, SystemSoundsStand

-----------------------------------------------------------------------------
(* One more word of a score. *)

LEMMA Appended ==
  ASSUME NEW S, NEW s \in Seq(S), NEW x \in S
  PROVE  LET t == s \o <<x>> IN
         /\ t \in Seq(S) /\ Len(s) \in Nat /\ Len(t) = Len(s) + 1 /\ DOMAIN s = 1 .. Len(s)
         /\ DOMAIN t = 1 .. Len(s) + 1
         /\ \A p \in 1 .. Len(s) : t[p] = s[p]
         /\ t[Len(s) + 1] = x
  <1> DEFINE w == <<x>>
             t == s \o w
  <1>1. w \in Seq(S) /\ Len(w) = 1 /\ w[1] = x
    BY SMT
  <1> HIDE DEF w
  <1>2. /\ t \in Seq(S) /\ Len(t) = Len(s) + Len(w)
        /\ \A i \in 1 .. Len(s) + Len(w) : t[i] = IF i <= Len(s) THEN s[i] ELSE w[i - Len(s)]
    BY <1>1, ConcatProperties, Zenon
  <1>3. Len(s) \in Nat /\ DOMAIN s = 1 .. Len(s) /\ DOMAIN t = 1 .. Len(t)
    BY <1>2, LenProperties, Zenon
  <1> HIDE DEF t
  <1>4. /\ Len(t) = Len(s) + 1 /\ \A p \in 1 .. Len(s) : t[p] = s[p]
        /\ t[Len(s) + 1] = x
    BY <1>1, <1>2, <1>3, SMT
  <1> QED
    BY <1>2, <1>3, <1>4, Zenon DEF t, w

LEMMA LastOf ==
  ASSUME NEW S, NEW s \in Seq(S), NEW x \in S
  PROVE  LET t == s \o <<x>> IN t # <<>> /\ t[Len(t)] = x /\ Front(t) = s
  <1> DEFINE t == s \o <<x>>
  <1>1. /\ t \in Seq(S) /\ Len(s) \in Nat /\ Len(t) = Len(s) + 1
        /\ \A p \in 1 .. Len(s) : t[p] = s[p]
        /\ t[Len(s) + 1] = x
    BY Appended DEF t
  <1> HIDE DEF t
  <1>2. t # <<>> /\ t[Len(t)] = x
    BY <1>1, SMT
  <1>3. Front(t) = SubSeq(t, 1, Len(s))
    BY <1>1, SMT DEF Front
  <1>4. \A i \in 1 .. Len(s) : t[i] \in S
    BY <1>1, ElementOfSeq, Zenon
  <1>5. /\ SubSeq(t, 1, Len(s)) \in Seq(S)
        /\ Len(SubSeq(t, 1, Len(s))) = IF 1 <= Len(s) THEN Len(s) - 1 + 1 ELSE 0
        /\ \A i \in 1 .. Len(s) - 1 + 1 : SubSeq(t, 1, Len(s))[i] = t[1 + i - 1]
    BY <1>1, <1>4, SubSeqProperties, SMT
  <1>6. Len(SubSeq(t, 1, Len(s))) = Len(s) /\ \A i \in 1 .. Len(s) : SubSeq(t, 1, Len(s))[i] = t[i]
    BY <1>1, <1>5, SMT
  <1>7. SubSeq(t, 1, Len(s)) = s
    BY <1>1, <1>5, <1>6, SeqEqual, Zenon
  <1> QED
    BY <1>2, <1>3, <1>7, Zenon DEF t

-----------------------------------------------------------------------------
(* A request that ends. *)

LEMMA RefusedWhole ==
  ASSUME busy, host.sound # "sketch", NEW e, Refuse(e), e \notin {"OK", "EBUSY"}, ~Sound'
  PROVE  ScoreInv'
  <1>1. ~busy' /\ channel' = NoChannel /\ host'.sound # "sketch" /\ status' \notin {"OK", "EBUSY"}
    BY Zenon DEF Refuse, LocalsEnd
  <1> QED
    BY <1>1, Zenon DEF ScoreInv, DecodedSoFar, ScoresPlayWhole

LEMMA PlayedWhole ==
  ASSUME busy, host.sound # "sketch", NEW r, Play(r), Sound', Repeats' = r,
         SubSeq(notes, 1, count) = Melody'
  PROVE  ScoreInv'
  <1>1. ~busy' /\ channel' = NoChannel
    BY Zenon DEF Play, LocalsEnd
  <1>2. CASE status' = "EBUSY" /\ UNCHANGED host
    BY <1>1, <1>2, Zenon DEF ScoreInv, DecodedSoFar, ScoresPlayWhole
  <1>3. ASSUME NEW t \in Tokens, status' = "OK",
               host' = [sound |-> "sketch", token |-> t, melody |-> SubSeq(notes, 1, count),
                        at |-> 1, repeat |-> r]
        PROVE  ScoreInv'
    <2>1. host'.melody = Melody' /\ host'.repeat = Repeats'
      BY <1>3, Zenon
    <2> QED
      BY <1>1, <1>3, <2>1, Zenon DEF ScoreInv, DecodedSoFar, ScoresPlayWhole
  <1> QED
    BY <1>2, <1>3, Zenon DEF Play

LEMMA SubmittedWhole ==
  ASSUME ToneInv, busy, Submit, Sound' <=> count > 0 /\ ~HeldInside, Repeats' = FALSE,
         count > 0 => SubSeq(notes, 1, count) = Melody'
  PROVE  ScoreInv'
  <1>1. host.sound # "sketch"
    BY Decoding, Zenon
  <1>2. CASE Refuse("EINVAL") /\ count = 0
    <2>1. ~(count > 0)
      BY <1>2, SMT
    <2> QED
      BY <1>1, <1>2, <2>1, RefusedWhole, Zenon
  <1>3. CASE Refuse("ENOTSUP") /\ HeldInside
    BY <1>1, <1>3, RefusedWhole, Zenon
  <1>4. CASE count > 0 /\ ~HeldInside /\ Play(FALSE)
    BY <1>1, <1>4, PlayedWhole, Zenon
  <1> QED
    BY <1>2, <1>3, <1>4, Zenon DEF Submit

\* What a kind of score says of the score.
LEMMA SaidOfPairs ==
  kind' = "pairs" =>
    (Sound' <=> PairsSound(score')) /\ Melody' = Pairs(score') /\ Repeats' = FALSE
  BY SMT DEF Sound, Melody, Repeats

LEMMA SaidOfScores ==
  kind' = "score" =>
    (Sound' <=> ScoreSound(score')) /\ Melody' = Pairs(Front(score')) /\ Repeats' = FALSE
  BY SMT DEF Sound, Melody, Repeats

LEMMA SaidOfLegacy ==
  kind' = "legacy" =>
    /\ Sound' <=> LegacySound(score)'
    /\ Melody' = LegacyNotes(score') /\ Repeats' = (score'[Len(score')].op = "repeat")
  BY SMT DEF Sound, Melody, Repeats

\* What is known of a request that goes on.
LEMMA PairsOn ==
  busy' /\ kind' \in {"pairs", "score"} /\ PairsRead(score)' => ScoreInv'
  BY SMT DEF ScoreInv, DecodedSoFar, ScoresPlayWhole

LEMMA LegacyOn ==
  busy' /\ kind' = "legacy" /\ LegacyRead(score)' => ScoreInv'
  BY SMT DEF ScoreInv, DecodedSoFar, ScoresPlayWhole

-----------------------------------------------------------------------------
(* The pairs of the first two formats. *)

LEMMA DecodeRange ==
  ASSUME DecodeOK
  PROVE  /\ MaxNotes \in Nat /\ count \in Nat /\ count <= MaxNotes
         /\ \A k \in 1 .. count : k \in 1 .. MaxNotes
  BY ToneAssumption, SMT DEF DecodeOK

LEMMA TwiceOf == ASSUME NEW c \in Nat PROVE (2 * c) \div 2 = c /\ (2 * c) % 2 = 0
  BY SMT

LEMMA PairIndex ==
  ASSUME NEW c \in Nat, NEW k \in 1 .. c
  PROVE  2 * k - 1 \in 1 .. 2 * c /\ 2 * k \in 1 .. 2 * c
  BY SMT

\* What is lent to the host is what was written, from the first note on.
LEMMA Lent ==
  ASSUME DecodeOK
  PROVE  SubSeq(notes, 1, count) = [k \in 1 .. count |-> notes[k]]
  <1>1. count \in Nat
    BY DecodeRange
  <1>2. SubSeq(notes, 1, count) = [k \in 1 .. count - 1 + 1 |-> notes[k + 1 - 1]]
    BY <1>1, SMT
  <1>3. count - 1 + 1 = count /\ \A k \in 1 .. count : k + 1 - 1 = k
    BY <1>1, SMT
  <1> QED
    BY <1>2, <1>3, Zenon

LEMMA DurationOf == \A f, d : [freq |-> f, dur |-> d].dur = d
  BY SMT

LEMMA PairsLent ==
  ASSUME DecodeOK, NEW s, PairsRead(s)
  PROVE  /\ PairsSound(s) <=> count > 0 /\ ~HeldInside
         /\ SubSeq(notes, 1, count) = Pairs(s)
  <1>1. /\ Len(s) = 2 * count /\ count \in Nat /\ count <= MaxNotes /\ MaxNotes \in Nat
        /\ \A k \in 1 .. count : s[2 * k - 1] \notin {End, Repeat} /\ notes[k] = Pairs(s)[k]
    BY DecodeRange DEF PairsRead
  <1>2. Len(s) \div 2 = count /\ Len(s) % 2 = 0
    BY <1>1, TwiceOf
  <1>3. Pairs(s) = [k \in 1 .. count |-> [freq |-> Frequency(s[2 * k - 1]), dur |-> s[2 * k]]]
    BY <1>2, Zenon DEF Pairs
  <1>4. SubSeq(notes, 1, count) = Pairs(s)
    <2>1. [k \in 1 .. count |-> notes[k]]
            = [k \in 1 .. count |-> [freq |-> Frequency(s[2 * k - 1]), dur |-> s[2 * k]]]
      BY <1>1, <1>3, Zenon
    <2> QED
      BY <1>3, <2>1, Lent, Zenon
  <1>5. \A k \in 1 .. count : notes[k].dur = s[2 * k]
    <2>1. \A k \in 1 .. count : notes[k] = [freq |-> Frequency(s[2 * k - 1]), dur |-> s[2 * k]]
      BY <1>1, <1>3, Zenon
    <2>2. ASSUME NEW k \in 1 .. count PROVE notes[k].dur = s[2 * k]
      <3>1. notes[k] = [freq |-> Frequency(s[2 * k - 1]), dur |-> s[2 * k]]
        BY <2>1
      <3> QED
        BY <3>1, DurationOf
    <2> QED
      BY <2>2
  <1>6. count \in 1 .. MaxNotes <=> count > 0
    BY <1>1, SMT
  <1>7. HeldInside <=> \E k \in 1 .. count : k < count /\ s[2 * k] = 0
    <2>1. \A k : k \in 1 .. count - 1 <=> k \in 1 .. count /\ k < count
      BY <1>1, SMT
    <2> QED
      BY <1>5, <2>1, Zenon DEF HeldInside
  <1> QED
    BY <1>1, <1>2, <1>4, <1>6, <1>7, Zenon DEF PairsSound

LEMMA TwoAppended ==
  ASSUME NEW S, NEW s \in Seq(S), NEW x \in S, NEW y \in S
  PROVE  LET t == s \o <<x, y>> IN
         /\ t \in Seq(S) /\ Len(s) \in Nat /\ Len(t) = Len(s) + 2
         /\ \A p \in 1 .. Len(s) : t[p] = s[p]
         /\ t[Len(s) + 1] = x /\ t[Len(s) + 2] = y
  <1> DEFINE w == <<x, y>>
             t == s \o w
  <1>1. w \in Seq(S) /\ Len(w) = 2 /\ w[1] = x /\ w[2] = y
    BY SMT
  <1> HIDE DEF w
  <1>2. /\ t \in Seq(S) /\ Len(t) = Len(s) + Len(w)
        /\ \A i \in 1 .. Len(s) + Len(w) : t[i] = IF i <= Len(s) THEN s[i] ELSE w[i - Len(s)]
    BY <1>1, ConcatProperties, Zenon
  <1>3. Len(s) \in Nat
    BY LenProperties, Zenon
  <1> HIDE DEF t
  <1>4. /\ Len(t) = Len(s) + 2 /\ \A p \in 1 .. Len(s) : t[p] = s[p]
        /\ t[Len(s) + 1] = x /\ t[Len(s) + 2] = y
    BY <1>1, <1>2, <1>3, SMT
  <1> QED
    BY <1>2, <1>3, <1>4, Zenon DEF t, w

LEMMA WordsAreNat == Words \subseteq Nat /\ Durations \subseteq Nat
  BY ToneAssumption, SMT

\* A pair is read and its note put behind the others.
LEMMA PairsReadMore ==
  ASSUME DecodeOK, PairsRead(score), count < MaxNotes, NEW f \in Words \ {End, Repeat},
         NEW d \in Durations, Read(<<f, d>>), PutNote(Frequency(f), d)
  PROVE  PairsRead(score)'
  <1> DEFINE s == score
             t == score'
             c == count
             n == [freq |-> Frequency(f), dur |-> d]
  <1>1. c \in Nat /\ MaxNotes \in Nat /\ f \in Nat /\ d \in Nat
    BY DecodeRange, WordsAreNat
  <1>2. count' = c + 1 /\ notes' = [notes EXCEPT ![c + 1] = n] /\ t = s \o <<f, d>>
    BY Zenon DEF PutNote, Read
  <1>3. /\ s \in Seq(Nat) /\ Len(s) = 2 * c
        /\ \A k \in 1 .. c : s[2 * k - 1] \notin {End, Repeat} /\ notes[k] = Pairs(s)[k]
    BY Zenon DEF PairsRead
  <1>4. /\ t \in Seq(Nat) /\ Len(t) = Len(s) + 2
        /\ \A p \in 1 .. Len(s) : t[p] = s[p]
        /\ t[Len(s) + 1] = f /\ t[Len(s) + 2] = d
    <2> HIDE DEF s, t, c
    <2>1. t = s \o <<f, d>> /\ s \in Seq(Nat) /\ f \in Nat /\ d \in Nat
      BY <1>1, <1>2, <1>3
    <2> QED
      BY <2>1, TwoAppended
  <1>5. notes \in [1 .. MaxNotes -> Note]
    BY Zenon DEF DecodeOK
  <1> HIDE DEF s, t, c, n
  <1>6. Len(t) = 2 * (c + 1) /\ 2 * (c + 1) - 1 = Len(s) + 1 /\ 2 * (c + 1) = Len(s) + 2
    BY <1>1, <1>3, <1>4, SMT
  <1>7. Len(s) \div 2 = c /\ Len(t) \div 2 = c + 1
    BY <1>1, <1>3, <1>6, TwiceOf, SMT
  <1>8. /\ Pairs(s) = [k \in 1 .. c |-> [freq |-> Frequency(s[2 * k - 1]), dur |-> s[2 * k]]]
        /\ Pairs(t) = [k \in 1 .. c + 1 |-> [freq |-> Frequency(t[2 * k - 1]), dur |-> t[2 * k]]]
    BY <1>7, Zenon DEF Pairs
  <1>9. \A k \in 1 .. c : t[2 * k - 1] = s[2 * k - 1] /\ t[2 * k] = s[2 * k]
    BY <1>1, <1>3, <1>4, PairIndex, Zenon
  <1>10. \A k \in 1 .. c : /\ k \in 1 .. c + 1 /\ k # c + 1 /\ k \in 1 .. MaxNotes
    BY <1>1, DecodeRange, SMT DEF c
  <1>11. c + 1 \in 1 .. c + 1 /\ c + 1 \in 1 .. MaxNotes
    BY <1>1, SMT DEF c
  <1>12. \A k \in 1 .. c + 1 : k = c + 1 \/ k \in 1 .. c
    BY <1>1, SMT
  <1>13. \A k \in 1 .. c : notes'[k] = notes[k] /\ Pairs(t)[k] = Pairs(s)[k]
    <2>1. \A k \in 1 .. c : notes'[k] = notes[k]
      BY <1>2, <1>5, <1>10, Zenon
    <2>2. \A k \in 1 .. c : Pairs(t)[k] = [freq |-> Frequency(t[2 * k - 1]), dur |-> t[2 * k]]
      BY <1>8, <1>10, Zenon
    <2>3. \A k \in 1 .. c : Pairs(s)[k] = [freq |-> Frequency(s[2 * k - 1]), dur |-> s[2 * k]]
      BY <1>8, Zenon
    <2> QED
      BY <1>9, <2>1, <2>2, <2>3, Zenon
  <1>14. t[2 * (c + 1) - 1] = f /\ t[2 * (c + 1)] = d
    BY <1>4, <1>6, Zenon
  <1>15. notes'[c + 1] = n
    BY <1>2, <1>5, <1>11, Zenon
  <1>16. Pairs(t)[c + 1] = n
    BY <1>8, <1>11, <1>14, Zenon DEF n
  <1>17. \A k \in 1 .. c + 1 : t[2 * k - 1] \notin {End, Repeat} /\ notes'[k] = Pairs(t)[k]
    BY <1>3, <1>9, <1>12, <1>13, <1>14, <1>15, <1>16, Zenon
  <1> QED
    BY <1>2, <1>4, <1>6, <1>17, Zenon DEF PairsRead, t, c

\* What has an odd word, or no end mark behind its pairs, is no score.
LEMMA OddIsUnsound ==
  ASSUME DecodeOK, PairsRead(score), NEW f \in Nat
  PROVE  ~PairsSound(score \o <<f>>)
  <1>1. Len(score \o <<f>>) = 2 * count + 1 /\ count \in Nat
    BY DecodeRange, Appended DEF PairsRead
  <1>2. (2 * count + 1) % 2 # 0
    BY <1>1, SMT
  <1> QED
    BY <1>1, <1>2, Zenon DEF PairsSound

LEMMA UnendedIsUnsound ==
  ASSUME DecodeOK, PairsRead(score)
  PROVE  ~ScoreSound(score)
  <1>1. score \in Seq(Nat) /\ Len(score) = 2 * count /\ count \in Nat
    BY DecodeRange DEF PairsRead
  <1>2. ASSUME count = 0 PROVE score = <<>>
    <2>1. Len(score) = 0
      BY <1>1, <1>2, SMT
    <2> QED
      BY <1>1, <2>1, EmptySeq
  <1>3. ASSUME count # 0 PROVE Len(Front(score)) % 2 = 1
    <2>1. Len(Front(score)) = 2 * count - 1
      <3>1. \A i \in 1 .. Len(score) - 1 : score[i] \in Nat
        BY <1>1, <1>3, ElementOfSeq, SMT
      <3>2. Len(SubSeq(score, 1, Len(score) - 1)) = IF 1 <= Len(score) - 1 THEN Len(score) - 1 - 1 + 1 ELSE 0
        BY <1>1, <3>1, SubSeqProperties, SMT
      <3> QED
        BY <1>1, <1>3, <3>2, SMT DEF Front
    <2>2. (2 * count - 1) % 2 = 1
      BY <1>1, <1>3, SMT
    <2> QED
      BY <2>1, <2>2
  <1> QED
    BY <1>2, <1>3, SMT DEF ScoreSound, PairsSound
-----------------------------------------------------------------------------
(* The steps of the first two formats. *)

LEMMA PairScore == ASSUME ToneInv, ScoreInv, Pair PROVE ScoreInv'
  <1>1. busy /\ kind = "pairs" /\ kind' = kind /\ left > 0 /\ DecodeOK /\ host.sound # "sketch"
    BY Decoding, Zenon DEF Pair, ToneInv, ToneTypeOK
  <1>2. PairsRead(score)
    BY <1>1, SMT DEF ScoreInv, DecodedSoFar
  <1>3. PICK f \in Words :
          \/ Read(<<f>>) /\ Refuse("ENOTSUP")
          \/ f \notin {End, Repeat} /\ \E d \in Durations : Read(<<f, d>>) /\ PutNote(Frequency(f), d)
    BY Zenon DEF Pair
  <1>4. CASE Read(<<f>>) /\ Refuse("ENOTSUP")
    <2>1. ~PairsSound(score')
      BY <1>1, <1>2, <1>4, OddIsUnsound, WordsAreNat, Zenon DEF Read
    <2>2. ~Sound'
      BY <1>1, <2>1, SaidOfPairs, Zenon
    <2> QED
      BY <1>1, <1>4, <2>2, RefusedWhole, Zenon
  <1>5. ASSUME f \notin {End, Repeat}, NEW d \in Durations, Read(<<f, d>>), PutNote(Frequency(f), d)
        PROVE  ScoreInv'
    <2>1. count < MaxNotes
      BY <1>1, ToneAssumption, SMT DEF DecodeOK
    <2>2. PairsRead(score)'
      BY <1>1, <1>2, <1>5, <2>1, PairsReadMore, Zenon
    <2>3. busy' /\ kind' = "pairs"
      BY <1>1, <1>5, Zenon DEF PutNote
    <2> QED
      BY <2>2, <2>3, PairsOn, Zenon
  <1> QED
    BY <1>3, <1>4, <1>5, Zenon

LEMMA PairsEndScore == ASSUME ToneInv, ScoreInv, PairsEnd PROVE ScoreInv'
  <1>1. busy /\ kind = "pairs" /\ kind' = "pairs" /\ DecodeOK /\ Submit /\ score' = score
    BY Zenon DEF PairsEnd, ToneInv, ToneTypeOK
  <1>2. PairsRead(score)
    BY <1>1, SMT DEF ScoreInv, DecodedSoFar
  <1>3. (Sound' <=> PairsSound(score')) /\ Melody' = Pairs(score') /\ Repeats' = FALSE
    BY <1>1, SaidOfPairs, Zenon
  <1>4. (Sound' <=> count > 0 /\ ~HeldInside) /\ SubSeq(notes, 1, count) = Melody'
    BY <1>1, <1>2, <1>3, PairsLent, Zenon
  <1> QED
    BY <1>1, <1>3, <1>4, SubmittedWhole, Zenon

LEMMA ScoreSpanEndsScore == ASSUME ToneInv, ScoreInv, ScoreSpanEnds PROVE ScoreInv'
  <1>1. /\ busy /\ kind = "score" /\ kind' = "score" /\ DecodeOK /\ score' = score
        /\ Refuse("EINVAL") /\ host.sound # "sketch"
    BY Decoding, Zenon DEF ScoreSpanEnds, Unterminated, ToneInv, ToneTypeOK
  <1>2. PairsRead(score)
    BY <1>1, SMT DEF ScoreInv, DecodedSoFar
  <1>3. ~ScoreSound(score')
    BY <1>1, <1>2, UnendedIsUnsound, Zenon
  <1>4. ~Sound'
    BY <1>1, <1>3, SaidOfScores, Zenon
  <1> QED
    BY <1>1, <1>4, RefusedWhole, Zenon

\* A word that is no end mark ends no sound score.
LEMMA NotAnEnd ==
  ASSUME PairsRead(score), NEW f \in Words, f # End
  PROVE  ~ScoreSound(score \o <<f>>)
  <1>1. f \in Nat /\ score \in Seq(Nat)
    BY WordsAreNat, Zenon DEF PairsRead
  <1>2. (score \o <<f>>)[Len(score \o <<f>>)] = f
    BY <1>1, LastOf, Zenon
  <1> QED
    BY <1>2, Zenon DEF ScoreSound

LEMMA EndSound ==
  ASSUME PairsRead(score), End \in Words
  PROVE  (ScoreSound(score \o <<End>>) <=> PairsSound(score)) /\ Front(score \o <<End>>) = score
  <1>1. End \in Nat /\ score \in Seq(Nat)
    BY WordsAreNat, Zenon DEF PairsRead
  <1>2. /\ (score \o <<End>>)[Len(score \o <<End>>)] = End /\ score \o <<End>> # <<>>
        /\ Front(score \o <<End>>) = score
    BY <1>1, LastOf, Zenon
  <1> QED
    BY <1>2, Zenon DEF ScoreSound

LEMMA ScoreWordScore == ASSUME ToneInv, ScoreInv, ScoreWord PROVE ScoreInv'
  <1>1. busy /\ kind = "score" /\ kind' = kind /\ DecodeOK /\ host.sound # "sketch"
    BY Decoding, Zenon DEF ScoreWord, ToneInv, ToneTypeOK
  <1>2. PairsRead(score)
    BY <1>1, SMT DEF ScoreInv, DecodedSoFar
  <1>3. End # Repeat
    BY ToneAssumption, SMT DEF End, Repeat
  <1>4. PICK f \in Words :
          \/ f = End /\ Read(<<f>>) /\ Submit
          \/ f # End /\ Read(<<f>>) /\ \E e \in {"ENOTSUP", "E2BIG", "EINVAL"} : Refuse(e)
          \/ f \notin {End, Repeat} /\ ~Full /\ \E d \in Durations :
               Read(<<f, d>>) /\ PutNote(Frequency(f), d)
    BY <1>3, Zenon DEF ScoreWord
  <1>5. CASE f = End /\ Read(<<f>>) /\ Submit
    <2>1. score' = score \o <<End>> /\ End \in Words
      BY <1>5, Zenon DEF Read
    <2>2. (Sound' <=> ScoreSound(score')) /\ Melody' = Pairs(Front(score')) /\ Repeats' = FALSE
      BY <1>1, SaidOfScores, Zenon
    <2>3. (Sound' <=> count > 0 /\ ~HeldInside) /\ SubSeq(notes, 1, count) = Melody'
      BY <1>1, <1>2, <2>1, <2>2, EndSound, PairsLent, Zenon
    <2> QED
      BY <1>1, <1>5, <2>2, <2>3, SubmittedWhole, Zenon
  <1>6. ASSUME f # End, Read(<<f>>), NEW e \in {"ENOTSUP", "E2BIG", "EINVAL"}, Refuse(e)
        PROVE  ScoreInv'
    <2>1. ~ScoreSound(score')
      BY <1>2, <1>6, NotAnEnd, Zenon DEF Read
    <2>2. ~Sound'
      BY <1>1, <2>1, SaidOfScores, Zenon
    <2> QED
      BY <1>1, <1>6, <2>2, RefusedWhole, Zenon
  <1>7. ASSUME f \notin {End, Repeat}, ~Full, NEW d \in Durations, Read(<<f, d>>),
               PutNote(Frequency(f), d)
        PROVE  ScoreInv'
    <2>1. count < MaxNotes
      BY <1>1, <1>7, DecodeRange, SMT DEF Full
    <2>2. PairsRead(score)'
      BY <1>1, <1>2, <1>7, <2>1, PairsReadMore, Zenon
    <2>3. busy' /\ kind' = "score"
      BY <1>1, <1>7, Zenon DEF PutNote
    <2> QED
      BY <2>2, <2>3, PairsOn, Zenon
  <1> QED
    BY <1>4, <1>5, <1>6, <1>7, Zenon
-----------------------------------------------------------------------------
(* A legacy score, command by command. *)

LEMMA WaitsFinite ==
  ASSUME NEW s \in Seq(Commands)
  PROVE  /\ IsFiniteSet(Waits(s)) /\ Cardinality(Waits(s)) \in Nat
         /\ Waits(s) \subseteq 1 .. Len(s) /\ Len(s) \in Nat
  <1>1. Len(s) \in Nat /\ DOMAIN s = 1 .. Len(s)
    BY LenProperties, Zenon
  <1>2. Waits(s) \in SUBSET (1 .. Len(s))
    BY <1>1, Zenon DEF Waits
  <1>3. IsFiniteSet(1 .. Len(s))
    BY <1>1, FS_Interval, SMT
  <1>4. IsFiniteSet(Waits(s))
    BY <1>2, <1>3, FS_Subset, Zenon
  <1> QED
    BY <1>1, <1>2, <1>4, FS_CardinalityType, Zenon

\* A set of numbers has a least one, one that is bounded a last one.
LEMMA LeastOf ==
  ASSUME NEW T \in SUBSET Nat, T # {}
  PROVE  \E x \in T : \A y \in T : x <= y
  <1>1. IsWellFoundedOn(OpToRel(<, Nat), Nat)
    BY NatLessThanWellFounded
  <1>2. \E x \in T : \A y \in T : ~(<<y, x>> \in OpToRel(<, Nat))
    BY <1>1, WFMin
  <1>3. PICK x \in T : \A y \in T : ~(<<y, x>> \in OpToRel(<, Nat))
    BY <1>2
  <1>4. \A y \in T : ~(y < x)
    BY <1>3 DEF OpToRel
  <1> QED
    BY <1>4, SMT

LEMMA LastOfSet ==
  ASSUME NEW n \in Nat, NEW A \in SUBSET (1 .. n), A # {}
  PROVE  \E q \in A : \A r \in A : r <= q
  <1> DEFINE T == {m \in Nat : n - m \in A}
  <1>1. T # {}
    <2>1. PICK a \in A : TRUE
      OBVIOUS
    <2>2. n - a \in Nat /\ n - (n - a) = a
      BY SMT
    <2> QED
      BY <2>1, <2>2
  <1>2. T \in SUBSET Nat
    OBVIOUS
  <1> HIDE DEF T
  <1>3. PICK m \in T : \A k \in T : m <= k
    BY <1>1, <1>2, LeastOf
  <1>4. n - m \in A /\ m \in Nat
    BY DEF T
  <1>5. ASSUME NEW r \in A PROVE r <= n - m
    <2>1. r \in 1 .. n /\ n - r \in Nat /\ n - (n - r) = r
      BY SMT
    <2>2. n - r \in T
      BY <2>1 DEF T
    <2>3. m <= n - r
      BY <1>3, <2>2
    <2> QED
      BY <1>4, <2>1, <2>3, SMT
  <1> QED
    BY <1>4, <1>5

\* The commands that set what channel c sounds, up to position n.
NotesOf(s, c, n) == {q \in 1 .. n : s[q].op \in {"on", "off"} /\ s[q].channel = c}
IsLastOf(A, q) == q \in A /\ \A r \in A : r <= q

LEMMA LastNote ==
  ASSUME NEW s, NEW c, NEW n \in Nat, NEW q, IsLastOf(NotesOf(s, c, n), q)
  PROVE  Sounding(s, c, n) = s[q].value
  <1> DEFINE A == NotesOf(s, c, n)
  <1>1. A \subseteq 1 .. n
    BY Zenon DEF NotesOf
  <1>2. Sounding(s, c, n) = IF A = {} THEN 0 ELSE s[CHOOSE m \in A : \A r \in A : r <= m].value
    BY Zenon DEF Sounding, NotesOf
  <1> HIDE DEF A
  <1>3. IsLastOf(A, q)
    BY DEF A
  <1>4. \A m \in A : (\A r \in A : r <= m) => m = q
    BY <1>1, <1>3, SMT DEF IsLastOf
  <1>5. (CHOOSE m \in A : \A r \in A : r <= m) = q
    BY <1>3, <1>4, Zenon DEF IsLastOf
  <1> QED
    BY <1>2, <1>3, <1>5, Zenon DEF IsLastOf

LEMMA NoNote ==
  ASSUME NEW s, NEW c, NEW n \in Nat, NotesOf(s, c, n) = {}
  PROVE  Sounding(s, c, n) = 0
  BY Zenon DEF Sounding, NotesOf

LEMMA HasLast ==
  ASSUME NEW s, NEW c, NEW n \in Nat, NotesOf(s, c, n) # {}
  PROVE  \E q \in 1 .. n : IsLastOf(NotesOf(s, c, n), q)
  <1>1. NotesOf(s, c, n) \in SUBSET (1 .. n)
    BY Zenon DEF NotesOf
  <1> QED
    BY <1>1, LastOfSet, Zenon DEF IsLastOf

\* What sounds at a position is what was read up to it.
LEMMA SoundingStays ==
  ASSUME NEW s, NEW t, NEW n \in Nat, \A q \in 1 .. n : t[q] = s[q], NEW c
  PROVE  Sounding(t, c, n) = Sounding(s, c, n)
  <1>1. NotesOf(t, c, n) = NotesOf(s, c, n)
    BY Zenon DEF NotesOf
  <1>2. CASE NotesOf(s, c, n) = {}
    BY <1>1, <1>2, NoNote, Zenon
  <1>3. CASE NotesOf(s, c, n) # {}
    <2>1. PICK q \in 1 .. n : IsLastOf(NotesOf(s, c, n), q)
      BY <1>3, HasLast, Zenon
    <2>2. Sounding(s, c, n) = s[q].value
      BY <2>1, LastNote
    <2>3. IsLastOf(NotesOf(t, c, n), q)
      BY <1>1, <2>1, Zenon
    <2>4. Sounding(t, c, n) = t[q].value
      BY <2>3, LastNote
    <2> QED
      BY <2>1, <2>2, <2>4, Zenon
  <1> QED
    BY <1>2, <1>3

LEMMA SoundingNext ==
  ASSUME NEW s \in Seq(Commands), NEW x \in Commands, NEW c \in 0 .. 1
  PROVE  LET t == s \o <<x>> IN
         Sounding(t, c, Len(t)) =
           IF x.op \in {"on", "off"} /\ x.channel = c THEN x.value ELSE Sounding(s, c, Len(s))
  <1> DEFINE t == s \o <<x>>
             n == Len(s)
  <1>1. /\ n \in Nat /\ Len(t) = n + 1
        /\ \A q \in 1 .. n : t[q] = s[q]
        /\ t[n + 1] = x
    BY Appended DEF t, n
  <1> HIDE DEF t, n
  <1>2. /\ n + 1 \in Nat /\ \A q : q \in 1 .. n + 1 <=> q \in 1 .. n \/ q = n + 1
        /\ \A q \in 1 .. n + 1 : q <= n + 1
    BY <1>1, SMT
  <1>3. CASE x.op \in {"on", "off"} /\ x.channel = c
    <2>1. n + 1 \in NotesOf(t, c, n + 1) /\ NotesOf(t, c, n + 1) \subseteq 1 .. n + 1
      BY <1>1, <1>2, <1>3, Zenon DEF NotesOf
    <2>2. IsLastOf(NotesOf(t, c, n + 1), n + 1)
      BY <1>2, <2>1, Zenon DEF IsLastOf
    <2>3. Sounding(t, c, n + 1) = t[n + 1].value
      BY <1>2, <2>2, LastNote
    <2> QED
      BY <1>1, <1>3, <2>3, Zenon DEF t, n
  <1>4. CASE ~(x.op \in {"on", "off"} /\ x.channel = c)
    <2>1. NotesOf(t, c, n + 1) = NotesOf(s, c, n)
      BY <1>1, <1>2, <1>4, Zenon DEF NotesOf
    <2>2. Sounding(t, c, n + 1) = Sounding(s, c, n)
      <3>1. CASE NotesOf(s, c, n) = {}
        BY <1>1, <1>2, <2>1, <3>1, NoNote, Zenon
      <3>2. CASE NotesOf(s, c, n) # {}
        <4>1. PICK q \in 1 .. n : IsLastOf(NotesOf(s, c, n), q)
          BY <1>1, <3>2, HasLast, Zenon
        <4>2. Sounding(s, c, n) = s[q].value
          BY <1>1, <4>1, LastNote
        <4>3. IsLastOf(NotesOf(t, c, n + 1), q)
          BY <2>1, <4>1, Zenon
        <4>4. Sounding(t, c, n + 1) = t[q].value
          BY <1>2, <4>3, LastNote
        <4> QED
          BY <1>1, <4>1, <4>2, <4>4, Zenon
      <3> QED
        BY <3>1, <3>2
    <2> QED
      BY <1>1, <1>4, <2>2 DEF t, n
  <1> QED
    BY <1>3, <1>4

LEMMA NoteStays ==
  ASSUME NEW s \in Seq(Commands), NEW x \in Commands, NEW p \in 1 .. Len(s)
  PROVE  NoteAt(s \o <<x>>, p) = NoteAt(s, p)
  <1> DEFINE t == s \o <<x>>
  <1>1. Len(s) \in Nat /\ \A q \in 1 .. Len(s) : t[q] = s[q]
    BY Appended DEF t
  <1> HIDE DEF t
  <1>2. p \in Nat /\ \A q \in 1 .. p : t[q] = s[q]
    BY <1>1, SMT
  <1>3. t[p] = s[p] /\ Sounding(t, 0, p) = Sounding(s, 0, p) /\ Sounding(t, 1, p) = Sounding(s, 1, p)
    <2>1. t[p] = s[p]
      BY <1>1, Zenon
    <2>2. \A c : Sounding(t, c, p) = Sounding(s, c, p)
      BY <1>2, SoundingStays, Zenon
    <2> QED
      BY <2>1, <2>2, Zenon
  <1>4. NoteAt(t, p) = NoteAt(s, p)
    BY <1>3, Zenon DEF NoteAt
  <1> QED
    BY <1>4 DEF t

LEMMA WaitsNext ==
  ASSUME NEW s \in Seq(Commands), NEW x \in Commands
  PROVE  LET t == s \o <<x>> IN
         /\ Waits(t) = IF x.op = "wait" THEN Waits(s) \cup {Len(s) + 1} ELSE Waits(s)
         /\ \A p \in Waits(s) : Rank(t, p) = Rank(s, p)
         /\ Len(s) + 1 \notin Waits(s)
         /\ x.op = "wait" => Rank(t, Len(s) + 1) = Cardinality(Waits(s)) + 1
  <1> DEFINE t == s \o <<x>>
  <1>1. /\ Len(s) \in Nat /\ DOMAIN s = 1 .. Len(s) /\ DOMAIN t = 1 .. Len(s) + 1
        /\ \A q \in 1 .. Len(s) : t[q] = s[q]
        /\ t[Len(s) + 1] = x
    BY Appended DEF t
  <1> HIDE DEF t
  <1>2. \A q : q \in 1 .. Len(s) + 1 <=> q \in 1 .. Len(s) \/ q = Len(s) + 1
    BY <1>1, SMT
  <1>3. Len(s) + 1 \notin 1 .. Len(s) /\ \A p \in 1 .. Len(s) : ~(Len(s) + 1 <= p)
    BY <1>1, SMT
  <1>4. Waits(t) = IF x.op = "wait" THEN Waits(s) \cup {Len(s) + 1} ELSE Waits(s)
    <2>1. \A q : q \in Waits(t) <=> (q \in 1 .. Len(s) /\ s[q].op = "wait") \/ (q = Len(s) + 1 /\ x.op = "wait")
      BY <1>1, <1>2, <1>3, Zenon DEF Waits
    <2>2. \A q : q \in Waits(s) <=> q \in 1 .. Len(s) /\ s[q].op = "wait"
      BY <1>1, Zenon DEF Waits
    <2> QED
      BY <2>1, <2>2, Zenon
  <1>5. Waits(s) \subseteq 1 .. Len(s) /\ IsFiniteSet(Waits(s))
    BY WaitsFinite, Zenon
  <1>6. ASSUME NEW p \in Waits(s) PROVE Rank(t, p) = Rank(s, p)
    <2>1. {q \in Waits(t) : q <= p} = {q \in Waits(s) : q <= p}
      BY <1>3, <1>4, <1>5, Zenon
    <2> QED
      BY <2>1, Zenon DEF Rank
  <1>7. ASSUME x.op = "wait" PROVE Rank(t, Len(s) + 1) = Cardinality(Waits(s)) + 1
    <2>1. \A q \in 1 .. Len(s) : q <= Len(s) + 1
      BY <1>1, SMT
    <2>2. Len(s) + 1 <= Len(s) + 1
      BY <1>1, SMT
    <2>3. {q \in Waits(t) : q <= Len(s) + 1} = Waits(s) \cup {Len(s) + 1}
      BY <1>4, <1>5, <1>7, <2>1, <2>2, Zenon
    <2>4. Cardinality(Waits(s) \cup {Len(s) + 1}) = Cardinality(Waits(s)) + 1
      BY <1>3, <1>5, FS_AddElement, Zenon
    <2> QED
      BY <2>3, <2>4, Zenon DEF Rank
  <1> QED
    BY <1>3, <1>4, <1>5, <1>6, <1>7, Zenon DEF t

LEMMA NothingRead ==
  /\ <<>> \in Seq(Commands) /\ DOMAIN <<>> = {} /\ Waits(<<>>) = {} /\ Cardinality(Waits(<<>>)) = 0
  /\ \A k \in 1 .. 0 : FALSE
  /\ \A c \in 0 .. 1 : NoChannel[c] = Sounding(<<>>, c, Len(<<>>))
  <1>1. <<>> \in Seq(Commands) /\ DOMAIN <<>> = {} /\ \A k \in 1 .. 0 : FALSE
    BY SMT
  <1>2. Waits(<<>>) = {} /\ Cardinality(Waits(<<>>)) = 0
    BY <1>1, FS_EmptySet, Zenon DEF Waits
  <1>3. Len(<<>>) = 0 /\ \A c \in 0 .. 1 : NoChannel[c] = 0
    BY SMT DEF NoChannel
  <1>4. \A c \in 0 .. 1 : Sounding(<<>>, c, 0) = 0
    BY <1>1, Zenon DEF Sounding
  <1> QED
    BY <1>1, <1>2, <1>3, <1>4, Zenon

LEMMA RequestScore ==
  ASSUME ToneInv, ScoreInv, NEW k \in {"pairs", "score", "legacy"}, NEW n, Request(k, n)
  PROVE  ScoreInv'
  <1>1. busy' /\ kind' = k /\ score' = <<>> /\ count' = 0 /\ channel' = NoChannel
    BY Zenon DEF Request, ToneInv, Requesting, ScoreInv, DecodedSoFar
  <1>2. PairsRead(score)'
    <2>1. <<>> \in Seq(Nat) /\ Len(<<>>) = 2 * 0 /\ \A i \in 1 .. 0 : FALSE
      BY SMT
    <2> QED
      BY <1>1, <2>1, Zenon DEF PairsRead
  <1>3. LegacyRead(score)'
    BY <1>1, NothingRead, Zenon DEF LegacyRead, CommandsRead, ChannelsRead, WaitsRead
  <1> QED
    BY <1>1, <1>2, <1>3, PairsOn, LegacyOn, Zenon


LEMMA CommandIs ==
  ASSUME NEW o \in {"on", "off", "wait", "end", "repeat", "other"}, NEW c \in 0 .. 1, NEW v \in Nat
  PROVE  /\ Command(o, c, v) \in Commands
         /\ Command(o, c, v).op = o /\ Command(o, c, v).channel = c /\ Command(o, c, v).value = v
  BY SMT DEF Command, Commands

LEMMA CommandHas ==
  ASSUME NEW x \in Commands
  PROVE  x.op \in {"on", "off", "wait", "end", "repeat", "other"} /\ x.channel \in 0 .. 1 /\ x.value \in Nat
  BY SMT DEF Commands

\* A command that is no end ends no sound score, nor does nothing.
LEMMA NotEnded ==
  ASSUME NEW s \in Seq(Commands), NEW x \in Commands, x.op \notin {"end", "repeat"}
  PROVE  ~LegacySound(s \o <<x>>)
  <1>1. (s \o <<x>>)[Len(s \o <<x>>)] = x
    BY LastOf, Zenon
  <1> QED
    BY <1>1, Zenon DEF LegacySound

LEMMA NeverEnded == ASSUME LegacyRead(score) PROVE ~LegacySound(score)
  <1>1. score \in Seq(Commands) /\ \A p \in DOMAIN score : Decodable(score[p])
    BY Zenon DEF LegacyRead, CommandsRead
  <1>2. CASE score = <<>>
    BY <1>2, Zenon DEF LegacySound
  <1>3. CASE score # <<>>
    <2>1. Len(score) \in DOMAIN score
      <3>1. Len(score) \in Nat \ {0} /\ DOMAIN score = 1 .. Len(score)
        BY <1>1, <1>3, EmptySeq, LenProperties, Zenon
      <3> QED
        BY <3>1, SMT
    <2>2. score[Len(score)].op \in {"on", "off", "wait"}
      BY <1>1, <2>1, Zenon DEF Decodable
    <2> QED
      BY <2>2, Zenon DEF LegacySound
  <1> QED
    BY <1>2, <1>3

\* The notes lent to the host are those of the whole score.
LEMMA LegacyLent ==
  ASSUME DecodeOK, LegacyRead(score), NEW x \in Commands, x.op \in {"end", "repeat"}
  PROVE  LET t == score \o <<x>> IN
         /\ LegacySound(t) <=> count > 0
         /\ SubSeq(notes, 1, count) = LegacyNotes(t)
         /\ t[Len(t)].op = x.op
         /\ ~HeldInside
  <1> DEFINE s == score
             t == s \o <<x>>
             W == Waits(s)
  <1>1. /\ s \in Seq(Commands) /\ \A p \in 1 .. Len(s) : Decodable(s[p])
        /\ Cardinality(W) = count /\ count \in Nat /\ count <= MaxNotes
        /\ \A k \in 1 .. count : \E p \in W : Rank(s, p) = k
        /\ \A p \in W : notes[Rank(s, p)] = NoteAt(s, p)
    <2>1. score \in Seq(Commands)
      BY Zenon DEF LegacyRead, CommandsRead
    <2>2. DOMAIN score = 1 .. Len(score)
      BY <2>1, LenProperties, Zenon
    <2>3. count \in Nat /\ count <= MaxNotes
      BY DecodeRange
    <2> QED
      BY <2>1, <2>2, <2>3, Zenon DEF LegacyRead, CommandsRead, WaitsRead
  <1>2. /\ Len(s) \in Nat /\ Len(t) = Len(s) + 1 /\ \A p \in 1 .. Len(s) : t[p] = s[p]
        /\ t # <<>> /\ t[Len(t)] = x
    BY <1>1, Appended, LastOf
  <1>3. Waits(t) = W /\ \A p \in W : Rank(t, p) = Rank(s, p)
    BY <1>1, WaitsNext, Zenon
  <1>4. /\ IsFiniteSet(W) /\ W \subseteq 1 .. Len(s)
        /\ \A p \in W : s[p].op = "wait"
    BY <1>1, WaitsFinite, Zenon DEF Waits
  <1>5. \A p \in W : NoteAt(t, p) = NoteAt(s, p)
    BY <1>1, <1>4, NoteStays, Zenon
  <1> HIDE DEF s, t, W
  <1>6. ASSUME NEW k \in 1 .. count
        PROVE  notes[k] = NoteAt(t, CHOOSE p \in Waits(t) : Rank(t, p) = k)
    <2>1. \E p \in Waits(t) : Rank(t, p) = k
      BY <1>1, <1>3, Zenon
    <2>2. PICK q : q = CHOOSE p \in Waits(t) : Rank(t, p) = k
      OBVIOUS
    <2>3. q \in Waits(t) /\ Rank(t, q) = k
      BY <2>1, <2>2, Zenon
    <2>4. notes[k] = NoteAt(t, q)
      BY <1>1, <1>3, <1>5, <2>3, Zenon
    <2> QED
      BY <2>2, <2>4, Zenon
  <1>7. SubSeq(notes, 1, count) = LegacyNotes(t)
    <2> DEFINE K == Cardinality(Waits(t))
               f(k) == NoteAt(t, CHOOSE p \in Waits(t) : Rank(t, p) = k)
    <2>1. LegacyNotes(t) = [k \in 1 .. K |-> f(k)]
      BY Zenon DEF LegacyNotes
    <2>2. \A k \in 1 .. count : notes[k] = f(k)
      BY <1>6, Zenon
    <2>3. K = count
      BY <1>1, <1>3, Zenon
    <2> HIDE DEF K, f
    <2> QED
      BY <2>1, <2>2, <2>3, Lent, Zenon
  <1>8. W # {} <=> count > 0
    <2>1. count = 0 <=> W = {}
      BY <1>1, <1>4, FS_EmptySet, Zenon
    <2>2. count = 0 <=> ~(count > 0)
      BY <1>1, SMT
    <2> QED
      BY <2>1, <2>2
  <1>9. Len(t) - 1 = Len(s)
    BY <1>2, SMT
  <1>10. \A p \in 1 .. Len(t) - 1 : Decodable(t[p])
    BY <1>1, <1>2, <1>9, Zenon
  <1>11. LegacySound(t) <=> count > 0
    BY <1>1, <1>2, <1>3, <1>8, <1>10, Zenon DEF LegacySound
  <1>12. ~HeldInside
    <2>1. ASSUME NEW i \in 1 .. count - 1 PROVE notes[i].dur # 0
      <3>1. i \in 1 .. count
        BY <1>1, SMT
      <3>2. PICK p \in W : Rank(s, p) = i
        BY <1>1, <3>1, Zenon
      <3>3. notes[i].dur = s[p].value
        <4>1. notes[i] = NoteAt(s, p)
          BY <1>1, <3>2, Zenon
        <4>2. NoteAt(s, p).dur = s[p].value
          BY DurationOf, Zenon DEF NoteAt
        <4> QED
          BY <4>1, <4>2, Zenon
      <3>4. s[p].value # 0
        BY <1>1, <1>4, Zenon DEF Decodable
      <3> QED
        BY <3>3, <3>4, Zenon
    <2> QED
      BY <2>1, Zenon DEF HeldInside
  <1> QED
    BY <1>2, <1>7, <1>11, <1>12, Zenon DEF t, s

LEMMA CommandsReadNext ==
  ASSUME CommandsRead(score), NEW x \in Commands, Decodable(x), Read(<<x>>), UNCHANGED compatible
  PROVE  CommandsRead(score)'
  <1> DEFINE s == score
             t == score'
  <1>1. t = s \o <<x>> /\ s \in Seq(Commands) /\ \A p \in DOMAIN s : Decodable(s[p])
    BY Zenon DEF Read, CommandsRead
  <1>2. /\ t \in Seq(Commands) /\ Len(s) \in Nat
        /\ DOMAIN s = 1 .. Len(s) /\ DOMAIN t = 1 .. Len(s) + 1
        /\ \A p \in 1 .. Len(s) : t[p] = s[p]
        /\ t[Len(s) + 1] = x
    BY <1>1, Appended
  <1>3. \A p \in 1 .. Len(s) + 1 : p \in 1 .. Len(s) \/ p = Len(s) + 1
    BY <1>2, SMT
  <1>4. \A p \in DOMAIN t : Decodable(t[p])
    BY <1>1, <1>2, <1>3, Zenon
  <1>5. \A p \in DOMAIN t : /\ t[p].op \in {"on", "off", "wait"}
                            /\ t[p].op \in {"on", "wait"} => t[p].value # 0
                            /\ t[p].channel = 1 => compatible'
    <2>1. ASSUME NEW y, Decodable(y)
          PROVE  /\ y.op \in {"on", "off", "wait"}
                 /\ y.op \in {"on", "wait"} => y.value # 0
                 /\ y.channel = 1 => compatible'
      BY <2>1, Zenon DEF Decodable
    <2> QED
      BY <1>4, <2>1, Zenon
  <1> QED
    BY <1>2, <1>5, Zenon DEF CommandsRead, Decodable

\* A command that sets a channel.
LEMMA ChannelRead ==
  ASSUME DecodeOK, LegacyRead(score), NEW x \in Commands, Decodable(x), x.op \in {"on", "off"},
         Read(<<x>>), channel' = [channel EXCEPT ![x.channel] = x.value],
         UNCHANGED <<notes, count, compatible>>
  PROVE  LegacyRead(score)'
  <1> DEFINE s == score
             t == score'
             W == Waits(s)
  <1>1. t = s \o <<x>> /\ CommandsRead(score)'
    BY CommandsReadNext, Zenon DEF Read, LegacyRead
  <1>2. s \in Seq(Commands) /\ x.op # "wait"
    BY Zenon DEF LegacyRead, CommandsRead
  <1>3. Waits(t) = W /\ \A p \in W : Rank(t, p) = Rank(s, p) /\ NoteAt(t, p) = NoteAt(s, p)
    <2>1. Waits(t) = W /\ \A p \in W : Rank(t, p) = Rank(s, p)
      BY <1>1, <1>2, WaitsNext, Zenon
    <2>2. W \subseteq 1 .. Len(s)
      BY <1>2, WaitsFinite, Zenon
    <2> QED
      BY <1>1, <1>2, <2>1, <2>2, NoteStays, Zenon
  <1>4. \A c \in 0 .. 1 :
          Sounding(t, c, Len(t)) = IF x.channel = c THEN x.value ELSE Sounding(s, c, Len(s))
    BY <1>1, <1>2, SoundingNext
  <1>5. channel \in [0 .. 1 -> Nat] /\ x.channel \in 0 .. 1 /\ \A c \in 0 .. 1 : channel[c] = Sounding(s, c, Len(s))
    BY CommandHas, Zenon DEF DecodeOK, LegacyRead, ChannelsRead
  <1>6. WaitsRead(score)
    BY Zenon DEF LegacyRead
  <1> HIDE DEF s, t, W
  <1>7. ASSUME NEW c \in 0 .. 1 PROVE channel'[c] = Sounding(t, c, Len(t))
    <2>1. CASE x.channel = c
      <3>1. channel'[c] = x.value
        BY <1>5, <2>1, Zenon
      <3>2. Sounding(t, c, Len(t)) = x.value
        BY <1>4, <2>1
      <3> QED
        BY <3>1, <3>2, Zenon
    <2>2. CASE x.channel # c
      <3>1. channel'[c] = channel[c]
        BY <1>5, <2>2, Zenon
      <3>2. Sounding(t, c, Len(t)) = Sounding(s, c, Len(s))
        BY <1>4, <2>2
      <3> QED
        BY <1>5, <3>1, <3>2, Zenon
    <2> QED
      BY <2>1, <2>2
  <1>8. ChannelsRead(score)'
    BY <1>7, Zenon DEF ChannelsRead, t
  <1>9. WaitsRead(score)'
    <2>1. Cardinality(Waits(t)) = count' /\ \A k \in 1 .. count' : \E p \in Waits(t) : Rank(t, p) = k
      BY <1>3, <1>6, Zenon DEF WaitsRead, W, s
    <2>2. \A p \in Waits(t) : Rank(t, p) \in 1 .. count' /\ notes'[Rank(t, p)] = NoteAt(t, p)
      BY <1>3, <1>6, Zenon DEF WaitsRead, W, s
    <2> QED
      BY <2>1, <2>2, Zenon DEF WaitsRead, t
  <1> QED
    BY <1>1, <1>8, <1>9, Zenon DEF LegacyRead

\* A wait, and the note it makes.
LEMMA WaitRead ==
  ASSUME DecodeOK, LegacyRead(score), count < MaxNotes, NEW x \in Commands, Decodable(x), x.op = "wait",
         Read(<<x>>), PutNote(Heard, x.value), UNCHANGED <<channel, compatible>>
  PROVE  LegacyRead(score)'
  <1> DEFINE s == score
             t == score'
             W == Waits(s)
             c1 == count + 1
             note == [freq |-> Heard, dur |-> x.value]
  <1>1. t = s \o <<x>> /\ count' = c1 /\ notes' = [notes EXCEPT ![c1] = note] /\ CommandsRead(score)'
    BY CommandsReadNext, Zenon DEF Read, PutNote, LegacyRead
  <1>2. s \in Seq(Commands)
    BY Zenon DEF LegacyRead, CommandsRead
  <1>3. Len(s) \in Nat /\ Len(t) = Len(s) + 1 /\ t[Len(s) + 1] = x
    BY <1>1, <1>2, Appended
  <1>4. /\ Cardinality(W) = count
        /\ \A k \in 1 .. count : \E p \in W : Rank(s, p) = k
        /\ \A p \in W : Rank(s, p) \in 1 .. count /\ notes[Rank(s, p)] = NoteAt(s, p)
    BY Zenon DEF LegacyRead, WaitsRead
  <1>5. /\ Waits(t) = W \cup {Len(t)} /\ Len(t) \notin W
        /\ Rank(t, Len(t)) = c1
        /\ \A p \in W : Rank(t, p) = Rank(s, p)
    BY <1>1, <1>2, <1>3, <1>4, WaitsNext, Zenon
  <1>6. W \subseteq 1 .. Len(s) /\ IsFiniteSet(W)
    BY <1>2, WaitsFinite, Zenon
  <1>7. \A p \in W : NoteAt(t, p) = NoteAt(s, p)
    BY <1>1, <1>2, <1>6, NoteStays, Zenon
  <1>8. \A c \in 0 .. 1 : Sounding(t, c, Len(t)) = channel[c]
    <2>1. \A c \in 0 .. 1 : Sounding(t, c, Len(t)) = Sounding(s, c, Len(s))
      BY <1>1, <1>2, SoundingNext
    <2>2. \A c \in 0 .. 1 : channel[c] = Sounding(s, c, Len(s))
      BY Zenon DEF LegacyRead, ChannelsRead
    <2> QED
      BY <2>1, <2>2, Zenon
  <1>9. Cardinality(Waits(t)) = c1
    <2>1. Cardinality(W \cup {Len(t)}) = Cardinality(W) + 1
      BY <1>5, <1>6, FS_AddElement, Zenon
    <2> QED
      BY <1>4, <1>5, <2>1, Zenon
  <1>10. /\ notes \in [1 .. MaxNotes -> Note] /\ c1 \in 1 .. MaxNotes /\ count \in Nat
         /\ \A k \in 1 .. count : k \in 1 .. c1 /\ k \in 1 .. MaxNotes /\ k # c1
         /\ c1 \in 1 .. c1 /\ \A k \in 1 .. c1 : k = c1 \/ k \in 1 .. count
    <2>1. notes \in [1 .. MaxNotes -> Note]
      BY Zenon DEF DecodeOK
    <2>2. count \in Nat /\ MaxNotes \in Nat
      BY DecodeRange
    <2> QED
      BY <2>1, <2>2, SMT
  <1>11. note = NoteAt(t, Len(t))
    <2>1. Sounding(t, 0, Len(t)) = channel[0] /\ Sounding(t, 1, Len(t)) = channel[1]
      BY <1>8, SMT
    <2>2. t[Len(t)].value = x.value
      BY <1>3, Zenon
    <2> QED
      BY <2>1, <2>2, Zenon DEF NoteAt, Heard
  <1> HIDE DEF s, t, W, c1, note
  <1>12. \A k \in 1 .. count : notes'[k] = notes[k]
    BY <1>1, <1>10, Zenon
  <1>13. notes'[c1] = note
    BY <1>1, <1>10, Zenon
  <1>14. \A p \in Waits(t) : Rank(t, p) \in 1 .. c1 /\ notes'[Rank(t, p)] = NoteAt(t, p)
    <2>1. ASSUME NEW p \in W PROVE Rank(t, p) \in 1 .. c1 /\ notes'[Rank(t, p)] = NoteAt(t, p)
      BY <1>4, <1>5, <1>7, <1>10, <1>12, Zenon
    <2>2. Rank(t, Len(t)) \in 1 .. c1 /\ notes'[Rank(t, Len(t))] = NoteAt(t, Len(t))
      BY <1>5, <1>10, <1>11, <1>13, Zenon
    <2> QED
      BY <1>5, <2>1, <2>2, Zenon
  <1>15. \A k \in 1 .. c1 : \E p \in Waits(t) : Rank(t, p) = k
    BY <1>4, <1>5, <1>10, Zenon
  <1>16. WaitsRead(score)'
    <2>1. Cardinality(Waits(t)) = count' /\ \A k \in 1 .. count' : \E p \in Waits(t) : Rank(t, p) = k
      BY <1>1, <1>9, <1>15, Zenon
    <2>2. \A p \in Waits(t) : Rank(t, p) \in 1 .. count' /\ notes'[Rank(t, p)] = NoteAt(t, p)
      BY <1>1, <1>14, Zenon
    <2> QED
      BY <2>1, <2>2, Zenon DEF WaitsRead, t
  <1>17. ChannelsRead(score)'
    BY <1>8, Zenon DEF ChannelsRead, t
  <1> QED
    BY <1>1, <1>16, <1>17, Zenon DEF LegacyRead

-----------------------------------------------------------------------------
(* The steps of the legacy format. *)

LEMMA LegacySoundStays ==
  ASSUME UNCHANGED compatible
  PROVE  LegacySound(score)' <=> LegacySound(score')
  <1>1. ASSUME NEW y PROVE Decodable(y)' <=> Decodable(y)
    BY Zenon DEF Decodable
  <1>2. (\A p \in 1 .. Len(score') - 1 : Decodable(score[p])')
          <=> (\A p \in 1 .. Len(score') - 1 : Decodable(score'[p]))
    BY Zenon DEF Decodable
  <1> QED
    BY <1>2, Zenon DEF LegacySound

LEMMA LegacyRefused ==
  ASSUME ToneInv, busy, kind' = "legacy", UNCHANGED compatible, NEW e, Refuse(e),
         e \notin {"OK", "EBUSY"}, ~LegacySound(score')
  PROVE  ScoreInv'
  <1>1. ~Sound'
    BY SaidOfLegacy, LegacySoundStays, Zenon
  <1> QED
    BY <1>1, Decoding, RefusedWhole, Zenon

LEMMA LegacyKnown ==
  ASSUME ToneInv, ScoreInv, busy, kind = "legacy"
  PROVE  DecodeOK /\ LegacyRead(score) /\ score \in Seq(Commands)
  <1>1. LegacyRead(score)
    BY SMT DEF ScoreInv, DecodedSoFar
  <1> QED
    BY <1>1, Zenon DEF ToneInv, ToneTypeOK, LegacyRead, CommandsRead

LEMMA LegacySpanEndsScore == ASSUME ToneInv, ScoreInv, LegacySpanEnds PROVE ScoreInv'
  <1>1. busy /\ kind = "legacy" /\ kind' = "legacy" /\ score' = score /\ UNCHANGED compatible
    BY Zenon DEF LegacySpanEnds
  <1>2. ~LegacySound(score')
    BY <1>1, LegacyKnown, NeverEnded, Zenon
  <1> QED
    BY <1>1, <1>2, LegacyRefused, Zenon DEF LegacySpanEnds

LEMMA LegacyEndScore == ASSUME ToneInv, ScoreInv, LegacyEnd PROVE ScoreInv'
  <1>1. busy /\ kind = "legacy" /\ kind' = "legacy" /\ UNCHANGED <<compatible, notes>>
    BY Zenon DEF LegacyEnd
  <1>2. DecodeOK /\ LegacyRead(score) /\ score \in Seq(Commands)
    BY <1>1, LegacyKnown, Zenon
  <1>3. PICK o \in {"end", "repeat"} :
          \/ Read(<<Command(o, 0, 0), Other>>) /\ Refuse("EINVAL")
          \/ /\ Read(<<Command(o, 0, 0)>>)
             /\ \/ count = 0 /\ Refuse("EINVAL")
                \/ count > 0 /\ o = "end" /\ Submit
                \/ count > 0 /\ o = "repeat" /\ Play(TRUE)
    BY Zenon DEF LegacyEnd
  <1> DEFINE x == Command(o, 0, 0)
  <1>4. x \in Commands /\ x.op = o /\ Other \in Commands /\ Other.op = "other"
    <2>1. 0 \in 0 .. 1 /\ 0 \in Nat
      BY SMT
    <2> QED
      BY <2>1, CommandIs DEF Other
  <1> HIDE DEF x
  <1>5. CASE Read(<<x, Other>>) /\ Refuse("EINVAL")
    <2>1. score' = score \o <<x, Other>>
      BY <1>5, Zenon DEF Read
    <2>2. Len(score) \in Nat /\ Len(score') = Len(score) + 2 /\ score'[Len(score) + 2] = Other
      BY <1>2, <1>4, <2>1, TwoAppended
    <2>3. ~LegacySound(score')
      BY <1>4, <2>2, Zenon DEF LegacySound
    <2> QED
      BY <1>1, <1>5, <2>3, LegacyRefused, Zenon
  <1>6. CASE /\ Read(<<x>>)
             /\ \/ count = 0 /\ Refuse("EINVAL")
                \/ count > 0 /\ o = "end" /\ Submit
                \/ count > 0 /\ o = "repeat" /\ Play(TRUE)
    <2>1. score' = score \o <<x>>
      BY <1>6, Zenon DEF Read
    <2>2. /\ LegacySound(score') <=> count > 0
          /\ SubSeq(notes, 1, count) = LegacyNotes(score')
          /\ score'[Len(score')].op = o
          /\ ~HeldInside
      BY <1>2, <1>4, <2>1, LegacyLent
    <2>3. (Sound' <=> count > 0) /\ Melody' = SubSeq(notes, 1, count) /\ Repeats' = (o = "repeat")
      BY <1>1, <2>2, SaidOfLegacy, LegacySoundStays, Zenon
    <2>4. CASE count = 0 /\ Refuse("EINVAL")
      <3>1. ~(count > 0)
        BY <2>4, SMT
      <3> QED
        BY <1>1, <2>2, <2>4, <3>1, LegacyRefused, Zenon
    <2>5. CASE count > 0 /\ o = "end" /\ Submit
      <3>1. Repeats' = FALSE
        BY <2>3, <2>5
      <3> QED
        BY <1>1, <2>2, <2>3, <2>5, <3>1, SubmittedWhole, Zenon
    <2>6. CASE count > 0 /\ o = "repeat" /\ Play(TRUE)
      <3>1. Repeats' = TRUE
        BY <2>3, <2>6
      <3> QED
        BY <1>1, <2>3, <2>6, <3>1, Decoding, PlayedWhole, Zenon
    <2> QED
      BY <1>6, <2>4, <2>5, <2>6
  <1> QED
    BY <1>3, <1>5, <1>6 DEF x

LEMMA ChannelScore ==
  ASSUME ToneInv, ScoreInv, busy, kind = "legacy", UNCHANGED <<settings, kind, notes>>,
         NEW x \in Commands, x.op \in {"on", "off"}, Read(<<x>>),
         x.channel = 0 \/ compatible, x.op = "on" => x.value # 0,
         channel' = [channel EXCEPT ![x.channel] = x.value],
         UNCHANGED <<busy, status, left, count, toneToken, host>>
  PROVE  ScoreInv'
  <1>1. x.channel = 1 => compatible
    <2>1. 1 # 0
      BY SMT
    <2> QED
      BY <2>1, Zenon
  <1>2. Decodable(x)
    BY <1>1, Zenon DEF Decodable
  <1>3. LegacyRead(score)'
    BY <1>2, LegacyKnown, ChannelRead, Zenon
  <1> QED
    BY <1>3, LegacyOn, Zenon

LEMMA WaitScore ==
  ASSUME ToneInv, ScoreInv, busy, kind = "legacy", UNCHANGED <<settings, kind>>,
         NEW x \in Commands, x.op = "wait", x.channel = 0, x.value # 0, Read(<<x>>), ~Full,
         PutNote(Heard, x.value), UNCHANGED <<left, channel>>
  PROVE  ScoreInv'
  <1>1. x.channel # 1
    BY SMT
  <1>2. Decodable(x)
    BY <1>1, Zenon DEF Decodable
  <1>3. count < MaxNotes
    <2>1. DecodeOK
      BY Zenon DEF ToneInv, ToneTypeOK
    <2> QED
      BY <2>1, DecodeRange, SMT DEF Full
  <1>4. LegacyRead(score)'
    BY <1>2, <1>3, LegacyKnown, WaitRead, Zenon
  <1> QED
    BY <1>4, LegacyOn, Zenon DEF PutNote

LEMMA LegacyCommandScore == ASSUME ToneInv, ScoreInv, LegacyCommand PROVE ScoreInv'
  <1>1. busy /\ kind = "legacy" /\ UNCHANGED <<settings, kind>>
    BY Zenon DEF LegacyCommand
  <1>2. score \in Seq(Commands)
    BY <1>1, LegacyKnown, Zenon
  <1>3. ASSUME NEW x \in Commands, x.op \notin {"end", "repeat"}, Read(<<x>>),
               NEW e, e \notin {"OK", "EBUSY"}, Refuse(e)
        PROVE  ScoreInv'
    <2>1. ~LegacySound(score')
      BY <1>2, <1>3, NotEnded, Zenon DEF Read
    <2> QED
      BY <1>1, <1>3, <2>1, LegacyRefused, Zenon
  <1>4. ASSUME NEW c \in 0 .. 1, NEW p \in Pitches \cup {TooHigh}, Read(<<Command("on", c, p)>>), UNCHANGED notes,
               \/ \E e \in {"ENOTSUP", "ERANGE"} : Refuse(e)
               \/ /\ (c = 0 \/ compatible) /\ p # TooHigh /\ channel' = [channel EXCEPT ![c] = p]
                  /\ UNCHANGED <<busy, status, left, count, toneToken, host>>
        PROVE  ScoreInv'
    <2> DEFINE x == Command("on", c, p)
    <2>1. p \in Nat
      BY ToneAssumption, SMT DEF TooHigh
    <2>2. x \in Commands /\ x.op = "on" /\ x.channel = c /\ x.value = p
      BY <2>1, CommandIs
    <2> HIDE DEF x
    <2>3. Read(<<x>>)
      BY <1>4 DEF x
    <2>4. CASE \E e \in {"ENOTSUP", "ERANGE"} : Refuse(e)
      BY <1>3, <2>2, <2>3, <2>4, Zenon
    <2>5. CASE /\ (c = 0 \/ compatible) /\ p # TooHigh /\ channel' = [channel EXCEPT ![c] = p]
               /\ UNCHANGED <<busy, status, left, count, toneToken, host>>
      BY <1>1, <1>4, <2>2, <2>3, <2>5, ChannelScore, Zenon DEF TooHigh
    <2> QED
      BY <1>4, <2>4, <2>5
  <1>5. ASSUME NEW c \in 0 .. 1, Read(<<Command("off", c, 0)>>), UNCHANGED notes,
               \/ Refuse("ENOTSUP")
               \/ /\ (c = 0 \/ compatible) /\ channel' = [channel EXCEPT ![c] = 0]
                  /\ UNCHANGED <<busy, status, left, count, toneToken, host>>
        PROVE  ScoreInv'
    <2> DEFINE x == Command("off", c, 0)
    <2>1. 0 \in Nat
      BY SMT
    <2>2. x \in Commands /\ x.op = "off" /\ x.channel = c /\ x.value = 0
      BY <2>1, CommandIs
    <2> HIDE DEF x
    <2>3. Read(<<x>>)
      BY <1>5 DEF x
    <2>4. CASE Refuse("ENOTSUP")
      BY <1>3, <2>2, <2>3, <2>4, Zenon
    <2>5. CASE /\ (c = 0 \/ compatible) /\ channel' = [channel EXCEPT ![c] = 0]
               /\ UNCHANGED <<busy, status, left, count, toneToken, host>>
      BY <1>1, <1>5, <2>2, <2>3, <2>5, ChannelScore, Zenon
    <2> QED
      BY <1>5, <2>4, <2>5
  <1>6. ASSUME NEW d \in Durations, Read(<<Command("wait", 0, d)>>),
               \/ \E e \in {"EINVAL", "E2BIG"} : Refuse(e)
               \/ d # 0 /\ ~Full /\ PutNote(Heard, d) /\ UNCHANGED <<left, channel>>
        PROVE  ScoreInv'
    <2> DEFINE x == Command("wait", 0, d)
    <2>1. d \in Nat /\ 0 \in 0 .. 1
      BY WordsAreNat, SMT
    <2>2. x \in Commands /\ x.op = "wait" /\ x.channel = 0 /\ x.value = d
      BY <2>1, CommandIs
    <2> HIDE DEF x
    <2>3. Read(<<x>>)
      BY <1>6 DEF x
    <2>4. CASE \E e \in {"EINVAL", "E2BIG"} : Refuse(e)
      BY <1>3, <2>2, <2>3, <2>4, Zenon
    <2>5. CASE d # 0 /\ ~Full /\ PutNote(Heard, d) /\ UNCHANGED <<left, channel>>
      BY <1>1, <2>2, <2>3, <2>5, WaitScore, Zenon
    <2> QED
      BY <1>6, <2>4, <2>5
  <1>7. ASSUME Read(<<Other>>), Refuse("ENOTSUP") PROVE ScoreInv'
    <2>1. 0 \in 0 .. 1 /\ 0 \in Nat
      BY SMT
    <2>2. Other \in Commands /\ Other.op = "other"
      BY <2>1, CommandIs DEF Other
    <2> QED
      BY <1>3, <1>7, <2>2, Zenon
  <1> QED
    BY <1>4, <1>5, <1>6, <1>7, Zenon DEF LegacyCommand

-----------------------------------------------------------------------------
(* The other steps leave what was read, and the host with its melody. *)

LEMMA SaidTheSame ==
  ASSUME UNCHANGED <<compatible, kind, score>>
  PROVE  (Sound' <=> Sound) /\ Melody' = Melody /\ Repeats' = Repeats
  <1>1. LegacySound(score)' <=> LegacySound(score)
    BY LegacySoundStays, Zenon
  <1>2. Melody' = Melody /\ Repeats' = Repeats
    BY SMT DEF Melody, Repeats
  <1> QED
    BY <1>1, <1>2, SMT DEF Sound

LEMMA ScoreStays ==
  ASSUME ScoreInv, UNCHANGED <<compatible, notes, status, busy, kind, score, count, channel>>,
         host'.sound = "sketch" =>
           host.sound = "sketch" /\ host'.melody = host.melody /\ host'.repeat = host.repeat
  PROVE  ScoreInv'
  <1>1. ScoresPlayWhole'
    BY SaidTheSame, Zenon DEF ScoreInv, ScoresPlayWhole
  <1>2. PairsRead(score)' <=> PairsRead(score)
    BY Zenon DEF PairsRead
  <1>3. CommandsRead(score)' <=> CommandsRead(score)
    BY Zenon DEF CommandsRead, Decodable
  <1>4. LegacyRead(score)' <=> LegacyRead(score)
    BY <1>3, Zenon DEF LegacyRead, ChannelsRead, WaitsRead
  <1>5. DecodedSoFar'
    BY <1>2, <1>4, SMT DEF ScoreInv, DecodedSoFar
  <1> QED
    BY <1>1, <1>5, Zenon DEF ScoreInv

LEMMA StopLeavesMelody ==
  ASSUME StopTone, host'.sound = "sketch"
  PROVE  host' = host
  BY Zenon DEF StopTone, Stopped, Quiet

LEMMA HostScore == ASSUME ToneInv, ScoreInv, HostStep PROVE ScoreInv'
  <1>1. UNCHANGED <<compatible, notes, status, busy, kind, score, count, channel>>
    BY Zenon DEF HostStep, HostReads, SystemSound, SystemEnds
  <1>2. HostOK
    BY Zenon DEF ToneInv, ToneTypeOK
  <1>3. CASE HostReads
    <2>1. CASE host' = Quiet
      BY <1>1, <2>1, ScoreStays, Zenon DEF Quiet
    <2>2. ASSUME NEW n, host' = [host EXCEPT !.at = n] PROVE ScoreInv'
      <3>1. host'.sound = host.sound /\ host'.melody = host.melody /\ host'.repeat = host.repeat
        BY <1>2, <2>2, Zenon DEF HostOK, Playback
      <3> QED
        BY <1>1, <3>1, ScoreStays, Zenon
    <2> QED
      BY <1>3, <2>1, <2>2, Zenon DEF HostReads
  <1>4. CASE SystemSound
    <2>1. host'.sound = "system"
      BY <1>4, Zenon DEF SystemSound, Quiet
    <2> QED
      BY <1>1, <2>1, ScoreStays, Zenon
  <1>5. CASE SystemEnds
    BY <1>1, <1>5, ScoreStays, Zenon DEF SystemEnds, Quiet
  <1> QED
    BY <1>3, <1>4, <1>5, Zenon DEF HostStep

LEMMA QuietScore ==
  ASSUME ToneInv, ScoreInv, Leave \/ NoTone \/ \E on \in BOOLEAN : SetEnabled(on)
  PROVE  ScoreInv'
  <1>1. /\ UNCHANGED <<compatible, notes, status, busy, kind, score, count, channel>>
        /\ StopTone \/ UNCHANGED host
    BY Zenon DEF Leave, NoTone, SetEnabled
  <1> QED
    BY <1>1, StopLeavesMelody, ScoreStays, Zenon

LEMMA FreshScore ==
  ASSUME ToneInv, ScoreInv, Enter \/ RequestRefused
  PROVE  ScoreInv'
  <1>1. CASE Enter
    BY <1>1, Zenon DEF Enter, ScoreInv, DecodedSoFar, ScoresPlayWhole
  <1>2. CASE RequestRefused
    BY <1>2, Zenon DEF RequestRefused, ScoreInv, DecodedSoFar, ScoresPlayWhole
  <1> QED
    BY <1>1, <1>2

LEMMA InitScore == ASSUME Init PROVE ScoreInv
  BY Zenon DEF Init, ScoreInv, DecodedSoFar, ScoresPlayWhole

LEMMA ScoreKeeps == ASSUME ToneInv, ScoreInv, [Next]_vars PROVE ScoreInv'
  <1>1. CASE UNCHANGED vars
    BY <1>1, ScoreStays, Zenon DEF vars
  <1>2. CASE HostStep
    BY <1>2, HostScore, Zenon
  <1>3. CASE Enter \/ Leave \/ NoTone \/ (\E on \in BOOLEAN : SetEnabled(on)) \/ RequestRefused
    BY <1>3, QuietScore, FreshScore, Zenon
  <1>4. CASE (\E n \in 1 .. MaxNotes : Request("pairs", n)) \/ Request("score", 0) \/ Request("legacy", 0)
    BY <1>4, RequestScore, Zenon
  <1>5. CASE Pair \/ PairsEnd \/ ScoreSpanEnds \/ ScoreWord
    BY <1>5, PairScore, PairsEndScore, ScoreSpanEndsScore, ScoreWordScore, Zenon
  <1>6. CASE LegacySpanEnds \/ LegacyEnd \/ LegacyCommand
    BY <1>6, LegacySpanEndsScore, LegacyEndScore, LegacyCommandScore, Zenon
  <1> QED
    BY <1>1, <1>2, <1>3, <1>4, <1>5, <1>6, Zenon DEF Next

(* A request is decoded as the whole of it reads, in each of its formats,   *)
(* and played from its first note to its last or not at all.                *)
THEOREM ScoreInvariance == Spec => []ScoreInv
  BY InitScore, ScoreKeeps, ToneInvariance, PTL DEF Spec
=============================================================================
