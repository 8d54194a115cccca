------------------------------ MODULE ToneOwner ------------------------------
(***************************************************************************)
(* The audio adapter of src/runtime_audio.hpp between a sketch, which      *)
(* calls it on the application thread, and the buzzer service of the host, *)
(* which plays on a workqueue of its own out of notes it only borrows, and *)
(* which a system sound may take away at any time.  A melody is played     *)
(* under a token; who holds an older one holds nothing.                    *)
(*                                                                         *)
(* A score is read word by word: what it holds is chosen as it is read,    *)
(* and kept in score for the properties.  A command of a legacy score and  *)
(* its operand are one element of it, a wait and its two words are its     *)
(* duration.                                                               *)
(***************************************************************************)
EXTENDS Integers, Sequences, FiniteSets

CONSTANTS
  MaxNotes,      \* notes that can be lent to the host: 32 in the code
  High,          \* the volume bit of a frequency: 2^15 in the code
  Words,         \* the words found where a frequency is expected
  Durations,     \* ... and those where a duration is expected
  Pitches,       \* the frequencies of the legacy notes
  SpanBound,     \* a bound on the commands of a legacy score
  Tokens,        \* what the host names a playback with
  NoToken

ASSUME ToneAssumption ==
  /\ MaxNotes \in Nat \ {0} /\ High \in Nat \ {0, 1} /\ SpanBound \in Nat
  /\ Words \subseteq 0 .. 2 * High - 1 /\ Durations \subseteq Nat /\ Pitches \subseteq Nat \ {0}
  /\ NoToken \notin Tokens

VARIABLES ready, enabled, silent,        \* a sketch runs; its setting; its configuration
          compatible,                    \* the build: two channels are reduced to one
          toneToken, notes, status,
          busy, kind, score,             \* a request is decoded; the last one, and what was read of it
          left, count, channel,          \* pairs to come, notes decoded, frequencies of the channels
          host

settings   == <<ready, enabled, silent, compatible>>
decodeVars == <<left, count, channel>>
vars == <<settings, toneToken, notes, status, busy, kind, score, decodeVars, host>>

\* TONES_END and TONES_REPEAT are the frequencies 0 and 1 with the volume bit.
End    == High
Repeat == High + 1
Frequency(word) == word % High

Note == [freq : Nat, dur : Nat]
Playback == [sound : {"none", "sketch", "system"}, token : Tokens \cup {NoToken},
             melody : Seq(Note), at : Nat, repeat : BOOLEAN]
Quiet == [sound |-> "none", token |-> NoToken, melody |-> <<>>, at |-> 1, repeat |-> FALSE]
NoChannel == [c \in 0 .. 1 |-> 0]

Init ==
  /\ ready = FALSE /\ enabled = TRUE /\ silent = FALSE /\ compatible \in BOOLEAN
  /\ toneToken = NoToken /\ status = "OK"
  /\ notes = [i \in 1 .. MaxNotes |-> [freq |-> 0, dur |-> 0]]
  /\ busy = FALSE /\ kind = "none" /\ score = <<>>
  /\ left = 0 /\ count = 0 /\ channel = NoChannel
  /\ host = Quiet

---------------------------------------------------------------------------
(* The host. *)

\* mutant: whatever is playing is stopped
StopsAnything(token) == Quiet

\* mbs_indicator_buzzer_stop_owned(): it also waits for a read of a note.
Stopped(token) == IF host.token = token THEN Quiet ELSE host

\* The worker reads the next of the notes it borrowed; one that has no
\* duration is held until it is stopped.
HostReads ==
  /\ host.sound = "sketch" /\ notes[host.at].dur # 0
  /\ host' = IF host.at < Len(host.melody) THEN [host EXCEPT !.at = @ + 1]
             ELSE IF host.repeat THEN [host EXCEPT !.at = 1] ELSE Quiet
  /\ UNCHANGED <<settings, toneToken, notes, status, busy, kind, score, decodeVars>>

SystemSound ==
  /\ \E t \in Tokens \ {toneToken, host.token} :
       host' = [Quiet EXCEPT !.sound = "system", !.token = t]
  /\ UNCHANGED <<settings, toneToken, notes, status, busy, kind, score, decodeVars>>

SystemEnds ==
  /\ host.sound = "system" /\ host' = Quiet
  /\ UNCHANGED <<settings, toneToken, notes, status, busy, kind, score, decodeVars>>

---------------------------------------------------------------------------
(* Stopping, and the settings. *)

StopTone ==
  /\ toneToken' = NoToken
  /\ host' = IF toneToken # NoToken THEN Stopped(toneToken) ELSE host

\* noTone(), score_stop(): also before and after a session.
NoTone ==
  /\ ~busy /\ StopTone
  /\ UNCHANGED <<settings, notes, status, busy, kind, score, decodeVars>>

SetEnabled(on) ==
  /\ ~busy
  /\ enabled' = on
  /\ IF on THEN UNCHANGED <<toneToken, host>> ELSE StopTone
  /\ UNCHANGED <<ready, silent, compatible, notes, status, busy, kind, score, decodeVars>>

\* run_sketch() begins a session ...
Enter ==
  /\ ~ready /\ ~busy
  /\ ready' = TRUE /\ enabled' = TRUE /\ silent' \in BOOLEAN
  /\ toneToken' = NoToken /\ status' = "OK" /\ kind' = "none" /\ score' = <<>>
  /\ UNCHANGED <<compatible, notes, busy, decodeVars, host>>

\* ... and leaves it, after teardown().
Leave ==
  /\ ready /\ ~busy
  /\ ready' = FALSE /\ StopTone
  /\ UNCHANGED <<enabled, silent, compatible, notes, status, busy, kind, score, decodeVars>>

---------------------------------------------------------------------------
(* Requests. *)

LocalsEnd == left' = 0 /\ count' = 0 /\ channel' = NoChannel

Refuse(e) == busy' = FALSE /\ status' = e /\ LocalsEnd /\ UNCHANGED <<toneToken, host>>

\* mutant: a finished tone, or so it seems, is not stopped
NoSync == UNCHANGED <<toneToken, host>>

\* Before the notes may be rewritten the host must have stopped reading them.
SynchronizeNotes == StopTone

\* audio_can_play(): the setting, or a function of the sketch, may forbid it.
CanPlay == ready /\ ~silent /\ enabled
Refusals == IF ready THEN {"EACCES"} \cup (IF CanPlay THEN {"ENODEV"} ELSE {}) ELSE {"ENXIO"}

\* A request that is refused before anything of it is read.
RequestRefused ==
  /\ ~busy /\ SynchronizeNotes
  /\ status' \in Refusals \cup (IF CanPlay THEN {"EINVAL", "E2BIG"} ELSE {})
  /\ kind' = "none" /\ score' = <<>>
  /\ UNCHANGED <<settings, notes, busy, decodeVars>>

Request(k, pairs) ==
  /\ ~busy /\ SynchronizeNotes
  /\ CanPlay
  /\ busy' = TRUE /\ kind' = k /\ score' = <<>> /\ left' = pairs
  /\ UNCHANGED <<settings, notes, status, count, channel>>

\* The host takes the notes, under a new token, or refuses them.
Play(repeats) ==
  /\ busy' = FALSE /\ LocalsEnd
  /\ \/ \E t \in Tokens \ {toneToken, host.token} :
          /\ toneToken' = t /\ status' = "OK"
          /\ host' = [sound |-> "sketch", token |-> t, melody |-> SubSeq(notes, 1, count),
                      at |-> 1, repeat |-> repeats]
     \/ toneToken' = NoToken /\ status' = "EBUSY" /\ UNCHANGED host

\* audio_submit()
HeldInside == \E i \in 1 .. count - 1 : notes[i].dur = 0
Submit ==
  \/ count = 0 /\ Refuse("EINVAL")
  \/ count > 0 /\ HeldInside /\ Refuse("ENOTSUP")
  \/ count > 0 /\ ~HeldInside /\ Play(FALSE)

Read(words) == score' = score \o words
PutNote(f, d) ==
  /\ notes' = [notes EXCEPT ![count + 1] = [freq |-> f, dur |-> d]]
  /\ count' = count + 1
  /\ UNCHANGED <<busy, status, toneToken, host>>

---------------------------------------------------------------------------
(* tones_play_pairs(): as many pairs as the caller says. *)

Pair ==
  /\ busy /\ kind = "pairs" /\ left > 0
  /\ \E f \in Words :
       \/ f \in {End, Repeat} /\ Read(<<f>>) /\ Refuse("ENOTSUP") /\ UNCHANGED notes
       \/ f \notin {End, Repeat} /\ \E d \in Durations :
            /\ Read(<<f, d>>) /\ PutNote(Frequency(f), d)
            /\ left' = left - 1 /\ UNCHANGED channel
  /\ UNCHANGED <<settings, kind>>

PairsEnd ==
  /\ busy /\ kind = "pairs" /\ left = 0
  /\ Submit
  /\ UNCHANGED <<settings, notes, kind, score>>

(* tones_play_score_bounded(): up to an end mark inside the span. *)

\* mutant: without an end mark the notes so far are played
PlaysPrefix == Submit

Unterminated == Refuse("EINVAL")

Full == count = MaxNotes

ScoreSpanEnds ==
  /\ busy /\ kind = "score"
  /\ Unterminated
  /\ UNCHANGED <<settings, notes, kind, score>>

ScoreWord ==
  /\ busy /\ kind = "score"
  /\ \E f \in Words :
       \/ f = End /\ Read(<<f>>) /\ Submit /\ UNCHANGED notes
       \/ f = Repeat /\ Read(<<f>>) /\ Refuse("ENOTSUP") /\ UNCHANGED notes
       \/ f \notin {End, Repeat} /\ Full /\ Read(<<f>>) /\ Refuse("E2BIG") /\ UNCHANGED notes
       \/ f \notin {End, Repeat} /\ ~Full /\ Read(<<f>>) /\ Refuse("EINVAL") /\ UNCHANGED notes
       \/ f \notin {End, Repeat} /\ ~Full /\ \E d \in Durations :
            Read(<<f, d>>) /\ PutNote(Frequency(f), d) /\ UNCHANGED <<left, channel>>
  /\ UNCHANGED <<settings, kind>>

---------------------------------------------------------------------------
(* score_play(): the commands of a registered legacy score. *)

Command(op, c, v) == [op |-> op, channel |-> c, value |-> v]
TooHigh == 0                 \* a note that the table of frequencies does not have
Other == Command("other", 0, 0)

LegacySpanEnds ==
  /\ busy /\ kind = "legacy"
  /\ Refuse("EINVAL")
  /\ UNCHANGED <<settings, notes, kind, score>>

\* Nothing may follow the end, and something must come before it.
LegacyEnd ==
  /\ busy /\ kind = "legacy"
  /\ \E op \in {"end", "repeat"} :
       \/ Read(<<Command(op, 0, 0), Other>>) /\ Refuse("EINVAL")
       \/ /\ Read(<<Command(op, 0, 0)>>)
          /\ \/ count = 0 /\ Refuse("EINVAL")
             \/ count > 0 /\ op = "end" /\ Submit
             \/ count > 0 /\ op = "repeat" /\ Play(TRUE)
  /\ UNCHANGED <<settings, notes, kind>>

\* The first channel is heard when both sound.
Heard == IF channel[0] # 0 THEN channel[0] ELSE channel[1]

LegacyCommand ==
  /\ busy /\ kind = "legacy" /\ Len(score) < SpanBound
  /\ \/ \E c \in 0 .. 1, p \in Pitches \cup {TooHigh} :
          /\ Read(<<Command("on", c, p)>>) /\ UNCHANGED notes
          /\ \/ c = 1 /\ ~compatible /\ Refuse("ENOTSUP")
             \/ (c = 0 \/ compatible) /\ p = TooHigh /\ Refuse("ERANGE")
             \/ /\ (c = 0 \/ compatible) /\ p # TooHigh /\ channel' = [channel EXCEPT ![c] = p]
                /\ UNCHANGED <<busy, status, left, count, toneToken, host>>
     \/ \E c \in 0 .. 1 :
          /\ Read(<<Command("off", c, 0)>>) /\ UNCHANGED notes
          /\ \/ c = 1 /\ ~compatible /\ Refuse("ENOTSUP")
             \/ /\ (c = 0 \/ compatible) /\ channel' = [channel EXCEPT ![c] = 0]
                /\ UNCHANGED <<busy, status, left, count, toneToken, host>>
     \/ \E d \in Durations :
          /\ Read(<<Command("wait", 0, d)>>)
          /\ \/ d = 0 /\ Refuse("EINVAL") /\ UNCHANGED notes
             \/ d # 0 /\ Full /\ Refuse("E2BIG") /\ UNCHANGED notes
             \/ d # 0 /\ ~Full /\ PutNote(Heard, d) /\ UNCHANGED <<left, channel>>
     \/ Read(<<Other>>) /\ Refuse("ENOTSUP") /\ UNCHANGED notes
  /\ UNCHANGED <<settings, kind>>

---------------------------------------------------------------------------
HostStep == HostReads \/ SystemSound \/ SystemEnds

Next ==
  \/ HostStep
  \/ Enter \/ Leave \/ NoTone \/ (\E on \in BOOLEAN : SetEnabled(on))
  \/ RequestRefused
  \/ \E n \in 1 .. MaxNotes : Request("pairs", n)
  \/ Request("score", 0) \/ Request("legacy", 0)
  \/ Pair \/ PairsEnd \/ ScoreSpanEnds \/ ScoreWord \/ LegacySpanEnds \/ LegacyEnd \/ LegacyCommand

Spec == Init /\ [][Next]_vars

---------------------------------------------------------------------------
(* What a score means, said of the whole of it. *)

Pairs(s) == [k \in 1 .. Len(s) \div 2 |-> [freq |-> Frequency(s[2 * k - 1]), dur |-> s[2 * k]]]
PairsSound(s) ==
  /\ Len(s) % 2 = 0 /\ Len(s) \div 2 \in 1 .. MaxNotes
  /\ \A k \in 1 .. Len(s) \div 2 : /\ s[2 * k - 1] \notin {End, Repeat}
                                   /\ k < Len(s) \div 2 => s[2 * k] # 0

Front(s) == SubSeq(s, 1, Len(s) - 1)
ScoreSound(s) == s # <<>> /\ s[Len(s)] = End /\ PairsSound(Front(s))

Waits(s) == {p \in DOMAIN s : s[p].op = "wait"}
Decodable(command) ==
  /\ command.op \in {"on", "off", "wait"}
  /\ command.op \in {"on", "wait"} => command.value # 0
  /\ command.channel = 1 => compatible
LegacySound(s) ==
  /\ s # <<>> /\ s[Len(s)].op \in {"end", "repeat"}
  /\ Waits(s) # {} /\ Cardinality(Waits(s)) <= MaxNotes
  /\ \A p \in 1 .. Len(s) - 1 : Decodable(s[p])

\* What channel c sounds at position p: its last command, if that is a note.
Sounding(s, c, p) ==
  LET notesOf == {q \in 1 .. p : s[q].op \in {"on", "off"} /\ s[q].channel = c} IN
  IF notesOf = {} THEN 0
  ELSE LET q == CHOOSE q \in notesOf : \A r \in notesOf : r <= q IN s[q].value

\* Every wait is a note, of what sounds there; the k-th note is the k-th wait.
NoteAt(s, p) ==
  [freq |-> IF Sounding(s, 0, p) # 0 THEN Sounding(s, 0, p) ELSE Sounding(s, 1, p),
   dur  |-> s[p].value]
Rank(s, p) == Cardinality({q \in Waits(s) : q <= p})
LegacyNotes(s) ==
  [k \in 1 .. Cardinality(Waits(s)) |-> NoteAt(s, CHOOSE p \in Waits(s) : Rank(s, p) = k)]

Sound == CASE kind = "pairs"  -> PairsSound(score)
           [] kind = "score"  -> ScoreSound(score)
           [] kind = "legacy" -> LegacySound(score)
Melody == CASE kind = "pairs"  -> Pairs(score)
            [] kind = "score"  -> Pairs(Front(score))
            [] kind = "legacy" -> LegacyNotes(score)
Repeats == kind = "legacy" /\ score[Len(score)].op = "repeat"

(* A request is played as it was written, from its first note to its last,  *)
(* or not at all: malformed, too long, unterminated and unsupported scores  *)
(* play no prefix, and no sound score is taken for one of them.             *)
ScoresPlayWhole ==
  ~busy /\ kind # "none" =>
    /\ host.sound = "sketch" => Sound /\ host.melody = Melody /\ host.repeat = Repeats
    /\ Sound <=> status \in {"OK", "EBUSY"}

(* While a request is read, its notes are those of what was read of it:     *)
(* pairs, ...                                                               *)
PairsRead(s) ==
  /\ s \in Seq(Nat) /\ Len(s) = 2 * count
  /\ \A k \in 1 .. count : s[2 * k - 1] \notin {End, Repeat} /\ notes[k] = Pairs(s)[k]

\* ... or commands that are supported, of which the k-th wait made the k-th
\* note, and after which each channel sounds what was read for it last.
Commands == [op : {"on", "off", "wait", "end", "repeat", "other"}, channel : 0 .. 1, value : Nat]
CommandsRead(s) == s \in Seq(Commands) /\ \A p \in DOMAIN s : Decodable(s[p])
ChannelsRead(s) == \A c \in 0 .. 1 : channel[c] = Sounding(s, c, Len(s))
WaitsRead(s) ==
  /\ Cardinality(Waits(s)) = count
  /\ \A k \in 1 .. count : \E p \in Waits(s) : Rank(s, p) = k
  /\ \A p \in Waits(s) : Rank(s, p) \in 1 .. count /\ notes[Rank(s, p)] = NoteAt(s, p)
LegacyRead(s) == CommandsRead(s) /\ ChannelsRead(s) /\ WaitsRead(s)

DecodedSoFar ==
  /\ ~busy => channel = NoChannel
  /\ busy => CASE kind \in {"pairs", "score"} -> PairsRead(score)
               [] kind = "legacy"             -> LegacyRead(score)
               [] OTHER                       -> FALSE

(* The inductive invariant of a request: at every word the notes are those  *)
(* of the score read so far, so that what is played at its end is the whole *)
(* of it, in each of the three formats (ScoresPlayWhole).                   *)
ScoreInv == DecodedSoFar /\ ScoresPlayWhole

(* Nothing the sketch does silences the system: a system sound ends by      *)
(* itself, or is replaced by a tone the host has accepted.                  *)
SystemSoundsStand ==
  [][host.sound = "system" /\ host'.sound = "none" => SystemEnds]_vars

---------------------------------------------------------------------------
FlagsOK ==
  /\ ready \in BOOLEAN /\ enabled \in BOOLEAN /\ silent \in BOOLEAN /\ compatible \in BOOLEAN
  /\ busy \in BOOLEAN /\ kind \in {"none", "pairs", "score", "legacy"}
DecodeOK ==
  /\ notes \in [1 .. MaxNotes -> Note]
  /\ left \in Nat /\ count \in 0 .. MaxNotes /\ channel \in [0 .. 1 -> Nat]
  /\ left + count <= MaxNotes
HostOK == toneToken \in Tokens \cup {NoToken} /\ host \in Playback
ToneTypeOK == FlagsOK /\ DecodeOK /\ HostOK

\* A tone of the sketch can be stopped by it, a system sound cannot.
Owned ==
  /\ host.sound = "sketch" => toneToken # NoToken /\ host.token = toneToken
  /\ host.sound = "system" => host.token \notin {toneToken, NoToken}
  /\ host.sound = "none" => host.token = NoToken

\* The notes the host borrowed are those it was given, as long as it plays them.
Borrowed ==
  host.sound = "sketch" =>
    /\ ~busy /\ Len(host.melody) \in 1 .. MaxNotes /\ host.at \in 1 .. Len(host.melody)
    /\ \A i \in 1 .. Len(host.melody) : notes[i] = host.melody[i]

\* A sketch is heard while it runs and its audio is on, and never if it is silent.
Audible == host.sound = "sketch" => CanPlay

\* A request is one at a time, and its locals are gone when it ends.
Requesting ==
  /\ busy => CanPlay /\ toneToken = NoToken
  /\ left # 0 => busy /\ kind = "pairs"
  /\ count # 0 => busy

(* The inductive invariant: who may stop what, and who may write what.      *)
ToneInv == ToneTypeOK /\ Owned /\ Borrowed /\ Audible /\ Requesting
=============================================================================
