------------------------------ MODULE AsrStream ------------------------------
(***************************************************************************)
(* One connection to /stream of the ASR service, stream_transcribe of      *)
(* asr_service/app.py, and the VADIterator of Silero behind it (a          *)
(* library), which judges every chunk of audio and reports where speech    *)
(* begins and ends.                                                        *)
(*                                                                         *)
(* Audio is counted in samples, and sample k of the connection is the      *)
(* number k.  Two counters of samples run side by side: stream_samples     *)
(* goes on as long as the connection, that of the VAD starts again with    *)
(* every utterance.  The connection is one coroutine, so a message is      *)
(* handled before the next is read; other connections only influence what  *)
(* the VAD makes of a chunk, which is chosen here.                         *)
(***************************************************************************)
EXTENDS Integers, Sequences, FiniteSets, SequencesExt

CONSTANTS
  ChunkSizes,           \* samples of one binary message
  MaxBufferSamples,     \* max_buffer_seconds
  Pad, MinSilence,      \* speech_pad_ms and min_silence_duration_ms, in samples
  MaxSamples            \* bound of the model: samples of the connection

ASSUME StreamConstants ==
  /\ ChunkSizes \subseteq Nat \ {0}
  /\ {MaxBufferSamples, Pad, MinSilence, MaxSamples} \subseteq Nat

VARIABLES
  streamSamples,   \* samples received: stream_samples
  vad,             \* the VADIterator: triggered, its own count, and temp_end
  utterance,       \* speech_active, speech_chunks, speech_samples, segment_id
  finals,          \* the messages of type "final" and "error" that were sent
  connection,      \* "open", or how it ended: "flushed", "failed", "left"
  spoken,          \* samples of chunks that the VAD took for speech
  reset            \* samples that were buffered when the client sent a config

streamVars == <<streamSamples, vad, utterance, finals, connection, spoken, reset>>

-----------------------------------------------------------------------------
(* Samples and offsets.                                                    *)

NoOffset == -1

AtLeast0(n) == IF n > 0 THEN n ELSE 0

\* Samples of the chunk that is read now, from one offset to another.
Piece(from, to) == (streamSamples + from)..(streamSamples + to - 1)

\* The samples of speech_chunks.
Buffered(u) == UNION {u.chunks[i] : i \in DOMAIN u.chunks}

\* _event_offsets of the position of a start.
StartOffset(sample, size) ==
  LET offset == AtLeast0(sample - streamSamples)
  IN  IF offset > size THEN NoOffset ELSE offset

\* ... and of an end.
EndOffset(sample, size) ==
  LET offset == sample - streamSamples
  IN  AtLeast0(IF offset < size THEN offset ELSE size)

-----------------------------------------------------------------------------
(* VADIterator.  It reports a start or an end with a position by its own   *)
(* count.                                                                  *)

NewVad == [triggered |-> FALSE, current |-> 0, tempEnd |-> 0]

Judgements == {"speech", "unsure", "silence"}

\* Whether it reports a start, and where.
SpeechBegins(judgement) == judgement = "speech" /\ ~vad.triggered

BeginOfSpeech == AtLeast0(vad.current - Pad)

\* Since when nobody speaks, if not in a chunk that is read now.
SilentSince(size) == IF vad.tempEnd = 0 THEN vad.current + size ELSE vad.tempEnd

\* Whether it reports an end, and where.
SpeechEnds(size, judgement) ==
  /\ judgement = "silence" /\ vad.triggered
  /\ vad.current + size - SilentSince(size) >= MinSilence

EndOfSpeech(size) == SilentSince(size) + Pad - size

\* What the iterator is after a chunk.
Judged(size, judgement) ==
  [triggered |-> judgement = "speech" \/ (vad.triggered /\ ~SpeechEnds(size, judgement)),
   current   |-> vad.current + size,
   tempEnd   |-> IF judgement = "speech" \/ SpeechEnds(size, judgement) THEN 0
                 ELSE IF judgement = "silence" /\ vad.triggered THEN SilentSince(size)
                 ELSE vad.tempEnd]

-----------------------------------------------------------------------------
(* The utterance.                                                          *)

NoUtterance(id) == [active |-> FALSE, chunks |-> <<>>, samples |-> 0, id |-> id]

\* What the chunk adds to the buffer: the VAD reports a start or an end, never
\* both.
BufferedChunk(start, end, size) ==
  CASE start # NoOffset ->
         [utterance EXCEPT !.active = TRUE,
                           !.chunks = IF start < size THEN <<Piece(start, size)>> ELSE <<>>,
                           !.samples = size - start]
    [] utterance.active /\ start = NoOffset /\ end = NoOffset ->
         [utterance EXCEPT !.chunks = Append(@, Piece(0, size)), !.samples = @ + size]
    [] utterance.active /\ start = NoOffset /\ end # NoOffset ->
         [utterance EXCEPT !.chunks = Append(@, Piece(0, end)), !.samples = @ + end]
    [] OTHER -> utterance

\* Variant: an utterance goes on however long it is.
UtteranceEndsByVad(u, end) == u.active /\ end # NoOffset

\* The VAD ended it, or the buffer is full.
UtteranceEnds(u, end) == u.active /\ (end # NoOffset \/ u.samples >= MaxBufferSamples)

\* _finalize_stream_utterance: nothing for no audio; otherwise a transcript, or
\* an error in its place.
Final(u, ok) ==
  IF Buffered(u) = {} THEN <<>>
  ELSE <<[id |-> u.id, audio |-> Buffered(u), ok |-> ok]>>

-----------------------------------------------------------------------------
(* What the client sends.                                                  *)

Audio(size, judgement, ok) ==
  LET start == IF SpeechBegins(judgement) THEN StartOffset(BeginOfSpeech, size) ELSE NoOffset
      end == IF SpeechEnds(size, judgement) THEN EndOffset(EndOfSpeech(size), size) ELSE NoOffset
      u == BufferedChunk(start, end, size)
  IN  /\ connection = "open"
      /\ streamSamples + size <= MaxSamples
      /\ streamSamples' = streamSamples + size
      /\ spoken' = IF judgement = "speech" THEN spoken \cup Piece(0, size) ELSE spoken
      /\ IF UtteranceEnds(u, end)
         THEN /\ finals' = finals \o Final(u, ok)
              /\ utterance' = NoUtterance(u.id + 1)
              /\ vad' = NewVad
         ELSE /\ utterance' = u
              /\ vad' = Judged(size, judgement)
              /\ UNCHANGED finals
      /\ UNCHANGED <<connection, reset>>

\* {"event": "config"}: every config makes a new VADIterator, and leaves the
\* utterance as it is.
Config ==
  /\ connection = "open"
  /\ vad' = NewVad
  /\ reset' = reset \cup Buffered(utterance)
  /\ UNCHANGED <<streamSamples, utterance, finals, connection, spoken>>

\* The utterance that the `finally` of the handler still finds.
Rest(u) == IF u.active /\ u.chunks # <<>> THEN u ELSE NoUtterance(u.id)

\* {"event": "end"}: the utterance is sent, and the loop left with it; then
\* the `finally` sends it, with the next id.
EndOfStream(ok, again) ==
  LET rest == Rest(utterance)
  IN  /\ connection = "open"
      /\ connection' = "flushed"
      /\ finals' = finals \o Final(rest, ok) \o Final([rest EXCEPT !.id = @ + 1], again)
      /\ UNCHANGED <<streamSamples, vad, utterance, spoken, reset>>

\* A message that the handler fails on, such as a config without numbers: the
\* loop is left, and the `finally` sends the utterance.
HandlerFails(ok) ==
  /\ connection = "open"
  /\ connection' = "failed"
  /\ finals' = finals \o Final(Rest(utterance), ok)
  /\ UNCHANGED <<streamSamples, vad, utterance, spoken, reset>>

\* The client is gone: what the handler still sends reaches nobody.
Leave ==
  /\ connection = "open"
  /\ connection' = "left"
  /\ UNCHANGED <<streamSamples, vad, utterance, finals, spoken, reset>>

-----------------------------------------------------------------------------
StreamInit ==
  /\ streamSamples = 0
  /\ vad = NewVad
  /\ utterance = NoUtterance(0)
  /\ finals = <<>>
  /\ connection = "open"
  /\ spoken = {}
  /\ reset = {}

StreamNext ==
  \/ \E size \in ChunkSizes, judgement \in Judgements, ok \in BOOLEAN :
       Audio(size, judgement, ok)
  \/ Config
  \/ \E ok, again \in BOOLEAN : EndOfStream(ok, again)
  \/ \E ok \in BOOLEAN : HandlerFails(ok)
  \/ Leave

StreamSpec == StreamInit /\ [][StreamNext]_streamVars

-----------------------------------------------------------------------------
(* Properties.                                                             *)

StreamTypeOK ==
  /\ streamSamples \in 0..MaxSamples
  /\ vad.current \in 0..streamSamples
  /\ connection \in {"open", "flushed", "failed", "left"}
  /\ spoken \cup reset \subseteq 0..streamSamples - 1
  /\ utterance.active \/ utterance.chunks = <<>>

\* No sample of speech is lost while the client listens: it is in the buffer or
\* in a final or error that was sent.  Only a config in the middle of an
\* utterance drops what was buffered, since the new VAD reports a start.
SpeechIsHeard ==
  connection # "left" =>
    spoken \subseteq (UNION {finals[i].audio : i \in DOMAIN finals})
                        \cup Buffered(utterance) \cup reset

\* Utterances come in the order in which they were spoken, each with an id of
\* its own, and none is repeated, but for one: what {"event": "end"} finds in
\* the buffer is sent by its handler and again by the `finally`, although the
\* README of the service says that it flushes the remaining audio.
SentencesInOrder ==
  \A i, j \in DOMAIN finals :
    i < j =>
      /\ finals[i].id < finals[j].id
      /\ \/ \A a \in finals[i].audio, b \in finals[j].audio : a < b
         \/ connection = "flushed" /\ i = Len(finals) - 1 /\ j = Len(finals)

\* The buffer holds less than MaxBufferSamples between two messages, as
\* speech_samples counts them and as they are.
BufferIsBounded ==
  /\ connection = "open" =>
       utterance.samples < MaxBufferSamples \/ ~utterance.active
  /\ Cardinality(Buffered(utterance)) = utterance.samples

StreamInv == StreamTypeOK /\ SpeechIsHeard /\ SentencesInOrder /\ BufferIsBounded

=============================================================================
