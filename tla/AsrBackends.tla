----------------------------- MODULE AsrBackends -----------------------------
(***************************************************************************)
(* The transcription of one recording by the backends of the ASR service,  *)
(* asr_service/backends.py.  XFYun (iFLYTEK) takes an order for each piece *)
(* of the file and is polled until the order is done; Baidu answers each   *)
(* piece at once; Whisper hears a long recording in windows.               *)
(*                                                                         *)
(* Times are milliseconds, the unit of the services; 0 as a duration means *)
(* that it could not be told (_audio_duration).  Pieces are numbered, and  *)
(* a segment of the transcript carries the number of its piece for its     *)
(* text.                                                                   *)
(***************************************************************************)
EXTENDS Integers, Sequences, FiniteSets, FiniteSetsExt, SequencesExt

CONSTANTS
  Files,           \* files: what they last, and what their pieces last
  Lattices,        \* answers of XFYun: the times of the segments, as it writes them
  ChunkMillis,     \* chunk_seconds
  MaxPollMillis,   \* max_poll_seconds
  PollMillis,      \* poll_interval_seconds
  Latencies,       \* what a call of a service may last
  MaxWindow, Overlap,   \* samples of a window of Whisper, and of its overlap
  MaxRecording     \* bound of the model: samples of a recording

ASSUME BackendConstants ==
  /\ \A f \in Files : f.total \in Nat /\ f.chunks \in Seq(Nat) /\ f.chunks # <<>>
  /\ {ChunkMillis, MaxPollMillis, Overlap, MaxRecording} \subseteq Nat
  /\ Latencies \subseteq Nat
  /\ Lattices \subseteq Seq([bg : Nat, ed : Nat])
  /\ PollMillis \in Nat \ {0}
  /\ MaxWindow \in Nat /\ MaxWindow > Overlap

VARIABLES
  recording,   \* the recording, and the backend that gets it
  hearing,     \* where transcribe is, in which piece, and how often it has polled
  heard,       \* all_segments, and the offset at which the next piece starts
  answered,    \* answered[k]: how the service answered for piece k
  millis       \* the clock

asrVars == <<recording, hearing, heard, answered, millis>>

-----------------------------------------------------------------------------
(* Windows of Whisper: MaxWindow samples, the next one starts Overlap      *)
(* before the end of the last, until one reaches the end.                  *)

WindowEnd(from, n) == IF from + MaxWindow < n THEN from + MaxWindow ELSE n

WhisperWindow(k, n) ==
  LET offset == (k - 1) * (MaxWindow - Overlap)
  IN  [from |-> offset, to |-> WindowEnd(offset, n)]

\* The first that reaches the end is the last; a short recording is the only one.
LastWindow(n) == Min({k \in 1..n + 1 : WhisperWindow(k, n).to = n})

WhisperWindows(n) == [k \in 1..LastWindow(n) |-> WhisperWindow(k, n)]

-----------------------------------------------------------------------------
(* Pieces and times.                                                       *)

Longest(s) == IF s = {} THEN 0 ELSE Max(s)

\* XFYun gets a file in pieces only when it is known to be long; Baidu always.
Split ==
  recording.backend = "baidu" \/ (ChunkMillis > 0 /\ recording.total > ChunkMillis)

Pieces == IF Split THEN recording.chunks ELSE <<recording.total>>

\* _xfyun_time_seconds: what is not above 60 is taken for seconds.
Time(raw) == IF raw > 60 THEN raw ELSE raw * 1000

\* _parse_xfyun_segments
Segments(lattice, k) ==
  [i \in DOMAIN lattice |->
     LET start == Time(lattice[i].bg)
         end == Time(lattice[i].ed)
     IN  [piece |-> k, start |-> start, end |-> IF end < start THEN start ELSE end]]

Shifted(segments, by) ==
  [i \in DOMAIN segments |-> [segments[i] EXCEPT !.start = @ + by, !.end = @ + by]]

EndTimes(segments) == {segments[i].end : i \in DOMAIN segments}

-----------------------------------------------------------------------------
(* The file is cut.                                                        *)

\* ffmpeg cuts the file, or is missing or fails.
CutFile ==
  /\ hearing.at = "cut"
  /\ hearing' \in {[hearing EXCEPT !.at = "piece"]}
                 \cup (IF Split THEN {[hearing EXCEPT !.at = "failed"]} ELSE {})
  /\ UNCHANGED <<recording, heard, answered, millis>>

\* A call of a service lasts.
Lasts == \E l \in Latencies : millis' = millis + l

\* The piece was answered, with these segments in its own time.
TakePiece(answer, segments, lasted) ==
  /\ heard' = [segments |-> heard.segments \o Shifted(segments, heard.offset),
               offset |-> heard.offset + lasted]
  /\ answered' = Append(answered, answer)
  /\ hearing' = [hearing EXCEPT
                   !.at = IF hearing.piece < Len(Pieces) THEN "piece" ELSE "done",
                   !.piece = @ + 1, !.polls = 0]
  /\ UNCHANGED recording

Gives(at) ==
  /\ hearing' = [hearing EXCEPT !.at = at]
  /\ UNCHANGED <<recording, heard, answered>>

-----------------------------------------------------------------------------
(* XFYun.                                                                  *)

\* _upload: an order, or an error; then the time for the polling starts.
Upload ==
  /\ hearing.at = "piece"
  /\ recording.backend = "xfyun"
  /\ Lasts
  /\ \/ Gives("failed")
     \/ /\ hearing' = [hearing EXCEPT !.at = "poll",
                                      !.deadline = millis' + MaxPollMillis]
        /\ UNCHANGED <<recording, heard, answered>>

\* Variant: the offset grows by what the piece is known to last.
LastedAsKnown(segments) == Pieces[hearing.piece]

\* What the offset grows by.
Lasted(segments) == Longest({Pieces[hearing.piece]} \cup EndTimes(segments))

SilentFor == IF Pieces[hearing.piece] > 0 THEN Pieces[hearing.piece] ELSE ChunkMillis

\* _wait_for_result finds the result of the order.
PollResult ==
  /\ hearing.at = "poll"
  /\ Lasts
  /\ \E lattice \in Lattices :
       LET segments == Segments(lattice, hearing.piece)
       IN  TakePiece("segments", segments, Lasted(segments))

\* The order failed since nobody speaks in it.
PollSilent ==
  /\ hearing.at = "poll"
  /\ Lasts
  /\ TakePiece("silent", <<>>, IF Split THEN SilentFor ELSE Pieces[hearing.piece])

\* The order, or the call, failed.
PollFails ==
  /\ hearing.at = "poll"
  /\ Lasts
  /\ Gives("failed")

\* The order is still processed: TimeoutError, or another poll after a sleep.
PollAgain ==
  /\ hearing.at = "poll"
  /\ \E l \in Latencies :
       \/ /\ millis + l >= hearing.deadline
          /\ millis' = millis + l
          /\ Gives("failed")
       \/ /\ millis + l < hearing.deadline
          /\ millis' = millis + l + PollMillis
          /\ hearing' = [hearing EXCEPT !.polls = @ + 1]
          /\ UNCHANGED <<recording, heard, answered>>

-----------------------------------------------------------------------------
(* Baidu.                                                                  *)

\* A piece with text is one segment; one without leaves only its time.
Recognize ==
  /\ hearing.at = "piece"
  /\ recording.backend = "baidu"
  /\ Lasts
  /\ LET lasts == Pieces[hearing.piece]
     IN  \/ Gives("failed")
         \/ TakePiece("silent", <<>>, lasts)
         \/ TakePiece("segments",
                      <<[piece |-> hearing.piece, start |-> 0, end |-> lasts]>>, lasts)

-----------------------------------------------------------------------------
(* The duration of the result.                                             *)

Duration ==
  IF recording.backend = "baidu" THEN heard.offset
  ELSE IF Split THEN Longest({recording.total, heard.offset})
  ELSE Longest({recording.total} \cup EndTimes(heard.segments))

AsrInit ==
  /\ recording \in {[total |-> f.total, chunks |-> f.chunks, backend |-> b]
                    : f \in Files, b \in {"xfyun", "baidu"}}
  /\ hearing = [at |-> "cut", piece |-> 1, polls |-> 0, deadline |-> 0]
  /\ heard = [segments |-> <<>>, offset |-> 0]
  /\ answered = <<>>
  /\ millis = 0

AsrNext ==
  \/ CutFile
  \/ Upload
  \/ PollResult
  \/ PollSilent
  \/ PollFails
  \/ PollAgain
  \/ Recognize

AsrSpec == AsrInit /\ [][AsrNext]_asrVars

-----------------------------------------------------------------------------
(* Properties.                                                             *)

AsrTypeOK ==
  /\ hearing.at \in {"cut", "piece", "poll", "done", "failed"}
  /\ Len(answered) = hearing.piece - 1
  /\ millis \in Nat

\* A transcript is whole: a result speaks for every piece, and a piece in
\* which nobody spoke leaves nothing in it.
NothingIsSkipped ==
  /\ hearing.at = "done" => Len(answered) = Len(Pieces)
  /\ \A k \in DOMAIN answered :
       answered[k] = "silent" =>
         \A i \in DOMAIN heard.segments : heard.segments[i].piece # k

\* The pieces follow one another in the transcript, whatever times the service
\* gave to their segments: no segment starts before one of an earlier piece
\* has ended, and none lies behind the duration of the result.
PiecesFollow ==
  /\ \A i, j \in DOMAIN heard.segments :
       i < j /\ heard.segments[i].piece # heard.segments[j].piece =>
         /\ heard.segments[i].piece < heard.segments[j].piece
         /\ heard.segments[i].end <= heard.segments[j].start
  /\ \A i \in DOMAIN heard.segments : heard.segments[i].end <= Duration

\* An order is polled for MaxPollMillis and one interval at the most, however
\* slow its answers are.
PollingEnds ==
  hearing.at = "poll" =>
    /\ millis < hearing.deadline + PollMillis
    /\ hearing.polls * PollMillis < MaxPollMillis + PollMillis

\* The windows of Whisper leave no sample out, none is longer than the model
\* can hear, and the last is the only one that reaches the end.
WindowsCover ==
  \A n \in 1..MaxRecording :
    LET w == WhisperWindows(n)
    IN  /\ w[1].from = 0
        /\ \A i \in DOMAIN w : w[i].to - w[i].from \in 1..MaxWindow
        /\ \A i \in DOMAIN w : w[i].to = n <=> i = Len(w)
        /\ \A i \in 1..Len(w) - 1 : w[i + 1].from = w[i].to - Overlap

AsrInv == AsrTypeOK /\ NothingIsSkipped /\ PiecesFollow /\ PollingEnds /\ WindowsCover

=============================================================================
