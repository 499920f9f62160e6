-------------------------- MODULE SpeechRecognition --------------------------
(****************************************************************************)
(* One recording on its way to a transcript: the capture of the microphone  *)
(* (crates/infra/src/cpal_audio_recorder.rs), the recognition that the      *)
(* controller owns meanwhile (apps/desktop/src/asr_runtime.rs,              *)
(* crates/app/src/dictation_completion.rs) and the engines behind it        *)
(* (volcengine_asr.rs, macos_speech.rs, paraformer_asr.rs, whisper_asr.rs,  *)
(* sense_voice_asr.rs, qwen3_asr.rs and openai_transcriptions_asr.rs in     *)
(* crates/infra/src).                                                       *)
(*                                                                          *)
(* Audio is counted in units, what one word takes.  A transcript is the     *)
(* sequence of the units whose words it has.  Partial transcripts are only  *)
(* shown and left out.                                                      *)
(****************************************************************************)
EXTENDS Naturals, Sequences, SequencesExt

CONSTANTS
    MaxUnits,      \* bound: units of a recording
    BatchUnits,    \* a tenth of a second, the size of a streamed chunk
    StreamQueue,   \* batches between the callback and the stream worker
    CommandQueue,  \* AUDIO_QUEUE_CAPACITY
    SegmentUnits,  \* MAX_SEGMENT_SAMPLES, and the VAD's max_speech_duration
    OverlapUnits,  \* SEGMENT_OVERLAP_SAMPLES
    SkippedUnits,  \* words of the four characters before an overlap
    BufferLimit,   \* MAX_SAMPLES of the OpenAI compatible engine
    Callbacks,     \* units that one callback of the device brings
    QuietPatterns, \* sets of units without a word that are tried
    EchoPatterns   \* sets of units that say one and the same word

ASSUME SizesArePositive ==
    /\ {MaxUnits, BufferLimit, SkippedUnits} \subseteq Nat /\ Callbacks \subseteq Nat
    /\ {BatchUnits, StreamQueue, CommandQueue, SegmentUnits, OverlapUnits} \subseteq Nat \ {0}
    /\ SegmentUnits > OverlapUnits

Remote   == {"volcengine", "apple"}
Buffered == {"whisper", "senseVoice", "qwen3", "openAi"}
Local    == {"paraformer", "whisper", "senseVoice", "qwen3"}
Engine   == Remote \cup Buffered \cup Local

VARIABLES
    engine,      \* what the catalog selects
    damaged,     \* files of its model that are missing or of another size
    source,      \* a "live" recording, or one "restored" by an undo
    quiet,       \* units in which nothing is said
    sparse,      \* too few characters are said in an overlap to find it
    repeated,    \* units that say one and the same word
    phase,       \* of the recognition the controller owns
    samples,     \* CaptureBuffer.samples
    pending,     \* streaming_pending
    held,        \* the batch a callback has split off and not offered yet
    captureError,
    overtaken,   \* stop ran between these two steps of a callback
    batches,     \* in the channel to the stream worker
    streamError, \* OwnedRecognition.stream_error
    commands,    \* to the engine's worker
    connection,  \* of the engine's worker
    heard,       \* units the engine was given
    early,       \* Apple ended the task before it had all of the audio
    reply,       \* in the result channel
    given        \* what finish returned

captureVars == <<samples, pending, held, captureError, overtaken, batches>>
engineVars  == <<commands, connection, heard, early, reply>>
inputVars   == <<engine, damaged, source, quiet, sparse, repeated>>
recognitionVars == <<inputVars, phase, captureVars, streamError, engineVars, given>>

Nothing == [ok |-> FALSE, text |-> <<>>, told |-> FALSE]
Ok(text) == [ok |-> TRUE, text |-> text, told |-> TRUE]
Failed   == [Nothing EXCEPT !.told = TRUE]
\* An empty transcript is an error of every engine.
Final(text) == IF text = <<>> THEN Failed ELSE Ok(text)

\* The words of some audio, unit by unit.
Words(audio) ==
    LET said[k \in 0..Len(audio)] ==
          IF k = 0 THEN <<>>
          ELSE IF audio[k] \in quiet THEN said[k - 1]
          ELSE Append(said[k - 1], audio[k])
    IN said[Len(audio)]

Least(a, b)    == IF a < b THEN a ELSE b
Greatest(a, b) == IF a > b THEN a ELSE b
-----------------------------------------------------------------------------
\* What the engines that decode a whole recording make of it.

\* samples.chunks(MAX_SEGMENT_SAMPLES), decoded one by one and appended.
WhisperText(audio) ==
    LET pieces == (Len(audio) + SegmentUnits - 1) \div SegmentUnits IN
    FlattenSeq([k \in 1..pieces |->
        Words(SubSeq(audio, (k - 1) * SegmentUnits + 1, Least(k * SegmentUnits, Len(audio))))])

\* What Silero finds: spans of speech, cut at its longest duration.
WithUnit(spans, u) ==
    IF u \in quiet THEN spans
    ELSE IF spans # <<>> /\ Last(spans)[2] = u - 1
            /\ Last(spans)[2] - Last(spans)[1] < SegmentUnits
    THEN Append(Front(spans), <<Last(spans)[1], u>>)
    ELSE Append(spans, <<u - 1, u>>)

Detected(audio) ==
    LET spans[k \in 0..Len(audio)] ==
          IF k = 0 THEN <<>> ELSE WithUnit(spans[k - 1], audio[k])
    IN spans[Len(audio)]

\* collect_vad_ranges: a span is padded, and joined to the one it reaches.
Widened(spans, d, n) ==
    LET first == IF d[1] = 0 THEN 0 ELSE d[1] - 1
        last  == Least(d[2] + 1, n) IN
    IF spans # <<>> /\ Last(spans)[2] >= first
    THEN Append(Front(spans), <<Last(spans)[1], Greatest(Last(spans)[2], last)>>)
    ELSE Append(spans, <<first, last>>)

SenseVoiceText(audio) ==
    LET spans == Detected(audio)
        ranges[k \in 0..Len(spans)] ==
          IF k = 0 THEN <<>> ELSE Widened(ranges[k - 1], spans[k], Len(audio))
        wide == ranges[Len(spans)] IN
    FlattenSeq([k \in DOMAIN wide |->
        WhisperText(SubSeq(audio, wide[k][1] + 1, wide[k][2]))])

\* The last k words of the text are those the segment has after its first r.
SaidAgain(text, segment, k, r) ==
    /\ r + k <= Len(segment)
    /\ \A i \in 1..k :
          LET said == text[Len(text) - k + i]
              again == segment[r + i] IN
          said = again \/ {said, again} \subseteq repeated

\* deduplicated_segment: the longest end of the transcript that the segment has
\* near its beginning is dropped from it, with what is before, whether it is
\* the overlap or was really said twice.  Too few characters are not compared;
\* the most that are, 64, are more than anybody says in a second.
Joined(text, segment) ==
    LET enough == IF sparse THEN OverlapUnits + 1 ELSE 1
        starts(k) == {r \in 0..SkippedUnits : SaidAgain(text, segment, k, r)}
        lengths == {k \in enough..Len(text) : starts(k) # {}} IN
    IF lengths = {} THEN text \o segment
    ELSE LET longest == Max(lengths) IN
         text \o SubSeq(segment, longest + Min(starts(longest)) + 1, Len(segment))

\* Windows that overlap by a second, until one reaches the end.
Qwen3Text(audio) ==
    LET advance == SegmentUnits - OverlapUnits
        begun(k) == k = 1 \/ (k - 2) * advance + SegmentUnits < Len(audio)
        window(k) == Words(SubSeq(audio, (k - 1) * advance + 1,
                                  Least((k - 1) * advance + SegmentUnits, Len(audio))))
        text[k \in 0..Len(audio)] ==
          IF k = 0 THEN <<>>
          ELSE IF begun(k) THEN Joined(text[k - 1], window(k)) ELSE text[k - 1]
    IN text[Len(audio)]

\* Paraformer decodes as it is given the audio, and the tail at the end.
ParaformerText(audio) == Words(audio)

\* What a local engine answers for the audio it was given.
Transcribed(audio) ==
    CASE engine = "whisper" -> WhisperText(audio)
      [] engine = "senseVoice" -> SenseVoiceText(audio)
      [] engine = "qwen3" -> Qwen3Text(audio)
      [] engine = "paraformer" -> ParaformerText(audio)
-----------------------------------------------------------------------------
\* The files each engine's load finds and compares with their sizes.
ParaformerFiles == {"encoder", "decoder", "tokens"}
WhisperFiles    == {"turbo-encoder", "turbo-decoder", "turbo-tokens"}
SenseVoiceFiles == {"model", "tokens", "silero_vad"}
Qwen3Files      == {"frontend", "encoder", "decoder", "vocabulary", "merges", "tokenizer"}

FilesOf(e) ==
    CASE e = "paraformer" -> ParaformerFiles
      [] e = "whisper"    -> WhisperFiles
      [] e = "senseVoice" -> SenseVoiceFiles
      [] e = "qwen3"      -> Qwen3Files
      [] OTHER            -> {}

RecognitionInit ==
    /\ engine \in Engine
    /\ damaged \in {{}} \cup {{f} : f \in FilesOf(engine)}
    /\ source \in {"live", "restored"}
    /\ quiet \in QuietPatterns
    /\ sparse \in (IF engine = "qwen3" THEN BOOLEAN ELSE {FALSE})
    /\ repeated \in (IF engine = "qwen3" THEN EchoPatterns ELSE {{}})
    /\ phase = "idle"
    /\ samples = <<>> /\ pending = <<>> /\ held = <<>> /\ batches = <<>>
    /\ captureError = FALSE /\ overtaken = FALSE /\ streamError = FALSE
    /\ commands = <<>> /\ connection = "none" /\ heard = <<>> /\ early = FALSE
    /\ reply = Nothing /\ given = Nothing

\* A worker that connects while the recording begins.
VolcengineStarts == phase' = "active" /\ connection' = "connecting"

\* The worker has to be ready before start returns; the controller's lock is
\* held meanwhile.
AppleStarts == phase' = "starting" /\ connection' = "authorizing"

\* AsrSessionController::start.  transcribe has the whole recording.
StartRecognition ==
    /\ phase = "idle"
    /\ CASE damaged # {} -> phase' = "failed" /\ UNCHANGED connection
         [] engine = "volcengine" -> VolcengineStarts
         [] engine = "apple" -> AppleStarts
         [] OTHER -> damaged = {} /\ phase' = "active" /\ UNCHANGED connection
    /\ IF source = "live" THEN UNCHANGED <<samples, pending>>
       ELSE samples' = [u \in 1..MaxUnits |-> u] /\ pending' = samples'
    /\ UNCHANGED <<inputVars, held, captureError, overtaken, batches, streamError,
                   commands, heard, early, reply, given>>

\* The user authorizes the recognition and it is available, or it is refused,
\* is not available, or nobody answers in AUTHORIZATION_TIMEOUT.
Authorized ==
    /\ connection = "authorizing"
    /\ \/ connection' = "open" /\ phase' = "active"
       \/ connection' = "closed" /\ phase' = "failed"
    /\ UNCHANGED <<inputVars, captureVars, streamError, commands, heard, early, reply, given>>

\* connect_async, and the packet with the configuration.  Neither has a limit.
Connected ==
    /\ connection = "connecting"
    /\ connection' = "open"
    /\ UNCHANGED <<inputVars, phase, captureVars, streamError, commands, heard, early,
                   reply, given>>

\* The handshake is refused.
ConnectionRefused ==
    /\ connection = "connecting"
    /\ connection' = "closed" /\ reply' = Failed
    /\ UNCHANGED <<inputVars, phase, captureVars, streamError, commands, heard, early, given>>
-----------------------------------------------------------------------------
\* capture_input, on the device's thread.  The buffer's lock is given back
\* before the batch is offered.
Captures ==
    /\ phase = "active" /\ source = "live" /\ held = <<>>
    /\ \E n \in Callbacks :
          LET units == [k \in 1..n |-> Len(samples) + k]
              full  == pending \o units IN
          /\ Len(samples) + n <= MaxUnits
          /\ samples' = samples \o units
          /\ IF Len(full) < BatchUnits
             THEN pending' = full /\ UNCHANGED held
             ELSE /\ held' = SubSeq(full, 1, BatchUnits)
                  /\ pending' = SubSeq(full, BatchUnits + 1, Len(full))
    /\ UNCHANGED <<inputVars, phase, captureError, overtaken, batches, streamError,
                   engineVars, given>>

\* What does not fit in the channel is an error that stop reports.
OffersBatch ==
    /\ held # <<>> /\ held' = <<>>
    /\ IF Len(batches) < StreamQueue
       THEN batches' = Append(batches, held) /\ UNCHANGED captureError
       ELSE captureError' = TRUE /\ UNCHANGED batches
    /\ UNCHANGED <<inputVars, phase, samples, pending, overtaken, streamError,
                   engineVars, given>>

\* push_audio of the engines: whether the engine takes the batch.
VolcengineTakes == connection # "closed" /\ Len(commands) < CommandQueue
AppleTakes == connection # "closed"
OpenAiTakes(batch) == Len(heard) + Len(batch) <= BufferLimit

Takes(batch) ==
    CASE engine = "volcengine" -> VolcengineTakes
      [] engine = "apple"      -> AppleTakes
      [] engine = "openAi"     -> OpenAiTakes(batch)
      [] OTHER                 -> TRUE

\* Mutant of PushAudio: an engine's error is not kept.
PushAudio_Forgets(batch) ==
    /\ UNCHANGED streamError
    /\ IF ~Takes(batch) THEN UNCHANGED <<commands, heard>>
       ELSE IF engine \in Remote
       THEN commands' = Append(commands, [is |-> "audio", text |-> batch]) /\ UNCHANGED heard
       ELSE heard' = heard \o batch /\ UNCHANGED commands

\* OwnedRecognition::push_audio keeps the first error.  The local engines
\* decode or buffer at once, the others hand the batch to their worker.
PushAudio(batch) ==
    IF ~Takes(batch) THEN streamError' = TRUE /\ UNCHANGED <<commands, heard>>
    ELSE /\ UNCHANGED streamError
         /\ IF engine \in Remote
            THEN /\ commands' = Append(commands, [is |-> "audio", text |-> batch])
                 /\ UNCHANGED heard
            ELSE heard' = heard \o batch /\ UNCHANGED commands

\* The stream worker, as long as the controller owns the recognition; what it
\* brings later is dropped.
StreamWorkerPushes ==
    /\ batches # <<>> /\ batches' = Tail(batches)
    /\ IF phase \in {"active", "stopping"}
       THEN PushAudio(Head(batches))
       ELSE UNCHANGED <<streamError, commands, heard>>
    /\ UNCHANGED <<inputVars, phase, samples, pending, held, captureError, overtaken,
                   connection, early, reply, given>>

\* The rest of the audio is sent to the worker as well; stop waits for room.
StopFlushes ==
    /\ pending' = <<>>
    /\ batches' = IF pending = <<>> THEN batches ELSE Append(batches, pending)

\* cancel of the engines: Volcengine's is lost when the queue is full, but the
\* session is dropped and its worker sees the end of the queue.
SendCancel ==
    commands' = IF engine = "apple" \/ (engine = "volcengine" /\ VolcengineTakes)
                THEN Append(commands, [is |-> "cancel", text |-> <<>>])
                ELSE commands

\* stop, by the worker of a finish: an error of the capture ends the recording,
\* and its recognition is cancelled.
StopRecording ==
    /\ phase = "active" /\ source = "live"
    /\ overtaken' = (held # <<>>)
    /\ IF captureError
       THEN phase' = "cancelled" /\ SendCancel /\ UNCHANGED <<pending, batches>>
       ELSE /\ pending = <<>> \/ Len(batches) < StreamQueue
            /\ StopFlushes /\ phase' = "stopping" /\ UNCHANGED commands
    /\ UNCHANGED <<inputVars, samples, held, captureError, streamError, connection,
                   heard, early, reply, given>>

\* The stream worker is joined, and the recognition taken from the controller.
TakeRecognition ==
    /\ phase = "stopping" /\ batches = <<>> /\ held = <<>>
    /\ phase' = "finishing"
    /\ UNCHANGED <<inputVars, captureVars, streamError, engineVars, given>>

\* cancel, of a dictation that the user gives up.
CancelRecognition ==
    /\ phase = "active" /\ source = "live"
    /\ phase' = "cancelled" /\ SendCancel
    /\ UNCHANGED <<inputVars, captureVars, streamError, connection, heard, early,
                   reply, given>>

\* transcribe pushes the recording as fast as it can; the first error ends it.
TranscribeRestored ==
    /\ phase = "active" /\ source = "restored"
    /\ LET batch == SubSeq(pending, 1, Least(BatchUnits, Len(pending))) IN
       IF pending = <<>>
       THEN phase' = "finishing" /\ UNCHANGED <<pending, streamError, commands, heard, given>>
       ELSE IF Takes(batch)
       THEN /\ PushAudio(batch)
            /\ pending' = SubSeq(pending, Len(batch) + 1, Len(pending))
            /\ UNCHANGED <<phase, given>>
       ELSE /\ phase' = "cancelled" /\ SendCancel /\ given' = Failed
            /\ UNCHANGED <<pending, streamError, heard>>
    /\ UNCHANGED <<inputVars, samples, held, captureError, overtaken, batches,
                   connection, early, reply>>
-----------------------------------------------------------------------------
\* OwnedRecognition::finish: the engine's answer, unless audio was lost.
Answered(answer) ==
    /\ given' = IF streamError THEN Failed ELSE answer
    /\ phase' = "answered"

\* finish of a local engine decodes what is left, or all of it.
DecodeRecording ==
    /\ phase = "finishing" /\ engine \in Local
    /\ Answered(Final(Transcribed(heard)))
    /\ UNCHANGED <<inputVars, captureVars, streamError, engineVars>>

\* The request with the whole recording: its text, or an error or time-out.
OpenAiAnswers ==
    /\ phase = "finishing" /\ engine = "openAi"
    /\ Answered(Final(Words(heard))) \/ Answered(Failed)
    /\ UNCHANGED <<inputVars, captureVars, streamError, engineVars>>

\* finish of a session with a worker: blocking_send waits for room.
SendFinish ==
    /\ phase = "finishing" /\ engine \in Remote
    /\ engine = "apple" \/ connection = "closed" \/ Len(commands) < CommandQueue
    /\ phase' = "waiting"
    /\ commands' = IF connection = "closed" THEN commands
                   ELSE Append(commands, [is |-> "finish", text |-> <<>>])
    /\ UNCHANGED <<inputVars, captureVars, streamError, connection, heard, early,
                   reply, given>>

\* The answer, or the end of the worker, or FINAL_TIMEOUT and two seconds.
ReceiveAnswer ==
    /\ phase = "waiting"
    /\ Answered(IF reply.told THEN reply ELSE Failed)
    /\ UNCHANGED <<inputVars, captureVars, streamError, engineVars>>

Closes(answer) == connection' = "closed" /\ reply' = answer

\* Mutant of VolcengineWorks: a command of a cancelled session is not taken.
VolcengineWorks_Owned ==
    /\ engine = "volcengine" /\ connection = "open" /\ phase # "cancelled"
    /\ commands # <<>> /\ commands' = Tail(commands)
    /\ CASE Head(commands).is = "audio"  -> heard' = heard \o Head(commands).text
                                            /\ connection' \in {"open", "stalled"}
                                            /\ UNCHANGED reply
         [] Head(commands).is = "finish" -> connection' = "finishing" /\ UNCHANGED <<heard, reply>>
         [] Head(commands).is = "cancel" -> Closes(Failed) /\ UNCHANGED heard
    /\ UNCHANGED <<inputVars, phase, captureVars, streamError, early, given>>

\* run_session, one command; none is taken once it finishes, nor while the
\* packet waits for a service that does not read.
VolcengineWorks ==
    /\ engine = "volcengine" /\ connection = "open"
    /\ commands # <<>> /\ commands' = Tail(commands)
    /\ CASE Head(commands).is = "audio"  -> heard' = heard \o Head(commands).text
                                            /\ connection' \in {"open", "stalled"}
                                            /\ UNCHANGED reply
         [] Head(commands).is = "finish" -> connection' = "finishing" /\ UNCHANGED <<heard, reply>>
         [] Head(commands).is = "cancel" -> Closes(Failed) /\ UNCHANGED heard
    /\ UNCHANGED <<inputVars, phase, captureVars, streamError, early, given>>

\* process_events, one event: the results of the task are in the same queue as
\* the commands.
AppleWorks ==
    /\ engine = "apple" /\ connection \in {"open", "finishing"}
    /\ commands # <<>> /\ commands' = Tail(commands)
    /\ LET event == Head(commands) IN
       CASE event.is = "audio"  -> heard' = heard \o event.text /\ UNCHANGED <<connection, reply>>
         [] event.is = "finish" -> connection' = "finishing" /\ UNCHANGED <<heard, reply>>
         [] event.is = "cancel" -> Closes(Nothing) /\ UNCHANGED heard
         [] event.is = "final"  -> Closes(Final(event.text)) /\ UNCHANGED heard
         [] event.is = "error"  -> Closes(Failed) /\ UNCHANGED heard
    /\ UNCHANGED <<inputVars, phase, captureVars, streamError, early, given>>

\* The service reads again.  Nothing limits how long the packet waits.
Resumes ==
    /\ connection = "stalled" /\ connection' = "open"
    /\ UNCHANGED <<inputVars, phase, captureVars, streamError, commands, heard, early,
                   reply, given>>

\* The session was dropped and its queue is empty.
WorkerIsAlone ==
    /\ engine = "volcengine" /\ connection = "open" /\ commands = <<>>
    /\ phase \in {"cancelled", "answered"}
    /\ Closes(Failed)
    /\ UNCHANGED <<inputVars, phase, captureVars, streamError, commands, heard, early, given>>

\* Volcengine's final result; one that comes before the last packet, or that
\* has no text, is not taken for it.
VolcengineFinal ==
    /\ engine = "volcengine" /\ connection = "finishing" /\ Words(heard) # <<>>
    /\ Closes(Ok(Words(heard)))
    /\ UNCHANGED <<inputVars, phase, captureVars, streamError, commands, heard, early, given>>

\* The service rejects the audio, or closes the connection.
VolcengineFails ==
    /\ engine = "volcengine" /\ connection \in {"open", "stalled", "finishing"}
    /\ Closes(Failed)
    /\ UNCHANGED <<inputVars, phase, captureVars, streamError, commands, heard, early, given>>

\* FINAL_TIMEOUT after the last packet.
FinalTimesOut ==
    /\ connection = "finishing"
    /\ Closes(Failed)
    /\ UNCHANGED <<inputVars, phase, captureVars, streamError, commands, heard, early, given>>

\* The result handler, on Apple's queue: a final result or an error, which may
\* come before the audio ended.
AppleResult ==
    /\ engine = "apple" /\ connection \in {"open", "finishing"}
    /\ \A k \in DOMAIN commands : commands[k].is \notin {"final", "error"}
    /\ \/ /\ commands' = Append(commands, [is |-> "final", text |-> Words(heard)])
          /\ early' = (connection = "open")
       \/ /\ commands' = Append(commands, [is |-> "error", text |-> <<>>])
          /\ UNCHANGED early
    /\ UNCHANGED <<inputVars, phase, captureVars, streamError, connection, heard, reply, given>>

Capturing == Captures \/ OffersBatch \/ StreamWorkerPushes
Calling ==
    \/ StartRecognition \/ StopRecording \/ TakeRecognition \/ CancelRecognition
    \/ TranscribeRestored \/ DecodeRecording \/ OpenAiAnswers \/ SendFinish \/ ReceiveAnswer
Working == Authorized \/ VolcengineWorks \/ WorkerIsAlone \/ FinalTimesOut \/ AppleWorks
Service ==
    \/ Connected \/ ConnectionRefused \/ Resumes \/ VolcengineFinal \/ VolcengineFails
    \/ AppleResult

RecognitionNext == Capturing \/ Calling \/ Working \/ Service

RecognitionSpec == RecognitionInit /\ [][RecognitionNext]_recognitionVars

\* The threads run, and the time-outs are kept, the one of the authorization
\* too; the user starts, speaks and stops when it pleases him, and the services
\* owe nothing: neither an answer, nor the handshake of a connection, nor that
\* they read what they are sent.
RecognitionFairness ==
    /\ WF_recognitionVars(OffersBatch) /\ WF_recognitionVars(StreamWorkerPushes)
    /\ WF_recognitionVars(TranscribeRestored \/ TakeRecognition \/ SendFinish \/ ReceiveAnswer)
    /\ WF_recognitionVars(Working)
-----------------------------------------------------------------------------
\* The last word before e, where a window of Qwen3 ends, is said once more in
\* the next window.
EchoedAt(e, n) ==
    \E x \in 1..e, y \in (e - OverlapUnits + 1)..Least(e - OverlapUnits + SegmentUnits, n) :
       /\ x # y /\ {x, y} \subseteq repeated \ quiet
       /\ (x + 1)..e \subseteq quiet

\* Where two windows of n units meet, Qwen3 can tell what both have.
SeamsAreTold(n) ==
    engine = "qwen3" =>
        /\ ~sparse
        /\ \A k \in 1..n :
              LET e == (k - 1) * (SegmentUnits - OverlapUnits) + SegmentUnits IN
              e < n => ~EchoedAt(e, n)

(* A transcript that finish returns has every word of the recording, once    *)
(* and in order: whatever a full queue, a lost connection or a late callback *)
(* cost, is told as an error.  (Not so in four cases the code lets happen:   *)
(* stop may overtake a batch between the two steps of a callback; Apple's    *)
(* task may end before the audio does, and what is on its way to it is lost; *)
(* Qwen3's cannot tell an overlap of fewer than three characters from        *)
(* chance, and has it twice; and it takes a word that ends a window and is   *)
(* said once more in the next one for the overlap, and loses what is         *)
(* between.)                                                                 *)
TranscriptIsWhole ==
    given.ok /\ ~overtaken /\ ~early /\ SeamsAreTold(Len(samples)) => given.text = Words(samples)

\* The worker waits for the service, for as long as that pleases.
AtTheService == connection \in {"connecting", "stalled"}

(* A recognition whose stop began is answered, whatever the service does     *)
(* (only a queue that is full while the worker connects or sends holds it    *)
(* up; once the end of the audio is in it, it is answered in time even so),  *)
(* and the worker of one that was cancelled ends with its connection closed, *)
(* unless it waits for the service.  (An engine without a worker answers in  *)
(* its caller.)                                                              *)
RecognitionEnds ==
    /\ phase \in {"stopping", "finishing"} /\ engine \in Remote
          ~> phase = "answered" \/ (AtTheService /\ Len(commands) = CommandQueue)
    /\ phase = "waiting" ~> phase = "answered"
    /\ phase = "cancelled" ~> connection \in {"none", "closed"} \/ AtTheService
=============================================================================
