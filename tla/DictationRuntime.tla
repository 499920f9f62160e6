-------------------------- MODULE DictationRuntime --------------------------
(***************************************************************************)
(* The threads that run a dictation around the DictationSession slot       *)
(* (apps/desktop/src/recording_runtime.rs, recording_actions.rs,           *)
(* dictation_finish.rs, recording_audio.rs, asr_runtime.rs and             *)
(* crates/app/src/cancelled_recording.rs):                                 *)
(*                                                                         *)
(*   - the shortcut thread, which takes Toggle and Cancel from a channel   *)
(*     and runs begin_recording or cancel to its end;                      *)
(*   - the UI thread, which takes closures from the event loop's queue,    *)
(*     clicks and timers, one at a time;                                   *)
(*   - the audio thread, which finishes a recording at its time limit;     *)
(*   - one worker thread per finished or restored session.                 *)
(*                                                                         *)
(* They share the session slot, the recorder (with its output mute), the   *)
(* slot of the active recognition and the store of the cancelled recording,*)
(* each behind a mutex of its own: one step takes one lock.                *)
(***************************************************************************)
EXTENDS DictationSession, Naturals, Sequences

CONSTANTS
    ChannelBound,   \* bound: shortcut actions waiting in the channel
    SaveBound,      \* bound: saves of the pause flag under way
    SpawnMayFail    \* may std::thread::Builder::spawn fail?

ASSUME ChannelBoundIsNat == ChannelBound \in Nat
ASSUME SaveBoundIsNat == SaveBound \in Nat
ASSUME SpawnMayFailIsBool == SpawnMayFail \in BOOLEAN

VARIABLES
    paused,      \* the tray's "dictation paused" flag
    submitting,  \* the flag the tray's click has still to submit, if any
    saves,       \* flags submitted to the settings worker, in its order
    loopAlive,   \* does the event loop still accept closures?
    chan,        \* shortcut actions sent and not yet taken
    pc,          \* where the shortcut and the UI thread are
    arg,         \* the session identity the thread's handler works for
    got,         \* owner of the recording the handler got, None for an error
    overlay,     \* has the recording overlay been presented?
    uiQueue,     \* closures in the event loop's queue that change state
    asr,         \* AsrSessionController.active: owner of the recognition
    rec,         \* CpalAudioRecorder.active: owner of the capture
    muted,       \* RecordingAudio.mute_session.is_some()
    retained,    \* CancelledRecordingStore.retained: at most one record
    generation,  \* CancelledRecordingStore.generation
    timers,      \* single-shot timers not yet fired
    job,         \* stage of the finish of a session
    handoff      \* what a session's worker hands to the completion

(* History variables: they record what happened and guard nothing.         *)
VARIABLES
    cancelled,   \* identities request_cancel returned to cancel()
    restored,    \* identities of recordings an undo took from the store
    deliveries,  \* how often a text was delivered under an identity
    spoken,      \* owners of the streamed speech that was delivered
    misapplied,  \* a start was reported to a session it does not belong to
    spared       \* the session under way when a failed save paused again

envVars     == <<paused, submitting, saves, spared, loopAlive, overlay>>
threadVars  == <<pc, arg, got>>
deviceVars  == <<asr, rec, muted>>
retainVars  == <<retained, generation>>
jobVars     == <<job, handoff>>
historyVars == <<cancelled, restored, deliveries, spoken, misapplied>>
vars == <<sessionVars, envVars, chan, threadVars,
          uiQueue, deviceVars, retainVars, timers, jobVars, historyVars>>

Owner  == Session \cup {None}
Thread == {"shortcut", "ui"}

(* begin_recording / cancel / apply_recording_start_result / undo, cut at  *)
(* the locks they take.                                                    *)
ShortcutPC == {"idle", "toggle", "begin", "clear", "asr", "mic", "report",
               "cancelAsr", "cancelMic", "cancelReport"}
UiPC == {"idle", "pause", "cancelAsr", "cancelMic", "cancelReport", "dropAsr",
         "rejectAsr", "rejectMic", "mute", "undoBegin", "undoTake"}

(* Here a thread works for no session (yet).                               *)
Unowned == {"idle", "pause", "toggle"}

(* A finish ends "done", or "failed" when no worker could be spawned.      *)
Stage == {"none", "queued", "stop", "take", "deliver", "complete", "done",
          "failed"}

UiEvent == [type : {"started", "startFailed", "cancelled", "finish"},
            id : Session, audio : Owner]
Event(type, s, audio) == [type |-> type, id |-> s, audio |-> audio]

Retained == [id : Session, audio : Owner, generation : Nat, lapsed : BOOLEAN]
MuteTimer(s)   == <<"mute", s>>
ExpireTimer(g) == <<"expire", g>>

Handoff == [captured : BOOLEAN, id : Owner, speech : Owner]
NoHandoff == [captured |-> FALSE, id |-> None, speech |-> None]

EnvTypeOK ==
    /\ paused \in BOOLEAN
    /\ submitting \subseteq BOOLEAN
    /\ saves \in Seq(BOOLEAN)
    /\ spared \subseteq Owner
    /\ loopAlive \in BOOLEAN
    /\ overlay \in BOOLEAN
    /\ chan \in Seq({"Toggle", "Cancel"})

ThreadTypeOK ==
    /\ pc \in [Thread -> ShortcutPC \cup UiPC]
    /\ pc["shortcut"] \in ShortcutPC
    /\ pc["ui"] \in UiPC
    /\ arg \in [Thread -> Owner]
    /\ \A t \in Thread : pc[t] \notin Unowned => arg[t] \in Session
    /\ got \in [Thread -> Owner]

DeviceTypeOK ==
    /\ asr \in Owner
    /\ rec \in Owner
    /\ muted \in BOOLEAN

RetainTypeOK ==
    /\ retained \subseteq Retained
    /\ \A r1, r2 \in retained : r1 = r2
    /\ generation \in Nat
    /\ timers \subseteq ({"mute"} \X Session) \cup ({"expire"} \X Nat)

JobTypeOK ==
    /\ job \in [Session -> Stage]
    /\ handoff \in [Session -> Handoff]

HistoryTypeOK ==
    /\ cancelled \subseteq Session
    /\ restored \subseteq Session
    /\ deliveries \in [Session -> Nat]
    /\ spoken \subseteq Owner
    /\ misapplied \in BOOLEAN

(* A handler always works for a session; at most one recording is retained.*)
TypeOK ==
    /\ SessionTypeOK
    /\ EnvTypeOK
    /\ ThreadTypeOK
    /\ uiQueue \in Seq(UiEvent)
    /\ DeviceTypeOK
    /\ RetainTypeOK
    /\ JobTypeOK
    /\ HistoryTypeOK

Init ==
    /\ SessionInit
    /\ paused \in BOOLEAN      \* restored from the saved settings
    /\ submitting = {}
    /\ saves = <<>>
    /\ spared = {}
    /\ loopAlive = TRUE
    /\ overlay = FALSE
    /\ chan = <<>>
    /\ pc = [t \in Thread |-> "idle"]
    /\ arg = [t \in Thread |-> None]
    /\ got = [t \in Thread |-> None]
    /\ uiQueue = <<>>
    /\ asr = None
    /\ rec = None
    /\ muted = FALSE
    /\ retained = {}
    /\ generation = 0
    /\ timers = {}
    /\ job = [s \in Session |-> "none"]
    /\ handoff = [s \in Session |-> NoHandoff]
    /\ cancelled = {}
    /\ restored = {}
    /\ deliveries = [s \in Session |-> 0]
    /\ spoken = {}
    /\ misapplied = FALSE

-----------------------------------------------------------------------------
(* Helpers: moving a thread, queueing a closure, the device operations.    *)

Goto(t, l) == pc' = [pc EXCEPT ![t] = l]

(* The handler of thread t ends.                                           *)
Return(t) ==
    /\ pc' = [pc EXCEPT ![t] = "idle"]
    /\ arg' = [arg EXCEPT ![t] = None]
    /\ got' = [got EXCEPT ![t] = None]

(* The handler of thread t goes on at l for session s.                     *)
Enter(t, l, s) ==
    /\ pc' = [pc EXCEPT ![t] = l]
    /\ arg' = [arg EXCEPT ![t] = s]
    /\ UNCHANGED got

Queue(e) == uiQueue' = Append(uiQueue, e)

CancelAsr == asr' = None

(* RecordingAudio.stop: the capture ends and the output is restored, also  *)
(* when there was nothing to stop.                                         *)
StopRecorder == rec' = None /\ muted' = FALSE

(* request_toggle or request_finish gave up session s = sid to be finished,*)
(* then finish_recording hands it to the UI thread; with no event loop     *)
(* left it releases everything instead.                                    *)
FinishSession ==
    IF loopAlive
    THEN /\ RequestFinish
         /\ Queue(Event("finish", sid, None))
         /\ job' = [job EXCEPT ![sid] = "queued"]
         /\ UNCHANGED <<handoff, deviceVars>>
    ELSE /\ CanFinish
         /\ Complete
         /\ CancelAsr
         /\ StopRecorder
         /\ UNCHANGED <<uiQueue, jobVars>>

-----------------------------------------------------------------------------
(* CancelledRecordingStore, behind a mutex of its own.                     *)

Restorable == {r \in retained : ~r.lapsed}

(* A mutant: the recording is added to what is retained already.           *)
StoreAdd(s, audio) ==
    /\ generation' = generation + 1
    /\ retained' = retained \cup
           {[id |-> s, audio |-> audio, generation |-> generation',
             lapsed |-> FALSE]}

StoreRetain(s, audio) ==
    /\ generation' = generation + 1
    /\ retained' = {[id |-> s, audio |-> audio, generation |-> generation',
                     lapsed |-> FALSE]}

(* A mutant: take leaves the recording in the store.                       *)
StorePeek == UNCHANGED retained

(* take gives the recording unless its undo window lapsed; it is gone      *)
(* either way.                                                             *)
StoreTake == retained' = {}

(* A mutant: expire drops whatever is retained.                            *)
StoreExpireAny(g) == retained' = {}

(* expire drops the recording of that generation once its window lapsed.   *)
StoreExpire(g) ==
    retained' = {r \in retained : ~(r.generation = g /\ r.lapsed)}

StoreClear == retained' = {}

-----------------------------------------------------------------------------
(* The keyboard: the event tap sends Toggle unless dictation is paused, and*)
(* Cancel (Escape) when a session is recording at that moment.             *)

PressToggle ==
    /\ ~paused
    /\ Len(chan) < ChannelBound
    /\ chan' = Append(chan, "Toggle")
    /\ UNCHANGED <<sessionVars, envVars, threadVars, uiQueue,
                   deviceVars, retainVars, timers, jobVars, historyVars>>

PressEscape ==
    /\ state = "Recording"
    /\ Len(chan) < ChannelBound
    /\ chan' = Append(chan, "Cancel")
    /\ UNCHANGED <<sessionVars, envVars, threadVars, uiQueue,
                   deviceVars, retainVars, timers, jobVars, historyVars>>

-----------------------------------------------------------------------------
(* The shortcut thread takes an action from the channel.                   *)

Takes(action) ==
    /\ pc["shortcut"] = "idle"
    /\ chan # <<>>
    /\ Head(chan) = action
    /\ chan' = Tail(chan)

(* Paused, or the onboarding window took it: nothing happens.              *)
ToggleDropped ==
    /\ Takes("Toggle")
    /\ UNCHANGED <<sessionVars, envVars, threadVars, uiQueue,
                   deviceVars, retainVars, timers, jobVars, historyVars>>

(* The pause flag is read before request_toggle takes the session's lock.  *)
TakeToggle ==
    /\ Takes("Toggle")
    /\ ~paused
    /\ Goto("shortcut", "toggle")
    /\ UNCHANGED <<sessionVars, envVars, arg, got, uiQueue, deviceVars,
                   retainVars, timers, jobVars, historyVars>>

ToggleBegins(s) ==
    /\ pc["shortcut"] = "toggle"
    /\ ToggleStarts(s)
    /\ Enter("shortcut", "begin", s)
    /\ UNCHANGED <<envVars, chan, uiQueue, deviceVars, retainVars, timers,
                   jobVars, historyVars>>

ToggleFinishes ==
    /\ pc["shortcut"] = "toggle"
    /\ FinishSession
    /\ Return("shortcut")
    /\ UNCHANGED <<envVars, chan, retainVars, timers, historyVars>>

(* The session is busy (or the model has no identity left).                *)
ToggleIgnored ==
    /\ pc["shortcut"] = "toggle"
    /\ ~CanFinish
    /\ state = "Idle" => used = Session
    /\ Return("shortcut")
    /\ UNCHANGED <<sessionVars, envVars, chan, uiQueue, deviceVars,
                   retainVars, timers, jobVars, historyVars>>

-----------------------------------------------------------------------------
(* begin_recording, and the microphone permission asked just before it.    *)

BeginDenied ==
    /\ pc["shortcut"] = "begin"
    /\ StartupFailed
    /\ Return("shortcut")
    /\ UNCHANGED <<envVars, chan, uiQueue, deviceVars, retainVars,
                   timers, jobVars, historyVars>>

BeginPaused ==
    /\ pc["shortcut"] = "begin"
    /\ paused
    /\ RequestCancelIfPossible
    /\ Return("shortcut")
    /\ UNCHANGED <<envVars, chan, uiQueue, deviceVars, retainVars,
                   timers, jobVars, historyVars>>

(* A mutant: begin_recording does not look at the flag again.              *)
BeginUnseen ==
    /\ pc["shortcut"] = "begin"
    /\ Goto("shortcut", "clear")
    /\ UNCHANGED <<sessionVars, envVars, chan, arg, got, uiQueue,
                   deviceVars, retainVars, timers, jobVars, historyVars>>

BeginUnpaused ==
    /\ pc["shortcut"] = "begin"
    /\ ~paused
    /\ Goto("shortcut", "clear")
    /\ UNCHANGED <<sessionVars, envVars, chan, arg, got, uiQueue,
                   deviceVars, retainVars, timers, jobVars, historyVars>>

BeginClear ==
    /\ pc["shortcut"] = "clear"
    /\ StoreClear
    /\ Goto("shortcut", "asr")
    /\ UNCHANGED <<sessionVars, envVars, chan, arg, got, uiQueue,
                   deviceVars, generation, timers, jobVars, historyVars>>

BeginAsr ==
    /\ pc["shortcut"] = "asr"
    /\ asr = None
    /\ asr' = arg["shortcut"]
    /\ Goto("shortcut", "mic")
    /\ UNCHANGED <<sessionVars, envVars, chan, arg, got, uiQueue,
                   rec, muted, retainVars, timers, jobVars, historyVars>>

(* A mutant: the error path forgets startup_failed.                        *)
BeginAsrGivesUp ==
    /\ pc["shortcut"] = "asr"
    /\ Return("shortcut")
    /\ UNCHANGED <<sessionVars, envVars, chan, uiQueue, deviceVars, retainVars,
                   timers, jobVars, historyVars>>

(* No provider, a provider error, or a recognition already active.         *)
BeginAsrFails ==
    /\ pc["shortcut"] = "asr"
    /\ StartupFailed
    /\ Return("shortcut")
    /\ UNCHANGED <<envVars, chan, uiQueue, deviceVars, retainVars,
                   timers, jobVars, historyVars>>

(* RecordingAudio.start restores the output first; the capture starts      *)
(* unless one is active or the device fails.                               *)
BeginMic ==
    /\ pc["shortcut"] = "mic"
    /\ muted' = FALSE
    /\ \/ /\ rec = None
          /\ rec' = arg["shortcut"]
          /\ got' = [got EXCEPT !["shortcut"] = arg["shortcut"]]
       \/ UNCHANGED <<rec, got>>
    /\ Goto("shortcut", "report")
    /\ UNCHANGED <<sessionVars, envVars, chan, arg, uiQueue, asr,
                   retainVars, timers, jobVars, historyVars>>

(* queue_recording_start_ui.                                               *)
BeginReport ==
    /\ pc["shortcut"] = "report"
    /\ Return("shortcut")
    /\ IF loopAlive
       THEN /\ Queue(Event(IF got["shortcut"] = None
                              THEN "startFailed" ELSE "started",
                           arg["shortcut"], None))
            /\ UNCHANGED <<sessionVars, deviceVars>>
       ELSE /\ RequestCancelIfPossible
            /\ CancelAsr
            /\ StopRecorder
            /\ UNCHANGED uiQueue
    /\ UNCHANGED <<envVars, chan, retainVars, timers, jobVars,
                   historyVars>>

Begin == \/ BeginDenied \/ BeginPaused \/ BeginUnpaused \/ BeginClear
         \/ BeginAsr \/ BeginAsrFails \/ BeginMic \/ BeginReport

-----------------------------------------------------------------------------
(* cancel, run by the shortcut thread for Escape and by the UI thread for  *)
(* the overlay's button and for the tray's pause.                          *)

(* request_cancel gives up the session; without one, cancel returns.       *)
CancelSession(t) ==
    IF CanCancel
    THEN /\ RequestCancel
         /\ cancelled' = cancelled \cup {sid}
         /\ Enter(t, "cancelAsr", sid)
         /\ UNCHANGED <<restored, deliveries, spoken, misapplied>>
    ELSE /\ Return(t)
         /\ UNCHANGED <<sessionVars, historyVars>>

TakeCancel ==
    /\ Takes("Cancel")
    /\ CancelSession("shortcut")
    /\ UNCHANGED <<envVars, uiQueue, deviceVars, retainVars, timers,
                   jobVars>>

CancelStopsAsr(t) ==
    /\ pc[t] = "cancelAsr"
    /\ CancelAsr
    /\ Goto(t, "cancelMic")
    /\ UNCHANGED <<sessionVars, envVars, chan, arg, got, uiQueue,
                   rec, muted, retainVars, timers, jobVars, historyVars>>

(* recorder.stop gives the recording, or an error (then it is lost).       *)
CancelStopsRecorder(t) ==
    /\ pc[t] = "cancelMic"
    /\ StopRecorder
    /\ \E audio \in {rec, None} : got' = [got EXCEPT ![t] = audio]
    /\ Goto(t, "cancelReport")
    /\ UNCHANGED <<sessionVars, envVars, chan, arg, uiQueue, asr,
                   retainVars, timers, jobVars, historyVars>>

(* Only a recording changes state when the closure runs.                   *)
CancelReport(t) ==
    /\ pc[t] = "cancelReport"
    /\ Return(t)
    /\ IF loopAlive /\ got[t] # None
       THEN Queue(Event("cancelled", arg[t], got[t]))
       ELSE UNCHANGED uiQueue
    /\ UNCHANGED <<sessionVars, envVars, chan, deviceVars,
                   retainVars, timers, jobVars, historyVars>>

Cancelling(t) == CancelStopsAsr(t) \/ CancelStopsRecorder(t) \/ CancelReport(t)

ShortcutStep ==
    \/ ToggleDropped
    \/ TakeToggle
    \/ \E s \in Session : ToggleBegins(s)
    \/ ToggleFinishes
    \/ ToggleIgnored
    \/ TakeCancel
    \/ Begin
    \/ Cancelling("shortcut")

-----------------------------------------------------------------------------
(* The UI thread takes a closure from the event loop's queue.              *)

UiIdle == pc["ui"] = "idle" /\ loopAlive /\ submitting = {}

Receives(type, s, audio) ==
    /\ UiIdle
    /\ uiQueue # <<>>
    /\ Head(uiQueue) = Event(type, s, audio)
    /\ uiQueue' = Tail(uiQueue)

(* apply_recording_start_result, the recorder did not start.               *)
UiStartFailed(s) ==
    /\ Receives("startFailed", s, None)
    /\ StartupFailed
    /\ Enter("ui", "dropAsr", s)
    /\ misapplied' = (misapplied \/ (state = "Starting" /\ sid # s))
    /\ UNCHANGED <<envVars, chan, deviceVars, retainVars, timers, jobVars,
                   cancelled, restored, deliveries, spoken>>

UiDropsAsr ==
    /\ pc["ui"] = "dropAsr"
    /\ CancelAsr
    /\ Return("ui")
    /\ UNCHANGED <<sessionVars, envVars, chan, uiQueue, rec, muted,
                   retainVars, timers, jobVars, historyVars>>

(* The recorder started and a session was starting.  With feedback sounds  *)
(* the output is muted by a timer after the start sound, without them now. *)
UiStarted(s) ==
    /\ Receives("started", s, None)
    /\ RecordingStarted
    /\ \/ /\ timers' = timers \cup {MuteTimer(s)}
          /\ UNCHANGED threadVars
       \/ /\ Enter("ui", "mute", s)
          /\ UNCHANGED timers
    /\ overlay' = TRUE
    /\ misapplied' = (misapplied \/ sid # s)
    /\ UNCHANGED <<paused, submitting, saves, spared, loopAlive, chan,
                   deviceVars, retainVars, jobVars, cancelled,
                   restored, deliveries, spoken>>

(* The recorder started but no session is starting any more.               *)
UiStartRejected(s) ==
    /\ Receives("started", s, None)
    /\ RecordingNotStarted
    /\ Enter("ui", "rejectAsr", s)
    /\ UNCHANGED <<envVars, chan, deviceVars, retainVars, timers,
                   jobVars, historyVars>>

RejectStopsAsr ==
    /\ pc["ui"] = "rejectAsr"
    /\ CancelAsr
    /\ Goto("ui", "rejectMic")
    /\ UNCHANGED <<sessionVars, envVars, chan, arg, got, uiQueue,
                   rec, muted, retainVars, timers, jobVars, historyVars>>

(* A mutant: the recorder of a rejected start keeps running.               *)
RejectLeavesRecorder ==
    /\ pc["ui"] = "rejectMic"
    /\ Return("ui")
    /\ UNCHANGED <<sessionVars, envVars, chan, uiQueue, deviceVars,
                   retainVars, timers, jobVars, historyVars>>

RejectStopsRecorder ==
    /\ pc["ui"] = "rejectMic"
    /\ StopRecorder
    /\ Return("ui")
    /\ UNCHANGED <<sessionVars, envVars, chan, uiQueue, asr,
                   retainVars, timers, jobVars, historyVars>>

(* begin_output_mute under the recorder's lock; the setting may be off and *)
(* the system may refuse.  It does not ask whether a capture is active.    *)
UiMutes ==
    /\ pc["ui"] = "mute"
    /\ muted' \in {muted, TRUE}
    /\ Return("ui")
    /\ UNCHANGED <<sessionVars, envVars, chan, uiQueue, asr, rec,
                   retainVars, timers, jobVars, historyVars>>

(* The closure of finish_recording spawns the worker.                      *)
UiFinish(s) ==
    /\ Receives("finish", s, None)
    /\ \/ /\ job' = [job EXCEPT ![s] = "stop"]
          /\ UNCHANGED <<sessionVars, threadVars>>
       \/ /\ SpawnMayFail
          /\ job' = [job EXCEPT ![s] = "failed"]
          /\ Complete
          /\ Enter("ui", "dropAsr", s)
    /\ UNCHANGED <<envVars, chan, deviceVars, retainVars, timers,
                   handoff, historyVars>>

(* The closure of cancel retains the recording and starts its undo window. *)
UiRetains(s, audio) ==
    /\ Receives("cancelled", s, audio)
    /\ StoreRetain(s, audio)
    /\ timers' = timers \cup {ExpireTimer(generation')}
    /\ UNCHANGED <<sessionVars, envVars, chan, threadVars,
                   deviceVars, jobVars, historyVars>>

UiClosure ==
    \E s \in Session :
        \/ UiStartFailed(s)
        \/ UiStarted(s)
        \/ UiStartRejected(s)
        \/ UiFinish(s)
        \/ \E audio \in Session : UiRetains(s, audio)

-----------------------------------------------------------------------------
(* Clicks.  The overlay's buttons also answer the accessibility action,    *)
(* which no mode of the overlay disables: once the overlay was presented   *)
(* any of them may come (that it is hidden in between is left out).        *)

ClickFinish ==
    /\ UiIdle
    /\ overlay
    /\ FinishSession
    /\ UNCHANGED <<envVars, chan, threadVars, retainVars, timers,
                   historyVars>>

ClickCancel ==
    /\ UiIdle
    /\ overlay
    /\ CanCancel
    /\ CancelSession("ui")
    /\ UNCHANGED <<envVars, chan, uiQueue, deviceVars, retainVars,
                   timers, jobVars>>

(* The tray flips the flag; a pause then cancels; at the end of the click  *)
(* the flag is submitted to be saved.                                      *)
ClickPause ==
    /\ UiIdle
    /\ Len(saves) < SaveBound
    /\ paused' = ~paused
    /\ submitting' = {paused'}
    /\ spared' = {}
    /\ IF paused' THEN Goto("ui", "pause") ELSE UNCHANGED pc
    /\ UNCHANGED <<saves, sessionVars, loopAlive, overlay, chan, arg, got, uiQueue,
                   deviceVars, retainVars, timers, jobVars, historyVars>>

PauseCancels ==
    /\ pc["ui"] = "pause"
    /\ CancelSession("ui")
    /\ UNCHANGED <<envVars, chan, uiQueue, deviceVars, retainVars,
                   timers, jobVars>>

(* rollback_pause: the flag goes back to what it was before the click; a   *)
(* failed unpause pauses again, and cancels nothing.                       *)
RollbackPause(attempted) ==
    /\ paused' = ~attempted
    /\ spared' = IF paused' /\ ~paused /\ state \in {"Starting", "Recording"}
                 THEN {sid} ELSE spared

(* The settings worker's queue takes the save, or is full.                 *)
SubmitPause ==
    /\ pc["ui"] = "idle"
    /\ \E attempted \in submitting :
         \/ saves' = Append(saves, attempted) /\ UNCHANGED <<paused, spared>>
         \/ RollbackPause(attempted) /\ UNCHANGED saves
    /\ submitting' = {}
    /\ UNCHANGED <<sessionVars, loopAlive, overlay, chan, threadVars, uiQueue,
                   deviceVars, retainVars, timers, jobVars, historyVars>>

(* The closure with the worker's answer: a save that failed is rolled back.*)
PauseSaveAnswered ==
    /\ UiIdle
    /\ saves # <<>>
    /\ saves' = Tail(saves)
    /\ \/ UNCHANGED <<paused, spared>>
       \/ RollbackPause(Head(saves))
    /\ UNCHANGED <<sessionVars, submitting, loopAlive, overlay, chan,
                   threadVars, uiQueue, deviceVars, retainVars, timers, jobVars,
                   historyVars>>

PauseSave == SubmitPause \/ PauseSaveAnswered

(* undo_cancelled_recording: reads the slot's identity, ...                *)
ClickUndo ==
    /\ UiIdle
    /\ overlay
    /\ sid # None
    /\ Enter("ui", "undoBegin", sid)
    /\ UNCHANGED <<sessionVars, envVars, chan, uiQueue, deviceVars,
                   retainVars, timers, jobVars, historyVars>>

(* ... takes the slot with it if it is free, ...                           *)
UndoBegins ==
    /\ pc["ui"] = "undoBegin"
    /\ IF state = "Idle"
       THEN /\ BeginRetainedProcessing(arg["ui"])
            /\ Goto("ui", "undoTake")
            /\ UNCHANGED <<arg, got>>
       ELSE /\ Return("ui")
            /\ UNCHANGED sessionVars
    /\ UNCHANGED <<envVars, chan, uiQueue, deviceVars, retainVars,
                   timers, jobVars, historyVars>>

(* ... and takes what the store retains.                                   *)
UndoRestores ==
    /\ pc["ui"] = "undoTake"
    /\ \E r \in Restorable :
         /\ restored' = restored \cup {r.id}
         /\ \/ /\ job' = [job EXCEPT ![arg["ui"]] = "deliver"]
               /\ handoff' = [handoff EXCEPT ![arg["ui"]] =
                     [captured |-> FALSE, id |-> r.id, speech |-> r.audio]]
               /\ UNCHANGED sessionVars
            \/ /\ SpawnMayFail
               /\ job' = [job EXCEPT ![arg["ui"]] = "failed"]
               /\ Complete
               /\ UNCHANGED handoff
    /\ StoreTake
    /\ Return("ui")
    /\ UNCHANGED <<envVars, chan, uiQueue, deviceVars, generation,
                   timers, cancelled, deliveries, spoken, misapplied>>

UndoFindsNothing ==
    /\ pc["ui"] = "undoTake"
    /\ Restorable = {}
    /\ StoreTake
    /\ Complete
    /\ Return("ui")
    /\ UNCHANGED <<envVars, chan, uiQueue, deviceVars, generation,
                   timers, jobVars, historyVars>>

Click == ClickFinish \/ ClickCancel \/ ClickPause \/ ClickUndo

UiHandler ==
    \/ UiDropsAsr \/ RejectStopsAsr \/ RejectStopsRecorder \/ UiMutes
    \/ PauseCancels \/ Cancelling("ui")
    \/ UndoBegins \/ UndoRestores \/ UndoFindsNothing

-----------------------------------------------------------------------------
(* Timers run on the UI thread.                                            *)

(* schedule_output_audio_mute: the session is looked at first, the         *)
(* recorder's lock is taken afterwards.                                    *)
MuteTimerFires(s) ==
    /\ UiIdle
    /\ MuteTimer(s) \in timers
    /\ timers' = timers \ {MuteTimer(s)}
    /\ IF sid = s /\ state = "Recording"
       THEN Enter("ui", "mute", s)
       ELSE UNCHANGED threadVars
    /\ UNCHANGED <<sessionVars, envVars, chan, uiQueue, deviceVars,
                   retainVars, jobVars, historyVars>>

(* The undo window of the retained recording has passed.                   *)
WindowLapses ==
    /\ \E r \in Restorable : retained' = {[r EXCEPT !.lapsed = TRUE]}
    /\ UNCHANGED <<sessionVars, envVars, chan, threadVars, uiQueue,
                   deviceVars, generation, timers, jobVars, historyVars>>

(* The timer started with a recording fires after that recording's window. *)
ExpireTimerFires(g) ==
    /\ UiIdle
    /\ ExpireTimer(g) \in timers
    /\ \A r \in retained : r.generation = g => r.lapsed
    /\ timers' = timers \ {ExpireTimer(g)}
    /\ StoreExpire(g)
    /\ UNCHANGED <<sessionVars, envVars, chan, threadVars, uiQueue,
                   deviceVars, generation, jobVars, historyVars>>

TimerFires ==
    \/ \E s \in Session : MuteTimerFires(s)
    \/ \E g \in 1..generation : ExpireTimerFires(g)

-----------------------------------------------------------------------------
(* The audio thread: the capture reached its time limit.                   *)

LimitReached ==
    /\ rec # None
    /\ FinishSession
    /\ UNCHANGED <<envVars, chan, threadVars, retainVars, timers,
                   historyVars>>

-----------------------------------------------------------------------------
(* The worker of session s (finish_recording_worker, finish_worker).       *)

WorkerAt(s, from, to) ==
    /\ job[s] = from
    /\ job' = [job EXCEPT ![s] = to]
    /\ UNCHANGED <<envVars, chan, threadVars, uiQueue, retainVars,
                   timers, cancelled, restored, misapplied>>

(* An active capture is stopped (the stop may fail); without one the worker*)
(* goes on with an error and does not call stop.                           *)
WorkerStops(s) ==
    /\ WorkerAt(s, "stop", "take")
    /\ \E ok \in BOOLEAN :
         /\ handoff' = [handoff EXCEPT ![s] =
                            [captured |-> ok, id |-> s, speech |-> None]]
         /\ IF rec # None
            THEN StopRecorder
            ELSE ~ok /\ UNCHANGED <<rec, muted>>
    /\ UNCHANGED <<sessionVars, asr, deliveries, spoken>>

(* The recognition is taken either way; without a recording it is only     *)
(* cancelled, and without a recognition there is nothing to complete.      *)
WorkerTakes(s) ==
    /\ LET delivers == handoff[s].captured /\ asr # None
       IN  /\ WorkerAt(s, "take", IF delivers THEN "deliver" ELSE "complete")
           /\ handoff' = [handoff EXCEPT ![s].speech = asr]
    /\ asr' = None
    /\ UNCHANGED <<sessionVars, rec, muted, deliveries, spoken>>

(* DictationCompletion.complete, seen from outside: it fails before the    *)
(* delivery, or delivers once.                                             *)
WorkerDelivers(s) ==
    /\ WorkerAt(s, "deliver", "complete")
    /\ \/ UNCHANGED <<deliveries, spoken>>
       \/ /\ deliveries' = [deliveries EXCEPT ![handoff[s].id] = @ + 1]
          /\ spoken' = IF handoff[s].captured
                       THEN spoken \cup {handoff[s].speech} ELSE spoken
    /\ UNCHANGED <<sessionVars, deviceVars, handoff>>

WorkerCompletes(s) ==
    /\ WorkerAt(s, "complete", "done")
    /\ Complete
    /\ UNCHANGED <<deviceVars, handoff, deliveries, spoken>>

WorkerStep(s) ==
    WorkerStops(s) \/ WorkerTakes(s) \/ WorkerDelivers(s) \/ WorkerCompletes(s)

-----------------------------------------------------------------------------
(* The application quits: the event loop ends and takes nothing any more.  *)
Quit ==
    /\ UiIdle
    /\ loopAlive' = FALSE
    /\ UNCHANGED <<sessionVars, paused, submitting, saves, spared, overlay,
                   chan, threadVars, uiQueue, deviceVars, retainVars, timers,
                   jobVars, historyVars>>

Next ==
    \/ PressToggle \/ PressEscape \/ Click \/ Quit \/ WindowLapses
    \/ ShortcutStep
    \/ UiClosure \/ UiHandler \/ TimerFires \/ PauseSave
    \/ LimitReached
    \/ \E s \in Session : WorkerStep(s)

Spec == Init /\ [][Next]_vars

(***************************************************************************)
(* Fairness.  Threads run: a handler that started goes on, a queued        *)
(* shortcut action is taken, a worker makes its next step.  The event loop *)
(* takes its closures in the order they came and looks at its timers on    *)
(* every turn, so that clicks, however many, do not keep it from either:   *)
(* strong fairness.  Nothing is assumed of the user, of the undo window or *)
(* of Quit.                                                                *)
(***************************************************************************)
Fairness ==
    /\ WF_vars(ShortcutStep)
    /\ WF_vars(UiHandler)
    /\ WF_vars(SubmitPause)
    /\ SF_vars(UiClosure)
    /\ SF_vars(TimerFires)
    /\ \A s \in Session : WF_vars(WorkerStep(s))

FairSpec == Spec /\ Fairness

-----------------------------------------------------------------------------
(* Properties.                                                             *)

(* The threads have nothing left to do: only the user or a time limit can  *)
(* make the next step.                                                     *)
Finishing(s) == job[s] \in {"queued", "stop", "take", "deliver", "complete"}

Quiescent ==
    /\ loopAlive
    /\ \A t \in Thread : pc[t] = "idle"
    /\ submitting = {}
    /\ uiQueue = <<>>
    /\ \A s \in Session : ~Finishing(s)

(* The undo handler holds the slot for session s.                          *)
Undoing(s) == pc["ui"] = "undoTake" /\ arg["ui"] = s

(* The Finishing state is a token: exactly one job (a queued finish, a     *)
(* worker, or an undo that looks for its recording) holds it, for the      *)
(* session in the slot, so that DictationSession::complete, which asks     *)
(* nothing, never ends another session.                                    *)
FinishHasOneOwner ==
    /\ \A s \in Session :
         Finishing(s) \/ Undoing(s) => state = "Finishing" /\ sid = s
    /\ state = "Finishing" =>
         \E s \in Session : Finishing(s) \/ Undoing(s)
    /\ \A s \in Session : ~(Finishing(s) /\ Undoing(s))

(* Whatever the order of toggles, cancels, undos and limits: the text of a *)
(* session is delivered at most once, and never after a cancel unless an   *)
(* undo took its recording back.                                           *)
DeliveredAtMostOnce == \A s \in Session : deliveries[s] <= 1

CancelledIsNotDelivered ==
    \A s \in cancelled : deliveries[s] > 0 => s \in restored

(* A recording is delivered once at most, and a cancelled one only when it  *)
(* was restored, however the two threads, the undo and the timers meet.     *)
DeliveredAsWanted == DeliveredAtMostOnce /\ CancelledIsNotDelivered

(* recording_started and startup_failed do not say which session they are  *)
(* about: the report of a cancelled start may meet the next session that   *)
(* is starting and be taken for its own.  What that breaks, and what still *)
(* holds as long as it has not happened, are different questions; the      *)
(* properties below are about the second one (~misapplied), the first one  *)
(* is CancelledSpeechIsNotDelivered.                                       *)

(* When everything has come to rest with no session, the microphone and the*)
(* recognition are released: no interleaving of a start with a cancel or a *)
(* finish leaves one running that no session owns.  The capture stays on,  *)
(* though, when the worker that would have stopped it could not be spawned.*)
IdleReleasesDevices ==
    Quiescent /\ state = "Idle" /\ ~misapplied =>
        asr = None /\ (rec = None \/ \E s \in Session : job[s] = "failed")

(* A pause wins against every start under way, also against a toggle that  *)
(* read the flag before it was set: once the handlers have run, nothing    *)
(* records while dictation is paused.  One session is spared: the one that *)
(* was under way when the save of an unpause failed and its rollback paused*)
(* again, which cancels nothing (rollback_pause).                          *)
PausedStopsRecording ==
    Quiescent /\ paused /\ state \in {"Starting", "Recording"} =>
        misapplied \/ sid \in spared

(* A recording inside its undo window leaves the store only for an undo, or*)
(* because a new session begins or a newer cancelled recording replaces it;*)
(* the timer of an older cancel does not drop it.                          *)
FreshRecordingIsKept ==
    [][\A r \in Restorable :
          \/ \E q \in retained' : q.id = r.id /\ q.generation = r.generation
          \/ r.id \in restored'
          \/ pc["shortcut"] = "clear" /\ pc'["shortcut"] = "asr"
          \/ generation' > generation]_vars

(* Every finish ends: the session does not stay in Finishing.              *)
FinishEnds == state = "Finishing" ~> state # "Finishing" \/ ~loopAlive

(* Every start is answered.                                                *)
StartEnds == state = "Starting" ~> state # "Starting" \/ ~loopAlive

(* However a start or a finish goes wrong, the slot is free for the next    *)
(* dictation in the end: every error path gives it back.                    *)
SlotIsGivenBack == FinishEnds /\ StartEnds

-----------------------------------------------------------------------------
(* DictationRuntime implements DictationLifecycle.                         *)

phaseBar == [s \in Session |->
    IF sid = s
    THEN CASE state \in {"Starting", "Recording"} -> "live"
           [] state = "Idle" -> "cancelled"
           [] state = "Finishing" ->
                IF job[s] = "complete" THEN "closing" ELSE "finishing"
    ELSE IF s \in used THEN "over" ELSE "new"]

deliveredBar == {s \in Session : deliveries[s] > 0}

Lifecycle == INSTANCE DictationLifecycle
                 WITH phase <- phaseBar, delivered <- deliveredBar

(* Every step of the threads is a step of the lifecycle or leaves it alone:*)
(* no interleaving lets a second session in, ends a finish that is not its *)
(* own, or delivers the text of one identity twice.                        *)
ImplementsLifecycle == Lifecycle!Spec

-----------------------------------------------------------------------------
(* What the documents promise and an interleaving breaks.                  *)

(* CONTEXT.md:11: the undo of a cancelled session goes on under that       *)
(* session's own identity.                                                 *)
RestoredKeepsIdentity ==
    \A s \in Session :
        job[s] \in {"deliver", "complete"} /\ ~handoff[s].captured
            /\ handoff[s].id # None => handoff[s].id = s

(* CONTEXT.md:19: cancelling ends the processing of a session; its speech  *)
(* is not delivered unless the cancel is undone.                           *)
CancelledSpeechIsNotDelivered == spoken \cap cancelled \subseteq restored

(* CONTEXT.md:112: the output is restored as soon as the recording ends.   *)
MuteEndsWithRecording == Quiescent /\ rec = None => ~muted
=============================================================================
