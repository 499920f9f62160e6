# Saymore in TLA+

Saymore is a desktop dictation program: a shortcut starts a recording, speech
is recognised while it runs, the transcript is optionally refined by a language
model and the text is written into whatever control has the focus.  The
program is a handful of threads around a few mutexes.  Most of its bugs would
be orders of steps nobody tried: a cancel between a start and its report, an
undo after a second start, a delivery that is late.  This directory models
those parts, checks them with TLC on small instances and proves the central
invariants with TLAPS for every instance.

Paths are relative to the repository (`src/` in `PROJECT.json`).

## 1. Inventory

`crates/app` holds the program's own logic, `crates/infra` the adapters to the
operating system, the databases and the networks, `apps/desktop` the threads
and the user interface (Slint), `crates/xtask` the release scripts.

| Component | State | Operations | Talks to | Hard part |
|---|---|---|---|---|
| Session slot, `crates/app/src/dictation_session.rs` | one state (Idle, Starting, Recording, Finishing) and one identity behind a mutex | toggle, started, failed, finish, cancel, retained, complete | everybody | most calls do not say which session they mean |
| Runtime threads, `apps/desktop/src/recording_*.rs`, `dictation_finish.rs`, `status_tray.rs` | queues: shortcut channel, event loop, timers, workers | start, report, cancel, undo, pause, limit, finish | slot, recorder, recognition, store | four kinds of threads, late reports |
| Cancelled-recording store, `crates/app/src/cancelled_recording.rs` | one recording, a generation | retain, take, expire, clear | cancel, undo, a timer | an old timer against a new recording |
| Recorder and output mute, `recording_audio.rs`, `cpal_audio_recorder.rs`, `*_system_audio.rs` | active capture, mute session | start, stop, mute | runtime threads | mute after stop |
| Recognition controller, `asr_runtime.rs` | active recognition, model caches | start, push, take, cancel | runtime threads, recognisers | who owns the active one |
| Completion, `dictation_completion.rs`, `dictation_completion_runtime.rs` | a policy snapshot per dictation | finalise, refine, deliver, persist | refinement, delivery, history | what may be stored after which outcome |
| Refinement, `final_text_processing.rs`, `refinement_policy.rs`, `chat_completions_llm.rs` | a processor with its circuit | plan, request, validate | completion, network | answers that change the facts, late outcomes |
| Recognisers, `*_asr.rs`, `macos_speech.rs` | sessions with bounded queues | start, push, finish, cancel | controller, network, system | audio lost or doubled, silent services |
| Correction observation, `history_revision.rs`, `correction_observation.rs` | latest snapshot, recorder state | observe, finish | delivery, history, learning | the observation may end before or after the completion |
| Text delivery, `macos_text_delivery*`, `windows_text_delivery*` | step machine on the main thread, borrowed clipboard, timeout | resolve, insert, verify, paste, restore | the focused program | a timeout racing a late insertion, the user's clipboard |
| Model downloads, `local_model_runtime/download.rs` | at most two active, a FIFO queue, saved queue | enqueue, pause, resume, cancel, settle | installer, storage | pause, cancel and resume against the worker's end |
| Model installer, `model_installer.rs` | staging, installed and backup directories, marker | download, verify, activate, recover | file system | a crash between two renames |
| Local model lifecycle, `local_model_runtime/lifecycle.rs` | provider catalog, installed models | activate, delete, reconcile | settings store | check then act between load and save |
| Local settings queue, `local_settings_mutation.rs`, `local_settings_runtime.rs` | bounded FIFO, one writer | submit, apply, roll back | storage, tray, settings page | optimistic values and late failures |
| Providers and secrets, `provider_configuration.rs`, `settings_ui/*`, `json_settings_store.rs`, `platform_secret_store.rs` | configuration, test results, discovery generations | test, save, discover | network | stale answers |
| Storage worker and history, `sqlite_storage/*` | one connection on one thread, encrypted rows | insert, update, delete, clean up | everybody | order of requests, key state |
| Dictionary learning, `dictionary_learning.rs` | evidence per candidate | observe, promote, suppress | storage | evidence of different dictations |
| Shortcut monitors, `macos_shortcut_monitor/*`, `windows_shortcut_*` | pressed modifiers, registered shortcuts | press, release, capture, register | runtime | chords, partial registration |
| History and dictionary pages, `local_data_ui/*` | list, cursor, generation, drafts | search, load more, delete and undo, save words | storage | late answers, old timers |
| Schema migrations, `migrations.rs` | schema version | one transaction each | storage | launches interrupted in between |
| Onboarding, permissions, instance guard, updates, licensing, diagnostics, usage | small | sequential | - | little concurrency |

What makes each correct is what its properties in section 10 say; section 12
names the parts that are not modelled, with the reason, section 13 what is left.

## 2. Modules

| Module | What it is |
|---|---|
| `DictationSession` | the slot: each method of the mutex as an operator |
| `DictationRuntime` | the threads around it, the recorder, the recognition slot, the store and the timers |
| `DictationLifecycle` | what a dictation promises per identity, without threads |
| `MCDictation` | two sessions for TLC |
| `TextDelivery` | the delivery of a text on macOS: worker, session machine of the main thread, clipboard, focused program |
| `MCTextDelivery` | two deliveries, for `MCPlatforms` and `MCRecognition` |
| `WindowsDelivery` | the delivery on Windows: command queue, delivery thread, clipboard, observation |
| `WindowsShortcuts` | the shortcuts of Windows: page, registrations, monitor, Right Alt hook, captures |
| `MacShortcuts` | the shortcuts of macOS: event tap, polling, the window's own capture |
| `MCPlatforms` | the four adapters for TLC |
| `SpeechRecognition` | from the audio callback to the transcript, with the seven engines |
| `MCRecognition` | recognitions and deliveries under fairness for TLC |
| `TranscriptRefinement` | from the transcript to the delivered text: cleaning, plan, circuit, the client's errors, validation |
| `HistoryRecord` | what the history promises about a record, without threads |
| `DictationCompletion` | from the transcript to the history record: policy, delivery, observation, revision recorder, storage |
| `MCDictationCompletion` | two completions for TLC |
| `ModelDownload` | the local model downloads: coordinator, download and cancel threads, cards, queue rows, installer, restart |
| `MCModelDownload` | two models and one slot for TLC |
| `LocalModelLifecycle` | choosing, activating, testing, deleting local models, and the punctuation model |
| `LocalSettings` | the preferences: queue, writer, optimistic controls, exit; the vocabulary suggestion run |
| `ProviderSettings` | providers.json and the models page: drafts, tests, the privacy question |
| `HistoryStorage` | the encrypted rows, their key, reset, expiry and the usage counters |
| `SchemaMigrations` | the database brought to the current schema, with interrupted launches |
| `DictionaryLearning` | evidence per dictation, promotion, refusal, the user's edits |
| `RevisionReview` | what a revision, or the history, suggests to the dictionary |
| `LocalDataPages` | the history page and the dictionary page with their late answers |
| `MCPreferences` | the eight above and `TranscriptRefinement` for TLC |
| `DictationRuntime_proofs`, `DictationCompletion_proofs` | TLAPS proofs about the module of that name |
| `Speech_proofs` | proofs about `ModelDownload` and `SpeechRecognition` |
| `Platforms_proofs` | proofs about the adapters: `TextDelivery`, `WindowsDelivery`, `WindowsShortcuts`, `MacShortcuts`, and their composition `MCPlatforms` |
| `LocalData_proofs` | proofs about what is stored: `HistoryStorage`, `DictionaryLearning`, `SchemaMigrations`, `LocalDataPages` |
| `Preferences_proofs` | proofs about `LocalSettings`, `LocalModelLifecycle`, `ProviderSettings` |
| `Texts_proofs` | proofs about `TranscriptRefinement`, `RevisionReview` |
| `MCPreferences_proofs` | proofs about the composition `MCPreferences`, from the theorems about its parts |

Three modules cut one dictation at its seams.  `DictationRuntime` ends with
`WorkerDelivers`, which `DictationCompletion` spells out from the transcript to
the record; its delivery (`StartDelivery`, `CompleteDelivery`, `DropDelivery`) is what
`TextDelivery` and `WindowsDelivery` spell out, of which it keeps the privacy of the target, the
answer and the time-out.  All three admit one dictation at a time before its delivery,
which is what `FinishHasOneOwner` gives.  What `DictationRuntime` calls the
recognition is `SpeechRecognition`; what becomes of the transcript before the
delivery is `TranscriptRefinement`.  The shortcut modules are the senders of
`DictationRuntime`'s channel.  A revision that `DictationCompletion` or
`WindowsDelivery` observed is assessed in `RevisionReview` and counted in
`DictionaryLearning`.  The other modules share nothing with a dictation but
stored values, which a dictation reads once (its policy snapshot).

### Compositions by choice

`MCPlatforms`, `MCRecognition` and `MCPreferences` put modules side by side that
share no variable.  Their product would say nothing more about any of them, so a behaviour is one of
one module, chosen in the initial state, and the others stay in an initial state of
theirs (one of those in which none of their fair actions is enabled, where there is fairness).
An invariant of a module holds in the composition exactly when it holds in the
module alone: each module's initial states and steps are all there when it is
chosen, and its initial states satisfy it when it is not.

## 3. DictationSession, DictationRuntime, DictationLifecycle

### State

| Variables | Code |
|---|---|
| `state`, `sid`, `used` | `DictationSession`'s mutex-protected state and identity; the identities handed out so far |
| `paused`, `submitting`, `saves` | the tray's pause flag; the value the click has still to submit; the values submitted to the settings worker whose answer has not come |
| `overlay`, `loopAlive` | the presented overlay, whether the Slint event loop still takes closures |
| `chan` | the channel between the global shortcut monitor and the shortcut thread |
| `pc`, `arg`, `got` | where the shortcut thread and the UI thread are inside `begin_recording`, `cancel`, `apply_recording_start_result`, the pause or the undo; which session the handler's local variable names; what the recorder gave back |
| `uiQueue` | closures queued with `invoke_from_event_loop`: start reports, recordings to retain, finishes |
| `asr`, `rec`, `muted` | `AsrSessionController.active`, `CpalAudioRecorder.active`, `RecordingAudio.mute_session`: who owns what is running |
| `retained`, `generation`, `timers` | `CancelledRecordingStore` and the single-shot Slint timers (undo window, delayed mute) |
| `job`, `handoff` | one worker thread per finished or restored session and what it hands to the completion |

`cancelled`, `restored`, `deliveries`, `spoken`, `misapplied` and `spared` are
history variables: actions write them, no guard reads them.

### Steps

One step takes one lock.  Handlers that hold no lock across two calls are cut
between them, because another thread may run there: `begin_recording` is eight
steps (`TakeToggle`, `ToggleBegins`, `BeginPaused`/`BeginUnpaused`,
`BeginClear`, `BeginAsr`, `BeginMic`, `BeginReport`), a cancel is four, a
worker four.  A closure of the event loop that takes one lock is one step.  The
UI thread runs one handler at a time (`UiIdle`); timers and clicks run on it
too, so they never come inside a handler.  `PressToggle` and `PressEscape` are
the monitor's sends, the clicks are the overlay's, the tray's and the undo
prompt's callbacks.  The click on pause sets the flag at once; at its end the flag
is submitted to be saved (`SubmitPause`), and a closure brings the answer later
(`PauseSaveAnswered`).  A full queue and a failed save both set the flag back
(`RollbackPause`): after a failed unpause it is `TRUE` again, and nothing is
cancelled.  `LimitReached` is the audio callback's finish, `Quit` ends
the event loop: what the other threads queue afterwards is lost, as
`invoke_from_event_loop` then returns an error the code ignores or handles as
`FinishSession` and the reports do.

Every failure branch the code has is there: the recorder or the recognition
does not start, the stop of a capture fails, a worker cannot be spawned, the
undo finds no recording, the slot was taken meanwhile.

### Abstractions

- A capture, a recognition and a recording are named by the session that
  started them; audio and text have no content.
- `Complete` stands for `DictationCompletion.complete` seen from the slot: it
  delivers once or fails (`WorkerDelivers`).  Delivery and history are the
  subject of sections 4 and 5.
- The undo window is one event (`WindowLapses`) that may come at any time after
  the recording was retained; the timer fires after the window it was started
  for.  A mute timer may fire at any time after its start.
- `DictationSessionId::generate` gives an identity never used before.
- A restored recording is recognised by its worker through the same recognition
  slot as a live one (start, push and take, or cancel when one fails,
  `asr_runtime.rs:460-478`).  Here that is part of the one step `WorkerDelivers`:
  a start handler that is still on its way when the undo takes the slot could
  meet this recognition in the slot, and this meeting is not modelled.
- The settings worker's own steps are `LocalSettings`'; here a save is answered,
  well or badly, whenever its closure runs.
- Overlay animation, sounds, diagnostics and error texts are left out.

### DictationLifecycle

What the threads promise seen from outside, per identity: at most one session
is live, finishing or closing; a text leaves only while a session is finishing,
and never twice under an identity; a cancelled session comes back only as a
restored one.  `DictationRuntime` maps its slot and its jobs to the phases
(`phaseBar`) and its delivery counts to the set of delivered identities;
`ImplementsLifecycle` is checked as a property of the big run.

## 4. TextDelivery

### State

| Variables | Code |
|---|---|
| `worker`, `outcome` | where `CompletionDeliverer::deliver` / `run_delivery` is on the worker thread, what it got |
| `busy`, `step` | the callback of `advance_delivery` that runs now, and `MacOsTextDeliverySession.state`; `queued` is the dispatched closure |
| `kind`, `remaining`, `moved` | the privacy and observability of the paste's target, `remaining_polls`, `range_changed` |
| `expired`, `result`, `sent` | the shared `cancelled` flag, what the session will answer, the answer in the channel |
| `board`, `owner`, `snapshot` | the general pasteboard, who changed it last (the change count), what `TemporaryPasteboard` saved |
| `inflight`, `inserted` | writes the focused program was asked for, and how often it carried one out |

`wanted`, `spoiled`, `unseen`, `trusted` and `overdue` are history variables.

### Steps

The session is a machine that a single-shot timer of the main thread advances.
`TimerFires` begins a callback (after a look at the flag); the callback's actions (`ResolveTarget` ...
`CompleteDelivery`) run with `busy = d` until one of them waits for the next
timer or completes.  A callback is cut wherever somebody else may come between
two calls: the worker's time-out, the worker's copy on its own thread, the user's
copy, the focused program.  So the paste is `BeginPaste` (contents read),
`BorrowClipboard` (transcript written), `PostPaste` (change count read, keys
posted), and the restore is `ReleaseClipboard` (change count compared),
`RestoreClipboard` (contents written): between the two halves a copy is lost, and
the history variable `spoiled` says so.

Every error path is there: no target, a control that refuses the write or accepts
it and reports an error, a clipboard that cannot be read, written or restored, keys
that cannot be posted, a write carried out late or never.

### Abstractions

- A control's text is the number of times the dictation's text was inserted.
  `verify_observed_insertion` compares range and text; it answers `Verified`
  also when the control gives no text (`trusted`).
- `TakeDelivery` waits until the session of an earlier dictation is over or was
  never taken.  A session that outlives its worker has one timer left (it is dropped at the next),
  a recording and a recognition lie before the next delivery.
- The answer of a dropped session goes nowhere; values nobody reads any more
  (`Drops`, `Receives`) are reset, which makes no difference to the code and fewer states.
- The event loop does not end during a delivery (`Quit` is `DictationRuntime`'s).
- Windows has a machine of its own, `WindowsDelivery`.

## 5. DictationCompletion and HistoryRecord

### State

| Variables | Code |
|---|---|
| `worker`, `policy`, `outcome`, `saved` | where the shortcut thread and then the worker of a dictation is; `DictationCompletionPolicy.history`, the delivery's result, `history_was_saved` |
| `delivery`, `secure`, `expired`, `answer` | the delivery session as seen from here |
| `text` | which version stands in the control: 0 is the delivered text, higher ones the user's edits |
| `active`, `notice`, `observer`, `looks`, `latest` | `ACTIVE_REVISION_OBSERVER`, the end reasons sent, the observer thread of each text with the polls left, its latest snapshot |
| `recorder`, `pending` | `HistoryRevisionState` of `HistoryRevisionRecorder` |
| `record`, `enabled` | the row of `transcript_history`, `history_enabled` |

`lost` is a history variable: rows whose update failed in the storage.

### Steps

The storage worker serves one request at a time, so `Inserts` (which reads the
setting in the same request and deletes what is too old) and `Updates` are one
step each.  `FinishesRevision` and `UpdatesHistory` are two: the recorder's lock is
released before the update.  The observer does the same (`ObserverReads`,
`ObserverPersists`).  `NoticeTimesOut` is `run_on_main` giving up after its five seconds: the
recording begins with the old observation under way.

### Abstractions

The transcript's text is version 0, whatever refinement and spelling rules made
of it: they decide nothing here (`TranscriptRefinement` has them).  The user edits only while an
observation is on, because nobody sees other edits.  Dictionary learning, which
gets the same revision, is in `RevisionReview` and `DictionaryLearning`.

### HistoryRecord

A record is written at most once and only while the history is on, has the
delivered text or a revision, and does not come back once it was deleted.
`DictationCompletion` has the same variables `record` and `enabled`, so its
refinement mapping is the identity but for `Text <- Version`.

## 6. ModelDownload

### State

| Variables | Code |
|---|---|
| `active`, `queued`, `next_generation` | `DownloadCoordinatorState` and its counter; `active` is the generation of a model's active download (counted from 1, so that 0 says there is none) |
| `threads` | one record per download or cancel thread: how far it is, the interruption its `ModelInstallControl` holds, its retries, the `DownloadCompletion` it returns |
| `posted` | closures queued with `upgrade_in_event_loop` |
| `card`, `dialog` | `LocalModelDownloadState` of each card and the failure dialog of the settings page |
| `rows`, `recorded` | tables `model_download_queue` and `installed_models` |
| `installed`, `partial` | the verified directory and the staging directory of a model |

`asked` is a history variable: the models whose download was requested since
the launch.  `clicks`, `faults` and `restarts` count against the bounds; a
cancel thread is told from others by the click that started it.

### Steps

A click or a posted closure is one step, because the UI thread runs it to its
end and the coordinator's lock protects only single calls that no other
handler can come between.  Download threads take nothing from the queue; they only
remove their own entry of `active`.  `Finish` commutes with what a handler
does after reading it, with one exception that is an action of its own:
`DownloadWhileEnding`, where a click on a model whose thread is ending finds it
still in `active` (so `enqueue` does nothing) and `take_ready`, a lock later,
finds its slot free.  `StartReady` is the whole loop of `start_ready` with
the threads that cannot be spawned.  A download thread is cut at its control's checks
(`BeginAttempt`, `StopDownload`, `PassLastCheck`), at the file operations others see
(`FinishDownload`, `Activate`, `Discard`), at the database (`Record`,
`ClearRow`), at the coordinator's lock (`Finish`) and at the post (`Post`).  `Restart` may come
anywhere: every variable that is not a file or a row starts anew.

### Abstractions

A staging directory is absent, partly filled or complete.  A hash that does not
match, a broken connection and a full disk are one fault (`DownloadFails`) that may or may not
leave what was downloaded.  The four speech models are downloaded into the
directory that is renamed; the punctuation model, whose archive is unpacked first, is
not in the catalog of this page's queue.  A corrupt installation (moved to a
backup by `activate`) does not occur.  Only a model that is not the selected
one is deleted.  Progress and sizes are left out.

## 7. WindowsDelivery, WindowsShortcuts, MacShortcuts

### WindowsDelivery

One thread owns COM; `wQueue` is the channel of two commands, `wStep`, `wNow`,
`wTarget` are where `deliver_once` is and for whom, `wBoard`, `wSaved` and
`wSequence` the clipboard, what `ClipboardSnapshot` saved of it, and whether its sequence
number is still the one of the transcript.  `observed` is
`active_observations`, `heard` what each observer was told.  The delivery is cut
where the user may come between two calls of the system: `Resolve`, `Snapshot`, `ReplaceText`,
`CheckFocus`, `SendPaste`, `RecheckFocus`, `RestoreUnlessCopied`, `RestoreWrites`,
`Answer`.  `PollInterval` and `Poll` are the thread's look at the control between
commands; `UserCopiesText`, `MovesFocus`, `Types` and `EndsComposition` are the user.  A
control's text is the number of edits since the delivery.

### WindowsShortcuts

`shortcutRow`, `current`, `active`, `registered`, `listed` are the same list in the database,
in the controller, in the monitor, in Windows and on the page; `staged` and `save`
are an update between its registration and its commit or rollback.  `Turn` is one
turn of the monitor's loop, `Drain` its end; `KeyDown`, `KeyRepeats`, `KeyUp` are
the hook, which Windows runs while the monitor looks for messages.  `QuitMonitor` and
`StartMonitor` are a restart, whose launch fails when another program holds a
registration (`windows_shortcut_registry.rs:32`).

### MacShortcuts

`down`, `usedInChord`, `suppressed` are `ModifierState` of the event tap;
`previouslyDown`, `usedModifiers`, `armed`, `capturePrevious`, `order` the states of the polling before the
permission is given; `localDown` the window's own capture.  `TapModifier`,
`TapKey`, `TapRepeats`, `TapKeyUp` are `handle_event`, one event each; `Sample`
and `SampleCapture` one poll; `BeginMacCapture`, `ApplyMacCapture`, `Configure`
the page.  Five keys and one chord stand for the key codes.

## 8. SpeechRecognition, TranscriptRefinement

### SpeechRecognition

Audio is counted in units that hold a word or a pause, so that a transcript is
the sequence of its units, and a word that is lost, doubled or out of order is
seen.  `samples`, `pending` and `held` are the capture buffer; a callback of the device is two
steps, because it releases the buffer before it offers its batch, and `stop` may
come between them.  `batches` is the bounded channel to the stream worker,
`commands` the engine's, `connection` and `reply` its worker.  Volcengine and Apple
have a worker and a service that answers, is silent or fails.  While Volcengine's worker
connects (`"connecting"`) or sends to a service that does not read (`"stalled"`), it takes no command;
neither has a time-out in the code (`volcengine_asr.rs:184`, `:201`), so `Connected`,
`ConnectionRefused` and `Resumes` belong to the service and are not fair. Paraformer decodes
as it is fed; Whisper, SenseVoice, Qwen3 and the OpenAI-compatible engine decode
the whole recording when it ends (`WhisperText` and its neighbours cut it into segments, with
overlaps, as each engine does).  Qwen3 joins two windows by what the end of one and the beginning of the
next have in common (`SaidAgain`, after at most `SkippedUnits` words): usually the overlap, but
units of `repeated` say one and the same word, and then it may be a word that was really said
twice, which is dropped with what lies before it.  `sparse` says that words have too few
characters to be compared.  A restored recording is pushed at once by
`TranscribeRestored`.  `RecognitionFairness` says that the threads run and that the code's time-outs
are kept.  The user owes nothing, and neither do the services: not an answer, not the handshake
of a connection, not that they read what they are sent.

### TranscriptRefinement

`MakePlan` is `plan` of `refinement_runtime.rs`, `Execute` everything up to the
request (the processor kept for the very same settings, is the transcript long
enough, is the service usable, is it passed over), `ServiceRefines` and
`ServiceFails` what the client makes of the answer: status and vendor codes give
one of the error kinds, a text is validated.  The circuit of a processor counts
its failures; `PauseRunsOut` is the clock.  A text is a sequence of tokens of
the kinds the rules tell apart (numbers, a command, a technical fragment, a term
in three spellings, a correction marker, a wrapper); the language model answers
the transcript with any words left out, or one token put in or replaced, or
three times over.  Two threads refine at once when a dictation begins while the worker
of a cancelled one still waits.

## 9. What is kept between dictations

- `LocalSettings`: a click submits a change to the bounded queue (`pending`); the
  settings thread loads (`LoadSettings`) and saves (`SaveSettings`: done, failed, or
  done and reported as failed), and posts a closure that commits or rolls back what
  the tray (`trayPaused`), the page (`shown`), the triggers (`paused`) and the
  monitor (`registered`) show.  `Quit` and `Exit` are the drop that joins the
  thread.  `CheckTimer` ... `RecordSuccess` are the run that sends recent history to
  the language model, with every place where it looks at the consent again.
- `HistoryStorage`: `db` has the rows with the key each is encrypted under, the validation record,
  the keychain entry and the key in memory.  Every command is one step of the
  storage worker, except the reset (`ResetErases` ... `ResetEnds`), which a crash
  may cut, and which stops short with the key untouched when the log cannot be
  checkpointed (`ResetStopsShort`).  `KeychainChanges` loses the entry or restores one of a backup.
- `SchemaMigrations`: `OpenDatabase` reads the version, `ApplyInitialMigrations` and
  `ApplyRecentMigrations` are one transaction each, `Interrupt` ends the launch
  between two.  A setting is a column, an old row of evidence what it counts as.
- `DictionaryLearning`: `ObserveTerm` is `record_observation` with the aggregate and the
  promotion in one transaction; `AddTerm`, `ImportTerm`, `RenameTerm`,
  `DeleteTerm` are the user's.
- `RevisionReview`: `Snapshot` and `ObservationEnds` are `FinalTextRevisionState`,
  `AssessLocally` and `AssessByService` the thread that assesses a revision.
  A text of the history is cut into overlapping parts (`PartsOf`), which go in as many requests as the budget
  asks for (`Batch`); `SuggestFromHistory` is the next request with its answer and the records of it,
  `SuggestionsStop` a request that fails or whose records are broken off: what earlier
  requests recorded stays.  `sent` are the parts answered for.  A text is a
  sequence of characters of a few classes.  The diff library is external: any longest common
  subsequence may be what it keeps.
- `LocalModelLifecycle`: the file providers.json is `catalog`; load and save each
  hold its lock, the two together do not, so a handler or a thread is cut between
  them.  `memory` says who loaded which model, `onDisk` what is installed.
- `ProviderSettings`: `file` is the catalog with its instances and consents, `page` the draft and the
  dialogs, `handler` a UI handler between its load and its save, `llmTests` the
  threads that enable what they tested, `writer` the thread of a local model.
- `LocalDataPages`: `list`, `nextCursor`, `generation`, `loadsMore`, `pendingRow`
  are `UiDataState`; a request is a thread that the storage answers and a closure
  that may run at any time after it.  `words`, `shownWords`, `drafts` and
  `saving` are the dictionary page.

`lost`, `overwrote`, `unreported`, `strayRow`, `failedPauses`, `late`, `agreed`, `worked`, `everStored`,
`everReset`, `evidenceLog`, `refused`, `doomed`, `mixed` and `requested` are
history variables.  `lost` and `overwrote` mark behaviours in which a save overwrote a change that it
had not read: load and save of providers.json are two locked calls, so this does
happen, no document says otherwise, and the properties about the catalog
are about the other behaviours.

## 10. Runs

| Run | Configuration | Question | Answer |
|---|---|---|---|
| `dictation` | `MCDictation` | do the invariants, `FreshRecordingIsKept` and the refinement hold under every interleaving of two dictations? | yes, about 1.6 million states |
| `dictation_live` | `MCDictationLive` | is every start answered, does every finish give the slot back? | yes, under the fairness below, 363 000 states |
| `undo_identity` | `MCUndoIdentity` | does an undo go on under the identity of the recording it restores? | no, see the findings |
| `cancelled_speech` | `MCCancelledSpeech` | is the speech of a cancelled session never delivered? | no, see the findings |
| `mute_outlives` | `MCMuteOutlives` | is the output unmuted whenever nothing records? | no, see the findings |
| `platforms` | `MCPlatforms` | do the deliveries and the shortcuts of both platforms keep their promises whatever the user, the focused program, a time-out or another program does? | yes, about 2.3 million states |
| `delivery_and_recognition` | `MCRecognition` | is every macOS delivery answered and every borrowed clipboard given back; does every recognition end, with a whole transcript or an error? | yes, under the fairness below, 143 000 states |
| `completion` | `MCDictationCompletion` | do completion, observation, deletion and settings keep the record right in every order? | yes, about a million states |
| `secure_history` | `MCSecureHistory` | is nothing stored of a dictation whose target was secure? | no, see the findings |
| `model_download` | `MCModelDownload` | do slots, threads, queue and cards agree, and does every wait end, whatever is clicked, fails or is restarted? | yes, about 413 000 states |
| `queued_card` | `MCQueuedCard` | does a card that shows a wait stand in the queue? | no, see the findings |
| `preferences` | `MCPreferences` | does what is kept between dictations stay consistent, agreed to and readable through failed saves, restarts, late answers and interrupted upgrades? | yes, about 1.3 million states |

### Properties

- `FinishHasOneOwner`: the `Finishing` state is a token.  Toggle, overlay, time
  limit and undo race for it; exactly one job holds it, for the session in the
  slot.  `complete` takes no identity, so this is what keeps it from ending
  another session.
- `DeliveredAsWanted` (`DeliveredAtMostOnce`, `CancelledIsNotDelivered`): per identity.
- `IdleReleasesDevices`: at rest with no session, neither microphone nor
  recognition is left running.
- `PausedStopsRecording`: a pause wins against every start under way, also one
  that read the flag before it was set.  A failed unpause pauses again without
  stopping anything; the one dictation it finds under way is `spared`, and every
  other one is the property's.
- `FreshRecordingIsKept`: an old undo timer never drops a newer recording.
- `SlotIsGivenBack` (`FinishEnds`, `StartEnds`): every error path of a start and of a finish
  frees the slot.
- `NoTranscriptLeft`, `ClipboardReturned`: a session can end in its last
  callback, by a failure in the middle or by the drop after a time-out; the user
  and the worker may copy at any time.  The conjunct `spoiled` excludes a restore that itself
  failed and a copy between the two halves of a borrow or restore, which the system's clipboard cannot
  make atomic.
- `InsertionIsTold`: the fallback paste repeats the direct write only if
  that one landed after the check, or the caret was put back before it
  (`InsertedTwiceOnlyIfUnseen`), and an answer is about the session that sent it; a control that gives no text
  is trusted (`VerifiedIsInserted`, `trusted`).
- `OneOverdueWrite`: after the time-out the user was told of a failure, so a
  session may only finish the callback it is in.
- `OneActiveObserver`: observer threads live up to two minutes; none is forgotten.
- `FinalTextIsLastRevision`: the observation may end before, while or after the
  completion writes the record.
- `ImplementsHistoryRecord`: see section 5.
- `BorrowingAndDeliveryEnd` (`PasteEnds`, `DeliveryEnds`): neither a busy control nor a dropped
  session keeps the clipboard or leaves a delivery unanswered.
- `WindowsClipboardReturned`: as on macOS; two copies the system gives no means
  to keep are excluded (`wSpoiled`).
- `ObserverHearsOneEnd`: an observation ends before the next delivery or recording begins,
  so that no text is told as a correction of another dictation.
- `ShortcutsAgree`: page, monitor, Windows and the next start have one list
  whenever no update is under way, whichever step of an update failed; during one
  the old registrations are still held.  The next start's list is left out while the row holds
  a list whose save was told as failed (`strayRow`).
- `PressIsWhole` (Windows), `OnePressOneAct` (macOS): the program in front sees both
  halves of a press or none, and a press acts at most once.  Each excludes presses during which the
  pause, a capture or the list changed (`wavered`).
- `TranscriptIsWhole`: what a full queue, a lost connection or a late callback cost
  is told as an error.  Four cases that the code lets happen are excluded, see below; for Qwen3
  `SeamsAreTold` says at which seams the overlap can be told from what was said twice.
- `RecognitionEnds`: also with a silent service, but for a queue that is full while the worker
  connects or sends (`AtTheService`): `finish` then waits as long as the service pleases.  Once
  the end of the audio is in the queue the answer comes in time even so.
- `RefinesSafely`: an answer that lost or invented a number or a technical
  fragment is never delivered, a service is passed over only for what it did
  under these settings, and not asked again after a refusal.
- `SlotsAreThreads`: no way a download ends leaks a slot or frees one that is still
  written; one model never has two download threads.
- `CardHasActor`: no card is left with its buttons off, or showing a transfer,
  with nothing that will change it.
- `WorkConserving`, `QueuedStarts`: a slot is handed on by the closure of the
  download that had it; forgetting one call of `start_ready` would strand the queue.
- `FirstInFirstOut`: a repeated request neither overtakes nor is queued twice.  The order is the
  queue's in memory, which is not that of the rows (see below).
- `NoSilentTransfer`: a launch shows what was queued and begins nothing.
- `SettledShowsStored`: optimistic controls and late failures end with what is
  stored, and quitting loses no accepted choice.
- `ConsentHolds`: consent is about one address and may be withdrawn; no thread, dialog
  or test carries an old answer over (`ConsentBinds`, `SendsOnlyWhereAgreed`).
- `HistoryKept`: no lost or restored keychain entry and no cut reset leads to rows
  under two keys, nor does a reset that fails halfway, and nothing goes before it was counted (`HistoryStaysReadable`,
  `UsageComplete`).
- `SelectedIsHeld`: activation, deletion and loading of several models race; what is
  selected is on the disk, and an activation leaves nothing else in memory.
- `LearnedByEvidence`: enough evidence of different dictations that were all heard of within the window before
  (`EvidenceWithin`), never after a refusal, never over what the user typed.
- `ObservedAsWritten`: the dictionary hears only of what the user wrote or said,
  whatever the service answers, and a part of a text tells of a term once (a text that takes several
  requests may tell of it more often, and a run that was stopped and begun again tells again: the
  storage keeps one row of evidence per dictation and term, which is `DictionaryLearning`'s).  When every
  part was answered for, a term at the seam of two parts was whole in one.
- `UpgradeKeepsData`: an upgrade, however often interrupted, loses no setting and
  no evidence.
- `PagesKeepTheirWord`: no answer that comes late mixes two searches, deletes an
  undone row or loses a word that was being saved.  The page may go on listing a row that was
  deleted, until it is read again.

`IdleReleasesDevices` and `PausedStopsRecording` leave out the behaviours with
`misapplied`: a start report carries no identity and may be applied to the
next session (the second finding); the two invariants are about every behaviour
in which that has not happened.

### Bounds

`DictationRuntime`: two sessions, because every hazard is about one dictation and its successor:
a late report, an old timer, a recording of the session before.  A third
session would add no new pair.  `ChannelBound = 1` lets one press wait while the
shortcut thread is at another; the channel itself is unbounded, and the proofs
are about any bound.  `SaveBound = 1` is one save of the flag under way; another
click waits for its answer, which the proofs do not need either.  `SpawnMayFail`
switches the failure of `thread::Builder::spawn` on (safety) and off
(liveness).  `InOrder` is a symmetry reduction written as a constraint:
identities are fresh, so which one comes first is immaterial; it cuts only
states that are the mirror of states kept.  The liveness run takes one action
in the channel and one retained recording (`OneRetained`), which still reaches
an undo, its timer and a second session; the generations beyond the first are
the safety run's.  `SavesRefused` takes of the saves only those the queue refuses, which
set the flag back as the others do, and `LoopRuns` stops at the end of the event
loop, after which the property promises nothing.

`TextDelivery`: two dictations, so that the first one's session and writes may
outlive its worker; `Polls = 1` gives a poll that fails and one that is the last;
`Copies = 1` lets the user copy before, during and after a paste (the text is
there again after another copy).  `InOrder` is the same symmetry.
`Landed` says that the first text has landed or will not when the second session begins: the first session
is over then, and its writes read and change nothing the second one does, so
landing later gives no other verdict.  The liveness run leaves out the user's
copies and the polls (`Polls = 0` is the case in which the last poll is the
first) and takes only first texts that did not land (`Settled`).

`DictationCompletion`: two dictations, `Edits = 2` so that a revision may be replaced by
another, `Looks = 1` so that an observation has a poll in the middle and a last one.

`WindowsDelivery`: two dictations and two controls, one of them a password control: an
observation is left behind by the first; one edit of each text, one failing call and one move
of the focus, each of which may come at any step.  `WindowsShortcuts`: two
updates with a restart, so that an update meets the failure of the one before; two
presses of Right Alt, one capture, one switch.  `MacShortcuts`: four events of the
tap are the shortest press with another key inside, with one edit or pause and one capture
anywhere between them.

`SpeechRecognition`: six units are three batches and two segments of an engine; queues of
one fill; `BufferLimit = 4` is exceeded by a longer recording; `Callbacks = {1, 3}`
bring less and more than a batch; the pauses lie inside a batch, at its edge and at that of a segment.
`Echoes` are no word said twice and one said on both sides of the first seam of two windows.

`MCPreferences` names its bounds in the configuration.  Three choices: one is being
written, one waits, and the third finds the queue of one full; one failing save, one restart (two in the storage) and one run of the
suggestions are one of each fault.  `MaxFound = 2` lets an observation be under way and another follow.
`MaxKeys = 3` and two mishaps let a keychain entry be lost and an old one come back.
Three dictations are the most evidence a term needs.  `MaxAsked = 4` is two failures, a pause and a
fourth request; of the transcripts other than the plain one a single refinement is
followed (`OneOfTheOthers`), because the circuit does not look at the text, and of the outcomes
it does not tell apart only one of a kind is followed further (`LikeOthers`).
`NamedInOrder` is a symmetry.  `RequestBudget = 12` takes one full part (`PartBudget = 6`, `PartOverhead = 1`)
and a short one, but as in the code no two full ones, so a long text needs two requests.  The pages have three clicks on at most four
rows of one row a page, five clicks on two words.  The schemas a launch may find lie between the
migrations that carry rows or settings over; the first, the last, a newer one and none are among them.

`ModelDownload`: two models and one slot make one wait; one slot instead of two
because the second model then has somebody to wait for (the limit is a constant of the
proofs).  `MaxClicks = 4` is a start of each model and two more clicks, enough for pause and continue or
cancel and start again while the first download ends; `MaxFaults = 1` and
`Retries = 1` give an attempt that is repeated and one that is not;
`MaxRestarts = 1` a launch over whatever was left.

Deadlock is not checked: a paused or quitting program has nothing to do.

### Fairness

Weak fairness for the steps of a handler that has begun, of the shortcut thread
and of each worker: they are OS threads that no model action can suspend, and
a thread is only ever waiting for a mutex whose holder does not block.  Strong
fairness for the event loop's closures and timers: clicks can keep either of
them from being *continuously* enabled (the UI thread is then busy), but the loop takes
closures in order and looks at timers on every turn.  Nothing is assumed of the user, of the
undo window or of `Quit`; recognition and completion are assumed to return,
which their own timeouts are for.

`TextDelivery!FairSpec`: weak fairness of each worker (a thread whose
`recv_timeout` passes) and of each session's main-thread steps (due timers and the
callback under way; a session's step is enabled until it is taken).  Nothing is assumed of
the user or of the focused program: both liveness properties hold even if a write is never carried out.

`SpeechRecognition!RecognitionFairness`: weak fairness of the callback's second step, the
stream worker, the caller of `finish` and the engine's worker with its time-outs.  Not of the user,
nor of anything a service does: neither that it answers, nor that a connection is established or refused, nor that a
packet is read.  The first has the worker's time-out, the other two have none.

`ModelDownload!FairSpec`: weak fairness of the event loop's closures and of the
threads of each kind and model: they are OS threads, and each wait of a download is
bounded by the client's connect and read timeouts (`model_installer.rs:43-44`).  Nothing is
assumed of the user.

### Findings

1. `MCUndoIdentity`: `undo_cancelled_recording` takes the identity from the
   slot and the recording from the store.  When the session cancelled last never
   had its recording retained (it was still starting), the recording of the one
   before it is processed under the later identity.  `CONTEXT.md:11` promises
   one identity from start to end, across an undo.
2. `MCCancelledSpeech`: `recording_started` takes no identity.  The report of a
   cancelled start can be applied to the next one, which then streams and
   finishes with the first one's recognition.  `CONTEXT.md:19` promises that a
   cancelled session is not delivered.
3. `MCMuteOutlives`: the delayed mute looks at the session, then takes the
   recorder's lock.  A cancel between the two leaves the output muted with no
   recording.  `CONTEXT.md:112` and `docs/architecture.md:135` promise it is
   restored when the recording ends.
4. `MCSecureHistory`: that the target was secure is only in the session's
   answer.  If the main thread is slower than the worker's five seconds, the
   outcome is a system error, which `history_delivery` stores as not delivered.
   `CONTEXT.md:67` and `crates/app/src/text_delivery.rs:47` say that such a
   dictation is not stored.
5. `MCQueuedCard`: a pause changes the card before the download thread has ended.
   Continue in that window is ignored by `enqueue`, shows "queued" with its
   button off, and is overwritten by the completion's "paused": the continue is lost.
   `CONTEXT.md:237` says that a paused download can be continued and that a card
   that shows a wait is one of the tasks beyond the limit.

### Races and limits no document speaks of

Met while modelling; the properties exclude them by a named history variable or
conjunct, or the hazards in `PROJECT.json` say that no property covers them.

- Pause: an unpause that cannot be saved sets the flag again and stops nothing
  (`status_tray.rs:113`), so a dictation begun meanwhile records while paused (`spared`).
- Downloads: `docs/architecture.md:222` says that the next entry is selected in SQLite insertion order.  The code
  selects from its queue in memory, and so does the model.  The two orders differ once a download was paused or
  failed and is continued: its row keeps the old place (`INSERT OR IGNORE`, `model_download_queue.rs:25`), while
  in memory it goes behind the others.  This is a disagreement with that sentence; `FirstInFirstOut` is
  about the queue in memory and does not state the sentence, so no run shows it.
- Downloads: `apply_completion` does not look at the generation, so a late closure
  resets the card of a newer download; a cancel thread is bound to no generation and removes the
  staging directory and the row of a download started since.
- Recognition: the audio callback releases the buffer before it offers its batch, so `stop`
  may overtake it (`overtaken`); Apple's task may end early, and what is queued for it is
  lost (`early`); Qwen3's overlap is found only if it has three characters (`sparse`), and a word that
  ends a window and is said again in the next one is taken for the overlap: it is dropped with what lies between
  (`EchoedAt`, `qwen3_asr.rs:212-247`).  Volcengine's handshake and sends have no time-out: while such a service is silent and
  the queue of commands is full, `finish` waits in `blocking_send` for as long (`volcengine_asr.rs:152`).  The
  captured queue is full when Paraformer decodes slower than speech comes, which fails
  the recording at its stop.  A restored recording longer than the session's queue fails while
  its engine still connects (`asr_runtime.rs:467`).
- Refinement: a number said before two correction markers counts as corrected twice; a
  refusal is forgotten by a later success or pause of another request; the
  processor, and with it the circuit, is replaced by any change of the settings.
- Windows: a paste that the target carries out after the restore pastes the old
  clipboard; what the user types in the last poll interval before the next delivery is not observed; a
  launch fails when another program holds a shortcut.  When a save of the shortcuts writes the row and then fails
  (the cleanup of the history comes after the write, `sqlite_storage/worker.rs:341`), page and registrations are rolled
  back, while the row keeps the new list until another save: the next start has it (`strayRow`).
- macOS: an Fn whose press was swallowed is let go of when a pause or an edit comes
  between its halves; releasing one Command while the other is held looks like a
  press (both have one flag).
- Settings: two pauses that both cannot be saved leave the flag at the opposite of
  the first attempt (`failedPauses`); a change that was stored but reported as failed is rolled back (`unreported`);
  a save writes the whole row back, also the day of the last analysis as it was loaded
  (`sqlite_storage/settings.rs:144`), so a run that succeeded between load and save is due again.
- providers.json: load and save are separate, so a save may overwrite another
  (`lost`, `overwrote`).
- History page: rows that were removed many at a time do not advance the generation (`mixed`); a page
  read before a deletion was committed brings the row back; quitting within the three
  seconds of the undo loses the deletion; deleting, undoing and deleting one
  row again lets the first timer commit early.
- Vocabulary suggestions: a text of more than one request may tell of one term once per request, because the answers are
  deduplicated one by one; a run that stops keeps what earlier requests recorded.
- Dictionary page: a slow list overwrites a newer one; what is typed while a
  successful save is under way goes with the dialog.
- Upgrade: a first launch interrupted between two migrations is taken for an old
  database by the next (`migrations.rs:22`): no introduction, old theme and shortcut.

## 11. Proofs

`DictationRuntime_proofs`, for any set of sessions, any bounds of the channel and of the saves of the pause and both
values of `SpawnMayFail`:

- `TypeCorrect`: `Spec => []TypeOK`.  Not only types: a handler past its first step
  always works for a session, and the store never holds two recordings.  There
  is one lemma per group of actions (shortcut thread, closures, UI handlers,
  worker, rest), over lemmas about the helpers (`Return`, `Enter`, `Goto`,
  `Queue`, `FinishSession`, `CancelSession`).
- `FinishOwned`: `Spec => []FinishHasOneOwner`.  The property is not inductive:
  a finish request waits in the event loop's queue, and nothing in the property
  says that the queue holds it exactly when the job is `queued`.  The inductive
  invariant is `TypeOK /\ FinishHasOneOwner /\ QueuedFinishes`.  Most actions change none
  of its parts (`NoPartInv`); the finish, the undo and the worker have lemmas of
  their own.
- `DeliveryCorrect`: `Spec => []DeliveredAsWanted`.  What the property takes for granted is that
  the right to deliver a session is in one place at a time: in the slot or with the worker,
  with a thread that cancels, in a closure that waits in the event loop, or in the store of cancelled
  recordings.  `DeliverInv` adds to the invariant of `FinishOwned` that these places are
  disjoint (`PlacesInv`), that the queue names a session once (`QueueOnce`), and where
  the right is after a delivery, a cancel and an undo (`RightsInv`).  Most steps are
  `Plain`: no place gains a session.  The others, which move a right from one
  place to another (cancel, queueing, `KeepCancelled`, the undo, the worker's take), have
  a lemma each.
- `LifecycleImplemented`: `Spec => ImplementsLifecycle`, the refinement of `DictationLifecycle`.  Each step of the
  runtime is shown to stay, or to be one of the steps that the abstract machine
  allows to that session.
- `FreshRecordingCorrect`: `Spec => FreshRecordingIsKept`, the action property about the
  store of cancelled recordings.
- `DevicesReleased` and `PauseStopsRecording`: `Spec => []IdleReleasesDevices` and
  `Spec => []PausedStopsRecording`.  Both speak of a state at rest, so the induction is about
  who will bring it there: `ReleaseInv` names, for a recognition and for a capture that runs, the
  thread, the closure or the worker that will release it; `PauseInv` says who will
  still see a pause, or that the session is the one a rollback spared.  They rest on `BeginInv` and `ReportInv` (the session that starts is
  the one the shortcut thread begins, and it reports once) and on `FailedInv` (a session without a
  worker has left the slot for good); `RestInv` is their conjunction.

`Platforms_proofs` about `TextDelivery`, for any set of dictations and any number of polls and copies: all its
invariants (`TypeCorrect`, `TranscriptTaken`, `ClipboardCorrect`,
`InsertedOnce`, `VerifiedCorrect`, their conjunction `InsertionCorrect`, `OverdueBounded`).  They follow from one
inductive invariant, `IInv`, which says what the properties take for granted:

- `SessionInv`: one session is in the event loop, and a callback is its own;
- `BoardInv`: a session that still owns the clipboard has saved what belongs
  there, one that does not finds there what belongs there;
- `WriteInv`, `SeenInv`: which writes may be under way in which step, and that nobody
  gets to the paste once the text could be seen;
- `AnswerInv`, `VerifiedInv`: an answer is sent once, and is good until the worker takes it;
- `OverdueInv`: after an overdue write a callback only gives the clipboard back.

The lemmas go by conjunct (`MainBoard`, `MainWrites`, `MainSeen`, ...), each with
one step per action; `MainIsLive` and `MainFrame` say once that a step of the main thread leaves other dictations alone.

`DictationCompletion_proofs`, for any set of dictations, number of versions and length of an observation:
`TypeCorrect`, `OneObserver`, `FinalTextCorrect` and `HistoryImplemented`, the refinement of
`HistoryRecord`.  The inductive invariant `StageInv` puts delivery, recorder and
record side by side: while the recorder waits, `pending` is exactly what an ended
observation found; a record has the delivered text until both are through.

`Speech_proofs` about `ModelDownload`, for any finite set of models and any number of slots, retries,
clicks, faults and restarts: all invariants (`TypeCorrect`, `SlotsAgree`,
`ActiveBounded`: at most so many downloads are active, also while others still end, `CardsHaveActors`, `OnlyAskedDownloads`, `SlotsAreHandedOut`) and
the action property `FirstInFirstOut` (`StartsInOrder`).  The inductive
invariant `IInv` adds what the properties take for granted:

- `ThreadInv`: generations are used once and lie below the counter, a thread holds its slot exactly
  while `active` says so, and a taken slot has its thread;
- `QueueInv`: a model waits once and never beside its own download, which makes
  places in the queue and models the same thing (the limit follows by counting);
- `CancelInv`: a cancel thread is never where it would give a slot back;
- `AskedInv`, `BoundInv`: whom the queue and the slots are for, and how many.

`StartReadyEffect` turns the loop of `start_ready` into the places of the queue that start;
`StartReadyPreserves` shows once, for any slots, queue and cards, that the parts
hold again after it; its callers are `AskedStep` (for `Download` and
`DownloadWhileEnding`) and `RunPostedStep`.  `SlotBack` does the same for the two
steps that give a slot back, `Finish` and `DownloadWhileEnding`.
`ThreadMoves` and `ThreadGoes` do the same for the steps of a thread that keep its slot.

The same module about `SpeechRecognition`, for any sizes of chunks, queues, segments and overlaps, any length of a
recording, cuts of the device and silences:

- `TranscribedIsWhole`: what a local engine makes of a whole recording is its words.  A text that is in order is known by
  the set of the units it says (`Says`, `SaidOnce`), so each engine's loop is followed by the units it has said so far:
  Whisper's segments lie side by side (`WhisperSays`); SenseVoice's spans lie apart, cover what is loud, and still do
  after the padding joined some of them (`Ranges`, `WidenedRanges`); for Qwen3's windows the longest common end is exactly
  the overlap (`OverlapFound`, `JoinedSays`) where the seam can be told (`SeamsAreTold`): the last word of a window is then said
  only once in the next one, so whatever the two have in common ends at that word.  `LoopExists` shows that such a
  loop has a result: the recursive functions of the model are defined by `CHOOSE`.
- `TranscriptWhole`: `RecognitionSpec => []TranscriptIsWhole`.  The property speaks of the answer alone; the invariant
  `RecognitionInv` follows the audio.  `FlowInv`: as long as nothing was lost, the engine's audio, the commands, the
  channel, the callback's batch and what is pending are the recording, piece after piece (`Chain`).  `StageInv` says where audio can still
  be in each phase, `CommandInv` that none follows the finish, `AnswerInv` that every answer on its way is whole or its loss
  is on record.  So at the answer nothing is left between the callback and the engine (`AllHeard`).

`Platforms_proofs` about `WindowsDelivery`, for any set of dictations and controls, capacity of the command queue and number
of versions, faults and moves: `WindowsTypeCorrect`, `WindowsClipboardCorrect`
(`WindowsClipboardReturned`) and `ObserversHearOneEnd` (`ObserverHearsOneEnd`).  The inductive invariant:

- `QueueInv`: the queue holds at most one delivery, of a dictation without an answer, and none while
  one is under way;
- `ThreadInv`: the thread has a dictation exactly between a command and its answer;
- `BoardInv`: what the clipboard holds in each step of a delivery, and what was saved of it;
- `ObserverInv`: the observed dictation has its answer, no other is under way, and its listener has heard
  versions in their order and no end yet.

About `WindowsShortcuts`, for any shortcuts, keys and number of clicks, strokes and captures:
`ShortcutsTypeCorrect`, `ShortcutsAlwaysAgree` (`ShortcutsAgree`) and `PressesAreWhole` (`PressIsWhole`).  The inductive
invariant:

- `ListsInv`: which of the lists has the new shortcuts while a change is under way (`ChangeInv`: the stored row
  changes last, and Windows holds what either list needs), and that all are one list otherwise;
- `CapturesInv`: one capture at most samples the keys, and the hook knows of it;
- `PressInv`: what the hook and the program in front have seen of the press so far, and that no press is counted twice.

About `MacShortcuts`: `MacTypeCorrect` and `OnePressActsOnce` (`OnePressOneAct`).  The event tap and the polling each
keep their own memory of what is down; the invariant `MacInv` compares both with the keys that are held:

- `KeysInv`: the bindings and a capture; `FreshInv`: whichever of the two does not run remembers nothing;
- `StrokesInv`: a modifier that acted is up and no memory has it as down, one that a key was pressed with is marked;
- `FnInv`: an Fn that is down was taken, with the reason for it still there, or its first half went through and there is
  no reason to take the second.

`PlatformTypeCorrect` (`PlatformTypeOK`) composes the four modules: a step of the composition is a step of the module
that was chosen, and the others stay in their initial state.

`LocalData_proofs` about `HistoryStorage`, for any set of dictations and any number of keys, key faults, days and
starts: `StorageTypeCorrect` and `HistoryIsKept` (`HistoryKept`: an available history can be read with the
key in memory, and whatever was ever kept is counted, or still there to be counted, unless a reset took it).  `HistoryStaysReadable` is not inductive, since it says
nothing of a database whose key is not available.  The inductive invariant says it of the rows themselves:

- `KeyInv`: the rows are written with one key, the validation record names it if there is one, and
  the key in memory is that key while the history is available;
- `CountedInv`: nothing is left to be counted once the backfill is done, and in every state in
  which a record can be inserted;
- `ResetInv`: no rows while a reset is under way, and a key can be made;
- `EverInv`: whatever was stored is counted, still stored, or was there at a reset.

About `DictionaryLearning`, for any terms, dictations and times: `DictionaryTypeCorrect` and the action property `LearnsByEvidence`
(`LearnedByEvidence`).  The property counts what was ever observed within the window, while the code counts the rows it kept.  `DictionaryInv` relates the two
(`EvidenceInv`: a row of a dictation and term has the assessment of one observation and the time of one), and says that what the user
refused is what is suppressed.

About `SchemaMigrations`, for any number of interrupted launches: `MigrationsTypeCorrect` and `UpgradeKeeps`
(`UpgradeKeepsData`).  `MigrationsInv` compares the database with the one found, for every version it passes through: it has the tables and
columns of its version (`DatabaseForm`), the version only rises (`VersionInv`), every setting that was there is kept, but for a theme that
is gone (`SettingsKept`, `ClearSkyInv`), what new settings get is right for who had a database (`OldUserInv`) and who had none
(`NewUserInv`), and the same dictations spoke for a term (`RowsInv`).

About `LocalDataPages`, for any rows, words, length of a page and number of requests: `PagesTypeCorrect` and
`PagesKeepTheirWordCorrect` (`PagesKeepTheirWord`).  `PagesInv` has a half for each page:

- `HistoryInv`: each thread fits the page it will answer (`WorkFits`: its generation and search, and that its answer covers the rows it
  read); at most one thread of the present generation brings more rows, and they follow the list (`Bringing`); a row that is not
  deleted yet was given up for deletion (`Undoable`); what is listed is every row from the first to the cursor (`Showing`);
- `WordInv`: each thread at work for the dictionary fits what was asked for (`WordWorking`): a word that was asked for is in the table or
  is still to be written by the one save, and is not the one being edited or deleted; the dialog has the drafts of the save
  (`WordDialog`); so a word is in the table or in the dialog (`WordKept`).

`Preferences_proofs` about `LocalSettings`, for any queue capacity and any number of choices, failed saves and
suggestion runs: `SettingsTypeCorrect`, `SettledShowsStoredCorrect` (`SettledShowsStored`) and
`ConsentBindsCorrect` (`ConsentBinds`).  `SettledShowsStored` says nothing while a change is under way, so the
invariant follows each change through the queue, the settings thread and the event loop:

- `ThreadInv`: what the settings thread is about to write is the row with its change, whatever
  was written since it was loaded (but for the day of the last analysis, which `RecordSuccess` alone
  writes: a save may set it back, and no property says otherwise);
- `PauseInv`: while no change of the pause failed, the flag is what the last change under way will store;
- `PageInv`: the page shows the row, or the last closure for that control will show it;
- `ShortcutInv`: one change of the shortcuts is under way at most, and in one place; it leads from the
  row to what the monitor listens to;
- `ConsentInv`: an observation that is being recorded was agreed to.

`LastIn`, `OneIn` and `NoneIn` say which element of a kind is the last or the only one in a queue;
`QueueAppends` and `QueueTakes` show once what an append and a take do to that.

The same module about `LocalModelLifecycle`, for any set of models and any number of clicks, faults and launches:
`LifecycleTypeCorrect` and `SelectedIsHeldCorrect` (`SelectedIsHeld`).  The inductive invariant:

- `QueueInv`: a model has one closure in the event loop at most, and none while its next thread works;
- `DiskInv`: what a thread is at work for is on the disk, and a removed punctuation model has no thread;
- `HeldInv`: what an activation loaded is selected, or its thread or a closure will clear it.

About `ProviderSettings`, for any number of decisions and mishaps: `ProvidersTypeCorrect` and `SendsWhereAgreed`
(`SendsOnlyWhereAgreed`).  The file is read and written back as a whole by handlers and threads, so the invariant says of each of them what
it read and what it will write (`FormsInv`), and, while no save overwrote another, that a consent in the file is for an address the user agreed
to, that a usable model was tested, and that each test and save under way is for such an address (`AgreedInv`).

`Texts_proofs` about `TranscriptRefinement`, for any services and number of retries:
`RefinementTypeCorrect` and the action property `RefinesSafelyCorrect` (`RefinesSafely`).  `RefinementInv` says of every circuit that its state
follows from what its requests came to (`SoundCircuit`), and of a request under way that it was made with a circuit that allowed it; the
rest are lemmas about the checks of an answer (a text that passes keeps the facts).  About `RevisionReview`, for any texts:
`RevisionTypeCorrect` and `ObservedAsWrittenCorrect` (`ObservedAsWritten`).  `RevisionInv` says what was recorded, for which parts of which text, in each
stage (an observation is told by a part it answers for, and no part tells of a term twice); the lemmas are about the parts a long text is sent in (any two neighbouring places within the overlap are in one part) and
the filter of the service's suggestions.

`MCPreferences_proofs`: `PartsTypeCorrect` (`PartsTypeOK`) and `ConsentHoldsCorrect` (`ConsentHolds`: what two modules say of one
consent, together) for the composition.  `PartsImplement` shows that a behaviour of it is one of each of its parts, so that
their theorems apply.

The only assumptions are those the modules state on their constants
(`ChannelBoundIsNat`, `SpawnMayFailIsBool`, `BoundsAreNat`, `DownloadAssumption`, `SizesArePositive`, `WindowsDeliveryAssumption`,
`WindowsShortcutsAssumption`, `MacShortcutsAssumption`, `HistoryStorageAssumption`, `DictionaryAssumption`, `MigrationsAssumption`,
`PagesAssumption`, `LifecycleAssumption`, `LocalSettingsAssumption`, `ProviderAssumption`, `RefinementAssumption`,
`RevisionAssumption` and the ones about `None`).

How the models are written for the proofs: the prover sees neither into `RECURSIVE` operators nor into the folds,
`SelectSeq` and `SortSeq` of the libraries.  Where the code loops over a list, the modules that are proved about therefore say
point by point what the result is (`Cleaned` in `TranscriptRefinement`, `PartsOf` in `RevisionReview`, `Extended` in
`SchemaMigrations`, `Nth`, `Newest` and `Remaining` in `LocalDataPages`), or run the loop as a recursive function (`Words`,
`Detected`, `SenseVoiceText`, `Qwen3Text` in `SpeechRecognition`).  Where a proof needs an
induction over a number, it takes the least counterexample (`WFMin` with `NatLessThanWellFounded`), which
needs no theorem with an operator as its parameter.

Every safety property of the passing runs is stated by a theorem.  Model-checked only: the liveness properties (`SlotIsGivenBack`,
`QueuedStarts`, `BorrowingAndDeliveryEnd`, `RecognitionEnds`).  Liveness stays with TLC: the
prover does not treat `ENABLED`, which fairness needs.

## 12. Not modelled

- Onboarding and permissions: a sequential wizard; that a permission is refused
  is `BeginDenied`.
- Application instance guard (one file lock, one message), update check (one periodic
  request that changes what is displayed), licensing (a pure mapping): nothing others depend on.
- Diagnostics and storage usage: output only.
- Secrets and the discovery of model names; the requests of a connection test
  are one answer.
- Packets, encodings, resampling, key codes, the anchors with which a delivered text is found again in a
  control, progress and size arithmetic, the summary's statistics.
- More than one text of the history in a request (`RevisionReview` has the requests of one text, whose first
  may find the budget partly taken; in `LocalSettings`, where only the consent matters, `SendBatch` is a request of any
  texts), and `correction_from_edit` and `review_dictionary_candidate`, which only tests call.
- The bytes, hashes and archive of the model installer.
- Vendored code, generated bindings, the Slint pages, drawing, translation and
  wording; the release scripts.

`PROJECT.json` lists each component with the reason.

## 13. Plan

Done: the session slot and the runtime threads; delivery, completion,
observation and history; downloads; the adapters of Windows and macOS;
recognition and refinement; settings, providers, local models, storage, dictionary and the pages.

Left, in this order:

1. The installer's directories one by one, with a crash at any rename.
