---------------------------- MODULE LocalSettings ----------------------------
(***************************************************************************)
(* The user's local preferences, from the click to the row in SQLite:      *)
(* crates/app/src/local_settings_mutation.rs (read, change, write back),   *)
(* apps/desktop/src/local_settings_runtime.rs (the bounded queue and its   *)
(* thread), the callers that show a preference                             *)
(* (apps/desktop/src/status_tray.rs, appearance_ui.rs,                     *)
(* local_data_ui/local_settings.rs, settings_actions/shortcut.rs), and the *)
(* thread that sends recent history to the language model for vocabulary   *)
(* suggestions as long as the user consents                                *)
(* (local_data_ui/dictionary_assist.rs, crates/app/src/dictionary_assist.rs). *)
(*                                                                         *)
(* Actors: the UI thread (clicks and the event loop's closures, in order), *)
(* the settings thread, and the suggestion thread.  One SQLite worker      *)
(* serves every command of theirs, so a command is one atomic step; a      *)
(* change of a preference is two commands, load and save.                  *)
(*                                                                         *)
(* Preferences whose control waits for the saved value (history, the    *)
(* suggestions) differ from the two that take effect at once and are       *)
(* rolled back when they cannot be saved: pausing, and the shortcuts.      *)
(***************************************************************************)
EXTENDS Integers, Sequences, FiniteSets

CONSTANTS
    Fingerprints,   \* what a provider and its address hash to (consent is for one)
    NoConsent,      \* no consent was ever stored
    Shortcuts,      \* lists of shortcuts the user may set
    QueueCapacity,  \* SETTINGS_QUEUE_CAPACITY
    MaxChoices,     \* bound: clicks that change a preference
    MaxSaveFaults,  \* bound: changes SQLite cannot store, or reports it could not
    MaxRuns,        \* bound: runs of the suggestion thread
    MaxBatches,     \* bound: requests one run sends
    MaxFound        \* bound: observations in one answer

ASSUME LocalSettingsAssumption ==
    /\ NoConsent \notin Fingerprints
    /\ Fingerprints # {} /\ Shortcuts # {}
    /\ QueueCapacity \in Nat \ {0}
    /\ {MaxChoices, MaxSaveFaults, MaxRuns, MaxBatches, MaxFound} \subseteq Nat

VARIABLES
    phase,          \* "running", "draining" (quit; the runtime is dropped) or "closed"
    stored,         \* the app_settings row
    pending,        \* the queue between the UI thread and the settings thread
    settingsThread, \* what the settings thread is doing
    loop,           \* closures queued on the event loop
    paused,         \* the flag every recording trigger reads
    trayPaused,     \* what the menu bar shows
    shown,          \* what the settings page shows
    registered,     \* shortcuts the monitor listens to
    changing,       \* a change of the shortcuts is being saved (pending in the code)
    provider,       \* fingerprint of the active provider
    suggesting,     \* the suggestion thread
    failedPauses,   \* history: failed changes of the pause since the last launch
    unreported,     \* history: changes stored although an error was reported
    late,           \* history: observations recorded since consent was withdrawn
    choices, saveFaults, runs

settingsVars == <<phase, stored, pending, settingsThread, loop, paused,
                  trayPaused, shown, registered, changing, provider, suggesting,
                  failedPauses, unreported, late, choices, saveFaults, runs>>
suggestionVars == <<suggesting, runs, late>>
uiVars == <<paused, trayPaused, shown, registered, changing>>

-----------------------------------------------------------------------------
Preferences == [paused : BOOLEAN, history : BOOLEAN, assist : BOOLEAN,
                consent : Fingerprints \cup {NoConsent},
                shortcuts : Shortcuts, analysed : 0..MaxRuns]

\* LocalSettingsChange: the field, its new value.
Changes ==
    [field : {"paused", "history", "assist"}, value : BOOLEAN]
    \cup [field : {"shortcuts"}, value : Shortcuts]
    \cup [field : {"consent"}, value : Fingerprints]

Change(f, v) == [field |-> f, value |-> v]

\* A queued change, and what its completion closure captured: the shortcuts
\* to fall back to.
Items == [change : Changes, previous : Shortcuts]

\* apply_change.  Authorising the suggestions is one change: consent and the
\* feature together.
Applied(settings, c) ==
    IF c.field = "consent"
    THEN [settings EXCEPT !.consent = c.value, !.assist = TRUE]
    ELSE [settings EXCEPT ![c.field] = c.value]

\* vocabulary_suggestions_enabled, read from the row in one command.
Consents(settings, consent) ==
    settings.history /\ settings.assist /\ settings.consent = consent

NoThread == [at |-> "waiting"]
NoRun == [at |-> "idle"]

SettingsInit ==
    /\ phase = "running"
    /\ provider = CHOOSE f \in Fingerprints : TRUE
    /\ stored \in {s \in Preferences :
                     /\ s.shortcuts = CHOOSE k \in Shortcuts : TRUE
                     /\ s.history /\ ~s.paused /\ s.analysed = 0
                     /\ s.consent \in {NoConsent, provider}
                     /\ s.assist <=> s.consent # NoConsent}
    /\ pending = <<>> /\ loop = <<>>
    /\ settingsThread = NoThread
    /\ paused = stored.paused /\ trayPaused = stored.paused
    /\ shown = stored
    /\ registered = stored.shortcuts /\ changing = FALSE
    /\ suggesting = NoRun
    /\ failedPauses = 0 /\ unreported = 0 /\ late = 0
    /\ choices = 0 /\ saveFaults = 0 /\ runs = 0

-----------------------------------------------------------------------------
(* LocalSettingsHandle::submit, on the UI thread.                          *)
Accepts == phase = "running" /\ Len(pending) < QueueCapacity

Submit(c, previous) ==
    pending' = Append(pending, [change |-> c, previous |-> previous])

Chooses == phase = "running" /\ choices < MaxChoices /\ choices' = choices + 1

(* Controls that wait for the saved value: a full queue changes nothing but *)
(* an error message.                                                        *)
ChooseWaiting(c) ==
    /\ Chooses
    /\ IF Accepts THEN Submit(c, registered) ELSE UNCHANGED pending
    /\ UNCHANGED <<phase, stored, settingsThread, loop, uiVars, provider,
                   suggestionVars, failedPauses, unreported, saveFaults>>

ChooseHistory(on) == ChooseWaiting(Change("history", on))

(* Turning the suggestions on asks for consent again when the one on the    *)
(* page is not for the provider in use.                                     *)
ChooseSuggestions(on) ==
    ChooseWaiting(IF on /\ provider # shown.consent
                  THEN Change("consent", provider) ELSE Change("assist", on))

(* on_toggle_pause: the flag and the menu bar first, then the queue.  When  *)
(* the queue refuses, rollback_pause puts the flag back at once and the     *)
(* menu bar in a closure of its own.                                        *)
TogglePause ==
    /\ Chooses
    /\ LET on == ~paused IN
       /\ trayPaused' = on
       /\ IF Accepts
          THEN /\ paused' = on
               /\ Submit(Change("paused", on), registered)
               /\ UNCHANGED <<loop, failedPauses>>
          ELSE /\ UNCHANGED <<paused, pending>>
               /\ loop' = Append(loop, [kind |-> "tray", value |-> ~on])
               /\ failedPauses' = failedPauses + 1
    /\ UNCHANGED <<phase, stored, settingsThread, shown, registered, changing,
                   provider, suggestionVars, unreported, saveFaults>>

(* persist_shortcuts: refused while an earlier change is being saved; the   *)
(* monitor listens to the new list before it is saved.  Rolled back at once *)
(* when the queue refuses.                                                  *)
ReplaceShortcuts(k) ==
    /\ Chooses
    /\ ~changing
    /\ k # registered
    /\ IF Accepts
       THEN /\ Submit(Change("shortcuts", k), registered)
            /\ registered' = k /\ changing' = TRUE
       ELSE UNCHANGED <<pending, registered, changing>>
    /\ UNCHANGED <<phase, stored, settingsThread, loop, paused, trayPaused,
                   shown, provider, suggestionVars, failedPauses, unreported,
                   saveFaults>>

-----------------------------------------------------------------------------
(* The settings thread.  LocalSettingsMutator::apply loads the row ...      *)
LoadSettings ==
    /\ settingsThread = NoThread
    /\ pending # <<>>
    /\ settingsThread' = [at |-> "loaded", item |-> Head(pending),
                          settings |-> Applied(stored, Head(pending).change)]
    /\ pending' = Tail(pending)
    /\ UNCHANGED <<phase, stored, loop, uiVars, provider, suggestionVars,
                   failedPauses, unreported, choices, saveFaults>>

Completion(ok) ==
    [kind |-> "completion", item |-> settingsThread.item, ok |-> ok,
     committed |-> settingsThread.settings]

\* Dispatching fails once the event loop is gone: the closure is dropped.
Dispatch(closure) ==
    loop' = IF phase = "running" THEN Append(loop, closure) ELSE loop

(* ... and writes the whole row back.  A failure leaves the row; but the    *)
(* worker also expires history after it wrote the row (save_settings), and  *)
(* when that fails the change is stored and reported as failed.             *)
SaveSettings(outcome) ==
    /\ settingsThread.at = "loaded"
    /\ outcome = "saved" \/ saveFaults < MaxSaveFaults
    /\ saveFaults' = saveFaults + (IF outcome = "saved" THEN 0 ELSE 1)
    /\ stored' = IF outcome = "failed" THEN stored ELSE settingsThread.settings
    /\ unreported' = unreported + (IF outcome = "unreported" THEN 1 ELSE 0)
    /\ failedPauses' = failedPauses +
         (IF outcome # "saved" /\ settingsThread.item.change.field = "paused"
          THEN 1 ELSE 0)
    /\ Dispatch(Completion(outcome = "saved"))
    /\ settingsThread' = NoThread
    /\ late' = IF suggesting # NoRun /\ Consents(stored', suggesting.consent) THEN 0 ELSE late
    /\ UNCHANGED <<phase, pending, uiVars, provider, suggesting, choices, runs>>

-----------------------------------------------------------------------------
(* The event loop runs its closures in the order they were queued.         *)

\* What the page shows after a change of field was saved.
Shows(field, committed) ==
    CASE field = "history" -> [shown EXCEPT !.history = committed.history]
      [] field \in {"assist", "consent"} ->
           [shown EXCEPT !.assist = committed.assist, !.consent = committed.consent]
      [] OTHER -> shown

StartsSuggesting(closure) ==
    /\ closure.item.change.field \in {"assist", "consent"}
    /\ closure.committed.assist

(* run_if_due: at most one run at a time (running), on the day of the last  *)
(* analysis or on the one after it.                                        *)
StartRun ==
    /\ suggesting = NoRun /\ runs < MaxRuns
    /\ \E day \in {stored.analysed, stored.analysed + 1} :
          suggesting' = [at |-> "started", consent |-> provider, now |-> day,
                         batches |-> 0, found |-> 0]
    /\ runs' = runs + 1
    /\ late' = late

(* The closure of a change that went through the queue.                     *)
CompletionRuns(closure) ==
    LET c == closure.item.change IN
    /\ shown' = IF closure.ok THEN Shows(c.field, closure.committed) ELSE shown
    /\ paused' = IF c.field = "paused" /\ ~closure.ok THEN ~c.value ELSE paused
    /\ changing' = (changing /\ c.field # "shortcuts")
    /\ registered' = IF c.field = "shortcuts" /\ ~closure.ok
                     THEN closure.item.previous ELSE registered
    /\ loop' = IF c.field = "paused" /\ ~closure.ok
               THEN Append(Tail(loop), [kind |-> "tray", value |-> ~c.value])
               ELSE Tail(loop)
    /\ IF closure.ok /\ StartsSuggesting(closure) /\ suggesting = NoRun
          /\ runs < MaxRuns
       THEN StartRun ELSE UNCHANGED suggestionVars

RunClosure ==
    /\ phase = "running"
    /\ loop # <<>>
    /\ LET closure == Head(loop) IN
       \/ /\ closure.kind = "completion"
          /\ CompletionRuns(closure)
          /\ UNCHANGED trayPaused
       \/ /\ closure.kind = "tray"
          /\ trayPaused' = closure.value
          /\ loop' = Tail(loop)
          /\ UNCHANGED <<paused, shown, registered, changing, suggestionVars>>
    /\ UNCHANGED <<phase, stored, pending, settingsThread, provider,
                   failedPauses, unreported, choices, saveFaults>>

-----------------------------------------------------------------------------
(* The suggestion thread.  A tick of the hourly timer, or of the one second *)
(* after the launch, starts it.                                            *)
CheckTimer ==
    /\ phase = "running"
    /\ StartRun
    /\ UNCHANGED <<phase, stored, pending, settingsThread, loop, uiVars, provider,
                   failedPauses, unreported, choices, saveFaults>>

\* vocabulary_suggestions_due: a day has passed since the last analysis.
Due(run) == Consents(stored, run.consent) /\ stored.analysed < run.now

SuggestionStep(run) ==
    /\ suggesting' = run
    /\ UNCHANGED <<phase, pending, settingsThread, loop, uiVars, provider,
                   failedPauses, unreported, choices, saveFaults, runs>>

\* Read the settings and the recent history: the batches to send, if due.
CheckDue ==
    /\ suggesting.at = "started"
    /\ \E n \in 0..MaxBatches :
          SuggestionStep(IF Due(suggesting)
                         THEN [suggesting EXCEPT !.at = "batch", !.batches = n]
                         ELSE NoRun)
    /\ late' = IF Due(suggesting) THEN 0 ELSE late
    /\ UNCHANGED stored

\* One batch: consent is read, then the texts go to the provider.
SendBatch ==
    /\ suggesting.at = "batch"
    /\ suggesting.batches > 0
    /\ SuggestionStep(IF Consents(stored, suggesting.consent)
                      THEN [suggesting EXCEPT !.at = "asked"] ELSE NoRun)
    /\ UNCHANGED <<stored, late>>

\* The answer.  A failed request ends the run without a checkpoint.
ReceiveAnswer ==
    /\ suggesting.at = "asked"
    /\ \/ \E n \in 0..MaxFound :
            SuggestionStep(
                IF Consents(stored, suggesting.consent)
                THEN [suggesting EXCEPT !.at = "found", !.found = n,
                                        !.batches = @ - 1]
                ELSE NoRun)
       \/ SuggestionStep(NoRun)
    /\ UNCHANGED <<stored, late>>

\* Consent is read again before each observation ...
CheckObservation ==
    /\ suggesting.at = "found"
    /\ SuggestionStep(IF suggesting.found = 0 THEN [suggesting EXCEPT !.at = "batch"]
                      ELSE IF Consents(stored, suggesting.consent)
                           THEN [suggesting EXCEPT !.at = "recording"] ELSE NoRun)
    /\ UNCHANGED <<stored, late>>

\* ... and the observation is recorded in a command of its own.
RecordObservation ==
    /\ suggesting.at = "recording"
    /\ late' = IF Consents(stored, suggesting.consent) THEN 0 ELSE late + 1
    /\ SuggestionStep([suggesting EXCEPT !.at = "found", !.found = @ - 1])
    /\ UNCHANGED stored

\* record_vocabulary_suggestion_success: one conditional UPDATE.
RecordSuccess ==
    /\ suggesting.at = "batch"
    /\ suggesting.batches = 0
    /\ stored' = IF Consents(stored, suggesting.consent)
                 THEN [stored EXCEPT !.analysed = suggesting.now] ELSE stored
    /\ SuggestionStep(NoRun)
    /\ UNCHANGED late

\* The user makes another provider active, or edits its address.
ChangeProvider(f) ==
    /\ Chooses
    /\ f # provider
    /\ provider' = f
    /\ UNCHANGED <<phase, stored, pending, settingsThread, loop, uiVars,
                   suggestionVars, failedPauses, unreported, saveFaults>>

-----------------------------------------------------------------------------
(* The event loop ends; LocalSettingsRuntime is dropped, which takes the    *)
(* sender and joins the thread: no click any more, what is queued is saved. *)
Quit ==
    /\ phase = "running"
    /\ phase' = "draining"
    /\ loop' = <<>>
    /\ UNCHANGED <<stored, pending, settingsThread, uiVars, provider,
                   suggestionVars, failedPauses, unreported, choices, saveFaults>>

\* Mutant of Exit: dropping the runtime does not wait for the thread.
Exit_NoJoin ==
    /\ phase = "draining"
    /\ phase' = "closed"
    /\ pending' = <<>> /\ settingsThread' = NoThread
    /\ suggesting' = NoRun
    /\ UNCHANGED <<stored, loop, uiVars, provider, runs, late, failedPauses,
                   unreported, choices, saveFaults>>

(* The thread is joined; the suggestion thread dies with the process.      *)
Exit ==
    /\ phase = "draining"
    /\ pending = <<>> /\ settingsThread = NoThread
    /\ phase' = "closed"
    /\ suggesting' = NoRun
    /\ UNCHANGED <<stored, pending, settingsThread, loop, uiVars, provider, runs,
                   late, failedPauses, unreported, choices, saveFaults>>

\* The next start reads everything back.
Launch ==
    /\ phase = "closed"
    /\ phase' = "running"
    /\ paused' = stored.paused /\ trayPaused' = stored.paused
    /\ shown' = stored /\ registered' = stored.shortcuts /\ changing' = FALSE
    /\ failedPauses' = 0 /\ unreported' = 0
    /\ UNCHANGED <<stored, pending, settingsThread, loop, provider,
                   suggestionVars, choices, saveFaults>>

-----------------------------------------------------------------------------
SettingsNext ==
    \/ \E on \in BOOLEAN : ChooseHistory(on) \/ ChooseSuggestions(on)
    \/ TogglePause
    \/ \E k \in Shortcuts : ReplaceShortcuts(k)
    \/ \E f \in Fingerprints : ChangeProvider(f)
    \/ LoadSettings
    \/ \E outcome \in {"saved", "failed", "unreported"} : SaveSettings(outcome)
    \/ RunClosure
    \/ CheckTimer \/ CheckDue \/ SendBatch \/ ReceiveAnswer
    \/ CheckObservation \/ RecordObservation \/ RecordSuccess
    \/ Quit \/ Exit \/ Launch

SettingsSpec == SettingsInit /\ [][SettingsNext]_settingsVars

-----------------------------------------------------------------------------
(* What the variables may hold.                                            *)
SettingsTypeOK ==
    /\ phase \in {"running", "draining", "closed"}
    /\ stored \in Preferences /\ shown \in Preferences
    /\ \A i \in DOMAIN pending : pending[i] \in Items
    /\ Len(pending) <= QueueCapacity
    /\ settingsThread = NoThread
         \/ /\ settingsThread.item \in Items
            /\ settingsThread.settings \in Preferences
    /\ {paused, trayPaused, changing} \subseteq BOOLEAN
    /\ registered \in Shortcuts /\ provider \in Fingerprints
    /\ suggesting.at \in {"idle", "started", "batch", "asked", "found", "recording"}
    /\ choices \in 0..MaxChoices /\ runs \in 0..MaxRuns
    /\ saveFaults \in 0..MaxSaveFaults

\* Nothing that the user chose is under way.
SettingsSettled ==
    /\ phase = "running"
    /\ pending = <<>> /\ settingsThread = NoThread /\ loop = <<>>

(* Once nothing is under way the application does what is stored: the page  *)
(* shows it, the monitor listens to it, the triggers are paused exactly     *)
(* when the stored pause says so (CONTEXT.md: the pause survives a restart  *)
(* and only the user ends it) and the menu bar shows that.  The limits are  *)
(* the code's: a change that is stored but reported as failed is rolled     *)
(* back, two failed pauses in flight leave the flag at the opposite of the  *)
(* first attempt, and the menu bar is put back in a later closure.  And     *)
(* quitting loses no accepted choice: unless a save failed, what took       *)
(* effect at once (the pause, the shortcuts) is what the next start reads.  *)
SettledShowsStored ==
    /\ SettingsSettled /\ unreported = 0 =>
         /\ shown.history = stored.history
         /\ shown.assist = stored.assist /\ shown.consent = stored.consent
         /\ registered = stored.shortcuts /\ ~changing
         /\ failedPauses = 0 => paused = stored.paused /\ trayPaused = paused
    /\ phase = "closed" /\ saveFaults = 0 /\ failedPauses = 0 =>
         paused = stored.paused /\ registered = stored.shortcuts

(* Consent binds the suggestion thread: after it was withdrawn (history or  *)
(* suggestions off, or the provider changed and consent went to another     *)
(* one), at most the observation in flight is still recorded.               *)
ConsentBinds == late <= 1
=============================================================================
