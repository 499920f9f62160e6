---------------------------- MODULE ModelDownload ----------------------------
(***************************************************************************)
(* The local model downloads of the settings page:                         *)
(* apps/desktop/src/local_model_runtime/download.rs (the coordinator, the  *)
(* download and cancel threads, the queue kept in SQLite and the cards of  *)
(* the page) over crates/infra/src/model_installer.rs (one resumable       *)
(* installation under a pause/cancel control).                             *)
(*                                                                         *)
(* Three kinds of actors interleave.  The UI thread handles one click or   *)
(* one posted closure at a time.  A download thread per taken model runs   *)
(* the installer.  A cancel thread removes the partial files of a model    *)
(* that nobody was downloading when its cancel button was pressed.  What   *)
(* they share: the coordinator (active, queued), the control of a running  *)
(* download, the files, the rows of the database.  What a thread tells the *)
(* UI arrives later, through the event loop's queue (posted).              *)
(*                                                                         *)
(* The bytes of an artifact are abstracted to a staging directory that is  *)
(* absent, partly filled or complete and verified; the four models are     *)
(* downloaded straight into the directory that activation renames.         *)
(***************************************************************************)
EXTENDS Integers, Sequences, FiniteSets

CONSTANTS
    Models,         \* LocalModel
    NoModel,        \* no failure dialog
    MaxActive,      \* MAX_ACTIVE_DOWNLOADS
    Retries,        \* DOWNLOAD_RETRIES
    MaxClicks,      \* bound: clicks of the user on the cards
    MaxFaults,      \* bound: failing network, disk, database or spawn calls
    MaxRestarts     \* bound: times the process ends and is started again

ASSUME DownloadAssumption ==
    /\ IsFiniteSet(Models)
    /\ NoModel \notin Models
    /\ MaxActive \in Nat \ {0}
    /\ {Retries, MaxClicks, MaxFaults, MaxRestarts} \subseteq Nat

VARIABLES
    active,           \* generation of the model's active download, 0 when none
    queued,           \* models waiting for a slot, first in first out
    next_generation,  \* what the next active download will be numbered
    threads,          \* the download and cancel threads
    posted,           \* closures queued on the event loop
    card,             \* LocalModelDownloadState of each model's card
    dialog,           \* model of the visible failure dialog
    rows,             \* model_download_queue table
    installed,        \* models whose verified directory exists
    recorded,         \* installed_models table
    partial,          \* staging directory of each model
    asked,            \* history: models the user started since the last launch
    clicks, faults, restarts

coordinator == <<active, queued, next_generation>>
files == <<installed, recorded, partial>>
page == <<card, dialog>>
bounds == <<clicks, faults, restarts>>
vars == <<active, queued, next_generation, threads, posted, card, dialog, rows,
          installed, recorded, partial, asked, clicks, faults, restarts>>

-----------------------------------------------------------------------------
Cards == {"NotDownloaded", "Queued", "Downloading", "Paused", "Cancelling",
          "Downloaded"}
Completions == {"Installed", "Paused", "Cancelled", "Failed", "FailedInstalled"}
Interruptions == {"None", "Paused", "Cancelled"}

\* How far a thread is.  A download thread: checking its control before an
\* attempt, downloading, verified (every artifact complete), activating (past
\* the last check of its control), recording the installation, discarding after
\* a cancel, ending (run_download returned), then like a cancel thread: closing
\* (the row is dropped) and posting (the closure is handed to the event loop).
Stages == {"checking", "downloading", "verified", "activating", "recording",
           "discarding", "ending", "closing", "posting"}

\* Stages in which a download thread still owns its slot.
Holding == Stages \ {"closing", "posting"}

Thread == [kind : {"download", "cancel"}, model : Models, number : Nat \ {0},
           stage : Stages, interruption : Interruptions, retries : Nat,
           completion : Completions]

Closure == [model : Models, completion : Completions, starts : BOOLEAN]

Members(s) == {s[i] : i \in DOMAIN s}

DownloadThread(m, generation) ==
    [kind |-> "download", model |-> m, number |-> generation,
     stage |-> "checking", interruption |-> "None", retries |-> 0,
     completion |-> "Failed"]

\* A cancel thread is told from others by the click that started it.
CancelThread(m, number) ==
    [kind |-> "cancel", model |-> m, number |-> number,
     stage |-> "discarding", interruption |-> "None", retries |-> 0,
     completion |-> "Failed"]

\* The thread t goes on as u.
Goes(t, u) == threads' = (threads \ {t}) \cup {u}
Returns(t, completion) ==
    Goes(t, [t EXCEPT !.stage = "ending", !.completion = completion])

Fault == faults < MaxFaults /\ faults' = faults + 1
NoFault == UNCHANGED faults

ActiveModels(act) == {m \in Models : act[m] # 0}

\* Mutant of Enqueued: the newest request goes first.
Enqueued_Front(m) ==
    IF active[m] # 0 \/ m \in Members(queued) THEN queued ELSE <<m>> \o queued

\* DownloadCoordinator::enqueue: a model already active or queued is left alone.
Enqueued(m) ==
    IF active[m] # 0 \/ m \in Members(queued) THEN queued ELSE Append(queued, m)

\* DownloadCoordinator::remove_queued.
WithoutQueued(m) ==
    IF \E i \in DOMAIN queued : queued[i] = m
    THEN LET i == CHOOSE k \in DOMAIN queued : queued[k] = m
         IN  SubSeq(queued, 1, i - 1) \o SubSeq(queued, i + 1, Len(queued))
    ELSE queued

\* DownloadCompletion::clears_persisted_queue_entry.
ClearsRow(completion) == completion \in {"Installed", "Cancelled"}

\* apply_completion and apply_download_failure.
CardAfter(completion) ==
    CASE completion = "Installed" -> "Downloaded"
      [] completion = "FailedInstalled" -> "Downloaded"
      [] completion = "Paused" -> "Paused"
      [] completion = "Cancelled" -> "NotDownloaded"
      [] completion = "Failed" -> "NotDownloaded"

DialogAfter(m, completion) ==
    IF completion \in {"Failed", "FailedInstalled"} THEN m ELSE dialog

-----------------------------------------------------------------------------
(***************************************************************************)
(* start_ready over take_ready, on the UI thread: models leave the front   *)
(* of the queue q while a slot is free.  Each gets the next generation, its *)
(* card shows Downloading and its thread starts; a model whose thread      *)
(* cannot be spawned (broken) gives its slot back, and the next in the     *)
(* queue takes it; the dialog names one of those.  act, base, crd and dlg   *)
(* are the slots, threads, cards and dialog as the handler has left them.  *)
(***************************************************************************)
StartReady(act, q, base, crd, dlg) ==
    \E k \in 0..Len(q) : \E broken \in SUBSET {q[i] : i \in 1..k} :
        LET free == MaxActive - Cardinality(ActiveModels(act))
            started == {i \in 1..k : q[i] \notin broken}
            generation(i) == next_generation + i - 1
        IN  /\ Cardinality(started) <= free
            /\ k < Len(q) => Cardinality(started) = free
            /\ k > 0 => \/ k \in started
                        \/ Cardinality(started) < free
            /\ faults + Cardinality(broken) <= MaxFaults
            /\ faults' = faults + Cardinality(broken)
            /\ active' = [m \in Models |->
                  IF \E i \in started : q[i] = m
                  THEN generation(CHOOSE i \in started : q[i] = m)
                  ELSE act[m]]
            /\ queued' = SubSeq(q, k + 1, Len(q))
            /\ next_generation' = next_generation + k
            /\ threads' = base \cup
                  {DownloadThread(q[i], generation(i)) : i \in started}
            /\ card' = [m \in Models |->
                  IF m \in broken THEN "NotDownloaded"
                  ELSE IF \E i \in started : q[i] = m THEN "Downloading"
                  ELSE crd[m]]
            /\ dialog' \in IF broken = {} THEN {dlg} ELSE broken

-----------------------------------------------------------------------------
(***************************************************************************)
(* The clicks.                                                             *)
(***************************************************************************)
Click == clicks < MaxClicks /\ clicks' = clicks + 1

\* The main action of a card that shows Download or Continue, or the Retry of
\* the failure dialog.
MayDownload(m) == card[m] \in {"NotDownloaded", "Paused"} \/ dialog = m

\* wire_start: the space is checked, the row is saved, the model is queued, its
\* card shows Queued, and every free slot is given away.
Download(m) ==
    /\ Click /\ MayDownload(m)
    /\ rows' = rows \cup {m}
    /\ asked' = asked \cup {m}
    /\ StartReady(active, Enqueued(m), threads, [card EXCEPT ![m] = "Queued"], NoModel)
    /\ UNCHANGED <<posted, installed, recorded, partial, restarts>>

\* The download thread t has given its slot back and goes on to report.
Slotless(t) == (threads \ {t}) \cup {[t EXCEPT !.stage = "closing"]}

\* wire_start of a model whose thread gives its slot back after enqueue has left
\* the model alone and before take_ready counts the slots: the only place where
\* a thread between two calls of a handler makes a difference.
DownloadWhileEnding(m) ==
    /\ Click /\ MayDownload(m)
    /\ rows' = rows \cup {m}
    /\ asked' = asked \cup {m}
    /\ \E t \in threads :
          /\ t.kind = "download" /\ t.model = m
          /\ t.stage = "ending" /\ active[m] = t.number
          /\ StartReady([active EXCEPT ![m] = 0], queued, Slotless(t),
                        [card EXCEPT ![m] = "Queued"], NoModel)
    /\ UNCHANGED <<posted, installed, recorded, partial, restarts>>

\* wire_start: no room on the disk, or the row cannot be saved.
DownloadRefused(m) ==
    /\ Click /\ MayDownload(m) /\ Fault
    /\ card' = [card EXCEPT ![m] = "NotDownloaded"]
    /\ dialog' = m
    /\ UNCHANGED <<coordinator, threads, posted, rows, files, asked, restarts>>

\* The Later button of the failure dialog.
Dismiss ==
    /\ dialog # NoModel
    /\ dialog' = NoModel
    /\ UNCHANGED <<coordinator, threads, posted, card, rows, files, asked, bounds>>

\* ModelInstallControl: a pause never replaces an earlier interruption, a
\* cancel always does.
Interrupted(was, by) ==
    IF by = "Paused" /\ was # "None" THEN was ELSE by

\* DownloadCoordinator::interrupt, for a model that is active.
Interrupt(m, by) ==
    threads' = {IF t.kind = "download" /\ t.model = m /\ t.number = active[m]
                THEN [t EXCEPT !.interruption = Interrupted(t.interruption, by)]
                ELSE t : t \in threads}

\* wire_pause: nothing happens when the download has just ended.
Pause(m) ==
    /\ Click /\ card[m] = "Downloading" /\ active[m] # 0
    /\ Interrupt(m, "Paused")
    /\ card' = [card EXCEPT ![m] = "Paused"]
    /\ UNCHANGED <<coordinator, posted, dialog, rows, files, asked, faults, restarts>>

MayCancel(m) == card[m] \in {"Queued", "Downloading", "Paused"}

\* wire_cancel of an active download.
CancelActive(m) ==
    /\ Click /\ MayCancel(m) /\ active[m] # 0
    /\ Interrupt(m, "Cancelled")
    /\ card' = [card EXCEPT ![m] = "Cancelling"]
    /\ UNCHANGED <<coordinator, posted, dialog, rows, files, asked, faults, restarts>>

\* Mutant of CancelInactive: the cancel thread runs only for a queued model.
CancelInactive_QueuedOnly(m) ==
    /\ Click /\ MayCancel(m) /\ active[m] = 0
    /\ queued' = WithoutQueued(m)
    /\ card' = [card EXCEPT ![m] = "Cancelling"]
    /\ threads' = IF m \in Members(queued)
                  THEN threads \cup {CancelThread(m, clicks + 1)}
                  ELSE threads
    /\ UNCHANGED <<active, next_generation, posted, dialog, rows, files, asked,
                   faults, restarts>>

\* wire_cancel of any other model: it leaves the queue and a cancel thread
\* removes what it had downloaded.
CancelInactive(m) ==
    /\ Click /\ MayCancel(m) /\ active[m] = 0
    /\ queued' = WithoutQueued(m)
    /\ \/ /\ NoFault
          /\ card' = [card EXCEPT ![m] = "Cancelling"]
          /\ threads' = threads \cup {CancelThread(m, clicks + 1)}
          /\ UNCHANGED dialog
       \/ /\ Fault
          /\ card' = [card EXCEPT ![m] = "NotDownloaded"]
          /\ dialog' = m
          /\ UNCHANGED threads
    /\ UNCHANGED <<active, next_generation, posted, rows, files, asked, restarts>>

\* wire_delete over lifecycle::delete, of a model that is not the selected one
\* (the choice of the provider is not part of this module).
Delete(m) ==
    /\ Click /\ card[m] = "Downloaded"
    /\ installed' = installed \ {m}
    /\ recorded' = recorded \ {m}
    /\ partial' = [partial EXCEPT ![m] = "none"]
    /\ card' = [card EXCEPT ![m] = "NotDownloaded"]
    /\ UNCHANGED <<coordinator, threads, posted, dialog, rows, asked, faults, restarts>>

\* wire_delete, when the files cannot all be removed: the card stays.
DeleteFails(m) ==
    /\ Click /\ card[m] = "Downloaded" /\ Fault
    /\ installed' \in {installed, installed \ {m}}
    /\ UNCHANGED <<coordinator, threads, posted, page, rows, recorded, partial,
                   asked, restarts>>

-----------------------------------------------------------------------------
(***************************************************************************)
(* A download thread: run_download over install_with_control.              *)
(***************************************************************************)
\* ModelInstallControl::check failed: run_download discards after a cancel.
Stops(t) ==
    /\ t.interruption # "None"
    /\ IF t.interruption = "Paused"
       THEN Returns(t, "Paused")
       ELSE Goes(t, [t EXCEPT !.stage = "discarding"])

ThreadKeeps == UNCHANGED <<coordinator, page, asked, clicks, restarts>>

\* The head of an attempt: the control, then an installation already there,
\* then the staging directory is made.
BeginAttempt(t) ==
    /\ t.stage = "checking"
    /\ \/ Stops(t) /\ UNCHANGED partial
       \/ /\ t.interruption = "None" /\ t.model \in installed
          /\ Goes(t, [t EXCEPT !.stage = "recording"])
          /\ UNCHANGED partial
       \/ /\ t.interruption = "None" /\ t.model \notin installed
          /\ Goes(t, [t EXCEPT !.stage = "downloading"])
          /\ partial' = [partial EXCEPT ![t.model] = IF @ = "none" THEN "part" ELSE @]
    /\ NoFault /\ ThreadKeeps
    /\ UNCHANGED <<posted, rows, installed, recorded>>

\* The control interrupts the transfer between two chunks.
StopDownload(t) ==
    /\ t.stage \in {"downloading", "verified"}
    /\ Stops(t)
    /\ NoFault /\ ThreadKeeps
    /\ UNCHANGED <<posted, rows, files>>

\* Every artifact matches its hash.  When the staging directory was removed
\* underneath, the rename of the artifact fails, or a later artifact makes the
\* directory again and the marker of the incomplete model cannot be written.
FinishDownload(t) ==
    /\ t.stage = "downloading"
    /\ IF partial[t.model] = "none"
       THEN /\ Returns(t, "Failed")
            /\ partial' \in {partial, [partial EXCEPT ![t.model] = "part"]}
       ELSE /\ Goes(t, [t EXCEPT !.stage = "verified"])
            /\ partial' = [partial EXCEPT ![t.model] = "full"]
    /\ NoFault /\ ThreadKeeps
    /\ UNCHANGED <<posted, rows, installed, recorded>>

\* The attempt cannot begin; or the network or the disk fails, or an artifact
\* does not match its hash and is removed: the attempt is repeated, or the
\* download fails.
DownloadFails(t) ==
    /\ Fault
    /\ \/ /\ t.stage = "checking"
          /\ Returns(t, "Failed")
          /\ UNCHANGED partial
       \/ /\ t.stage = "downloading"
          /\ \/ /\ t.retries < Retries
                /\ Goes(t, [t EXCEPT !.stage = "checking", !.retries = @ + 1])
             \/ Returns(t, "Failed")
          /\ partial' \in {partial, [partial EXCEPT ![t.model] = "none"]}
    /\ ThreadKeeps
    /\ UNCHANGED <<posted, rows, installed, recorded>>

\* The last check of the control before the activation.
PassLastCheck(t) ==
    /\ t.stage = "verified" /\ t.interruption = "None"
    /\ Goes(t, [t EXCEPT !.stage = "activating"])
    /\ NoFault /\ ThreadKeeps
    /\ UNCHANGED <<posted, rows, files>>

\* activate: one rename makes the model installed, unless the staging directory
\* is gone.
Activate(t) ==
    /\ t.stage = "activating"
    /\ IF partial[t.model] # "none"
       THEN /\ Goes(t, [t EXCEPT !.stage = "recording"])
            /\ installed' = installed \cup {t.model}
            /\ partial' = [partial EXCEPT ![t.model] = "none"]
       ELSE Returns(t, "Failed") /\ UNCHANGED <<installed, partial>>
    /\ NoFault /\ ThreadKeeps
    /\ UNCHANGED <<posted, rows, recorded>>

\* record_installation, then run_download returns.
Record(t) ==
    /\ t.stage = "recording"
    /\ \/ /\ NoFault
          /\ recorded' = recorded \cup {t.model}
          /\ Returns(t, "Installed")
       \/ /\ Fault
          /\ Returns(t, IF t.model \in installed THEN "FailedInstalled" ELSE "Failed")
          /\ UNCHANGED recorded
    /\ ThreadKeeps
    /\ UNCHANGED <<posted, rows, installed, partial>>

\* discard_partial_download: by a cancelled download thread, which still holds
\* its slot, or by a cancel thread.
Discard(t) ==
    /\ t.stage = "discarding"
    /\ LET next == IF t.kind = "download" THEN "ending" ELSE "closing"
       IN  \/ /\ NoFault
              /\ partial' = [partial EXCEPT ![t.model] = "none"]
              /\ Goes(t, [t EXCEPT !.stage = next, !.completion = "Cancelled"])
           \/ /\ Fault
              /\ Goes(t, [t EXCEPT !.stage = next, !.completion = "Failed"])
              /\ UNCHANGED partial
    /\ ThreadKeeps
    /\ UNCHANGED <<posted, rows, installed, recorded>>

\* Mutant of Finish: a cancelled download keeps its slot.
Finish_KeepsCancelled(t) ==
    /\ t.stage = "ending"
    /\ active' = [active EXCEPT ![t.model] =
                     IF t.completion = "Cancelled" THEN @ ELSE 0]
    /\ Goes(t, [t EXCEPT !.stage = "closing"])
    /\ NoFault
    /\ UNCHANGED <<queued, next_generation, posted, page, rows, files, asked,
                   clicks, restarts>>

\* DownloadCoordinator::finish: only the current generation gives the slot back
\* and goes on to report.
Finish(t) ==
    /\ t.stage = "ending"
    /\ IF active[t.model] = t.number
       THEN /\ active' = [active EXCEPT ![t.model] = 0]
            /\ threads' = Slotless(t)
       ELSE /\ threads' = threads \ {t}
            /\ UNCHANGED active
    /\ NoFault
    /\ UNCHANGED <<queued, next_generation, posted, page, rows, files, asked,
                   clicks, restarts>>

\* clear_persisted_queue_entry: a failing database is only logged.
ClearRow(t) ==
    /\ t.stage = "closing"
    /\ \/ /\ NoFault
          /\ rows' = IF ClearsRow(t.completion) THEN rows \ {t.model} ELSE rows
       \/ /\ ClearsRow(t.completion) /\ Fault
          /\ UNCHANGED rows
    /\ Goes(t, [t EXCEPT !.stage = "posting"])
    /\ ThreadKeeps
    /\ UNCHANGED <<posted, files>>

\* Mutant of Post: only an installation hands its slot on.
Post_StartsAfterInstall(t) ==
    /\ t.stage = "posting"
    /\ threads' = threads \ {t}
    /\ posted' = Append(posted, [model |-> t.model, completion |-> t.completion,
                                 starts |-> t.completion = "Installed"])
    /\ NoFault /\ ThreadKeeps
    /\ UNCHANGED <<rows, files>>

\* upgrade_in_event_loop; only a download thread's closure calls start_ready.
Post(t) ==
    /\ t.stage = "posting"
    /\ threads' = threads \ {t}
    /\ posted' = Append(posted, [model |-> t.model, completion |-> t.completion,
                                 starts |-> t.kind = "download"])
    /\ NoFault /\ ThreadKeeps
    /\ UNCHANGED <<rows, files>>

\* The event loop runs the oldest closure.
RunPosted ==
    /\ posted # <<>>
    /\ posted' = Tail(posted)
    /\ LET c == Head(posted)
           crd == [card EXCEPT ![c.model] = CardAfter(c.completion)]
           dlg == DialogAfter(c.model, c.completion)
       IN  IF c.starts
           THEN StartReady(active, queued, threads, crd, dlg)
           ELSE /\ card' = crd /\ dialog' = dlg
                /\ NoFault
                /\ UNCHANGED <<coordinator, threads>>
    /\ UNCHANGED <<rows, files, asked, clicks, restarts>>

-----------------------------------------------------------------------------
(***************************************************************************)
(* The process ends at any point and is started again: apply_state of each *)
(* model (with lifecycle::reconcile), then restore_queue.                  *)
(***************************************************************************)
RestoredCard(m) ==
    IF m \in installed THEN "Downloaded"
    ELSE IF partial[m] # "none" \/ m \in rows THEN "Paused"
    ELSE "NotDownloaded"

\* Mutant of Restart: the first row goes back to the queue.
Restart_Resumes ==
    /\ restarts < MaxRestarts /\ restarts' = restarts + 1
    /\ active' = [m \in Models |-> 0]
    /\ queued' = IF rows \subseteq installed THEN <<>>
                 ELSE <<CHOOSE m \in rows : m \notin installed>>
    /\ next_generation' = 1
    /\ threads' = {}
    /\ posted' = <<>>
    /\ card' = [m \in Models |-> RestoredCard(m)]
    /\ dialog' = NoModel
    /\ rows' = rows \ installed
    /\ recorded' = installed
    /\ asked' = {}
    /\ UNCHANGED <<installed, partial, clicks, faults>>

Restart ==
    /\ restarts < MaxRestarts /\ restarts' = restarts + 1
    /\ active' = [m \in Models |-> 0]
    /\ queued' = <<>>
    /\ next_generation' = 1
    /\ threads' = {}
    /\ posted' = <<>>
    /\ card' = [m \in Models |-> RestoredCard(m)]
    /\ dialog' = NoModel
    /\ rows' = rows \ installed
    /\ recorded' = installed
    /\ asked' = {}
    /\ UNCHANGED <<installed, partial, clicks, faults>>

-----------------------------------------------------------------------------
Init ==
    /\ active = [m \in Models |-> 0]
    /\ queued = <<>>
    /\ next_generation = 1
    /\ threads = {}
    /\ posted = <<>>
    /\ card = [m \in Models |-> "NotDownloaded"]
    /\ dialog = NoModel
    /\ rows = {}
    /\ installed = {}
    /\ recorded = {}
    /\ partial = [m \in Models |-> "none"]
    /\ asked = {}
    /\ clicks = 0 /\ faults = 0 /\ restarts = 0

ThreadStep(t) ==
    \/ BeginAttempt(t) \/ StopDownload(t) \/ FinishDownload(t)
    \/ DownloadFails(t) \/ PassLastCheck(t) \/ Activate(t) \/ Record(t)
    \/ Discard(t) \/ Finish(t) \/ ClearRow(t) \/ Post(t)

UserStep(m) ==
    \/ Download(m) \/ DownloadWhileEnding(m) \/ DownloadRefused(m) \/ Pause(m)
    \/ CancelActive(m) \/ CancelInactive(m) \/ Delete(m) \/ DeleteFails(m)

Next ==
    \/ \E m \in Models : UserStep(m)
    \/ Dismiss
    \/ \E t \in threads : ThreadStep(t)
    \/ RunPosted
    \/ Restart

Spec == Init /\ [][Next]_vars

\* Threads run, and the event loop drains its queue.  Every wait of a download
\* is bounded (the client has a connect and a read timeout), so a thread that
\* is downloading goes on.  Users owe nothing.
ThreadsOf(kind, m) == {t \in threads : t.kind = kind /\ t.model = m}

Fairness ==
    /\ WF_vars(RunPosted)
    /\ \A kind \in {"download", "cancel"} : \A m \in Models :
          WF_vars(\E t \in ThreadsOf(kind, m) : ThreadStep(t))

FairSpec == Spec /\ Fairness

-----------------------------------------------------------------------------
TypeOK ==
    /\ active \in [Models -> Nat]
    /\ queued \in Seq(Models)
    /\ next_generation \in Nat \ {0}
    /\ threads \subseteq Thread
    /\ posted \in Seq(Closure)
    /\ card \in [Models -> Cards]
    /\ dialog \in Models \cup {NoModel}
    /\ rows \subseteq Models
    /\ installed \subseteq Models
    /\ recorded \subseteq Models
    /\ partial \in [Models -> {"none", "part", "full"}]
    /\ asked \subseteq Models
    /\ clicks \in 0..MaxClicks /\ faults \in 0..MaxFaults /\ restarts \in 0..MaxRestarts

\* The slots of the coordinator and the threads agree: the download threads
\* that have not given their slot back are exactly the active generations, so a
\* failed or interrupted download never leaks a slot and two threads never
\* write the staging directory of one model (finish, take_ready, enqueue).
SlotsAreThreads ==
    \A m \in Models :
        {t.number : t \in {u \in ThreadsOf("download", m) : u.stage \in Holding}}
            = {active[m]} \ {0}

\* At most MAX_ACTIVE_DOWNLOADS installations run at once, however starts,
\* pauses, cancels and late completions interleave.
AtMostMaxActive ==
    Cardinality({t \in threads : t.kind = "download" /\ t.stage \in Holding})
        <= MaxActive

\* A card whose buttons are off, or that shows a transfer, is not stranded: a
\* thread, a closure or the queue will still change it.
CardHasActor ==
    \A m \in Models :
        LET reported == \/ \E t \in threads : t.model = m
                        \/ \E c \in Members(posted) : c.model = m
        IN  /\ card[m] \in {"Downloading", "Cancelling"} => reported
            /\ card[m] = "Queued" => reported \/ m \in Members(queued)

\* A launch does not begin a transfer by itself (restore_queue only shows the
\* rows): whatever is queued or downloading was asked for since the launch.
NoSilentTransfer ==
    /\ \A t \in threads : t.kind = "download" => t.model \in asked
    /\ Members(queued) \subseteq asked

\* While a slot is free and no completion is on its way to hand it out, nobody
\* waits: start_ready is called wherever a slot or an entry appears.
WorkConserving ==
    queued # <<>> =>
        \/ Cardinality(ActiveModels(active)) >= MaxActive
        \/ \E t \in threads : t.kind = "download"
        \/ \E c \in Members(posted) : c.starts

\* First in, first out in the coordinator's queue: whoever is left waiting when
\* a model starts had been asked for after it, however often either was.  This
\* is not "SQLite insertion order" (docs/architecture.md:222): a download that
\* is continued after a pause or a failure keeps its old row (INSERT OR IGNORE)
\* and goes to the end of the queue, behind models whose rows are younger.
FirstInFirstOut ==
    [][\A m \in Models : active[m] = 0 /\ active'[m] # 0 =>
          \A i \in DOMAIN queued : queued[i] \in Members(queued') =>
              \E j \in 1..(i - 1) : queued[j] = m]_vars

\* A model that waits eventually starts, is cancelled or fails, because every
\* way a download can end hands its slot on.
QueuedStarts ==
    \A m \in Models : m \in Members(queued) ~> m \notin Members(queued)

\* A card that shows Queued stands for a model in the queue ("the other tasks
\* show that they are queued", CONTEXT.md:237).
QueuedCardIsQueued ==
    \A m \in Models : card[m] = "Queued" => m \in Members(queued)
=============================================================================
