------------------------- MODULE DictationCompletion ------------------------
(***************************************************************************)
(* From the transcript to the history record                               *)
(* (crates/app/src/dictation_completion.rs, history_revision.rs,           *)
(* apps/desktop/src/dictation_completion_runtime.rs,                       *)
(* crates/infra/src/macos_text_delivery/observation.rs,                    *)
(* sqlite_storage/history.rs):                                             *)
(*                                                                         *)
(*   - the worker of a dictation loads the policy, has the text delivered, *)
(*     writes the record and completes the revision recorder;              *)
(*   - the main thread runs the delivery (TextDelivery, of which only the  *)
(*     target's privacy, the answer and the time-out are left here) and    *)
(*     tells an observation to end when the next dictation begins;         *)
(*   - one observer thread per verified text polls the control and reports *)
(*     the last revision it read;                                          *)
(*   - the storage worker serves one request at a time;                    *)
(*   - the user edits, deletes records and switches the history.           *)
(***************************************************************************)
EXTENDS Naturals

CONSTANTS
    Dictation,   \* dictations of a run
    None,        \* no dictation
    Edits,       \* bound: versions the user turns a delivered text into
    Looks        \* bound: polls of an observer before its two minutes are over

ASSUME NoneIsNoDictation == None \notin Dictation
ASSUME BoundsAreNat == Edits \in Nat /\ Looks \in Nat

VARIABLES
    worker,     \* where the shortcut thread or the worker is in a dictation
    policy,     \* DictationCompletionPolicy.history, read once
    outcome,    \* what deliver() returned
    saved,      \* history_was_saved
    delivery,   \* where the delivery session is
    secure,     \* it resolved its target to a secure control
    expired,    \* the worker waits for it no longer
    answer,     \* what it answered, "none" before
    text,       \* version that stands where the text was delivered
    active,     \* ACTIVE_REVISION_OBSERVER
    notice,     \* observers told to end, and not yet through
    observer,   \* where an observer thread is
    looks,      \* polls it has left
    latest,     \* FinalTextRevisionState.latest
    recorder,   \* HistoryRevisionState
    pending,    \* its pending final text
    record,     \* transcript_history
    enabled     \* local settings: history_enabled

(* A history variable: records the storage failed to update.               *)
VARIABLE lost

workerVars   == <<worker, policy, outcome, saved>>
deliveryVars == <<delivery, secure, expired, answer>>
observerVars == <<active, notice, observer, looks, latest>>
recorderVars == <<recorder, pending>>
storeVars    == <<record, enabled, lost>>
vars == <<workerVars, deliveryVars, text, observerVars, recorderVars,
          storeVars>>

WorkerPC == {"new", "notice", "record", "policy", "dispatch", "wait",
             "persist", "finish", "update", "done"}

Outcome == {"verified", "attempted", "secureAttempted", "secureFailed",
            "failed"}
Secret  == {"secureAttempted", "secureFailed"}

(* An observer ends "ended" or, for secure input, "cancelled".             *)
ObserverPC == {"none", "look", "read", "persist", "ended", "cancelled"}

Version == 0 .. Edits           \* 0 is the delivered text
Nothing == Edits + 1            \* no text

Absent  == [status |-> "absent"]
Deleted == [status |-> "deleted"]
Kept(v) == [status |-> "kept", text |-> v]
IsKept(d) == record[d].status = "kept"
Record == {Absent, Deleted} \cup [status : {"kept"}, text : Version]

TypeOK ==
    /\ worker \in [Dictation -> WorkerPC]
    /\ policy \in [Dictation -> {"enabled", "disabled", "unavailable"}]
    /\ outcome \in [Dictation -> Outcome]
    /\ saved \in [Dictation -> BOOLEAN]
    /\ delivery \in [Dictation -> {"none", "queued", "running", "over"}]
    /\ secure \in [Dictation -> BOOLEAN]
    /\ expired \in [Dictation -> BOOLEAN]
    /\ answer \in [Dictation -> Outcome \cup {"none"}]
    /\ text \in [Dictation -> Version]
    /\ active \in Dictation \cup {None}
    /\ notice \subseteq Dictation
    /\ observer \in [Dictation -> ObserverPC]
    /\ looks \in [Dictation -> 0 .. Looks]
    /\ latest \in [Dictation -> Version]
    /\ recorder \in [Dictation -> {"awaiting", "active", "inactive"}]
    /\ pending \in [Dictation -> Version \cup {Nothing}]
    /\ record \in [Dictation -> Record]
    /\ enabled \in BOOLEAN
    /\ lost \subseteq Dictation

Init ==
    /\ worker = [d \in Dictation |-> "new"]
    /\ policy = [d \in Dictation |-> "unavailable"]
    /\ outcome = [d \in Dictation |-> "failed"]
    /\ saved = [d \in Dictation |-> FALSE]
    /\ delivery = [d \in Dictation |-> "none"]
    /\ secure = [d \in Dictation |-> FALSE]
    /\ expired = [d \in Dictation |-> FALSE]
    /\ answer = [d \in Dictation |-> "none"]
    /\ text = [d \in Dictation |-> 0]
    /\ active = None
    /\ notice = {}
    /\ observer = [d \in Dictation |-> "none"]
    /\ looks = [d \in Dictation |-> Looks]
    /\ latest = [d \in Dictation |-> 0]
    /\ recorder = [d \in Dictation |-> "awaiting"]
    /\ pending = [d \in Dictation |-> Nothing]
    /\ record = [d \in Dictation |-> Absent]
    /\ enabled \in BOOLEAN
    /\ lost = {}

-----------------------------------------------------------------------------
(* The storage worker: one request at a time.                              *)

(* A mutant: what the policy said when it was loaded still counts.         *)
InsertsAnyway(d) ==
    \E old \in SUBSET {e \in Dictation : IsKept(e)} :
        record' = [e \in Dictation |->
                      IF e = d THEN Kept(0)
                      ELSE IF e \in old THEN Deleted ELSE record[e]]

(* insert: the setting is read in the same request (and success reported   *)
(* when the history is off); then what is too old goes.                    *)
Inserts(d) ==
    IF enabled
    THEN \E old \in SUBSET {e \in Dictation : IsKept(e)} :
            record' = [e \in Dictation |->
                          IF e = d THEN Kept(0)
                          ELSE IF e \in old THEN Deleted ELSE record[e]]
    ELSE UNCHANGED record

(* update_final_text: an error when there is no such record.               *)
Updates(d, v) ==
    IF IsKept(d)
    THEN \/ record' = [record EXCEPT ![d].text = v] /\ UNCHANGED lost
         \/ lost' = lost \cup {d} /\ UNCHANGED record
    ELSE UNCHANGED <<record, lost>>

-----------------------------------------------------------------------------
(* The shortcut thread and the worker of dictation d.                      *)

WorkerGoes(d, from, to) ==
    /\ worker[d] = from
    /\ worker' = [worker EXCEPT ![d] = to]

(* begin_recording asks the main thread to end the observation under way;  *)
(* the session slot admits one dictation at a time.                        *)
Begin(d) ==
    /\ \A e \in Dictation : worker[e] \in {"new", "done"}
    /\ WorkerGoes(d, "new", "notice")
    /\ UNCHANGED <<policy, outcome, saved, deliveryVars, text, observerVars,
                   recorderVars, storeVars>>

(* The end reason reaches the active observer if that one still watches.   *)
Watches(d) == observer[d] \in {"look", "read"}

Tell == notice' = notice \cup {d \in Dictation : d = active /\ Watches(d)}

(* finish_active_observation, in a closure of the event loop.              *)
NoticeTaken(d) ==
    /\ WorkerGoes(d, "notice", "record")
    /\ Tell
    /\ active' = None
    /\ UNCHANGED <<policy, outcome, saved, deliveryVars, text, observer,
                   looks, latest, recorderVars, storeVars>>

(* The main thread does not get to it in time: the closure will do nothing,*)
(* and begin_recording goes on.                                            *)
NoticeTimesOut(d) ==
    /\ WorkerGoes(d, "notice", "record")
    /\ UNCHANGED <<policy, outcome, saved, deliveryVars, text, observerVars,
                   recorderVars, storeVars>>

(* The recording is cancelled, or there is no transcript.                  *)
NothingToDeliver(d) ==
    /\ WorkerGoes(d, "record", "done")
    /\ recorder' = [recorder EXCEPT ![d] = "inactive"]
    /\ UNCHANGED <<policy, outcome, saved, deliveryVars, text, observerVars,
                   pending, storeVars>>

Finalizes(d) ==
    /\ WorkerGoes(d, "record", "policy")
    /\ UNCHANGED <<policy, outcome, saved, deliveryVars, text, observerVars,
                   recorderVars, storeVars>>

(* The policy is read once, before the text is refined and delivered.      *)
LoadsPolicy(d) ==
    /\ WorkerGoes(d, "policy", "dispatch")
    /\ \E p \in {IF enabled THEN "enabled" ELSE "disabled", "unavailable"} :
         policy' = [policy EXCEPT ![d] = p]
    /\ UNCHANGED <<outcome, saved, deliveryVars, text, observerVars,
                   recorderVars, storeVars>>

Dispatches(d) ==
    /\ WorkerGoes(d, "dispatch", "wait")
    /\ delivery' = [delivery EXCEPT ![d] = "queued"]
    /\ UNCHANGED <<policy, outcome, saved, secure, expired, answer, text,
                   observerVars, recorderVars, storeVars>>

Receives(d) ==
    /\ answer[d] # "none"
    /\ WorkerGoes(d, "wait", "persist")
    /\ outcome' = [outcome EXCEPT ![d] = answer[d]]
    /\ answer' = [answer EXCEPT ![d] = "none"]
    /\ UNCHANGED <<policy, saved, delivery, secure, expired, text,
                   observerVars, recorderVars, storeVars>>

(* recv_timeout gives up, whatever the target.                             *)
TimesOut(d) ==
    /\ answer[d] = "none"
    /\ WorkerGoes(d, "wait", "persist")
    /\ outcome' = [outcome EXCEPT ![d] = "failed"]
    /\ expired' = [expired EXCEPT ![d] = TRUE]
    /\ UNCHANGED <<policy, saved, delivery, secure, answer, text,
                   observerVars, recorderVars, storeVars>>

(* persist_history: skipped by the policy or for a secret outcome.  Policy *)
(* and outcome end here.                                                   *)
Persists(d) == policy[d] = "enabled" /\ outcome[d] \notin Secret

PersistsHistory(d) ==
    /\ WorkerGoes(d, "persist", "finish")
    /\ \/ UNCHANGED <<saved, record>>       \* not to be stored, or not stored
       \/ /\ Persists(d)
          /\ Inserts(d)
          /\ saved' = [saved EXCEPT ![d] = TRUE]
    /\ policy' = [policy EXCEPT ![d] = "unavailable"]
    /\ outcome' = [outcome EXCEPT ![d] = "failed"]
    /\ UNCHANGED <<deliveryVars, text, observerVars, recorderVars, enabled,
                   lost>>

(* HistoryRevisionRecorder::finish: what was observed meanwhile is stored  *)
(* after the lock was released.                                            *)
FinishesRevision(d) ==
    /\ WorkerGoes(d, "finish",
                  IF saved[d] /\ pending[d] # Nothing THEN "update" ELSE "done")
    /\ recorder' = [recorder EXCEPT ![d] =
                        IF saved[d] THEN "active" ELSE "inactive"]
    /\ pending' = IF saved[d] THEN pending
                  ELSE [pending EXCEPT ![d] = Nothing]
    /\ saved' = [saved EXCEPT ![d] = FALSE]
    /\ UNCHANGED <<policy, outcome, deliveryVars, text, observerVars,
                   storeVars>>

UpdatesHistory(d) ==
    /\ WorkerGoes(d, "update", "done")
    /\ Updates(d, pending[d])
    /\ pending' = [pending EXCEPT ![d] = Nothing]
    /\ UNCHANGED <<policy, outcome, saved, deliveryVars, text, observerVars,
                   recorder, enabled>>

WorkerStep(d) ==
    \/ NoticeTimesOut(d) \/ NothingToDeliver(d) \/ Finalizes(d)
    \/ LoadsPolicy(d) \/ Dispatches(d) \/ Receives(d) \/ TimesOut(d)
    \/ PersistsHistory(d) \/ FinishesRevision(d) \/ UpdatesHistory(d)

-----------------------------------------------------------------------------
(* The main thread: the delivery of dictation d, as TextDelivery has it.   *)

DeliveryEnds(d) ==
    /\ delivery' = [delivery EXCEPT ![d] = "over"]
    /\ secure' = [secure EXCEPT ![d] = FALSE]
    /\ expired' = [expired EXCEPT ![d] = FALSE]

(* The dispatched closure, which resolves the target a timer later.        *)
StartDelivery(d) ==
    /\ delivery[d] = "queued" /\ ~expired[d]
    /\ delivery' = [delivery EXCEPT ![d] = "running"]
    /\ secure' \in {secure, [secure EXCEPT ![d] = TRUE]}
    /\ UNCHANGED <<workerVars, expired, answer, text, observerVars,
                   recorderVars, storeVars>>

(* A mutant: a new observation does not end the one before.                *)
ObservesToo(d) ==
    /\ active' = d
    /\ observer' \in {observer, [observer EXCEPT ![d] = "look"]}
    /\ UNCHANGED <<notice, looks, latest>>

(* complete: a verified text is observed if its control allows it and the  *)
(* thread starts; the observer before is told.                             *)
Observes(d) ==
    /\ active' = d
    /\ Tell
    /\ observer' \in {observer, [observer EXCEPT ![d] = "look"]}
    /\ UNCHANGED <<looks, latest>>

(* The last callback of the session.  Its worker may have stopped waiting  *)
(* while it ran.                                                           *)
CompleteDelivery(d) ==
    /\ delivery[d] = "running"
    /\ \E r \in IF secure[d] THEN Secret ELSE Outcome \ {"secureAttempted"} :
         /\ answer' = IF expired[d] THEN answer ELSE [answer EXCEPT ![d] = r]
         /\ \/ r = "verified" /\ Observes(d)
            \/ UNCHANGED observerVars
    /\ DeliveryEnds(d)
    /\ UNCHANGED <<workerVars, text, recorderVars, storeVars>>

DropDelivery(d) ==
    /\ delivery[d] \in {"queued", "running"} /\ expired[d]
    /\ DeliveryEnds(d)
    /\ UNCHANGED <<workerVars, answer, text, observerVars, recorderVars,
                   storeVars>>

MainStep(d) ==
    NoticeTaken(d) \/ StartDelivery(d) \/ CompleteDelivery(d) \/ DropDelivery(d)

-----------------------------------------------------------------------------
(* The observer thread of dictation d.                                     *)

ObserverGoes(d, from, to) ==
    /\ observer[d] = from
    /\ observer' = [observer EXCEPT ![d] = to]

(* Its receiver goes with the thread.                                      *)
Deaf(d) == notice' = notice \ {d}

(* A mutant: a revision that comes before the record was written is lost.  *)
RevisedOnlyActive(d, v, from) ==
    /\ ObserverGoes(d, from,
           IF v # 0 /\ recorder[d] = "active" THEN "persist" ELSE "ended")
    /\ UNCHANGED recorderVars

(* FinalTextRevisionState and HistoryRevisionState::observe, at the end of *)
(* an observation whose latest snapshot is v.                              *)
Revised(d, v, from) ==
    /\ ObserverGoes(d, from,
           IF v # 0 /\ recorder[d] = "active" THEN "persist" ELSE "ended")
    /\ pending' = IF v # 0 /\ recorder[d] = "awaiting"
                  THEN [pending EXCEPT ![d] = v] ELSE pending
    /\ UNCHANGED recorder

(* The end reason that was sent comes first, then secure input.            *)
ObserverLooks(d) ==
    /\ IF d \in notice THEN Revised(d, latest[d], "look")
       ELSE /\ \/ ObserverGoes(d, "look", "cancelled")
               \/ ObserverGoes(d, "look", "read")
            /\ UNCHANGED recorderVars
    /\ Deaf(d)
    /\ UNCHANGED <<active, looks, latest, workerVars, deliveryVars, text,
                   storeVars>>

(* The control is read: nothing legible, or the version that stands there, *)
(* which is a snapshot when it is not the delivered text.  A reset, a lost *)
(* focus or the deadline ends the observation.                             *)
ObserverReads(d) ==
    /\ \E legible, ends \in BOOLEAN :
         LET v == IF legible /\ text[d] # 0 THEN text[d] ELSE latest[d]
         IN  /\ latest' = [latest EXCEPT ![d] = v]
             /\ IF ends \/ looks[d] = 0
                THEN Revised(d, v, "read") /\ Deaf(d) /\ UNCHANGED looks
                ELSE /\ ObserverGoes(d, "read", "look")
                     /\ looks' = [looks EXCEPT ![d] = @ - 1]
                     /\ UNCHANGED <<notice, recorderVars>>
    /\ UNCHANGED <<active, workerVars, deliveryVars, text, storeVars>>

ObserverPersists(d) ==
    /\ ObserverGoes(d, "persist", "ended")
    /\ Updates(d, latest[d])
    /\ UNCHANGED <<active, notice, looks, latest, workerVars, deliveryVars,
                   text, recorderVars, enabled>>

ObserverStep(d) == ObserverLooks(d) \/ ObserverReads(d) \/ ObserverPersists(d)

-----------------------------------------------------------------------------
(* The user.                                                               *)

(* Edits a text; before and after its observation nobody would see it.     *)
Edited(d) ==
    /\ Watches(d)
    /\ \E v \in Version \ {text[d]} : text' = [text EXCEPT ![d] = v]
    /\ UNCHANGED <<workerVars, deliveryVars, observerVars, recorderVars,
                   storeVars>>

(* Deletes one record or all of them, or some have become too old.         *)
RecordsDeleted ==
    /\ \E ds \in SUBSET {d \in Dictation : IsKept(d)} \ {{}} :
         record' = [d \in Dictation |->
                       IF d \in ds THEN Deleted ELSE record[d]]
    /\ UNCHANGED <<enabled, lost, workerVars, deliveryVars, text,
                   observerVars, recorderVars>>

HistorySwitched ==
    /\ enabled' = ~enabled
    /\ UNCHANGED <<record, lost, workerVars, deliveryVars, text,
                   observerVars, recorderVars>>

User ==
    \/ RecordsDeleted \/ HistorySwitched
    \/ \E d \in Dictation : Begin(d) \/ Edited(d)

-----------------------------------------------------------------------------
Next ==
    \/ User
    \/ \E d \in Dictation : WorkerStep(d) \/ MainStep(d) \/ ObserverStep(d)

Spec == Init /\ [][Next]_vars

-----------------------------------------------------------------------------
(* Properties.                                                             *)

(* Observers do not pile up: one that still watches and has not been told  *)
(* to end is the active one, which the next dictation tells.               *)
OneActiveObserver ==
    \A d \in Dictation : Watches(d) /\ d \notin notice => active = d

(* Whichever is through first, the completion or the observation: at rest  *)
(* the record has the last revision that was observed, or the delivered    *)
(* text when the observation was cancelled.                                *)
FinalTextIsLastRevision ==
    \A d \in Dictation :
        worker[d] = "done" /\ IsKept(d) /\ d \notin lost =>
            /\ observer[d] = "ended" => record[d].text = latest[d]
            /\ observer[d] = "cancelled" => record[d].text = 0

-----------------------------------------------------------------------------
(* DictationCompletion implements HistoryRecord, with the same variables.  *)

History == INSTANCE HistoryRecord WITH Text <- Version

(* No order of completion, observation, deletion and settings writes a     *)
(* record while the history is off, writes one twice or brings one back.   *)
ImplementsHistoryRecord == History!Spec

-----------------------------------------------------------------------------
(* What the documents promise and a time-out breaks.                       *)

(* CONTEXT.md:67: a dictation delivered to a secure control is not stored; *)
(* here, while its session still waits for the paste.                      *)
SecureTargetIsNotStored == \A d \in Dictation : secure[d] => ~IsKept(d)
=============================================================================
