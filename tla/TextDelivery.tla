---------------------------- MODULE TextDelivery ----------------------------
(***************************************************************************)
(* The delivery of a text on macOS                                         *)
(* (apps/desktop/src/macos_text_delivery_runtime.rs,                       *)
(* crates/infra/src/macos_text_delivery/incremental.rs, clipboard.rs):     *)
(*                                                                         *)
(*   - the worker of a dictation asks the main thread for a delivery, waits*)
(*     no longer than its time-out, and may then copy the text as well;    *)
(*   - the main thread advances the delivery session one timer at a time   *)
(*     and borrows the clipboard for a paste;                              *)
(*   - the focused program carries out writes when it gets to them;        *)
(*   - the user, or any program, copies something meanwhile.               *)
(*                                                                         *)
(* One dictation at a time waits for a delivery (DictationRuntime); a      *)
(* session that timed out, and writes under way, may outlive it.  What the *)
(* outcome means for the history is DictationCompletion's.                 *)
(***************************************************************************)
EXTENDS Naturals

CONSTANTS
    Dictation,   \* dictations of a run
    None,        \* no dictation
    Polls,       \* bound: verification polls before a session gives up
    Copies       \* bound: different things the user copies

ASSUME NoneIsNoDictation == None \notin Dictation
ASSUME BoundsAreNat == Polls \in Nat /\ Copies \in Nat

VARIABLES
    worker,     \* where the worker of a dictation is
    outcome,    \* what deliver() returned to it
    busy,       \* the dictation whose session runs in the current callback
    step,       \* state of the delivery session
    kind,       \* what its paste goes to
    remaining,  \* polls left
    moved,      \* Verification.range_changed
    expired,    \* the cancelled flag: the worker waits no longer
    result,     \* what the session will answer
    sent,       \* is its answer in the channel?
    board,      \* what is on the clipboard
    owner,      \* the session that changed it last, None for anybody else
    snapshot,   \* what a session saved of it
    inflight,   \* writes asked for and not carried out yet
    inserted    \* how often the text of a dictation was inserted

(* History variables: they guard nothing.                                  *)
VARIABLES
    wanted,     \* what was put on the clipboard for good
    spoiled,    \* a restore failed, or somebody copied while one was at it
    unseen,     \* dictations whose direct write the check could not see
    trusted,    \* dictations that were taken for inserted by the caret alone
    overdue     \* writes asked for after the worker had stopped waiting

workerVars  == <<worker, outcome>>
sessionVars == <<busy, step, kind, remaining, moved, expired, result, sent>>
boardVars   == <<board, owner, snapshot, wanted, spoiled>>
targetVars  == <<inflight, inserted, unseen, trusted, overdue>>
vars == <<workerVars, sessionVars, boardVars, targetVars>>

WorkerPC == {"idle", "wait", "copy", "done"}

(* "queued" is the dispatched closure; "borrow" has saved the clipboard,   *)
(* "post" has written to it; "release" is about to look at the change      *)
(* count, "restore" to write the saved contents back.                      *)
Step == {"none", "queued", "resolve", "focused", "verifyDirect", "beginPaste",
         "borrow", "post", "verifyPaste", "awaitPaste", "release", "restore",
         "complete", "over"}

(* States a timer of the event loop leads out of ...                       *)
Timed == {"resolve", "focused", "verifyDirect", "beginPaste", "verifyPaste",
          "awaitPaste"}
(* ... and those in which the transcript may be on the clipboard.          *)
Borrowing == {"post", "verifyPaste", "awaitPaste", "release", "restore"}

Outcome == {"verified", "attempted", "secureAttempted", "secureFailed",
            "failed"}
Secret  == {"secureAttempted", "secureFailed"}
(* A session whose worker waits no longer is dropped without an answer.    *)
Result  == Outcome \cup {"dropped"}

Content ==
    {<<"user", n>> : n \in 0 .. Copies} \cup {<<"empty", 0>>}
    \cup ({"transcript", "copied"} \X Dictation)
Empty == <<"empty", 0>>
Transcript(d) == <<"transcript", d>>
Copied(d)     == <<"copied", d>>

(* Here a session does not notice that somebody else copies.               *)
Unguarded == {"borrow", "post", "restore"}

(* How a text gets into the control.                                       *)
Way == {"direct", "paste"}

TypeOK ==
    /\ worker \in [Dictation -> WorkerPC]
    /\ outcome \in [Dictation -> Outcome]
    /\ busy \in Dictation \cup {None}
    /\ step \in [Dictation -> Step]
    /\ kind \in [Dictation -> {"observable", "unobservable", "secure"}]
    /\ remaining \in [Dictation -> 0 .. Polls]
    /\ moved \in [Dictation -> BOOLEAN]
    /\ expired \in [Dictation -> BOOLEAN]
    /\ result \in [Dictation -> Result]
    /\ sent \in [Dictation -> BOOLEAN]
    /\ board \in Content
    /\ owner \in Dictation \cup {None}
    /\ snapshot \in [Dictation -> Content]
    /\ wanted \in Content
    /\ spoiled \in BOOLEAN
    /\ inflight \subseteq Dictation \X Way
    /\ inserted \in [Dictation -> 0 .. 2]
    /\ unseen \subseteq Dictation
    /\ trusted \subseteq Dictation
    /\ overdue \subseteq Dictation \X Way

Init ==
    /\ worker = [d \in Dictation |-> "idle"]
    /\ outcome = [d \in Dictation |-> "failed"]
    /\ busy = None
    /\ step = [d \in Dictation |-> "none"]
    /\ kind = [d \in Dictation |-> "observable"]
    /\ remaining = [d \in Dictation |-> 0]
    /\ moved = [d \in Dictation |-> FALSE]
    /\ expired = [d \in Dictation |-> FALSE]
    /\ result = [d \in Dictation |-> "failed"]
    /\ sent = [d \in Dictation |-> FALSE]
    /\ board = <<"user", 0>> /\ wanted = board
    /\ owner = None
    /\ snapshot = [d \in Dictation |-> Empty]
    /\ spoiled = FALSE
    /\ inflight = {}
    /\ inserted = [d \in Dictation |-> 0]
    /\ unseen = {}
    /\ trusted = {}
    /\ overdue = {}

-----------------------------------------------------------------------------
(* The clipboard gets something for good, from the user or the worker.     *)
Puts(c) ==
    /\ board' = c
    /\ wanted' = c
    /\ owner' = None
    /\ spoiled' = (spoiled \/ \E d \in Dictation : step[d] \in Unguarded)
    /\ UNCHANGED snapshot

-----------------------------------------------------------------------------
(* The worker of dictation d: CompletionDeliverer::deliver and run_delivery*)

WorkerGoes(d, from, to) ==
    /\ worker[d] = from
    /\ worker' = [worker EXCEPT ![d] = to]

(* The next dictation has come to its delivery.                            *)
Dispatches(d) ==
    /\ \A e \in Dictation : worker[e] \in {"idle", "done"}
    /\ WorkerGoes(d, "idle", "wait")
    /\ step' = [step EXCEPT ![d] = "queued"]
    /\ UNCHANGED <<outcome, busy, kind, remaining, moved, expired, result,
                   sent, boardVars, targetVars>>

Receives(d) ==
    /\ sent[d]
    /\ WorkerGoes(d, "wait", "copy")
    /\ outcome' = [outcome EXCEPT ![d] = result[d]]
    /\ sent' = [sent EXCEPT ![d] = FALSE]
    /\ result' = [result EXCEPT ![d] = "failed"]
    /\ UNCHANGED <<busy, step, kind, remaining, moved, expired, boardVars,
                   targetVars>>

(* recv_timeout gives up; the answer, if one comes, goes nowhere.          *)
TimesOut(d) ==
    /\ ~sent[d]
    /\ WorkerGoes(d, "wait", "copy")
    /\ expired' = [expired EXCEPT ![d] = TRUE]
    /\ outcome' = [outcome EXCEPT ![d] = "failed"]
    /\ UNCHANGED <<busy, step, kind, remaining, moved, result, sent,
                   boardVars, targetVars>>

(* The optional copy to the clipboard, on the worker's own thread, never   *)
(* of what is known to have gone to a secure control.  It empties the      *)
(* clipboard before it writes.  The outcome is passed on.                  *)
CopiesText(d) ==
    /\ WorkerGoes(d, "copy", "done")
    /\ \/ UNCHANGED boardVars
       \/ /\ outcome[d] \notin Secret
          /\ Puts(Copied(d)) \/ Puts(Empty)
    /\ outcome' = [outcome EXCEPT ![d] = "failed"]
    /\ UNCHANGED <<sessionVars, targetVars>>

WorkerStep(d) == Receives(d) \/ TimesOut(d) \/ CopiesText(d)

-----------------------------------------------------------------------------
(* The main thread.  A callback of the delivery session of d has busy = d; *)
(* it ends by waiting for its next timer or by completing.                 *)

SessionGoes(d, from, to) ==
    /\ step[d] = from
    /\ step' = [step EXCEPT ![d] = to]

(* MacOsTextDeliveryProgress::Wait                                         *)
Waits(d, from, to) == SessionGoes(d, from, to) /\ busy' = None

Answers(d, r) == result' = [result EXCEPT ![d] = r]

(* map_secure_error                                                        *)
Failure(d) == IF kind[d] = "secure" THEN "secureFailed" ELSE "failed"

(* The session is dropped, and with it all it held.                        *)
Drops(d) ==
    /\ busy' = None
    /\ step' = [step EXCEPT ![d] = "over"]
    /\ kind' = [kind EXCEPT ![d] = "observable"]
    /\ remaining' = [remaining EXCEPT ![d] = 0]
    /\ moved' = [moved EXCEPT ![d] = FALSE]
    /\ snapshot' = [snapshot EXCEPT ![d] = Empty]

(* A mutant: a session its worker gave up on before it began stays queued. *)
TakeDeliveryWanted(d) ==
    /\ busy = None
    /\ \A e \in Dictation \ {d} : step[e] \in {"none", "queued", "over"}
    /\ step[d] = "queued" /\ ~expired[d]
    /\ step' = [step EXCEPT ![d] = "resolve"]
    /\ UNCHANGED <<busy, kind, remaining, moved, snapshot, expired, result,
                   sent, workerVars, board, owner, wanted, spoiled,
                   targetVars>>

(* The dispatched closure.  The session of an earlier dictation has come   *)
(* to its last timer by then.                                              *)
TakeDelivery(d) ==
    /\ busy = None
    /\ \A e \in Dictation \ {d} : step[e] \in {"none", "queued", "over"}
    /\ step[d] = "queued"
    /\ IF expired[d] THEN Drops(d)
       ELSE /\ step' = [step EXCEPT ![d] = "resolve"]
            /\ UNCHANGED <<busy, kind, remaining, moved, snapshot>>
    /\ UNCHANGED <<expired, result, sent, workerVars, board, owner, wanted,
                   spoiled, targetVars>>

(* A mutant: dropping a session does not give the clipboard back.          *)
TimerAbandons(d) ==
    /\ busy = None
    /\ step[d] \in Timed
    /\ IF expired[d] THEN Drops(d)
       ELSE busy' = d /\ UNCHANGED <<step, kind, remaining, moved, snapshot>>
    /\ UNCHANGED <<result, expired, sent, workerVars, board, owner, wanted,
                   spoiled, targetVars>>

(* A mutant: the flag is looked at only before the first timer.            *)
TimerUnaware(d) ==
    /\ busy = None
    /\ step[d] \in Timed
    /\ busy' = d
    /\ UNCHANGED <<step, result, kind, remaining, moved, snapshot, expired,
                   sent, workerVars, board, owner, wanted, spoiled,
                   targetVars>>

(* advance_delivery looks at the flag first; a session that is not wanted  *)
(* any more is dropped, and Drop gives the clipboard back.                 *)
TimerFires(d) ==
    /\ busy = None
    /\ step[d] \in Timed
    /\ IF expired[d] /\ step[d] \notin Borrowing
       THEN Drops(d) /\ UNCHANGED result
       ELSE /\ busy' = d
            /\ IF expired[d]
               THEN /\ step' = [step EXCEPT ![d] = "release"]
                    /\ Answers(d, "dropped")
               ELSE UNCHANGED <<step, result>>
            /\ UNCHANGED <<kind, remaining, moved, snapshot>>
    /\ UNCHANGED <<expired, sent, workerVars, board, owner, wanted, spoiled,
                   targetVars>>

Writes(d, way) ==
    /\ inflight' = inflight \cup {<<d, way>>}
    /\ overdue' = IF expired[d] THEN overdue \cup {<<d, way>>} ELSE overdue

(* delivery_target_action, on what has the focus now.                      *)
ResolveTarget(d) ==
    /\ busy = d
    /\ \/ /\ \E r \in {"failed", "secureFailed"} : Answers(d, r)
          /\ SessionGoes(d, "resolve", "complete")
          /\ UNCHANGED <<busy, kind>>
       \/ Waits(d, "resolve", "focused") /\ UNCHANGED <<kind, result>>
       \/ /\ \E k \in {"unobservable", "secure"} : kind' = [kind EXCEPT ![d] = k]
          /\ Waits(d, "resolve", "beginPaste")
          /\ UNCHANGED result
    /\ UNCHANGED <<remaining, moved, expired, sent, workerVars, boardVars,
                   targetVars>>

(* A write the control accepts may still be carried out later or not at    *)
(* all, and so may one it reports an error for.                            *)
DeliverToFocused(d) ==
    /\ busy = d
    /\ \/ /\ \E k \in {"unobservable", "secure"} : kind' = [kind EXCEPT ![d] = k]
          /\ Waits(d, "focused", "beginPaste")
          /\ UNCHANGED <<remaining, inflight, overdue>>
       \/ /\ Waits(d, "focused", "verifyDirect")
          /\ remaining' = [remaining EXCEPT ![d] = Polls]
          /\ Writes(d, "direct")
          /\ UNCHANGED kind
       \/ /\ Waits(d, "focused", "beginPaste")
          /\ Writes(d, "direct") \/ UNCHANGED <<inflight, overdue>>
          /\ UNCHANGED <<kind, remaining>>
    /\ UNCHANGED <<moved, expired, result, sent, workerVars, boardVars,
                   inserted, unseen, trusted>>

(* poll_verification: the caret stands where the text would have put it.   *)
(* The text is read then; a control that does not give it is trusted.      *)
Shown(d) == inserted[d] > 0

Verified(d) ==
    /\ Answers(d, "verified")
    /\ trusted' = IF Shown(d) THEN trusted ELSE trusted \cup {d}

Unverified(d, r) == Answers(d, r) /\ UNCHANGED trusted

(* A mutant: where the caret stands is not compared.                       *)
PollsBlind(d, m) ==
    ~m /\ moved' = [moved EXCEPT ![d] = FALSE] /\ UNCHANGED unseen

(* Or it does not stand there; m: has it moved by now?  It has when the    *)
(* text was inserted, unless somebody put it back.                         *)
PollsAgain(d, m) ==
    /\ moved[d] => m
    /\ moved' = [moved EXCEPT ![d] = m]
    /\ unseen' = IF Shown(d) /\ ~m THEN unseen \cup {d} ELSE unseen

VerifyDirect(d) ==
    /\ busy = d
    /\ \/ /\ Verified(d) \/ Unverified(d, "failed")
          /\ SessionGoes(d, "verifyDirect", "complete")
          /\ UNCHANGED <<busy, remaining, moved, unseen>>
       \/ \E m \in BOOLEAN :
          /\ PollsAgain(d, m)
          /\ IF remaining[d] > 0
             THEN /\ Waits(d, "verifyDirect", "verifyDirect")
                  /\ remaining' = [remaining EXCEPT ![d] = @ - 1]
                  /\ UNCHANGED result
             ELSE IF m
             THEN /\ Answers(d, "failed")
                  /\ SessionGoes(d, "verifyDirect", "complete")
                  /\ UNCHANGED <<busy, remaining>>
             ELSE /\ Waits(d, "verifyDirect", "beginPaste")
                  /\ UNCHANGED <<remaining, result>>
          /\ UNCHANGED trusted
    /\ UNCHANGED <<kind, expired, sent, workerVars, boardVars,
                   inflight, inserted, overdue>>

(* TemporaryPasteboard::replace: what is on the clipboard is read first.   *)
BeginPaste(d) ==
    /\ busy = d
    /\ \/ /\ SessionGoes(d, "beginPaste", "borrow")
          /\ snapshot' = [snapshot EXCEPT ![d] = board]
          /\ UNCHANGED result
       \/ /\ SessionGoes(d, "beginPaste", "complete")
          /\ Answers(d, Failure(d))
          /\ UNCHANGED snapshot
    /\ UNCHANGED <<busy, kind, remaining, moved, expired, sent, workerVars,
                   board, owner, wanted, spoiled, targetVars>>

(* ... it is replaced then, by nothing if the write fails.                 *)
BorrowClipboard(d) ==
    /\ busy = d
    /\ \/ /\ SessionGoes(d, "borrow", "post")
          /\ board' = Transcript(d)
          /\ UNCHANGED result
       \/ /\ SessionGoes(d, "borrow", "release")
          /\ board' = Empty
          /\ Answers(d, Failure(d))
    /\ owner' = d
    /\ UNCHANGED <<busy, kind, remaining, moved, expired, sent, workerVars,
                   snapshot, wanted, spoiled, targetVars>>

(* The change count is read after the write; then the paste is posted.     *)
PostPaste(d) ==
    /\ busy = d
    /\ owner' = d
    /\ \/ /\ Waits(d, "post", IF kind[d] = "observable" THEN "verifyPaste"
                              ELSE "awaitPaste")
          /\ Writes(d, "paste")
          /\ remaining' = [remaining EXCEPT ![d] = Polls]
          /\ UNCHANGED result
       \/ /\ SessionGoes(d, "post", "release")
          /\ Answers(d, Failure(d))
          /\ UNCHANGED <<busy, remaining, inflight, overdue>>
    /\ UNCHANGED <<kind, moved, expired, sent, workerVars, board, snapshot,
                   wanted, spoiled, inserted, unseen, trusted>>

(* A mutant: the polls of a paste are not limited.                         *)
VerifyPasteForever(d) ==
    /\ busy = d
    /\ Waits(d, "verifyPaste", "verifyPaste")
    /\ remaining' = [remaining EXCEPT ![d] = @ - 1]
    /\ UNCHANGED <<kind, moved, expired, result, sent, workerVars, boardVars,
                   targetVars>>

VerifyPaste(d) ==
    /\ busy = d
    /\ \/ /\ Verified(d) \/ Unverified(d, "attempted")
          /\ SessionGoes(d, "verifyPaste", "release")
          /\ UNCHANGED <<busy, remaining>>
       \/ /\ remaining[d] > 0
          /\ Waits(d, "verifyPaste", "verifyPaste")
          /\ remaining' = [remaining EXCEPT ![d] = @ - 1]
          /\ UNCHANGED <<result, trusted>>
    /\ UNCHANGED <<kind, moved, expired, sent, workerVars, boardVars,
                   inflight, inserted, unseen, overdue>>

AwaitPaste(d) ==
    /\ busy = d
    /\ SessionGoes(d, "awaitPaste", "release")
    /\ Answers(d, IF kind[d] = "secure" THEN "secureAttempted" ELSE "attempted")
    /\ UNCHANGED <<busy, kind, remaining, moved, expired, sent, workerVars,
                   boardVars, targetVars>>

(* A mutant: what was saved is written back whoever changed the clipboard. *)
ReleaseUnchecked(d) ==
    /\ busy = d
    /\ SessionGoes(d, "release", "restore")
    /\ UNCHANGED <<busy, kind, remaining, moved, expired, result, sent,
                   workerVars, boardVars, targetVars>>

(* restore_if_unchanged: the change count is read ...                      *)
ReleaseClipboard(d) ==
    /\ busy = d
    /\ SessionGoes(d, "release", IF owner = d THEN "restore" ELSE "complete")
    /\ UNCHANGED <<busy, kind, remaining, moved, expired, result, sent,
                   workerVars, boardVars, targetVars>>

(* ... and what was saved is written back.  Building an item may fail      *)
(* before anything changes, the write after the clipboard was emptied.     *)
RestoreClipboard(d) ==
    /\ busy = d
    /\ SessionGoes(d, "restore", "complete")
    /\ \/ /\ board' = snapshot[d]
          /\ UNCHANGED <<spoiled, result>>
       \/ /\ board' \in {board, Empty}
          /\ spoiled' = TRUE
          /\ IF result[d] = "dropped" THEN UNCHANGED result
             ELSE Answers(d, Failure(d))
    /\ owner' = None
    /\ UNCHANGED <<busy, kind, remaining, moved, expired, sent, workerVars,
                   snapshot, wanted, targetVars>>

(* The worker gets its answer (what is observed then is                    *)
(* DictationCompletion's).                                                 *)
CompleteDelivery(d) ==
    /\ busy = d
    /\ step[d] = "complete"
    /\ sent' = [sent EXCEPT ![d] = ~expired[d]]
    /\ IF expired[d] THEN Answers(d, "failed") ELSE UNCHANGED result
    /\ Drops(d)
    /\ UNCHANGED <<expired, workerVars, board, owner, wanted, spoiled,
                   targetVars>>

MainStep(d) ==
    \/ TakeDelivery(d) \/ TimerFires(d)
    \/ ResolveTarget(d) \/ DeliverToFocused(d) \/ VerifyDirect(d)
    \/ BeginPaste(d) \/ BorrowClipboard(d) \/ PostPaste(d)
    \/ VerifyPaste(d) \/ AwaitPaste(d)
    \/ ReleaseClipboard(d) \/ RestoreClipboard(d) \/ CompleteDelivery(d)

-----------------------------------------------------------------------------
(* The focused program and the user.                                       *)

(* A paste inserts what is on the clipboard by then.                       *)
Lands(d, way) ==
    /\ <<d, way>> \in inflight
    /\ inflight' = inflight \ {<<d, way>>}
    /\ IF way = "direct" \/ board = Transcript(d)
       THEN /\ inserted' = [inserted EXCEPT ![d] = @ + 1]
            /\ unseen' = IF way = "direct" /\ step[d] # "verifyDirect"
                       THEN unseen \cup {d} ELSE unseen
       ELSE UNCHANGED <<inserted, unseen>>
    /\ UNCHANGED <<trusted, overdue, workerVars, sessionVars, boardVars>>

Ignored(d, way) ==
    /\ <<d, way>> \in inflight
    /\ inflight' = inflight \ {<<d, way>>}
    /\ UNCHANGED <<workerVars, sessionVars, boardVars, inserted, unseen,
                   trusted, overdue>>

UserCopies ==
    /\ \E n \in 1 .. Copies :
         board # <<"user", n>> /\ Puts(<<"user", n>>)
    /\ UNCHANGED <<workerVars, sessionVars, targetVars>>

Environment ==
    \/ UserCopies
    \/ \E d \in Dictation :
          Dispatches(d) \/ \E way \in Way : Lands(d, way) \/ Ignored(d, way)

-----------------------------------------------------------------------------
Next == Environment \/ \E d \in Dictation : WorkerStep(d) \/ MainStep(d)

Spec == Init /\ [][Next]_vars

(***************************************************************************)
(* Fairness.  The worker is a thread of its own and its time-out passes;   *)
(* the main thread runs closures and due timers, and goes on with a        *)
(* callback it has begun.  Nothing is assumed of the user or of the focused*)
(* program.                                                                *)
(***************************************************************************)
Fairness ==
    \A d \in Dictation : WF_vars(WorkerStep(d)) /\ WF_vars(MainStep(d))

FairSpec == Spec /\ Fairness

-----------------------------------------------------------------------------
(* Properties.                                                             *)

(* The transcript is on the clipboard only while a session has it there    *)
(* for a paste: every way out of a session, the drop after a time-out      *)
(* included, takes it away, unless the restore itself failed or met a copy.*)
NoTranscriptLeft ==
    \A d \in Dictation :
        board = Transcript(d) => step[d] \in Borrowing \/ spoiled

(* When no session borrows the clipboard, it holds what was put there last *)
(* for good: the user's own contents, a copy made during a paste, or the   *)
(* optional copy of the transcript, also when that one comes while the     *)
(* session that timed out still has its timer.                             *)
ClipboardReturned ==
    (\A d \in Dictation : step[d] \notin Borrowing) /\ ~spoiled
        => board = wanted

(* The text is not pasted once it could be seen to have landed: twice in   *)
(* the control means that the control carried out the direct write when the*)
(* check was over, or that somebody put the caret back before the check.   *)
InsertedTwiceOnlyIfUnseen == \A d \in Dictation : inserted[d] > 1 => d \in unseen

(* What the worker takes for delivered was inserted, unless the control    *)
(* gave no text to read and the caret stood where it should; the answers   *)
(* of two sessions are not mixed up by time-outs.                          *)
VerifiedIsInserted ==
    \A d \in Dictation :
        worker[d] = "copy" /\ outcome[d] = "verified"
            => inserted[d] > 0 \/ d \in trusted

(* What the worker is told and what the control got agree: a text is not   *)
(* inserted twice while the control shows what it has, and what is taken   *)
(* for delivered was inserted.                                             *)
InsertionIsTold == InsertedTwiceOnlyIfUnseen /\ VerifiedIsInserted

(* Once a worker has stopped waiting (and the user was told of a failure), *)
(* its session asks for no write, but for the one the callback that was    *)
(* running then may still make.                                            *)
OneOverdueWrite ==
    \A d \in Dictation : \A w1, w2 \in Way :
        <<d, w1>> \in overdue /\ <<d, w2>> \in overdue => w1 = w2

(* A borrowed clipboard is always given back.                              *)
PasteEnds ==
    \A d \in Dictation : step[d] \in Borrowing ~> step[d] \notin Borrowing

(* A delivery that was asked for is answered or given up, and its session  *)
(* does not stay in the event loop.                                        *)
DeliveryEnds ==
    \A d \in Dictation :
        worker[d] = "wait" ~> worker[d] = "done" /\ step[d] = "over"

(* Neither a busy control, nor a dropped session or a time-out, keeps the   *)
(* clipboard borrowed or a delivery unanswered for good.                    *)
BorrowingAndDeliveryEnd == PasteEnds /\ DeliveryEnds
=============================================================================
