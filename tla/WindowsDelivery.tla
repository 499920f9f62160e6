--------------------------- MODULE WindowsDelivery ---------------------------
(***************************************************************************)
(* Text delivery on Windows: crates/infra/src/windows_text_delivery.rs,    *)
(* worker.rs, clipboard.rs and observation.rs.                             *)
(*                                                                         *)
(* One thread owns COM and takes commands from a queue of two; whoever     *)
(* sends one waits for its answer.  A delivery borrows the clipboard for   *)
(* one paste.  Between commands, and after each of them, the thread looks  *)
(* at the control it delivered to and tells an observer what the user made *)
(* of the text.  The user copies, types and moves the focus at any time.   *)
(***************************************************************************)
EXTENDS Integers, Sequences, SequencesExt, FiniteSets

CONSTANTS
    WinDictations,     \* identities of dictations, each delivered once
    Controls,          \* controls of other programs
    PasswordControls,  \* those that are, or may be, password controls
    NativeEdits,       \* those of class Edit or RichEdit
    WinCopies,         \* contents the user copies
    NoDelivery,
    CommandCapacity,   \* COMMAND_QUEUE_CAPACITY
    MaxVersions,       \* bound: edits of a delivered text
    MaxWinFaults,      \* bound: calls of the system that fail
    MaxMoves           \* bound: moves of the focus

ASSUME WindowsDeliveryAssumption ==
    /\ PasswordControls \subseteq Controls /\ NativeEdits \subseteq Controls
    /\ NoDelivery \notin WinDictations \cup Controls
    /\ CommandCapacity \in Nat \ {0}
    /\ {MaxVersions, MaxWinFaults, MaxMoves} \subseteq Nat

VARIABLES
    wQueue,     \* commands sent and not yet received
    wAnswer,    \* what each delivery was answered
    wStep,      \* where the delivery thread is
    wNow,       \* the dictation it delivers
    wTarget,    \* FocusedTarget: the control, and whether its text could be read
    wSaved,     \* ClipboardSnapshot
    wBoard,     \* the contents of the clipboard: a copy, a dictation or nothing
    wSequence,  \* the clipboard's sequence number against TemporaryClipboard's
    wPasted,    \* what the paste came to
    focus,      \* the control that has the focus
    version,    \* of each delivered text: how often it was edited; -1 when cleared
    composing,  \* an input method's composition is under way
    observed,   \* active_observations: the dictation, its control, what was reported
    heard,      \* history: what each observer was told
    wWanted,    \* history: what the user copied last
    wSpoiled,   \* history: a copy was made where the system cannot keep it, or the
                \* restore failed
    wFaults, wMoves

windowsVars == <<wQueue, wAnswer, wStep, wNow, wTarget, wSaved, wBoard, wSequence,
                 wPasted, focus, version, composing, observed, heard, wWanted,
                 wSpoiled, wFaults, wMoves>>

winBoardVars == <<wSaved, wBoard, wSequence, wWanted, wSpoiled>>
winUserVars == <<focus, version, composing, wMoves>>

-----------------------------------------------------------------------------
NothingObserved == [of |-> NoDelivery, control |-> NoDelivery, last |-> 0]
NoTarget == [control |-> NoDelivery, readable |-> FALSE]

WinAnswers == {"none", "attempted", "secureAttempted", "noControl", "unsupported",
            "secureFailed", "system"}

\* protect_sensitive_error: an error of a delivery to a password control is secret.
Protected(control) == IF control \in PasswordControls THEN "secureFailed" ELSE "system"

\* The outcome of deliver_once.
Attempted(control) == IF control \in PasswordControls THEN "secureAttempted" ELSE "attempted"

WindowsInit ==
    /\ wQueue = <<>> /\ wAnswer = [d \in WinDictations |-> "none"]
    /\ wStep = "recv" /\ wNow = NoDelivery /\ wTarget = NoTarget
    /\ wBoard \in WinCopies /\ wSaved = "nothing" /\ wSequence = "theirs"
    /\ wWanted = wBoard /\ wSpoiled = FALSE
    /\ wPasted = "no"
    /\ focus \in Controls \cup {NoDelivery}
    /\ version = [d \in WinDictations |-> 0] /\ composing = FALSE
    /\ observed = NothingObserved
    /\ heard = [d \in WinDictations |-> <<>>]
    /\ wFaults = 0 /\ wMoves = 0

Breaks == wFaults < MaxWinFaults /\ wFaults' = wFaults + 1

-----------------------------------------------------------------------------
(* DeliveryWorker::request: the sender keeps its lock until the bounded    *)
(* queue has room.  One dictation is delivered at a time, and its caller    *)
(* waits for the answer.  finish_observation comes from the start of the    *)
(* next recording.                                                          *)

RequestDelivery(d) ==
    /\ Len(wQueue) < CommandCapacity
    /\ wAnswer[d] = "none"
    /\ \A c \in ToSet(wQueue) : c.kind # "deliver"
    /\ wNow = NoDelivery
    /\ wQueue' = Append(wQueue, [kind |-> "deliver", of |-> d])
    /\ UNCHANGED <<wAnswer, wStep, wNow, wTarget, winBoardVars, wPasted, winUserVars,
                   observed, heard, wFaults>>

RequestFinish ==
    /\ Len(wQueue) < CommandCapacity
    /\ observed # NothingObserved
    /\ wQueue' = Append(wQueue, [kind |-> "finish", of |-> NoDelivery])
    /\ UNCHANGED <<wAnswer, wStep, wNow, wTarget, winBoardVars, wPasted, winUserVars,
                   observed, heard, wFaults>>

-----------------------------------------------------------------------------
(* run: a command, or the poll interval's end, and then one poll.           *)

\* What an observer hears: the text it is told of, or why the observation ended.
Snapshots == {<<"snapshot", v>> : v \in 0..MaxVersions}
Ended(reason) == <<reason, 0>>
Tell(d, what) == [heard EXCEPT ![d] = Append(@, what)]

\* Mutant of FinishAll: an observer that was told stays active.
FinishAll_KeepsActive(reason) ==
    /\ observed' = observed
    /\ heard' = IF observed = NothingObserved THEN heard ELSE Tell(observed.of, Ended(reason))

\* ActiveCorrectionObservation::finish of every observation, and clear.
FinishAll(reason) ==
    /\ observed' = NothingObserved
    /\ heard' = IF observed = NothingObserved THEN heard ELSE Tell(observed.of, Ended(reason))

ReceiveFinish ==
    /\ wStep = "recv" /\ wQueue # <<>> /\ Head(wQueue).kind = "finish"
    /\ wQueue' = Tail(wQueue)
    /\ FinishAll("finished")
    /\ wStep' = "poll"
    /\ UNCHANGED <<wAnswer, wNow, wTarget, winBoardVars, wPasted, winUserVars, wFaults>>

\* The observation of the dictation before ends before the delivery begins.
ReceiveDelivery ==
    /\ wStep = "recv" /\ wQueue # <<>> /\ Head(wQueue).kind = "deliver"
    /\ wQueue' = Tail(wQueue)
    /\ wNow' = Head(wQueue).of
    /\ FinishAll("nextDictation")
    /\ wStep' = "resolve"
    /\ UNCHANGED <<wAnswer, wTarget, winBoardVars, wPasted, winUserVars, wFaults>>

PollInterval ==
    /\ wStep = "recv" /\ observed # NothingObserved
    /\ wStep' = "poll"
    /\ UNCHANGED <<wQueue, wAnswer, wNow, wTarget, winBoardVars, wPasted, winUserVars,
                   observed, heard, wFaults>>

\* What observation_update makes of the control: an unreadable text and a
\* composition under way are deferred; an emptied control resets.
Updates ==
    IF composing THEN {"deferred"}
    ELSE {"deferred", IF version[observed.of] < 0 THEN "reset" ELSE "snapshot"}

\* report_if_changed
Reported == IF version[observed.of] = observed.last THEN heard
            ELSE Tell(observed.of, <<"snapshot", version[observed.of]>>)

\* ActiveCorrectionObservation::poll.  The focus is read first and looked at last.
Poll ==
    /\ wStep = "poll" /\ wStep' = "recv"
    /\ \/ /\ observed = NothingObserved
          /\ UNCHANGED <<observed, heard>>
       \/ /\ observed # NothingObserved
          /\ \E update \in Updates :
             \/ /\ update = "reset"
                /\ FinishAll("controlReset")
             \/ /\ update # "reset"
                /\ LET told == IF update = "snapshot" THEN Reported ELSE heard IN
                   IF focus # observed.control
                   THEN /\ observed' = NothingObserved
                        /\ heard' = [told EXCEPT ![observed.of] = Append(@, Ended("focusLost"))]
                   ELSE \/ /\ observed' = NothingObserved
                           /\ heard' = [told EXCEPT ![observed.of] = Append(@, Ended("timedOut"))]
                        \/ /\ observed' = [observed EXCEPT !.last =
                                  IF update = "snapshot" THEN version[observed.of] ELSE @]
                           /\ heard' = told
    /\ UNCHANGED <<wQueue, wAnswer, wNow, wTarget, winBoardVars, wPasted, winUserVars, wFaults>>

-----------------------------------------------------------------------------
(* deliver_once.  Every way out answers the caller and goes on to the poll. *)

AnswerNow(answer) ==
    /\ wAnswer' = [wAnswer EXCEPT ![wNow] = answer]
    /\ wNow' = NoDelivery /\ wTarget' = NoTarget /\ wPasted' = "no"
    /\ wStep' = "poll"

\* NativeDelivery::focused_target: no control, a call that fails before the
\* control is known to be secret, or a disabled or read-only control.
ResolveFails ==
    /\ wStep = "resolve"
    /\ \/ focus = NoDelivery /\ AnswerNow("noControl") /\ UNCHANGED wFaults
       \/ AnswerNow("system") /\ Breaks
       \/ focus # NoDelivery /\ AnswerNow(Protected(focus)) /\ Breaks
       \/ focus # NoDelivery /\ AnswerNow("unsupported") /\ UNCHANGED wFaults
    /\ UNCHANGED <<wQueue, winBoardVars, winUserVars, observed, heard>>

Resolve ==
    /\ wStep = "resolve" /\ focus # NoDelivery
    /\ \E readable \in BOOLEAN :
          /\ readable => focus \notin PasswordControls
          /\ wTarget' = [control |-> focus, readable |-> readable]
    /\ wStep' = "snapshot"
    /\ UNCHANGED <<wQueue, wAnswer, wNow, winBoardVars, wPasted, winUserVars, observed,
                   heard, wFaults>>

Snapshot ==
    /\ wStep = "snapshot"
    /\ \/ /\ wSaved' = wBoard /\ wStep' = "replace"
          /\ UNCHANGED <<wAnswer, wNow, wTarget, wPasted, wFaults>>
       \/ /\ AnswerNow(Protected(wTarget.control)) /\ Breaks
          /\ UNCHANGED wSaved
    /\ UNCHANGED <<wQueue, wBoard, wSequence, wWanted, wSpoiled, winUserVars, observed, heard>>

\* replace_with_text, with the clipboard open.  It may fail before it changed
\* anything; after it emptied the clipboard; or with the text set, when the
\* clipboard does not close or has no sequence number.
ReplaceText ==
    /\ wStep = "replace"
    /\ \/ /\ wBoard' = wNow /\ wSequence' = "ours" /\ wStep' = "check"
          /\ UNCHANGED <<wAnswer, wNow, wTarget, wPasted, wFaults>>
       \/ /\ AnswerNow(Protected(wTarget.control)) /\ Breaks
          /\ UNCHANGED <<wBoard, wSequence>>
       \/ /\ wBoard' \in {"nothing", wNow}
          /\ wSequence' \in {"ours", "unknown"} /\ wPasted' = "failed"
          /\ wStep' = "restore" /\ Breaks
          /\ UNCHANGED <<wAnswer, wNow, wTarget>>
    /\ UNCHANGED <<wQueue, wSaved, wWanted, wSpoiled, winUserVars, observed, heard>>

\* focus_matches before the paste.
CheckFocus ==
    /\ wStep = "check"
    /\ \/ /\ focus = wTarget.control /\ wStep' = "paste" /\ UNCHANGED <<wPasted, wFaults>>
       \/ /\ focus # wTarget.control /\ wStep' = "restore" /\ wPasted' = "failed"
          /\ UNCHANGED wFaults
       \/ /\ wStep' = "restore" /\ wPasted' = "failed" /\ Breaks
    /\ UNCHANGED <<wQueue, wAnswer, wNow, wTarget, winBoardVars, winUserVars, observed, heard>>

\* send_paste: a message to the window itself, carried out before it returns,
\* or key strokes for whoever has the focus now.
SendPaste ==
    /\ wStep = "paste"
    /\ \/ /\ wTarget.control \in NativeEdits
          /\ wPasted' = "sent" /\ wStep' = "restore" /\ UNCHANGED wFaults
       \/ /\ wTarget.control \notin NativeEdits
          /\ \/ wPasted' = "sent" /\ wStep' = "recheck" /\ UNCHANGED wFaults
             \/ wPasted' = "failed" /\ wStep' = "restore" /\ Breaks
    /\ UNCHANGED <<wQueue, wAnswer, wNow, wTarget, winBoardVars, winUserVars, observed, heard>>

\* focus_matches after the wait.
RecheckFocus ==
    /\ wStep = "recheck" /\ wStep' = "restore"
    /\ \/ focus = wTarget.control /\ UNCHANGED <<wPasted, wFaults>>
       \/ focus # wTarget.control /\ wPasted' = "failed" /\ UNCHANGED wFaults
       \/ wPasted' = "failed" /\ Breaks
    /\ UNCHANGED <<wQueue, wAnswer, wNow, wTarget, winBoardVars, winUserVars, observed, heard>>

\* Mutant of RestoreUnlessCopied: the sequence number is not looked at.
RestoreUnlessCopied_Always ==
    /\ wStep = "restore" /\ wStep' = "write"
    /\ UNCHANGED <<wQueue, wAnswer, wNow, wTarget, winBoardVars, wPasted, winUserVars,
                   observed, heard, wFaults>>

\* restore_if_unchanged, the look at the sequence number: a copy made since is
\* kept.  A number that is not available restores whatever is there.
RestoreUnlessCopied ==
    /\ wStep = "restore"
    /\ \/ /\ wStep' = IF wSequence = "theirs" THEN "answer" ELSE "write"
          /\ UNCHANGED <<wSpoiled, wFaults>>
       \/ /\ wSequence = "theirs" /\ wStep' = "write" /\ wSpoiled' = TRUE /\ Breaks
    /\ UNCHANGED <<wQueue, wAnswer, wNow, wTarget, wSaved, wBoard, wSequence, wWanted,
                   wPasted, winUserVars, observed, heard>>

\* OleSetClipboard: done, tried again after a new look, or given up after ten.
RestoreWrites ==
    /\ wStep = "write"
    /\ \/ /\ wBoard' = wSaved
          /\ wStep' = "answer"
          /\ UNCHANGED <<wAnswer, wNow, wTarget, wPasted, wSpoiled, wFaults>>
       \/ /\ wStep' = "restore" /\ Breaks
          /\ UNCHANGED <<wAnswer, wNow, wTarget, wPasted, wBoard, wSpoiled>>
       \/ /\ AnswerNow(Protected(wTarget.control)) /\ Breaks
          /\ wSpoiled' = TRUE /\ UNCHANGED wBoard
    /\ UNCHANGED <<wQueue, wSaved, wSequence, wWanted, winUserVars, observed, heard>>

\* CorrectionObservationTarget::capture: only of a control whose text was read
\* before, and only if the text that was added since is the dictation's.
Capture ==
    IF wTarget.readable
    THEN {NothingObserved, [of |-> wNow, control |-> wTarget.control, last |-> 0]}
    ELSE {NothingObserved}

Answer ==
    /\ wStep = "answer"
    /\ \/ wPasted = "failed" /\ AnswerNow(Protected(wTarget.control)) /\ UNCHANGED observed
       \/ /\ wPasted = "sent" /\ AnswerNow(Attempted(wTarget.control))
          /\ observed' \in Capture
    /\ UNCHANGED <<wQueue, winBoardVars, winUserVars, heard, wFaults>>

-----------------------------------------------------------------------------
(* The user.                                                                *)

UserCopiesText ==
    /\ \E c \in WinCopies :
          /\ c # wWanted /\ wBoard' = c /\ wWanted' = c
    /\ wSpoiled' = (wNow # NoDelivery /\
                     (wStep \in {"replace", "write"} \/ wSequence = "unknown"))
    /\ wMoves < MaxMoves /\ wMoves' = wMoves + 1
    /\ wSequence' = IF wSequence = "unknown" THEN "unknown" ELSE "theirs"
    /\ UNCHANGED <<wQueue, wAnswer, wStep, wNow, wTarget, wSaved, wPasted, focus, version,
                   composing, observed, heard, wFaults>>

MovesFocus ==
    /\ wMoves < MaxMoves /\ wMoves' = wMoves + 1
    /\ focus' \in (Controls \cup {NoDelivery}) \ {focus}
    /\ composing' = FALSE
    /\ UNCHANGED <<wQueue, wAnswer, wStep, wNow, wTarget, winBoardVars, wPasted, version,
                   observed, heard, wFaults>>

\* Typing, with or without a composition, and emptying the control.  Only an
\* observed text is looked at.
Types ==
    /\ observed # NothingObserved /\ focus = observed.control
    /\ version[observed.of] \in 0..(MaxVersions - 1)
    /\ \E next \in {-1, version[observed.of] + 1} :
          version' = [version EXCEPT ![observed.of] = next]
    /\ composing' \in BOOLEAN
    /\ UNCHANGED <<wQueue, wAnswer, wStep, wNow, wTarget, winBoardVars, wPasted, focus,
                   observed, heard, wFaults, wMoves>>

EndsComposition ==
    /\ composing /\ composing' = FALSE
    /\ UNCHANGED <<wQueue, wAnswer, wStep, wNow, wTarget, winBoardVars, wPasted, focus,
                   version, observed, heard, wFaults, wMoves>>

WindowsNext ==
    \/ \E d \in WinDictations : RequestDelivery(d)
    \/ RequestFinish
    \/ ReceiveFinish \/ ReceiveDelivery \/ PollInterval \/ Poll
    \/ ResolveFails \/ Resolve \/ Snapshot \/ ReplaceText \/ CheckFocus \/ SendPaste
    \/ RecheckFocus \/ RestoreUnlessCopied \/ RestoreWrites \/ Answer
    \/ UserCopiesText \/ MovesFocus \/ Types \/ EndsComposition

WindowsSpec == WindowsInit /\ [][WindowsNext]_windowsVars

-----------------------------------------------------------------------------
WindowsTypeOK ==
    /\ wQueue \in Seq([kind : {"deliver", "finish"}, of : WinDictations \cup {NoDelivery}])
    /\ Len(wQueue) <= CommandCapacity
    /\ wAnswer \in [WinDictations -> WinAnswers]
    /\ wStep \in {"recv", "poll", "resolve", "snapshot", "replace", "check", "paste",
                  "recheck", "restore", "write", "answer"}
    /\ (wNow = NoDelivery) = (wStep \in {"recv", "poll"})
    /\ wBoard \in WinCopies \cup WinDictations \cup {"nothing"}
    /\ wPasted \in {"no", "sent", "failed"}

(* The clipboard is the user's own again when a delivery is over, however  *)
(* it ended: what was there before the paste, or what the user copied      *)
(* since.  Two copies are lost that the system gives no means to keep:     *)
(* one made between the snapshot and the write or between the look at the  *)
(* sequence number and the restore, and one restored over because the      *)
(* clipboard had no sequence number.  A restore that failed ten times      *)
(* leaves the transcript.  (crates/app/src/text_delivery.rs:40)            *)
WindowsClipboardReturned ==
    wNow = NoDelivery => wBoard = wWanted \/ wSpoiled

(* An observer hears snapshots, each different from the one before, and    *)
(* then one end; a second delivery, or the next recording, ends the first  *)
(* observation before anything else, so that no text typed for one         *)
(* dictation is told as a correction of another.                           *)
(* (crates/app/src/text_delivery.rs:61-66)                                 *)
ObserverHearsOneEnd ==
    \A d \in WinDictations :
        /\ \A i \in DOMAIN heard[d] : heard[d][i] \notin Snapshots => i = Len(heard[d])
        /\ \A i \in 1..(Len(heard[d]) - 1) : heard[d][i] # heard[d][i + 1]
        /\ observed.of = d =>
              /\ wNow = NoDelivery
              /\ heard[d] = <<>> \/ Last(heard[d]) \in Snapshots
=============================================================================
