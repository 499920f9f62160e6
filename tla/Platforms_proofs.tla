--------------------------- MODULE Platforms_proofs --------------------------
(***************************************************************************)
(* Proofs about the adapters of the platforms: TextDelivery (macOS) for    *)
(* any set of dictations and any number of polls and of copies,            *)
(* WindowsDelivery for any dictations, controls and contents of the        *)
(* clipboard, WindowsShortcuts for any shortcuts, MacShortcuts for its     *)
(* keys, each for any number of faults, edits, presses and captures; and   *)
(* about the system MCPlatforms puts together of them, for every value of  *)
(* its constants.                                                          *)
(***************************************************************************)
EXTENDS MCPlatforms, FiniteSetTheorems, TLAPS

(***************************************************************************)
(* The delivery of macOS.                                                  *)
(***************************************************************************)
-----------------------------------------------------------------------------
(* The inductive invariant.                                                *)

Live(d) == step[d] \notin {"none", "queued", "over"}

(* Steps before the direct write, and before the paste.                    *)
DirectAhead == {"none", "queued", "resolve", "focused"}
PasteAhead  == DirectAhead \cup {"verifyDirect", "beginPaste", "borrow", "post"}

Flying(d, way) == <<d, way>> \in inflight

(* One session at a time is in the event loop, and callbacks are its.      *)
SessionInv ==
    /\ \A d, e \in Dictation : Live(d) /\ Live(e) => d = e
    /\ \A d \in Dictation : busy = d => Live(d)

(* A write is asked for once, and carried out once or not at all.          *)
WriteInv(d) ==
    /\ step[d] \in DirectAhead => inserted[d] = 0 /\ ~Flying(d, "direct")
    /\ step[d] \in PasteAhead => inserted[d] <= 1 /\ ~Flying(d, "paste")
    /\ step[d] \in PasteAhead /\ Flying(d, "direct") => inserted[d] = 0
    /\ Flying(d, "direct") \/ Flying(d, "paste") => inserted[d] <= 1
    /\ Flying(d, "direct") /\ Flying(d, "paste") => inserted[d] = 0

(* Nobody pastes what could be seen.                                       *)
SeenInv(d) ==
    d \notin unseen =>
        /\ inserted[d] <= 1
        /\ Flying(d, "paste") \/ step[d] \in {"beginPaste", "borrow", "post"}
              => inserted[d] = 0

(* A session that still owns the clipboard has saved what belongs there.   *)
BoardInv ==
    /\ \A d \in Dictation : wanted # Transcript(d)
    /\ ~spoiled =>
        /\ (\A d \in Dictation : step[d] \notin Borrowing) => board = wanted
        /\ \A d \in Dictation :
            /\ board = Transcript(d) => step[d] \in Borrowing /\ owner = d
            /\ step[d] = "borrow" => snapshot[d] = wanted
            /\ step[d] \in {"post", "restore"} => owner = d
            /\ step[d] \in Borrowing =>
                  IF owner = d THEN snapshot[d] = wanted ELSE board = wanted

(* An answer is good from the check to the worker.                         *)
VerifiedInv(d) ==
    result[d] = "verified" \/ outcome[d] = "verified"
        => inserted[d] > 0 \/ d \in trusted

(* After an overdue write the session only gives the clipboard back.       *)
OverdueInv(d) ==
    \A way \in Way : <<d, way>> \in overdue =>
        /\ expired[d]
        /\ busy = d => step[d] \in {"release", "restore", "complete"}
        /\ step[d] \notin DirectAhead

(* A session begins once, and is dropped when it answers; what was answered *)
(* after the time-out goes nowhere.                                        *)
AnswerInv(d) ==
    /\ worker[d] = "idle" => step[d] = "none"
    /\ sent[d] => step[d] = "over"
    /\ result[d] = "dropped" => expired[d] /\ ~sent[d]

EachInv == \A d \in Dictation :
               /\ WriteInv(d) /\ SeenInv(d) /\ AnswerInv(d)
               /\ VerifiedInv(d) /\ OverdueInv(d)

IInv == TypeOK /\ SessionInv /\ BoardInv /\ OneOverdueWrite /\ EachInv

-----------------------------------------------------------------------------
(* Lemmas: types.                                                          *)

LEMMA ContentTypes ==
    /\ Empty \in Content /\ <<"user", 0>> \in Content
    /\ \A d \in Dictation : Transcript(d) \in Content /\ Copied(d) \in Content
    /\ \A n \in 1 .. Copies : <<"user", n>> \in Content
PROOF
<1>1. 0 \in 0 .. Copies /\ 1 .. Copies \subseteq 0 .. Copies
  BY BoundsAreNat
<1> QED
  BY <1>1 DEF Transcript, Copied, Empty, Content

LEMMA InitTypeOK == Init => TypeOK
PROOF
<1> HAVE Init
<1>1. 0 \in 0 .. Polls /\ 0 \in 0 .. 2
  BY BoundsAreNat
<1>2. /\ worker \in [Dictation -> WorkerPC]
      /\ outcome \in [Dictation -> Outcome] /\ result \in [Dictation -> Result]
      /\ step \in [Dictation -> Step]
  BY DEF Init, WorkerPC, Outcome, Step, Result
<1>3. board \in Content /\ wanted \in Content /\ snapshot \in [Dictation -> Content]
  BY ContentTypes DEF Init
<1> QED
  BY <1>1, <1>2, <1>3 DEF Init, TypeOK

LEMMA DropsTypes ==
    ASSUME TypeOK, NEW d \in Dictation, Drops(d)
    PROVE  /\ busy' \in Dictation \cup {None} /\ step' \in [Dictation -> Step]
           /\ kind' \in [Dictation -> {"observable", "unobservable", "secure"}]
           /\ remaining' \in [Dictation -> 0 .. Polls]
           /\ moved' \in [Dictation -> BOOLEAN]
           /\ snapshot' \in [Dictation -> Content]
PROOF
<1>1. 0 \in 0 .. Polls
  BY BoundsAreNat
<1> QED
  BY <1>1, ContentTypes DEF Drops, TypeOK, Step

LEMMA WorkerTypes ==
    ASSUME TypeOK, EachInv, NEW d \in Dictation, WorkerStep(d) \/ Dispatches(d)
    PROVE  TypeOK'
PROOF
<1> USE DEF WorkerGoes, WorkerPC, sessionVars, boardVars, targetVars
<1>1. CASE Dispatches(d)
  BY <1>1 DEF TypeOK, Dispatches, Step
<1>2. CASE Receives(d)
  <2>1. result[d] \in Outcome /\ "failed" \in Result
    BY <1>2 DEF Receives, EachInv, AnswerInv, Result, Outcome, TypeOK
  <2> QED
    BY <1>2, <2>1 DEF TypeOK, Receives
<1>3. CASE TimesOut(d)
  BY <1>3 DEF TypeOK, TimesOut, Outcome
<1>4. CASE CopiesText(d)
  BY <1>4, ContentTypes DEF TypeOK, CopiesText, Puts, Outcome
<1> QED
  BY <1>1, <1>2, <1>3, <1>4 DEF WorkerStep

LEMMA Answered ==
    ASSUME TypeOK, NEW d \in Dictation, NEW r \in Result, Answers(d, r)
    PROVE  result' \in [Dictation -> Result]
BY DEF Answers, TypeOK

LEMMA Results ==
    /\ Outcome \subseteq Result /\ "dropped" \in Result
    /\ {"verified", "attempted", "secureAttempted", "secureFailed", "failed"}
          \subseteq Result
    /\ \A d \in Dictation : Failure(d) \in Result
BY DEF Outcome, Result, Failure

LEMMA MainTypes ==
    ASSUME TypeOK, NEW d \in Dictation, MainStep(d)
    PROVE  TypeOK'
PROOF
<1> USE DEF SessionGoes, Waits, workerVars, boardVars, targetVars
<1>1. CASE TakeDelivery(d)
  <2>1. CASE Drops(d)
    BY <1>1, <2>1, DropsTypes DEF TypeOK, TakeDelivery
  <2>2. CASE ~Drops(d)
    BY <1>1, <2>2 DEF TypeOK, TakeDelivery, Step
  <2> QED
    BY <2>1, <2>2
<1>2. CASE TimerFires(d)
  <2>1. CASE Drops(d) /\ UNCHANGED result
    BY <1>2, <2>1, DropsTypes DEF TypeOK, TimerFires
  <2>2. CASE busy' = d /\ UNCHANGED <<kind, remaining, moved, snapshot>>
    <3>1. result' \in [Dictation -> Result]
      BY <1>2, <2>2, Results, Answered DEF TimerFires, TypeOK, Drops
    <3> QED
      BY <1>2, <2>2, <3>1 DEF TypeOK, TimerFires, Step, Drops
  <2> QED
    BY <1>2, <2>1, <2>2 DEF TimerFires
<1>3. CASE ResolveTarget(d)
  <2>1. result' \in [Dictation -> Result]
    BY <1>3, Results, Answered DEF ResolveTarget, TypeOK
  <2> QED
    BY <1>3, <2>1 DEF TypeOK, ResolveTarget, Step
<1>4. CASE DeliverToFocused(d)
  BY <1>4, BoundsAreNat DEF TypeOK, DeliverToFocused, Writes, Way, Step
<1>5. CASE VerifyDirect(d)
  <2>1. remaining' \in [Dictation -> 0 .. Polls]
    BY <1>5, BoundsAreNat DEF TypeOK, VerifyDirect
  <2>2. unseen' \subseteq Dictation /\ trusted' \subseteq Dictation
    BY <1>5 DEF TypeOK, VerifyDirect, PollsAgain, Verified, Unverified
  <2>3. result' \in [Dictation -> Result]
    BY <1>5, Results, Answered DEF TypeOK, VerifyDirect, Verified, Unverified
  <2> QED
    BY <1>5, <2>1, <2>2, <2>3 DEF TypeOK, VerifyDirect, PollsAgain, Step
<1>6. CASE BeginPaste(d)
  <2>1. result' \in [Dictation -> Result]
    BY <1>6, Results, Answered DEF TypeOK, BeginPaste
  <2> QED
    BY <1>6, <2>1 DEF TypeOK, BeginPaste, Step
<1>7. CASE BorrowClipboard(d)
  <2>1. result' \in [Dictation -> Result]
    BY <1>7, Results, Answered DEF TypeOK, BorrowClipboard
  <2> QED
    BY <1>7, <2>1, ContentTypes DEF TypeOK, BorrowClipboard, Step
<1>8. CASE PostPaste(d)
  <2>1. result' \in [Dictation -> Result]
    BY <1>8, Results, Answered DEF TypeOK, PostPaste
  <2> QED
    BY <1>8, <2>1, BoundsAreNat DEF TypeOK, PostPaste, Writes, Way, Step
<1>9. CASE VerifyPaste(d)
  <2>1. remaining' \in [Dictation -> 0 .. Polls]
    BY <1>9, BoundsAreNat DEF TypeOK, VerifyPaste
  <2>2. result' \in [Dictation -> Result]
    BY <1>9, Results, Answered DEF TypeOK, VerifyPaste, Verified, Unverified
  <2> QED
    BY <1>9, <2>1, <2>2 DEF TypeOK, VerifyPaste, Verified, Unverified, Step
<1>10. CASE AwaitPaste(d)
  <2>1. result' \in [Dictation -> Result]
    BY <1>10, Results, Answered DEF TypeOK, AwaitPaste
  <2> QED
    BY <1>10, <2>1 DEF TypeOK, AwaitPaste, Step
<1>11. CASE ReleaseClipboard(d)
  BY <1>11 DEF TypeOK, ReleaseClipboard, Step
<1>12. CASE RestoreClipboard(d)
  <2>1. result' \in [Dictation -> Result]
    BY <1>12, Results, Answered DEF TypeOK, RestoreClipboard
  <2>2. board' \in Content
    BY <1>12, ContentTypes DEF TypeOK, RestoreClipboard
  <2> QED
    BY <1>12, <2>1, <2>2 DEF TypeOK, RestoreClipboard, Step
<1>13. CASE CompleteDelivery(d)
  <2>1. result' \in [Dictation -> Result]
    BY <1>13, Results, Answered DEF TypeOK, CompleteDelivery
  <2> QED
    BY <1>13, <2>1, DropsTypes DEF TypeOK, CompleteDelivery
<1> QED
  BY <1>1, <1>2, <1>3, <1>4, <1>5, <1>6, <1>7, <1>8, <1>9, <1>10, <1>11, <1>12,
     <1>13 DEF MainStep

LEMMA TargetTypes ==
    ASSUME TypeOK, EachInv, NEW d \in Dictation, NEW way \in Way,
           Lands(d, way) \/ Ignored(d, way)
    PROVE  TypeOK'
PROOF
<1>1. inserted' \in [Dictation -> 0 .. 2]
  <2>1. Flying(d, way) => inserted[d] <= 1
    BY DEF EachInv, WriteInv, Way
  <2>2. inserted[d] \in 0 .. 2
    BY DEF TypeOK
  <2>3. inserted[d] <= 1 => inserted[d] + 1 \in 0 .. 2
    BY <2>2
  <2> QED
    BY <2>1, <2>3 DEF Lands, Ignored, TypeOK, Flying
<1> QED
  BY <1>1 DEF Lands, Ignored, TypeOK, workerVars, sessionVars, boardVars

LEMMA UserTypes ==
    ASSUME TypeOK, UserCopies
    PROVE  TypeOK'
BY ContentTypes DEF UserCopies, TypeOK, Puts, workerVars, sessionVars, targetVars

-----------------------------------------------------------------------------
(* Lemmas: what a step of one dictation leaves of the others.              *)

(* A step of the main thread is the one live session's.                    *)
LEMMA MainIsLive ==
    ASSUME TypeOK, SessionInv, NEW d \in Dictation, MainStep(d)
    PROVE  /\ \A e \in Dictation \ {d} : ~Live(e)
           /\ Live(d) \/ TakeDelivery(d)
           /\ ~TakeDelivery(d) /\ ~TimerFires(d) => busy = d
PROOF
<1>1. CASE TakeDelivery(d)
  BY <1>1 DEF TakeDelivery, Live
<1>2. CASE TimerFires(d)
  BY <1>2 DEF TimerFires, Live, Timed, SessionInv
<1>3. CASE ~TakeDelivery(d) /\ ~TimerFires(d)
  <2>1. busy = d
    BY <1>3 DEF MainStep, ResolveTarget, DeliverToFocused, VerifyDirect, BeginPaste,
       BorrowClipboard, PostPaste, VerifyPaste, AwaitPaste, ReleaseClipboard,
       RestoreClipboard, CompleteDelivery
  <2> QED
    BY <1>3, <2>1 DEF SessionInv
<1> QED
  BY <1>1, <1>2, <1>3

LEMMA MainFrame ==
    ASSUME TypeOK, NEW d \in Dictation, MainStep(d)
    PROVE  /\ UNCHANGED <<worker, outcome, expired, wanted, inserted>>
           /\ busy' \in {busy, d, None}
           /\ \A e \in Dictation \ {d} :
                 /\ step'[e] = step[e] /\ result'[e] = result[e]
                 /\ sent'[e] = sent[e] /\ snapshot'[e] = snapshot[e]
                 /\ e \in unseen' <=> e \in unseen
                 /\ e \in trusted' <=> e \in trusted
                 /\ \A way \in Way : /\ <<e, way>> \in inflight' <=> <<e, way>> \in inflight
                                     /\ <<e, way>> \in overdue' <=> <<e, way>> \in overdue
PROOF
<1> USE DEF TypeOK, SessionGoes, Waits, Answers, Drops, workerVars, boardVars, targetVars
<1>1. CASE TakeDelivery(d)
  BY <1>1 DEF TakeDelivery
<1>2. CASE TimerFires(d)
  BY <1>2 DEF TimerFires
<1>3. CASE ResolveTarget(d)
  BY <1>3 DEF ResolveTarget
<1>4. CASE DeliverToFocused(d)
  BY <1>4 DEF DeliverToFocused, Writes
<1>5. CASE VerifyDirect(d)
  BY <1>5 DEF VerifyDirect, PollsAgain, Verified, Unverified
<1>6. CASE BeginPaste(d)
  BY <1>6 DEF BeginPaste
<1>7. CASE BorrowClipboard(d)
  BY <1>7 DEF BorrowClipboard
<1>8. CASE PostPaste(d)
  BY <1>8 DEF PostPaste, Writes
<1>9. CASE VerifyPaste(d)
  BY <1>9 DEF VerifyPaste, Verified, Unverified
<1>10. CASE AwaitPaste(d)
  BY <1>10 DEF AwaitPaste
<1>11. CASE ReleaseClipboard(d)
  BY <1>11 DEF ReleaseClipboard
<1>12. CASE RestoreClipboard(d)
  BY <1>12 DEF RestoreClipboard
<1>13. CASE CompleteDelivery(d)
  BY <1>13 DEF CompleteDelivery
<1> QED
  BY <1>1, <1>2, <1>3, <1>4, <1>5, <1>6, <1>7, <1>8, <1>9, <1>10, <1>11, <1>12,
     <1>13 DEF MainStep

(* Where a session is when its callback is not over.                       *)
LEMMA MainBusy ==
    ASSUME TypeOK, SessionInv, NEW d \in Dictation, MainStep(d), busy' = d
    PROVE  Live(d)'
PROOF
<1> USE DEF TypeOK, SessionGoes, Waits, Live
<1>0. d # None
  BY NoneIsNoDictation
<1>1. CASE TakeDelivery(d)
  BY <1>0, <1>1 DEF TakeDelivery, Drops
<1>2. CASE TimerFires(d)
  BY <1>0, <1>2 DEF TimerFires, Drops, Timed
<1>3. CASE ResolveTarget(d)
  BY <1>0, <1>3 DEF ResolveTarget
<1>4. CASE DeliverToFocused(d)
  BY <1>0, <1>4 DEF DeliverToFocused
<1>5. CASE VerifyDirect(d)
  BY <1>0, <1>5 DEF VerifyDirect
<1>6. CASE BeginPaste(d) \/ BorrowClipboard(d) \/ AwaitPaste(d)
  BY <1>6 DEF BeginPaste, BorrowClipboard, AwaitPaste
<1>7. CASE PostPaste(d) \/ VerifyPaste(d)
  BY <1>0, <1>7 DEF PostPaste, VerifyPaste
<1>8. CASE ReleaseClipboard(d) \/ RestoreClipboard(d)
  BY <1>8 DEF ReleaseClipboard, RestoreClipboard
<1>9. CASE CompleteDelivery(d)
  BY <1>0, <1>9 DEF CompleteDelivery, Drops
<1> QED
  BY <1>1, <1>2, <1>3, <1>4, <1>5, <1>6, <1>7, <1>8, <1>9 DEF MainStep

LEMMA MainSession ==
    ASSUME TypeOK, SessionInv, NEW d \in Dictation, MainStep(d)
    PROVE  SessionInv'
PROOF
<1>1. \A e \in Dictation \ {d} : ~Live(e)'
  BY MainIsLive, MainFrame DEF Live
<1>2. \A e \in Dictation : busy' = e => Live(e)'
  <2> SUFFICES ASSUME NEW e \in Dictation, busy' = e PROVE Live(e)'
    OBVIOUS
  <2>1. CASE e = d
    BY <2>1, MainBusy
  <2>2. CASE e # d
    BY <2>2, MainFrame, MainIsLive, NoneIsNoDictation DEF SessionInv
  <2> QED
    BY <2>1, <2>2
<1> QED
  BY <1>1, <1>2 DEF SessionInv

LEMMA MainOthers ==
    ASSUME TypeOK, SessionInv, EachInv, NEW d \in Dictation, MainStep(d),
           NEW e \in Dictation \ {d}
    PROVE  /\ WriteInv(e)' /\ SeenInv(e)' /\ AnswerInv(e)'
           /\ VerifiedInv(e)' /\ OverdueInv(e)'
PROOF
<1>1. \A way \in Way : Flying(e, way)' <=> Flying(e, way)
  BY MainFrame DEF Flying
<1>2. Flying(e, "direct")' <=> Flying(e, "direct")
  BY <1>1 DEF Way
<1>3. Flying(e, "paste")' <=> Flying(e, "paste")
  BY <1>1 DEF Way
<1>4. WriteInv(e)'
  BY <1>2, <1>3, MainFrame DEF EachInv, WriteInv
<1>5. SeenInv(e)'
  BY <1>3, MainFrame DEF EachInv, SeenInv
<1>6. AnswerInv(e)' /\ VerifiedInv(e)'
  BY MainFrame DEF EachInv, AnswerInv, VerifiedInv
<1>7. OverdueInv(e)'
  BY MainFrame, NoneIsNoDictation DEF EachInv, OverdueInv
<1> QED
  BY <1>4, <1>5, <1>6, <1>7

-----------------------------------------------------------------------------
(* Lemmas: the clipboard.                                                  *)

LEMMA Contents ==
    \A d, e \in Dictation :
        /\ Transcript(d) # Copied(e) /\ Transcript(d) # Empty
        /\ \A n \in 0 .. Copies : Transcript(d) # <<"user", n>>
        /\ Transcript(d) = Transcript(e) => d = e
BY DEF Transcript, Copied, Empty

LEMMA PutsBoard ==
    ASSUME TypeOK, BoardInv, NEW c, Puts(c), UNCHANGED step,
           \A d \in Dictation : c # Transcript(d)
    PROVE  BoardInv'
PROOF
<1>1. board' = c /\ wanted' = c /\ owner' = None
  BY DEF Puts
<1>2. ~spoiled' => \A d \in Dictation : step[d] \notin Unguarded
  BY DEF Puts
<1> QED
  BY <1>1, <1>2, NoneIsNoDictation DEF BoardInv, Unguarded, Borrowing

(* What the steps that leave the clipboard alone may do.                   *)
LEMMA QuietBoard ==
    ASSUME TypeOK, BoardInv, NEW d \in Dictation,
           UNCHANGED <<board, owner, wanted, spoiled>>,
           \A e \in Dictation \ {d} : step'[e] = step[e] /\ snapshot'[e] = snapshot[e],
           step'[d] \notin {"borrow", "post", "restore"},
           step[d] \in Borrowing <=> step'[d] \in Borrowing,
           step[d] \in Borrowing => snapshot'[d] = snapshot[d]
    PROVE  BoardInv'
PROOF
<1>1. \A e \in Dictation : step'[e] \in Borrowing <=> step[e] \in Borrowing
  OBVIOUS
<1>2. \A e \in Dictation : step'[e] \in Borrowing => snapshot'[e] = snapshot[e]
  OBVIOUS
<1>3. \A e \in Dictation : step'[e] \in {"borrow", "post", "restore"} =>
          step'[e] = step[e] /\ snapshot'[e] = snapshot[e]
  OBVIOUS
<1> QED
  BY <1>1, <1>2, <1>3 DEF BoardInv

LEMMA MainBoard ==
    ASSUME TypeOK, SessionInv, BoardInv, NEW d \in Dictation, MainStep(d)
    PROVE  BoardInv'
PROOF
<1>0. \A e \in Dictation \ {d} :
          /\ step'[e] = step[e] /\ snapshot'[e] = snapshot[e]
          /\ step[e] \notin Borrowing \cup {"borrow"}
  BY MainFrame, MainIsLive DEF Live, Borrowing
<1> USE DEF SessionGoes, Waits, Borrowing
<1>1. CASE TakeDelivery(d)
  BY <1>0, <1>1, QuietBoard DEF TakeDelivery, Drops, TypeOK
<1>2. CASE TimerFires(d)
  BY <1>0, <1>2, QuietBoard DEF TimerFires, Drops, TypeOK, Timed
<1>3. CASE ResolveTarget(d)
  BY <1>0, <1>3, QuietBoard DEF ResolveTarget, TypeOK, boardVars
<1>4. CASE DeliverToFocused(d)
  BY <1>0, <1>4, QuietBoard DEF DeliverToFocused, TypeOK, boardVars
<1>5. CASE VerifyDirect(d)
  BY <1>0, <1>5, QuietBoard DEF VerifyDirect, TypeOK, boardVars
<1>6. CASE VerifyPaste(d) \/ AwaitPaste(d)
  BY <1>0, <1>6, QuietBoard DEF VerifyPaste, AwaitPaste, TypeOK, boardVars
<1>7. CASE CompleteDelivery(d)
  BY <1>0, <1>7, QuietBoard DEF CompleteDelivery, Drops, TypeOK
<1>8. CASE BeginPaste(d)
  BY <1>0, <1>8 DEF BeginPaste, BoardInv, TypeOK
<1>9. CASE BorrowClipboard(d)
  BY <1>0, <1>9, Contents DEF BorrowClipboard, BoardInv, TypeOK
<1>10. CASE PostPaste(d)
  BY <1>0, <1>10 DEF PostPaste, BoardInv, TypeOK
<1>11. CASE ReleaseClipboard(d)
  BY <1>0, <1>11 DEF ReleaseClipboard, BoardInv, TypeOK, boardVars
<1>12. CASE RestoreClipboard(d)
  BY <1>0, <1>12 DEF RestoreClipboard, BoardInv, TypeOK
<1> QED
  BY <1>1, <1>2, <1>3, <1>4, <1>5, <1>6, <1>7, <1>8, <1>9, <1>10, <1>11, <1>12
     DEF MainStep

LEMMA OthersBoard ==
    ASSUME TypeOK, EachInv, BoardInv, NEW d \in Dictation, NEW way \in Way,
           \/ WorkerStep(d) \/ Dispatches(d) \/ UserCopies
           \/ Lands(d, way) \/ Ignored(d, way)
    PROVE  BoardInv'
PROOF
<1>1. CASE Dispatches(d)
  BY <1>1, QuietBoard DEF Dispatches, boardVars, TypeOK, Borrowing, EachInv,
     AnswerInv, WorkerGoes
<1>2. CASE UNCHANGED <<step, boardVars>>
  BY <1>2 DEF BoardInv, boardVars
<1>3. CASE CopiesText(d)
  BY <1>2, <1>3, Contents, PutsBoard DEF CopiesText, sessionVars
<1>4. CASE UserCopies
  <2>1. \A n \in 1 .. Copies : n \in 0 .. Copies
    BY BoundsAreNat
  <2> QED
    BY <1>4, <2>1, Contents, PutsBoard DEF UserCopies, sessionVars
<1>5. CASE Receives(d) \/ TimesOut(d) \/ Lands(d, way) \/ Ignored(d, way)
  BY <1>2, <1>5 DEF Receives, TimesOut, Lands, Ignored, sessionVars
<1> QED
  BY <1>1, <1>3, <1>4, <1>5 DEF WorkerStep

-----------------------------------------------------------------------------
(* Lemmas: the session's own conjuncts of EachInv.                         *)

LEMMA MainWrites ==
    ASSUME TypeOK, SessionInv, EachInv, NEW d \in Dictation, MainStep(d)
    PROVE  WriteInv(d)'
PROOF
<1>0. WriteInv(d) /\ inserted' = inserted
  BY MainFrame DEF EachInv
<1>1. CASE UNCHANGED inflight /\ (step'[d] \in PasteAhead => step[d] \in PasteAhead)
                              /\ (step'[d] \in DirectAhead => step[d] \in DirectAhead)
  BY <1>0, <1>1 DEF WriteInv, Flying
<1> USE DEF SessionGoes, Waits, TypeOK, PasteAhead, DirectAhead
<1>2. CASE TakeDelivery(d) \/ TimerFires(d) \/ CompleteDelivery(d)
  BY <1>1, <1>2 DEF TakeDelivery, TimerFires, CompleteDelivery, Drops, targetVars,
     Borrowing
<1>3. CASE ResolveTarget(d) \/ BeginPaste(d) \/ BorrowClipboard(d) \/ AwaitPaste(d)
  BY <1>1, <1>3 DEF ResolveTarget, BeginPaste, BorrowClipboard, AwaitPaste, targetVars
<1>4. CASE VerifyDirect(d) \/ VerifyPaste(d)
  BY <1>1, <1>4 DEF VerifyDirect, VerifyPaste
<1>5. CASE ReleaseClipboard(d) \/ RestoreClipboard(d)
  BY <1>1, <1>5 DEF ReleaseClipboard, RestoreClipboard, targetVars
<1>6. CASE DeliverToFocused(d)
  <2>1. step[d] = "focused" /\ step'[d] \in {"verifyDirect", "beginPaste"}
    BY <1>6 DEF DeliverToFocused
  <2>2. inserted[d] = 0 /\ ~Flying(d, "paste")
    BY <1>0, <2>1 DEF WriteInv
  <2>3. ~Flying(d, "paste")'
    BY <1>6, <2>2 DEF DeliverToFocused, Writes, Flying
  <2> QED
    BY <1>0, <2>1, <2>2, <2>3 DEF WriteInv
<1>7. CASE PostPaste(d)
  <2>1. /\ step[d] = "post"
        /\ step'[d] \in {"verifyPaste", "awaitPaste", "release"}
    BY <1>7 DEF PostPaste
  <2>2. Flying(d, "direct")' <=> Flying(d, "direct")
    BY <1>7 DEF PostPaste, Writes, Flying
  <2> QED
    BY <1>0, <2>1, <2>2 DEF WriteInv
<1> QED
  BY <1>2, <1>3, <1>4, <1>5, <1>6, <1>7 DEF MainStep

LEMMA MainSeen ==
    ASSUME TypeOK, SessionInv, EachInv, NEW d \in Dictation, MainStep(d)
    PROVE  SeenInv(d)'
PROOF
<1>0. /\ WriteInv(d) /\ SeenInv(d) /\ inserted' = inserted
  BY MainFrame DEF EachInv
<1> DEFINE Pasting == {"beginPaste", "borrow", "post"}
<1>1. CASE UNCHANGED <<inflight, unseen>> /\ (step'[d] \in Pasting => step[d] \in Pasting)
  BY <1>0, <1>1 DEF SeenInv, Flying
<1> USE DEF SessionGoes, Waits, TypeOK
<1>2. CASE TakeDelivery(d) \/ TimerFires(d) \/ CompleteDelivery(d)
  BY <1>1, <1>2 DEF TakeDelivery, TimerFires, CompleteDelivery, Drops, targetVars
<1>3. CASE BeginPaste(d) \/ BorrowClipboard(d) \/ AwaitPaste(d)
  BY <1>1, <1>3 DEF BeginPaste, BorrowClipboard, AwaitPaste, targetVars
<1>4. CASE VerifyPaste(d) \/ ReleaseClipboard(d) \/ RestoreClipboard(d)
  BY <1>1, <1>4 DEF VerifyPaste, ReleaseClipboard, RestoreClipboard, targetVars
<1>5. CASE ResolveTarget(d) \/ DeliverToFocused(d)
  <2>1. step[d] \in DirectAhead
    BY <1>5 DEF ResolveTarget, DeliverToFocused, DirectAhead
  <2>2. inserted[d] = 0
    BY <1>0, <2>1 DEF WriteInv
  <2> QED
    BY <1>0, <2>2 DEF SeenInv
<1>6. CASE VerifyDirect(d)
  <2>1. d \notin unseen' => d \notin unseen
    BY <1>6 DEF VerifyDirect, PollsAgain
  <2>2. inflight' = inflight /\ step[d] = "verifyDirect"
    BY <1>6 DEF VerifyDirect
  <2>3. ~Flying(d, "paste")
    BY <1>0, <2>2 DEF WriteInv, PasteAhead, DirectAhead
  <2>4. d \notin unseen' /\ step'[d] \in Pasting => ~Shown(d)
    BY <1>6 DEF VerifyDirect, PollsAgain
  <2>5. ~Shown(d) => inserted[d] = 0
    BY DEF Shown
  <2> QED
    BY <1>0, <2>1, <2>2, <2>3, <2>4, <2>5 DEF SeenInv, Flying
<1>7. CASE PostPaste(d)
  BY <1>0, <1>7 DEF SeenInv, PostPaste, Flying
<1> QED
  BY <1>2, <1>3, <1>4, <1>5, <1>6, <1>7 DEF MainStep

LEMMA MainAnswers ==
    ASSUME TypeOK, SessionInv, EachInv, NEW d \in Dictation, MainStep(d)
    PROVE  AnswerInv(d)'
PROOF
<1>0. AnswerInv(d) /\ worker' = worker /\ expired' = expired
  BY MainFrame DEF EachInv
<1>1. step[d] # "none" /\ step[d] # "over"
  BY MainIsLive DEF Live, TakeDelivery
<1>2. worker[d] # "idle" /\ ~sent[d]
  BY <1>0, <1>1 DEF AnswerInv
<1>3. CASE CompleteDelivery(d)
  BY <1>0, <1>2, <1>3 DEF CompleteDelivery, Drops, AnswerInv, TypeOK, Answers
<1>4. CASE ~CompleteDelivery(d)
  <2>1. sent' = sent
    BY <1>4 DEF MainStep, TakeDelivery, TimerFires, ResolveTarget, DeliverToFocused,
       VerifyDirect, BeginPaste, BorrowClipboard, PostPaste, VerifyPaste, AwaitPaste,
       ReleaseClipboard, RestoreClipboard
  <2>2. result'[d] = "dropped" => result[d] = "dropped" \/ expired[d]
    BY <1>4 DEF MainStep, TakeDelivery, TimerFires, ResolveTarget, DeliverToFocused,
       VerifyDirect, BeginPaste, BorrowClipboard, PostPaste, VerifyPaste, AwaitPaste,
       ReleaseClipboard, RestoreClipboard, Answers, Failure, Verified, Unverified, TypeOK
  <2> QED
    BY <1>0, <1>2, <2>1, <2>2 DEF AnswerInv
<1> QED
  BY <1>3, <1>4

LEMMA MainVerifies ==
    ASSUME TypeOK, SessionInv, EachInv, NEW d \in Dictation, MainStep(d)
    PROVE  VerifiedInv(d)'
PROOF
<1>0. VerifiedInv(d) /\ inserted' = inserted /\ outcome' = outcome
  BY MainFrame DEF EachInv
<1> USE DEF TypeOK
<1>1. CASE VerifyDirect(d) \/ VerifyPaste(d)
  BY <1>0, <1>1 DEF VerifyDirect, VerifyPaste, Verified, Unverified, Answers, Shown,
     VerifiedInv
<1>2. CASE ~(VerifyDirect(d) \/ VerifyPaste(d))
  <2>1. trusted' = trusted
    BY <1>2 DEF MainStep, TakeDelivery, TimerFires, ResolveTarget, DeliverToFocused,
       BeginPaste, BorrowClipboard, PostPaste, AwaitPaste, ReleaseClipboard,
       RestoreClipboard, CompleteDelivery, targetVars
  <2>2. result'[d] = "verified" => result[d] = "verified"
    BY <1>2 DEF MainStep, TakeDelivery, TimerFires, ResolveTarget, DeliverToFocused,
       BeginPaste, BorrowClipboard, PostPaste, AwaitPaste, ReleaseClipboard,
       RestoreClipboard, CompleteDelivery, Answers, Failure
  <2> QED
    BY <1>0, <2>1, <2>2 DEF VerifiedInv
<1> QED
  BY <1>1, <1>2

LEMMA MainOverdue ==
    ASSUME TypeOK, SessionInv, EachInv, OneOverdueWrite, NEW d \in Dictation, MainStep(d)
    PROVE  OverdueInv(d)' /\ OneOverdueWrite'
PROOF
<1>0. OverdueInv(d) /\ expired' = expired
  BY MainFrame DEF EachInv
<1> USE DEF SessionGoes, Waits, TypeOK, DirectAhead
<1>1. CASE /\ overdue' = overdue
           /\ step'[d] \in DirectAhead => step[d] \in DirectAhead
           /\ \/ busy' # d \/ step'[d] \in {"release", "restore", "complete"}
              \/ busy = d /\ step[d] \notin {"release", "restore", "complete"}
  BY <1>0, <1>1 DEF OverdueInv, OneOverdueWrite
<1>2. d # None
  BY NoneIsNoDictation
<1>3. CASE TakeDelivery(d)
  BY <1>1, <1>2, <1>3 DEF TakeDelivery, Drops, targetVars
<1>4. CASE CompleteDelivery(d) \/ ReleaseClipboard(d) \/ RestoreClipboard(d)
  BY <1>1, <1>2, <1>4 DEF CompleteDelivery, Drops, ReleaseClipboard, RestoreClipboard,
     targetVars
<1>5. CASE ResolveTarget(d) \/ BeginPaste(d) \/ BorrowClipboard(d) \/ AwaitPaste(d)
  BY <1>1, <1>5 DEF ResolveTarget, BeginPaste, BorrowClipboard, AwaitPaste, targetVars
<1>6. CASE VerifyDirect(d) \/ VerifyPaste(d)
  BY <1>1, <1>6 DEF VerifyDirect, VerifyPaste
<1>7. CASE TimerFires(d)
  <2>1. overdue' = overdue /\ step[d] \notin DirectAhead \ {"resolve", "focused"}
    BY <1>7 DEF TimerFires, targetVars, Timed
  <2>2. CASE \A way \in Way : <<d, way>> \notin overdue
    BY <2>1, <2>2 DEF OverdueInv, OneOverdueWrite
  <2>3. CASE expired[d]
    BY <1>0, <1>1, <1>2, <1>7, <2>1, <2>3 DEF TimerFires, Drops, Timed
  <2> QED
    BY <1>0, <2>2, <2>3 DEF OverdueInv
<1>8. CASE DeliverToFocused(d) \/ PostPaste(d)
  <2>1. busy = d /\ step[d] \in {"focused", "post"}
    BY <1>8 DEF DeliverToFocused, PostPaste
  <2>2. \A way \in Way : <<d, way>> \notin overdue
    BY <1>0, <2>1 DEF OverdueInv
  <2>3. step'[d] \notin DirectAhead
    BY <1>8 DEF DeliverToFocused, PostPaste
  <2>4. CASE overdue' = overdue
    BY <2>2, <2>4 DEF OverdueInv, OneOverdueWrite
  <2>5. CASE overdue' # overdue
    <3>1. PICK w \in Way : Writes(d, w) /\ expired[d] /\ busy' = None
      BY <1>8, <2>5 DEF DeliverToFocused, PostPaste, Writes, Way
    <3>2. overdue' = overdue \cup {<<d, w>>}
      BY <3>1 DEF Writes
    <3>3. OneOverdueWrite'
      BY <2>2, <3>2 DEF OneOverdueWrite
    <3> QED
      BY <1>0, <1>2, <2>3, <3>1, <3>3 DEF OverdueInv
  <2> QED
    BY <2>4, <2>5
<1> QED
  BY <1>3, <1>4, <1>5, <1>6, <1>7, <1>8 DEF MainStep

(* Steps of the worker, of the focused program and of the user.            *)
LEMMA WorkerEach ==
    ASSUME TypeOK, EachInv, NEW d \in Dictation, WorkerStep(d) \/ Dispatches(d)
    PROVE  EachInv'
PROOF
<1> SUFFICES ASSUME NEW e \in Dictation
             PROVE  /\ WriteInv(e)' /\ SeenInv(e)' /\ AnswerInv(e)'
                    /\ VerifiedInv(e)' /\ OverdueInv(e)'
  BY DEF EachInv
<1>0. WriteInv(e) /\ SeenInv(e) /\ AnswerInv(e) /\ VerifiedInv(e) /\ OverdueInv(e)
  BY DEF EachInv
<1> USE DEF WorkerGoes, TypeOK, targetVars, boardVars, sessionVars
<1>1. CASE Dispatches(d)
  <2>1. step'[e] = step[e] \/ (step[e] = "none" /\ step'[e] = "queued")
    BY <1>0, <1>1 DEF Dispatches, AnswerInv
  <2>2. UNCHANGED <<inserted, inflight, unseen, trusted, overdue, result, outcome,
                    busy, expired, sent>>
    BY <1>1 DEF Dispatches
  <2>3. WriteInv(e)' /\ SeenInv(e)'
    BY <1>0, <2>1, <2>2 DEF WriteInv, SeenInv, Flying, DirectAhead, PasteAhead
  <2>4. AnswerInv(e)'
    BY <1>0, <1>1, <2>1, <2>2 DEF AnswerInv, Dispatches
  <2>5. VerifiedInv(e)' /\ OverdueInv(e)'
    BY <1>0, <2>1, <2>2 DEF VerifiedInv, OverdueInv, DirectAhead
  <2> QED
    BY <2>3, <2>4, <2>5
<1>2. CASE WorkerStep(d)
  <2>1. UNCHANGED <<step, busy, inserted, inflight, unseen, trusted, overdue>>
    BY <1>2 DEF WorkerStep, Receives, TimesOut, CopiesText
  <2>2. WriteInv(e)' /\ SeenInv(e)'
    BY <1>0, <2>1 DEF WriteInv, SeenInv, Flying
  <2>3. expired[e] => expired'[e]
    BY <1>2 DEF WorkerStep, Receives, TimesOut, CopiesText
  <2>4. OverdueInv(e)'
    BY <1>0, <2>1, <2>3 DEF OverdueInv
  <2>5. AnswerInv(e)'
    BY <1>0, <1>2, <2>1, <2>3 DEF AnswerInv, WorkerStep, Receives, TimesOut, CopiesText
  <2>6. VerifiedInv(e)'
    BY <1>0, <1>2, <2>1 DEF VerifiedInv, WorkerStep, Receives, TimesOut, CopiesText
  <2> QED
    BY <2>2, <2>4, <2>5, <2>6
<1> QED
  BY <1>1, <1>2

LEMMA TargetEach ==
    ASSUME TypeOK, EachInv, NEW d \in Dictation, NEW way \in Way,
           Lands(d, way) \/ Ignored(d, way) \/ UserCopies
    PROVE  EachInv'
PROOF
<1> SUFFICES ASSUME NEW e \in Dictation
             PROVE  /\ WriteInv(e)' /\ SeenInv(e)' /\ AnswerInv(e)'
                    /\ VerifiedInv(e)' /\ OverdueInv(e)'
  BY DEF EachInv
<1>0. WriteInv(e) /\ SeenInv(e) /\ AnswerInv(e) /\ VerifiedInv(e) /\ OverdueInv(e)
  BY DEF EachInv
<1> USE DEF TypeOK, workerVars, sessionVars, targetVars
<1>1. UNCHANGED <<worker, outcome, busy, step, expired, result, sent, trusted, overdue>>
  BY DEF Lands, Ignored, UserCopies
<1>2. AnswerInv(e)' /\ OverdueInv(e)'
  BY <1>0, <1>1 DEF AnswerInv, OverdueInv
<1>3. inserted[e] \in 0 .. 2 /\ inserted'[e] >= inserted[e]
  BY DEF Lands, Ignored, UserCopies
<1>4. VerifiedInv(e)'
  BY <1>0, <1>1, <1>3 DEF VerifiedInv, Lands, Ignored, UserCopies
<1>5. CASE e # d \/ UserCopies
  <2>1. /\ inserted'[e] = inserted[e] /\ (e \in unseen' <=> e \in unseen)
        /\ Flying(e, "direct")' <=> Flying(e, "direct")
        /\ Flying(e, "paste")' <=> Flying(e, "paste")
    BY <1>5 DEF Lands, Ignored, UserCopies, Flying
  <2> QED
    BY <1>0, <1>1, <1>2, <1>4, <2>1 DEF WriteInv, SeenInv
<1>6. CASE e = d /\ Ignored(d, way)
  <2>1. /\ inserted' = inserted /\ unseen' = unseen
        /\ Flying(e, "direct")' => Flying(e, "direct")
        /\ Flying(e, "paste")' => Flying(e, "paste")
    BY <1>6 DEF Ignored, Flying
  <2> QED
    BY <1>0, <1>1, <1>2, <1>3, <1>4, <2>1 DEF WriteInv, SeenInv
<1>7. CASE e = d /\ Lands(d, way) /\ UNCHANGED <<inserted, unseen>>
  <2>1. /\ Flying(e, "direct")' => Flying(e, "direct")
        /\ Flying(e, "paste")' => Flying(e, "paste")
    BY <1>7 DEF Lands, Flying
  <2> QED
    BY <1>0, <1>1, <1>2, <1>3, <1>4, <1>7, <2>1 DEF WriteInv, SeenInv
<1>8. CASE e = d /\ Lands(d, way) /\ way = "direct"
  <2>1. /\ Flying(e, "direct") /\ ~Flying(e, "direct")'
        /\ Flying(e, "paste")' <=> Flying(e, "paste")
        /\ inserted'[e] = inserted[e] + 1
        /\ e \notin unseen' => e \notin unseen /\ step[e] = "verifyDirect"
    BY <1>8 DEF Lands, Flying
  <2>2. WriteInv(e)'
    BY <1>0, <1>1, <1>3, <2>1 DEF WriteInv, DirectAhead, PasteAhead
  <2>3. step[e] = "verifyDirect" => ~Flying(e, "paste") /\ inserted[e] = 0
    BY <1>0, <2>1 DEF WriteInv, DirectAhead, PasteAhead
  <2>4. SeenInv(e)'
    BY <1>1, <2>1, <2>3 DEF SeenInv
  <2> QED
    BY <1>2, <1>4, <2>2, <2>4
<1>9. CASE e = d /\ Lands(d, way) /\ way = "paste" /\ inserted'[e] = inserted[e] + 1
  <2>1. /\ Flying(e, "paste") /\ ~Flying(e, "paste")'
        /\ Flying(e, "direct")' <=> Flying(e, "direct")
        /\ e \in unseen' <=> e \in unseen
    BY <1>9 DEF Lands, Flying
  <2>2. step[e] \notin PasteAhead
    BY <1>0, <2>1 DEF WriteInv
  <2>3. WriteInv(e)'
    BY <1>0, <1>1, <1>3, <1>9, <2>1, <2>2 DEF WriteInv, PasteAhead
  <2>4. SeenInv(e)'
    BY <1>0, <1>1, <1>3, <1>9, <2>1, <2>2 DEF SeenInv, PasteAhead
  <2> QED
    BY <1>2, <1>4, <2>3, <2>4
<1> QED
  BY <1>5, <1>6, <1>7, <1>8, <1>9 DEF Lands, Way

-----------------------------------------------------------------------------
(* The inductive invariant.                                                *)

LEMMA InitIInv == Init => IInv
PROOF
<1> HAVE Init
<1>1. TypeOK
  BY InitTypeOK
<1>2. SessionInv
  BY NoneIsNoDictation DEF Init, SessionInv, Live
<1>3. BoardInv
  BY DEF Init, BoardInv, Transcript, Borrowing
<1>4. OneOverdueWrite
  BY DEF Init, OneOverdueWrite
<1>5. EachInv
  <2> SUFFICES ASSUME NEW d \in Dictation
               PROVE  /\ WriteInv(d) /\ SeenInv(d) /\ AnswerInv(d)
                      /\ VerifiedInv(d) /\ OverdueInv(d)
    BY DEF EachInv
  <2>1. /\ worker[d] = "idle" /\ outcome[d] = "failed" /\ step[d] = "none"
        /\ result[d] = "failed" /\ sent[d] = FALSE /\ inserted[d] = 0
        /\ inflight = {} /\ overdue = {}
    BY DEF Init
  <2> QED
    BY <2>1 DEF WriteInv, SeenInv, AnswerInv, VerifiedInv, OverdueInv, Flying
<1> QED
  BY <1>1, <1>2, <1>3, <1>4, <1>5 DEF IInv

LEMMA NextIInv == IInv /\ [Next]_vars => IInv'
PROOF
<1> SUFFICES ASSUME IInv, [Next]_vars PROVE IInv'
  OBVIOUS
<1> USE DEF IInv
<1>1. ASSUME NEW d \in Dictation, WorkerStep(d) \/ Dispatches(d) PROVE IInv'
  <2>1. SessionInv'
    BY <1>1 DEF SessionInv, Live, WorkerStep, Dispatches, Receives, TimesOut, CopiesText,
       sessionVars, TypeOK, WorkerGoes, EachInv, AnswerInv
  <2>2. OneOverdueWrite'
    BY <1>1 DEF OneOverdueWrite, WorkerStep, Dispatches, Receives, TimesOut, CopiesText,
       targetVars
  <2>3. "direct" \in Way
    BY DEF Way
  <2> QED
    BY <1>1, <2>1, <2>2, <2>3, WorkerTypes, WorkerEach, OthersBoard
<1>2. ASSUME NEW d \in Dictation, MainStep(d) PROVE IInv'
  <2>1. EachInv'
    BY <1>2, MainOthers, MainWrites, MainSeen, MainAnswers, MainVerifies, MainOverdue
       DEF EachInv
  <2> QED
    BY <1>2, <2>1, MainTypes, MainSession, MainBoard, MainOverdue
<1>3. ASSUME NEW d \in Dictation, NEW way \in Way, Lands(d, way) \/ Ignored(d, way)
      PROVE  IInv'
  <2>1. SessionInv' /\ OneOverdueWrite'
    BY <1>3 DEF Lands, Ignored, SessionInv, Live, sessionVars, OneOverdueWrite
  <2> QED
    BY <1>3, <2>1, TargetTypes, TargetEach, OthersBoard
<1>4. CASE UserCopies
  <2>1. SessionInv' /\ OneOverdueWrite'
    BY <1>4 DEF UserCopies, SessionInv, Live, sessionVars, OneOverdueWrite, targetVars
  <2>2. EachInv'
    BY <1>4 DEF UserCopies, EachInv, WriteInv, SeenInv, AnswerInv, VerifiedInv,
       OverdueInv, Flying, workerVars, sessionVars, targetVars
  <2>3. BoardInv'
    <3>1. \A n \in 1 .. Copies : n \in 0 .. Copies
      BY BoundsAreNat
    <3> QED
      BY <1>4, <3>1, Contents, PutsBoard DEF UserCopies, sessionVars
  <2> QED
    BY <1>4, <2>1, <2>2, <2>3, UserTypes
<1>5. CASE UNCHANGED vars
  BY <1>5 DEF vars, workerVars, sessionVars, boardVars, targetVars, TypeOK, SessionInv,
     Live, BoardInv, OneOverdueWrite, EachInv, WriteInv, SeenInv, AnswerInv,
     VerifiedInv, OverdueInv, Flying
<1> QED
  BY <1>1, <1>2, <1>3, <1>4, <1>5 DEF Next, Environment

THEOREM Invariance == Spec => []IInv
BY InitIInv, NextIInv, PTL DEF Spec

-----------------------------------------------------------------------------
(* Theorems.                                                               *)

(* Every variable of the delivery keeps its type: among others, a text is  *)
(* inserted at most twice, and no worker is told that it was dropped.      *)
THEOREM TypeCorrect == Spec => []TypeOK
PROOF
<1>1. IInv => TypeOK
  BY DEF IInv
<1> QED
  BY <1>1, Invariance, PTL

(* The transcript is on the clipboard only while a session borrows it.     *)
THEOREM TranscriptTaken == Spec => []NoTranscriptLeft
PROOF
<1>1. IInv => NoTranscriptLeft
  BY DEF IInv, BoardInv, NoTranscriptLeft
<1> QED
  BY <1>1, Invariance, PTL

(* A borrowed clipboard holds afterwards what was put there last for good. *)
THEOREM ClipboardCorrect == Spec => []ClipboardReturned
PROOF
<1>1. IInv => ClipboardReturned
  BY DEF IInv, BoardInv, ClipboardReturned
<1> QED
  BY <1>1, Invariance, PTL

(* A text is inserted twice only where the control hid it, and a worker     *)
(* takes for delivered what was inserted, or what the caret alone showed.   *)
THEOREM InsertionCorrect == Spec => []InsertionIsTold
PROOF
<1>1. IInv => InsertedTwiceOnlyIfUnseen
  BY DEF IInv, EachInv, SeenInv, InsertedTwiceOnlyIfUnseen, TypeOK
<1>2. IInv => VerifiedIsInserted
  BY DEF IInv, EachInv, VerifiedInv, VerifiedIsInserted
<1>3. IInv => InsertionIsTold
  BY <1>1, <1>2 DEF InsertionIsTold
<1> QED
  BY <1>3, Invariance, PTL

(* After the time-out a session asks for one write at most.                *)
THEOREM OverdueBounded == Spec => []OneOverdueWrite
PROOF
<1>1. IInv => OneOverdueWrite
  BY DEF IInv
<1> QED
  BY <1>1, Invariance, PTL

(***************************************************************************)
(* The delivery of Windows.                                                *)
(***************************************************************************)
USE WindowsDeliveryAssumption

-----------------------------------------------------------------------------
(* The inductive invariant.                                                *)

Someone == WinDictations \cup {NoDelivery}
Steps == {"recv", "poll", "resolve", "snapshot", "replace", "check", "paste",
          "recheck", "restore", "write", "answer"}
Reasons == {"finished", "nextDictation", "controlReset", "focusLost", "timedOut"}
Notices == Snapshots \cup {Ended(r) : r \in Reasons}

(* The commands are those that were sent; at most one is a delivery, of a  *)
(* dictation that has no answer yet, and only while no other is delivered. *)
Command == [kind : {"deliver", "finish"}, of : Someone]
QueueInv ==
    /\ wQueue \in Seq(Command) /\ Len(wQueue) <= CommandCapacity
    /\ \A i \in DOMAIN wQueue : wQueue[i].kind = "deliver" =>
          /\ wQueue[i].of \in WinDictations
          /\ wAnswer[wQueue[i].of] = "none"
          /\ wNow = NoDelivery
    /\ \A i, j \in DOMAIN wQueue :
          wQueue[i].kind = "deliver" /\ wQueue[j].kind = "deliver" => i = j

(* The thread has a dictation exactly between a command and its answer.    *)
ThreadInv ==
    /\ wStep \in Steps /\ wNow \in Someone
    /\ (wNow = NoDelivery) = (wStep \in {"recv", "poll"})
    /\ wAnswer \in [WinDictations -> WinAnswers]
    /\ wNow # NoDelivery => wAnswer[wNow] = "none"
    /\ wTarget \in [control : Controls \cup {NoDelivery}, readable : BOOLEAN]
    /\ wPasted \in {"no", "sent", "failed"}

WinContents == WinCopies \cup WinDictations \cup {"nothing"}

(* What the user copied last is on the clipboard or saved; which of the two *)
(* the sequence number tells.                                              *)
WinBoardInv ==
    /\ wBoard \in WinContents /\ wSaved \in WinContents
    /\ ~wSpoiled =>
        /\ wStep \in {"recv", "poll", "resolve", "snapshot", "replace", "answer"}
              => wBoard = wWanted
        /\ wStep = "replace" => wSaved = wWanted
        /\ wStep \in {"check", "paste", "recheck", "restore"} =>
              IF wSequence = "theirs" THEN wBoard = wWanted ELSE wSaved = wWanted
        /\ wStep = "write" => wSaved = wWanted /\ wSequence # "theirs"

(* What an observer may have heard, and what one that listens has heard.   *)
Told(h) ==
    /\ \A i \in DOMAIN h : h[i] \notin Snapshots => i = Len(h)
    /\ \A i \in 1..(Len(h) - 1) : h[i] # h[i + 1]
Listens(h, last) == h = <<>> \/ h[Len(h)] = <<"snapshot", last>>

ObserverInv ==
    /\ observed \in [of : Someone, control : Controls \cup {NoDelivery},
                     last : 0..MaxVersions]
    /\ observed # NothingObserved => observed.of \in WinDictations
    /\ version \in [WinDictations -> -1..MaxVersions]
    /\ heard \in [WinDictations -> Seq(Notices)]
    /\ \A d \in WinDictations :
          /\ Told(heard[d])
          /\ wAnswer[d] = "none" => heard[d] = <<>>
          /\ observed.of = d => /\ wNow = NoDelivery /\ wAnswer[d] # "none"
                                /\ Listens(heard[d], observed.last)

WindowsInv == QueueInv /\ ThreadInv /\ WinBoardInv /\ ObserverInv

LEMMA InitWindowsInv == WindowsInit => WindowsInv
<1> SUFFICES ASSUME WindowsInit PROVE WindowsInv
  OBVIOUS
<1> USE DEF WindowsInit
<1>1. QueueInv
  BY DEF QueueInv
<1>2. ThreadInv
  BY DEF ThreadInv, Steps, Someone, NoTarget, WinAnswers
<1>3. WinBoardInv
  BY DEF WinBoardInv, WinContents
<1>4. ObserverInv
  BY DEF ObserverInv, Someone, NothingObserved, Told
<1> QED  BY <1>1, <1>2, <1>3, <1>4 DEF WindowsInv

-----------------------------------------------------------------------------
(* The steps of a delivery.                                                *)
Works == ResolveFails \/ Resolve \/ Snapshot \/ ReplaceText \/ CheckFocus \/ SendPaste
         \/ RecheckFocus \/ RestoreUnlessCopied \/ RestoreWrites \/ Answer

User == UserCopiesText \/ MovesFocus \/ Types \/ EndsComposition

WinAnswered == \E answer \in WinAnswers \ {"none"} : AnswerNow(answer)

LEMMA AnswersAreGood ==
    ASSUME NEW control
    PROVE  /\ Protected(control) \in WinAnswers \ {"none"}
           /\ Attempted(control) \in WinAnswers \ {"none"}
BY DEF Protected, Attempted, WinAnswers

(* A step of a delivery goes on with it or answers.                        *)
LEMMA WorksOrAnswers ==
    ASSUME ThreadInv, focus \in Controls \cup {NoDelivery}, Works
    PROVE  /\ wNow \in WinDictations /\ UNCHANGED wQueue
           /\ \/ /\ UNCHANGED <<wAnswer, wNow>>
                 /\ wStep' \in Steps \ {"recv", "poll"}
                 /\ wTarget' \in [control : Controls \cup {NoDelivery}, readable : BOOLEAN]
                 /\ wPasted' \in {"no", "sent", "failed"}
              \/ WinAnswered
<1> USE DEF ThreadInv, Someone, Steps, winBoardVars, winUserVars
<1>1. CASE ResolveFails
  BY <1>1, AnswersAreGood DEF ResolveFails, WinAnswered, WinAnswers
<1>2. CASE Resolve
  BY <1>2 DEF Resolve
<1>3. CASE Snapshot
  BY <1>3, AnswersAreGood DEF Snapshot, WinAnswered
<1>4. CASE ReplaceText
  BY <1>4, AnswersAreGood DEF ReplaceText, WinAnswered
<1>5. CASE CheckFocus
  BY <1>5 DEF CheckFocus
<1>6. CASE SendPaste
  BY <1>6 DEF SendPaste
<1>7. CASE RecheckFocus
  BY <1>7 DEF RecheckFocus
<1>8. CASE RestoreUnlessCopied
  BY <1>8 DEF RestoreUnlessCopied
<1>9. CASE RestoreWrites
  BY <1>9, AnswersAreGood DEF RestoreWrites, WinAnswered
<1>10. CASE Answer
  BY <1>10, AnswersAreGood DEF Answer, WinAnswered
<1> QED  BY <1>1, <1>2, <1>3, <1>4, <1>5, <1>6, <1>7, <1>8, <1>9, <1>10 DEF Works

LEMMA UserFrame ==
    ASSUME User
    PROVE  UNCHANGED <<wQueue, wAnswer, wStep, wNow, wTarget, wPasted>>
BY DEF User, UserCopiesText, MovesFocus, Types, EndsComposition

-----------------------------------------------------------------------------
(* Thread and queue.                                                       *)
FocusInv == focus \in Controls \cup {NoDelivery}

LEMMA ThreadStep ==
    ASSUME WindowsInv, FocusInv, WindowsNext
    PROVE  ThreadInv'
<1> USE DEF WindowsInv
<1>1. CASE Works
  <2>1. CASE WinAnswered
    BY <1>1, <2>1, WorksOrAnswers
       DEF WinAnswered, AnswerNow, ThreadInv, Someone, Steps, NoTarget, FocusInv
  <2>2. CASE ~WinAnswered
    BY <1>1, <2>2, WorksOrAnswers DEF ThreadInv, Someone, Steps, FocusInv
  <2> QED  BY <2>1, <2>2
<1>2. CASE User
  BY <1>2, UserFrame DEF ThreadInv
<1>3. CASE RequestFinish \/ \E d \in WinDictations : RequestDelivery(d)
  BY <1>3 DEF RequestFinish, RequestDelivery, ThreadInv
<1>4. CASE ReceiveFinish \/ PollInterval \/ Poll
  BY <1>4 DEF ReceiveFinish, PollInterval, Poll, ThreadInv, Steps
<1>5. CASE ReceiveDelivery
  <2>1. 1 \in DOMAIN wQueue /\ Head(wQueue) = wQueue[1]
    BY <1>5 DEF ReceiveDelivery, QueueInv
  <2>2. Head(wQueue).of \in WinDictations /\ wAnswer[Head(wQueue).of] = "none"
    BY <1>5, <2>1 DEF ReceiveDelivery, QueueInv
  <2> QED  BY <1>5, <2>2 DEF ReceiveDelivery, ThreadInv, Steps, Someone
<1> QED  BY <1>1, <1>2, <1>3, <1>4, <1>5 DEF WindowsNext, Works, User

LEMMA QueueStep ==
    ASSUME WindowsInv, FocusInv, WindowsNext
    PROVE  QueueInv'
<1> USE DEF WindowsInv
<1>1. CASE UNCHANGED <<wQueue, wAnswer, wNow>>
  BY <1>1 DEF QueueInv
<1>2. CASE Works
  <2>1. wNow # NoDelivery /\ UNCHANGED wQueue
    BY <1>2, WorksOrAnswers DEF FocusInv
  <2>2. \A i \in DOMAIN wQueue : wQueue[i].kind # "deliver"
    BY <2>1 DEF QueueInv
  <2> QED  BY <2>1, <2>2 DEF QueueInv
<1>3. ASSUME NEW d \in WinDictations, RequestDelivery(d) PROVE QueueInv'
  <2> DEFINE c == [kind |-> "deliver", of |-> d]
  <2>1. c \in Command /\ wQueue' = Append(wQueue, c)
    BY <1>3 DEF RequestDelivery, Command, Someone
  <2>2. \A i \in DOMAIN wQueue : wQueue[i].kind # "deliver"
    <3> TAKE i \in DOMAIN wQueue
    <3>1. wQueue[i] \in ToSet(wQueue)
      BY DEF ToSet
    <3> QED  BY <1>3, <3>1 DEF RequestDelivery
  <2>3. /\ wQueue' \in Seq(Command) /\ Len(wQueue') = Len(wQueue) + 1
        /\ DOMAIN wQueue' = 1..(Len(wQueue) + 1)
        /\ \A i \in DOMAIN wQueue : wQueue'[i] = wQueue[i]
        /\ wQueue'[Len(wQueue) + 1] = c
    BY <2>1 DEF QueueInv
  <2>4. \A i \in DOMAIN wQueue' : wQueue'[i].kind = "deliver" =>
          i = Len(wQueue) + 1 /\ wQueue'[i] = c
    BY <2>2, <2>3 DEF QueueInv
  <2>5. Len(wQueue') <= CommandCapacity
    BY <1>3, <2>3 DEF RequestDelivery, QueueInv
  <2> QED  BY <1>3, <2>3, <2>4, <2>5 DEF RequestDelivery, QueueInv
<1>4. CASE RequestFinish
  <2> DEFINE c == [kind |-> "finish", of |-> NoDelivery]
  <2>1. c \in Command /\ wQueue' = Append(wQueue, c)
    BY <1>4 DEF RequestFinish, Command, Someone
  <2>2. /\ wQueue' \in Seq(Command) /\ Len(wQueue') = Len(wQueue) + 1
        /\ DOMAIN wQueue' = 1..(Len(wQueue) + 1)
        /\ \A i \in DOMAIN wQueue : wQueue'[i] = wQueue[i]
        /\ wQueue'[Len(wQueue) + 1] = c
    BY <2>1 DEF QueueInv
  <2>3. \A i \in DOMAIN wQueue' : wQueue'[i].kind = "deliver" =>
          i \in DOMAIN wQueue /\ wQueue'[i] = wQueue[i]
    BY <2>2 DEF QueueInv
  <2>4. Len(wQueue') <= CommandCapacity
    BY <1>4, <2>2 DEF RequestFinish, QueueInv
  <2> QED  BY <1>4, <2>2, <2>3, <2>4 DEF RequestFinish, QueueInv
<1>5. CASE ReceiveFinish \/ ReceiveDelivery
  <2>1. wQueue # <<>> /\ wQueue' = Tail(wQueue) /\ UNCHANGED wAnswer
    BY <1>5 DEF ReceiveFinish, ReceiveDelivery
  <2>2. /\ wQueue' \in Seq(Command) /\ Len(wQueue') = Len(wQueue) - 1
        /\ DOMAIN wQueue' = 1..(Len(wQueue) - 1)
        /\ \A i \in DOMAIN wQueue' : i + 1 \in DOMAIN wQueue /\ wQueue'[i] = wQueue[i + 1]
    BY <2>1 DEF QueueInv
  <2>3. \/ UNCHANGED wNow
        \/ \A i \in DOMAIN wQueue' : wQueue'[i].kind # "deliver"
    <3>1. CASE ReceiveFinish
      BY <3>1 DEF ReceiveFinish
    <3>2. CASE ReceiveDelivery
      <4>1. 1 \in DOMAIN wQueue /\ wQueue[1].kind = "deliver"
        BY <3>2 DEF ReceiveDelivery, QueueInv
      <4> QED  BY <2>2, <4>1 DEF QueueInv
    <3> QED  BY <1>5, <3>1, <3>2
  <2>4. Len(wQueue') <= CommandCapacity
    BY <2>2 DEF QueueInv
  <2>5. \A i, j \in DOMAIN wQueue' :
          wQueue'[i].kind = "deliver" /\ wQueue'[j].kind = "deliver" => i = j
    <3> TAKE i, j \in DOMAIN wQueue'
    <3>1. i \in Int /\ j \in Int
      BY <2>2
    <3>2. wQueue[i + 1].kind = "deliver" /\ wQueue[j + 1].kind = "deliver" => i + 1 = j + 1
      BY <2>2 DEF QueueInv
    <3> QED  BY <2>2, <3>1, <3>2
  <2> QED  BY <2>1, <2>2, <2>3, <2>4, <2>5 DEF QueueInv
<1>6. CASE PollInterval \/ Poll
  BY <1>1, <1>6 DEF PollInterval, Poll
<1>7. CASE User
  BY <1>1, <1>7, UserFrame
<1> QED  BY <1>2, <1>3, <1>4, <1>5, <1>6, <1>7 DEF WindowsNext, Works, User

-----------------------------------------------------------------------------
(* The clipboard.                                                          *)
LEMMA BoardStep ==
    ASSUME WindowsInv, FocusInv, WindowsNext
    PROVE  WinBoardInv'
<1> USE DEF WindowsInv, winBoardVars
<1>1. CASE ResolveFails \/ Resolve
  BY <1>1 DEF ResolveFails, Resolve, AnswerNow, WinBoardInv
<1>2. CASE Snapshot
  BY <1>2 DEF Snapshot, AnswerNow, WinBoardInv
<1>3. CASE ReplaceText
  <2>1. wNow \in WinDictations
    BY <1>3, WorksOrAnswers DEF Works, FocusInv
  <2> QED  BY <1>3, <2>1 DEF ReplaceText, AnswerNow, WinBoardInv, WinContents
<1>4. CASE CheckFocus \/ SendPaste \/ RecheckFocus
  BY <1>4 DEF CheckFocus, SendPaste, RecheckFocus, WinBoardInv
<1>5. CASE RestoreUnlessCopied
  BY <1>5 DEF RestoreUnlessCopied, WinBoardInv
<1>6. CASE RestoreWrites
  BY <1>6 DEF RestoreWrites, AnswerNow, WinBoardInv
<1>7. CASE Answer
  BY <1>7 DEF Answer, AnswerNow, WinBoardInv
<1>8. CASE UserCopiesText
  BY <1>8 DEF UserCopiesText, WinBoardInv, WinContents, ThreadInv, Steps
<1>9. CASE MovesFocus \/ Types \/ EndsComposition
  BY <1>9 DEF MovesFocus, Types, EndsComposition, WinBoardInv
<1>10. CASE RequestFinish \/ \E d \in WinDictations : RequestDelivery(d)
  BY <1>10 DEF RequestFinish, RequestDelivery, WinBoardInv
<1>11. CASE ReceiveFinish \/ ReceiveDelivery \/ PollInterval \/ Poll
  BY <1>11 DEF ReceiveFinish, ReceiveDelivery, PollInterval, Poll, WinBoardInv
<1> QED  BY <1>1, <1>2, <1>3, <1>4, <1>5, <1>6, <1>7, <1>8, <1>9, <1>10, <1>11
         DEF WindowsNext

-----------------------------------------------------------------------------
(* The observers.                                                          *)
Observation == [of : Someone, control : Controls \cup {NoDelivery}, last : 0..MaxVersions]

LEMMA EndsAreNoSnapshots ==
    ASSUME NEW reason \in Reasons
    PROVE  Ended(reason) \in Notices /\ Ended(reason) \notin Snapshots
<1>1. reason # "snapshot"
  BY DEF Reasons
<1> QED  BY <1>1 DEF Ended, Notices, Snapshots

(* One that listens may be told its end, or a text that is not the last.   *)
LEMMA TellingKeepsTold ==
    ASSUME NEW h \in Seq(Notices), NEW last \in 0..MaxVersions, NEW what \in Notices,
           Told(h), Listens(h, last), what # <<"snapshot", last>>
    PROVE  /\ Append(h, what) \in Seq(Notices)
           /\ Told(Append(h, what))
           /\ Append(h, what) # <<>>
           /\ Append(h, what)[Len(Append(h, what))] = what
<1> DEFINE g == Append(h, what)
<1>1. /\ g \in Seq(Notices) /\ Len(g) = Len(h) + 1 /\ Len(h) \in Nat
      /\ DOMAIN g = 1..(Len(h) + 1) /\ DOMAIN h = 1..Len(h)
      /\ g[Len(h) + 1] = what /\ \A i \in DOMAIN h : g[i] = h[i]
  OBVIOUS
<1>2. <<"snapshot", last>> \in Snapshots
  BY DEF Snapshots
<1> HIDE DEF g
<1>3. \A i \in DOMAIN h : h[i] \in Snapshots
  <2>1. CASE h = <<>>
    BY <2>1
  <2>2. CASE h # <<>>
    BY <1>2, <2>2 DEF Told, Listens
  <2> QED  BY <2>1, <2>2
<1>4. \A i \in DOMAIN g : g[i] \notin Snapshots => i = Len(g)
  BY <1>1, <1>3
<1>5. \A i \in 1..(Len(g) - 1) : g[i] # g[i + 1]
  <2> TAKE i \in 1..(Len(g) - 1)
  <2>1. i \in 1..Len(h) /\ i \in DOMAIN h /\ g[i] = h[i]
    <3>1. Len(g) - 1 = Len(h)
      BY <1>1
    <3> QED  BY <1>1, <3>1
  <2>2. CASE i = Len(h)
    <3>1. h # <<>> /\ g[i + 1] = what
      BY <1>1, <2>1, <2>2
    <3> QED  BY <2>1, <2>2, <3>1 DEF Listens
  <2>3. CASE i # Len(h)
    <3>1. i \in 1..(Len(h) - 1) /\ i + 1 \in 1..Len(h)
      BY <1>1, <2>1, <2>3
    <3> QED  BY <1>1, <2>1, <3>1 DEF Told
  <2> QED  BY <2>2, <2>3
<1>6. g # <<>> /\ g[Len(g)] = what
  BY <1>1
<1>7. g \in Seq(Notices) /\ Told(g)
  BY <1>1, <1>4, <1>5 DEF Told
<1> QED  BY <1>6, <1>7 DEF g

(* The dictation observed was answered and has heard no end.               *)
LEMMA ObservedListens ==
    ASSUME ObserverInv, observed # NothingObserved
    PROVE  /\ observed.of \in WinDictations /\ observed.last \in 0..MaxVersions
           /\ heard[observed.of] \in Seq(Notices) /\ Told(heard[observed.of])
           /\ Listens(heard[observed.of], observed.last)
           /\ wNow = NoDelivery /\ wAnswer[observed.of] # "none"
BY DEF ObserverInv

(* What one observer hears changes, and it goes on or the observation ends. *)
LEMMA HearsMore ==
    ASSUME ObserverInv, observed # NothingObserved, NEW h \in Seq(Notices), Told(h),
           heard' = [heard EXCEPT ![observed.of] = h], UNCHANGED <<version, wAnswer>>,
           \/ observed' = NothingObserved
           \/ /\ observed' \in Observation /\ observed'.of = observed.of
              /\ wNow' = NoDelivery /\ Listens(h, observed'.last)
    PROVE  ObserverInv'
<1>1. observed.of \in WinDictations /\ wAnswer[observed.of] # "none"
  BY ObservedListens
<1>2. /\ heard' \in [WinDictations -> Seq(Notices)]
      /\ \A d \in WinDictations :
            heard'[d] = IF d = observed.of THEN h ELSE heard[d]
  BY <1>1 DEF ObserverInv
<1>3. /\ observed' \in Observation
      /\ observed' # NothingObserved => observed'.of \in WinDictations
      /\ \A d \in WinDictations : observed'.of = d =>
            /\ d = observed.of /\ wNow' = NoDelivery /\ Listens(h, observed'.last)
  BY <1>1 DEF NothingObserved, Observation, Someone
<1>4. \A d \in WinDictations : Told(heard'[d])
  BY <1>2 DEF ObserverInv
<1>5. \A d \in WinDictations : wAnswer[d] = "none" => heard'[d] = <<>>
  BY <1>1, <1>2 DEF ObserverInv
<1> QED
  BY <1>1, <1>2, <1>3, <1>4, <1>5 DEF ObserverInv, Observation

LEMMA FinishAllEnds ==
    ASSUME ObserverInv, NEW reason \in Reasons, FinishAll(reason),
           UNCHANGED <<version, wAnswer>>
    PROVE  ObserverInv'
<1>1. CASE observed = NothingObserved
  BY <1>1 DEF FinishAll, ObserverInv, NothingObserved
<1>2. CASE observed # NothingObserved
  <2> DEFINE h == Append(heard[observed.of], Ended(reason))
  <2>1. Ended(reason) # <<"snapshot", observed.last>>
    BY <1>2, EndsAreNoSnapshots, ObservedListens DEF Snapshots
  <2>2. h \in Seq(Notices) /\ Told(h)
    BY <1>2, <2>1, EndsAreNoSnapshots, ObservedListens, TellingKeepsTold
  <2>3. heard' = [heard EXCEPT ![observed.of] = h] /\ observed' = NothingObserved
    BY <1>2 DEF FinishAll, Tell
  <2> HIDE DEF h
  <2> QED  BY <1>2, <2>2, <2>3, HearsMore
<1> QED  BY <1>1, <1>2

(* What a poll makes of an observer: it heard the text, or nothing, and    *)
(* then perhaps the end.                                                   *)
LEMMA PollKeepsObservers ==
    ASSUME ObserverInv, Poll
    PROVE  ObserverInv'
<1> USE DEF winBoardVars, winUserVars
<1>1. UNCHANGED <<version, wAnswer, wNow>>
  BY DEF Poll
<1>2. CASE UNCHANGED <<observed, heard>>
  BY <1>1, <1>2 DEF ObserverInv
<1>3. CASE FinishAll("controlReset")
  BY <1>1, <1>3, FinishAllEnds DEF Reasons
<1>4. ASSUME observed # NothingObserved, NEW update \in Updates, update # "reset",
             NEW told,
             told = IF update = "snapshot" THEN Reported ELSE heard,
             \/ /\ observed' = NothingObserved
                /\ \E reason \in Reasons :
                      heard' = [told EXCEPT ![observed.of] = Append(@, Ended(reason))]
             \/ /\ observed' = [observed EXCEPT !.last =
                          IF update = "snapshot" THEN version[observed.of] ELSE @]
                /\ heard' = told
      PROVE  ObserverInv'
  <2> DEFINE d == observed.of
             last == IF update = "snapshot" THEN version[d] ELSE observed.last
             h == told[d]
  <2>1. /\ d \in WinDictations /\ observed.last \in 0..MaxVersions
        /\ heard[d] \in Seq(Notices) /\ Told(heard[d]) /\ Listens(heard[d], observed.last)
        /\ wNow = NoDelivery /\ wAnswer[d] # "none"
    BY <1>4, ObservedListens
  <2>2. heard \in [WinDictations -> Seq(Notices)] /\ observed \in Observation
    BY DEF ObserverInv, Observation
  <2>3. update = "snapshot" => version[d] \in 0..MaxVersions
    BY <1>4, <2>1 DEF Updates, ObserverInv
  <2>4. last \in 0..MaxVersions
    BY <2>1, <2>3
  <2>5. /\ told = [heard EXCEPT ![d] = h]
        /\ h \in Seq(Notices) /\ Told(h) /\ Listens(h, last)
    <3>1. CASE update # "snapshot" \/ version[d] = observed.last
      <4>1. told = heard /\ last = observed.last
        BY <1>4, <3>1 DEF Reported
      <4> QED  BY <2>1, <2>2, <4>1
    <3>2. CASE update = "snapshot" /\ version[d] # observed.last
      <4> DEFINE what == <<"snapshot", version[d]>>
      <4>1. told = [heard EXCEPT ![d] = Append(@, what)] /\ last = version[d]
        BY <1>4, <3>2 DEF Reported, Tell
      <4>2. what \in Notices /\ what # <<"snapshot", observed.last>>
        BY <2>3, <3>2 DEF Notices, Snapshots
      <4>3. h = Append(heard[d], what) /\ told = [heard EXCEPT ![d] = h]
        BY <2>1, <2>2, <4>1
      <4> HIDE DEF what, last
      <4>4. /\ Append(heard[d], what) \in Seq(Notices) /\ Told(Append(heard[d], what))
            /\ Append(heard[d], what)[Len(Append(heard[d], what))] = what
        BY <2>1, <4>2, TellingKeepsTold
      <4> QED  BY <4>1, <4>3, <4>4 DEF Listens, what
    <3> QED  BY <3>1, <3>2
  <2> HIDE DEF h, last
  <2>6. CASE observed' = NothingObserved /\ \E reason \in Reasons :
                heard' = [told EXCEPT ![d] = Append(@, Ended(reason))]
    <3>1. PICK reason \in Reasons : heard' = [told EXCEPT ![d] = Append(@, Ended(reason))]
      BY <2>6
    <3>2. Ended(reason) \in Notices /\ Ended(reason) # <<"snapshot", last>>
      BY <2>4, EndsAreNoSnapshots DEF Snapshots
    <3>3. Append(h, Ended(reason)) \in Seq(Notices) /\ Told(Append(h, Ended(reason)))
      BY <2>4, <2>5, <3>2, TellingKeepsTold
    <3>4. heard' = [heard EXCEPT ![d] = Append(h, Ended(reason))]
      BY <2>1, <2>2, <2>5, <3>1
    <3> QED  BY <1>1, <1>4, <2>6, <3>3, <3>4, HearsMore
  <2>7. CASE observed' = [observed EXCEPT !.last =
                    IF update = "snapshot" THEN version[d] ELSE @] /\ heard' = told
    <3>1. observed' = [observed EXCEPT !.last = last]
      BY <2>7 DEF last
    <3>2. observed' \in Observation /\ observed'.of = d /\ observed'.last = last
      BY <2>2, <2>4, <3>1 DEF Observation
    <3> QED  BY <1>1, <1>4, <2>1, <2>5, <2>7, <3>2, HearsMore
  <2> QED  BY <1>4, <2>6, <2>7
<1>5. ("focusLost" \in Reasons) /\ ("timedOut" \in Reasons)
  BY DEF Reasons
<1> QED  BY <1>2, <1>3, <1>4, <1>5 DEF Poll

LEMMA ObserverStep ==
    ASSUME WindowsInv, FocusInv, WindowsNext
    PROVE  ObserverInv'
<1> USE DEF WindowsInv, winBoardVars, winUserVars
<1>1. CASE UNCHANGED <<observed, heard, version, wAnswer, wNow>>
  BY <1>1 DEF ObserverInv
<1>2. CASE Works
  <2>1. wNow \in WinDictations /\ wNow # NoDelivery /\ wAnswer[wNow] = "none"
    BY <1>2, WorksOrAnswers DEF FocusInv, ThreadInv
  <2>2. observed = NothingObserved /\ heard[wNow] = <<>>
    BY <2>1 DEF ObserverInv
  <2>3. /\ UNCHANGED <<heard, version>>
        /\ \/ UNCHANGED observed
           \/ /\ wNow' = NoDelivery /\ wAnswer'[wNow] # "none"
              /\ observed' = [of |-> wNow, control |-> wTarget.control, last |-> 0]
    <3>1. CASE Answer
      <4>1. CASE wPasted = "failed" /\ UNCHANGED observed
        BY <3>1, <4>1 DEF Answer
      <4>2. CASE AnswerNow(Attempted(wTarget.control)) /\ observed' \in Capture
        BY <2>1, <2>2, <3>1, <4>2, AnswersAreGood DEF Answer, AnswerNow, Capture, ThreadInv
      <4> QED  BY <3>1, <4>1, <4>2 DEF Answer
    <3>2. CASE ~Answer
      BY <1>2, <3>2 DEF Works, ResolveFails, Resolve, Snapshot, ReplaceText, CheckFocus,
                        SendPaste, RecheckFocus, RestoreUnlessCopied, RestoreWrites
    <3> QED  BY <3>1, <3>2
  <2>4. \A d \in WinDictations : wAnswer'[d] = "none" => wAnswer[d] = "none"
    BY <1>2, <2>1, WorksOrAnswers DEF FocusInv, WinAnswered, AnswerNow, ThreadInv
  <2>5. CASE UNCHANGED observed
    BY <2>2, <2>3, <2>4, <2>5 DEF ObserverInv, NothingObserved
  <2>6. CASE /\ wNow' = NoDelivery /\ wAnswer'[wNow] # "none"
             /\ observed' = [of |-> wNow, control |-> wTarget.control, last |-> 0]
    <3>1. wTarget.control \in Controls \cup {NoDelivery} /\ 0 \in 0..MaxVersions
      BY DEF ThreadInv
    <3> QED  BY <2>1, <2>2, <2>3, <2>4, <2>6, <3>1 DEF ObserverInv, Listens, Someone
  <2> QED  BY <2>3, <2>5, <2>6
<1>3. CASE Types
  <2>1. UNCHANGED <<observed, heard, wAnswer, wNow>>
    BY <1>3 DEF Types
  <2>2. version' \in [WinDictations -> -1..MaxVersions]
    BY <1>3 DEF Types, ObserverInv
  <2> QED  BY <2>1, <2>2 DEF ObserverInv
<1>4. CASE UserCopiesText \/ MovesFocus \/ EndsComposition
  BY <1>1, <1>4 DEF UserCopiesText, MovesFocus, EndsComposition
<1>5. CASE RequestFinish \/ \E d \in WinDictations : RequestDelivery(d)
  BY <1>1, <1>5 DEF RequestFinish, RequestDelivery
<1>6. CASE PollInterval
  BY <1>1, <1>6 DEF PollInterval
<1>7. CASE ReceiveFinish
  BY <1>7, FinishAllEnds DEF ReceiveFinish, Reasons
<1>8. CASE ReceiveDelivery
  BY <1>8, FinishAllEnds DEF ReceiveDelivery, Reasons
<1>9. CASE Poll
  BY <1>9, PollKeepsObservers
<1> QED  BY <1>2, <1>3, <1>4, <1>5, <1>6, <1>7, <1>8, <1>9 DEF WindowsNext, Works

-----------------------------------------------------------------------------
LEMMA FocusStep ==
    ASSUME FocusInv, WindowsNext
    PROVE  FocusInv'
<1> USE DEF FocusInv, winUserVars
<1>1. CASE MovesFocus
  BY <1>1 DEF MovesFocus
<1>2. CASE ~MovesFocus
  BY <1>2 DEF WindowsNext, RequestDelivery, RequestFinish, ReceiveFinish, ReceiveDelivery,
              PollInterval, Poll, ResolveFails, Resolve, Snapshot, ReplaceText, CheckFocus,
              SendPaste, RecheckFocus, RestoreUnlessCopied, RestoreWrites, Answer,
              UserCopiesText, Types, EndsComposition
<1> QED  BY <1>1, <1>2

LEMMA WindowsAlways == WindowsSpec => [](WindowsInv /\ FocusInv)
<1>1. WindowsInit => WindowsInv /\ FocusInv
  BY InitWindowsInv DEF WindowsInit, FocusInv
<1>2. WindowsInv /\ FocusInv /\ [WindowsNext]_windowsVars => (WindowsInv /\ FocusInv)'
  <2> SUFFICES ASSUME WindowsInv, FocusInv, [WindowsNext]_windowsVars PROVE (WindowsInv /\ FocusInv)'
    OBVIOUS
  <2>1. CASE WindowsNext
    BY <2>1, ThreadStep, QueueStep, BoardStep, ObserverStep, FocusStep DEF WindowsInv
  <2>2. CASE UNCHANGED windowsVars
    BY <2>2 DEF windowsVars, WindowsInv, FocusInv, QueueInv, ThreadInv, WinBoardInv, ObserverInv
  <2> QED  BY <2>1, <2>2
<1> QED  BY <1>1, <1>2, PTL DEF WindowsSpec

(* WindowsTypeOK in every behaviour: the queue never holds more than its   *)
(* capacity, and the thread has a dictation exactly while it delivers one. *)
(* (crates/infra/src/windows_text_delivery/worker.rs)                      *)
THEOREM WindowsTypeCorrect == WindowsSpec => []WindowsTypeOK
<1>1. WindowsInv => WindowsTypeOK
  BY DEF WindowsInv, QueueInv, ThreadInv, WinBoardInv, WindowsTypeOK, Command, Someone, Steps,
         WinContents
<1> QED  BY <1>1, WindowsAlways, PTL

(* The clipboard is the user's again after every delivery, however it      *)
(* ended, unless a copy was made where the system has no means to keep it  *)
(* or the restore was given up.                                            *)
(* (crates/app/src/text_delivery.rs:40)                                    *)
THEOREM WindowsClipboardCorrect == WindowsSpec => []WindowsClipboardReturned
<1>1. WindowsInv => WindowsClipboardReturned
  BY DEF WindowsInv, ThreadInv, WinBoardInv, WindowsClipboardReturned
<1> QED  BY <1>1, WindowsAlways, PTL

(* Every observer hears different snapshots and then one end, and none is  *)
(* active while another dictation is delivered.                            *)
(* (crates/app/src/text_delivery.rs:61-66)                                 *)
THEOREM ObserversHearOneEnd == WindowsSpec => []ObserverHearsOneEnd
<1>1. WindowsInv => ObserverHearsOneEnd
  <2> SUFFICES ASSUME ObserverInv PROVE ObserverHearsOneEnd
    BY DEF WindowsInv
  <2> SUFFICES ASSUME NEW d \in WinDictations
               PROVE  /\ Told(heard[d])
                      /\ observed.of = d =>
                            /\ wNow = NoDelivery
                            /\ heard[d] = <<>> \/ Last(heard[d]) \in Snapshots
    BY DEF ObserverHearsOneEnd, Told
  <2>1. Told(heard[d])
    BY DEF ObserverInv
  <2>2. ASSUME observed.of = d
        PROVE  /\ wNow = NoDelivery
               /\ heard[d] = <<>> \/ Last(heard[d]) \in Snapshots
    <3>1. Listens(heard[d], observed.last) /\ wNow = NoDelivery
      BY <2>2 DEF ObserverInv
    <3>2. <<"snapshot", observed.last>> \in Snapshots
      BY DEF ObserverInv, Snapshots
    <3> QED  BY <3>1, <3>2 DEF Listens, Last
  <2> QED  BY <2>1, <2>2
<1> QED  BY <1>1, WindowsAlways, PTL

(***************************************************************************)
(* The shortcuts of Windows.                                               *)
(***************************************************************************)
HIDE WindowsDeliveryAssumption
USE WindowsShortcutsAssumption

-----------------------------------------------------------------------------
ShortcutLists == Seq(WinShortcuts)
SaveStages == {"queued", "saved", "failed", "refused"}
Saves == [next : ShortcutLists, previous : ShortcutLists, at : SaveStages]

(* A change under way is in the hands of the monitor and of the list; what *)
(* it would take away is still held, and the stored list is the one of     *)
(* before until the save is through, or one whose save was told as failed. *)
ChangeInv ==
    IF updating
    THEN /\ save \in Saves /\ save.next = active
         /\ staged = [previous |-> save.previous, next |-> active]
         /\ listed = active /\ current = active
         /\ registered = ToSet(save.previous) \cup ToSet(active)
         /\ strayRow \/ Loaded(shortcutRow) = IF save.at = "saved" THEN active ELSE save.previous
    ELSE /\ save = NoSave /\ staged = NoUpdate
         /\ Running => /\ listed = active /\ current = active
                       /\ registered = ToSet(active)
                       /\ strayRow \/ Loaded(shortcutRow) = active

ListsInv ==
    /\ shortcutRow \in ShortcutLists \cup {<<Legacy>>}
    /\ current \in ShortcutLists /\ active \in ShortcutLists /\ listed \in ShortcutLists
    /\ registered \subseteq WinShortcuts /\ taken \subseteq Combinations
    /\ registered \cap taken = {}
    /\ monitor \in {"waits", "looks", "gone"} /\ updating \in BOOLEAN /\ strayRow \in BOOLEAN
    /\ ~Running => ~updating /\ active = <<>> /\ registered = {}
    /\ ChangeInv

(* At most one capture samples, and the controller knows whether one does. *)
CapturesInv ==
    /\ captures \subseteq [target : Nat, at : {"begins", "samples", "ended"} \cup WinShortcuts,
                           number : Nat]
    /\ IsFiniteSet(captures)
    /\ captureActive \in BOOLEAN
    /\ captureActive = (\E c \in captures : c.at = "samples")
    /\ \A c, d \in captures : c.at = "samples" /\ d.at = "samples" => c = d

(* A press whose hook did not change its mind is the hook's or the         *)
(* foreground program's, from its first half on.                           *)
Strokes == [down : BOOLEAN, seen : SUBSET {"down", "up"}, told : BOOLEAN, wavered : BOOLEAN]
PressInv ==
    /\ press \in Strokes
    /\ altEnabled \in BOOLEAN /\ shortcutsOn \in BOOLEAN
    /\ altEvents \in Nat /\ toggled \in Nat /\ presses \in Nat
    /\ pressActive \in BOOLEAN /\ (pressActive => press.down)
    /\ altEnabled => Running /\ RightAlt \in ToSet(active)
    /\ press.down /\ ~press.wavered =>
          /\ pressActive = altEnabled
          /\ press.seen = IF altEnabled THEN {} ELSE {"down"}
    /\ ~press.down /\ ~press.wavered /\ presses > 0 =>
          /\ press.told = (press.seen = {})
          /\ press.seen \in {{}, {"down", "up"}}
    /\ toggled + altEvents + (IF press.down THEN 1 ELSE 0) <= presses

ShortcutsInv == ListsInv /\ CapturesInv /\ PressInv

-----------------------------------------------------------------------------
(* Facts about lists of shortcuts.                                         *)

LEMMA ListsHoldShortcuts ==
    ASSUME NEW l \in ShortcutLists
    PROVE  ToSet(l) \subseteq WinShortcuts
BY DEF ShortcutLists, ToSet

LEMMA LoadedLists ==
    /\ \A l \in ShortcutLists : Loaded(l) = l
    /\ Loaded(<<Legacy>>) = <<RightAlt>> /\ <<RightAlt>> \in ShortcutLists
<1>1. ASSUME NEW l \in ShortcutLists
      PROVE  Loaded(l) = l
  <2>1. ToSet(l) \subseteq WinShortcuts
    BY ListsHoldShortcuts
  <2> QED  BY <2>1 DEF Loaded
<1>2. ToSet(<<Legacy>>) = {Legacy}
  BY DEF ToSet
<1>3. Legacy \notin WinShortcuts
  BY DEF WinShortcuts
<1>4. Loaded(<<Legacy>>) = <<RightAlt>>
  BY <1>2, <1>3 DEF Loaded
<1>5. <<RightAlt>> \in ShortcutLists
  BY DEF ShortcutLists, WinShortcuts
<1> QED  BY <1>1, <1>4, <1>5

LEMMA ShorterLists ==
    ASSUME NEW l \in ShortcutLists, NEW i \in DOMAIN l
    PROVE  RemoveAt(l, i) \in ShortcutLists
<1>1. /\ SubSeq(l, 1, i - 1) \in Seq(WinShortcuts)
      /\ SubSeq(l, i + 1, Len(l)) \in Seq(WinShortcuts)
  BY DEF ShortcutLists
<1> QED  BY <1>1 DEF RemoveAt, ShortcutLists

-----------------------------------------------------------------------------
LEMMA InitLists == ShortcutsInit => ListsInv
<1> SUFFICES ASSUME ShortcutsInit PROVE ListsInv
  OBVIOUS
<1>1. shortcutRow \in ShortcutLists \cup {<<Legacy>>}
  <2>1. \A s, t \in WinShortcuts : <<s>> \in ShortcutLists /\ <<s, t>> \in ShortcutLists
    BY DEF ShortcutLists
  <2>2. <<>> \in ShortcutLists
    BY DEF ShortcutLists
  <2>3. Lists \subseteq ShortcutLists
    <3> SUFFICES ASSUME NEW l \in Lists PROVE l \in ShortcutLists
      OBVIOUS
    <3>1. CASE \E s, t \in WinShortcuts : l = <<s, t>>
      BY <2>1, <3>1
    <3>2. CASE \E s \in WinShortcuts : l = <<s>>
      BY <2>1, <3>2
    <3> QED  BY <2>2, <3>1, <3>2 DEF Lists
  <2> QED  BY <2>3 DEF ShortcutsInit
<1>2. current \in ShortcutLists
  BY <1>1, LoadedLists DEF ShortcutsInit
<1>3. ToSet(current) \subseteq WinShortcuts
  BY <1>2, ListsHoldShortcuts
<1>4. ChangeInv
  BY DEF ShortcutsInit, ChangeInv
<1> QED  BY <1>1, <1>2, <1>3, <1>4 DEF ShortcutsInit, ListsInv, Running

LEMMA PersistKeepsLists ==
    ASSUME ListsInv, Running, NEW next \in ShortcutLists, Persist(next), UNCHANGED outsideVars
    PROVE  ListsInv'
<1> USE DEF outsideVars, Running
<1>1. CASE updating
  BY <1>1 DEF Persist, listVars, ListsInv, ChangeInv
<1>2. CASE ~updating /\ Stages(next) /\ Submits(next)
  <2>1. /\ listed = active /\ current = active /\ registered = ToSet(active)
        /\ strayRow \/ Loaded(shortcutRow) = active
        /\ strayRow \in BOOLEAN /\ registered \cap taken = {}
        /\ taken \subseteq Combinations /\ active \in ShortcutLists
        /\ shortcutRow \in ShortcutLists \cup {<<Legacy>>}
    BY <1>2 DEF ListsInv, ChangeInv
  <2>2. PICK at \in {"queued", "refused"} :
          save' = [next |-> next, previous |-> current, at |-> at]
    BY <1>2 DEF Submits
  <2>3. /\ registered' = registered \cup ToSet(next) /\ active' = next /\ current' = next
        /\ staged' = [previous |-> active, next |-> next] /\ updating' = TRUE /\ listed' = next
    BY <1>2 DEF Submits, Stage
  <2>4. monitor' = "looks" /\ UNCHANGED <<shortcutRow, strayRow, taken>>
    BY <1>2 DEF Persist, GoesOn
  <2>5. registered' \cap taken = {}
    BY <1>2, <2>1, <2>3 DEF Stages
  <2>6. registered' \subseteq WinShortcuts
    BY <2>3, ListsHoldShortcuts DEF ListsInv
  <2>7. ChangeInv'
    BY <2>1, <2>2, <2>3, <2>4 DEF ChangeInv, SaveStages, Saves
  <2> QED  BY <2>1, <2>3, <2>4, <2>5, <2>6, <2>7 DEF ListsInv
<1>3. CASE ~updating /\ UNCHANGED <<current, active, registered, staged, listed, updating, save>>
  BY <1>3 DEF Persist, GoesOn, ListsInv, ChangeInv
<1> QED  BY <1>1, <1>2, <1>3 DEF Persist

LEMMA CompletionKeepsLists ==
    ASSUME ListsInv, CompleteSave
    PROVE  ListsInv'
<1> USE DEF outsideVars, Running
<1>1. updating
  BY DEF CompleteSave, ListsInv, ChangeInv, NoSave
<1>2. /\ save.previous \in ShortcutLists /\ save.next = active
      /\ staged.previous = save.previous /\ staged.next = active
      /\ listed = active /\ current = active
      /\ registered = ToSet(save.previous) \cup ToSet(active)
      /\ strayRow \/ Loaded(shortcutRow) = IF save.at = "saved" THEN active ELSE save.previous
      /\ strayRow \in BOOLEAN
      /\ shortcutRow \in ShortcutLists \cup {<<Legacy>>} /\ active \in ShortcutLists
      /\ registered \subseteq WinShortcuts /\ taken \subseteq Combinations
      /\ registered \cap taken = {}
  BY <1>1 DEF ListsInv, ChangeInv, Saves
<1>3. /\ monitor' = "looks" /\ updating' = FALSE /\ save' = NoSave /\ staged' = NoUpdate
      /\ UNCHANGED <<shortcutRow, strayRow, taken>>
  BY DEF CompleteSave, Finish, GoesOn
<1>4. LET kept == IF save.at = "saved" THEN active ELSE save.previous IN
      /\ registered' = ToSet(kept) /\ active' = kept /\ current' = kept /\ listed' = kept
  <2>1. CASE save.at = "saved"
    BY <1>2, <2>1 DEF CompleteSave, Finish
  <2>2. CASE save.at # "saved"
    BY <1>2, <2>2 DEF CompleteSave, Finish
  <2> QED  BY <2>1, <2>2
<1>5. registered' \subseteq registered
  BY <1>2, <1>4
<1>6. active' \in ShortcutLists /\ ChangeInv'
  BY <1>2, <1>3, <1>4 DEF ChangeInv
<1> QED  BY <1>2, <1>3, <1>4, <1>5, <1>6 DEF ListsInv

LEMMA ListsStep ==
    ASSUME ListsInv, CapturesInv, ShortcutsNext
    PROVE  ListsInv'
<1> USE DEF outsideVars, listVars, Running
<1>1. ASSUME UNCHANGED <<listVars, outsideVars>>, (monitor = "gone") = (monitor' = "gone"),
             monitor' \in {"waits", "looks", "gone"}
      PROVE  ListsInv'
  BY <1>1 DEF ListsInv, ChangeInv
<1>2. CASE Turn \/ Drain
  BY <1>1, <1>2 DEF Turn, GoesOn, Drain
<1>3. CASE KeyDown \/ KeyRepeats \/ KeyUp \/ BeginCapture \/ CaptureStarts \/ CaptureEnds
  <2>1. UNCHANGED <<listVars, outsideVars, monitor>>
    BY <1>3 DEF KeyDown, KeyRepeats, KeyUp, BeginCapture, CaptureStarts, CaptureEnds
  <2> QED  BY <1>1, <2>1 DEF ListsInv
<1>4. CASE RemoveShortcut
  <2>1. PICK i \in DOMAIN current : Persist(RemoveAt(current, i))
    BY <1>4 DEF RemoveShortcut
  <2>2. RemoveAt(current, i) \in ShortcutLists
    BY ShorterLists DEF ListsInv
  <2> QED  BY <1>4, <2>1, <2>2, PersistKeepsLists DEF RemoveShortcut, PageIdle
<1>5. CASE SaveShortcuts
  <2>1. updating
    BY <1>5 DEF SaveShortcuts, ListsInv, ChangeInv, NoSave
  <2>2. /\ save.next = active /\ save.previous \in ShortcutLists
        /\ staged = [previous |-> save.previous, next |-> active]
        /\ listed = active /\ current = active
        /\ registered = ToSet(save.previous) \cup ToSet(active)
        /\ strayRow \/ Loaded(shortcutRow) = save.previous
        /\ active \in ShortcutLists /\ strayRow \in BOOLEAN
    BY <1>5, <2>1 DEF SaveShortcuts, ListsInv, ChangeInv, Saves
  <2>3. Loaded(active) = active
    BY <2>2, LoadedLists
  <2>4. UNCHANGED <<current, active, registered, staged, listed, updating, taken, monitor>>
    BY <1>5 DEF SaveShortcuts
  <2>a. save \in Saves
    BY <2>1 DEF ListsInv, ChangeInv
  <2>b. ASSUME NEW at \in SaveStages, save' = [save EXCEPT !.at = at]
        PROVE  /\ save' \in Saves /\ save'.at = at
               /\ save'.previous = save.previous /\ save'.next = save.next
    BY <2>a, <2>b DEF Saves
  <2>5. CASE save' = [save EXCEPT !.at = "saved"] /\ shortcutRow' = save.next /\ ~strayRow'
                /\ strayRow' \in BOOLEAN
    <3>1. /\ save'.previous = save.previous /\ save'.next = save.next /\ save'.at = "saved"
          /\ save' \in Saves
      BY <2>5, <2>b DEF SaveStages
    <3>2. ChangeInv'
      BY <2>1, <2>2, <2>3, <2>4, <2>5, <3>1 DEF ChangeInv
    <3> QED  BY <2>1, <2>2, <2>4, <2>5, <3>2 DEF ListsInv
  <2>6. CASE /\ save' = [save EXCEPT !.at = "failed"]
             /\ \/ UNCHANGED <<shortcutRow, strayRow>>
                \/ shortcutRow' = save.next /\ strayRow' = TRUE
    <3>1. /\ save'.previous = save.previous /\ save'.next = save.next /\ save'.at = "failed"
          /\ save' \in Saves
      BY <2>6, <2>b DEF SaveStages
    <3>2. ChangeInv'
      BY <2>1, <2>2, <2>3, <2>4, <2>6, <3>1 DEF ChangeInv
    <3> QED  BY <2>1, <2>2, <2>4, <2>6, <3>2 DEF ListsInv
  <2>7. PICK told \in {"saved", "failed", "unreported"} :
          /\ save' = [save EXCEPT !.at = IF told = "saved" THEN "saved" ELSE "failed"]
          /\ shortcutRow' = IF told = "failed" THEN shortcutRow ELSE save.next
          /\ strayRow' = IF told = "failed" THEN strayRow ELSE told = "unreported"
    BY <1>5 DEF SaveShortcuts
  <2>8. CASE told = "saved"
    BY <2>5, <2>7, <2>8
  <2>9. CASE told = "failed"
    BY <2>6, <2>7, <2>9
  <2>10. CASE told = "unreported"
    BY <2>6, <2>7, <2>10
  <2> QED  BY <2>7, <2>8, <2>9, <2>10
<1>6. CASE CompleteSave
  BY <1>6, CompletionKeepsLists
<1>7. CASE ApplyCaptured
  <2>1. PICK c \in captures :
          /\ c.at \in WinShortcuts
          /\ \/ c.target = 0 /\ Persist(Append(current, c.at))
             \/ /\ c.target \in DOMAIN current
                /\ Persist([current EXCEPT ![c.target] = c.at])
             \/ UNCHANGED <<listVars, monitor, sawCapture, hookVars>>
    BY <1>7 DEF ApplyCaptured
  <2>2. /\ Append(current, c.at) \in ShortcutLists
        /\ c.target \in DOMAIN current =>
              [current EXCEPT ![c.target] = c.at] \in ShortcutLists
    BY <2>1 DEF ListsInv, ShortcutLists
  <2>3. CASE UNCHANGED <<listVars, monitor, sawCapture, hookVars>>
    BY <1>1, <1>7, <2>3 DEF ApplyCaptured, ListsInv
  <2> QED  BY <1>7, <2>1, <2>2, <2>3, PersistKeepsLists DEF ApplyCaptured, PageIdle
<1>8. CASE Switch
  <2>1. UNCHANGED <<listVars, monitor>>
    BY <1>8 DEF Switch
  <2>2. registered \cap taken' = {} /\ taken' \subseteq Combinations
    BY <1>8 DEF Switch, ListsInv
  <2> QED  BY <2>1, <2>2 DEF ListsInv, ChangeInv
<1>9. CASE QuitMonitor
  <2>1. <<>> \in ShortcutLists
    BY DEF ShortcutLists
  <2> QED  BY <1>9, <2>1 DEF QuitMonitor, ListsInv, ChangeInv
<1>10. CASE StartMonitor
  <2>1. ~updating /\ save = NoSave /\ staged = NoUpdate
    BY <1>10 DEF StartMonitor, ListsInv, ChangeInv
  <2>2. Loaded(shortcutRow) \in ShortcutLists
    BY LoadedLists DEF ListsInv
  <2>3. /\ ToSet(Loaded(shortcutRow)) \subseteq WinShortcuts
        /\ ToSet(Loaded(shortcutRow)) \cap taken = {}
    BY <1>10, <2>2, ListsHoldShortcuts DEF StartMonitor, Starts
  <2>4. /\ current' = Loaded(shortcutRow) /\ active' = current' /\ listed' = current'
        /\ registered' = ToSet(Loaded(shortcutRow)) /\ monitor' = "waits"
        /\ strayRow' = FALSE /\ UNCHANGED <<shortcutRow, staged, updating, save, taken>>
    BY <1>10 DEF StartMonitor
  <2>5. ChangeInv'
    BY <2>1, <2>4 DEF ChangeInv, NoSave
  <2> QED  BY <2>1, <2>2, <2>3, <2>4, <2>5 DEF ListsInv
<1> QED  BY <1>2, <1>3, <1>4, <1>5, <1>6, <1>7, <1>8, <1>9, <1>10 DEF ShortcutsNext

-----------------------------------------------------------------------------
(* The captures.                                                           *)

CaptureStages == {"begins", "samples", "ended"} \cup WinShortcuts

LEMMA SteppingKeepsCaptures ==
    ASSUME CapturesInv, NEW c \in captures, NEW at \in CaptureStages, Becomes(c, at),
           captureActive' \in BOOLEAN,
           at = "samples" => ~captureActive /\ captureActive',
           at # "samples" => \/ c.at # "samples" /\ captureActive' = captureActive
                             \/ c.at = "samples" /\ ~captureActive'
    PROVE  CapturesInv'
<1> DEFINE e == [c EXCEPT !.at = at]
<1>1. /\ e \in [target : Nat, at : CaptureStages, number : Nat] /\ e.at = at
      /\ captures' = (captures \ {c}) \cup {e}
  BY DEF CapturesInv, CaptureStages, Becomes
<1> HIDE DEF e
<1>2. captures' \subseteq [target : Nat, at : CaptureStages, number : Nat]
  BY <1>1 DEF CapturesInv, CaptureStages
<1>3. captureActive' = (\E d \in captures' : d.at = "samples")
  BY <1>1 DEF CapturesInv
<1>4. \A d, f \in captures' : d.at = "samples" /\ f.at = "samples" => d = f
  BY <1>1 DEF CapturesInv
<1>5. IsFiniteSet(captures')
  BY <1>1, FS_Subset, FS_AddElement DEF CapturesInv
<1> QED  BY <1>2, <1>3, <1>4, <1>5 DEF CapturesInv, CaptureStages

LEMMA CapturesStep ==
    ASSUME ListsInv, CapturesInv, ShortcutsNext
    PROVE  CapturesInv'
<1>1. CASE UNCHANGED <<captures, captureActive>>
  BY <1>1 DEF CapturesInv
<1>2. CASE BeginCapture
  <2>1. PICK target \in {0} \cup DOMAIN listed :
          captures' = captures \cup {[target |-> target, at |-> "begins",
                                      number |-> Cardinality(captures)]}
    BY <1>2 DEF BeginCapture
  <2> DEFINE e == [target |-> target, at |-> "begins", number |-> Cardinality(captures)]
  <2>2. target \in Nat
    BY DEF ListsInv, ShortcutLists
  <2>3. Cardinality(captures) \in Nat
    BY FS_CardinalityType DEF CapturesInv
  <2>4. e \in [target : Nat, at : CaptureStages, number : Nat] /\ e.at = "begins"
    BY <2>2, <2>3 DEF CaptureStages
  <2> HIDE DEF e
  <2>5. captures' = captures \cup {e} /\ UNCHANGED captureActive
    BY <1>2, <2>1 DEF BeginCapture, e
  <2>6. IsFiniteSet(captures')
    BY <2>5, FS_AddElement DEF CapturesInv
  <2> QED  BY <2>4, <2>5, <2>6 DEF CapturesInv, CaptureStages
<1>3. CASE CaptureStarts
  <2>1. PICK c \in captures :
          c.at = "begins" /\ Becomes(c, IF captureActive THEN "ended" ELSE "samples")
    BY <1>3 DEF CaptureStarts
  <2>2. captureActive' = TRUE /\ captureActive \in BOOLEAN
    BY <1>3 DEF CaptureStarts, CapturesInv
  <2>3. CASE captureActive
    BY <2>1, <2>2, <2>3, SteppingKeepsCaptures DEF CaptureStages
  <2>4. CASE ~captureActive
    BY <2>1, <2>2, <2>4, SteppingKeepsCaptures DEF CaptureStages
  <2> QED  BY <2>3, <2>4
<1>4. CASE CaptureEnds
  <2>1. PICK c \in captures :
          c.at = "samples" /\ \E at \in {"ended"} \cup WinShortcuts : Becomes(c, at)
    BY <1>4 DEF CaptureEnds
  <2>2. captureActive' = FALSE
    BY <1>4 DEF CaptureEnds
  <2> QED  BY <2>1, <2>2, SteppingKeepsCaptures DEF CaptureStages
<1>5. CASE ApplyCaptured
  <2>1. PICK c \in captures : c.at \in WinShortcuts /\ Becomes(c, "ended")
    BY <1>5 DEF ApplyCaptured
  <2>2. UNCHANGED captureActive /\ captureActive \in BOOLEAN
    BY <1>5 DEF ApplyCaptured, CapturesInv
  <2> QED  BY <2>1, <2>2, SteppingKeepsCaptures DEF CaptureStages
<1>6. CASE QuitMonitor
  BY <1>6, FS_EmptySet DEF QuitMonitor, CapturesInv
<1> QED
  BY <1>1, <1>2, <1>3, <1>4, <1>5, <1>6
     DEF ShortcutsNext, Turn, Drain, KeyDown, KeyRepeats, KeyUp, RemoveShortcut,
         SaveShortcuts, CompleteSave, Switch, StartMonitor

-----------------------------------------------------------------------------
(* The press of Right Alt.                                                 *)

(* The hook is told whether it may take the key; where that changes while  *)
(* the key is down, the press is no more one of the hook's mind.           *)
LEMMA TellingTheHook ==
    ASSUME PressInv, NEW list \in ShortcutLists, NEW capturing \in BOOLEAN,
           Enables(list, capturing),
           UNCHANGED <<shortcutsOn, altEvents, toggled, presses>>,
           pressActive' \in BOOLEAN, pressActive' => pressActive,
           altEnabled' /\ altEnabled => pressActive' = pressActive,
           active' = list, Running'
    PROVE  PressInv'
<1>1. altEnabled' \in BOOLEAN /\ (altEnabled' => RightAlt \in ToSet(active'))
  BY DEF Enables, PressInv
<1>2. press' = [press EXCEPT !.wavered = press.wavered \/ (press.down /\ altEnabled' # altEnabled)]
  BY DEF Enables
<1>3. /\ press' \in Strokes /\ press'.down = press.down /\ press'.seen = press.seen
      /\ press'.told = press.told
      /\ press'.wavered = (press.wavered \/ (press.down /\ altEnabled' # altEnabled))
  BY <1>1, <1>2 DEF PressInv, Strokes
<1>4. press'.down /\ ~press'.wavered =>
          /\ pressActive' = altEnabled'
          /\ press'.seen = IF altEnabled' THEN {} ELSE {"down"}
  BY <1>1, <1>3 DEF PressInv
<1>5. pressActive' => press'.down
  BY <1>3 DEF PressInv
<1> QED  BY <1>1, <1>3, <1>4, <1>5 DEF PressInv

LEMMA PersistKeepsPress ==
    ASSUME ListsInv, CapturesInv, PressInv, Running, NEW next \in ShortcutLists,
           Persist(next), UNCHANGED <<outsideVars, captureActive>>, ListsInv'
    PROVE  PressInv'
<1> USE DEF outsideVars
<1>1. CASE updating
  BY <1>1 DEF Persist, listVars, hookVars, PressInv, Running
<1>2. CASE ~updating
  <2>1. /\ GoesOn(active') /\ pressActive' = (pressActive /\ RightAlt \in registered')
        /\ UNCHANGED <<altEvents, toggled, presses>>
    BY <1>2 DEF Persist
  <2>2. active' \in ShortcutLists /\ captureActive \in BOOLEAN
    BY DEF ListsInv, CapturesInv
  <2>3. Enables(active', captureActive) /\ Running'
    BY <2>1 DEF GoesOn, Running
  <2>4. ToSet(active') \subseteq registered'
    BY <2>3 DEF ListsInv, ChangeInv
  <2>5. altEnabled' => RightAlt \in registered'
    BY <2>3, <2>4 DEF Enables
  <2>6. /\ pressActive' \in BOOLEAN /\ (pressActive' => pressActive)
        /\ altEnabled' /\ altEnabled => pressActive' = pressActive
    BY <2>1, <2>5 DEF PressInv
  <2> QED  BY <2>1, <2>2, <2>3, <2>6, TellingTheHook
<1> QED  BY <1>1, <1>2

LEMMA PressStep ==
    ASSUME ListsInv, CapturesInv, PressInv, ShortcutsNext, ListsInv'
    PROVE  PressInv'
<1> USE DEF outsideVars, listVars, hookVars
<1>1. CASE Turn
  <2>1. /\ Enables(active, captureActive) /\ Running' /\ active' = active
        /\ UNCHANGED <<shortcutsOn, altEvents, toggled, presses, pressActive>>
    BY <1>1 DEF Turn, GoesOn, Running
  <2>2. active \in ShortcutLists /\ captureActive \in BOOLEAN /\ pressActive' \in BOOLEAN
    BY <2>1 DEF ListsInv, CapturesInv, PressInv
  <2> QED  BY <2>1, <2>2, TellingTheHook
<1>2. CASE Drain
  <2>1. /\ altEvents' = 0 /\ toggled' \in {toggled, toggled + altEvents}
        /\ UNCHANGED <<press, altEnabled, pressActive, presses, shortcutsOn, active>>
        /\ Running /\ Running'
    BY <1>2 DEF Drain, Running
  <2>2. /\ toggled \in Nat /\ altEvents \in Nat /\ presses \in Nat
        /\ toggled + altEvents + (IF press.down THEN 1 ELSE 0) <= presses
    BY DEF PressInv
  <2>3. /\ toggled' \in Nat
        /\ toggled' + altEvents' + (IF press.down THEN 1 ELSE 0) <= presses
    <3>1. CASE toggled' = toggled
      BY <2>1, <2>2, <3>1
    <3>2. CASE toggled' = toggled + altEvents
      BY <2>1, <2>2, <3>2
    <3> QED  BY <2>1, <3>1, <3>2
  <2> QED  BY <2>1, <2>3 DEF PressInv
<1>3. ASSUME UNCHANGED <<monitor, active, registered, shortcutsOn, altEnabled, toggled>>,
             press' \in Strokes, pressActive' \in BOOLEAN, altEvents' \in Nat, presses' \in Nat,
             pressActive' => press'.down,
             press'.down /\ ~press'.wavered =>
                 /\ pressActive' = altEnabled
                 /\ press'.seen = IF altEnabled THEN {} ELSE {"down"},
             ~press'.down /\ ~press'.wavered =>
                 /\ press'.told = (press'.seen = {})
                 /\ press'.seen \in {{}, {"down", "up"}},
             toggled + altEvents' + (IF press'.down THEN 1 ELSE 0) <= presses'
      PROVE  PressInv'
  BY <1>3 DEF PressInv, Running
<1>4. altEnabled => Hooked
  BY DEF PressInv, ListsInv, ChangeInv, Hooked
<1>5. CASE KeyDown
  <2> DEFINE takes == Hooked /\ altEnabled
  <2>1. /\ ~press.down /\ presses' = presses + 1 /\ UNCHANGED altEvents
        /\ pressActive' = (takes \/ pressActive)
        /\ press' = [NoPress EXCEPT !.down = TRUE, !.seen = IF takes THEN {} ELSE {"down"}]
        /\ UNCHANGED <<monitor, active, registered, shortcutsOn, altEnabled, toggled>>
    BY <1>5 DEF KeyDown
  <2>2. takes = altEnabled /\ pressActive = FALSE /\ altEnabled \in BOOLEAN
    BY <1>4, <2>1 DEF PressInv
  <2>3. pressActive' = altEnabled /\ pressActive' \in BOOLEAN
    BY <2>1, <2>2
  <2>4. /\ press' \in Strokes /\ press'.down /\ press'.down \in BOOLEAN
        /\ press'.seen = IF altEnabled THEN {} ELSE {"down"}
    BY <2>1, <2>2 DEF Strokes, NoPress
  <2>5. toggled + altEvents' + 1 <= presses' /\ presses' \in Nat /\ altEvents' \in Nat
    BY <2>1 DEF PressInv
  <2> HIDE DEF takes
  <2> QED  BY <1>3, <2>1, <2>3, <2>4, <2>5
<1>6. CASE KeyRepeats
  <2> DEFINE takes == Hooked /\ altEnabled
  <2>1. /\ press.down /\ UNCHANGED <<altEvents, presses>>
        /\ pressActive' = (takes \/ pressActive)
        /\ press' = [press EXCEPT !.seen = IF takes THEN @ ELSE @ \cup {"down"}]
        /\ UNCHANGED <<monitor, active, registered, shortcutsOn, altEnabled, toggled>>
    BY <1>6 DEF KeyRepeats
  <2>2. takes = altEnabled /\ altEnabled \in BOOLEAN /\ pressActive \in BOOLEAN
    BY <1>4, <2>1 DEF PressInv
  <2>3. /\ press' \in Strokes /\ press'.down /\ press'.wavered = press.wavered
        /\ press'.seen = IF altEnabled THEN press.seen ELSE press.seen \cup {"down"}
    BY <2>1, <2>2 DEF PressInv, Strokes
  <2>4. pressActive' \in BOOLEAN /\ (~press.wavered => pressActive' = altEnabled)
    BY <2>1, <2>2 DEF PressInv
  <2>5. toggled + altEvents' + 1 <= presses' /\ presses' \in Nat /\ altEvents' \in Nat
    BY <2>1 DEF PressInv
  <2>6. ~press.wavered => press'.seen = IF altEnabled THEN {} ELSE {"down"}
    <3>1. ~press.wavered => press.seen = IF altEnabled THEN {} ELSE {"down"}
      BY <2>1 DEF PressInv
    <3> QED  BY <2>3, <3>1
  <2> HIDE DEF takes
  <2> QED  BY <1>3, <2>1, <2>3, <2>4, <2>5, <2>6
<1>7. CASE KeyUp
  <2> DEFINE takes == Hooked /\ pressActive
  <2>1. /\ press.down /\ UNCHANGED presses /\ pressActive' = FALSE
        /\ altEvents' = IF takes THEN altEvents + 1 ELSE altEvents
        /\ press' = [press EXCEPT !.down = FALSE, !.told = takes,
                                  !.seen = IF takes THEN @ ELSE @ \cup {"up"}]
        /\ UNCHANGED <<monitor, active, registered, shortcutsOn, altEnabled, toggled>>
    BY <1>7 DEF KeyUp
  <2>2. altEnabled \in BOOLEAN /\ pressActive \in BOOLEAN /\ takes \in BOOLEAN
    BY DEF PressInv, Hooked
  <2>3. /\ press' \in Strokes /\ ~press'.down /\ press'.wavered = press.wavered
        /\ press'.told = takes
        /\ press'.seen = IF takes THEN press.seen ELSE press.seen \cup {"up"}
    BY <2>1, <2>2 DEF PressInv, Strokes
  <2>4. ~press.wavered => /\ takes = altEnabled
                          /\ press.seen = IF altEnabled THEN {} ELSE {"down"}
    BY <1>4, <2>1 DEF PressInv
  <2>5. ~press.wavered => /\ press'.told = (press'.seen = {})
                          /\ press'.seen \in {{}, {"down", "up"}}
    BY <2>2, <2>3, <2>4
  <2>6. altEvents' \in {altEvents, altEvents + 1}
    BY <2>1
  <2> HIDE DEF takes
  <2>7. toggled + altEvents' + 0 <= presses' /\ presses' \in Nat /\ altEvents' \in Nat
    BY <2>1, <2>6 DEF PressInv
  <2> QED  BY <1>3, <2>1, <2>3, <2>5, <2>7
<1>8. CASE RemoveShortcut
  <2>1. PICK i \in DOMAIN current : Persist(RemoveAt(current, i))
    BY <1>8 DEF RemoveShortcut
  <2>2. RemoveAt(current, i) \in ShortcutLists
    BY ShorterLists DEF ListsInv
  <2> QED  BY <1>8, <2>1, <2>2, PersistKeepsPress DEF RemoveShortcut, PageIdle
<1>9. CASE CompleteSave
  <2>1. /\ GoesOn(active') /\ pressActive' = (pressActive /\ RightAlt \in registered')
        /\ UNCHANGED <<altEvents, toggled, presses, outsideVars, captureActive>>
    BY <1>9 DEF CompleteSave
  <2>2. active' \in ShortcutLists /\ captureActive \in BOOLEAN
    BY DEF ListsInv, CapturesInv
  <2>3. Enables(active', captureActive) /\ Running'
    BY <2>1 DEF GoesOn, Running
  <2>4. ToSet(active') \subseteq registered'
    BY <2>3 DEF ListsInv, ChangeInv
  <2>5. altEnabled' => RightAlt \in registered'
    BY <2>3, <2>4 DEF Enables
  <2>6. /\ pressActive' \in BOOLEAN /\ (pressActive' => pressActive)
        /\ altEnabled' /\ altEnabled => pressActive' = pressActive
    BY <2>1, <2>5 DEF PressInv
  <2> QED  BY <2>1, <2>2, <2>3, <2>6, TellingTheHook
<1>10. CASE ApplyCaptured
  <2>1. PICK c \in captures :
          /\ c.at \in WinShortcuts
          /\ \/ c.target = 0 /\ Persist(Append(current, c.at))
             \/ /\ c.target \in DOMAIN current
                /\ Persist([current EXCEPT ![c.target] = c.at])
             \/ UNCHANGED <<listVars, monitor, sawCapture, hookVars>>
    BY <1>10 DEF ApplyCaptured
  <2>2. /\ Append(current, c.at) \in ShortcutLists
        /\ c.target \in DOMAIN current =>
              [current EXCEPT ![c.target] = c.at] \in ShortcutLists
    BY <2>1 DEF ListsInv, ShortcutLists
  <2>3. UNCHANGED <<outsideVars, captureActive>> /\ Running
    BY <1>10 DEF ApplyCaptured, PageIdle
  <2>4. CASE UNCHANGED <<listVars, monitor, sawCapture, hookVars>>
    BY <2>3, <2>4 DEF PressInv, Running
  <2> QED  BY <2>1, <2>2, <2>3, <2>4, PersistKeepsPress
<1>11. CASE QuitMonitor
  <2>1. /\ press' = [press EXCEPT !.wavered = TRUE] /\ altEnabled' = FALSE
        /\ pressActive' = FALSE /\ altEvents' = 0
        /\ UNCHANGED <<shortcutsOn, toggled, presses>>
    BY <1>11 DEF QuitMonitor
  <2>2. press \in Strokes
    BY DEF PressInv
  <2>3. press' \in Strokes /\ press'.wavered /\ press'.down = press.down
    BY <2>1, <2>2 DEF Strokes
  <2>4. toggled + 0 + (IF press.down THEN 1 ELSE 0) <= presses
    BY DEF PressInv
  <2> QED  BY <2>1, <2>3, <2>4 DEF PressInv
<1>12. CASE StartMonitor
  <2>1. /\ Enables(current', FALSE) /\ Running' /\ active' = current'
        /\ UNCHANGED <<shortcutsOn, altEvents, toggled, presses, pressActive>>
    BY <1>12 DEF StartMonitor, Running
  <2>2. current' \in ShortcutLists /\ pressActive' \in BOOLEAN
    BY <2>1 DEF ListsInv, PressInv
  <2> QED  BY <2>1, <2>2, TellingTheHook
<1>13. CASE SaveShortcuts \/ BeginCapture \/ CaptureStarts \/ CaptureEnds
  <2>1. UNCHANGED <<hookVars, active, registered, monitor, shortcutsOn>>
    BY <1>13 DEF SaveShortcuts, BeginCapture, CaptureStarts, CaptureEnds
  <2> QED  BY <2>1 DEF PressInv, Running
<1>14. CASE Switch
  <2>1. UNCHANGED <<hookVars, listVars, monitor>> /\ shortcutsOn' \in BOOLEAN
    BY <1>14 DEF Switch, PressInv
  <2> QED  BY <2>1 DEF PressInv, Running
<1> QED  BY <1>1, <1>2, <1>5, <1>6, <1>7, <1>8, <1>9, <1>10, <1>11, <1>12, <1>13, <1>14
         DEF ShortcutsNext

-----------------------------------------------------------------------------
LEMMA ShortcutsAlways == ShortcutsSpec => []ShortcutsInv
<1>1. ShortcutsInit => ShortcutsInv
  <2> SUFFICES ASSUME ShortcutsInit PROVE ShortcutsInv
    OBVIOUS
  <2>1. ListsInv
    BY InitLists
  <2>2. CapturesInv
    BY FS_EmptySet DEF ShortcutsInit, CapturesInv
  <2>3. active \in ShortcutLists /\ Running /\ presses = 0 /\ press = NoPress
        /\ altEnabled \in BOOLEAN /\ (altEnabled => RightAlt \in ToSet(active))
    BY <2>1 DEF ShortcutsInit, ListsInv, Running
  <2>4. press \in Strokes /\ ~press.down
    BY <2>3 DEF Strokes, NoPress
  <2>5. /\ shortcutsOn \in BOOLEAN /\ pressActive = FALSE /\ altEvents = 0 /\ toggled = 0
    BY DEF ShortcutsInit
  <2>6. PressInv
    <3>1. /\ altEvents \in Nat /\ toggled \in Nat /\ presses \in Nat /\ ~(presses > 0)
          /\ toggled + altEvents + (IF press.down THEN 1 ELSE 0) <= presses
      BY <2>3, <2>4, <2>5
    <3>2. pressActive \in BOOLEAN /\ ~pressActive
      BY <2>5
    <3> QED  BY <2>3, <2>4, <2>5, <3>1, <3>2, Zenon DEF PressInv
  <2> QED  BY <2>1, <2>2, <2>6 DEF ShortcutsInv
<1>2. ShortcutsInv /\ [ShortcutsNext]_shortcutVars => ShortcutsInv'
  <2> SUFFICES ASSUME ShortcutsInv, [ShortcutsNext]_shortcutVars PROVE ShortcutsInv'
    OBVIOUS
  <2>1. CASE ShortcutsNext
    BY <2>1, ListsStep, CapturesStep, PressStep DEF ShortcutsInv
  <2>2. CASE UNCHANGED shortcutVars
    BY <2>2 DEF shortcutVars, ShortcutsInv, ListsInv, ChangeInv, CapturesInv, PressInv, Running
  <2> QED  BY <2>1, <2>2
<1> QED  BY <1>1, <1>2, PTL DEF ShortcutsSpec

(* ShortcutsTypeOK in every behaviour: the monitor holds no shortcut that  *)
(* another program holds, a change is staged only while the page has one   *)
(* under way, and the controller knows whether a capture samples.          *)
(* (crates/infra/src/windows_shortcut_registry.rs)                         *)
THEOREM ShortcutsTypeCorrect == ShortcutsSpec => []ShortcutsTypeOK
<1>1. ShortcutsInv => ShortcutsTypeOK
  BY DEF ShortcutsInv, ListsInv, ChangeInv, CapturesInv, PressInv, ShortcutsTypeOK
<1> QED  BY <1>1, ShortcutsAlways, PTL

(* The page's list, the monitor's, what Windows holds and the list of the  *)
(* next start are one list whenever no change is under way, and while one  *)
(* is what it takes away is still held: for any number of changes, of      *)
(* failed saves, of captures and of restarts.  Only a save that is stored  *)
(* and told as failed parts the next start's list from the others.         *)
(* (docs/architecture.md:273-278)                                          *)
THEOREM ShortcutsAlwaysAgree == ShortcutsSpec => []ShortcutsAgree
<1>1. ShortcutsInv => ShortcutsAgree
  BY DEF ShortcutsInv, ListsInv, ChangeInv, ShortcutsAgree
<1> QED  BY <1>1, ShortcutsAlways, PTL

(* A press of Right Alt is the hook's or the foreground program's, as a    *)
(* whole, and there are never more toggles than presses: for any number of *)
(* presses, whatever the page, the pause, a capture and the end of the     *)
(* process do between two of its halves.  (docs/architecture.md:269-273)   *)
THEOREM PressesAreWhole == ShortcutsSpec => []PressIsWhole
<1>1. ShortcutsInv => PressIsWhole
  BY DEF ShortcutsInv, PressInv, PressIsWhole
<1> QED  BY <1>1, ShortcutsAlways, PTL

(***************************************************************************)
(* The shortcuts of macOS.                                                 *)
(***************************************************************************)
HIDE WindowsShortcutsAssumption

-----------------------------------------------------------------------------
MacStrokes == [through : SUBSET {"down", "up"}, acts : {0, 1}, keyed : BOOLEAN,
               wavered : BOOLEAN]

(* A capture under way has no answer yet.                                  *)
KeysInv ==
    /\ bindings \subseteq MacShortcuts
    /\ captured \in MacShortcuts \cup {"refused", "cancelled", NoKeys}
    /\ slot \in BOOLEAN /\ (slot => captured = NoKeys)
    /\ dictates \in BOOLEAN /\ records \in BOOLEAN /\ tap \in BOOLEAN
    /\ down \subseteq Modifiers /\ usedInChord \subseteq Modifiers /\ suppressed \subseteq {Fn}
    /\ held \subseteq Modifiers \cup Keys
    /\ localDown \subseteq Modifiers
    /\ order \in Seq(Modifiers) /\ IsInjective(order)
    /\ tapSends \in {"nothing", "cancel", "toggle"}

(* The tap begins with nothing remembered, and what the polling remembered *)
(* goes with it.                                                           *)
FreshInv ==
    /\ ~tap => down = {} /\ usedInChord = {} /\ suppressed = {}
    /\ tap => previouslyDown = {}

(* A modifier that acted is up, and no sample remembers it as down; one    *)
(* that a key was pressed with is marked for as long as it is down.        *)
StrokesInv ==
    /\ stroke \in [Modifiers -> MacStrokes]
    /\ \A m \in Modifiers :
          /\ stroke[m].acts = 1 => m \notin held /\ m \notin previouslyDown
          /\ stroke[m].keyed => /\ tap /\ stroke[m].acts = 0
                                /\ m \in held /\ m \in down => m \in usedInChord
          /\ ~tap => stroke[m].through = {}

(* An Fn that is down is taken, and then a chord or the reason for it is   *)
(* there until it is up; or its first half went through, and there is no   *)
(* reason to take the second.                                              *)
FnIsTaken == /\ Fn \in suppressed /\ Fn \in down /\ stroke[Fn].through = {}
             /\ ReservesFn \/ Fn \in usedInChord
FnGoesThrough == /\ Fn \notin suppressed /\ stroke[Fn].through = {"down"} /\ ~ReservesFn
FnInv ==
    tap /\ ~stroke[Fn].wavered =>
        IF Fn \in held THEN FnIsTaken \/ FnGoesThrough
        ELSE /\ stroke[Fn].through \in {{}, {"down", "up"}}
             /\ stroke[Fn].acts = 1 => stroke[Fn].through = {}

MacInv == KeysInv /\ FreshInv /\ StrokesInv /\ FnInv

-----------------------------------------------------------------------------
LEMMA KeysAreApart ==
    /\ Modifiers \cap Keys = {} /\ Fn \notin {RightCommand, LeftCommand}
    /\ Chord \notin Modifiers
<1> DEFINE all == <<Fn, RightCommand, LeftCommand, Letter, Escape, Chord, NoKeys>>
<1>1. \A i, j \in 1..7 : all[i] = all[j] => i = j
  BY MacShortcutsAssumption DEF IsInjective
<1>2. /\ Fn # RightCommand /\ Fn # LeftCommand /\ Fn # Letter /\ Fn # Escape /\ Fn # Chord
      /\ RightCommand # Letter /\ RightCommand # Escape /\ RightCommand # Chord
      /\ LeftCommand # Letter /\ LeftCommand # Escape /\ LeftCommand # Chord
  BY <1>1
<1> QED  BY <1>2 DEF Modifiers, Keys

LEMMA PhysicalShortcuts ==
    ASSUME NEW k, NEW keys
    PROVE  Physical(k, keys) \in MacShortcuts \cup {"refused", "cancelled", NoKeys}
BY DEF Physical, MacShortcuts

LEMMA ModifiersAreFinite == \A S \in SUBSET Modifiers : IsFiniteSet(S)
<1>1. IsFiniteSet({} \cup {Fn}) /\ IsFiniteSet(({} \cup {Fn}) \cup {RightCommand})
  BY FS_EmptySet, FS_AddElement
<1>2. IsFiniteSet((({} \cup {Fn}) \cup {RightCommand}) \cup {LeftCommand})
  BY <1>1, FS_AddElement
<1>3. Modifiers = (({} \cup {Fn}) \cup {RightCommand}) \cup {LeftCommand}
  BY DEF Modifiers
<1> QED  BY <1>2, <1>3, FS_Subset

(* Modifiers that are new to an order, each once, are appended to it.      *)
LEMMA AppendedInjective ==
    ASSUME NEW s \in Seq(Modifiers), IsInjective(s), NEW S,
           S \subseteq Modifiers \ ToSet(s),
           NEW t \in SetToSeqs(S)
    PROVE  s \o t \in Seq(Modifiers) /\ IsInjective(s \o t)
<1>1. Cardinality(S) \in Nat
  BY ModifiersAreFinite, FS_CardinalityType
<1>2. PICK n \in Nat : /\ t \in [1..n -> S]
                       /\ \A i, j \in 1..n : i # j => t[i] # t[j]
  BY <1>1 DEF SetToSeqs
<1>3. t \in Seq(Modifiers) /\ Len(t) = n
  BY <1>2
<1>4. /\ s \o t \in Seq(Modifiers) /\ DOMAIN (s \o t) = 1..(Len(s) + n) /\ Len(s) \in Nat
      /\ DOMAIN s = 1..Len(s)
      /\ \A i \in 1..Len(s) : (s \o t)[i] = s[i]
      /\ \A i \in (Len(s) + 1)..(Len(s) + n) : (s \o t)[i] = t[i - Len(s)]
  BY <1>3
<1> DEFINE u == s \o t
<1> HIDE DEF u
<1>5. ASSUME NEW i \in 1..Len(s), NEW j \in (Len(s) + 1)..(Len(s) + n)
      PROVE  u[i] # u[j]
  <2>1. u[i] \in ToSet(s)
    BY <1>4 DEF ToSet, u
  <2>2. j - Len(s) \in 1..n /\ u[j] \in S
    BY <1>2, <1>4 DEF u
  <2> QED  BY <2>1, <2>2
<1>6. ASSUME NEW i \in DOMAIN u, NEW j \in DOMAIN u, u[i] = u[j]
      PROVE  i = j
  <2>1. CASE i \in 1..Len(s) /\ j \in 1..Len(s)
    BY <1>4, <1>6, <2>1 DEF IsInjective, u
  <2>2. CASE i \in (Len(s) + 1)..(Len(s) + n) /\ j \in (Len(s) + 1)..(Len(s) + n)
    <3>1. i - Len(s) \in 1..n /\ j - Len(s) \in 1..n
      BY <1>4, <2>2
    <3>2. t[i - Len(s)] = t[j - Len(s)]
      BY <1>4, <1>6, <2>2 DEF u
    <3>3. i - Len(s) = j - Len(s)
      BY <1>2, <3>1, <3>2
    <3> QED  BY <1>4, <2>2, <3>3
  <2>3. i \in 1..(Len(s) + n) /\ j \in 1..(Len(s) + n)
    BY <1>4 DEF u
  <2> QED  BY <1>4, <1>5, <1>6, <2>1, <2>2, <2>3
<1> QED  BY <1>4, <1>6 DEF IsInjective, u

(* A capture is answered once, by one of what the page understands.        *)
MacAnswers == MacShortcuts \cup {"refused", "cancelled", NoKeys}
CaptureAnswered == NoCapture \/ (slot /\ \E what \in MacAnswers : AnswerCapture(what))

LEMMA ModifierEvent ==
    ASSUME KeysInv, NEW m \in Modifiers,
           ModifierGoesDown(m) \/ ReleaseLooksDown(m) \/ ModifierGoesUp(m)
    PROVE  /\ down' \subseteq Modifiers /\ usedInChord' \subseteq Modifiers
           /\ suppressed' \subseteq {Fn} /\ CaptureAnswered
<1>1. m \in MacAnswers
  BY DEF MacAnswers, MacShortcuts
<1>2. CASE ModifierGoesDown(m)
  BY <1>2 DEF ModifierGoesDown, KeysInv, CaptureAnswered
<1>3. CASE ReleaseLooksDown(m)
  BY <1>3 DEF ReleaseLooksDown, KeysInv, CaptureAnswered
<1>4. CASE ModifierGoesUp(m)
  BY <1>1, <1>4 DEF ModifierGoesUp, KeysInv, CaptureAnswered
<1> QED  BY <1>2, <1>3, <1>4

LEMMA KeysStep ==
    ASSUME KeysInv, MacNext
    PROVE  KeysInv'
<1> USE DEF tapVars, pollVars, pageVars
<1>1. ASSUME CaptureAnswered, UNCHANGED <<bindings, dictates, records>>,
             tap' \in BOOLEAN, down' \subseteq Modifiers, usedInChord' \subseteq Modifiers,
             suppressed' \subseteq {Fn}, held' \subseteq Modifiers \cup Keys,
             localDown' \subseteq Modifiers, order' \in Seq(Modifiers), IsInjective(order'),
             tapSends' \in {"nothing", "cancel", "toggle"}
      PROVE  KeysInv'
  <2>1. captured' \in MacAnswers /\ slot' \in BOOLEAN /\ (slot' => captured' = NoKeys)
    <3>1. captured \in MacAnswers /\ slot \in BOOLEAN /\ (slot => captured = NoKeys)
      BY DEF KeysInv, MacAnswers
    <3>2. CASE NoCapture
      BY <3>1, <3>2 DEF NoCapture
    <3>3. ASSUME NEW what \in MacAnswers, AnswerCapture(what)
          PROVE  captured' \in MacAnswers /\ slot' = FALSE
      BY <3>3 DEF AnswerCapture
    <3> QED  BY <1>1, <3>1, <3>2, <3>3 DEF CaptureAnswered
  <2> QED  BY <1>1, <2>1 DEF KeysInv, MacAnswers
<1>2. \A k, keys : Physical(k, keys) \in MacAnswers /\ "cancelled" \in MacAnswers
  BY PhysicalShortcuts DEF MacAnswers
<1>3. IsInjective(<<>>) /\ <<>> \in Seq(Modifiers)
  BY DEF IsInjective
<1>4. CASE TapModifier
  <2>1. PICK m \in Modifiers :
          /\ ModifierGoesDown(m) \/ ReleaseLooksDown(m) \/ ModifierGoesUp(m)
          /\ held' = Flips(held, m)
    BY <1>4 DEF TapModifier
  <2>2. held' \subseteq Modifiers \cup Keys
    BY <2>1 DEF Flips, KeysInv
  <2>3. UNCHANGED <<tapSends, bindings, dictates, records, tap, order, localDown>>
    BY <1>4 DEF TapModifier
  <2> QED  BY <1>1, <2>1, <2>2, <2>3, ModifierEvent DEF KeysInv
<1>5. CASE TapKey
  <2>1. PICK k \in Keys \ held :
          /\ held' = held \cup {k} /\ tapSends' = Sends(k)
          /\ IF slot
             THEN AnswerCapture(IF k = Escape THEN "cancelled" ELSE Physical(k, held))
             ELSE NoCapture
    BY <1>5 DEF TapKey
  <2>2. CaptureAnswered
    BY <1>2, <2>1 DEF CaptureAnswered
  <2>3. Sends(k) \in {"nothing", "cancel", "toggle"}
    BY DEF Sends
  <2>4. /\ UNCHANGED <<bindings, dictates, records, tap, order, localDown, down, suppressed>>
        /\ usedInChord' = usedInChord \cup down
    BY <1>5 DEF TapKey, MarkUsed
  <2>5. held' \subseteq Modifiers \cup Keys /\ usedInChord' \subseteq Modifiers
    BY <2>1, <2>4 DEF KeysInv
  <2> QED  BY <1>1, <2>1, <2>2, <2>3, <2>4, <2>5 DEF KeysInv
<1>6. CASE TapRepeats \/ TapKeyUp
  BY <1>6 DEF TapRepeats, TapKeyUp, MarkUsed, KeysInv
<1>7. CASE FreeKey
  <2>1. PICK k \in Modifiers \cup Keys :
          /\ held' = Flips(held, k)
          /\ WindowEvent(k, held') \/ UNCHANGED <<localDown, slot, captured>>
    BY <1>7 DEF FreeKey
  <2>2. held' \subseteq Modifiers \cup Keys
    BY <2>1 DEF Flips, KeysInv
  <2>3. WindowEvent(k, held') => CaptureAnswered /\ localDown' \subseteq Modifiers
    <3> SUFFICES ASSUME WindowEvent(k, held') PROVE CaptureAnswered /\ localDown' \subseteq Modifiers
      OBVIOUS
    <3>1. k \in Modifiers => k \in MacAnswers
      BY DEF MacAnswers, MacShortcuts
    <3>2. CASE ~slot
      BY <3>2 DEF WindowEvent, CaptureAnswered
    <3>3. CASE slot
      <4>1. \/ localDown' = {} /\ (\E what \in MacAnswers : AnswerCapture(what))
            \/ k \in Modifiers /\ localDown' = localDown \cup {k} /\ NoCapture
            \/ UNCHANGED localDown /\ NoCapture
        BY <1>2, <3>1, <3>3 DEF WindowEvent
      <4> QED  BY <3>3, <4>1 DEF CaptureAnswered, KeysInv
    <3> QED  BY <3>2, <3>3
  <2>4. CaptureAnswered /\ localDown' \subseteq Modifiers
    BY <2>1, <2>3 DEF CaptureAnswered, NoCapture, KeysInv
  <2>5. UNCHANGED <<tapSends, bindings, dictates, records, tap, tapVars, order>>
    BY <1>7 DEF FreeKey
  <2> QED  BY <1>1, <2>2, <2>4, <2>5 DEF KeysInv
<1>8. CASE Sample
  BY <1>3, <1>8 DEF Sample, KeysInv
<1>9. CASE SampleCapture
  <2>1. UNCHANGED <<tapSends, bindings, dictates, records, tap, tapVars, localDown, held>>
    BY <1>9 DEF SampleCapture
  <2>2. CASE ~armed
    BY <1>1, <1>9, <2>1, <2>2 DEF SampleCapture, CaptureAnswered, KeysInv
  <2>3. CASE armed
    <3>1. order' \in Seq(Modifiers) /\ IsInjective(order')
      <4>1. PICK pressed \in SetToSeqs((Modifiers \cap held)
                                       \ (capturePrevious \cup ToSet(order))) :
              order' = order \o pressed
        BY <1>9, <2>3 DEF SampleCapture
      <4> QED  BY <4>1, AppendedInjective DEF KeysInv
    <3>2. CaptureAnswered
      <4>1. \A i \in DOMAIN order' : order'[i] \in MacAnswers
        BY <3>1 DEF MacAnswers, MacShortcuts
      <4>2. slot /\ \/ NoCapture \/ \E what \in MacAnswers : AnswerCapture(what)
        BY <1>2, <1>9, <2>3, <4>1 DEF SampleCapture
      <4> QED  BY <4>2 DEF CaptureAnswered
    <3> QED  BY <1>1, <2>1, <3>1, <3>2 DEF KeysInv
  <2> QED  BY <2>2, <2>3
<1>10. CASE StartTap
  BY <1>3, <1>10 DEF StartTap, KeysInv
<1>11. CASE BeginMacCapture
  BY <1>11 DEF BeginMacCapture, KeysInv
<1>12. CASE ApplyMacCapture
  <2>1. bindings' \subseteq MacShortcuts
    BY <1>12 DEF ApplyMacCapture, KeysInv
  <2> QED  BY <1>12, <2>1 DEF ApplyMacCapture, KeysInv
<1>13. CASE Configure
  BY <1>13 DEF Configure, KeysInv
<1> QED
  BY <1>4, <1>5, <1>6, <1>7, <1>8, <1>9, <1>10, <1>11, <1>12, <1>13 DEF MacNext

LEMMA FreshStep ==
    ASSUME FreshInv, MacNext
    PROVE  FreshInv'
<1> USE DEF tapVars, pollVars, pageVars, FreshInv
<1>1. CASE TapModifier \/ TapKey \/ TapRepeats \/ TapKeyUp
  BY <1>1 DEF TapModifier, TapKey, TapRepeats, TapKeyUp
<1>2. CASE FreeKey \/ Sample \/ SampleCapture \/ StartTap
  BY <1>2 DEF FreeKey, Sample, SampleCapture, StartTap
<1>3. CASE BeginMacCapture \/ ApplyMacCapture \/ Configure
  BY <1>3 DEF BeginMacCapture, ApplyMacCapture, Configure
<1> QED  BY <1>1, <1>2, <1>3 DEF MacNext

-----------------------------------------------------------------------------
(* The press of a modifier.                                                *)

(* Of a modifier: did it act, how its press stands, is it down.            *)
StrokeGood(m) ==
    /\ stroke[m].acts = 1 => m \notin held /\ m \notin previouslyDown
    /\ stroke[m].keyed => /\ tap /\ stroke[m].acts = 0
                          /\ m \in held /\ m \in down => m \in usedInChord
    /\ ~tap => stroke[m].through = {}

LEMMA StrokesGood ==
    StrokesInv <=> stroke \in [Modifiers -> MacStrokes] /\ \A m \in Modifiers : StrokeGood(m)
BY DEF StrokesInv, StrokeGood

LEMMA FreshStroke == NoStroke \in MacStrokes
BY DEF NoStroke, MacStrokes

(* Somebody changes what the tap decides by while modifiers are down.      *)
LEMMA WaveringKeepsStrokes ==
    ASSUME StrokesInv, Wavers, UNCHANGED <<held, tap, down, usedInChord>>,
           previouslyDown' \subseteq previouslyDown
    PROVE  /\ StrokesInv'
           /\ \A m \in Modifiers :
                 /\ m \in held => stroke'[m].wavered
                 /\ m \notin held => stroke'[m] = stroke[m]
<1>1. stroke' = [m \in Modifiers |-> IF m \in held THEN [stroke[m] EXCEPT !.wavered = TRUE]
                                     ELSE stroke[m]]
  BY DEF Wavers
<1>2. ASSUME NEW m \in Modifiers
      PROVE  /\ stroke'[m] \in MacStrokes /\ StrokeGood(m)'
             /\ m \in held => stroke'[m].wavered
             /\ m \notin held => stroke'[m] = stroke[m]
  <2>1. stroke[m] \in MacStrokes /\ StrokeGood(m)
    BY StrokesGood
  <2>2. CASE m \in held
    <3>1. stroke'[m] = [stroke[m] EXCEPT !.wavered = TRUE]
      BY <1>1, <2>2
    <3>2. /\ stroke'[m] \in MacStrokes /\ stroke'[m].wavered
          /\ stroke'[m].acts = stroke[m].acts /\ stroke'[m].keyed = stroke[m].keyed
          /\ stroke'[m].through = stroke[m].through
      BY <2>1, <3>1 DEF MacStrokes
    <3> QED  BY <2>1, <2>2, <3>2 DEF StrokeGood
  <2>3. CASE m \notin held
    <3>1. stroke'[m] = stroke[m]
      BY <1>1, <2>3
    <3> QED  BY <2>1, <2>3, <3>1 DEF StrokeGood
  <2> QED  BY <2>2, <2>3
<1>3. stroke' \in [Modifiers -> MacStrokes]
  BY <1>1, <1>2
<1> QED  BY <1>2, <1>3 DEF StrokesInv, StrokeGood

(* A key is pressed, or repeats, while modifiers are down.                 *)
LEMMA KeyKeepsStrokes ==
    ASSUME KeysInv, FreshInv, StrokesInv, tap, MarkUsed, stroke' = KeyGoes,
           UNCHANGED <<tap, down, previouslyDown>>,
           held' \cap Modifiers = held \cap Modifiers
    PROVE  /\ StrokesInv'
           /\ \A m \in Modifiers :
                 /\ stroke'[m].acts = stroke[m].acts /\ stroke'[m].through = stroke[m].through
                 /\ stroke'[m].wavered = stroke[m].wavered
<1>1. stroke' = [m \in Modifiers |-> IF m \in held THEN [stroke[m] EXCEPT !.keyed = TRUE]
                                     ELSE stroke[m]]
  BY DEF KeyGoes
<1>2. ASSUME NEW m \in Modifiers
      PROVE  /\ stroke'[m] \in MacStrokes /\ StrokeGood(m)'
             /\ stroke'[m].acts = stroke[m].acts /\ stroke'[m].through = stroke[m].through
             /\ stroke'[m].wavered = stroke[m].wavered
  <2>1. stroke[m] \in MacStrokes /\ StrokeGood(m) /\ (m \in held' <=> m \in held)
    BY StrokesGood
  <2>2. usedInChord' = usedInChord \cup down
    BY DEF MarkUsed
  <2>3. CASE m \in held
    <3>1. stroke'[m] = [stroke[m] EXCEPT !.keyed = TRUE]
      BY <1>1, <2>3
    <3>2. /\ stroke'[m] \in MacStrokes /\ stroke'[m].wavered = stroke[m].wavered
          /\ stroke'[m].acts = stroke[m].acts /\ stroke[m].acts \in {0, 1}
          /\ stroke'[m].through = stroke[m].through
      BY <2>1, <3>1 DEF MacStrokes
    <3> QED  BY <2>1, <2>2, <2>3, <3>2 DEF StrokeGood
  <2>4. CASE m \notin held
    <3>1. stroke'[m] = stroke[m]
      BY <1>1, <2>4
    <3> QED  BY <2>1, <2>4, <3>1 DEF StrokeGood
  <2> QED  BY <2>3, <2>4
<1>3. stroke' \in [Modifiers -> MacStrokes]
  BY <1>1, <1>2
<1> QED  BY <1>2, <1>3 DEF StrokesInv, StrokeGood

(* A modifier changes where the tap sees it: it is down with a new press,  *)
(* or it is up and has acted at most once.                                 *)
LEMMA ModifierKeepsStrokes ==
    ASSUME KeysInv, FreshInv, StrokesInv, TapModifier
    PROVE  StrokesInv'
<1>1. PICK m \in Modifiers :
        /\ ModifierGoesDown(m) \/ ReleaseLooksDown(m) \/ ModifierGoesUp(m)
        /\ held' = Flips(held, m)
  BY DEF TapModifier
<1>2. tap /\ UNCHANGED <<tap, previouslyDown>> /\ previouslyDown = {}
  BY DEF TapModifier, pollVars, FreshInv
<1>3. \A x \in Modifiers \ {m} : x \in held' <=> x \in held
  BY <1>1 DEF Flips
<1>4. \A x \in Modifiers : stroke[x] \in MacStrokes /\ StrokeGood(x)
  BY StrokesGood
<1>5. CASE ModifierGoesDown(m)
  <2>1. /\ m \notin held
        /\ stroke' = [stroke EXCEPT ![m] =
              [NoStroke EXCEPT !.through = IF m \in suppressed' THEN {} ELSE {"down"}]]
        /\ \A x \in Modifiers \ {m} : /\ x \in down' <=> x \in down
                                      /\ x \in usedInChord' <=> x \in usedInChord
    BY <1>5 DEF ModifierGoesDown
  <2> DEFINE s == [NoStroke EXCEPT !.through = IF m \in suppressed' THEN {} ELSE {"down"}]
  <2>2. s \in MacStrokes /\ s.acts = 0 /\ s.keyed = FALSE
    BY DEF NoStroke, MacStrokes
  <2> HIDE DEF s
  <2>3. stroke' = [stroke EXCEPT ![m] = s]
    BY <2>1 DEF s
  <2>4. /\ stroke' \in [Modifiers -> MacStrokes] /\ stroke'[m] = s
        /\ \A x \in Modifiers \ {m} : stroke'[x] = stroke[x]
    BY <2>2, <2>3 DEF StrokesInv
  <2>5. \A x \in Modifiers : StrokeGood(x)'
    <3>1. StrokeGood(m)'
      BY <1>2, <2>2, <2>4 DEF StrokeGood
    <3>2. \A x \in Modifiers \ {m} : StrokeGood(x)'
      BY <1>2, <1>3, <1>4, <2>1, <2>4 DEF StrokeGood
    <3> QED  BY <3>1, <3>2
  <2> QED  BY <2>4, <2>5 DEF StrokesInv, StrokeGood
<1>6. CASE ReleaseLooksDown(m)
  <2>1. /\ m \in held /\ stroke' = [stroke EXCEPT ![m].through = @ \cup {"up"}]
        /\ \A x \in Modifiers \ {m} : /\ x \in down' <=> x \in down
                                      /\ x \in usedInChord' <=> x \in usedInChord
    BY <1>6 DEF ReleaseLooksDown
  <2>2. m \notin held'
    BY <1>1, <2>1 DEF Flips
  <2> DEFINE s == [stroke[m] EXCEPT !.through = stroke[m].through \cup {"up"}]
  <2>3. s \in MacStrokes /\ s.acts = stroke[m].acts /\ s.keyed = stroke[m].keyed
    BY <1>4 DEF MacStrokes
  <2>4. stroke' = [stroke EXCEPT ![m] = s]
    BY <2>1
  <2> HIDE DEF s
  <2>5. /\ stroke' \in [Modifiers -> MacStrokes] /\ stroke'[m] = s
        /\ \A x \in Modifiers \ {m} : stroke'[x] = stroke[x]
    BY <2>3, <2>4 DEF StrokesInv
  <2>6. \A x \in Modifiers : StrokeGood(x)'
    BY <1>2, <1>3, <1>4, <2>1, <2>2, <2>3, <2>5 DEF StrokeGood
  <2> QED  BY <2>5, <2>6 DEF StrokesInv, StrokeGood
<1>7. CASE ModifierGoesUp(m)
  <2> DEFINE alone == m \in down /\ m \notin usedInChord
             toggles == alone /\ ~slot /\ dictates /\ m \in bindings
             drops == m \in suppressed /\ m \in down /\ (~alone \/ slot \/ toggles)
             s == [stroke[m] EXCEPT !.acts = IF toggles THEN @ + 1 ELSE @,
                                    !.through = IF drops THEN @ ELSE @ \cup {"up"}]
  <2>1. /\ m \in held
        /\ stroke' = [x \in Modifiers |->
              IF x = m THEN s
              ELSE [stroke[x] EXCEPT !.wavered = @ \/ (alone /\ slot /\ x \in held)]]
        /\ \A x \in Modifiers \ {m} : /\ x \in down' <=> x \in down
                                      /\ x \in usedInChord' <=> x \in usedInChord
    BY <1>7 DEF ModifierGoesUp
  <2>2. m \notin held' /\ stroke[m].acts = 0 /\ (stroke[m].keyed => ~toggles)
    <3>1. stroke[m].acts # 1 /\ stroke[m].acts \in {0, 1}
      BY <1>4, <2>1 DEF StrokeGood, MacStrokes
    <3>2. stroke[m].keyed => ~alone
      BY <1>4, <2>1 DEF StrokeGood
    <3> QED  BY <1>1, <2>1, <3>1, <3>2 DEF Flips
  <2>3. /\ s \in MacStrokes /\ s.keyed = stroke[m].keyed
        /\ s.acts = IF toggles THEN 1 ELSE 0
    <3> DEFINE a == IF toggles THEN stroke[m].acts + 1 ELSE stroke[m].acts
               t == IF drops THEN stroke[m].through ELSE stroke[m].through \cup {"up"}
    <3>1. s = [stroke[m] EXCEPT !.acts = a, !.through = t]
      OBVIOUS
    <3>2. stroke[m] \in MacStrokes /\ a \in {0, 1} /\ a = IF toggles THEN 1 ELSE 0
      BY <1>4, <2>2
    <3>3. t \in SUBSET {"down", "up"}
      BY <3>2 DEF MacStrokes
    <3> HIDE DEF s, a, t
    <3> QED  BY <3>1, <3>2, <3>3 DEF MacStrokes
  <2> HIDE DEF s, toggles, drops
  <2>5. ASSUME NEW x \in Modifiers \ {m}
        PROVE  /\ stroke'[x] \in MacStrokes /\ stroke'[x].acts = stroke[x].acts
               /\ stroke'[x].keyed = stroke[x].keyed
    <3> DEFINE w == stroke[x].wavered \/ (alone /\ slot /\ x \in held)
    <3>1. stroke'[x] = [stroke[x] EXCEPT !.wavered = w]
      BY <2>1
    <3>2. w \in BOOLEAN
      OBVIOUS
    <3> HIDE DEF w
    <3> QED  BY <1>4, <3>1, <3>2 DEF MacStrokes
  <2>6. stroke' \in [Modifiers -> MacStrokes] /\ stroke'[m] = s
    BY <2>1, <2>3, <2>5
  <2>7. \A x \in Modifiers : StrokeGood(x)'
    <3>1. StrokeGood(m)'
      BY <1>2, <2>2, <2>3, <2>6 DEF StrokeGood
    <3>2. \A x \in Modifiers \ {m} : StrokeGood(x)'
      BY <1>2, <1>3, <1>4, <2>1, <2>5 DEF StrokeGood
    <3> QED  BY <3>1, <3>2
  <2> QED  BY <2>6, <2>7 DEF StrokesInv, StrokeGood
<1> QED  BY <1>1, <1>5, <1>6, <1>7

LEMMA SampleKeepsStrokes ==
    ASSUME KeysInv, FreshInv, StrokesInv, Sample
    PROVE  StrokesInv' /\ Fn \in Modifiers /\ ~tap'
<1>1. /\ ~tap /\ previouslyDown' = Sampled
      /\ UNCHANGED <<tap, held, down, usedInChord>>
      /\ stroke' = [m \in Modifiers |-> IF m \in Triggering /\ dictates
                                        THEN [stroke[m] EXCEPT !.acts = @ + 1] ELSE stroke[m]]
  BY DEF Sample, tapVars
<1>2. Sampled \subseteq held
  BY DEF Sampled, Looked
<1>3. ASSUME NEW m \in Modifiers, m \in Triggering
      PROVE  m \in previouslyDown /\ m \notin held
  <2>1. m # Chord
    BY KeysAreApart
  <2>2. m \in Modifiers \cap bindings /\ m \notin Sampled /\ m \in previouslyDown
    BY <1>3, <2>1 DEF Triggering
  <2>3. m \in held => m \in Sampled
    BY <2>2 DEF Sampled, Looked
  <2> QED  BY <2>2, <2>3
<1>4. ASSUME NEW m \in Modifiers
      PROVE  stroke'[m] \in MacStrokes /\ StrokeGood(m)'
  <2>1. stroke[m] \in MacStrokes /\ StrokeGood(m)
    BY StrokesGood
  <2>2. CASE m \in Triggering /\ dictates
    <3>1. stroke[m].acts = 0
      BY <1>3, <2>1, <2>2 DEF StrokeGood, MacStrokes
    <3>2. stroke'[m] = [stroke[m] EXCEPT !.acts = 1]
      BY <1>1, <2>2, <3>1
    <3>3. /\ stroke'[m] \in MacStrokes /\ stroke'[m].keyed = stroke[m].keyed
          /\ stroke'[m].through = stroke[m].through
      BY <2>1, <3>2 DEF MacStrokes
    <3>4. ~stroke[m].keyed
      BY <1>1, <2>1 DEF StrokeGood
    <3>5. m \notin held' /\ m \notin previouslyDown'
      BY <1>1, <1>2, <1>3, <2>2
    <3> QED  BY <1>1, <2>1, <3>3, <3>4, <3>5 DEF StrokeGood
  <2>3. CASE ~(m \in Triggering /\ dictates)
    <3>1. stroke'[m] = stroke[m]
      BY <1>1, <2>3
    <3> QED  BY <1>1, <1>2, <2>1, <3>1 DEF StrokeGood
  <2> QED  BY <2>2, <2>3
<1>5. stroke' \in [Modifiers -> MacStrokes]
  BY <1>1, <1>4
<1> QED  BY <1>1, <1>4, <1>5 DEF StrokesInv, StrokeGood, Modifiers

LEMMA FreeKeyKeepsStrokes ==
    ASSUME KeysInv, FreshInv, StrokesInv, FreeKey
    PROVE  StrokesInv' /\ ~tap'
<1>1. PICK k \in Modifiers \cup Keys :
        /\ held' = Flips(held, k)
        /\ stroke' = IF k \in Modifiers \ held THEN [stroke EXCEPT ![k] = NoStroke] ELSE stroke
  BY DEF FreeKey
<1>2. ~tap /\ UNCHANGED <<tap, previouslyDown, down, usedInChord>>
  BY DEF FreeKey, tapVars, pollVars
<1>3. \A m \in Modifiers : stroke[m] \in MacStrokes /\ StrokeGood(m)
  BY StrokesGood
<1>4. stroke' \in [Modifiers -> MacStrokes]
  BY <1>1, FreshStroke DEF StrokesInv
<1>5. ASSUME NEW m \in Modifiers
      PROVE  StrokeGood(m)'
  <2>1. CASE m = k /\ k \notin held
    <3>1. stroke'[m] = NoStroke
      BY <1>1, <2>1 DEF StrokesInv
    <3> QED  BY <3>1 DEF StrokeGood, NoStroke
  <2>2. CASE ~(m = k /\ k \notin held)
    <3>1. stroke'[m] = stroke[m] /\ (m \in held' => m \in held)
      BY <1>1, <2>2 DEF StrokesInv, Flips
    <3> QED  BY <1>2, <1>3, <3>1 DEF StrokeGood
  <2> QED  BY <2>1, <2>2
<1> QED  BY <1>2, <1>4, <1>5 DEF StrokesInv, StrokeGood

LEMMA StrokesStep ==
    ASSUME KeysInv, FreshInv, StrokesInv, MacNext
    PROVE  StrokesInv'
<1> USE DEF tapVars, pollVars, pageVars
<1>1. ASSUME UNCHANGED <<stroke, tap, down, usedInChord, previouslyDown>>,
             held' \cap Modifiers = held \cap Modifiers
      PROVE  StrokesInv'
  BY <1>1 DEF StrokesInv
<1>2. CASE TapModifier
  BY <1>2, ModifierKeepsStrokes
<1>3. CASE TapKey
  <2>1. held' \cap Modifiers = held \cap Modifiers
    BY <1>3, KeysAreApart DEF TapKey
  <2>2. MarkUsed /\ stroke' = KeyGoes /\ tap /\ UNCHANGED <<tap, down, previouslyDown>>
    BY <1>3 DEF TapKey
  <2> QED  BY <2>1, <2>2, KeyKeepsStrokes
<1>4. CASE TapRepeats
  BY <1>4, KeyKeepsStrokes DEF TapRepeats
<1>5. CASE TapKeyUp
  BY <1>1, <1>5, KeysAreApart DEF TapKeyUp
<1>6. CASE FreeKey
  BY <1>6, FreeKeyKeepsStrokes
<1>7. CASE Sample
  BY <1>7, SampleKeepsStrokes
<1>8. CASE SampleCapture
  BY <1>1, <1>8 DEF SampleCapture
<1>9. CASE StartTap
  <2>1. Wavers /\ UNCHANGED <<held, down, usedInChord>> /\ previouslyDown' = {} /\ tap' = TRUE
        /\ ~tap
    BY <1>9 DEF StartTap
  <2>2. stroke' = [m \in Modifiers |-> IF m \in held THEN [stroke[m] EXCEPT !.wavered = TRUE]
                                       ELSE stroke[m]]
    BY <2>1 DEF Wavers
  <2>3. ASSUME NEW m \in Modifiers
        PROVE  stroke'[m] \in MacStrokes /\ StrokeGood(m)'
    <3>1. stroke[m] \in MacStrokes /\ StrokeGood(m)
      BY StrokesGood
    <3>2. /\ stroke'[m] \in MacStrokes
          /\ stroke'[m].acts = stroke[m].acts /\ stroke'[m].keyed = stroke[m].keyed
      BY <2>2, <3>1 DEF MacStrokes
    <3> QED  BY <2>1, <3>1, <3>2 DEF StrokeGood
  <2>4. stroke' \in [Modifiers -> MacStrokes]
    BY <2>2, <2>3
  <2> QED  BY <2>3, <2>4 DEF StrokesInv, StrokeGood
<1>10. CASE BeginMacCapture \/ Configure
  BY <1>10, WaveringKeepsStrokes DEF BeginMacCapture, Configure
<1>11. CASE ApplyMacCapture
  <2>1. CASE Wavers
    BY <1>11, <2>1, WaveringKeepsStrokes DEF ApplyMacCapture
  <2>2. CASE UNCHANGED stroke
    BY <1>1, <1>11, <2>2 DEF ApplyMacCapture
  <2> QED  BY <1>11, <2>1, <2>2 DEF ApplyMacCapture
<1> QED
  BY <1>2, <1>3, <1>4, <1>5, <1>6, <1>7, <1>8, <1>9, <1>10, <1>11 DEF MacNext

-----------------------------------------------------------------------------
(* The Fn key.                                                             *)

(* Whatever leaves the press of Fn as it was, and the reasons to take it,  *)
(* or ends a capture by a key that marks the press.                        *)
LEMMA FnUntouched ==
    ASSUME FnInv, StrokesInv,
           UNCHANGED tap, Fn \in held' <=> Fn \in held,
           Fn \in suppressed' <=> Fn \in suppressed, Fn \in down' <=> Fn \in down,
           stroke'[Fn].through = stroke[Fn].through, stroke'[Fn].acts = stroke[Fn].acts,
           stroke[Fn].wavered => stroke'[Fn].wavered,
           Fn \in held /\ ~stroke'[Fn].wavered =>
               /\ ReservesFn' => ReservesFn
               /\ Fn \in usedInChord => Fn \in usedInChord'
               /\ ReservesFn => ReservesFn' \/ Fn \in usedInChord' \/ Fn \notin down
    PROVE  FnInv'
BY DEF FnInv, FnIsTaken, FnGoesThrough

LEMMA FnModifier ==
    ASSUME KeysInv, FreshInv, StrokesInv, FnInv, TapModifier
    PROVE  FnInv'
<1>1. PICK m \in Modifiers :
        /\ ModifierGoesDown(m) \/ ReleaseLooksDown(m) \/ ModifierGoesUp(m)
        /\ held' = Flips(held, m)
  BY DEF TapModifier
<1>2. tap /\ UNCHANGED <<tap, bindings, dictates>> /\ Fn \in Modifiers
  BY DEF TapModifier, pageVars, Modifiers
<1>3. stroke \in [Modifiers -> MacStrokes] /\ stroke[Fn] \in MacStrokes
  BY <1>2 DEF StrokesInv
<1>4. CASE m = Fn
  <2>1. CASE ModifierGoesDown(Fn)
    <3>1. Fn \in held'
      BY <1>1, <1>4, <2>1 DEF Flips, ModifierGoesDown
    <3>2. UNCHANGED slot
      BY <2>1 DEF ModifierGoesDown, NoCapture
    <3>3. ReservesFn' = ReservesFn
      BY <1>2, <3>2 DEF ReservesFn
    <3>4. IF ReservesFn THEN Fn \in suppressed' /\ Fn \in down' ELSE Fn \notin suppressed'
      BY <2>1 DEF ModifierGoesDown, ReservesFn
    <3>5. stroke'[Fn] =
            [NoStroke EXCEPT !.through = IF Fn \in suppressed' THEN {} ELSE {"down"}]
      BY <1>2, <1>3, <2>1 DEF ModifierGoesDown
    <3>6. stroke'[Fn].through = IF Fn \in suppressed' THEN {} ELSE {"down"}
      BY <3>5 DEF NoStroke
    <3>7. FnIsTaken' \/ FnGoesThrough'
      BY <3>3, <3>4, <3>6 DEF FnIsTaken, FnGoesThrough
    <3> QED  BY <3>1, <3>7 DEF FnInv
  <2>2. ~ReleaseLooksDown(Fn)
    BY KeysAreApart DEF ReleaseLooksDown, FlagSet, FlagGroup
  <2>3. CASE ModifierGoesUp(Fn)
    <3> DEFINE alone == Fn \in down /\ Fn \notin usedInChord
               toggles == alone /\ ~slot /\ dictates /\ Fn \in bindings
               drops == Fn \in suppressed /\ Fn \in down /\ (~alone \/ slot \/ toggles)
    <3>1. /\ Fn \in held
          /\ stroke'[Fn] = [stroke[Fn] EXCEPT !.acts = IF toggles THEN @ + 1 ELSE @,
                                      !.through = IF drops THEN @ ELSE @ \cup {"up"}]
      BY <1>2, <2>3 DEF ModifierGoesUp
    <3>2. Fn \notin held'
      BY <1>1, <1>4, <3>1 DEF Flips
    <3>3. stroke[Fn].acts = 0
      BY <1>2, <1>3, <3>1 DEF StrokesInv, MacStrokes
    <3>4. /\ stroke'[Fn].acts = IF toggles THEN 1 ELSE 0
          /\ stroke'[Fn].through = IF drops THEN stroke[Fn].through
                                   ELSE stroke[Fn].through \cup {"up"}
          /\ stroke'[Fn].wavered = stroke[Fn].wavered
      <4> DEFINE a == IF toggles THEN stroke[Fn].acts + 1 ELSE stroke[Fn].acts
                 t == IF drops THEN stroke[Fn].through ELSE stroke[Fn].through \cup {"up"}
      <4>1. stroke'[Fn] = [stroke[Fn] EXCEPT !.acts = a, !.through = t]
        BY <3>1
      <4>2. a = IF toggles THEN 1 ELSE 0
        BY <3>3
      <4> HIDE DEF a, t
      <4>3. stroke'[Fn].acts = a /\ stroke'[Fn].through = t
            /\ stroke'[Fn].wavered = stroke[Fn].wavered
        BY <1>3, <4>1 DEF MacStrokes
      <4> QED  BY <4>2, <4>3 DEF t
    <3>5. FnIsTaken => drops
      BY DEF FnIsTaken, ReservesFn
    <3>6. FnGoesThrough => ~drops /\ ~toggles
      BY DEF FnGoesThrough, ReservesFn
    <3> HIDE DEF toggles, drops
    <3>7. ASSUME ~stroke[Fn].wavered
          PROVE  /\ stroke'[Fn].through \in {{}, {"down", "up"}}
                 /\ stroke'[Fn].acts = 1 => stroke'[Fn].through = {}
      <4>1. FnIsTaken \/ FnGoesThrough
        BY <1>2, <3>1, <3>7 DEF FnInv
      <4>2. CASE FnIsTaken
        BY <3>4, <3>5, <4>2 DEF FnIsTaken
      <4>3. CASE FnGoesThrough
        <5>1. stroke[Fn].through \cup {"up"} = {"down", "up"}
          BY <4>3 DEF FnGoesThrough
        <5> QED  BY <3>4, <3>6, <4>3, <5>1
      <4> QED  BY <4>1, <4>2, <4>3
    <3> QED  BY <3>2, <3>4, <3>7 DEF FnInv
  <2> QED  BY <1>1, <1>4, <2>1, <2>2, <2>3
<1>5. CASE m # Fn
  <2>1. /\ Fn \in held' <=> Fn \in held
        /\ Fn \in suppressed' <=> Fn \in suppressed
        /\ Fn \in down' <=> Fn \in down
        /\ Fn \in usedInChord' <=> Fn \in usedInChord
    BY <1>1, <1>5 DEF Flips, ModifierGoesDown, ReleaseLooksDown, ModifierGoesUp
  <2>2. CASE ModifierGoesUp(m)
    <3> DEFINE alone == m \in down /\ m \notin usedInChord
               w == stroke[Fn].wavered \/ (alone /\ slot /\ Fn \in held)
    <3>1. /\ stroke'[Fn] = [stroke[Fn] EXCEPT !.wavered = w]
          /\ (alone /\ slot) \/ UNCHANGED slot
      BY <1>2, <1>5, <2>2 DEF ModifierGoesUp, NoCapture
    <3> HIDE DEF w
    <3>2. /\ stroke'[Fn].through = stroke[Fn].through /\ stroke'[Fn].acts = stroke[Fn].acts
          /\ stroke'[Fn].wavered = w
      BY <1>3, <3>1 DEF MacStrokes
    <3>3. ~stroke'[Fn].wavered /\ Fn \in held => ReservesFn' = ReservesFn
      <4>1. ~w /\ Fn \in held => UNCHANGED slot
        <5>1. alone /\ slot /\ Fn \in held => w
          BY DEF w
        <5> QED  BY <3>1, <5>1
      <4>2. ~stroke'[Fn].wavered /\ Fn \in held => UNCHANGED slot
        BY <3>2, <4>1
      <4> QED  BY <1>2, <4>2 DEF ReservesFn
    <3>4. stroke[Fn].wavered => stroke'[Fn].wavered
      BY <3>2 DEF w
    <3> QED  BY <1>2, <2>1, <3>2, <3>3, <3>4, FnUntouched
  <2>3. CASE ModifierGoesDown(m) \/ ReleaseLooksDown(m)
    <3>1. stroke'[Fn] = stroke[Fn] /\ UNCHANGED slot
      BY <1>2, <1>3, <1>5, <2>3 DEF ModifierGoesDown, ReleaseLooksDown, NoCapture
    <3>2. ReservesFn' = ReservesFn
      BY <1>2, <3>1 DEF ReservesFn
    <3> QED  BY <1>2, <2>1, <3>1, <3>2, FnUntouched
  <2> QED  BY <1>1, <2>2, <2>3
<1> QED  BY <1>4, <1>5

LEMMA FnStep ==
    ASSUME KeysInv, FreshInv, StrokesInv, FnInv, MacNext
    PROVE  FnInv'
<1> USE DEF tapVars, pollVars, pageVars
<1>1. Fn \in Modifiers
  BY DEF Modifiers
<1>2. CASE TapModifier
  BY <1>2, FnModifier
<1>3. CASE TapKey \/ TapRepeats
  <2>1. held' \cap Modifiers = held \cap Modifiers
    BY <1>3, KeysAreApart DEF TapKey, TapRepeats
  <2>2. /\ MarkUsed /\ stroke' = KeyGoes /\ tap
        /\ UNCHANGED <<tap, down, previouslyDown, suppressed, bindings, dictates>>
    BY <1>3 DEF TapKey, TapRepeats
  <2>3. /\ stroke'[Fn].acts = stroke[Fn].acts /\ stroke'[Fn].through = stroke[Fn].through
        /\ stroke'[Fn].wavered = stroke[Fn].wavered
    BY <1>1, <2>1, <2>2, KeyKeepsStrokes
  <2>4. usedInChord' = usedInChord \cup down
    BY <2>2 DEF MarkUsed
  <2>5. slot' => slot
    BY <1>3 DEF TapKey, TapRepeats, AnswerCapture, NoCapture
  <2>6. ReservesFn' => ReservesFn
    BY <2>2, <2>5 DEF ReservesFn
  <2> QED  BY <1>1, <2>1, <2>2, <2>3, <2>4, <2>6, FnUntouched
<1>4. CASE TapKeyUp
  <2>1. held' \cap Modifiers = held \cap Modifiers
    BY <1>4, KeysAreApart DEF TapKeyUp
  <2>2. UNCHANGED <<stroke, tap, down, suppressed, usedInChord, slot, dictates, bindings>>
    BY <1>4 DEF TapKeyUp
  <2>3. ReservesFn' = ReservesFn
    BY <2>2 DEF ReservesFn
  <2> QED  BY <1>1, <2>1, <2>2, <2>3, FnUntouched
<1>5. CASE FreeKey \/ Sample \/ SampleCapture
  BY <1>5 DEF FreeKey, Sample, SampleCapture, FnInv
<1>6. CASE StartTap
  <2>1. Wavers /\ ~tap /\ UNCHANGED held
    BY <1>6 DEF StartTap
  <2>2. Fn \in held => stroke'[Fn].wavered
    BY <1>1, <2>1 DEF Wavers, StrokesInv, MacStrokes
  <2>3. Fn \notin held => stroke'[Fn] = stroke[Fn]
    BY <1>1, <2>1 DEF Wavers
  <2>4. stroke[Fn].through = {}
    BY <1>1, <2>1 DEF StrokesInv
  <2> QED  BY <2>1, <2>2, <2>3, <2>4 DEF FnInv
<1>7. ASSUME Wavers, UNCHANGED <<held, tap, tapVars, pollVars>>
      PROVE  FnInv'
  <2>1. /\ Fn \in held => stroke'[Fn].wavered
        /\ Fn \notin held => stroke'[Fn] = stroke[Fn]
    BY <1>1, <1>7, WaveringKeepsStrokes
  <2> QED  BY <1>7, <2>1 DEF FnInv
<1>8. CASE BeginMacCapture \/ Configure
  BY <1>7, <1>8 DEF BeginMacCapture, Configure
<1>9. CASE ApplyMacCapture
  <2>1. CASE Wavers
    BY <1>7, <1>9, <2>1 DEF ApplyMacCapture
  <2>2. CASE UNCHANGED <<bindings, stroke>>
    <3>1. UNCHANGED <<stroke, tap, held, down, suppressed, usedInChord, slot, dictates, bindings>>
      BY <1>9, <2>2 DEF ApplyMacCapture
    <3>2. ReservesFn' = ReservesFn
      BY <3>1 DEF ReservesFn
    <3> QED  BY <3>1, <3>2, FnUntouched
  <2> QED  BY <1>9, <2>1, <2>2 DEF ApplyMacCapture
<1> QED  BY <1>2, <1>3, <1>4, <1>5, <1>6, <1>8, <1>9 DEF MacNext

-----------------------------------------------------------------------------
LEMMA MacAlways == MacSpec => []MacInv
<1>1. MacInit => MacInv
  <2> SUFFICES ASSUME MacInit PROVE MacInv
    OBVIOUS
  <2> USE DEF MacInit
  <2>1. KeysInv
    <3>1. IsInjective(<<>>) /\ <<>> \in Seq(Modifiers)
      BY DEF IsInjective
    <3> QED  BY <3>1 DEF KeysInv
  <2>2. FreshInv
    BY DEF FreshInv
  <2>3. /\ stroke \in [Modifiers -> MacStrokes] /\ \A m \in Modifiers : stroke[m] = NoStroke
        /\ Fn \in Modifiers
    BY FreshStroke DEF Modifiers
  <2>4. StrokesInv
    BY <2>3 DEF StrokesInv, NoStroke
  <2>5. FnInv
    BY <2>3 DEF FnInv, NoStroke
  <2> QED  BY <2>1, <2>2, <2>4, <2>5 DEF MacInv
<1>2. MacInv /\ [MacNext]_macVars => MacInv'
  <2> SUFFICES ASSUME MacInv, [MacNext]_macVars PROVE MacInv'
    OBVIOUS
  <2>1. CASE MacNext
    BY <2>1, KeysStep, FreshStep, StrokesStep, FnStep DEF MacInv
  <2>2. CASE UNCHANGED macVars
    <3>1. KeysInv' /\ FreshInv'
      BY <2>2 DEF macVars, MacInv, KeysInv, FreshInv
    <3>2. StrokesInv' /\ FnInv'
      BY <2>2 DEF macVars, MacInv, StrokesInv, FnInv, FnIsTaken, FnGoesThrough, ReservesFn
    <3> QED  BY <3>1, <3>2 DEF MacInv
  <2> QED  BY <2>1, <2>2
<1> QED  BY <1>1, <1>2, PTL DEF MacSpec

(* MacTypeOK in every behaviour: a capture under way has no answer yet,    *)
(* whoever of the tap, the polling and the window sees its key first, and  *)
(* the polling remembers every modifier once.                              *)
(* (crates/infra/src/macos_shortcut_monitor.rs)                            *)
THEOREM MacTypeCorrect == MacSpec => []MacTypeOK
<1>1. MacInv => MacTypeOK
  BY DEF MacInv, KeysInv, MacTypeOK, Modifiers
<1> QED  BY <1>1, MacAlways, PTL

(* One press of a modifier acts at most once, and not at all where the tap *)
(* saw another key with it; the Fn is taken as a whole or not at all: for  *)
(* any number of keys, captures, edits of the list and pauses, and across  *)
(* the change from the polling to the tap.                                 *)
(* (crates/infra/src/macos_shortcut_monitor/event_tap.rs)                  *)
THEOREM OnePressActsOnce == MacSpec => []OnePressOneAct
<1>1. MacInv => OnePressOneAct
  <2> SUFFICES ASSUME MacInv PROVE OnePressOneAct
    OBVIOUS
  <2>1. \A m \in Modifiers :
          stroke[m].acts \in {0, 1} /\ (stroke[m].keyed => stroke[m].acts = 0)
    BY DEF MacInv, StrokesInv, MacStrokes
  <2>2. tap /\ Fn \notin held /\ ~stroke[Fn].wavered =>
          /\ stroke[Fn].through \in {{}, {"down", "up"}}
          /\ stroke[Fn].acts > 0 => stroke[Fn].through = {}
    <3>1. stroke[Fn].acts \in {0, 1}
      BY <2>1 DEF Modifiers
    <3> QED  BY <3>1 DEF MacInv, FnInv
  <2>3. \A m \in Modifiers : stroke[m].acts <= 1 /\ (tap /\ stroke[m].keyed => stroke[m].acts = 0)
    BY <2>1
  <2> QED  BY <2>2, <2>3 DEF OnePressOneAct
<1> QED  BY <1>1, MacAlways, PTL

(***************************************************************************)
(* The adapters together.                                                  *)
(***************************************************************************)
platformVars == <<vars, windowsVars, shortcutVars, macVars, adapter>>

(* A step of the system is one of an adapter, the one that was chosen, and *)
(* changes nothing of the others.                                          *)
LEMMA PlatformStep ==
    ASSUME [PlatformNext]_platformVars
    PROVE  /\ [Next]_vars /\ [WindowsNext]_windowsVars
           /\ [ShortcutsNext]_shortcutVars /\ [MacNext]_macVars
           /\ UNCHANGED adapter
BY DEF PlatformNext, platformVars

LEMMA PlatformImplements ==
    PlatformSpec => /\ Spec /\ WindowsSpec /\ ShortcutsSpec /\ MacSpec
                    /\ [](adapter \in Adapters)
<1>1. PlatformInit => /\ Init /\ WindowsInit /\ ShortcutsInit /\ MacInit
                      /\ adapter \in Adapters
  BY DEF PlatformInit
<1>2. [PlatformNext]_platformVars =>
          /\ [Next]_vars /\ [WindowsNext]_windowsVars
          /\ [ShortcutsNext]_shortcutVars /\ [MacNext]_macVars
  BY PlatformStep
<1>3. adapter \in Adapters /\ [PlatformNext]_platformVars => (adapter \in Adapters)'
  BY PlatformStep
<1> QED
  BY <1>1, <1>2, <1>3, PTL
     DEF PlatformSpec, Spec, WindowsSpec, ShortcutsSpec, MacSpec, platformVars

(* PlatformTypeOK in every behaviour of the system of the adapters: each   *)
(* of them keeps its types whichever of them runs, for any dictations,     *)
(* controls, shortcuts and bounds.                                         *)
(* (apps/desktop/src/main.rs, windows_runtime.rs)                          *)
THEOREM PlatformTypeCorrect == PlatformSpec => []PlatformTypeOK
<1>1. /\ TypeOK /\ WindowsTypeOK /\ ShortcutsTypeOK /\ MacTypeOK
      /\ adapter \in Adapters
      => PlatformTypeOK
  BY DEF Adapters, PlatformTypeOK
<1> QED
  BY <1>1, PlatformImplements, TypeCorrect, WindowsTypeCorrect, ShortcutsTypeCorrect,
     MacTypeCorrect, PTL
=============================================================================
