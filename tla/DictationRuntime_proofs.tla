----------------------- MODULE DictationRuntime_proofs ----------------------
(***************************************************************************)
(* Proofs about DictationRuntime for any set of sessions and any bound of  *)
(* the shortcut channel.                                                   *)
(***************************************************************************)
EXTENDS DictationRuntime, TLAPS

-----------------------------------------------------------------------------
(* Lemmas: what the helpers of the actions do to the types.                *)

(* A thread that ends its handler.                                         *)
LEMMA ReturnTypes ==
    ASSUME ThreadTypeOK, NEW t \in Thread, Return(t)
    PROVE  ThreadTypeOK'
BY DEF ThreadTypeOK, Return, Thread, ShortcutPC, UiPC, Owner, Unowned

(* A thread that goes on for a session.                                    *)
LEMMA EnterTypes ==
    ASSUME ThreadTypeOK, NEW t \in Thread, NEW s \in Session, NEW l,
           Enter(t, l, s),
           t = "shortcut" => l \in ShortcutPC,
           t = "ui" => l \in UiPC
    PROVE  ThreadTypeOK'
BY DEF ThreadTypeOK, Enter, Thread, Owner, Unowned

(* A thread that goes on for the session it already works for.             *)
LEMMA GotoTypes ==
    ASSUME ThreadTypeOK, NEW t \in Thread, NEW l, Goto(t, l),
           UNCHANGED arg, got' \in [Thread -> Owner],
           pc[t] \notin Unowned \/ l \in Unowned,
           t = "shortcut" => l \in ShortcutPC,
           t = "ui" => l \in UiPC
    PROVE  ThreadTypeOK'
BY DEF ThreadTypeOK, Goto, Thread, Owner, Unowned

(* A closure that is queued.                                               *)
LEMMA QueueTypes ==
    ASSUME TypeOK, NEW type \in {"started", "startFailed", "cancelled", "finish"},
           NEW s \in Session, NEW audio \in Owner, Queue(Event(type, s, audio))
    PROVE  uiQueue' \in Seq(UiEvent)
PROOF
<1>1. Event(type, s, audio) \in UiEvent
  BY DEF Event, UiEvent
<1> QED
  BY <1>1 DEF Queue, TypeOK

(* A closure that is taken.                                                *)
LEMMA ReceivesTypes ==
    ASSUME TypeOK, NEW type, NEW s, NEW audio, Receives(type, s, audio)
    PROVE  uiQueue' \in Seq(UiEvent)
BY DEF Receives, TypeOK

(* A finish, whoever asks for it.                                          *)
LEMMA FinishSessionTypes ==
    ASSUME TypeOK, FinishSession
    PROVE  /\ SessionTypeOK' /\ uiQueue' \in Seq(UiEvent)
           /\ JobTypeOK' /\ DeviceTypeOK'
PROOF
<1>1. sid \in Session
  BY DEF TypeOK, SessionTypeOK, FinishSession, RequestFinish, CanFinish
<1>2. CASE loopAlive
  <2>1. uiQueue' \in Seq(UiEvent)
    BY <1>1, <1>2, QueueTypes DEF FinishSession, Owner
  <2> QED
    BY <1>1, <1>2, <2>1 DEF TypeOK, FinishSession, RequestFinish, SessionTypeOK,
       SessionState, JobTypeOK, DeviceTypeOK, Stage, deviceVars
<1>3. CASE ~loopAlive
  BY <1>3 DEF TypeOK, FinishSession, Complete, CancelAsr, StopRecorder,
     SessionTypeOK, SessionState, JobTypeOK, DeviceTypeOK, Owner, jobVars
<1> QED
  BY <1>2, <1>3

(* A cancel, whoever asks for it.                                          *)
LEMMA CancelSessionTypes ==
    ASSUME TypeOK, NEW t \in Thread, CancelSession(t)
    PROVE  SessionTypeOK' /\ ThreadTypeOK' /\ HistoryTypeOK'
PROOF
<1>1. CASE CanCancel
  <2>1. sid \in Session
    BY <1>1 DEF CanCancel, TypeOK, SessionTypeOK
  <2>2. ThreadTypeOK'
    BY <1>1, <2>1, EnterTypes DEF TypeOK, CancelSession, ShortcutPC, UiPC
  <2> QED
    BY <1>1, <2>1, <2>2 DEF CancelSession, RequestCancel, TypeOK, SessionTypeOK,
       SessionState, HistoryTypeOK
<1>2. CASE ~CanCancel
  BY <1>2, ReturnTypes DEF CancelSession, TypeOK, SessionTypeOK,
     HistoryTypeOK, sessionVars, historyVars
<1> QED
  BY <1>1, <1>2

-----------------------------------------------------------------------------
(* The type invariant.                                                     *)

(* The initial states have the right types.                                *)
LEMMA InitTypeOK == Init => TypeOK
PROOF
<1> SUFFICES ASSUME Init PROVE TypeOK
  OBVIOUS
<1>1. SessionTypeOK
  BY DEF Init, SessionInit, SessionTypeOK, SessionState
<1>2. ThreadTypeOK
  BY DEF Init, ThreadTypeOK, Thread, Owner, ShortcutPC, UiPC, Unowned
<1>3. JobTypeOK
  BY DEF Init, JobTypeOK, Stage, NoHandoff, Handoff, Owner
<1>4. chan \in Seq({"Toggle", "Cancel"}) /\ uiQueue \in Seq(UiEvent)
  BY DEF Init
<1>5. EnvTypeOK
  <2>1. saves \in Seq(BOOLEAN) /\ submitting \subseteq BOOLEAN /\ spared \subseteq Owner
    BY DEF Init
  <2> QED  BY <1>4, <2>1 DEF Init, EnvTypeOK
<1>6. DeviceTypeOK /\ RetainTypeOK /\ HistoryTypeOK
  BY DEF Init, DeviceTypeOK, RetainTypeOK, HistoryTypeOK, Owner
<1> QED
  BY <1>1, <1>2, <1>3, <1>4, <1>5, <1>6 DEF TypeOK

(* The keyboard and the shortcut thread keep the types.                    *)
LEMMA ShortcutTypeOK ==
    ASSUME TypeOK, PressToggle \/ PressEscape \/ ShortcutStep
    PROVE  TypeOK'
PROOF
<1> USE DEF sessionVars, envVars, threadVars, deviceVars, retainVars, jobVars,
            historyVars, TypeOK, SessionTypeOK, EnvTypeOK, ThreadTypeOK, DeviceTypeOK,
            RetainTypeOK, JobTypeOK, HistoryTypeOK, Unowned,
            StoreRetain, StoreTake, StoreClear, StoreExpire
<1>1. CASE PressToggle
  BY <1>1 DEF PressToggle
<1>2. CASE PressEscape
  BY <1>2 DEF PressEscape
<1>3. CASE ToggleDropped
  BY <1>3 DEF ToggleDropped, Takes
<1>4. ASSUME NEW s \in Session, ToggleBegins(s) PROVE TypeOK'
  BY <1>4, EnterTypes
     DEF ToggleBegins, ToggleStarts, SessionState, ShortcutPC, Thread
<1>5. CASE ToggleFinishes
  BY <1>5, FinishSessionTypes, ReturnTypes DEF ToggleFinishes, Thread
<1>18. CASE TakeToggle
  BY <1>18, GotoTypes DEF TakeToggle, Takes, ShortcutPC, Thread
<1>19. CASE ToggleIgnored
  BY <1>19, ReturnTypes DEF ToggleIgnored, Thread
<1>6. CASE TakeCancel
  BY <1>6, CancelSessionTypes DEF TakeCancel, Takes, Thread
<1>7. CASE BeginDenied
  BY <1>7, ReturnTypes DEF BeginDenied, StartupFailed, SessionState, Thread
<1>8. CASE BeginPaused
  BY <1>8, ReturnTypes DEF BeginPaused, RequestCancelIfPossible, RequestCancel, SessionState, Thread
<1>9. CASE BeginUnpaused
  BY <1>9, GotoTypes DEF BeginUnpaused, ShortcutPC, Thread
<1>10. CASE BeginClear
  BY <1>10, GotoTypes DEF BeginClear, ShortcutPC, Thread
<1>11. CASE BeginAsr
  BY <1>11, GotoTypes DEF BeginAsr, ShortcutPC, Thread, Owner
<1>12. CASE BeginAsrFails
  BY <1>12, ReturnTypes DEF BeginAsrFails, StartupFailed, SessionState, Thread
<1>13. CASE BeginMic
  <2>1. arg["shortcut"] \in Owner /\ got' \in [Thread -> Owner]
    BY <1>13 DEF BeginMic, Thread
  <2>2. ThreadTypeOK'
    BY <1>13, <2>1, GotoTypes DEF BeginMic, ShortcutPC, Thread
  <2> QED
    BY <1>13, <2>1, <2>2 DEF BeginMic, Owner
<1>14. CASE BeginReport
  <2>1. ThreadTypeOK'
    BY <1>14, ReturnTypes DEF BeginReport, Thread
  <2>2. arg["shortcut"] \in Session
    BY <1>14 DEF BeginReport, Thread
  <2>3. uiQueue' \in Seq(UiEvent)
    BY <1>14, <2>2, QueueTypes DEF BeginReport, Owner
  <2>4. SessionTypeOK'
    BY <1>14 DEF BeginReport, RequestCancelIfPossible, RequestCancel, SessionState
  <2>5. DeviceTypeOK'
    BY <1>14 DEF BeginReport, CancelAsr, StopRecorder, Owner
  <2> QED
    BY <1>14, <2>1, <2>2, <2>3, <2>4, <2>5 DEF BeginReport
<1>15. CASE CancelStopsAsr("shortcut")
  BY <1>15, GotoTypes DEF CancelStopsAsr, CancelAsr, ShortcutPC, Owner, Thread
<1>16. CASE CancelStopsRecorder("shortcut")
  <2>1. got' \in [Thread -> Owner]
    BY <1>16 DEF CancelStopsRecorder, Owner, Thread
  <2>2. ThreadTypeOK'
    BY <1>16, <2>1, GotoTypes DEF CancelStopsRecorder, ShortcutPC, Thread
  <2> QED
    BY <1>16, <2>1, <2>2 DEF CancelStopsRecorder, StopRecorder, Owner
<1>17. CASE CancelReport("shortcut")
  <2>1. ThreadTypeOK'
    BY <1>17, ReturnTypes DEF CancelReport, Thread
  <2>2. arg["shortcut"] \in Session /\ got["shortcut"] \in Owner
    BY <1>17 DEF CancelReport, Thread
  <2>3. uiQueue' \in Seq(UiEvent)
    BY <1>17, <2>2, QueueTypes DEF CancelReport
  <2> QED
    BY <1>17, <2>1, <2>2, <2>3 DEF CancelReport
<1> QED
  BY <1>1, <1>2, <1>3, <1>4, <1>5, <1>6, <1>7, <1>8, <1>9, <1>10,
     <1>11, <1>12, <1>13, <1>14, <1>15, <1>16, <1>17, <1>18, <1>19 DEF ShortcutStep,
     Begin, Cancelling

(* The closures of the event loop keep the types.                          *)
LEMMA ClosureTypeOK ==
    ASSUME TypeOK, UiClosure
    PROVE  TypeOK'
PROOF
<1> USE DEF sessionVars, envVars, threadVars, deviceVars, retainVars, jobVars,
            historyVars, TypeOK, SessionTypeOK, EnvTypeOK, ThreadTypeOK, DeviceTypeOK,
            RetainTypeOK, JobTypeOK, HistoryTypeOK, Unowned,
            StoreRetain, StoreTake, StoreClear, StoreExpire
<1>1. ASSUME NEW s \in Session, UiStartFailed(s) PROVE TypeOK'
  <2>1. uiQueue' \in Seq(UiEvent)
    BY <1>1, ReceivesTypes DEF UiStartFailed
  <2>2. ThreadTypeOK'
    BY <1>1, EnterTypes DEF UiStartFailed, UiPC, Thread
  <2>3. SessionTypeOK'
    BY <1>1 DEF UiStartFailed, StartupFailed, SessionState
  <2> QED
    BY <1>1, <2>1, <2>2, <2>3 DEF UiStartFailed
<1>2. ASSUME NEW s \in Session, UiStarted(s) PROVE TypeOK'
  <2>1. uiQueue' \in Seq(UiEvent)
    BY <1>2, ReceivesTypes DEF UiStarted
  <2>2. ThreadTypeOK'
    BY <1>2, EnterTypes DEF UiStarted, UiPC, Thread
  <2>3. SessionTypeOK'
    BY <1>2 DEF UiStarted, RecordingStarted, SessionState
  <2>4. RetainTypeOK'
    BY <1>2 DEF UiStarted, MuteTimer
  <2> QED
    BY <1>2, <2>1, <2>2, <2>3, <2>4 DEF UiStarted
<1>3. ASSUME NEW s \in Session, UiStartRejected(s) PROVE TypeOK'
  <2>1. uiQueue' \in Seq(UiEvent)
    BY <1>3, ReceivesTypes DEF UiStartRejected
  <2>2. ThreadTypeOK'
    BY <1>3, EnterTypes DEF UiStartRejected, UiPC, Thread
  <2> QED
    BY <1>3, <2>1, <2>2 DEF UiStartRejected, RecordingNotStarted
<1>4. ASSUME NEW s \in Session, UiFinish(s) PROVE TypeOK'
  <2>1. uiQueue' \in Seq(UiEvent)
    BY <1>4, ReceivesTypes DEF UiFinish
  <2>2. ThreadTypeOK'
    BY <1>4, EnterTypes DEF UiFinish, UiPC, Thread
  <2>3. SessionTypeOK'
    BY <1>4 DEF UiFinish, Complete, SessionState
  <2>4. JobTypeOK'
    BY <1>4 DEF UiFinish, Stage
  <2> QED
    BY <1>4, <2>1, <2>2, <2>3, <2>4 DEF UiFinish
<1>5. ASSUME NEW s \in Session, NEW a \in Session, UiRetains(s, a) PROVE TypeOK'
  <2>1. uiQueue' \in Seq(UiEvent)
    BY <1>5, ReceivesTypes DEF UiRetains
  <2>2. RetainTypeOK'
    BY <1>5 DEF UiRetains, ExpireTimer, Retained, Owner
  <2> QED
    BY <1>5, <2>1, <2>2 DEF UiRetains
<1> QED
  BY <1>1, <1>2, <1>3, <1>4, <1>5 DEF UiClosure

(* Clicks, handlers and timers on the UI thread keep the types.            *)
LEMMA UiTypeOK ==
    ASSUME TypeOK, Click \/ UiHandler \/ TimerFires
    PROVE  TypeOK'
PROOF
<1> USE DEF sessionVars, envVars, threadVars, deviceVars, retainVars, jobVars,
            historyVars, TypeOK, SessionTypeOK, EnvTypeOK, ThreadTypeOK, DeviceTypeOK,
            RetainTypeOK, JobTypeOK, HistoryTypeOK, Unowned,
            StoreRetain, StoreTake, StoreClear, StoreExpire
<1>1. CASE ClickFinish
  BY <1>1, FinishSessionTypes DEF ClickFinish
<1>2. CASE ClickCancel
  BY <1>2, CancelSessionTypes DEF ClickCancel, Thread
<1>3. CASE ClickPause
  <2>1. ThreadTypeOK'
    BY <1>3 DEF ClickPause, Goto, UiIdle, ShortcutPC, UiPC, Thread
  <2> QED
    BY <1>3, <2>1 DEF ClickPause
<1>4. CASE ClickUndo
  BY <1>4, EnterTypes DEF ClickUndo, UiPC, Thread
<1>5. CASE UiDropsAsr
  BY <1>5, ReturnTypes DEF UiDropsAsr, CancelAsr, Owner, Thread
<1>6. CASE RejectStopsAsr
  BY <1>6, GotoTypes DEF RejectStopsAsr, CancelAsr, Owner, UiPC, Thread
<1>7. CASE RejectStopsRecorder
  BY <1>7, ReturnTypes DEF RejectStopsRecorder, StopRecorder, Owner, Thread
<1>8. CASE UiMutes
  <2>1. ThreadTypeOK'
    BY <1>8, ReturnTypes DEF UiMutes, Thread
  <2>2. DeviceTypeOK'
    BY <1>8 DEF UiMutes
  <2> QED
    BY <1>8, <2>1, <2>2 DEF UiMutes
<1>9. CASE PauseCancels
  BY <1>9, CancelSessionTypes DEF PauseCancels, Thread
<1>10. CASE CancelStopsAsr("ui")
  BY <1>10, GotoTypes DEF CancelStopsAsr, CancelAsr, UiPC, Owner, Thread
<1>11. CASE CancelStopsRecorder("ui")
  <2>1. got' \in [Thread -> Owner]
    BY <1>11 DEF CancelStopsRecorder, Owner, Thread
  <2>2. ThreadTypeOK'
    BY <1>11, <2>1, GotoTypes DEF CancelStopsRecorder, UiPC, Thread
  <2> QED
    BY <1>11, <2>1, <2>2 DEF CancelStopsRecorder, StopRecorder, Owner
<1>12. CASE CancelReport("ui")
  <2>1. ThreadTypeOK'
    BY <1>12, ReturnTypes DEF CancelReport, Thread
  <2>2. arg["ui"] \in Session /\ got["ui"] \in Owner
    BY <1>12 DEF CancelReport, Thread
  <2>3. uiQueue' \in Seq(UiEvent)
    BY <1>12, <2>2, QueueTypes DEF CancelReport
  <2> QED
    BY <1>12, <2>1, <2>2, <2>3 DEF CancelReport
<1>13. CASE UndoBegins
  <2>1. ThreadTypeOK'
    BY <1>13, ReturnTypes, GotoTypes DEF UndoBegins, UiPC, Thread
  <2>2. SessionTypeOK'
    BY <1>13 DEF UndoBegins, BeginRetainedProcessing, SessionState, Thread
  <2> QED
    BY <1>13, <2>1, <2>2 DEF UndoBegins
<1>14. CASE UndoRestores
  <2>1. ThreadTypeOK'
    BY <1>14, ReturnTypes DEF UndoRestores, Thread
  <2>2. SessionTypeOK'
    BY <1>14 DEF UndoRestores, Complete, SessionState
  <2>3. HistoryTypeOK'
    BY <1>14 DEF UndoRestores, Restorable, Retained
  <2>4. \A r \in Restorable :
           [captured |-> FALSE, id |-> r.id, speech |-> r.audio] \in Handoff
    BY DEF Restorable, Retained, Handoff, Owner
  <2>5. arg["ui"] \in Session
    BY <1>14 DEF UndoRestores, Thread
  <2>6. job' \in [Session -> Stage]
    BY <1>14, <2>5 DEF UndoRestores, Stage
  <2>7. handoff' \in [Session -> Handoff]
    <3>1. PICK r \in Restorable :
             \/ handoff' = [handoff EXCEPT ![arg["ui"]] =
                     [captured |-> FALSE, id |-> r.id, speech |-> r.audio]]
             \/ UNCHANGED handoff
      BY <1>14 DEF UndoRestores
    <3> QED
      BY <2>4, <2>5, <3>1
  <2> QED
    BY <1>14, <2>1, <2>2, <2>3, <2>6, <2>7 DEF UndoRestores
<1>15. CASE UndoFindsNothing
  BY <1>15, ReturnTypes DEF UndoFindsNothing, Complete, SessionState, Thread
<1>16. ASSUME NEW s \in Session, MuteTimerFires(s) PROVE TypeOK'
  BY <1>16, EnterTypes DEF MuteTimerFires, UiPC, Thread
<1>17. ASSUME NEW g \in 1..generation, ExpireTimerFires(g) PROVE TypeOK'
  BY <1>17 DEF ExpireTimerFires
<1> QED
  BY <1>1, <1>2, <1>3, <1>4, <1>5, <1>6, <1>7, <1>8, <1>9, <1>10,
     <1>11, <1>12, <1>13, <1>14, <1>15, <1>16, <1>17 DEF Click,
     UiHandler, TimerFires, Cancelling

(* A worker keeps the types.                                               *)
LEMMA WorkerTypeOK ==
    ASSUME TypeOK, NEW s \in Session, WorkerStep(s)
    PROVE  TypeOK'
PROOF
<1> USE DEF sessionVars, envVars, threadVars, deviceVars, retainVars, jobVars,
            historyVars, TypeOK, SessionTypeOK, EnvTypeOK, ThreadTypeOK, DeviceTypeOK,
            RetainTypeOK, JobTypeOK, HistoryTypeOK, Unowned,
            StoreRetain, StoreTake, StoreClear, StoreExpire
<1>1. CASE WorkerStops(s)
  <2>1. job' \in [Session -> Stage]
    BY <1>1 DEF WorkerStops, WorkerAt, Stage
  <2>2. \A ok \in BOOLEAN :
           [captured |-> ok, id |-> s, speech |-> None] \in Handoff
    BY DEF Handoff, Owner
  <2>3. handoff' \in [Session -> Handoff]
    BY <1>1, <2>2 DEF WorkerStops
  <2>4. DeviceTypeOK'
    BY <1>1 DEF WorkerStops, StopRecorder, Owner
  <2> QED
    BY <1>1, <2>1, <2>3, <2>4 DEF WorkerStops, WorkerAt
<1>2. CASE WorkerTakes(s)
  <2>1. JobTypeOK'
    BY <1>2 DEF WorkerTakes, WorkerAt, Stage, Handoff
  <2>2. DeviceTypeOK'
    BY <1>2 DEF WorkerTakes, Owner
  <2> QED
    BY <1>2, <2>1, <2>2 DEF WorkerTakes, WorkerAt
<1>3. CASE WorkerDelivers(s)
  <2>1. JobTypeOK'
    BY <1>3 DEF WorkerDelivers, WorkerAt, Stage
  <2>2. deliveries' \in [Session -> Nat]
    BY <1>3 DEF WorkerDelivers
  <2>3. handoff[s].speech \in Owner
    BY <1>3 DEF WorkerDelivers, Handoff
  <2>4. spoken' \subseteq Owner
    BY <1>3, <2>3 DEF WorkerDelivers, Owner
  <2> QED
    BY <1>3, <2>1, <2>2, <2>3, <2>4 DEF WorkerDelivers, WorkerAt
<1>4. CASE WorkerCompletes(s)
  <2>1. JobTypeOK'
    BY <1>4 DEF WorkerCompletes, WorkerAt, Stage
  <2> QED
    BY <1>4, <2>1 DEF WorkerCompletes, WorkerAt, Complete, SessionState
<1> QED
  BY <1>1, <1>2, <1>3, <1>4 DEF WorkerStep

(* The audio thread and the end of the application keep the types.         *)
LEMMA OtherTypeOK ==
    ASSUME TypeOK, LimitReached \/ Quit \/ WindowLapses \/ PauseSave
    PROVE  TypeOK'
PROOF
<1> USE DEF sessionVars, envVars, threadVars, deviceVars, retainVars, jobVars,
            historyVars, TypeOK, SessionTypeOK, EnvTypeOK, ThreadTypeOK,
            DeviceTypeOK, RetainTypeOK, JobTypeOK, HistoryTypeOK, Unowned,
            StoreRetain, StoreTake, StoreClear, StoreExpire
<1>1. CASE LimitReached
  BY <1>1, FinishSessionTypes DEF LimitReached
<1>2. CASE Quit
  BY <1>2 DEF Quit
<1>3. CASE WindowLapses
  <2>1. \A r \in retained : [r EXCEPT !.lapsed = TRUE] \in Retained
    BY DEF Retained
  <2>2. RetainTypeOK'
    BY <1>3, <2>1 DEF WindowLapses, Restorable
  <2> QED
    BY <1>3, <2>2 DEF WindowLapses
<1>4. CASE PauseSave
  <2>1. ASSUME NEW attempted \in BOOLEAN, RollbackPause(attempted)
        PROVE  paused' \in BOOLEAN /\ spared' \subseteq Owner
    <3>1. paused' \in BOOLEAN
      BY <2>1 DEF RollbackPause
    <3>2. sid \in Owner
      BY DEF Owner
    <3>3. spared' = spared \/ spared' = {sid}
      BY <2>1 DEF RollbackPause
    <3> QED  BY <3>1, <3>2, <3>3
  <2>2. CASE SubmitPause
    <3>1. PICK attempted \in submitting :
             \/ saves' = Append(saves, attempted) /\ UNCHANGED <<paused, spared>>
             \/ RollbackPause(attempted) /\ UNCHANGED saves
      BY <2>2 DEF SubmitPause
    <3>2. attempted \in BOOLEAN /\ saves \in Seq(BOOLEAN)
      OBVIOUS
    <3>a. Append(saves, attempted) \in Seq(BOOLEAN)
      BY <3>2 DEF Seq
    <3>3. saves' \in Seq(BOOLEAN)
      BY <3>1, <3>2, <3>a
    <3>4. paused' \in BOOLEAN /\ spared' \subseteq Owner
      BY <2>1, <3>1, <3>2
    <3> QED  BY <2>2, <3>3, <3>4 DEF SubmitPause
  <2>3. CASE PauseSaveAnswered
    <3>1. saves # <<>> /\ saves' = Tail(saves)
      BY <2>3 DEF PauseSaveAnswered
    <3>2. Head(saves) \in BOOLEAN /\ saves' \in Seq(BOOLEAN)
      BY <3>1
    <3>3. paused' \in BOOLEAN /\ spared' \subseteq Owner
      BY <2>1, <2>3, <3>2 DEF PauseSaveAnswered
    <3> QED  BY <2>3, <3>2, <3>3 DEF PauseSaveAnswered
  <2> QED  BY <1>4, <2>2, <2>3 DEF PauseSave
<1> QED
  BY <1>1, <1>2, <1>3, <1>4

(* A step that changes nothing keeps the types.                            *)
LEMMA StutterTypeOK == TypeOK /\ UNCHANGED vars => TypeOK'
BY DEF vars, sessionVars, envVars, threadVars, deviceVars, retainVars, jobVars,
       historyVars, TypeOK, SessionTypeOK, EnvTypeOK, ThreadTypeOK,
       DeviceTypeOK, RetainTypeOK, JobTypeOK, HistoryTypeOK

(* Every variable keeps its type, in particular: a handler always works for*)
(* a session, and the store holds at most one cancelled recording.         *)
THEOREM TypeCorrect == Spec => []TypeOK
PROOF
<1>1. Init => TypeOK
  BY InitTypeOK
<1>2. TypeOK /\ [Next]_vars => TypeOK'
  BY ShortcutTypeOK, ClosureTypeOK, UiTypeOK, WorkerTypeOK, OtherTypeOK,
     StutterTypeOK DEF Next
<1> QED
  BY <1>1, <1>2, PTL DEF Spec
-----------------------------------------------------------------------------
(* The owner of the Finishing state.                                       *)
(*                                                                         *)
(* FinishHasOneOwner alone is not inductive: a second finish closure for   *)
(* the same session could still sit in the event loop's queue and start a  *)
(* second worker.  QueuedFinishes rules that out.                          *)

(* Finish closures in the queue stand for queued jobs, at most one.        *)
QueuedFinishes ==
    /\ \A i \in 1..Len(uiQueue) :
         uiQueue[i].type = "finish" => job[uiQueue[i].id] = "queued"
    /\ \A i, j \in 1..Len(uiQueue) :
         uiQueue[i].type = "finish" /\ uiQueue[j].type = "finish" => i = j

FinishInv == TypeOK /\ FinishHasOneOwner /\ QueuedFinishes

(* What a step that has no part in a finish does to its parts: the slot    *)
(* neither enters nor leaves Finishing, no undo starts or ends, the queue  *)
(* gains no finish closure.                                                *)
SlotKept ==
    \/ UNCHANGED <<state, sid>>
    \/ state # "Finishing" /\ state' # "Finishing"

UndoKept ==
    \/ pc'["ui"] = pc["ui"] /\ arg'["ui"] = arg["ui"]
    \/ pc["ui"] # "undoTake" /\ pc'["ui"] # "undoTake"

QueueKept ==
    \/ UNCHANGED uiQueue
    \/ uiQueue # <<>> /\ uiQueue' = Tail(uiQueue)
    \/ \E e \in UiEvent : e.type # "finish" /\ uiQueue' = Append(uiQueue, e)

NoPart == UNCHANGED job /\ SlotKept /\ UndoKept /\ QueueKept

(* Every closure in the queue works for a session.                         *)
LEMMA QueueIds ==
    ASSUME TypeOK
    PROVE  \A i \in 1..Len(uiQueue) : uiQueue[i].id \in Session
PROOF
<1>1. \A i \in 1..Len(uiQueue) : uiQueue[i] \in UiEvent
  BY DEF TypeOK
<1>2. \A e \in UiEvent : e.id \in Session
  BY DEF UiEvent
<1> QED
  BY <1>1, <1>2

(* Taking from the queue, or adding another closure, keeps QueuedFinishes. *)
LEMMA QueueKeptInv ==
    ASSUME TypeOK, QueuedFinishes, UNCHANGED job, QueueKept
    PROVE  QueuedFinishes'
PROOF
<1>0. uiQueue \in Seq(UiEvent)
  BY DEF TypeOK
<1>1. CASE UNCHANGED uiQueue
  BY <1>1 DEF QueuedFinishes
<1>2. CASE uiQueue # <<>> /\ uiQueue' = Tail(uiQueue)
  <2>1. /\ Len(uiQueue') = Len(uiQueue) - 1
        /\ \A i \in 1..Len(uiQueue') :
             uiQueue'[i] = uiQueue[i + 1] /\ i + 1 \in 1..Len(uiQueue)
    BY <1>0, <1>2
  <2>2. \A i \in 1..Len(uiQueue') :
          uiQueue'[i].type = "finish" => job'[uiQueue'[i].id] = "queued"
    BY <2>1 DEF QueuedFinishes
  <2>3. \A i, j \in 1..Len(uiQueue') :
          uiQueue'[i].type = "finish" /\ uiQueue'[j].type = "finish" => i = j
    <3>1. TAKE i, j \in 1..Len(uiQueue')
    <3>2. HAVE uiQueue'[i].type = "finish" /\ uiQueue'[j].type = "finish"
    <3>3. i + 1 = j + 1
      BY <2>1, <3>2 DEF QueuedFinishes
    <3> QED
      BY <1>0, <3>3
  <2> QED
    BY <2>2, <2>3 DEF QueuedFinishes
<1>3. ASSUME NEW e \in UiEvent, e.type # "finish", uiQueue' = Append(uiQueue, e)
      PROVE  QueuedFinishes'
  <2>1. /\ Len(uiQueue') = Len(uiQueue) + 1
        /\ \A i \in 1..Len(uiQueue) : uiQueue'[i] = uiQueue[i]
        /\ uiQueue'[Len(uiQueue) + 1] = e
    BY <1>0, <1>3
  <2>2. \A i \in 1..Len(uiQueue') :
          uiQueue'[i].type = "finish" =>
             i \in 1..Len(uiQueue) /\ uiQueue'[i] = uiQueue[i]
    BY <1>0, <1>3, <2>1
  <2> QED
    BY <2>2 DEF QueuedFinishes
<1> QED
  BY <1>1, <1>2, <1>3 DEF QueueKept

(* A step that has no part in a finish keeps the invariant.                *)
LEMMA NoPartInv ==
    ASSUME FinishInv, NoPart
    PROVE  FinishHasOneOwner' /\ QueuedFinishes'
PROOF
<1>1. QueuedFinishes'
  BY QueueKeptInv DEF FinishInv, NoPart
<1>2. FinishHasOneOwner'
  BY DEF FinishInv, FinishHasOneOwner, NoPart, SlotKept, UndoKept, Finishing,
     Undoing
<1> QED
  BY <1>1, <1>2

(* A finish takes the slot from a recording: nothing owned it before.      *)
LEMMA FinishSessionInv ==
    ASSUME FinishInv, FinishSession, UndoKept
    PROVE  FinishHasOneOwner' /\ QueuedFinishes'
PROOF
<1>1. state = "Recording" /\ sid \in Session
  BY DEF FinishInv, TypeOK, SessionTypeOK, FinishSession, RequestFinish, CanFinish
<1>2. \A s \in Session : ~Finishing(s) /\ ~Undoing(s)
  BY <1>1 DEF FinishInv, FinishHasOneOwner
<1>3. \A i \in 1..Len(uiQueue) : uiQueue[i].type # "finish"
  <2>1. \A i \in 1..Len(uiQueue) : uiQueue[i].id \in Session
    BY QueueIds DEF FinishInv
  <2> QED
    BY <1>2, <2>1 DEF FinishInv, QueuedFinishes, Finishing
<1>4. CASE loopAlive
  <2>1. /\ job' = [job EXCEPT ![sid] = "queued"]
        /\ uiQueue' = Append(uiQueue, Event("finish", sid, None))
        /\ state' = "Finishing" /\ sid' = sid
    BY <1>4 DEF FinishSession, RequestFinish, Queue
  <2>2. FinishHasOneOwner'
    BY <1>1, <1>2, <2>1 DEF FinishInv, TypeOK, JobTypeOK, FinishHasOneOwner,
       Finishing, Undoing, UndoKept
  <2>3. uiQueue \in Seq(UiEvent) /\ Event("finish", sid, None).id = sid
    BY DEF FinishInv, TypeOK, Event
  <2>4. job'[sid] = "queued"
    BY <1>1, <2>1 DEF FinishInv, TypeOK, JobTypeOK
  <2>5. \A i \in 1..Len(uiQueue') :
          uiQueue'[i].type = "finish" =>
             i = Len(uiQueue) + 1 /\ uiQueue'[i].id = sid
    BY <1>3, <2>1, <2>3
  <2>6. QueuedFinishes'
    BY <2>3, <2>4, <2>5 DEF QueuedFinishes
  <2> QED
    BY <2>2, <2>6
<1>5. CASE ~loopAlive
  BY <1>1, <1>2, <1>5, NoPartInv
     DEF FinishSession, Complete, jobVars, NoPart, SlotKept, QueueKept
<1> QED
  BY <1>4, <1>5

(* The keyboard and the shortcut thread, but for its finish, have no part. *)
LEMMA ShortcutNoPart ==
    ASSUME FinishInv, PressToggle \/ PressEscape \/ ShortcutStep, ~ToggleFinishes
    PROVE  NoPart
PROOF
<1> USE DEF sessionVars, threadVars, jobVars, NoPart, SlotKept, UndoKept,
            QueueKept, ThreadTypeOK, Thread, Unowned, Goto, Enter, Return
<1>0. TypeOK /\ ThreadTypeOK
  BY DEF FinishInv, TypeOK
<1>00. \A type \in {"started", "startFailed", "cancelled"}, s \in Session,
          audio \in Owner :
            /\ Event(type, s, audio) \in UiEvent
            /\ Event(type, s, audio).type # "finish"
  BY DEF Event, UiEvent
<1>1. CASE PressToggle
  BY <1>0, <1>1 DEF PressToggle
<1>2. CASE PressEscape
  BY <1>0, <1>2 DEF PressEscape
<1>3. CASE ToggleDropped
  BY <1>0, <1>3 DEF ToggleDropped
<1>4. ASSUME NEW s \in Session, ToggleBegins(s) PROVE NoPart
  BY <1>0, <1>4 DEF ToggleBegins, ToggleStarts
<1>17. CASE TakeToggle
  BY <1>0, <1>17 DEF TakeToggle
<1>18. CASE ToggleIgnored
  BY <1>0, <1>18 DEF ToggleIgnored
<1>5. CASE TakeCancel
  BY <1>0, <1>5 DEF TakeCancel, CancelSession, CanCancel, RequestCancel
<1>6. CASE BeginDenied
  BY <1>0, <1>6 DEF BeginDenied, StartupFailed
<1>7. CASE BeginPaused
  BY <1>0, <1>7 DEF BeginPaused, RequestCancelIfPossible, RequestCancel,
     CanCancel
<1>8. CASE BeginUnpaused
  BY <1>0, <1>8 DEF BeginUnpaused
<1>9. CASE BeginClear
  BY <1>0, <1>9 DEF BeginClear
<1>10. CASE BeginAsr
  BY <1>0, <1>10 DEF BeginAsr
<1>11. CASE BeginAsrFails
  BY <1>0, <1>11 DEF BeginAsrFails, StartupFailed
<1>12. CASE BeginMic
  BY <1>0, <1>12 DEF BeginMic
<1>13. CASE BeginReport
  <2>1. QueueKept
    <3>1. arg["shortcut"] \in Session
      BY <1>0, <1>13 DEF BeginReport
    <3>2. \/ UNCHANGED uiQueue
          \/ \E type \in {"started", "startFailed"} :
                uiQueue' = Append(uiQueue, Event(type, arg["shortcut"], None))
      BY <1>13 DEF BeginReport, Queue
    <3> QED
      BY <1>00, <3>1, <3>2 DEF Owner
  <2>2. SlotKept
    BY <1>13 DEF BeginReport, RequestCancelIfPossible, RequestCancel, CanCancel
  <2> QED
    BY <1>0, <1>13, <2>1, <2>2 DEF BeginReport
<1>14. CASE CancelStopsAsr("shortcut")
  BY <1>0, <1>14 DEF CancelStopsAsr
<1>15. CASE CancelStopsRecorder("shortcut")
  BY <1>0, <1>15 DEF CancelStopsRecorder
<1>16. CASE CancelReport("shortcut")
  BY <1>0, <1>16, <1>00 DEF CancelReport, Queue
<1> QED
  BY <1>1, <1>2, <1>3, <1>4, <1>5, <1>6, <1>7, <1>8, <1>9, <1>10,
     <1>11, <1>12, <1>13, <1>14, <1>15, <1>16, <1>17, <1>18 DEF ShortcutStep, Begin,
     Cancelling

(* The UI thread, but for finishes and undos, has no part in a finish.     *)
LEMMA UiNoPart ==
    ASSUME FinishInv, UiClosure \/ Click \/ UiHandler \/ TimerFires,
           \A s \in Session : ~UiFinish(s),
           ~(ClickFinish \/ UndoBegins \/ UndoRestores \/ UndoFindsNothing)
    PROVE  NoPart
PROOF
<1> USE DEF sessionVars, threadVars, jobVars, NoPart, SlotKept, UndoKept,
            QueueKept, ThreadTypeOK, Thread, Unowned, Goto, Enter, Return
<1>0. TypeOK /\ ThreadTypeOK
  BY DEF FinishInv, TypeOK
<1>00. \A type \in {"started", "startFailed", "cancelled"}, s \in Session,
          audio \in Owner :
            /\ Event(type, s, audio) \in UiEvent
            /\ Event(type, s, audio).type # "finish"
  BY DEF Event, UiEvent
<1>1. ASSUME NEW s \in Session, UiStartFailed(s) PROVE NoPart
  BY <1>0, <1>1 DEF UiStartFailed, Receives, UiIdle, StartupFailed
<1>2. ASSUME NEW s \in Session, UiStarted(s) PROVE NoPart
  BY <1>0, <1>2 DEF UiStarted, Receives, UiIdle, RecordingStarted
<1>3. ASSUME NEW s \in Session, UiStartRejected(s) PROVE NoPart
  BY <1>0, <1>3 DEF UiStartRejected, Receives, UiIdle, RecordingNotStarted
<1>4. ASSUME NEW s \in Session, NEW a \in Session, UiRetains(s, a) PROVE NoPart
  BY <1>0, <1>4 DEF UiRetains, Receives
<1>5. CASE ClickCancel
  BY <1>0, <1>5 DEF ClickCancel, UiIdle, CancelSession, CanCancel,
     RequestCancel
<1>6. CASE ClickPause
  BY <1>0, <1>6 DEF ClickPause, UiIdle
<1>7. CASE ClickUndo
  BY <1>0, <1>7 DEF ClickUndo, UiIdle
<1>8. CASE UiDropsAsr
  BY <1>0, <1>8 DEF UiDropsAsr
<1>9. CASE RejectStopsAsr
  BY <1>0, <1>9 DEF RejectStopsAsr
<1>10. CASE RejectStopsRecorder
  BY <1>0, <1>10 DEF RejectStopsRecorder
<1>11. CASE UiMutes
  BY <1>0, <1>11 DEF UiMutes
<1>12. CASE PauseCancels
  BY <1>0, <1>12 DEF PauseCancels, CancelSession, CanCancel, RequestCancel
<1>13. CASE CancelStopsAsr("ui")
  BY <1>0, <1>13 DEF CancelStopsAsr
<1>14. CASE CancelStopsRecorder("ui")
  BY <1>0, <1>14 DEF CancelStopsRecorder
<1>15. CASE CancelReport("ui")
  BY <1>0, <1>15, <1>00 DEF CancelReport, Queue
<1>16. ASSUME NEW s \in Session, MuteTimerFires(s) PROVE NoPart
  BY <1>0, <1>16 DEF MuteTimerFires, UiIdle
<1>17. ASSUME NEW g \in 1..generation, ExpireTimerFires(g) PROVE NoPart
  BY <1>0, <1>17 DEF ExpireTimerFires
<1> QED
  BY <1>1, <1>2, <1>3, <1>4, <1>5, <1>6, <1>7, <1>8, <1>9, <1>10,
     <1>11, <1>12, <1>13, <1>14, <1>15, <1>16, <1>17 DEF UiClosure,
     Click, UiHandler, TimerFires, Cancelling

(* The closure of a finish starts the one worker, or gives the slot up.    *)
LEMMA UiFinishInv ==
    ASSUME FinishInv, NEW s \in Session, UiFinish(s)
    PROVE  FinishHasOneOwner' /\ QueuedFinishes'
PROOF
<1>1. uiQueue \in Seq(UiEvent) /\ job \in [Session -> Stage] /\ ThreadTypeOK
  BY DEF FinishInv, TypeOK, JobTypeOK
<1>2. /\ uiQueue # <<>> /\ uiQueue[1].type = "finish" /\ uiQueue[1].id = s
      /\ uiQueue' = Tail(uiQueue) /\ pc["ui"] = "idle"
  BY <1>1 DEF UiFinish, Receives, UiIdle, Event
<1>3. 1 \in 1..Len(uiQueue)
  BY <1>1, <1>2
<1>4. job[s] = "queued"
  BY <1>2, <1>3 DEF FinishInv, QueuedFinishes
<1>5. QueuedFinishes'
  <2>1. /\ Len(uiQueue') = Len(uiQueue) - 1
        /\ \A i \in 1..Len(uiQueue') :
             uiQueue'[i] = uiQueue[i + 1] /\ i + 1 \in 1..Len(uiQueue) /\ i + 1 # 1
    BY <1>1, <1>2
  <2>2. \A i \in 1..Len(uiQueue') : uiQueue'[i].type # "finish"
    BY <1>2, <1>3, <2>1 DEF FinishInv, QueuedFinishes
  <2> QED
    BY <2>2 DEF QueuedFinishes
<1>6. /\ state = "Finishing" /\ sid = s
      /\ \A t \in Session : t # s => ~Finishing(t)
      /\ \A t \in Session : ~Undoing(t)
  BY <1>2, <1>4 DEF FinishInv, FinishHasOneOwner, Finishing, Undoing
<1>7. CASE job' = [job EXCEPT ![s] = "stop"] /\ UNCHANGED <<sessionVars, threadVars>>
  <2>1. job'[s] = "stop" /\ \A t \in Session : t # s => job'[t] = job[t]
    BY <1>1, <1>7
  <2>2. state' = "Finishing" /\ sid' = s
    BY <1>6, <1>7 DEF sessionVars
  <2>3. \A t \in Session : ~Undoing(t)'
    BY <1>6, <1>7 DEF Undoing, threadVars
  <2>4. Finishing(s)' /\ \A t \in Session : t # s => ~Finishing(t)'
    BY <1>6, <2>1 DEF Finishing
  <2> QED
    BY <1>5, <2>2, <2>3, <2>4 DEF FinishHasOneOwner
<1>8. CASE job' = [job EXCEPT ![s] = "failed"] /\ Complete /\ Enter("ui", "dropAsr", s)
  BY <1>1, <1>5, <1>6, <1>8 DEF FinishHasOneOwner, Finishing, Undoing, Complete,
     Enter, ThreadTypeOK, Thread
<1> QED
  BY <1>5, <1>7, <1>8 DEF UiFinish

(* An undo owns the slot it takes, and hands it to its worker or gives it  *)
(* up.                                                                     *)
LEMMA UndoInv ==
    ASSUME FinishInv, UndoBegins \/ UndoRestores \/ UndoFindsNothing
    PROVE  FinishHasOneOwner' /\ QueuedFinishes'
PROOF
<1>1. job \in [Session -> Stage] /\ ThreadTypeOK
  BY DEF FinishInv, TypeOK, JobTypeOK
<1>2. CASE UndoBegins
  <2>1. arg["ui"] \in Session
    BY <1>1, <1>2 DEF UndoBegins, ThreadTypeOK, Thread, Unowned
  <2>2. QueuedFinishes'
    BY <1>2 DEF UndoBegins, jobVars, FinishInv, QueuedFinishes
  <2>3. CASE state = "Idle"
    <3>1. /\ state' = "Finishing" /\ sid' = arg["ui"] /\ job' = job
          /\ pc'["ui"] = "undoTake" /\ arg' = arg
      BY <1>1, <1>2, <2>3
         DEF UndoBegins, BeginRetainedProcessing, Goto, jobVars, ThreadTypeOK,
             Thread
    <3>2. \A t \in Session : ~Finishing(t)
      BY <2>3 DEF FinishInv, FinishHasOneOwner
    <3>3. \A t \in Session : ~Finishing(t)' /\ (Undoing(t)' <=> t = arg["ui"])
      BY <3>1, <3>2 DEF Finishing, Undoing
    <3> QED
      BY <2>1, <2>2, <3>1, <3>3 DEF FinishHasOneOwner
  <2>4. CASE state # "Idle"
    <3>1. /\ UNCHANGED <<state, sid, job>>
          /\ pc["ui"] = "undoBegin" /\ pc'["ui"] = "idle"
      BY <1>1, <1>2, <2>4
         DEF UndoBegins, Return, sessionVars, jobVars, ThreadTypeOK, Thread
    <3> QED
      BY <2>2, <3>1 DEF FinishInv, FinishHasOneOwner, Finishing, Undoing
  <2> QED
    BY <2>3, <2>4
<1>3. ASSUME pc["ui"] = "undoTake"
      PROVE  /\ arg["ui"] \in Session /\ state = "Finishing" /\ sid = arg["ui"]
             /\ \A t \in Session : ~Finishing(t)
  <2>1. arg["ui"] \in Session /\ Undoing(arg["ui"])
    BY <1>1, <1>3 DEF ThreadTypeOK, Thread, Undoing, Unowned
  <2> QED
    BY <2>1 DEF FinishInv, FinishHasOneOwner
<1>4. CASE UndoRestores
  <2>1. /\ pc["ui"] = "undoTake" /\ Return("ui") /\ UNCHANGED uiQueue
        /\ \/ job' = [job EXCEPT ![arg["ui"]] = "deliver"] /\ UNCHANGED sessionVars
           \/ Complete /\ job' = [job EXCEPT ![arg["ui"]] = "failed"]
    BY <1>4 DEF UndoRestores, jobVars
  <2>2. pc'["ui"] = "idle"
    BY <1>1, <2>1 DEF Return, ThreadTypeOK, Thread
  <2>3. \A i \in 1..Len(uiQueue) : uiQueue[i].id \in Session
    BY QueueIds DEF FinishInv
  <2>4. QueuedFinishes'
    BY <1>1, <1>3, <2>1, <2>3 DEF FinishInv, QueuedFinishes, Finishing
  <2>5. FinishHasOneOwner'
    BY <1>1, <1>3, <2>1, <2>2 DEF FinishHasOneOwner, Finishing, Undoing, Complete,
       sessionVars
  <2> QED
    BY <2>4, <2>5
<1>5. CASE UndoFindsNothing
  <2>1. /\ pc["ui"] = "undoTake" /\ Return("ui") /\ Complete
        /\ UNCHANGED <<uiQueue, job>>
    BY <1>5 DEF UndoFindsNothing, jobVars
  <2>2. pc'["ui"] = "idle"
    BY <1>1, <2>1 DEF Return, ThreadTypeOK, Thread
  <2> QED
    BY <1>3, <2>1, <2>2 DEF FinishInv, QueuedFinishes, FinishHasOneOwner, Finishing,
       Undoing, Complete
<1> QED
  BY <1>2, <1>4, <1>5

(* A worker passes the slot on from stage to stage and gives it up at the  *)
(* end; no finish closure waits for its session.                           *)
LEMMA WorkerInv ==
    ASSUME FinishInv, NEW s \in Session, WorkerStep(s)
    PROVE  FinishHasOneOwner' /\ QueuedFinishes'
PROOF
<1>1. job \in [Session -> Stage]
  BY DEF FinishInv, TypeOK, JobTypeOK
<1>2. PICK from \in {"stop", "take", "deliver", "complete"},
           to \in {"take", "deliver", "complete", "done"} :
             /\ WorkerAt(s, from, to)
             /\ \/ to # "done" /\ UNCHANGED <<state, sid>>
                \/ to = "done" /\ state' = "Idle"
  BY DEF WorkerStep, WorkerStops, WorkerTakes, WorkerDelivers, WorkerCompletes,
     Complete, sessionVars
<1>3. /\ job[s] = from /\ job' = [job EXCEPT ![s] = to]
      /\ UNCHANGED <<uiQueue, pc, arg>>
  BY <1>2 DEF WorkerAt, threadVars
<1>4. /\ state = "Finishing" /\ sid = s
      /\ \A t \in Session : t # s => ~Finishing(t)
      /\ \A t \in Session : ~Undoing(t)
  BY <1>2, <1>3 DEF FinishInv, FinishHasOneOwner, Finishing, Undoing
<1>5. FinishHasOneOwner'
  BY <1>1, <1>2, <1>3, <1>4 DEF FinishHasOneOwner, Finishing, Undoing
<1>6. QueuedFinishes'
  <2>1. \A i \in 1..Len(uiQueue) : uiQueue[i].id \in Session
    BY QueueIds DEF FinishInv
  <2> QED
    BY <1>1, <1>2, <1>3, <2>1 DEF FinishInv, QueuedFinishes
<1> QED
  BY <1>5, <1>6

LEMMA InitFinishInv == Init => FinishInv
BY InitTypeOK DEF Init, SessionInit, FinishInv, FinishHasOneOwner, QueuedFinishes, Finishing,
   Undoing, Thread

LEMMA FinishInvStep ==
    ASSUME FinishInv, [Next]_vars
    PROVE  FinishInv'
<1> SUFFICES FinishHasOneOwner' /\ QueuedFinishes'
  BY ShortcutTypeOK, ClosureTypeOK, UiTypeOK, WorkerTypeOK, OtherTypeOK,
     StutterTypeOK DEF Next, FinishInv
<1>0. ThreadTypeOK
  BY DEF FinishInv, TypeOK
<1>1. CASE ToggleFinishes \/ ClickFinish \/ LimitReached
  BY <1>0, <1>1, FinishSessionInv
     DEF ToggleFinishes, ClickFinish, LimitReached, Return, UndoKept,
         ThreadTypeOK, Thread, threadVars
<1>2. CASE (PressToggle \/ PressEscape \/ ShortcutStep) /\ ~ToggleFinishes
  BY <1>2, ShortcutNoPart, NoPartInv
<1>3. CASE UndoBegins \/ UndoRestores \/ UndoFindsNothing
  BY <1>3, UndoInv
<1>4. ASSUME NEW s \in Session, UiFinish(s)
      PROVE  FinishHasOneOwner' /\ QueuedFinishes'
  BY <1>4, UiFinishInv
<1>5. CASE /\ UiClosure \/ Click \/ UiHandler \/ TimerFires
           /\ \A s \in Session : ~UiFinish(s)
           /\ ~(ClickFinish \/ UndoBegins \/ UndoRestores \/ UndoFindsNothing)
  BY <1>5, UiNoPart, NoPartInv
<1>6. ASSUME NEW s \in Session, WorkerStep(s)
      PROVE  FinishHasOneOwner' /\ QueuedFinishes'
  BY <1>6, WorkerInv
<1>7. CASE Quit \/ WindowLapses \/ PauseSave \/ UNCHANGED vars
  BY <1>7, NoPartInv DEF Quit, WindowLapses, PauseSave, SubmitPause, PauseSaveAnswered, vars, sessionVars, threadVars,
     jobVars, NoPart, SlotKept, UndoKept, QueueKept
<1> QED
  BY <1>1, <1>2, <1>3, <1>4, <1>5, <1>6, <1>7 DEF Next

(* For any number of sessions and any interleaving of the threads, the     *)
(* Finishing state has exactly one owner, a queued finish, a worker or an  *)
(* undo, and it is the session in the slot: the complete() of one session  *)
(* never ends another.                                                     *)
THEOREM FinishOwned == Spec => []FinishHasOneOwner
<1>1. FinishInv /\ [Next]_vars => FinishInv'
  BY FinishInvStep
<1>2. FinishInv => FinishHasOneOwner
  BY DEF FinishInv
<1> QED  BY InitFinishInv, <1>1, <1>2, PTL DEF Spec

-----------------------------------------------------------------------------
(* Deliveries.                                                             *)
(*                                                                         *)
(* The right to deliver the text of a session is in one place at a time:   *)
(* with the slot and the worker that finishes for it, with the thread that *)
(* cancels it, with the closure that brings its recording to the store, or *)
(* with the store.                                                         *)

CancelPC == {"cancelAsr", "cancelMic", "cancelReport"}

SlotIds ==
    {s \in Session :
        \/ sid = s /\ state \in {"Starting", "Recording"}
        \/ sid = s /\ state = "Finishing" /\ job[s] \in {"queued", "stop", "take"}
        \/ state = "Finishing" /\ job[sid] = "deliver" /\ handoff[sid].id = s}
ShortcutIds == {s \in Session : pc["shortcut"] \in CancelPC /\ arg["shortcut"] = s}
UiIds == {s \in Session : pc["ui"] \in CancelPC /\ arg["ui"] = s}
Brings(i) == uiQueue[i].type = "cancelled"
QueuedIds == {s \in Session :
                 \E i \in 1..Len(uiQueue) : Brings(i) /\ uiQueue[i].id = s}
KeptIds == {s \in Session : \E r \in retained : r.id = s}
WaitingIds == ShortcutIds \cup UiIds \cup QueuedIds \cup KeptIds

PlacesInv ==
    /\ SlotIds \cap WaitingIds = {} /\ ShortcutIds \cap UiIds = {}
    /\ (ShortcutIds \cup UiIds) \cap (QueuedIds \cup KeptIds) = {}
    /\ QueuedIds \cap KeptIds = {}

QueueOnce ==
    \A i, j \in 1..Len(uiQueue) :
        Brings(i) /\ Brings(j) /\ uiQueue[i].id = uiQueue[j].id => i = j

(* Who has the right was not delivered yet; a cancelled session has it     *)
(* again only after an undo.                                               *)
RightsInv ==
    \A s \in Session :
        /\ s \in SlotIds \cup WaitingIds => deliveries[s] = 0 /\ s \in used
        /\ deliveries[s] > 0 \/ s \in cancelled => s \in used
        /\ s \in cancelled /\ (s \in SlotIds \/ deliveries[s] > 0) => s \in restored
        /\ deliveries[s] <= 1

HandoffInv == \A s \in Session : job[s] = "take" => handoff[s].id = s

DeliverInv == FinishInv /\ PlacesInv /\ QueueOnce /\ RightsInv /\ HandoffInv

(* What a step does that gives nobody a right: no place gains a session.   *)
QueueGainsNone ==
    \/ UNCHANGED uiQueue
    \/ uiQueue # <<>> /\ uiQueue' = Tail(uiQueue)
    \/ \E e \in UiEvent : e.type # "cancelled" /\ uiQueue' = Append(uiQueue, e)

Plain ==
    /\ SlotIds' \subseteq SlotIds /\ ShortcutIds' \subseteq ShortcutIds
    /\ UiIds' \subseteq UiIds /\ KeptIds' \subseteq KeptIds
    /\ QueueGainsNone /\ HandoffInv'
    /\ UNCHANGED <<deliveries, cancelled, restored>> /\ used \subseteq used'

LEMMA BringsQueued ==
    ASSUME NEW s \in Session, NEW i \in 1..Len(uiQueue), uiQueue[i].type = "cancelled",
           uiQueue[i].id = s
    PROVE  s \in QueuedIds
BY DEF QueuedIds, Brings

LEMMA QueueLoses ==
    ASSUME TypeOK, QueueOnce, uiQueue # <<>>, uiQueue' = Tail(uiQueue)
    PROVE  /\ QueuedIds' \subseteq QueuedIds /\ QueueOnce'
           /\ Brings(1) => uiQueue[1].id \in QueuedIds \ QueuedIds'
<1>1. uiQueue \in Seq(UiEvent)
  BY DEF TypeOK
<1>2. /\ Len(uiQueue') = Len(uiQueue) - 1 /\ Len(uiQueue) \in Nat
      /\ 1 \in 1..Len(uiQueue)
      /\ \A i \in 1..Len(uiQueue') :
            uiQueue'[i] = uiQueue[i + 1] /\ i + 1 \in 2..Len(uiQueue)
  BY <1>1
<1>3. \A i \in 1..Len(uiQueue') : i + 1 \in 1..Len(uiQueue) /\ i + 1 # 1
  BY <1>2
<1>4. QueuedIds' \subseteq QueuedIds
  BY <1>2, <1>3 DEF QueuedIds, Brings
<1>5. QueueOnce'
  <2>1. SUFFICES ASSUME NEW i \in 1..Len(uiQueue'), NEW j \in 1..Len(uiQueue'),
                        uiQueue'[i].type = "cancelled", uiQueue'[j].type = "cancelled",
                        uiQueue'[i].id = uiQueue'[j].id
                 PROVE  i = j
    BY DEF QueueOnce, Brings
  <2>2. i + 1 = j + 1
    BY <1>2, <1>3, <2>1 DEF QueueOnce, Brings
  <2> QED  BY <1>2, <2>2
<1>6. ASSUME Brings(1) PROVE uiQueue[1].id \in QueuedIds \ QueuedIds'
  <2>1. uiQueue[1].id \in QueuedIds
    BY <1>2, <1>6, QueueIds DEF QueuedIds
  <2>2. ASSUME NEW i \in 1..Len(uiQueue'), uiQueue'[i].type = "cancelled",
               uiQueue'[i].id = uiQueue[1].id
        PROVE  FALSE
    BY <1>2, <1>3, <1>6, <2>2 DEF QueueOnce, Brings
  <2> QED  BY <2>1, <2>2 DEF QueuedIds, Brings
<1> QED  BY <1>4, <1>5, <1>6

LEMMA QueueGains ==
    ASSUME TypeOK, QueueOnce, NEW e \in UiEvent, uiQueue' = Append(uiQueue, e),
           e.type = "cancelled" => e.id \notin QueuedIds
    PROVE  /\ \A s \in QueuedIds' : s \in QueuedIds \/ (e.type = "cancelled" /\ e.id = s)
           /\ QueueOnce'
<1>1. uiQueue \in Seq(UiEvent)
  BY DEF TypeOK
<1>2. /\ Len(uiQueue') = Len(uiQueue) + 1 /\ Len(uiQueue) \in Nat
      /\ uiQueue'[Len(uiQueue) + 1] = e
      /\ \A i \in 1..Len(uiQueue) : uiQueue'[i] = uiQueue[i]
  BY <1>1
<1>3. \A i \in 1..Len(uiQueue') : i \in 1..Len(uiQueue) \/ i = Len(uiQueue) + 1
  BY <1>2
<1>4. ASSUME NEW s \in QueuedIds'
      PROVE  s \in QueuedIds \/ (e.type = "cancelled" /\ e.id = s)
  <2>1. s \in Session
    BY DEF QueuedIds
  <2>2. PICK i \in 1..Len(uiQueue') : uiQueue'[i].type = "cancelled" /\ uiQueue'[i].id = s
    BY DEF QueuedIds, Brings
  <2>3. CASE i \in 1..Len(uiQueue)
    <3>1. uiQueue[i].type = "cancelled" /\ uiQueue[i].id = s
      BY <1>2, <2>2, <2>3
    <3>2. s \in QueuedIds
      BY <2>1, <2>3, <3>1, BringsQueued
    <3> QED  BY <3>2
  <2>4. CASE i = Len(uiQueue) + 1
    BY <1>2, <2>2, <2>4
  <2> QED  BY <1>3, <2>3, <2>4
<1>5. ASSUME NEW i \in 1..Len(uiQueue'), NEW j \in 1..Len(uiQueue'),
             uiQueue'[i].type = "cancelled", uiQueue'[j].type = "cancelled",
             uiQueue'[i].id = uiQueue'[j].id
      PROVE  i = j
  <2>1. ASSUME NEW k \in 1..Len(uiQueue), uiQueue[k].type = "cancelled",
               e.type = "cancelled"
        PROVE  uiQueue[k].id # e.id
    BY <2>1, QueueIds DEF QueuedIds, Brings
  <2>2. CASE i \in 1..Len(uiQueue) /\ j \in 1..Len(uiQueue)
    BY <1>2, <1>5, <2>2 DEF QueueOnce, Brings
  <2>3. CASE i \in 1..Len(uiQueue) /\ j = Len(uiQueue) + 1
    BY <1>2, <1>5, <2>1, <2>3
  <2>4. CASE i = Len(uiQueue) + 1 /\ j \in 1..Len(uiQueue)
    BY <1>2, <1>5, <2>1, <2>4
  <2> QED  BY <1>3, <2>2, <2>3, <2>4
<1> QED  BY <1>4, <1>5 DEF QueueOnce, Brings

LEMMA PlainKeeps ==
    ASSUME DeliverInv, Plain
    PROVE  PlacesInv' /\ QueueOnce' /\ RightsInv' /\ HandoffInv'
<1>1. QueuedIds' \subseteq QueuedIds /\ QueueOnce'
  <2>1. CASE UNCHANGED uiQueue
    BY <2>1 DEF DeliverInv, QueuedIds, QueueOnce, Brings
  <2>2. CASE uiQueue # <<>> /\ uiQueue' = Tail(uiQueue)
    BY <2>2, QueueLoses DEF DeliverInv, FinishInv
  <2>3. ASSUME NEW e \in UiEvent, e.type # "cancelled", uiQueue' = Append(uiQueue, e)
        PROVE  QueuedIds' \subseteq QueuedIds /\ QueueOnce'
    BY <2>3, QueueGains DEF DeliverInv, FinishInv
  <2> QED  BY <2>1, <2>2, <2>3 DEF Plain, QueueGainsNone
<1>2. WaitingIds' \subseteq WaitingIds
  BY <1>1 DEF Plain, WaitingIds
<1>3. PlacesInv'
  BY <1>1, <1>2 DEF Plain, DeliverInv, PlacesInv
<1>4. RightsInv'
  BY <1>2 DEF Plain, DeliverInv, RightsInv
<1> QED  BY <1>1, <1>3, <1>4 DEF Plain

-----------------------------------------------------------------------------
(* The steps that give nobody a right.                                     *)

LEMMA SlotIdsKept ==
    ASSUME UNCHANGED <<state, sid, job, handoff>>
    PROVE  SlotIds' = SlotIds
BY DEF SlotIds

(* A thread that starts no cancel.                                         *)
ThreadsPlain ==
    \A t \in Thread : \/ pc'[t] = pc[t] /\ arg'[t] = arg[t]
                      \/ pc'[t] \notin CancelPC
                      \/ pc[t] \in CancelPC /\ arg'[t] = arg[t]

LEMMA ThreadIdsLess ==
    ASSUME TypeOK, ThreadsPlain
    PROVE  ShortcutIds' \subseteq ShortcutIds /\ UiIds' \subseteq UiIds
BY DEF ThreadsPlain, Thread, ShortcutIds, UiIds

(* A finish keeps the right with the slot.                                 *)
LEMMA FinishSessionPlain ==
    ASSUME DeliverInv, FinishSession
    PROVE  SlotIds' \subseteq SlotIds /\ QueueGainsNone /\ HandoffInv' /\ UNCHANGED used
<1>1. /\ state = "Recording" /\ sid \in Session /\ UNCHANGED <<used, handoff>>
      /\ job \in [Session -> Stage]
  BY DEF FinishSession, RequestFinish, CanFinish, Complete, jobVars, DeliverInv, FinishInv,
         TypeOK, SessionTypeOK, JobTypeOK
<1>2. CASE loopAlive
  <2>1. Event("finish", sid, None) \in UiEvent /\ Event("finish", sid, None).type = "finish"
    BY <1>1 DEF Event, UiEvent, Owner
  <2>2. /\ job' = [job EXCEPT ![sid] = "queued"] /\ state' = "Finishing" /\ sid' = sid
        /\ uiQueue' = Append(uiQueue, Event("finish", sid, None))
    BY <1>2 DEF FinishSession, RequestFinish, Queue
  <2>3. SlotIds' \subseteq SlotIds /\ HandoffInv'
    BY <1>1, <2>2 DEF SlotIds, HandoffInv, DeliverInv
  <2> QED  BY <1>1, <2>1, <2>2, <2>3 DEF QueueGainsNone
<1>3. CASE ~loopAlive
  BY <1>1, <1>3 DEF FinishSession, Complete, SlotIds, HandoffInv, DeliverInv, jobVars,
                    QueueGainsNone
<1> QED  BY <1>2, <1>3

(* The shortcut thread, but for a new session and a cancel.                *)
LEMMA ShortcutPlain ==
    ASSUME DeliverInv, PressToggle \/ PressEscape \/ ShortcutStep,
           \A s \in Session : ~ToggleBegins(s),
           ~TakeCancel, ~CancelReport("shortcut")
    PROVE  Plain
<1> USE DEF sessionVars, threadVars, jobVars, retainVars, historyVars, Unowned, Goto, Enter,
            Return, QueueGainsNone, CancelPC
<1>0. /\ TypeOK /\ ThreadTypeOK /\ HandoffInv
      /\ pc \in [Thread -> ShortcutPC \cup UiPC] /\ arg \in [Thread -> Owner]
  BY DEF DeliverInv, FinishInv, TypeOK, ThreadTypeOK
<1>00. \A type \in {"started", "startFailed"}, s \in Session :
            /\ Event(type, s, None) \in UiEvent
            /\ Event(type, s, None).type # "cancelled"
  BY DEF Event, UiEvent, Owner
<1>a. ASSUME ThreadsPlain, UNCHANGED <<state, sid, used, job, handoff, uiQueue,
                                       deliveries, cancelled, restored>>,
             retained' \subseteq retained
      PROVE  Plain
  BY <1>0, <1>a, ThreadIdsLess, SlotIdsKept DEF Plain, ThreadsPlain, HandoffInv, KeptIds
<1>1. CASE PressToggle \/ PressEscape \/ ToggleDropped
  BY <1>1, <1>a DEF PressToggle, PressEscape, ToggleDropped, ThreadsPlain
<1>2. CASE ToggleFinishes
  <2>1. ThreadsPlain
    BY <1>0, <1>2 DEF ToggleFinishes, ThreadsPlain, Thread
  <2> QED
    BY <1>0, <1>2, <2>1, ThreadIdsLess, FinishSessionPlain
       DEF ToggleFinishes, ThreadsPlain, Plain, KeptIds
<1>3. CASE TakeToggle \/ ToggleIgnored
  BY <1>0, <1>3, <1>a DEF TakeToggle, ToggleIgnored, ThreadsPlain, Thread
<1>4. CASE BeginUnpaused \/ BeginAsr \/ BeginMic
  BY <1>0, <1>4, <1>a DEF BeginUnpaused, BeginAsr, BeginMic, ThreadsPlain, Thread
<1>5. CASE BeginClear
  BY <1>0, <1>5, <1>a DEF BeginClear, StoreClear, ThreadsPlain, Thread
<1>6. CASE BeginDenied \/ BeginPaused \/ BeginAsrFails
  <2>1. ThreadsPlain
    BY <1>0, <1>6 DEF BeginDenied, BeginPaused, BeginAsrFails, ThreadsPlain, Thread
  <2>2. SlotIds' \subseteq SlotIds
    BY <1>6 DEF BeginDenied, BeginPaused, BeginAsrFails, StartupFailed,
                RequestCancelIfPossible, RequestCancel, CanCancel, SlotIds
  <2>3. /\ UNCHANGED <<used, job, handoff, uiQueue, deliveries, cancelled, restored,
                       retained>>
    BY <1>6 DEF BeginDenied, BeginPaused, BeginAsrFails, StartupFailed,
                RequestCancelIfPossible, RequestCancel
  <2> QED
    BY <1>0, <2>1, <2>2, <2>3, ThreadIdsLess DEF ThreadsPlain, Plain, HandoffInv, KeptIds
<1>7. CASE BeginReport
  <2>1. ThreadsPlain
    BY <1>0, <1>7 DEF BeginReport, ThreadsPlain, Thread
  <2>2. SlotIds' \subseteq SlotIds
    BY <1>7 DEF BeginReport, RequestCancelIfPossible, RequestCancel, CanCancel, SlotIds
  <2>3. QueueGainsNone
    <3>1. arg["shortcut"] \in Session
      BY <1>0, <1>7 DEF BeginReport, ThreadTypeOK, Thread
    <3>2. \/ UNCHANGED uiQueue
          \/ \E type \in {"started", "startFailed"} :
                uiQueue' = Append(uiQueue, Event(type, arg["shortcut"], None))
      BY <1>7 DEF BeginReport, Queue
    <3> QED  BY <1>00, <3>1, <3>2
  <2>4. UNCHANGED <<used, job, handoff, deliveries, cancelled, restored, retained>>
    BY <1>7 DEF BeginReport, RequestCancelIfPossible, RequestCancel
  <2> QED
    BY <1>0, <2>1, <2>2, <2>3, <2>4, ThreadIdsLess
       DEF ThreadsPlain, Plain, HandoffInv, KeptIds
<1>8. CASE CancelStopsAsr("shortcut") \/ CancelStopsRecorder("shortcut")
  BY <1>0, <1>8, <1>a DEF CancelStopsAsr, CancelStopsRecorder, ThreadsPlain, Thread
<1> QED
  BY <1>1, <1>2, <1>3, <1>4, <1>5, <1>6, <1>7, <1>8 DEF ShortcutStep, Begin, Cancelling

(* The UI thread, but for what is retained or restored and its cancels.    *)
LEMMA UiPlain ==
    ASSUME DeliverInv, UiClosure \/ Click \/ UiHandler \/ TimerFires,
           \A s, a \in Session : ~UiRetains(s, a),
           ~(ClickCancel \/ PauseCancels \/ CancelReport("ui") \/ UndoRestores)
    PROVE  Plain
<1> USE DEF sessionVars, envVars, threadVars, jobVars, retainVars, historyVars, Unowned,
            Goto, Enter, Return, QueueGainsNone, CancelPC
<1>0. /\ TypeOK /\ ThreadTypeOK /\ HandoffInv
      /\ pc \in [Thread -> ShortcutPC \cup UiPC] /\ arg \in [Thread -> Owner]
  BY DEF DeliverInv, FinishInv, TypeOK, ThreadTypeOK
<1>a. ASSUME ThreadsPlain, SlotIds' \subseteq SlotIds, retained' \subseteq retained,
             QueueGainsNone,
             UNCHANGED <<used, job, handoff, deliveries, cancelled, restored>>
      PROVE  Plain
  BY <1>0, <1>a, ThreadIdsLess DEF Plain, ThreadsPlain, HandoffInv, KeptIds
<1>1. ASSUME NEW s \in Session, UiStartFailed(s) \/ UiStarted(s) \/ UiStartRejected(s)
      PROVE  Plain
  <2>1. ThreadsPlain
    BY <1>0, <1>1 DEF UiStartFailed, UiStarted, UiStartRejected, ThreadsPlain, Thread
  <2>2. SlotIds' \subseteq SlotIds
    BY <1>1 DEF UiStartFailed, UiStarted, UiStartRejected, StartupFailed, RecordingStarted,
                RecordingNotStarted, SlotIds
  <2>3. /\ uiQueue # <<>> /\ uiQueue' = Tail(uiQueue)
        /\ UNCHANGED <<used, job, handoff, deliveries, cancelled, restored, retained>>
    BY <1>1 DEF UiStartFailed, UiStarted, UiStartRejected, StartupFailed, RecordingStarted,
                RecordingNotStarted, Receives
  <2> QED  BY <1>a, <2>1, <2>2, <2>3
<1>2. ASSUME NEW s \in Session, UiFinish(s) PROVE Plain
  <2>1. uiQueue \in Seq(UiEvent) /\ job \in [Session -> Stage]
    BY <1>0 DEF TypeOK, JobTypeOK
  <2>2. /\ uiQueue # <<>> /\ uiQueue[1].type = "finish" /\ uiQueue[1].id = s
        /\ uiQueue' = Tail(uiQueue)
    BY <2>1, <1>2 DEF UiFinish, Receives, Event
  <2>3. 1 \in 1..Len(uiQueue)
    BY <2>1, <2>2
  <2>4. job[s] = "queued"
    BY <2>2, <2>3 DEF DeliverInv, FinishInv, QueuedFinishes
  <2>5. state = "Finishing" /\ sid = s
    BY <2>4 DEF DeliverInv, FinishInv, FinishHasOneOwner, Finishing
  <2>6. ThreadsPlain
    BY <1>0, <1>2 DEF UiFinish, ThreadsPlain, Thread
  <2>7. SlotIds' \subseteq SlotIds
    BY <1>2, <2>1, <2>4, <2>5 DEF UiFinish, Complete, SlotIds
  <2>8. HandoffInv'
    BY <1>0, <1>2, <2>1 DEF UiFinish, HandoffInv
  <2>9. UNCHANGED <<used, deliveries, cancelled, restored, retained>>
    BY <1>2 DEF UiFinish, Complete
  <2> QED
    BY <1>0, <2>2, <2>6, <2>7, <2>8, <2>9, ThreadIdsLess DEF Plain, ThreadsPlain, KeptIds
<1>3. CASE ClickFinish
  BY <1>0, <1>3, FinishSessionPlain, ThreadIdsLess DEF ThreadsPlain, ClickFinish, Plain, KeptIds
<1>4. CASE ClickPause \/ ClickUndo \/ UiDropsAsr \/ RejectStopsAsr \/ RejectStopsRecorder
           \/ UiMutes \/ CancelStopsAsr("ui") \/ CancelStopsRecorder("ui")
  <2>1. ThreadsPlain
    BY <1>0, <1>4 DEF ClickPause, ClickUndo, UiDropsAsr, RejectStopsAsr,
       RejectStopsRecorder, UiMutes, CancelStopsAsr, CancelStopsRecorder, ThreadsPlain, Thread
  <2>2. UNCHANGED <<state, sid, used, job, handoff, uiQueue, deliveries, cancelled,
                    restored, retained>>
    BY <1>4 DEF ClickPause, ClickUndo, UiDropsAsr, RejectStopsAsr, RejectStopsRecorder,
       UiMutes, CancelStopsAsr, CancelStopsRecorder
  <2> QED  BY <1>a, <2>1, <2>2, SlotIdsKept
<1>5. CASE UndoBegins \/ UndoFindsNothing
  <2>1. ThreadsPlain
    BY <1>0, <1>5 DEF UndoBegins, UndoFindsNothing, ThreadsPlain, Thread
  <2>2. UNCHANGED <<used, job, handoff, uiQueue, deliveries, cancelled, restored>>
    BY <1>5 DEF UndoBegins, BeginRetainedProcessing, UndoFindsNothing, Complete
  <2>3. retained' \subseteq retained
    BY <1>5 DEF UndoBegins, UndoFindsNothing, StoreTake
  <2>4. SlotIds' \subseteq SlotIds
    <3>1. CASE UndoBegins /\ state = "Idle"
      <4>1. state' = "Finishing" /\ sid' = arg["ui"] /\ arg["ui"] \in Session
        BY <1>0, <3>1 DEF UndoBegins, BeginRetainedProcessing, ThreadTypeOK, Thread
      <4>2. ~Finishing(arg["ui"])
        BY <3>1, <4>1 DEF DeliverInv, FinishInv, FinishHasOneOwner
      <4> QED  BY <2>2, <4>1, <4>2 DEF SlotIds, Finishing
    <3>2. CASE UndoBegins /\ state # "Idle"
      BY <3>2, SlotIdsKept DEF UndoBegins
    <3>3. CASE UndoFindsNothing
      BY <3>3 DEF UndoFindsNothing, Complete, SlotIds
    <3> QED  BY <1>5, <3>1, <3>2, <3>3
  <2> QED  BY <1>a, <2>1, <2>2, <2>3, <2>4
<1>6. ASSUME NEW s \in Session, MuteTimerFires(s) PROVE Plain
  <2>1. ThreadsPlain
    BY <1>0, <1>6 DEF MuteTimerFires, ThreadsPlain, Thread
  <2>2. UNCHANGED <<state, sid, used, job, handoff, uiQueue, deliveries, cancelled,
                    restored, retained>>
    BY <1>6 DEF MuteTimerFires
  <2> QED  BY <1>a, <2>1, <2>2, SlotIdsKept
<1>7. ASSUME NEW g \in 1..generation, ExpireTimerFires(g) PROVE Plain
  <2>1. ThreadsPlain
    BY <1>7 DEF ExpireTimerFires, ThreadsPlain
  <2>2. /\ UNCHANGED <<state, sid, used, job, handoff, uiQueue, deliveries, cancelled,
                       restored>>
        /\ retained' \subseteq retained
    BY <1>7 DEF ExpireTimerFires, StoreExpire
  <2> QED  BY <1>a, <2>1, <2>2, SlotIdsKept
<1> QED
  BY <1>1, <1>2, <1>3, <1>4, <1>5, <1>6, <1>7
     DEF UiClosure, Click, UiHandler, TimerFires, Cancelling

(* A worker before the delivery and after it.                              *)
LEMMA WorkerPlain ==
    ASSUME DeliverInv, NEW s \in Session,
           WorkerStops(s) \/ WorkerTakes(s) \/ WorkerCompletes(s)
    PROVE  Plain
<1> USE DEF sessionVars, envVars, threadVars, jobVars, retainVars, WorkerAt
<1>1. /\ TypeOK /\ job \in [Session -> Stage] /\ handoff \in [Session -> Handoff]
      /\ HandoffInv
  BY DEF DeliverInv, FinishInv, TypeOK, JobTypeOK
<1>2. state = "Finishing" /\ sid = s
  BY DEF WorkerStops, WorkerTakes, WorkerCompletes, DeliverInv, FinishInv,
         FinishHasOneOwner, Finishing
<1>3. UNCHANGED <<used, uiQueue, pc, arg, retained, deliveries, cancelled, restored>>
  BY DEF WorkerStops, WorkerTakes, WorkerCompletes, Complete
<1>4. SlotIds' \subseteq SlotIds /\ HandoffInv'
  <2>1. CASE WorkerStops(s)
    <3>1. /\ job[s] = "stop" /\ job' = [job EXCEPT ![s] = "take"]
          /\ \E ok \in BOOLEAN : handoff' = [handoff EXCEPT ![s] =
                                    [captured |-> ok, id |-> s, speech |-> None]]
          /\ UNCHANGED <<state, sid>>
      BY <2>1 DEF WorkerStops
    <3>2. handoff'[s].id = s
      BY <1>1, <3>1
    <3> QED  BY <1>1, <1>2, <3>1, <3>2 DEF SlotIds, HandoffInv
  <2>2. CASE WorkerTakes(s)
    <3>1. /\ job[s] = "take" /\ job'[s] \in {"deliver", "complete"}
          /\ \A x \in Session : x # s => job'[x] = job[x] /\ handoff'[x] = handoff[x]
          /\ handoff'[s].id = handoff[s].id
          /\ UNCHANGED <<state, sid>>
      BY <1>1, <2>2 DEF WorkerTakes, Handoff
    <3>2. handoff[s].id = s
      BY <1>1, <3>1 DEF HandoffInv
    <3> QED  BY <1>1, <1>2, <3>1, <3>2 DEF SlotIds, HandoffInv
  <2>3. CASE WorkerCompletes(s)
    BY <1>1, <2>3 DEF WorkerCompletes, Complete, SlotIds, HandoffInv
  <2> QED  BY <2>1, <2>2, <2>3
<1> QED
  BY <1>1, <1>3, <1>4, ThreadIdsLess DEF ThreadsPlain, Plain, QueueGainsNone, KeptIds

(* The time limit, the end of the application and the undo window.         *)
LEMMA OtherPlain ==
    ASSUME DeliverInv, LimitReached \/ Quit \/ WindowLapses \/ PauseSave \/ UNCHANGED vars
    PROVE  Plain
<1> USE DEF sessionVars, envVars, threadVars, jobVars, retainVars, historyVars,
            QueueGainsNone
<1>0. TypeOK /\ HandoffInv
  BY DEF DeliverInv, FinishInv
<1>1. CASE LimitReached
  BY <1>0, <1>1, FinishSessionPlain, ThreadIdsLess DEF ThreadsPlain, LimitReached, Plain, KeptIds
<1>2. CASE Quit \/ PauseSave \/ UNCHANGED vars
  BY <1>0, <1>2, SlotIdsKept, ThreadIdsLess DEF ThreadsPlain, Quit, PauseSave, SubmitPause, PauseSaveAnswered, vars, Plain, KeptIds, HandoffInv
<1>3. CASE WindowLapses
  <2>1. KeptIds' \subseteq KeptIds
    <3>1. PICK r \in retained : retained' = {[r EXCEPT !.lapsed = TRUE]}
      BY <1>3 DEF WindowLapses, Restorable
    <3>2. [r EXCEPT !.lapsed = TRUE].id = r.id
      BY <1>0 DEF TypeOK, RetainTypeOK, Retained
    <3> QED  BY <3>1, <3>2 DEF KeptIds
  <2> QED
    BY <1>0, <1>3, <2>1, SlotIdsKept, ThreadIdsLess DEF ThreadsPlain, WindowLapses, Plain, HandoffInv
<1> QED  BY <1>1, <1>2, <1>3

-----------------------------------------------------------------------------
(* The steps that move a right.                                            *)

Moved == PlacesInv' /\ QueueOnce' /\ RightsInv' /\ HandoffInv'

(* A new session has the right with the slot.                              *)
LEMMA BeginMoves ==
    ASSUME DeliverInv, NEW s \in Session, ToggleBegins(s)
    PROVE  Moved
<1> USE DEF envVars, jobVars, retainVars, historyVars
<1>1. /\ s \notin used /\ SlotIds' = {s}
      /\ UNCHANGED <<job, handoff, uiQueue, retained, deliveries, cancelled, restored>>
      /\ used' = used \cup {s}
  BY DEF ToggleBegins, ToggleStarts, SlotIds
<1>2. /\ ShortcutIds' \subseteq ShortcutIds /\ UiIds' \subseteq UiIds
  BY ThreadIdsLess
     DEF ThreadsPlain, ToggleBegins, Enter, CancelPC, Thread, DeliverInv, FinishInv, TypeOK, ThreadTypeOK
<1>3. QueuedIds' = QueuedIds /\ KeptIds' = KeptIds /\ QueueOnce' /\ HandoffInv'
  BY <1>1 DEF QueuedIds, KeptIds, QueueOnce, Brings, HandoffInv, DeliverInv
<1>4. WaitingIds' \subseteq WaitingIds /\ s \notin WaitingIds
  BY <1>1, <1>2, <1>3 DEF WaitingIds, DeliverInv, RightsInv
<1>5. PlacesInv'
  BY <1>1, <1>2, <1>3, <1>4 DEF DeliverInv, PlacesInv
<1>6. RightsInv'
  <2>1. deliveries \in [Session -> Nat]
    BY DEF DeliverInv, FinishInv, TypeOK, HistoryTypeOK
  <2>2. deliveries[s] = 0 /\ s \notin cancelled
    BY <1>1, <2>1 DEF DeliverInv, RightsInv
  <2> QED  BY <1>1, <1>4, <2>2 DEF DeliverInv, RightsInv
<1> QED  BY <1>3, <1>5, <1>6 DEF Moved

(* A cancel takes it from the slot to the thread that cancels.             *)
LEMMA CancelMoves ==
    ASSUME DeliverInv, TakeCancel \/ ClickCancel \/ PauseCancels
    PROVE  Moved
<1> USE DEF sessionVars, envVars, jobVars, retainVars, historyVars
<1>0. /\ TypeOK /\ pc \in [Thread -> ShortcutPC \cup UiPC] /\ arg \in [Thread -> Owner]
      /\ HandoffInv
  BY DEF DeliverInv, FinishInv, TypeOK, ThreadTypeOK
<1>1. PICK t \in Thread : pc[t] \in Unowned /\ CancelSession(t)
  BY DEF TakeCancel, Takes, ClickCancel, PauseCancels, UiIdle, Thread, Unowned
<1>2. UNCHANGED <<used, job, handoff, uiQueue, retained, deliveries, restored>>
  BY <1>1 DEF TakeCancel, ClickCancel, PauseCancels, CancelSession, RequestCancel
<1>3. QueuedIds' = QueuedIds /\ KeptIds' = KeptIds /\ QueueOnce' /\ HandoffInv'
  BY <1>2 DEF QueuedIds, KeptIds, QueueOnce, Brings, HandoffInv, DeliverInv
<1>4. CASE ~CanCancel
  <2>1. UNCHANGED <<state, sid, cancelled>> /\ Return(t)
    BY <1>1, <1>4 DEF CancelSession
  <2>2. ShortcutIds' \subseteq ShortcutIds /\ UiIds' \subseteq UiIds
    BY <1>0, <2>1, ThreadIdsLess DEF ThreadsPlain, Return, CancelPC, Thread
  <2> QED
    BY <1>2, <1>3, <2>1, <2>2, SlotIdsKept, PlainKeeps
       DEF Plain, KeptIds, QueueGainsNone, Moved
<1>5. CASE CanCancel
  <2>1. /\ sid \in Session /\ sid \in SlotIds /\ SlotIds' = {}
        /\ cancelled' = cancelled \cup {sid}
    BY <1>0, <1>1, <1>2, <1>5
       DEF CancelSession, CanCancel, RequestCancel, SlotIds, TypeOK, SessionTypeOK
  <2>2. /\ pc' = [pc EXCEPT ![t] = "cancelAsr"] /\ arg' = [arg EXCEPT ![t] = sid]
        /\ pc[t] \notin CancelPC
    BY <1>1, <1>5 DEF CancelSession, Enter, Unowned, CancelPC
  <2>3. \/ ShortcutIds' = {sid} /\ UiIds' = UiIds
        \/ UiIds' = {sid} /\ ShortcutIds' = ShortcutIds
    <3>1. CASE t = "shortcut"
      BY <1>0, <2>1, <2>2, <3>1 DEF ShortcutIds, UiIds, CancelPC, Thread
    <3>2. CASE t = "ui"
      BY <1>0, <2>1, <2>2, <3>2 DEF ShortcutIds, UiIds, CancelPC, Thread
    <3> QED  BY <3>1, <3>2 DEF Thread
  <2>4. sid \notin WaitingIds
    BY <2>1 DEF DeliverInv, PlacesInv
  <2>5. PlacesInv'
    BY <1>3, <2>1, <2>3, <2>4 DEF DeliverInv, PlacesInv, WaitingIds
  <2>6. \A s \in WaitingIds' : s \in WaitingIds \/ s = sid
    BY <1>3, <2>3 DEF WaitingIds
  <2>7. RightsInv'
    <3>1. deliveries[sid] = 0 /\ sid \in used
      BY <2>1 DEF DeliverInv, RightsInv
    <3> QED  BY <1>2, <2>1, <2>6, <3>1 DEF DeliverInv, RightsInv
  <2> QED  BY <1>3, <2>5, <2>7 DEF Moved
<1> QED  BY <1>4, <1>5

(* The end of a cancel passes it on with the recording, or drops it.       *)
LEMMA ReportMoves ==
    ASSUME DeliverInv, NEW t \in Thread, CancelReport(t)
    PROVE  Moved
<1> USE DEF sessionVars, envVars, jobVars, retainVars, historyVars
<1>0. /\ TypeOK /\ pc \in [Thread -> ShortcutPC \cup UiPC] /\ arg \in [Thread -> Owner]
      /\ got \in [Thread -> Owner] /\ arg[t] \in Session /\ HandoffInv /\ QueueOnce
  BY DEF DeliverInv, FinishInv, TypeOK, ThreadTypeOK, CancelReport, Unowned
<1>1. UNCHANGED <<state, sid, used, job, handoff, retained, deliveries, cancelled, restored>>
  BY DEF CancelReport
<1>2. /\ SlotIds' = SlotIds /\ KeptIds' = KeptIds /\ HandoffInv'
  BY <1>1, SlotIdsKept DEF KeptIds, HandoffInv, DeliverInv
<1>3. /\ ShortcutIds' \subseteq ShortcutIds /\ UiIds' \subseteq UiIds
      /\ arg[t] \in ShortcutIds \cup UiIds /\ arg[t] \notin ShortcutIds' \cup UiIds'
  <2>1. /\ pc' = [pc EXCEPT ![t] = "idle"] /\ arg' = [arg EXCEPT ![t] = None]
        /\ pc[t] = "cancelReport"
    BY DEF CancelReport, Return
  <2>2. ShortcutIds' \subseteq ShortcutIds /\ UiIds' \subseteq UiIds
    BY <1>0, <2>1, ThreadIdsLess DEF ThreadsPlain, CancelPC, Thread
  <2>3. CASE t = "shortcut"
    BY <1>0, <2>1, <2>2, <2>3 DEF ShortcutIds, UiIds, CancelPC, Thread, DeliverInv, PlacesInv
  <2>4. CASE t = "ui"
    BY <1>0, <2>1, <2>2, <2>4 DEF ShortcutIds, UiIds, CancelPC, Thread, DeliverInv, PlacesInv
  <2> QED  BY <2>2, <2>3, <2>4 DEF Thread
<1>4. CASE UNCHANGED uiQueue
  BY <1>1, <1>2, <1>3, <1>4, PlainKeeps DEF Plain, QueueGainsNone, Moved
<1>5. CASE ~UNCHANGED uiQueue
  <2> DEFINE e == Event("cancelled", arg[t], got[t])
  <2>1. e \in UiEvent /\ e.id = arg[t] /\ uiQueue' = Append(uiQueue, e)
    BY <1>0, <1>5 DEF CancelReport, Queue, Event, UiEvent
  <2>2. arg[t] \notin QueuedIds \cup KeptIds \cup SlotIds
    BY <1>3 DEF DeliverInv, PlacesInv, WaitingIds
  <2> HIDE DEF e
  <2>3. QueueOnce' /\ \A s \in QueuedIds' : s \in QueuedIds \/ s = arg[t]
    BY <1>0, <2>1, <2>2, QueueGains
  <2>4. WaitingIds' \subseteq WaitingIds
    BY <1>2, <1>3, <2>3 DEF WaitingIds
  <2>5. PlacesInv'
    BY <1>2, <1>3, <2>2, <2>3, <2>4 DEF DeliverInv, PlacesInv
  <2>6. RightsInv'
    BY <1>1, <1>2, <2>4 DEF DeliverInv, RightsInv
  <2> QED  BY <1>2, <2>3, <2>5, <2>6 DEF Moved
<1> QED  BY <1>4, <1>5

(* The closure of a cancel takes it from the queue to the store.           *)
LEMMA RetainMoves ==
    ASSUME DeliverInv, NEW s \in Session, NEW a \in Session, UiRetains(s, a)
    PROVE  Moved
<1> USE DEF sessionVars, envVars, threadVars, jobVars, historyVars
<1>0. TypeOK /\ QueueOnce /\ HandoffInv /\ uiQueue \in Seq(UiEvent)
  BY DEF DeliverInv, FinishInv, TypeOK
<1>1. /\ UNCHANGED <<state, sid, used, pc, arg, job, handoff, deliveries, cancelled,
                     restored>>
      /\ \E r : r.id = s /\ retained' = {r}
  BY DEF UiRetains, StoreRetain
<1>2. /\ uiQueue # <<>> /\ uiQueue' = Tail(uiQueue)
      /\ uiQueue[1].type = "cancelled" /\ uiQueue[1].id = s
  BY <1>0 DEF UiRetains, Receives, Event
<1>3. QueuedIds' \subseteq QueuedIds /\ QueueOnce' /\ s \in QueuedIds \ QueuedIds'
  BY <1>0, <1>2, QueueLoses DEF Brings
<1>4. KeptIds' \subseteq {s}
  BY <1>1 DEF KeptIds
<1>5. SlotIds' = SlotIds /\ ShortcutIds' = ShortcutIds /\ UiIds' = UiIds /\ HandoffInv'
  BY <1>0, <1>1, SlotIdsKept DEF ShortcutIds, UiIds, HandoffInv
<1>6. WaitingIds' \subseteq WaitingIds
  BY <1>3, <1>4, <1>5 DEF WaitingIds
<1>7. PlacesInv'
  BY <1>3, <1>4, <1>5, <1>6 DEF DeliverInv, PlacesInv
<1>8. RightsInv'
  BY <1>1, <1>5, <1>6 DEF DeliverInv, RightsInv
<1> QED  BY <1>3, <1>5, <1>7, <1>8 DEF Moved

(* An undo takes it from the store to the slot.                            *)
LEMMA UndoMoves ==
    ASSUME DeliverInv, UndoRestores
    PROVE  Moved
<1> USE DEF sessionVars, envVars
<1>0. /\ TypeOK /\ QueueOnce /\ HandoffInv /\ ThreadTypeOK
      /\ job \in [Session -> Stage] /\ handoff \in [Session -> Handoff]
  BY DEF DeliverInv, FinishInv, TypeOK, JobTypeOK
<1>1. PICK r \in retained :
        /\ restored' = restored \cup {r.id}
        /\ \/ /\ job' = [job EXCEPT ![arg["ui"]] = "deliver"]
              /\ handoff' = [handoff EXCEPT ![arg["ui"]] =
                    [captured |-> FALSE, id |-> r.id, speech |-> r.audio]]
              /\ UNCHANGED <<state, sid, used>>
           \/ /\ job' = [job EXCEPT ![arg["ui"]] = "failed"]
              /\ Complete /\ UNCHANGED handoff
  BY DEF UndoRestores, Restorable
<1>2. /\ UNCHANGED <<used, uiQueue, deliveries, cancelled>> /\ KeptIds' = {}
  BY <1>1 DEF UndoRestores, Complete, StoreTake, KeptIds
<1>3. arg["ui"] \in Session /\ state = "Finishing" /\ sid = arg["ui"]
  <2>1. arg["ui"] \in Session /\ Undoing(arg["ui"])
    BY <1>0 DEF UndoRestores, ThreadTypeOK, Thread, Undoing, Unowned
  <2> QED  BY <2>1 DEF DeliverInv, FinishInv, FinishHasOneOwner
<1>4. r.id \in Session /\ r.id \in KeptIds
  BY <1>0 DEF TypeOK, RetainTypeOK, Retained, KeptIds
<1>5. SlotIds' \subseteq {r.id}
  BY <1>0, <1>1, <1>3 DEF SlotIds, Complete
<1>6. HandoffInv'
  BY <1>0, <1>1, <1>3 DEF HandoffInv
<1>7. ShortcutIds' \subseteq ShortcutIds /\ UiIds' \subseteq UiIds
  BY <1>0, ThreadIdsLess DEF ThreadsPlain, UndoRestores, Return, CancelPC, Thread, ThreadTypeOK
<1>8. QueuedIds' = QueuedIds /\ QueueOnce'
  BY <1>0, <1>2 DEF QueuedIds, QueueOnce, Brings
<1>9. WaitingIds' \subseteq WaitingIds /\ r.id \in WaitingIds /\ r.id \notin WaitingIds'
  BY <1>2, <1>4, <1>7, <1>8 DEF WaitingIds, DeliverInv, PlacesInv
<1>10. PlacesInv'
  BY <1>2, <1>5, <1>7, <1>8, <1>9 DEF DeliverInv, PlacesInv
<1>11. RightsInv'
  BY <1>1, <1>2, <1>5, <1>9 DEF DeliverInv, RightsInv
<1> QED  BY <1>6, <1>8, <1>10, <1>11 DEF Moved

(* A delivery uses it up.                                                  *)
LEMMA DeliveryMoves ==
    ASSUME DeliverInv, NEW s \in Session, WorkerDelivers(s)
    PROVE  Moved
<1> USE DEF sessionVars, envVars, threadVars, retainVars
<1>0. /\ TypeOK /\ HandoffInv /\ job \in [Session -> Stage]
      /\ deliveries \in [Session -> Nat]
  BY DEF DeliverInv, FinishInv, TypeOK, JobTypeOK, HistoryTypeOK
<1> DEFINE id == handoff[s].id
<1>1. /\ job[s] = "deliver" /\ job' = [job EXCEPT ![s] = "complete"]
      /\ UNCHANGED <<state, sid, used, pc, arg, uiQueue, retained, handoff, cancelled,
                     restored>>
      /\ \/ UNCHANGED deliveries
         \/ deliveries' = [deliveries EXCEPT ![id] = @ + 1]
  BY DEF WorkerDelivers, WorkerAt
<1>2. state = "Finishing" /\ sid = s
  BY <1>1 DEF DeliverInv, FinishInv, FinishHasOneOwner, Finishing
<1>3. SlotIds' = {} /\ (id \in Session => id \in SlotIds) /\ HandoffInv'
  BY <1>0, <1>1, <1>2 DEF SlotIds, HandoffInv
<1>4. /\ ShortcutIds' = ShortcutIds /\ UiIds' = UiIds /\ QueuedIds' = QueuedIds
      /\ KeptIds' = KeptIds /\ QueueOnce'
  BY <1>1 DEF ShortcutIds, UiIds, QueuedIds, KeptIds, QueueOnce, Brings, DeliverInv
<1>5. WaitingIds' = WaitingIds
  BY <1>4 DEF WaitingIds
<1>6. PlacesInv'
  BY <1>3, <1>4, <1>5 DEF DeliverInv, PlacesInv
<1>7. RightsInv'
  <2> HIDE DEF id
  <2>1. CASE UNCHANGED deliveries
    BY <1>1, <1>3, <1>5, <2>1 DEF DeliverInv, RightsInv
  <2>2. CASE deliveries' = [deliveries EXCEPT ![id] = @ + 1]
    <3>1. \A x \in Session : deliveries'[x] = IF x = id THEN deliveries[x] + 1
                                                        ELSE deliveries[x]
      BY <1>0, <2>2
    <3>2. id \in Session =>
            /\ deliveries[id] = 0 /\ id \in used /\ id \notin WaitingIds
            /\ id \in cancelled => id \in restored
      BY <1>3 DEF DeliverInv, RightsInv, PlacesInv
    <3> QED  BY <1>1, <1>3, <1>5, <3>1, <3>2 DEF DeliverInv, RightsInv
  <2> QED  BY <1>1, <2>1, <2>2
<1> QED  BY <1>3, <1>4, <1>6, <1>7 DEF Moved

LEMMA DeliverStep ==
    ASSUME DeliverInv, [Next]_vars
    PROVE  DeliverInv'
<1>1. FinishInv'
  BY FinishInvStep DEF DeliverInv
<1>2. CASE Plain
  BY <1>1, <1>2, PlainKeeps DEF DeliverInv
<1>3. ASSUME NEW s \in Session, ToggleBegins(s) PROVE DeliverInv'
  BY <1>1, <1>3, BeginMoves DEF DeliverInv, Moved
<1>4. CASE TakeCancel \/ ClickCancel \/ PauseCancels
  BY <1>1, <1>4, CancelMoves DEF DeliverInv, Moved
<1>5. CASE CancelReport("shortcut") \/ CancelReport("ui")
  BY <1>1, <1>5, ReportMoves DEF DeliverInv, Moved, Thread
<1>6. ASSUME NEW s \in Session, NEW a \in Session, UiRetains(s, a) PROVE DeliverInv'
  BY <1>1, <1>6, RetainMoves DEF DeliverInv, Moved
<1>7. CASE UndoRestores
  BY <1>1, <1>7, UndoMoves DEF DeliverInv, Moved
<1>8. ASSUME NEW s \in Session, WorkerStep(s) PROVE DeliverInv'
  <2>1. CASE WorkerDelivers(s)
    BY <1>1, <2>1, DeliveryMoves DEF DeliverInv, Moved
  <2>2. CASE ~WorkerDelivers(s)
    BY <1>2, <1>8, <2>2, WorkerPlain DEF WorkerStep
  <2> QED  BY <2>1, <2>2
<1>9. CASE PressToggle \/ PressEscape \/ ShortcutStep
  BY <1>2, <1>3, <1>4, <1>5, <1>9, ShortcutPlain
<1>10. CASE UiClosure \/ Click \/ UiHandler \/ TimerFires
  BY <1>2, <1>4, <1>5, <1>6, <1>7, <1>10, UiPlain
<1>11. CASE LimitReached \/ Quit \/ WindowLapses \/ PauseSave \/ UNCHANGED vars
  BY <1>2, <1>11, OtherPlain
<1> QED  BY <1>8, <1>9, <1>10, <1>11 DEF Next

LEMMA InitDeliverInv == Init => DeliverInv
<1> SUFFICES ASSUME Init PROVE DeliverInv
  OBVIOUS
<1>1. FinishInv
  BY InitFinishInv
<1>2. /\ SlotIds = {} /\ WaitingIds = {} /\ uiQueue = <<>>
  BY DEF Init, SessionInit, SlotIds, WaitingIds, ShortcutIds, UiIds, QueuedIds, KeptIds,
         CancelPC, Thread
<1>3. PlacesInv /\ QueueOnce
  BY <1>2 DEF PlacesInv, WaitingIds, QueueOnce
<1> QED
  BY <1>1, <1>2, <1>3 DEF Init, SessionInit, DeliverInv, RightsInv, HandoffInv

(* For any number of sessions and however toggles, cancels, undos, limits, *)
(* timers and workers meet: the text of a session is delivered once at     *)
(* most, and that of a cancelled session only after an undo took its       *)
(* recording back.                                                         *)
THEOREM DeliveryCorrect == Spec => []DeliveredAsWanted
<1>1. Init => DeliverInv
  BY InitDeliverInv
<1>2. DeliverInv /\ [Next]_vars => DeliverInv'
  BY DeliverStep
<1>3. DeliverInv => DeliveredAsWanted
  BY DEF DeliverInv, RightsInv, DeliveredAsWanted, DeliveredAtMostOnce,
         CancelledIsNotDelivered, FinishInv, TypeOK, HistoryTypeOK
<1> QED  BY <1>1, <1>2, <1>3, PTL DEF Spec
-----------------------------------------------------------------------------
(* The refinement of DictationLifecycle.                                   *)

Live == {"Starting", "Recording"}
Undo == {"undoBegin", "undoTake"}

(* The identity in the slot, and the one an undo works for, were used.     *)
UsedInv ==
    /\ sid # None => sid \in used
    /\ pc["ui"] \in Undo => arg["ui"] \in used

LifeInv == DeliverInv /\ UsedInv

UsedPlain ==
    /\ used \subseteq used' /\ sid' \in {sid, None}
    /\ pc'["ui"] \in Undo => pc["ui"] \in Undo /\ arg'["ui"] = arg["ui"]

LEMMA UsedPlainKeeps ==
    ASSUME UsedInv, UsedPlain
    PROVE  UsedInv'
BY DEF UsedInv, UsedPlain

(* What can change at all in the slot and the undo: see the actions.       *)
LEMMA UsedStep ==
    ASSUME LifeInv, [Next]_vars
    PROVE  UsedInv'
<1> USE DEF sessionVars, envVars, threadVars, jobVars, Unowned, Undo, Goto, Enter, Return,
            Thread
<1>0. /\ UsedInv /\ ThreadTypeOK
      /\ pc \in [Thread -> ShortcutPC \cup UiPC] /\ arg \in [Thread -> Owner]
  BY DEF LifeInv, DeliverInv, FinishInv, TypeOK, ThreadTypeOK
<1>1. ASSUME NEW s \in Session, ToggleBegins(s) PROVE UsedInv'
  BY <1>0, <1>1 DEF ToggleBegins, ToggleStarts, UsedInv
<1>2. CASE ClickUndo
  BY <1>0, <1>2 DEF ClickUndo, UiIdle, UsedInv
<1>3. CASE UndoBegins
  BY <1>0, <1>3 DEF UndoBegins, BeginRetainedProcessing, UsedInv, ThreadTypeOK
<1>4. CASE (PressToggle \/ PressEscape \/ ShortcutStep)
           /\ (\A s \in Session : ~ToggleBegins(s))
  <2>1. pc'["ui"] = pc["ui"] /\ arg'["ui"] = arg["ui"]
    BY <1>0, <1>4 DEF PressToggle, PressEscape, ShortcutStep, Begin, Cancelling, ToggleDropped,
       TakeToggle, ToggleFinishes, ToggleIgnored, TakeCancel, CancelSession, BeginDenied,
       BeginPaused, BeginUnpaused, BeginClear, BeginAsr, BeginAsrFails, BeginMic, BeginReport,
       CancelStopsAsr, CancelStopsRecorder, CancelReport
  <2>2. used' = used /\ sid' \in {sid, None}
    BY <1>4 DEF PressToggle, PressEscape, ShortcutStep, Begin, Cancelling, ToggleDropped,
       TakeToggle, ToggleFinishes, ToggleIgnored, TakeCancel, CancelSession, BeginDenied,
       BeginPaused, BeginUnpaused, BeginClear, BeginAsr, BeginAsrFails, BeginMic, BeginReport,
       CancelStopsAsr, CancelStopsRecorder, CancelReport, FinishSession, RequestFinish,
       Complete, RequestCancel, RequestCancelIfPossible, StartupFailed
  <2> QED  BY <1>0, <2>1, <2>2, UsedPlainKeeps DEF UsedPlain
<1>5. CASE UiClosure
  <2>1. used' = used /\ sid' \in {sid, None}
    BY <1>5 DEF UiClosure, UiStartFailed, UiStarted, UiStartRejected, UiFinish, UiRetains,
       StartupFailed, RecordingStarted, RecordingNotStarted, Complete
  <2>2. pc'["ui"] \notin Undo
    BY <1>0, <1>5 DEF UiClosure, UiStartFailed, UiStarted, UiStartRejected, UiFinish,
       UiRetains, Receives, UiIdle
  <2> QED  BY <1>0, <2>1, <2>2, UsedPlainKeeps DEF UsedPlain
<1>6. CASE ClickFinish \/ ClickCancel \/ ClickPause \/ PauseCancels
  <2>1. used' = used /\ sid' \in {sid, None}
    BY <1>6 DEF ClickFinish, ClickCancel, ClickPause, PauseCancels, FinishSession,
       RequestFinish, Complete, CancelSession, RequestCancel
  <2>2. pc'["ui"] \notin Undo
    BY <1>0, <1>6 DEF ClickFinish, ClickCancel, ClickPause, PauseCancels, UiIdle,
       CancelSession
  <2> QED  BY <1>0, <2>1, <2>2, UsedPlainKeeps DEF UsedPlain
<1>7. CASE UiDropsAsr \/ RejectStopsAsr \/ RejectStopsRecorder \/ UiMutes \/ Cancelling("ui")
           \/ UndoRestores \/ UndoFindsNothing
  <2>1. used' = used /\ sid' \in {sid, None}
    BY <1>7 DEF UiDropsAsr, RejectStopsAsr, RejectStopsRecorder, UiMutes, Cancelling,
       CancelStopsAsr, CancelStopsRecorder, CancelReport, UndoRestores, UndoFindsNothing,
       Complete
  <2>2. pc'["ui"] \notin Undo
    BY <1>0, <1>7 DEF UiDropsAsr, RejectStopsAsr, RejectStopsRecorder, UiMutes, Cancelling,
       CancelStopsAsr, CancelStopsRecorder, CancelReport, UndoRestores, UndoFindsNothing
  <2> QED  BY <1>0, <2>1, <2>2, UsedPlainKeeps DEF UsedPlain
<1>8. CASE TimerFires
  <2>1. used' = used /\ sid' = sid /\ pc'["ui"] \notin Undo
    BY <1>0, <1>8 DEF TimerFires, MuteTimerFires, ExpireTimerFires, UiIdle
  <2> QED  BY <1>0, <2>1, UsedPlainKeeps DEF UsedPlain
<1>9. CASE LimitReached \/ Quit \/ WindowLapses \/ PauseSave \/ UNCHANGED vars
           \/ \E s \in Session : WorkerStep(s)
  <2>1. used' = used /\ sid' \in {sid, None} /\ UNCHANGED <<pc, arg>>
    BY <1>9 DEF LimitReached, FinishSession, RequestFinish, Complete, Quit, WindowLapses, vars,
       PauseSave, SubmitPause, PauseSaveAnswered,
       WorkerStep, WorkerStops, WorkerTakes, WorkerDelivers, WorkerCompletes, WorkerAt
  <2> QED  BY <1>0, <2>1, UsedPlainKeeps DEF UsedPlain
<1> QED
  BY <1>1, <1>2, <1>3, <1>4, <1>5, <1>6, <1>7, <1>8, <1>9
     DEF Next, Click, UiHandler, ShortcutStep

(* The phase of every session, before and after a step.                    *)
PhaseIs(s, phase) ==
    /\ sid # s => phase = IF s \in used THEN "over" ELSE "new"
    /\ sid = s /\ state \in Live => phase = "live"
    /\ sid = s /\ state = "Idle" => phase = "cancelled"
    /\ sid = s /\ state = "Finishing" =>
          phase = IF job[s] = "complete" THEN "closing" ELSE "finishing"

LEMMA Phases ==
    ASSUME TypeOK
    PROVE  /\ phaseBar = [s \in Session |-> phaseBar[s]]
           /\ \A s \in Session : PhaseIs(s, phaseBar[s])
BY DEF phaseBar, PhaseIs, Live, TypeOK, SessionTypeOK, SessionState

LEMMA PhasesNext ==
    ASSUME TypeOK'
    PROVE  /\ phaseBar' = [s \in Session |-> phaseBar'[s]]
           /\ \A s \in Session :
                /\ sid' # s => phaseBar'[s] = IF s \in used' THEN "over" ELSE "new"
                /\ sid' = s /\ state' \in Live => phaseBar'[s] = "live"
                /\ sid' = s /\ state' = "Idle" => phaseBar'[s] = "cancelled"
                /\ sid' = s /\ state' = "Finishing" =>
                      phaseBar'[s] = IF job'[s] = "complete" THEN "closing" ELSE "finishing"
BY DEF phaseBar, Live, TypeOK, SessionTypeOK, SessionState

LEMMA BarMoves ==
    ASSUME TypeOK, TypeOK', NEW s \in Session, NEW from, NEW to,
           phaseBar[s] \in from, phaseBar'[s] = to,
           \A t \in Session : t # s => phaseBar'[t] = phaseBar[t]
    PROVE  Lifecycle!Moves(s, from, to)
<1>1. \A t \in Session : phaseBar'[t] = [phaseBar EXCEPT ![s] = to][t]
  BY Phases
<1>2. phaseBar' = [phaseBar EXCEPT ![s] = to]
  BY <1>1, Phases, PhasesNext
<1> QED  BY <1>2 DEF Lifecycle!Moves

Maps == [Lifecycle!Next]_Lifecycle!vars

(* The kinds of steps: the slot keeps its phase, ...                       *)
SlotStays ==
    /\ used' = used /\ sid' = sid
    /\ \/ state' = state /\ (sid \in Session => (job'[sid] = "complete") = (job[sid] = "complete"))
       \/ state \in Live /\ state' \in Live
       \/ sid = None

LEMMA StaysMaps ==
    ASSUME TypeOK, TypeOK', SlotStays, UNCHANGED deliveries
    PROVE  Maps
<1>1. ASSUME NEW s \in Session PROVE phaseBar'[s] = phaseBar[s]
  <2>1. CASE sid # s
    BY <2>1, Phases, PhasesNext DEF SlotStays, PhaseIs
  <2>2. CASE sid = s
    BY <2>2, Phases, PhasesNext, NoneIsNoSession
       DEF SlotStays, PhaseIs, Live, TypeOK, SessionTypeOK, SessionState
  <2> QED  BY <2>1, <2>2
<1>2. phaseBar' = phaseBar
  BY <1>1, Phases, PhasesNext
<1>3. deliveredBar' = deliveredBar
  BY DEF deliveredBar
<1> QED  BY <1>2, <1>3 DEF Maps, Lifecycle!vars

(* ... is given up, ...                                                    *)
SlotLeft ==
    /\ sid \in Session /\ sid \in used /\ state # "Idle"
    /\ used' = used /\ sid' = None /\ state' = "Idle"

LEMMA LeftMaps ==
    ASSUME TypeOK, TypeOK', SlotLeft, UNCHANGED deliveries
    PROVE  Maps
<1>1. /\ sid \in Session /\ phaseBar[sid] \in {"live", "finishing", "closing"}
      /\ phaseBar'[sid] = "over"
  BY Phases, PhasesNext, NoneIsNoSession DEF SlotLeft, PhaseIs, Live, TypeOK, SessionTypeOK,
     SessionState
<1>2. \A t \in Session : t # sid => phaseBar'[t] = phaseBar[t]
  BY Phases, PhasesNext, NoneIsNoSession DEF SlotLeft, PhaseIs
<1>3. Lifecycle!Moves(sid, Lifecycle!Phase, "over")
  BY <1>1, <1>2, BarMoves DEF Lifecycle!Phase
<1>4. Lifecycle!Leave(sid)
  BY <1>1, <1>3 DEF Lifecycle!Leave, Lifecycle!Busy, deliveredBar
<1> QED  BY <1>1, <1>4 DEF Maps, Lifecycle!Next

(* ... is cancelled or finished, ...                                       *)
LEMMA CancelMaps ==
    ASSUME TypeOK, TypeOK', RequestCancel, UNCHANGED deliveries
    PROVE  Maps
<1>1. sid \in Session /\ phaseBar[sid] = "live" /\ phaseBar'[sid] = "cancelled"
  BY Phases, PhasesNext DEF RequestCancel, CanCancel, PhaseIs, Live, TypeOK, SessionTypeOK
<1>2. \A t \in Session : t # sid => phaseBar'[t] = phaseBar[t]
  BY Phases, PhasesNext DEF RequestCancel, PhaseIs
<1>3. Lifecycle!Cancel(sid)
  BY <1>1, <1>2, BarMoves DEF Lifecycle!Cancel, deliveredBar
<1> QED  BY <1>1, <1>3 DEF Maps, Lifecycle!Next

LEMMA FinishMaps ==
    ASSUME TypeOK, TypeOK', RequestFinish, job'[sid] = "queued", UNCHANGED deliveries
    PROVE  Maps
<1>1. sid \in Session /\ phaseBar[sid] = "live" /\ phaseBar'[sid] = "finishing"
  BY Phases, PhasesNext DEF RequestFinish, CanFinish, PhaseIs, Live, TypeOK, SessionTypeOK
<1>2. \A t \in Session : t # sid => phaseBar'[t] = phaseBar[t]
  BY Phases, PhasesNext DEF RequestFinish, PhaseIs
<1>3. Lifecycle!Finish(sid)
  BY <1>1, <1>2, BarMoves DEF Lifecycle!Finish, deliveredBar
<1> QED  BY <1>1, <1>3 DEF Maps, Lifecycle!Next

(* ... is taken by a new session or by an undo, ...                        *)
LEMMA TakenMaps ==
    ASSUME TypeOK, TypeOK', NEW s \in Session, NEW p, state = "Idle", sid' = s,
           phaseBar'[s] = p, \A t \in Session \ {s} : t \in used' <=> t \in used,
           sid \in Session => sid \in used, UNCHANGED deliveries
    PROVE  Lifecycle!TakesSlot(s, p)
<1> DEFINE next(t) == IF t = s THEN p
                      ELSE IF phaseBar[t] = "cancelled" THEN "over" ELSE phaseBar[t]
<1>1. \A t \in Session : ~Lifecycle!Busy(t)
  BY Phases DEF Lifecycle!Busy, PhaseIs
<1>2. \A t \in Session : phaseBar'[t] = next(t)
  BY Phases, PhasesNext DEF PhaseIs
<1>3. phaseBar' = [t \in Session |-> next(t)]
  BY <1>2, PhasesNext
<1> QED  BY <1>1, <1>3 DEF Lifecycle!TakesSlot, deliveredBar

LEMMA BeginMaps ==
    ASSUME TypeOK, TypeOK', UsedInv, NEW s \in Session, ToggleStarts(s), UNCHANGED deliveries
    PROVE  Maps
<1>1. phaseBar[s] = "new" /\ phaseBar'[s] = "live"
  BY Phases, PhasesNext, NoneIsNoSession DEF ToggleStarts, PhaseIs, UsedInv, Live
<1>2. Lifecycle!TakesSlot(s, "live")
  BY <1>1, TakenMaps, NoneIsNoSession DEF ToggleStarts, UsedInv
<1> QED  BY <1>1, <1>2 DEF Maps, Lifecycle!Next, Lifecycle!Begin

LEMMA RestoreMaps ==
    ASSUME TypeOK, TypeOK', UsedInv, NEW s \in Session, BeginRetainedProcessing(s),
           s \in used, job'[s] # "complete", UNCHANGED deliveries
    PROVE  Maps
<1>1. phaseBar[s] \in {"cancelled", "over"} /\ phaseBar'[s] = "finishing"
  BY Phases, PhasesNext DEF BeginRetainedProcessing, PhaseIs
<1>2. Lifecycle!TakesSlot(s, "finishing")
  BY <1>1, TakenMaps, NoneIsNoSession DEF BeginRetainedProcessing, UsedInv
<1> QED  BY <1>1, <1>2 DEF Maps, Lifecycle!Next, Lifecycle!Restore

(* ... or is settled by a delivery, or without one.                        *)
LEMMA SettleMaps ==
    ASSUME TypeOK, TypeOK', NEW s \in Session, UNCHANGED sessionVars, sid = s,
           state = "Finishing", job[s] # "complete", job'[s] = "complete",
           \/ UNCHANGED deliveries
           \/ \E x \in Session : /\ deliveries[x] = 0 /\ x \in used
                                 /\ deliveries' = [deliveries EXCEPT ![x] = @ + 1]
    PROVE  Maps
<1> USE DEF sessionVars
<1>1. phaseBar[s] = "finishing" /\ phaseBar'[s] = "closing"
  BY Phases, PhasesNext DEF PhaseIs
<1>2. \A t \in Session : t # s => phaseBar'[t] = phaseBar[t]
  BY Phases, PhasesNext DEF PhaseIs
<1>3. Lifecycle!Moves(s, {"finishing"}, "closing")
  BY <1>1, <1>2, BarMoves
<1>4. \/ UNCHANGED deliveredBar
      \/ \E x \in Session \ deliveredBar :
            /\ x = s \/ phaseBar[x] = "over"
            /\ deliveredBar' = deliveredBar \cup {x}
  <2>1. ASSUME NEW x \in Session, deliveries[x] = 0, x \in used,
               deliveries' = [deliveries EXCEPT ![x] = @ + 1]
        PROVE  /\ x \notin deliveredBar /\ (x = s \/ phaseBar[x] = "over")
               /\ deliveredBar' = deliveredBar \cup {x}
    <3>1. deliveries \in [Session -> Nat]
      BY DEF TypeOK, HistoryTypeOK
    <3>2. \A t \in Session : deliveries'[t] > 0 <=> t = x \/ deliveries[t] > 0
      BY <2>1, <3>1
    <3>3. x = s \/ phaseBar[x] = "over"
      BY <2>1, Phases DEF PhaseIs
    <3> QED  BY <2>1, <3>1, <3>2, <3>3 DEF deliveredBar
  <2> QED  BY <2>1 DEF deliveredBar
<1> QED  BY <1>3, <1>4 DEF Maps, Lifecycle!Next, Lifecycle!Settle

(* The steps that do not concern the slot.                                 *)
LEMMA AsideMaps ==
    ASSUME TypeOK, TypeOK', UNCHANGED <<state, sid, used, job, deliveries>>
    PROVE  Maps
BY StaysMaps DEF SlotStays

(* A startup that failed, and the end of a session, whoever reports them.  *)
LEMMA StartupFailedMaps ==
    ASSUME TypeOK, TypeOK', UsedInv, StartupFailed, UNCHANGED <<job, deliveries>>
    PROVE  Maps
<1>1. CASE state # "Starting"
  BY <1>1, AsideMaps DEF StartupFailed
<1>2. CASE state = "Starting" /\ sid = None
  BY <1>2, StaysMaps DEF StartupFailed, SlotStays
<1>3. CASE state = "Starting" /\ sid # None
  BY <1>3, LeftMaps DEF StartupFailed, SlotLeft, UsedInv, TypeOK, SessionTypeOK
<1> QED  BY <1>1, <1>2, <1>3

LEMMA CompleteMaps ==
    ASSUME TypeOK, TypeOK', UsedInv, Complete, state = "Finishing", sid \in Session,
           UNCHANGED deliveries
    PROVE  Maps
BY LeftMaps, NoneIsNoSession DEF Complete, SlotLeft, UsedInv

LEMMA FinishSessionMaps ==
    ASSUME TypeOK, TypeOK', UsedInv, FinishSession, UNCHANGED deliveries
    PROVE  Maps
<1>1. sid \in Session /\ state = "Recording" /\ job \in [Session -> Stage]
  BY DEF FinishSession, RequestFinish, CanFinish, TypeOK, SessionTypeOK, JobTypeOK
<1>2. CASE loopAlive
  BY <1>1, <1>2, FinishMaps DEF FinishSession
<1>3. CASE ~loopAlive
  BY <1>1, <1>3, LeftMaps, NoneIsNoSession DEF FinishSession, Complete, SlotLeft, UsedInv
<1> QED  BY <1>2, <1>3

LEMMA WorkerMaps ==
    ASSUME LifeInv, TypeOK', NEW s \in Session, WorkerStep(s)
    PROVE  Maps
<1> USE DEF sessionVars, WorkerAt
<1>1. /\ TypeOK /\ UsedInv /\ job \in [Session -> Stage] /\ handoff \in [Session -> Handoff]
      /\ deliveries \in [Session -> Nat]
  BY DEF LifeInv, DeliverInv, FinishInv, TypeOK, JobTypeOK, HistoryTypeOK
<1>2. state = "Finishing" /\ sid = s
  BY DEF WorkerStep, WorkerStops, WorkerTakes, WorkerDelivers, WorkerCompletes,
         LifeInv, DeliverInv, FinishInv, FinishHasOneOwner, Finishing
<1>3. CASE WorkerStops(s)
  BY <1>1, <1>2, <1>3, StaysMaps DEF WorkerStops, SlotStays
<1>4. CASE WorkerTakes(s)
  <2>1. /\ UNCHANGED <<state, sid, used, deliveries>>
        /\ job[s] = "take" /\ job'[s] \in {"deliver", "complete"}
    BY <1>1, <1>4 DEF WorkerTakes
  <2>2. CASE job'[s] = "deliver"
    BY <1>1, <1>2, <2>1, <2>2, StaysMaps DEF SlotStays
  <2>3. CASE job'[s] = "complete"
    BY <1>1, <1>2, <2>1, <2>3, SettleMaps
  <2> QED  BY <2>1, <2>2, <2>3
<1>5. CASE WorkerDelivers(s)
  <2> DEFINE id == handoff[s].id
  <2>1. /\ UNCHANGED <<state, sid, used>> /\ job[s] = "deliver" /\ job'[s] = "complete"
        /\ \/ UNCHANGED deliveries
           \/ deliveries' = [deliveries EXCEPT ![id] = @ + 1]
    BY <1>1, <1>5 DEF WorkerDelivers
  <2>2. id \in Session => id \in SlotIds
    BY <1>2, <2>1 DEF SlotIds
  <2> HIDE DEF id
  <2>3. id \in Session => deliveries[id] = 0 /\ id \in used
    BY <2>2 DEF LifeInv, DeliverInv, RightsInv
  <2>4. CASE UNCHANGED deliveries
    BY <1>1, <1>2, <2>1, <2>4, SettleMaps
  <2>5. CASE id \in Session /\ deliveries' = [deliveries EXCEPT ![id] = @ + 1]
    BY <1>1, <1>2, <2>1, <2>3, <2>5, SettleMaps
  <2>6. CASE id \notin Session /\ deliveries' = [deliveries EXCEPT ![id] = @ + 1]
    <3>1. deliveries' = deliveries
      BY <1>1, <2>6
    <3> QED  BY <2>4, <3>1
  <2> QED  BY <2>1, <2>4, <2>5, <2>6
<1>6. CASE WorkerCompletes(s)
  BY <1>1, <1>2, <1>6, CompleteMaps DEF WorkerCompletes
<1> QED  BY <1>3, <1>4, <1>5, <1>6 DEF WorkerStep

LEMMA UndoMaps ==
    ASSUME LifeInv, TypeOK', UndoBegins \/ UndoRestores \/ UndoFindsNothing
    PROVE  Maps
<1> USE DEF sessionVars, jobVars, historyVars
<1>1. /\ TypeOK /\ UsedInv /\ ThreadTypeOK /\ FinishHasOneOwner /\ job \in [Session -> Stage]
      /\ arg["ui"] \in Session
  BY DEF LifeInv, DeliverInv, FinishInv, TypeOK, JobTypeOK, ThreadTypeOK, Thread, Unowned,
         UndoBegins, UndoRestores, UndoFindsNothing
<1>2. CASE UndoBegins /\ state = "Idle"
  <2>1. job[arg["ui"]] # "complete"
    BY <1>1, <1>2 DEF FinishHasOneOwner, Finishing
  <2>2. arg["ui"] \in used
    BY <1>1, <1>2 DEF UndoBegins, UsedInv, Undo
  <2> QED  BY <1>1, <1>2, <2>1, <2>2, RestoreMaps DEF UndoBegins
<1>3. CASE UndoBegins /\ state # "Idle"
  BY <1>1, <1>3, AsideMaps DEF UndoBegins
<1>4. CASE UndoRestores \/ UndoFindsNothing
  <2>1. state = "Finishing" /\ sid = arg["ui"] /\ job[sid] # "complete"
    <3>1. Undoing(arg["ui"])
      BY <1>4 DEF UndoRestores, UndoFindsNothing, Undoing
    <3> QED  BY <1>1, <3>1 DEF FinishHasOneOwner, Finishing
  <2>2. UNCHANGED deliveries
    BY <1>4 DEF UndoRestores, UndoFindsNothing
  <2>3. \/ Complete
        \/ /\ UNCHANGED <<state, sid, used>>
           /\ job' = [job EXCEPT ![arg["ui"]] = "deliver"]
    BY <1>4 DEF UndoRestores, UndoFindsNothing
  <2>4. CASE Complete
    BY <1>1, <2>1, <2>2, <2>4, CompleteMaps
  <2>5. CASE UNCHANGED <<state, sid, used>> /\ job' = [job EXCEPT ![arg["ui"]] = "deliver"]
    <3>1. job'[sid] = "deliver"
      BY <1>1, <2>1, <2>5
    <3> QED  BY <1>1, <2>1, <2>2, <2>5, <3>1, StaysMaps DEF SlotStays
  <2> QED  BY <2>3, <2>4, <2>5
<1> QED  BY <1>2, <1>3, <1>4

LEMMA MapsStep ==
    ASSUME LifeInv, [Next]_vars
    PROVE  Maps
<1> USE DEF sessionVars, jobVars, historyVars
<1>1. TypeOK /\ TypeOK' /\ UsedInv /\ FinishHasOneOwner
  BY FinishInvStep DEF LifeInv, DeliverInv, FinishInv
<1>2. ASSUME NEW s \in Session, ToggleBegins(s) PROVE Maps
  BY <1>1, <1>2, BeginMaps DEF ToggleBegins
<1>3. CASE ToggleFinishes \/ ClickFinish \/ LimitReached
  BY <1>1, <1>3, FinishSessionMaps DEF ToggleFinishes, ClickFinish, LimitReached
<1>4. CASE TakeCancel \/ ClickCancel \/ PauseCancels
  <2>1. UNCHANGED <<job, deliveries>> /\ (RequestCancel \/ UNCHANGED <<state, sid, used>>)
    BY <1>4 DEF TakeCancel, ClickCancel, PauseCancels, CancelSession
  <2> QED  BY <1>1, <2>1, CancelMaps, AsideMaps
<1>5. CASE BeginPaused \/ BeginReport
  <2>1. UNCHANGED <<job, deliveries>> /\ (RequestCancel \/ UNCHANGED <<state, sid, used>>)
    BY <1>5 DEF BeginPaused, BeginReport, RequestCancelIfPossible
  <2> QED  BY <1>1, <2>1, CancelMaps, AsideMaps
<1>6. CASE BeginDenied \/ BeginAsrFails \/ \E s \in Session : UiStartFailed(s)
  BY <1>1, <1>6, StartupFailedMaps DEF BeginDenied, BeginAsrFails, UiStartFailed
<1>7. CASE PressToggle \/ PressEscape \/ ToggleDropped \/ TakeToggle \/ ToggleIgnored
           \/ BeginUnpaused \/ BeginClear \/ BeginAsr \/ BeginMic \/ Cancelling("shortcut")
  BY <1>1, <1>7, AsideMaps DEF PressToggle, PressEscape, ToggleDropped, TakeToggle,
     ToggleIgnored, BeginUnpaused, BeginClear, BeginAsr, BeginMic, Cancelling, CancelStopsAsr,
     CancelStopsRecorder, CancelReport
<1>8. ASSUME NEW s \in Session, UiStarted(s) PROVE Maps
  BY <1>1, <1>8, StaysMaps DEF UiStarted, RecordingStarted, SlotStays, Live
<1>9. ASSUME NEW s \in Session,
             UiStartRejected(s) \/ \E a \in Session : UiRetains(s, a)
      PROVE  Maps
  BY <1>1, <1>9, AsideMaps DEF UiStartRejected, RecordingNotStarted, UiRetains
<1>10. ASSUME NEW s \in Session, UiFinish(s) PROVE Maps
  <2>1. uiQueue \in Seq(UiEvent) /\ job \in [Session -> Stage]
    BY <1>1 DEF TypeOK, JobTypeOK
  <2>2. uiQueue # <<>> /\ uiQueue[1].type = "finish" /\ uiQueue[1].id = s
    BY <1>10, <2>1 DEF UiFinish, Receives, Event
  <2>3. 1 \in 1..Len(uiQueue)
    BY <2>1, <2>2
  <2>4. job[s] = "queued"
    BY <2>2, <2>3 DEF LifeInv, DeliverInv, FinishInv, QueuedFinishes
  <2>5. state = "Finishing" /\ sid = s
    BY <1>1, <2>4 DEF FinishHasOneOwner, Finishing
  <2>6. CASE Complete /\ UNCHANGED deliveries
    BY <1>1, <2>5, <2>6, CompleteMaps
  <2>7. CASE job' = [job EXCEPT ![s] = "stop"] /\ UNCHANGED <<state, sid, used, deliveries>>
    BY <1>1, <2>1, <2>4, <2>5, <2>7, StaysMaps DEF SlotStays
  <2> QED  BY <1>10, <2>6, <2>7 DEF UiFinish
<1>11. CASE ClickPause \/ ClickUndo \/ UiDropsAsr \/ RejectStopsAsr \/ RejectStopsRecorder
            \/ UiMutes \/ Cancelling("ui") \/ TimerFires
  BY <1>1, <1>11, AsideMaps DEF ClickPause, ClickUndo, UiDropsAsr, RejectStopsAsr,
     RejectStopsRecorder, UiMutes, Cancelling, CancelStopsAsr, CancelStopsRecorder,
     CancelReport, TimerFires, MuteTimerFires, ExpireTimerFires
<1>12. CASE UndoBegins \/ UndoRestores \/ UndoFindsNothing
  BY <1>1, <1>12, UndoMaps
<1>13. ASSUME NEW s \in Session, WorkerStep(s) PROVE Maps
  BY <1>1, <1>13, WorkerMaps
<1>14. CASE Quit \/ WindowLapses \/ PauseSave \/ UNCHANGED vars
  BY <1>1, <1>14, AsideMaps DEF Quit, WindowLapses, PauseSave, SubmitPause, PauseSaveAnswered, vars
<1> QED
  BY <1>2, <1>3, <1>4, <1>5, <1>6, <1>7, <1>8, <1>9, <1>10, <1>11, <1>12, <1>13, <1>14
     DEF Next, ShortcutStep, Begin, UiClosure, Click, UiHandler

(* The threads together implement DictationLifecycle: one session at a     *)
(* time, every finish and every cancel its own, every undo in a free slot, *)
(* and no text delivered twice under one identity.                         *)
THEOREM LifecycleImplemented == Spec => ImplementsLifecycle
<1>1. Init => LifeInv /\ Lifecycle!Init
  <2> SUFFICES ASSUME Init PROVE LifeInv /\ Lifecycle!Init
    OBVIOUS
  <2>1. LifeInv
    BY InitDeliverInv DEF Init, SessionInit, LifeInv, UsedInv, Undo, Thread
  <2>2. phaseBar = [s \in Session |-> "new"]
    BY NoneIsNoSession DEF Init, SessionInit, phaseBar
  <2>3. deliveredBar = {}
    BY DEF Init, deliveredBar
  <2> QED  BY <2>1, <2>2, <2>3 DEF Lifecycle!Init
<1>2. LifeInv /\ [Next]_vars => LifeInv' /\ [Lifecycle!Next]_Lifecycle!vars
  BY DeliverStep, UsedStep, MapsStep DEF LifeInv, Maps
<1> QED  BY <1>1, <1>2, PTL DEF Spec, ImplementsLifecycle, Lifecycle!Spec

-----------------------------------------------------------------------------
(* The undo window.                                                        *)

FreshKept == \A r \in Restorable :
    \/ \E q \in retained' : q.id = r.id /\ q.generation = r.generation
    \/ r.id \in restored'
    \/ pc["shortcut"] = "clear" /\ pc'["shortcut"] = "asr"
    \/ generation' > generation

LEMMA FreshStep ==
    ASSUME TypeOK, [Next]_vars
    PROVE  FreshKept
<1> USE DEF retainVars
<1>1. /\ retained \subseteq Retained /\ generation \in Nat
      /\ \A r, q \in retained : r = q
  BY DEF TypeOK, RetainTypeOK
<1>2. CASE UNCHANGED retained
  BY <1>2 DEF FreshKept, Restorable
<1>3. CASE BeginClear
  <2>1. pc'["shortcut"] = "asr"
    BY <1>3 DEF BeginClear, Goto, TypeOK, ThreadTypeOK, Thread
  <2> QED  BY <1>3, <2>1 DEF BeginClear, FreshKept
<1>4. ASSUME NEW s \in Session, NEW a \in Session, UiRetains(s, a) PROVE FreshKept
  BY <1>1, <1>4 DEF UiRetains, StoreRetain, FreshKept
<1>5. CASE UndoRestores
  BY <1>1, <1>5 DEF UndoRestores, FreshKept, Restorable
<1>6. CASE UndoFindsNothing
  BY <1>6 DEF UndoFindsNothing, FreshKept
<1>7. CASE WindowLapses
  <2>1. PICK r \in Restorable : retained' = {[r EXCEPT !.lapsed = TRUE]}
    BY <1>7 DEF WindowLapses
  <2>2. /\ [r EXCEPT !.lapsed = TRUE].id = r.id
        /\ [r EXCEPT !.lapsed = TRUE].generation = r.generation
    BY <1>1 DEF Restorable, Retained
  <2>3. \A q \in Restorable : q = r
    BY <1>1 DEF Restorable
  <2> QED  BY <2>1, <2>2, <2>3 DEF FreshKept
<1>8. ASSUME NEW g \in 1..generation, ExpireTimerFires(g) PROVE FreshKept
  BY <1>1, <1>8 DEF ExpireTimerFires, StoreExpire, FreshKept, Restorable, Retained
<1>9. CASE ShortcutStep /\ ~BeginClear
  BY <1>2, <1>9 DEF ShortcutStep, Begin, Cancelling, ToggleDropped, TakeToggle, ToggleBegins,
     ToggleFinishes, ToggleIgnored, TakeCancel, BeginDenied, BeginPaused, BeginUnpaused,
     BeginAsr, BeginAsrFails, BeginMic, BeginReport, CancelStopsAsr, CancelStopsRecorder,
     CancelReport
<1>10. ASSUME NEW s \in Session,
              UiStartFailed(s) \/ UiStarted(s) \/ UiStartRejected(s) \/ UiFinish(s)
                  \/ MuteTimerFires(s) \/ WorkerStep(s)
       PROVE  FreshKept
  BY <1>2, <1>10 DEF UiStartFailed, UiStarted, UiStartRejected, UiFinish, MuteTimerFires,
     WorkerStep, WorkerStops, WorkerTakes, WorkerDelivers, WorkerCompletes, WorkerAt
<1>11. CASE Click \/ UiDropsAsr \/ RejectStopsAsr \/ RejectStopsRecorder \/ UiMutes
            \/ PauseCancels \/ Cancelling("ui") \/ UndoBegins
  BY <1>2, <1>11 DEF Click, ClickFinish, ClickCancel, ClickPause, ClickUndo, UiDropsAsr,
     RejectStopsAsr, RejectStopsRecorder, UiMutes, PauseCancels, Cancelling, CancelStopsAsr,
     CancelStopsRecorder, CancelReport, UndoBegins
<1>12. CASE PressToggle \/ PressEscape \/ Quit \/ LimitReached \/ PauseSave \/ UNCHANGED vars
  BY <1>2, <1>12 DEF PressToggle, PressEscape, Quit, LimitReached, PauseSave, SubmitPause, PauseSaveAnswered,
     vars
<1> QED
  BY <1>3, <1>4, <1>5, <1>6, <1>7, <1>8, <1>9, <1>10, <1>11, <1>12
     DEF Next, UiClosure, UiHandler, TimerFires

(* A recording inside its undo window leaves the store only for an undo,   *)
(* for a new session or for a newer recording; no older timer drops it.    *)
THEOREM FreshRecordingCorrect == Spec => FreshRecordingIsKept
<1>1. TypeOK /\ [Next]_vars => [FreshKept]_vars
  BY FreshStep
<1> QED  BY <1>1, TypeCorrect, PTL DEF Spec, FreshRecordingIsKept, FreshKept

-----------------------------------------------------------------------------
(* Devices and pause.                                                      *)

BeginPC == {"begin", "clear", "asr", "mic", "report"}
Starts == {"started", "startFailed"}

(* A start reports once: while it is under way its report is not in the    *)
(* queue.                                                                  *)
ReportInv ==
    /\ \A i \in 1..Len(uiQueue) : uiQueue[i].type \in Starts => uiQueue[i].id \in used
    /\ pc["shortcut"] \in BeginPC =>
          /\ arg["shortcut"] \in used
          /\ \A i \in 1..Len(uiQueue) :
                uiQueue[i].type \in Starts => uiQueue[i].id # arg["shortcut"]

(* What starts is the session the shortcut thread begins; it does not      *)
(* record before that thread reported.                                     *)
BeginInv ==
    /\ state \in Live => sid # None
    /\ pc["shortcut"] \in BeginPC /\ state = "Starting" => sid = arg["shortcut"]
    /\ pc["shortcut"] \in BeginPC /\ state = "Recording" => misapplied

(* A session whose worker could not be spawned has left the slot for good. *)
FailedInv == \A s \in Session : job[s] = "failed" =>
    s \in used /\ sid # s /\ ~(pc["ui"] \in Undo /\ arg["ui"] = s)

(* Who will release a recognition, and a capture.                          *)
StartWaits == \E i \in 1..Len(uiQueue) : uiQueue[i].type = "started"
FailWaits == \E i \in 1..Len(uiQueue) : uiQueue[i].type = "startFailed"

AsrHeld ==
    \/ ~loopAlive \/ StartWaits \/ FailWaits \/ state = "Recording"
    \/ pc["shortcut"] \in {"mic", "report", "cancelAsr"}
    \/ pc["ui"] \in {"dropAsr", "rejectAsr", "cancelAsr"}
    \/ \E s \in Session : job[s] \in {"queued", "stop", "take"}

RecHeld ==
    \/ ~loopAlive \/ StartWaits \/ state = "Recording"
    \/ pc["shortcut"] = "report" /\ got["shortcut"] # None
    \/ pc["shortcut"] \in {"cancelAsr", "cancelMic"}
    \/ pc["ui"] \in {"rejectAsr", "rejectMic", "cancelAsr", "cancelMic"}
    \/ \E s \in Session : job[s] \in {"queued", "stop", "failed"}

ReleaseInv ==
    /\ asr # None /\ ~misapplied => AsrHeld
    /\ rec # None /\ ~misapplied => RecHeld

(* Who will see a pause: the tray's handler, or the start that asks again; *)
(* a rollback that pauses again spares the session under way.              *)
PauseInv ==
    paused /\ state \in Live /\ ~misapplied =>
        \/ pc["ui"] = "pause"
        \/ state = "Starting" /\ pc["shortcut"] = "begin"
        \/ sid \in spared

RestInv == LifeInv /\ ReportInv /\ BeginInv /\ FailedInv /\ ReleaseInv /\ PauseInv

-----------------------------------------------------------------------------
(* Reports in the queue.                                                   *)

(* No report is added to the queue.                                        *)
ReportsLess ==
    \A i \in 1..Len(uiQueue') : uiQueue'[i].type \in Starts =>
        \E j \in 1..Len(uiQueue) : uiQueue'[i] = uiQueue[j]

LEMMA QueueReports ==
    ASSUME TypeOK
    PROVE  /\ UNCHANGED uiQueue =>
                 ReportsLess /\ (StartWaits => StartWaits') /\ (FailWaits => FailWaits')
           /\ \A e \in UiEvent : uiQueue' = Append(uiQueue, e) =>
                 /\ StartWaits \/ e.type = "started" => StartWaits'
                 /\ FailWaits \/ e.type = "startFailed" => FailWaits'
                 /\ e.type \notin Starts => ReportsLess
           /\ uiQueue # <<>> /\ uiQueue' = Tail(uiQueue) =>
                 /\ ReportsLess
                 /\ StartWaits => StartWaits' \/ Head(uiQueue).type = "started"
                 /\ FailWaits => FailWaits' \/ Head(uiQueue).type = "startFailed"
<1>0. uiQueue \in Seq(UiEvent)
  BY DEF TypeOK
<1>1. ASSUME UNCHANGED uiQueue
      PROVE  ReportsLess /\ (StartWaits => StartWaits') /\ (FailWaits => FailWaits')
  BY <1>1 DEF ReportsLess, StartWaits, FailWaits
<1>2. ASSUME NEW e \in UiEvent, uiQueue' = Append(uiQueue, e)
      PROVE  /\ StartWaits \/ e.type = "started" => StartWaits'
             /\ FailWaits \/ e.type = "startFailed" => FailWaits'
             /\ e.type \notin Starts => ReportsLess
  <2>1. /\ Len(uiQueue') = Len(uiQueue) + 1 /\ Len(uiQueue) \in Nat
        /\ \A i \in 1..Len(uiQueue) : uiQueue'[i] = uiQueue[i]
        /\ uiQueue'[Len(uiQueue) + 1] = e
    BY <1>0, <1>2
  <2>2. /\ \A i \in 1..Len(uiQueue) : i \in 1..Len(uiQueue')
        /\ \A i \in 1..Len(uiQueue') : i \in 1..Len(uiQueue) \/ i = Len(uiQueue) + 1
        /\ Len(uiQueue) + 1 \in 1..Len(uiQueue')
    BY <2>1
  <2>3. StartWaits \/ e.type = "started" => StartWaits'
    BY <2>1, <2>2 DEF StartWaits
  <2>4. FailWaits \/ e.type = "startFailed" => FailWaits'
    BY <2>1, <2>2 DEF FailWaits
  <2>5. e.type \notin Starts => ReportsLess
    BY <2>1, <2>2 DEF ReportsLess
  <2> QED  BY <2>3, <2>4, <2>5
<1>3. ASSUME uiQueue # <<>>, uiQueue' = Tail(uiQueue)
      PROVE  /\ ReportsLess
             /\ StartWaits => StartWaits' \/ Head(uiQueue).type = "started"
             /\ FailWaits => FailWaits' \/ Head(uiQueue).type = "startFailed"
  <2>1. /\ Len(uiQueue') = Len(uiQueue) - 1 /\ Len(uiQueue) \in Nat \ {0}
        /\ \A i \in 1..Len(uiQueue') : uiQueue'[i] = uiQueue[i + 1]
        /\ Head(uiQueue) = uiQueue[1]
    BY <1>0, <1>3
  <2>2. /\ \A i \in 1..Len(uiQueue') : i + 1 \in 1..Len(uiQueue)
        /\ \A i \in 1..Len(uiQueue) : i # 1 =>
              i - 1 \in 1..Len(uiQueue') /\ (i - 1) + 1 = i
    BY <2>1
  <2>3. \A i \in 1..Len(uiQueue) : i # 1 =>
           \E j \in 1..Len(uiQueue') : uiQueue'[j] = uiQueue[i]
    BY <2>1, <2>2
  <2>4. ReportsLess
    BY <2>1, <2>2 DEF ReportsLess
  <2>5. StartWaits => StartWaits' \/ Head(uiQueue).type = "started"
    BY <2>1, <2>3 DEF StartWaits
  <2>6. FailWaits => FailWaits' \/ Head(uiQueue).type = "startFailed"
    BY <2>1, <2>3 DEF FailWaits
  <2> QED  BY <2>4, <2>5, <2>6
<1> QED  BY <1>1, <1>2, <1>3

(* What a closure leaves behind in the queue.                              *)
LEMMA ReceivesReports ==
    ASSUME TypeOK, NEW type, NEW s, NEW audio, Receives(type, s, audio)
    PROVE  /\ ReportsLess
           /\ StartWaits => StartWaits' \/ type = "started"
           /\ FailWaits => FailWaits' \/ type = "startFailed"
           /\ pc["ui"] = "idle" /\ loopAlive
           /\ 1 \in 1..Len(uiQueue) /\ uiQueue[1].type = type /\ uiQueue[1].id = s
<1>1. /\ uiQueue # <<>> /\ uiQueue' = Tail(uiQueue)
      /\ Head(uiQueue) = [type |-> type, id |-> s, audio |-> audio]
      /\ pc["ui"] = "idle" /\ loopAlive
  BY DEF Receives, Event, UiIdle
<1>2. 1 \in 1..Len(uiQueue) /\ Head(uiQueue) = uiQueue[1]
  BY <1>1 DEF TypeOK
<1> QED  BY <1>1, <1>2, QueueReports

-----------------------------------------------------------------------------
(* What a step of another thread leaves of the start, and of the undo.     *)

BeginLess ==
    /\ used \subseteq used'
    /\ pc'["shortcut"] \in BeginPC =>
          pc["shortcut"] \in BeginPC /\ arg'["shortcut"] = arg["shortcut"]

LEMMA ReportKeeps ==
    ASSUME TypeOK, ReportInv, BeginLess, ReportsLess
    PROVE  ReportInv'
BY DEF ReportInv, BeginLess, ReportsLess

(* The steps of the keyboard and the shortcut thread that add no report,   *)
(* and all the others.                                                     *)
LEMMA ReportStep ==
    ASSUME RestInv, [Next]_vars
    PROVE  ReportInv'
<1> USE DEF sessionVars, envVars, threadVars, jobVars, Goto, Enter, Return, Thread
<1>0. /\ TypeOK /\ ReportInv
      /\ pc \in [Thread -> ShortcutPC \cup UiPC] /\ arg \in [Thread -> Owner]
      /\ used \subseteq Session
  BY DEF RestInv, LifeInv, DeliverInv, FinishInv, TypeOK, ThreadTypeOK, SessionTypeOK
<1>a. ASSUME BeginLess, UNCHANGED uiQueue PROVE ReportInv'
  BY <1>0, <1>a, QueueReports, ReportKeeps
<1>b. ASSUME BeginLess, FinishSession PROVE ReportInv'
  <2>1. UNCHANGED uiQueue \/ (sid \in Session /\ uiQueue' = Append(uiQueue, Event("finish", sid, None)))
    BY <1>0, <1>b DEF FinishSession, Queue, RequestFinish, CanFinish, TypeOK, SessionTypeOK
  <2>2. sid \in Session => /\ Event("finish", sid, None) \in UiEvent
                           /\ Event("finish", sid, None).type \notin Starts
    BY DEF Event, UiEvent, Owner, Starts
  <2>3. ReportsLess
    BY <1>0, <2>1, <2>2, QueueReports
  <2> QED  BY <1>0, <1>b, <2>3, ReportKeeps
<1>1. ASSUME NEW s \in Session, ToggleBegins(s) PROVE ReportInv'
  <2>1. /\ s \notin used /\ used' = used \cup {s} /\ arg'["shortcut"] = s
        /\ UNCHANGED uiQueue
    BY <1>0, <1>1 DEF ToggleBegins, ToggleStarts
  <2> QED  BY <1>0, <2>1 DEF ReportInv
<1>2. CASE BeginReport
  <2>1. /\ pc["shortcut"] = "report" /\ pc'["shortcut"] = "idle" /\ used' = used
        /\ arg["shortcut"] \in Session /\ arg["shortcut"] \in used
    BY <1>0, <1>2 DEF BeginReport, RequestCancelIfPossible, RequestCancel, ReportInv, BeginPC
  <2>2. \/ UNCHANGED uiQueue
        \/ \E type \in Starts : uiQueue' = Append(uiQueue, Event(type, arg["shortcut"], None))
    BY <1>2 DEF BeginReport, Queue, Starts
  <2>3. CASE UNCHANGED uiQueue
    BY <1>0, <2>1, <2>3 DEF ReportInv, BeginPC
  <2>4. ASSUME NEW type \in Starts, uiQueue' = Append(uiQueue, Event(type, arg["shortcut"], None))
        PROVE  ReportInv'
    <3> DEFINE e == Event(type, arg["shortcut"], None)
    <3>1. e \in UiEvent /\ e.id = arg["shortcut"]
      BY <2>1 DEF Event, UiEvent, Starts, Owner
    <3>2. uiQueue \in Seq(UiEvent) /\ uiQueue' = Append(uiQueue, e)
      BY <1>0, <2>4 DEF TypeOK
    <3> HIDE DEF e
    <3>3. \A i \in 1..Len(uiQueue') : (i \in 1..Len(uiQueue) /\ uiQueue'[i] = uiQueue[i])
                                      \/ uiQueue'[i] = e
      BY <3>1, <3>2
    <3> QED  BY <1>0, <2>1, <3>1, <3>3 DEF ReportInv, BeginPC
  <2> QED  BY <2>2, <2>3, <2>4
<1>3. CASE ToggleFinishes
  <2>1. BeginLess
    BY <1>0, <1>3 DEF ToggleFinishes, FinishSession, RequestFinish, Complete, BeginLess, BeginPC
  <2> QED  BY <1>b, <1>3, <2>1 DEF ToggleFinishes
<1>4. CASE PressToggle \/ PressEscape \/ ToggleDropped \/ TakeToggle \/ ToggleIgnored
           \/ TakeCancel \/ BeginDenied \/ BeginPaused \/ BeginUnpaused \/ BeginClear
           \/ BeginAsr \/ BeginAsrFails \/ BeginMic \/ CancelStopsAsr("shortcut")
           \/ CancelStopsRecorder("shortcut")
  <2>1. BeginLess
    BY <1>0, <1>4 DEF PressToggle, PressEscape, ToggleDropped, TakeToggle, ToggleIgnored,
       TakeCancel, CancelSession, RequestCancel, BeginDenied, BeginPaused, BeginUnpaused,
       BeginClear, BeginAsr, BeginAsrFails, BeginMic, CancelStopsAsr, CancelStopsRecorder,
       StartupFailed, RequestCancelIfPossible, BeginLess, BeginPC
  <2>2. UNCHANGED uiQueue
    BY <1>4 DEF PressToggle, PressEscape, ToggleDropped, TakeToggle, ToggleIgnored,
       TakeCancel, BeginDenied, BeginPaused, BeginUnpaused,
       BeginClear, BeginAsr, BeginAsrFails, BeginMic, CancelStopsAsr, CancelStopsRecorder
  <2> QED  BY <1>a, <2>1, <2>2
<1>5. ASSUME NEW t \in Thread, CancelReport(t) PROVE ReportInv'
  <2>1. BeginLess
    BY <1>0, <1>5 DEF CancelReport, BeginLess, BeginPC
  <2>2. UNCHANGED uiQueue \/ uiQueue' = Append(uiQueue, Event("cancelled", arg[t], got[t]))
    BY <1>5 DEF CancelReport, Queue
  <2>3. /\ Event("cancelled", arg[t], got[t]) \in UiEvent
        /\ Event("cancelled", arg[t], got[t]).type \notin Starts
    BY <1>0, <1>5 DEF CancelReport, TypeOK, ThreadTypeOK, Unowned, Event, UiEvent, Starts
  <2>4. ReportsLess
    BY <1>0, <2>2, <2>3, QueueReports
  <2> QED  BY <1>0, <2>1, <2>4, ReportKeeps
<1>6. ASSUME NEW s \in Session, NEW a \in Session,
             \/ UiStartFailed(s) \/ UiStarted(s) \/ UiStartRejected(s) \/ UiFinish(s)
             \/ UiRetains(s, a)
      PROVE  ReportInv'
  <2>1. BeginLess
    BY <1>0, <1>6 DEF UiStartFailed, UiStarted, UiStartRejected, UiFinish, UiRetains,
       StartupFailed, RecordingStarted, RecordingNotStarted, Complete, BeginLess
  <2>2. ReportsLess
    BY <1>0, <1>6, ReceivesReports DEF UiStartFailed, UiStarted, UiStartRejected, UiFinish,
       UiRetains
  <2> QED  BY <1>0, <2>1, <2>2, ReportKeeps
<1>7. CASE ClickFinish \/ LimitReached
  <2>1. BeginLess
    BY <1>0, <1>7 DEF ClickFinish, LimitReached, FinishSession, RequestFinish, Complete,
       BeginLess
  <2> QED  BY <1>b, <1>7, <2>1 DEF ClickFinish, LimitReached
<1>8. CASE ClickCancel \/ ClickPause \/ ClickUndo \/ PauseCancels \/ UiDropsAsr
           \/ RejectStopsAsr \/ RejectStopsRecorder \/ UiMutes \/ CancelStopsAsr("ui")
           \/ CancelStopsRecorder("ui") \/ UndoBegins \/ UndoRestores \/ UndoFindsNothing
  <2>1. BeginLess
    BY <1>0, <1>8 DEF ClickCancel, ClickPause, ClickUndo, PauseCancels, UiDropsAsr,
       RejectStopsAsr, RejectStopsRecorder, UiMutes, CancelStopsAsr, CancelStopsRecorder,
       UndoBegins, UndoRestores, UndoFindsNothing, BeginRetainedProcessing, Complete,
       CancelSession, RequestCancel, BeginLess
  <2>2. UNCHANGED uiQueue
    BY <1>8 DEF ClickCancel, ClickPause, ClickUndo, PauseCancels, UiDropsAsr,
       RejectStopsAsr, RejectStopsRecorder, UiMutes, CancelStopsAsr, CancelStopsRecorder,
       UndoBegins, UndoRestores, UndoFindsNothing
  <2> QED  BY <1>a, <2>1, <2>2
<1>9. CASE TimerFires \/ Quit \/ WindowLapses \/ PauseSave \/ UNCHANGED vars
           \/ \E s \in Session : WorkerStep(s)
  <2>1. BeginLess /\ UNCHANGED uiQueue
    BY <1>0, <1>9 DEF TimerFires, MuteTimerFires, ExpireTimerFires, Quit, WindowLapses, vars,
       PauseSave, SubmitPause, PauseSaveAnswered,
       WorkerStep, WorkerStops, WorkerTakes, WorkerDelivers, WorkerCompletes, WorkerAt,
       Complete, BeginLess
  <2> QED  BY <1>a, <2>1
<1> QED
  BY <1>1, <1>2, <1>3, <1>4, <1>5, <1>6, <1>7, <1>8, <1>9
     DEF Next, ShortcutStep, Begin, Cancelling, UiClosure, UiHandler, Click

-----------------------------------------------------------------------------
(* The start, and the sessions without a worker.                           *)

(* A step in which no session starts or begins to record.                  *)
NoneLive ==
    /\ state' \in Live => state' = state /\ sid' = sid
    /\ pc'["shortcut"] \in BeginPC =>
          pc["shortcut"] \in BeginPC /\ arg'["shortcut"] = arg["shortcut"]
    /\ misapplied => misapplied'

LEMMA NoneLiveKeeps ==
    ASSUME BeginInv, NoneLive
    PROVE  BeginInv'
BY DEF BeginInv, NoneLive, Live

(* A step in which no worker fails to be spawned.                          *)
NoneFails == UsedPlain /\ \A s \in Session : job'[s] = "failed" => job[s] = "failed"

LEMMA NoneFailsKeeps ==
    ASSUME FailedInv, NoneFails
    PROVE  FailedInv'
BY NoneIsNoSession DEF FailedInv, NoneFails, UsedPlain, Undo

(* Both for the steps that neither start a session nor end an undo.        *)
LEMMA FinishSessionRests ==
    ASSUME TypeOK, FinishSession
    PROVE  /\ state' \notin Live /\ sid' \in {sid, None} /\ UNCHANGED used
           /\ \A s \in Session : job'[s] = "failed" => job[s] = "failed"
BY DEF FinishSession, RequestFinish, CanFinish, Complete, jobVars, TypeOK, JobTypeOK,
       SessionTypeOK, Live

LEMMA ShortcutRests ==
    ASSUME TypeOK,
           PressToggle \/ PressEscape \/ ShortcutStep, \A s \in Session : ~ToggleBegins(s)
    PROVE  NoneLive /\ NoneFails
<1> USE DEF sessionVars, envVars, threadVars, jobVars, historyVars, Goto, Enter, Return,
            Thread
<1>0. /\ pc \in [Thread -> ShortcutPC \cup UiPC] /\ arg \in [Thread -> Owner]
  BY DEF TypeOK, ThreadTypeOK
<1>1. CASE ToggleFinishes
  BY <1>0, <1>1, FinishSessionRests DEF ToggleFinishes, NoneLive, NoneFails, UsedPlain, BeginPC
<1>2. CASE ~ToggleFinishes
  <2>1. /\ UNCHANGED job /\ UNCHANGED used /\ misapplied' = misapplied
        /\ pc'["ui"] = pc["ui"] /\ arg'["ui"] = arg["ui"]
    BY <1>0, <1>2 DEF PressToggle, PressEscape, ShortcutStep, Begin, Cancelling, ToggleDropped,
       TakeToggle, ToggleIgnored, TakeCancel, CancelSession, BeginDenied,
       BeginPaused, BeginUnpaused, BeginClear, BeginAsr, BeginAsrFails, BeginMic, BeginReport,
       CancelStopsAsr, CancelStopsRecorder, CancelReport, RequestCancel,
       RequestCancelIfPossible, StartupFailed
  <2>2. sid' \in {sid, None} /\ (state' \in Live => state' = state /\ sid' = sid)
    BY <1>2 DEF PressToggle, PressEscape, ShortcutStep, Begin, Cancelling, ToggleDropped,
       TakeToggle, ToggleIgnored, TakeCancel, CancelSession, BeginDenied,
       BeginPaused, BeginUnpaused, BeginClear, BeginAsr, BeginAsrFails, BeginMic, BeginReport,
       CancelStopsAsr, CancelStopsRecorder, CancelReport, RequestCancel,
       RequestCancelIfPossible, StartupFailed, Live
  <2>3. pc'["shortcut"] \in BeginPC =>
           pc["shortcut"] \in BeginPC /\ arg'["shortcut"] = arg["shortcut"]
    BY <1>0, <1>2 DEF PressToggle, PressEscape, ShortcutStep, Begin, Cancelling, ToggleDropped,
       TakeToggle, ToggleIgnored, TakeCancel, CancelSession, BeginDenied,
       BeginPaused, BeginUnpaused, BeginClear, BeginAsr, BeginAsrFails, BeginMic, BeginReport,
       CancelStopsAsr, CancelStopsRecorder, CancelReport, BeginPC
  <2> QED  BY <2>1, <2>2, <2>3 DEF NoneLive, NoneFails, UsedPlain
<1> QED  BY <1>1, <1>2

(* The others, but for the closures that report a start or spawn a worker, *)
(* and the undo.                                                           *)
OtherStep ==
    \/ ClickFinish \/ ClickCancel \/ ClickPause \/ PauseCancels \/ UiDropsAsr
    \/ RejectStopsAsr \/ RejectStopsRecorder \/ UiMutes \/ Cancelling("ui")
    \/ TimerFires \/ LimitReached \/ Quit \/ WindowLapses \/ PauseSave \/ UNCHANGED vars
    \/ \E s \in Session : WorkerStep(s) \/ UiStartFailed(s) \/ UiStartRejected(s)
    \/ \E s, audio \in Session : UiRetains(s, audio)

LEMMA OtherRests ==
    ASSUME TypeOK, OtherStep
    PROVE  NoneLive /\ NoneFails
<1> USE DEF sessionVars, envVars, threadVars, jobVars, historyVars, Goto, Enter, Return,
            Thread
<1>0. /\ pc \in [Thread -> ShortcutPC \cup UiPC] /\ arg \in [Thread -> Owner]
      /\ job \in [Session -> Stage]
  BY DEF TypeOK, ThreadTypeOK, JobTypeOK
<1>1. CASE ClickFinish \/ LimitReached
  <2>1. FinishSession /\ UNCHANGED <<pc, arg, misapplied>>
    BY <1>1 DEF ClickFinish, LimitReached
  <2> QED  BY <2>1, FinishSessionRests DEF NoneLive, NoneFails, UsedPlain
<1>2. CASE ClickCancel \/ PauseCancels
  BY <1>0, <1>2 DEF ClickCancel, PauseCancels, CancelSession, RequestCancel, UiIdle, NoneLive,
     NoneFails, UsedPlain, Undo, Live
<1>3. CASE ClickPause \/ UiDropsAsr \/ RejectStopsAsr \/ RejectStopsRecorder \/ UiMutes
           \/ Cancelling("ui") \/ TimerFires \/ Quit \/ WindowLapses \/ PauseSave
           \/ UNCHANGED vars
  <2>1. UNCHANGED <<state, sid, used, job, misapplied>>
    BY <1>3 DEF ClickPause, UiDropsAsr, RejectStopsAsr, RejectStopsRecorder, UiMutes,
       Cancelling, CancelStopsAsr, CancelStopsRecorder, CancelReport, TimerFires,
       MuteTimerFires, ExpireTimerFires, Quit, WindowLapses, vars,
       PauseSave, SubmitPause, PauseSaveAnswered
  <2>2. /\ pc'["shortcut"] = pc["shortcut"] /\ arg'["shortcut"] = arg["shortcut"]
        /\ pc'["ui"] \in Undo => pc["ui"] \in Undo /\ arg'["ui"] = arg["ui"]
    BY <1>0, <1>3 DEF ClickPause, UiDropsAsr, RejectStopsAsr, RejectStopsRecorder, UiMutes,
       Cancelling, CancelStopsAsr, CancelStopsRecorder, CancelReport, TimerFires,
       MuteTimerFires, ExpireTimerFires, Quit, WindowLapses, vars, Undo, UiIdle,
       PauseSave, SubmitPause, PauseSaveAnswered
  <2> QED  BY <2>1, <2>2 DEF NoneLive, NoneFails, UsedPlain
<1>4. ASSUME NEW s \in Session, WorkerStep(s) PROVE NoneLive /\ NoneFails
  BY <1>0, <1>4 DEF WorkerStep, WorkerStops, WorkerTakes, WorkerDelivers, WorkerCompletes,
     WorkerAt, Complete, NoneLive, NoneFails, UsedPlain, Live
<1>5. ASSUME NEW s \in Session, NEW audio \in Session,
             UiStartFailed(s) \/ UiStartRejected(s) \/ UiRetains(s, audio)
      PROVE  NoneLive /\ NoneFails
  <2>1. misapplied => misapplied'
    BY <1>5 DEF UiStartFailed, UiStartRejected, UiRetains
  <2>2. /\ UNCHANGED <<used, job>> /\ sid' \in {sid, None}
        /\ state' \in Live => state' = state /\ sid' = sid
    BY <1>5 DEF UiStartFailed, UiStartRejected, UiRetains, StartupFailed,
       RecordingNotStarted, Live
  <2>3. /\ pc'["shortcut"] = pc["shortcut"] /\ arg'["shortcut"] = arg["shortcut"]
        /\ pc'["ui"] \notin Undo
    BY <1>0, <1>5 DEF UiStartFailed, UiStartRejected, UiRetains, Receives, UiIdle, Undo
  <2> QED  BY <2>1, <2>2, <2>3 DEF NoneLive, NoneFails, UsedPlain
<1> QED  BY <1>1, <1>2, <1>3, <1>4, <1>5 DEF OtherStep

LEMMA BeginStep ==
    ASSUME RestInv, [Next]_vars
    PROVE  BeginInv'
<1> USE DEF sessionVars, envVars, threadVars, jobVars, historyVars, Goto, Enter, Return,
            Thread
<1>0. /\ TypeOK /\ BeginInv /\ ReportInv
      /\ pc \in [Thread -> ShortcutPC \cup UiPC] /\ arg \in [Thread -> Owner]
      /\ None \notin Session
  BY NoneIsNoSession DEF RestInv, LifeInv, DeliverInv, FinishInv, TypeOK, ThreadTypeOK
<1>1. ASSUME NEW s \in Session, ToggleBegins(s) PROVE BeginInv'
  BY <1>0, <1>1 DEF ToggleBegins, ToggleStarts, BeginInv
<1>2. ASSUME NEW s \in Session, UiStarted(s) PROVE BeginInv'
  <2>1. 1 \in 1..Len(uiQueue) /\ uiQueue[1].type = "started" /\ uiQueue[1].id = s
    BY <1>0, <1>2, ReceivesReports DEF UiStarted
  <2>2. /\ state = "Starting" /\ state' = "Recording" /\ sid' = sid
        /\ misapplied' = (misapplied \/ sid # s)
        /\ pc'["shortcut"] = pc["shortcut"] /\ arg'["shortcut"] = arg["shortcut"]
    BY <1>0, <1>2 DEF UiStarted, RecordingStarted
  <2> QED  BY <1>0, <2>1, <2>2 DEF BeginInv, ReportInv, Starts, Live
<1>3. ASSUME NEW s \in Session, UiFinish(s) PROVE NoneLive
  BY <1>0, <1>3 DEF UiFinish, Complete, NoneLive, Live
<1>4. CASE ClickUndo \/ UndoBegins \/ UndoRestores \/ UndoFindsNothing
  <2>1. NoneLive
    BY <1>0, <1>4 DEF ClickUndo, UndoBegins, UndoRestores, UndoFindsNothing, Complete,
       BeginRetainedProcessing, NoneLive, Live
  <2> QED  BY <1>0, <2>1, NoneLiveKeeps
<1> QED
  BY <1>0, <1>1, <1>2, <1>3, <1>4, ShortcutRests, OtherRests, NoneLiveKeeps
     DEF Next, OtherStep, UiClosure, UiHandler, Click, ShortcutStep

LEMMA FailedStep ==
    ASSUME RestInv, [Next]_vars
    PROVE  FailedInv'
<1> USE DEF sessionVars, envVars, threadVars, jobVars, historyVars, Goto, Enter, Return,
            Thread
<1>0. /\ TypeOK /\ FailedInv /\ UsedInv /\ FinishInv
      /\ pc \in [Thread -> ShortcutPC \cup UiPC] /\ arg \in [Thread -> Owner]
      /\ None \notin Session /\ job \in [Session -> Stage] /\ arg["ui"] \in Owner
  BY NoneIsNoSession DEF RestInv, LifeInv, DeliverInv, FinishInv, TypeOK, ThreadTypeOK,
     JobTypeOK
<1>1. ASSUME NEW s \in Session, ToggleBegins(s) PROVE FailedInv'
  BY <1>0, <1>1 DEF ToggleBegins, ToggleStarts, FailedInv, Undo
<1>2. ASSUME NEW s \in Session, UiFinish(s) PROVE FailedInv'
  <2>1. 1 \in 1..Len(uiQueue) /\ uiQueue[1].type = "finish" /\ uiQueue[1].id = s
    BY <1>0, <1>2, ReceivesReports DEF UiFinish
  <2>2. sid = s /\ s \in used
    BY <1>0, <2>1 DEF FinishInv, QueuedFinishes, FinishHasOneOwner, Finishing, UsedInv
  <2>3. pc'["ui"] \notin Undo
    BY <1>0, <1>2 DEF UiFinish, Receives, UiIdle, Undo
  <2>4. \/ job' = [job EXCEPT ![s] = "stop"] /\ UNCHANGED <<sid, used>>
        \/ job' = [job EXCEPT ![s] = "failed"] /\ sid' = None /\ UNCHANGED used
    BY <1>2 DEF UiFinish, Complete
  <2> QED  BY <1>0, <2>2, <2>3, <2>4 DEF FailedInv
<1>3. CASE ClickUndo
  BY <1>0, <1>3 DEF ClickUndo, FailedInv, Undo
<1>4. CASE UndoBegins
  BY <1>0, <1>4 DEF UndoBegins, BeginRetainedProcessing, FailedInv, Undo
<1>5. CASE UndoRestores
  <2>1. arg["ui"] \in used /\ pc'["ui"] = "idle" /\ UNCHANGED used
    BY <1>0, <1>5 DEF UndoRestores, Complete, UsedInv, Undo
  <2>2. \/ job' = [job EXCEPT ![arg["ui"]] = "deliver"] /\ UNCHANGED sid
        \/ job' = [job EXCEPT ![arg["ui"]] = "failed"] /\ sid' = None
    BY <1>5 DEF UndoRestores, Complete
  <2> QED  BY <1>0, <2>1, <2>2 DEF FailedInv, Undo
<1>6. ASSUME NEW s \in Session, UiStarted(s) PROVE FailedInv'
  BY <1>0, <1>6 DEF UiStarted, RecordingStarted, Receives, UiIdle, FailedInv, Undo
<1>7. CASE UndoFindsNothing
  BY <1>0, <1>7 DEF UndoFindsNothing, Complete, FailedInv, Undo
<1> QED
  BY <1>0, <1>1, <1>2, <1>3, <1>4, <1>5, <1>6, <1>7, ShortcutRests, OtherRests, NoneFailsKeeps
     DEF Next, OtherStep, UiClosure, UiHandler, Click, ShortcutStep

-----------------------------------------------------------------------------
(* Every capture and every recognition has somebody who will release it.   *)

LEMMA FinishSessionHolds ==
    ASSUME TypeOK, FinishSession, UNCHANGED loopAlive
    PROVE  (asr' # None => AsrHeld') /\ (rec' # None => RecHeld')
<1>1. CASE loopAlive
  <2>1. sid \in Session /\ job' = [job EXCEPT ![sid] = "queued"]
    BY <1>1 DEF FinishSession, RequestFinish, CanFinish, TypeOK, SessionTypeOK
  <2>2. job'[sid] = "queued"
    BY <2>1 DEF TypeOK, JobTypeOK
  <2> QED  BY <2>1, <2>2 DEF AsrHeld, RecHeld
<1>2. CASE ~loopAlive
  BY <1>2 DEF AsrHeld, RecHeld
<1> QED  BY <1>1, <1>2

LEMMA CancelSessionHolds ==
    ASSUME ReleaseInv, BeginInv, TypeOK, NEW t \in Thread, CancelSession(t),
           pc[t] \in {"idle", "pause"},
           UNCHANGED <<loopAlive, uiQueue, asr, rec, job>>
    PROVE  ReleaseInv'
<1> USE DEF Thread
<1>0. /\ pc \in [Thread -> ShortcutPC \cup UiPC] /\ got \in [Thread -> Owner]
      /\ (StartWaits => StartWaits') /\ (FailWaits => FailWaits')
  BY QueueReports DEF TypeOK, ThreadTypeOK
<1>1. CASE CanCancel
  <2>1. pc'[t] = "cancelAsr"
    BY <1>0, <1>1 DEF CancelSession, Enter
  <2> QED  BY <2>1 DEF ReleaseInv, AsrHeld, RecHeld
<1>2. CASE ~CanCancel
  <2>1. pc' = [pc EXCEPT ![t] = "idle"] /\ UNCHANGED <<state, misapplied>>
    BY <1>2 DEF CancelSession, Return, sessionVars, historyVars
  <2>2. got'["shortcut"] = got["shortcut"] \/ pc'["shortcut"] = "idle"
    BY <1>0, <1>2 DEF CancelSession, Return
  <2>3. t = "shortcut" => pc'["ui"] = pc["ui"]
    BY <1>0, <2>1
  <2>4. t = "ui" => pc'["shortcut"] = pc["shortcut"] /\ got'["shortcut"] = got["shortcut"]
    BY <1>0, <1>2, <2>1 DEF CancelSession, Return
  <2> QED  BY <1>0, <2>1, <2>3, <2>4 DEF ReleaseInv, AsrHeld, RecHeld
<1> QED  BY <1>1, <1>2

LEMMA ReleaseShortcut ==
    ASSUME RestInv, PressToggle \/ PressEscape \/ ShortcutStep
    PROVE  ReleaseInv'
<1> USE DEF sessionVars, envVars, threadVars, deviceVars, jobVars, historyVars, Goto, Enter,
            Return, Thread
<1>0. /\ TypeOK /\ BeginInv /\ ReleaseInv
      /\ pc \in [Thread -> ShortcutPC \cup UiPC] /\ got \in [Thread -> Owner]
      /\ (UNCHANGED uiQueue => (StartWaits => StartWaits') /\ (FailWaits => FailWaits'))
  BY QueueReports DEF RestInv, LifeInv, DeliverInv, FinishInv, TypeOK, ThreadTypeOK
<1>1. CASE PressToggle \/ PressEscape \/ ToggleDropped \/ TakeToggle \/ ToggleIgnored
  BY <1>0, <1>1 DEF PressToggle, PressEscape, ToggleDropped, TakeToggle, ToggleIgnored, Takes,
     ReleaseInv, AsrHeld, RecHeld
<1>2. ASSUME NEW s \in Session, ToggleBegins(s) PROVE ReleaseInv'
  BY <1>0, <1>2 DEF ToggleBegins, ToggleStarts, ReleaseInv, AsrHeld, RecHeld
<1>3. CASE ToggleFinishes
  BY <1>0, <1>3, FinishSessionHolds DEF ToggleFinishes, ReleaseInv
<1>4. CASE TakeCancel
  BY <1>0, <1>4, CancelSessionHolds DEF TakeCancel, Takes
<1>5. CASE BeginDenied \/ BeginUnpaused \/ BeginClear \/ BeginAsr \/ BeginAsrFails
  BY <1>0, <1>5 DEF BeginDenied, BeginUnpaused, BeginClear, BeginAsr, BeginAsrFails,
     StartupFailed, ReleaseInv, AsrHeld, RecHeld
<1>6. CASE BeginPaused
  <2>1. state = "Recording" => misapplied
    BY <1>0, <1>6 DEF BeginPaused, BeginInv, BeginPC
  <2> QED  BY <1>0, <1>6, <2>1 DEF BeginPaused, RequestCancelIfPossible, RequestCancel,
              ReleaseInv, AsrHeld, RecHeld
<1>7. CASE BeginMic
  <2>1. pc["shortcut"] = "mic" /\ pc'["shortcut"] = "report" /\ pc'["ui"] = pc["ui"]
    BY <1>0, <1>7 DEF BeginMic
  <2>2. \/ rec' = rec
        \/ got'["shortcut"] # None
        \/ rec' = None
    BY <1>0, <1>7 DEF BeginMic
  <2>3. UNCHANGED <<state, loopAlive, uiQueue, asr, job, misapplied>>
    BY <1>7 DEF BeginMic
  <2> QED  BY <1>0, <2>1, <2>2, <2>3 DEF ReleaseInv, AsrHeld, RecHeld
<1>8. CASE BeginReport
  <2>1. CASE loopAlive
    <3> DEFINE e == Event(IF got["shortcut"] = None THEN "startFailed" ELSE "started",
                          arg["shortcut"], None)
    <3>1. /\ e \in UiEvent /\ e.type \in Starts
          /\ got["shortcut"] # None => e.type = "started"
      BY <1>0, <1>8 DEF BeginReport, Event, UiEvent, Owner, Starts, TypeOK, ThreadTypeOK, Unowned
    <3>2. uiQueue' = Append(uiQueue, e)
      BY <1>8, <2>1 DEF BeginReport, Queue
    <3> HIDE DEF e
    <3>3. /\ StartWaits' \/ FailWaits'
          /\ StartWaits => StartWaits'
          /\ got["shortcut"] # None => StartWaits'
      BY <1>0, <3>1, <3>2, QueueReports DEF Starts
    <3>4. /\ pc["shortcut"] = "report" /\ pc'["shortcut"] = "idle" /\ pc'["ui"] = pc["ui"]
          /\ UNCHANGED <<state, loopAlive, asr, rec, job, misapplied>>
      BY <1>0, <1>8, <2>1 DEF BeginReport
    <3>5. asr' # None => AsrHeld'
      BY <3>3 DEF AsrHeld
    <3>6. rec' # None /\ ~misapplied' => RecHeld'
      BY <1>0, <3>3, <3>4 DEF ReleaseInv, RecHeld
    <3> QED  BY <3>5, <3>6 DEF ReleaseInv
  <2>2. CASE ~loopAlive
    BY <1>8, <2>2 DEF BeginReport, CancelAsr, StopRecorder, ReleaseInv
  <2> QED  BY <2>1, <2>2
<1>9. CASE Cancelling("shortcut")
  <2>1. CASE CancelStopsAsr("shortcut") \/ CancelStopsRecorder("shortcut")
    BY <1>0, <2>1 DEF CancelStopsAsr, CancelStopsRecorder, CancelAsr, StopRecorder, ReleaseInv,
       AsrHeld, RecHeld
  <2>2. CASE CancelReport("shortcut")
    <3>1. UNCHANGED uiQueue \/ uiQueue' = Append(uiQueue, Event("cancelled", arg["shortcut"], got["shortcut"]))
      BY <2>2 DEF CancelReport, Queue
    <3>2. Event("cancelled", arg["shortcut"], got["shortcut"]) \in UiEvent
      BY <1>0, <2>2 DEF CancelReport, TypeOK, ThreadTypeOK, Unowned, Event, UiEvent
    <3>3. (StartWaits => StartWaits') /\ (FailWaits => FailWaits')
      BY <1>0, <3>1, <3>2, QueueReports
    <3> QED  BY <1>0, <2>2, <3>3 DEF CancelReport, ReleaseInv, AsrHeld, RecHeld
  <2> QED  BY <1>9, <2>1, <2>2 DEF Cancelling
<1> QED
  BY <1>1, <1>2, <1>3, <1>4, <1>5, <1>6, <1>7, <1>8, <1>9 DEF ShortcutStep, Begin

LEMMA ReleaseClosure ==
    ASSUME RestInv, UiClosure
    PROVE  ReleaseInv'
<1> USE DEF sessionVars, envVars, threadVars, deviceVars, jobVars, historyVars, Goto, Enter,
            Return, Thread
<1>0. /\ TypeOK /\ ReleaseInv /\ job \in [Session -> Stage]
      /\ pc \in [Thread -> ShortcutPC \cup UiPC] /\ misapplied \in BOOLEAN
  BY DEF RestInv, LifeInv, DeliverInv, FinishInv, TypeOK, ThreadTypeOK, JobTypeOK, HistoryTypeOK
<1>1. ASSUME NEW s \in Session, UiStartFailed(s) PROVE ReleaseInv'
  <2>1. StartWaits => StartWaits'
    BY <1>0, <1>1, ReceivesReports DEF UiStartFailed
  <2>2. pc'["ui"] = "dropAsr" /\ pc["ui"] = "idle" /\ pc'["shortcut"] = pc["shortcut"]
    BY <1>0, <1>1 DEF UiStartFailed, Receives, UiIdle
  <2>3. misapplied => misapplied'
    BY <1>1 DEF UiStartFailed
  <2>4. /\ UNCHANGED <<loopAlive, asr, rec, job, got>>
        /\ state = "Recording" => state' = "Recording"
    BY <1>1 DEF UiStartFailed, StartupFailed
  <2>5. asr' # None => AsrHeld'
    BY <2>2 DEF AsrHeld
  <2>6. rec # None /\ ~misapplied => RecHeld'
    BY <1>0, <2>1, <2>2, <2>4 DEF ReleaseInv, RecHeld
  <2> QED  BY <2>3, <2>4, <2>5, <2>6 DEF ReleaseInv
<1>2. ASSUME NEW s \in Session, UiStarted(s) PROVE ReleaseInv'
  BY <1>2 DEF UiStarted, RecordingStarted, ReleaseInv, AsrHeld, RecHeld
<1>3. ASSUME NEW s \in Session, UiStartRejected(s) PROVE ReleaseInv'
  <2>1. pc'["ui"] = "rejectAsr"
    BY <1>0, <1>3 DEF UiStartRejected
  <2> QED  BY <2>1 DEF ReleaseInv, AsrHeld, RecHeld
<1>4. ASSUME NEW s \in Session, UiFinish(s) PROVE ReleaseInv'
  <2>1. job'[s] = "stop" \/ (job'[s] = "failed" /\ pc'["ui"] = "dropAsr")
    BY <1>0, <1>4 DEF UiFinish
  <2> QED  BY <2>1 DEF ReleaseInv, AsrHeld, RecHeld
<1>5. ASSUME NEW s \in Session, NEW audio \in Session, UiRetains(s, audio) PROVE ReleaseInv'
  <2>1. (StartWaits => StartWaits') /\ (FailWaits => FailWaits')
    BY <1>0, <1>5, ReceivesReports DEF UiRetains
  <2> QED  BY <1>0, <1>5, <2>1 DEF UiRetains, ReleaseInv, AsrHeld, RecHeld
<1> QED  BY <1>1, <1>2, <1>3, <1>4, <1>5 DEF UiClosure

LEMMA ReleaseOther ==
    ASSUME RestInv,
           \/ Click \/ Quit \/ WindowLapses \/ UiHandler \/ TimerFires \/ LimitReached
           \/ PauseSave \/ UNCHANGED vars \/ \E s \in Session : WorkerStep(s)
    PROVE  ReleaseInv'
<1> USE DEF sessionVars, envVars, threadVars, deviceVars, jobVars, historyVars, Goto, Enter,
            Return, Thread
<1>0. /\ TypeOK /\ BeginInv /\ ReleaseInv /\ FailedInv /\ FinishHasOneOwner
      /\ job \in [Session -> Stage]
      /\ pc \in [Thread -> ShortcutPC \cup UiPC] /\ ThreadTypeOK
      /\ (UNCHANGED uiQueue => (StartWaits => StartWaits') /\ (FailWaits => FailWaits'))
  BY QueueReports DEF RestInv, LifeInv, DeliverInv, FinishInv, TypeOK, ThreadTypeOK, JobTypeOK
<1>1. CASE ClickFinish \/ LimitReached
  BY <1>0, <1>1, FinishSessionHolds DEF ClickFinish, LimitReached, ReleaseInv
<1>2. CASE ClickCancel \/ PauseCancels
  BY <1>0, <1>2, CancelSessionHolds DEF ClickCancel, PauseCancels, UiIdle
<1>3. CASE ClickPause \/ ClickUndo \/ UiMutes \/ TimerFires \/ WindowLapses \/ PauseSave
           \/ UNCHANGED vars
  <2>1. UNCHANGED <<state, loopAlive, uiQueue, asr, rec, job, misapplied>>
    BY <1>3 DEF ClickPause, ClickUndo, UiMutes, TimerFires, MuteTimerFires,
       ExpireTimerFires, WindowLapses, PauseSave, SubmitPause, PauseSaveAnswered, vars
  <2>2. /\ pc'["shortcut"] = pc["shortcut"]
        /\ pc'["ui"] = pc["ui"] \/ pc["ui"] \in {"idle", "mute"}
    BY <1>0, <1>3 DEF ClickPause, ClickUndo, UiMutes, TimerFires, MuteTimerFires,
       ExpireTimerFires, WindowLapses, PauseSave, SubmitPause, PauseSaveAnswered, vars, UiIdle
  <2>3. got'["shortcut"] = got["shortcut"]
    BY <1>0, <1>3 DEF ClickPause, ClickUndo, UiMutes, TimerFires, MuteTimerFires,
       ExpireTimerFires, WindowLapses, PauseSave, SubmitPause, PauseSaveAnswered, vars, ThreadTypeOK
  <2> QED  BY <1>0, <2>1, <2>2, <2>3 DEF ReleaseInv, AsrHeld, RecHeld
<1>4. CASE Quit
  BY <1>4 DEF Quit, ReleaseInv, AsrHeld, RecHeld
<1>5. CASE UiDropsAsr \/ RejectStopsAsr \/ RejectStopsRecorder
  BY <1>0, <1>5 DEF UiDropsAsr, RejectStopsAsr, RejectStopsRecorder, CancelAsr, StopRecorder,
     ReleaseInv, AsrHeld, RecHeld, ThreadTypeOK
<1>6. CASE CancelStopsAsr("ui") \/ CancelStopsRecorder("ui")
  BY <1>0, <1>6 DEF CancelStopsAsr, CancelStopsRecorder, CancelAsr, StopRecorder, ReleaseInv,
     AsrHeld, RecHeld, ThreadTypeOK
<1>7. CASE CancelReport("ui")
  <2>1. UNCHANGED uiQueue \/ uiQueue' = Append(uiQueue, Event("cancelled", arg["ui"], got["ui"]))
    BY <1>7 DEF CancelReport, Queue
  <2>2. Event("cancelled", arg["ui"], got["ui"]) \in UiEvent
    BY <1>0, <1>7 DEF CancelReport, TypeOK, ThreadTypeOK, Unowned, Event, UiEvent
  <2>3. (StartWaits => StartWaits') /\ (FailWaits => FailWaits')
    BY <1>0, <2>1, <2>2, QueueReports
  <2> QED  BY <1>0, <1>7, <2>3 DEF CancelReport, ReleaseInv, AsrHeld, RecHeld, ThreadTypeOK
<1>8. CASE UndoBegins \/ UndoFindsNothing \/ UndoRestores
  <2> DEFINE a == arg["ui"]
  <2>1. /\ pc["ui"] \in Undo /\ pc'["ui"] \in {"idle", "undoTake"}
        /\ pc'["shortcut"] = pc["shortcut"] /\ got'["shortcut"] = got["shortcut"]
    BY <1>0, <1>8 DEF UndoBegins, UndoFindsNothing, UndoRestores, ThreadTypeOK, Undo
  <2>2. UNCHANGED <<loopAlive, uiQueue, asr, rec, misapplied>>
    BY <1>8 DEF UndoBegins, UndoFindsNothing, UndoRestores
  <2>3. state = "Recording" => state' = "Recording"
    <3>1. CASE UndoBegins
      BY <3>1 DEF UndoBegins, BeginRetainedProcessing
    <3>2. CASE pc["ui"] = "undoTake"
      BY <1>0, <3>2 DEF FinishHasOneOwner, Undoing, ThreadTypeOK, Unowned
    <3> QED  BY <1>8, <3>1, <3>2 DEF UndoFindsNothing, UndoRestores
  <2>4. \A s \in Session : job[s] \in {"queued", "stop", "take", "failed"} => job'[s] = job[s]
    <3>1. CASE UndoRestores
      <4>1. a \in Session /\ job[a] \notin {"queued", "stop", "take", "failed"}
        BY <1>0, <3>1 DEF UndoRestores, FinishHasOneOwner, Undoing, Finishing, FailedInv, Undo,
           ThreadTypeOK, Unowned
      <4>2. \E l : job' = [job EXCEPT ![a] = l]
        BY <3>1 DEF UndoRestores
      <4> QED  BY <1>0, <4>1, <4>2
    <3>2. CASE ~UndoRestores
      BY <1>8, <3>2 DEF UndoBegins, UndoFindsNothing
    <3> QED  BY <3>1, <3>2
  <2> QED  BY <1>0, <2>1, <2>2, <2>3, <2>4 DEF ReleaseInv, AsrHeld, RecHeld, Undo
<1>9. ASSUME NEW s \in Session, WorkerStep(s) PROVE ReleaseInv'
  <2>1. UNCHANGED <<loopAlive, uiQueue, pc, got, misapplied>>
    BY <1>9 DEF WorkerStep, WorkerStops, WorkerTakes, WorkerDelivers, WorkerCompletes, WorkerAt
  <2>2. CASE WorkerStops(s)
    <3>1. job' = [job EXCEPT ![s] = "take"] /\ job'[s] = "take"
      BY <1>0, <2>2 DEF WorkerStops, WorkerAt
    <3>2. rec' = None
      BY <2>2 DEF WorkerStops, StopRecorder
    <3> QED  BY <3>1, <3>2 DEF ReleaseInv, AsrHeld
  <2>3. CASE WorkerTakes(s) \/ WorkerDelivers(s) \/ WorkerCompletes(s)
    <3>1. /\ job[s] \in {"take", "deliver", "complete"}
          /\ \E l : job' = [job EXCEPT ![s] = l]
      BY <2>3 DEF WorkerTakes, WorkerDelivers, WorkerCompletes, WorkerAt
    <3>2. \A q \in Session : job[q] \in {"queued", "stop", "failed"} => job'[q] = job[q]
      BY <1>0, <3>1
    <3>3. state = "Recording" => state' = "Recording"
      BY <1>0, <2>3 DEF WorkerTakes, WorkerDelivers, WorkerCompletes, WorkerAt, Finishing,
         FinishHasOneOwner
    <3>4. rec' = rec /\ (asr' = None \/ (asr' = asr /\ job[s] # "take"))
      BY <2>3 DEF WorkerTakes, WorkerDelivers, WorkerCompletes, WorkerAt
    <3>5. job[s] # "take" =>
             \A q \in Session : job[q] = "take" => job'[q] = "take"
      BY <1>0, <3>1
    <3>6. rec' # None /\ ~misapplied' => RecHeld'
      BY <1>0, <2>1, <3>2, <3>3, <3>4 DEF ReleaseInv, RecHeld
    <3>7. asr' # None /\ ~misapplied' => AsrHeld'
      BY <1>0, <2>1, <3>2, <3>3, <3>4, <3>5 DEF ReleaseInv, AsrHeld
    <3> QED  BY <3>6, <3>7 DEF ReleaseInv
  <2> QED  BY <1>9, <2>2, <2>3 DEF WorkerStep
<1> QED
  BY <1>1, <1>2, <1>3, <1>4, <1>5, <1>6, <1>7, <1>8, <1>9
     DEF Click, UiHandler, Cancelling

-----------------------------------------------------------------------------
(* Every pause is seen.                                                    *)

(* A step that leaves the pause, the tray's handler and the start alone,   *)
(* or ends the session.                                                    *)
PausePlain ==
    /\ paused' => paused
    /\ spared' = spared
    /\ misapplied => misapplied'
    /\ state' \in Live => state' = state /\ sid' = sid
    /\ state' \in Live /\ pc["ui"] = "pause" => pc'["ui"] = "pause"
    /\ state' \in Live /\ pc["shortcut"] = "begin" => pc'["shortcut"] = "begin"

LEMMA PausePlainKeeps ==
    ASSUME PauseInv, PausePlain
    PROVE  PauseInv'
BY DEF PauseInv, PausePlain

(* A cancel that finds nothing to cancel finds no session under way.       *)
LEMMA CancelEndsLive ==
    ASSUME BeginInv
    PROVE  /\ RequestCancelIfPossible => state' \notin Live
           /\ \A t \in Thread : CancelSession(t) => state' \notin Live
                                                   /\ misapplied' = misapplied
BY DEF BeginInv, RequestCancelIfPossible, RequestCancel, CanCancel, CancelSession, Live,
       sessionVars, historyVars

LEMMA PauseShortcut ==
    ASSUME RestInv, PressToggle \/ PressEscape \/ ShortcutStep
    PROVE  PauseInv'
<1> USE DEF sessionVars, envVars, threadVars, historyVars, Goto, Enter, Return, Thread
<1>0. /\ TypeOK /\ BeginInv /\ PauseInv
      /\ pc \in [Thread -> ShortcutPC \cup UiPC]
  BY DEF RestInv, LifeInv, DeliverInv, FinishInv, TypeOK, ThreadTypeOK
<1>1. ASSUME NEW s \in Session, ToggleBegins(s) PROVE PauseInv'
  BY <1>0, <1>1 DEF ToggleBegins, ToggleStarts, PauseInv
<1>2. CASE ToggleFinishes
  BY <1>0, <1>2, FinishSessionRests DEF ToggleFinishes, PauseInv
<1>3. CASE TakeCancel \/ BeginPaused
  BY <1>0, <1>3, CancelEndsLive DEF TakeCancel, BeginPaused, PauseInv
<1>4. CASE BeginUnpaused
  BY <1>0, <1>4 DEF BeginUnpaused, PauseInv
<1>5. CASE BeginDenied \/ BeginAsrFails
  <2>1. /\ state' \in Live => UNCHANGED <<state, sid>> /\ state # "Starting"
        /\ UNCHANGED <<paused, spared, misapplied>>
    BY <1>5 DEF BeginDenied, BeginAsrFails, StartupFailed, Live
  <2>2. pc'["ui"] = pc["ui"]
    BY <1>0, <1>5 DEF BeginDenied, BeginAsrFails
  <2> QED  BY <1>0, <2>1, <2>2 DEF PauseInv
<1>6. CASE BeginReport
  <2>1. /\ state' \in Live => state' = state /\ sid' = sid
        /\ UNCHANGED <<paused, spared, misapplied>>
    BY <1>0, <1>6, CancelEndsLive DEF BeginReport
  <2>2. pc["shortcut"] = "report" /\ pc'["ui"] = pc["ui"]
    BY <1>0, <1>6 DEF BeginReport
  <2> QED  BY <1>0, <2>1, <2>2, PausePlainKeeps DEF PausePlain
<1>7. CASE PressToggle \/ PressEscape \/ ToggleDropped \/ TakeToggle \/ ToggleIgnored
           \/ BeginClear \/ BeginAsr \/ BeginMic \/ Cancelling("shortcut")
  <2>1. UNCHANGED <<paused, spared, misapplied, state, sid>>
    BY <1>7 DEF PressToggle, PressEscape, ToggleDropped, TakeToggle, ToggleIgnored, BeginClear,
       BeginAsr, BeginMic, Cancelling, CancelStopsAsr, CancelStopsRecorder, CancelReport
  <2>2. /\ pc'["ui"] = pc["ui"]
        /\ pc["shortcut"] = "begin" => pc'["shortcut"] = "begin"
    BY <1>0, <1>7 DEF PressToggle, PressEscape, ToggleDropped, TakeToggle, Takes, ToggleIgnored,
       BeginClear, BeginAsr, BeginMic, Cancelling, CancelStopsAsr, CancelStopsRecorder,
       CancelReport
  <2> QED  BY <1>0, <2>1, <2>2, PausePlainKeeps DEF PausePlain
<1> QED
  BY <1>1, <1>2, <1>3, <1>4, <1>5, <1>6, <1>7 DEF ShortcutStep, Begin

LEMMA PauseUi ==
    ASSUME RestInv, UiClosure \/ Click \/ UiHandler
    PROVE  PauseInv'
<1> USE DEF sessionVars, envVars, threadVars, historyVars, Goto, Enter, Return, Thread
<1>0. /\ TypeOK /\ BeginInv /\ PauseInv /\ ReportInv
      /\ pc \in [Thread -> ShortcutPC \cup UiPC]
  BY DEF RestInv, LifeInv, DeliverInv, FinishInv, TypeOK, ThreadTypeOK
<1>1. ASSUME NEW s \in Session, UiStarted(s) PROVE PauseInv'
  <2>1. /\ 1 \in 1..Len(uiQueue) /\ uiQueue[1].type = "started" /\ uiQueue[1].id = s
        /\ pc["ui"] = "idle"
    BY <1>0, <1>1, ReceivesReports DEF UiStarted
  <2>2. /\ state = "Starting" /\ UNCHANGED <<paused, spared, sid>>
        /\ misapplied' = (misapplied \/ sid # s)
    BY <1>1 DEF UiStarted, RecordingStarted
  <2>3. pc["shortcut"] = "begin" => sid = arg["shortcut"] /\ arg["shortcut"] # s
    BY <1>0, <2>1, <2>2 DEF BeginInv, ReportInv, Starts, BeginPC
  <2> QED  BY <1>0, <2>1, <2>2, <2>3 DEF PauseInv, Live
<1>2. ASSUME NEW s \in Session, NEW audio \in Session,
             UiStartFailed(s) \/ UiStartRejected(s) \/ UiFinish(s) \/ UiRetains(s, audio)
      PROVE  PauseInv'
  <2>1. misapplied => misapplied'
    BY <1>2 DEF UiStartFailed, UiStartRejected, UiFinish, UiRetains
  <2>2. UNCHANGED <<paused, spared>> /\ (state' \in Live => state' = state /\ sid' = sid)
    BY <1>2 DEF UiStartFailed, UiStartRejected, UiFinish, UiRetains, StartupFailed,
       RecordingNotStarted, Complete, Live
  <2>3. pc["ui"] = "idle" /\ pc'["shortcut"] = pc["shortcut"]
    BY <1>0, <1>2 DEF UiStartFailed, UiStartRejected, UiFinish, UiRetains, Receives, UiIdle
  <2> QED  BY <1>0, <2>1, <2>2, <2>3, PausePlainKeeps DEF PausePlain
<1>3. CASE ClickPause
  BY <1>0, <1>3 DEF ClickPause, PauseInv
<1>4. CASE ClickCancel \/ PauseCancels
  BY <1>0, <1>4, CancelEndsLive DEF ClickCancel, PauseCancels, PauseInv
<1>5. CASE ClickFinish
  BY <1>0, <1>5, FinishSessionRests DEF ClickFinish, PauseInv
<1>6. CASE ClickUndo \/ UiDropsAsr \/ RejectStopsAsr \/ RejectStopsRecorder \/ UiMutes
           \/ Cancelling("ui") \/ UndoBegins \/ UndoRestores \/ UndoFindsNothing
  <2>1. /\ UNCHANGED <<paused, spared, misapplied>>
        /\ state' \in Live => state' = state /\ sid' = sid
    BY <1>6 DEF ClickUndo, UiDropsAsr, RejectStopsAsr, RejectStopsRecorder, UiMutes,
       Cancelling, CancelStopsAsr, CancelStopsRecorder, CancelReport, UndoBegins,
       UndoRestores, UndoFindsNothing, Complete, BeginRetainedProcessing, Live
  <2>2. pc["ui"] # "pause" /\ pc'["shortcut"] = pc["shortcut"]
    BY <1>0, <1>6 DEF ClickUndo, UiDropsAsr, RejectStopsAsr, RejectStopsRecorder, UiMutes,
       Cancelling, CancelStopsAsr, CancelStopsRecorder, CancelReport, UndoBegins,
       UndoRestores, UndoFindsNothing, UiIdle
  <2> QED  BY <1>0, <2>1, <2>2, PausePlainKeeps DEF PausePlain
<1> QED
  BY <1>1, <1>2, <1>3, <1>4, <1>5, <1>6 DEF UiClosure, Click, UiHandler

LEMMA PauseOther ==
    ASSUME RestInv,
           \/ Quit \/ WindowLapses \/ TimerFires \/ LimitReached \/ PauseSave
           \/ UNCHANGED vars \/ \E s \in Session : WorkerStep(s)
    PROVE  PauseInv'
<1> USE DEF sessionVars, envVars, threadVars, historyVars, Enter, Thread
<1>0. /\ TypeOK /\ PauseInv
      /\ pc \in [Thread -> ShortcutPC \cup UiPC]
  BY DEF RestInv, LifeInv, DeliverInv, FinishInv, TypeOK, ThreadTypeOK
<1>1. CASE LimitReached
  BY <1>0, <1>1, FinishSessionRests DEF LimitReached, PauseInv
<1>2. CASE Quit \/ WindowLapses \/ TimerFires \/ UNCHANGED vars
           \/ \E s \in Session : WorkerStep(s)
  <2>1. /\ UNCHANGED <<paused, spared, misapplied>>
        /\ state' \in Live => state' = state /\ sid' = sid
    BY <1>2 DEF Quit, WindowLapses, TimerFires, MuteTimerFires, ExpireTimerFires, vars,
       WorkerStep, WorkerStops, WorkerTakes, WorkerDelivers, WorkerCompletes, WorkerAt,
       Complete, Live
  <2>2. /\ pc["ui"] = "pause" => pc'["ui"] = "pause"
        /\ pc'["shortcut"] = pc["shortcut"]
    BY <1>0, <1>2 DEF Quit, WindowLapses, TimerFires, MuteTimerFires, ExpireTimerFires, vars,
       WorkerStep, WorkerStops, WorkerTakes, WorkerDelivers, WorkerCompletes, WorkerAt, UiIdle
  <2> QED  BY <1>0, <2>1, <2>2, PausePlainKeeps DEF PausePlain
<1>3. CASE PauseSave
  <2>1. /\ UNCHANGED <<state, sid, pc, misapplied>>
        /\ UNCHANGED <<paused, spared>> \/ \E attempted : RollbackPause(attempted)
    BY <1>3 DEF PauseSave, SubmitPause, PauseSaveAnswered
  <2>2. CASE UNCHANGED <<paused, spared>>
    BY <1>0, <2>1, <2>2, PausePlainKeeps DEF PausePlain
  <2>3. CASE \E attempted : RollbackPause(attempted)
    <3>1. \/ spared' = spared /\ (paused' /\ state \in Live => paused)
          \/ spared' = {sid}
      BY <2>3 DEF RollbackPause, Live
    <3> QED  BY <1>0, <2>1, <3>1 DEF PauseInv
  <2> QED  BY <2>1, <2>2, <2>3
<1> QED  BY <1>1, <1>2, <1>3

-----------------------------------------------------------------------------
(* What rests when the threads do.                                         *)

LEMMA InitRestInv == Init => RestInv
<1> SUFFICES ASSUME Init PROVE RestInv
  OBVIOUS
<1>1. LifeInv
  BY InitDeliverInv DEF LifeInv, UsedInv, Init, SessionInit, Undo, Thread
<1>2. uiQueue = <<>> /\ Len(uiQueue) = 0 /\ 1..Len(uiQueue) = {}
  BY DEF Init
<1>3. ReportInv /\ BeginInv /\ FailedInv /\ ReleaseInv /\ PauseInv
  BY <1>2 DEF Init, SessionInit, ReportInv, BeginInv, BeginPC, Live, FailedInv, ReleaseInv,
     PauseInv, Thread
<1> QED  BY <1>1, <1>3 DEF RestInv

LEMMA RestStep == RestInv /\ [Next]_vars => RestInv'
<1> SUFFICES ASSUME RestInv, [Next]_vars PROVE RestInv'
  OBVIOUS
<1>1. LifeInv'
  BY DeliverStep, UsedStep DEF RestInv, LifeInv
<1>2. ReportInv' /\ BeginInv' /\ FailedInv'
  BY ReportStep, BeginStep, FailedStep
<1>3. ReleaseInv'
  BY ReleaseShortcut, ReleaseClosure, ReleaseOther DEF Next
<1>4. PauseInv'
  BY PauseShortcut, PauseUi, PauseOther DEF Next
<1> QED  BY <1>1, <1>2, <1>3, <1>4 DEF RestInv

(* With the threads at rest, what holds a device is a capture whose worker *)
(* could not be spawned, or a session that records.                        *)
LEMMA RestReleases == RestInv => IdleReleasesDevices
<1> SUFFICES ASSUME RestInv, Quiescent, state = "Idle", ~misapplied
             PROVE  asr = None /\ (rec = None \/ \E s \in Session : job[s] = "failed")
  BY DEF IdleReleasesDevices
<1>1. /\ loopAlive /\ pc["shortcut"] = "idle" /\ pc["ui"] = "idle"
      /\ 1..Len(uiQueue) = {}
      /\ \A s \in Session : job[s] \notin {"queued", "stop", "take"}
  BY DEF Quiescent, Thread, Finishing
<1>2. ~StartWaits /\ ~FailWaits
  BY <1>1 DEF StartWaits, FailWaits
<1>3. ~AsrHeld
  BY <1>1, <1>2 DEF AsrHeld
<1>4. RecHeld => \E s \in Session : job[s] = "failed"
  BY <1>1, <1>2 DEF RecHeld
<1> QED  BY <1>3, <1>4 DEF RestInv, ReleaseInv

LEMMA RestPauses == RestInv => PausedStopsRecording
BY DEF RestInv, PauseInv, PausedStopsRecording, Quiescent, Thread, Live

(* The devices: when every thread has come to rest with no session, neither*)
(* the recognition nor the microphone is left running, whatever order the  *)
(* start, the cancel, the finish and the limit took their locks in, unless *)
(* the worker that would have stopped the capture could not be spawned.    *)
THEOREM DevicesReleased == Spec => []IdleReleasesDevices
<1> QED  BY InitRestInv, RestStep, RestReleases, PTL DEF Spec

(* The pause: a toggle that read the flag before the tray set it starts    *)
(* nothing that still records when the handlers have run.  The one session *)
(* that may record is that which was under way when the save of an unpause *)
(* failed.                                                                 *)
THEOREM PauseStopsRecording == Spec => []PausedStopsRecording
<1> QED  BY InitRestInv, RestStep, RestPauses, PTL DEF Spec
=============================================================================
