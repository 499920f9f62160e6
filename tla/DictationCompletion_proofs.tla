--------------------- MODULE DictationCompletion_proofs ---------------------
(***************************************************************************)
(* Proofs about DictationCompletion for any set of dictations, any number  *)
(* of versions of a text and any length of an observation.                 *)
(***************************************************************************)
EXTENDS DictationCompletion, TLAPS

-----------------------------------------------------------------------------
(* The inductive invariant: where the delivery, the recorder and the record*)
(* of a dictation stand against each other.                                *)

Undelivered == {"new", "notice", "record", "policy", "dispatch"}
Unsaved     == Undelivered \cup {"wait", "persist"}

(* An observer starts at the last callback of a delivery.                  *)
DeliveryInv(d) ==
    /\ worker[d] \in Undelivered => delivery[d] = "none"
    /\ delivery[d] # "over" => observer[d] = "none"
    /\ observer[d] = "none" => latest[d] = 0

(* The recorder keeps what an observation found until it is finished.      *)
RecorderInv(d) ==
    /\ recorder[d] = "awaiting" <=> worker[d] \in Unsaved \cup {"finish"}
    /\ recorder[d] = "awaiting" =>
          pending[d] = IF observer[d] = "ended" /\ latest[d] # 0
                       THEN latest[d] ELSE Nothing
    /\ observer[d] = "persist" => recorder[d] = "active"
    /\ worker[d] = "update" =>
          /\ recorder[d] = "active" /\ observer[d] = "ended"
          /\ pending[d] = latest[d]

(* The record has the delivered text until both are through.               *)
RecordInv(d) ==
    /\ worker[d] \in Unsaved => record[d] = Absent /\ ~saved[d]
    /\ worker[d] = "finish" /\ IsKept(d) => saved[d]
    /\ recorder[d] = "inactive" => ~IsKept(d)
    /\ IsKept(d) /\ d \notin lost =>
          record[d].text = IF worker[d] = "done" /\ observer[d] = "ended"
                           THEN latest[d] ELSE 0

StageInv == \A d \in Dictation : DeliveryInv(d) /\ RecorderInv(d) /\ RecordInv(d)

-----------------------------------------------------------------------------
(* Lemmas: what the storage worker does to the records.                    *)

(* A revision changes the text of a kept record, or the record counts as   *)
(* lost.                                                                   *)
LEMMA UpdatesRecord ==
    ASSUME TypeOK, NEW d \in Dictation, NEW v \in Version, Updates(d, v)
    PROVE  /\ record' \in [Dictation -> Record]
           /\ lost' \subseteq Dictation /\ lost \subseteq lost'
           /\ \A e \in Dictation \ {d} :
                 record'[e] = record[e] /\ (e \in lost' => e \in lost)
           /\ (record'[d].status = "kept") <=> IsKept(d)
           /\ ~IsKept(d) => record'[d] = record[d]
           /\ IsKept(d) /\ d \notin lost' => record'[d].text = v
           /\ record' = record
                \/ (IsKept(d) /\ record' = [record EXCEPT ![d] = Kept(v)])
PROOF
<1>1. record[d] \in Record
  BY DEF TypeOK
<1>2. CASE ~IsKept(d)
  BY <1>2 DEF TypeOK, Updates, IsKept
<1>3. CASE IsKept(d) /\ lost' = lost \cup {d} /\ UNCHANGED record
  BY <1>3 DEF TypeOK, IsKept
<1>4. CASE IsKept(d) /\ record' = [record EXCEPT ![d].text = v] /\ UNCHANGED lost
  <2>1. record[d] \in [status : {"kept"}, text : Version]
    BY <1>1, <1>4 DEF Record, IsKept, Absent, Deleted
  <2>2. [record[d] EXCEPT !.text = v] = [status |-> "kept", text |-> v]
    BY <2>1
  <2>3. record' = [record EXCEPT ![d] = Kept(v)]
    BY <1>4, <2>2 DEF Kept
  <2>4. Kept(v) \in Record /\ Kept(v).status = "kept" /\ Kept(v).text = v
    BY DEF Kept, Record
  <2>5. record \in [Dictation -> Record] /\ lost \subseteq Dictation
    BY DEF TypeOK
  <2> HIDE DEF Kept, Record
  <2> QED
    BY <1>4, <2>3, <2>4, <2>5 DEF IsKept
<1> QED
  BY <1>2, <1>3, <1>4 DEF Updates

(* An insertion writes a record once, and may delete others.               *)
LEMMA InsertsRecord ==
    ASSUME TypeOK, NEW d \in Dictation, record[d] = Absent, Inserts(d)
    PROVE  /\ record' \in [Dictation -> Record]
           /\ record'[d] \in {Absent, Kept(0)}
           /\ \A e \in Dictation \ {d} :
                 record'[e] = record[e] \/ (IsKept(e) /\ record'[e] = Deleted)
PROOF
<1>1. 0 \in Version
  BY BoundsAreNat DEF Version
<1>2. Kept(0) \in Record /\ Deleted \in Record
  BY <1>1 DEF Record, Kept, Deleted
<1>3. record \in [Dictation -> Record]
  BY DEF TypeOK
<1>4. CASE enabled
  <2>1. PICK old \in SUBSET {e \in Dictation : IsKept(e)} :
           record' = [e \in Dictation |->
                         IF e = d THEN Kept(0)
                         ELSE IF e \in old THEN Deleted ELSE record[e]]
    BY <1>4 DEF Inserts
  <2>2. record' \in [Dictation -> Record]
    BY <1>2, <1>3, <2>1
  <2>3. record'[d] = Kept(0)
    BY <2>1
  <2>4. ASSUME NEW e \in Dictation \ {d}
        PROVE  record'[e] = record[e] \/ (IsKept(e) /\ record'[e] = Deleted)
    BY <2>1
  <2> QED
    BY <2>2, <2>3, <2>4
<1>5. CASE ~enabled
  <2>1. record' = record
    BY <1>5 DEF Inserts, TypeOK
  <2> QED
    BY <1>3, <2>1
<1> QED
  BY <1>4, <1>5

-----------------------------------------------------------------------------
(* Lemmas: types.                                                          *)

LEMMA InitTypeOK == Init => TypeOK
PROOF
<1>1. 0 \in Version /\ Looks \in 0 .. Looks
  BY BoundsAreNat DEF Version
<1> QED
  BY <1>1 DEF Init, TypeOK, WorkerPC, Outcome, ObserverPC, Record, Nothing

LEMMA WorkerTypes ==
    ASSUME TypeOK, StageInv, NEW d \in Dictation, WorkerStep(d) \/ Begin(d)
    PROVE  TypeOK'
PROOF
<1> USE DEF WorkerGoes, WorkerPC, deliveryVars, observerVars, recorderVars,
            storeVars
<1>1. CASE Begin(d) \/ NoticeTimesOut(d) \/ Finalizes(d)
  BY <1>1 DEF TypeOK, Begin, NoticeTimesOut, Finalizes
<1>2. CASE NothingToDeliver(d) \/ LoadsPolicy(d) \/ Dispatches(d)
  BY <1>2 DEF TypeOK, NothingToDeliver, LoadsPolicy, Dispatches
<1>3. CASE Receives(d) \/ TimesOut(d)
  <2>1. CASE Receives(d)
    BY <2>1 DEF TypeOK, Receives, Outcome
  <2>2. CASE TimesOut(d)
    BY <2>2 DEF TypeOK, TimesOut, Outcome
  <2> QED
    BY <1>3, <2>1, <2>2
<1>4. CASE PersistsHistory(d)
  <2>1. record' \in [Dictation -> Record]
    BY <1>4, InsertsRecord DEF PersistsHistory, StageInv, RecordInv, Unsaved,
       TypeOK
  <2> QED
    BY <1>4, <2>1 DEF TypeOK, PersistsHistory, Outcome
<1>5. CASE FinishesRevision(d)
  BY <1>5 DEF TypeOK, FinishesRevision
<1>6. CASE UpdatesHistory(d)
  <2>1. pending[d] \in Version
    BY <1>6 DEF UpdatesHistory, StageInv, RecorderInv, TypeOK
  <2>2. record' \in [Dictation -> Record] /\ lost' \subseteq Dictation
    BY <1>6, <2>1, UpdatesRecord DEF UpdatesHistory
  <2> QED
    BY <1>6, <2>2 DEF TypeOK, UpdatesHistory
<1> QED
  BY <1>1, <1>2, <1>3, <1>4, <1>5, <1>6 DEF WorkerStep

LEMMA MainTypes ==
    ASSUME TypeOK, NEW d \in Dictation, MainStep(d)
    PROVE  TypeOK'
PROOF
<1> USE DEF workerVars, recorderVars, storeVars, observerVars
<1>1. CASE NoticeTaken(d)
  BY <1>1 DEF TypeOK, NoticeTaken, WorkerGoes, WorkerPC, Tell, deliveryVars
<1>2. CASE StartDelivery(d)
  BY <1>2 DEF TypeOK, StartDelivery
<1>3. CASE DropDelivery(d)
  BY <1>3 DEF TypeOK, DropDelivery, DeliveryEnds
<1>4. CASE CompleteDelivery(d)
  BY <1>4 DEF TypeOK, CompleteDelivery, DeliveryEnds, Observes, Tell,
     ObserverPC, Outcome, Secret
<1> QED
  BY <1>1, <1>2, <1>3, <1>4 DEF MainStep

LEMMA ObserverTypes ==
    ASSUME TypeOK, NEW d \in Dictation, ObserverStep(d)
    PROVE  TypeOK'
PROOF
<1> USE DEF ObserverGoes, ObserverPC, workerVars, deliveryVars, storeVars,
            recorderVars, Revised, Deaf
<1>1. CASE ObserverLooks(d)
  BY <1>1 DEF TypeOK, ObserverLooks
<1>2. CASE ObserverReads(d)
  <2>1. latest' \in [Dictation -> Version]
    BY <1>2 DEF TypeOK, ObserverReads
  <2>2. looks' \in [Dictation -> 0 .. Looks]
    BY <1>2, BoundsAreNat DEF TypeOK, ObserverReads
  <2>3. pending' \in [Dictation -> Version \cup {Nothing}]
    BY <1>2 DEF TypeOK, ObserverReads
  <2> QED
    BY <1>2, <2>1, <2>2, <2>3 DEF TypeOK, ObserverReads
<1>3. CASE ObserverPersists(d)
  <2>1. record' \in [Dictation -> Record] /\ lost' \subseteq Dictation
    BY <1>3, UpdatesRecord DEF ObserverPersists, TypeOK
  <2> QED
    BY <1>3, <2>1 DEF TypeOK, ObserverPersists
<1> QED
  BY <1>1, <1>2, <1>3 DEF ObserverStep

LEMMA UserTypes ==
    ASSUME TypeOK,
           RecordsDeleted \/ HistorySwitched \/ \E d \in Dictation : Edited(d)
    PROVE  TypeOK'
PROOF
<1> USE DEF workerVars, deliveryVars, observerVars, recorderVars, storeVars
<1>1. CASE RecordsDeleted
  BY <1>1 DEF TypeOK, RecordsDeleted, Record
<1>2. CASE HistorySwitched
  BY <1>2 DEF TypeOK, HistorySwitched
<1>3. CASE \E d \in Dictation : Edited(d)
  BY <1>3 DEF TypeOK, Edited
<1> QED
  BY <1>1, <1>2, <1>3

-----------------------------------------------------------------------------
(* Lemmas: the inductive invariant.                                        *)

(* A step leaves a dictation as it is, but that its record may be deleted. *)
Left(e) ==
    /\ worker'[e] = worker[e]
    /\ saved'[e] = saved[e]
    /\ delivery'[e] = delivery[e]
    /\ observer'[e] = observer[e]
    /\ latest'[e] = latest[e]
    /\ recorder'[e] = recorder[e]
    /\ pending'[e] = pending[e]
    /\ e \in lost => e \in lost'
    /\ record'[e] = record[e] \/ (IsKept(e) /\ record'[e] = Deleted)

LEMMA LeftInv ==
    ASSUME NEW e \in Dictation, Left(e),
           DeliveryInv(e), RecorderInv(e), RecordInv(e)
    PROVE  DeliveryInv(e)' /\ RecorderInv(e)' /\ RecordInv(e)'
PROOF
<1>1. DeliveryInv(e)' /\ RecorderInv(e)'
  BY DEF Left, DeliveryInv, RecorderInv
<1>2. RecordInv(e)'
  BY DEF Left, RecordInv, IsKept, Absent, Deleted
<1> QED
  BY <1>1, <1>2

LEMMA WorkerStage ==
    ASSUME TypeOK, StageInv, NEW d \in Dictation, WorkerStep(d) \/ Begin(d)
    PROVE  StageInv'
PROOF
<1> USE DEF WorkerGoes, deliveryVars, observerVars, recorderVars, storeVars
<1>1. DeliveryInv(d) /\ RecorderInv(d) /\ RecordInv(d)
  BY DEF StageInv
<1>2. \A e \in Dictation \ {d} : Left(e)
  <2> SUFFICES ASSUME NEW e \in Dictation \ {d}
               PROVE  Left(e)
    OBVIOUS
  <2>1. CASE PersistsHistory(d)
    BY <1>1, <2>1, InsertsRecord
       DEF PersistsHistory, RecordInv, Unsaved, Left, TypeOK
  <2>2. CASE UpdatesHistory(d)
    <3>1. pending[d] \in Version
      BY <1>1, <2>2 DEF UpdatesHistory, RecorderInv, TypeOK
    <3> QED
      BY <2>2, <3>1, UpdatesRecord DEF UpdatesHistory, Left, TypeOK
  <2>3. CASE ~PersistsHistory(d) /\ ~UpdatesHistory(d)
    BY <2>3 DEF WorkerStep, Begin, NoticeTimesOut, NothingToDeliver, Finalizes,
       LoadsPolicy, Dispatches, Receives, TimesOut, FinishesRevision, Left,
       TypeOK
  <2> QED
    BY <2>1, <2>2, <2>3
<1>3. DeliveryInv(d)' /\ RecorderInv(d)' /\ RecordInv(d)'
  <2> USE DEF Unsaved, Undelivered
  <2>1. CASE PersistsHistory(d)
    <3>1. DeliveryInv(d)' /\ RecorderInv(d)'
      BY <1>1, <2>1 DEF PersistsHistory, DeliveryInv, RecorderInv, TypeOK
    <3>2. RecordInv(d)'
      BY <1>1, <2>1, InsertsRecord
         DEF PersistsHistory, RecorderInv, RecordInv, IsKept, Absent, Kept, TypeOK
    <3> QED
      BY <3>1, <3>2
  <2>2. CASE UpdatesHistory(d)
    <3>1. pending[d] \in Version
      BY <1>1, <2>2 DEF UpdatesHistory, RecorderInv, TypeOK
    <3>2. DeliveryInv(d)' /\ RecorderInv(d)'
      BY <1>1, <2>2 DEF UpdatesHistory, DeliveryInv, RecorderInv, TypeOK
    <3>3. RecordInv(d)'
      BY <1>1, <2>2, <3>1, UpdatesRecord
         DEF UpdatesHistory, RecorderInv, RecordInv, IsKept, TypeOK
    <3> QED
      BY <3>2, <3>3
  <2>3. CASE FinishesRevision(d)
    <3>1. latest[d] # Nothing
      BY BoundsAreNat DEF TypeOK, Version, Nothing
    <3>2. DeliveryInv(d)' /\ RecorderInv(d)'
      BY <1>1, <2>3, <3>1 DEF FinishesRevision, DeliveryInv, RecorderInv, TypeOK
    <3>3. RecordInv(d)'
      BY <1>1, <2>3, <3>1 DEF FinishesRevision, RecorderInv, RecordInv, IsKept,
         TypeOK
    <3> QED
      BY <3>2, <3>3
  <2>4. CASE NothingToDeliver(d)
    BY <1>1, <2>4 DEF NothingToDeliver, DeliveryInv, RecorderInv, RecordInv,
       IsKept, Absent, TypeOK
  <2>5. CASE Begin(d) \/ NoticeTimesOut(d) \/ Finalizes(d) \/ LoadsPolicy(d)
             \/ Dispatches(d) \/ Receives(d) \/ TimesOut(d)
    BY <1>1, <2>5 DEF Begin, NoticeTimesOut, Finalizes, LoadsPolicy, Dispatches,
       Receives, TimesOut, DeliveryInv, RecorderInv, RecordInv, IsKept, TypeOK
  <2> QED
    BY <2>1, <2>2, <2>3, <2>4, <2>5 DEF WorkerStep
<1> QED
  BY <1>2, <1>3, LeftInv DEF StageInv

LEMMA MainStage ==
    ASSUME TypeOK, StageInv, NEW d \in Dictation, MainStep(d)
    PROVE  StageInv'
PROOF
<1> USE DEF workerVars, recorderVars, storeVars, observerVars, deliveryVars
<1>1. DeliveryInv(d) /\ RecorderInv(d) /\ RecordInv(d)
  BY DEF StageInv
<1>2. \A e \in Dictation \ {d} : Left(e)
  BY DEF MainStep, NoticeTaken, StartDelivery, CompleteDelivery, DropDelivery,
     WorkerGoes, DeliveryEnds, Observes, Left, TypeOK
<1>3. DeliveryInv(d)' /\ RecorderInv(d)' /\ RecordInv(d)'
  <2>1. CASE NoticeTaken(d)
    BY <1>1, <2>1 DEF NoticeTaken, WorkerGoes, DeliveryInv, RecorderInv,
       RecordInv, IsKept, TypeOK, Undelivered, Unsaved
  <2>2. CASE StartDelivery(d) \/ DropDelivery(d)
    BY <1>1, <2>2 DEF StartDelivery, DropDelivery, DeliveryEnds, DeliveryInv,
       RecorderInv, RecordInv, IsKept, TypeOK, Undelivered
  <2>3. CASE CompleteDelivery(d)
    BY <1>1, <2>3 DEF CompleteDelivery, DeliveryEnds, Observes, DeliveryInv,
       RecorderInv, RecordInv, IsKept, TypeOK, Undelivered
  <2> QED
    BY <2>1, <2>2, <2>3 DEF MainStep
<1> QED
  BY <1>2, <1>3, LeftInv DEF StageInv

LEMMA ObserverStage ==
    ASSUME TypeOK, StageInv, NEW d \in Dictation, ObserverStep(d)
    PROVE  StageInv'
PROOF
<1> USE DEF ObserverGoes, workerVars, deliveryVars, storeVars, recorderVars
<1>1. DeliveryInv(d) /\ RecorderInv(d) /\ RecordInv(d)
  BY DEF StageInv
<1>2. CASE ObserverPersists(d)
  <2>1. latest[d] \in Version
    BY DEF TypeOK
  <2>2. \A e \in Dictation \ {d} : Left(e)
    BY <1>2, <2>1, UpdatesRecord DEF ObserverPersists, Left, TypeOK
  <2>3. DeliveryInv(d)' /\ RecorderInv(d)'
    BY <1>1, <1>2 DEF ObserverPersists, DeliveryInv, RecorderInv, TypeOK
  <2>4. RecordInv(d)'
    BY <1>1, <1>2, <2>1, UpdatesRecord
       DEF ObserverPersists, RecorderInv, RecordInv, IsKept, TypeOK, Unsaved,
           Undelivered, WorkerPC
  <2> QED
    BY <2>2, <2>3, <2>4, LeftInv DEF StageInv
<1>3. CASE ObserverLooks(d) \/ ObserverReads(d)
  <2>1. \A e \in Dictation \ {d} : Left(e)
    BY <1>3 DEF ObserverLooks, ObserverReads, Revised, Left, TypeOK
  <2>2. DeliveryInv(d)'
    BY <1>1, <1>3 DEF ObserverLooks, ObserverReads, Revised, DeliveryInv, TypeOK
  <2>3. RecorderInv(d)'
    BY <1>1, <1>3 DEF ObserverLooks, ObserverReads, Revised, RecorderInv,
       TypeOK, Nothing, Version
  <2>4. RecordInv(d)'
    BY <1>1, <1>3 DEF ObserverLooks, ObserverReads, Revised, RecorderInv,
       RecordInv, IsKept, TypeOK, Unsaved, Undelivered, WorkerPC
  <2> QED
    BY <2>1, <2>2, <2>3, <2>4, LeftInv DEF StageInv
<1> QED
  BY <1>2, <1>3 DEF ObserverStep

LEMMA UserStage ==
    ASSUME TypeOK, StageInv,
           RecordsDeleted \/ HistorySwitched \/ \E d \in Dictation : Edited(d)
    PROVE  StageInv'
PROOF
<1>1. \A e \in Dictation : Left(e)
  BY DEF RecordsDeleted, HistorySwitched, Edited, Left, TypeOK, workerVars,
     deliveryVars, observerVars, recorderVars, storeVars
<1> QED
  BY <1>1, LeftInv DEF StageInv

LEMMA StageCorrect == Spec => [](TypeOK /\ StageInv)
PROOF
<1>1. Init => TypeOK /\ StageInv
  <2> SUFFICES ASSUME Init
               PROVE  StageInv
    BY InitTypeOK
  <2> QED
    BY DEF Init, StageInv, DeliveryInv, RecorderInv, RecordInv, IsKept, Absent,
       Unsaved, Undelivered
<1>2. TypeOK /\ StageInv /\ [Next]_vars => (TypeOK /\ StageInv)'
  <2> SUFFICES ASSUME TypeOK, StageInv, [Next]_vars
               PROVE  TypeOK' /\ StageInv'
    OBVIOUS
  <2>1. ASSUME NEW d \in Dictation, WorkerStep(d) \/ Begin(d)
        PROVE  TypeOK' /\ StageInv'
    BY <2>1, WorkerTypes, WorkerStage
  <2>2. ASSUME NEW d \in Dictation, MainStep(d)
        PROVE  TypeOK' /\ StageInv'
    BY <2>2, MainTypes, MainStage
  <2>3. ASSUME NEW d \in Dictation, ObserverStep(d)
        PROVE  TypeOK' /\ StageInv'
    BY <2>3, ObserverTypes, ObserverStage
  <2>4. CASE RecordsDeleted \/ HistorySwitched
             \/ \E d \in Dictation : Edited(d)
    BY <2>4, UserTypes, UserStage
  <2>5. CASE UNCHANGED vars
    BY <2>5 DEF vars, workerVars, deliveryVars, observerVars, recorderVars,
       storeVars, TypeOK, StageInv, DeliveryInv, RecorderInv, RecordInv, IsKept
  <2> QED
    BY <2>1, <2>2, <2>3, <2>4, <2>5 DEF Next, User
<1> QED
  BY <1>1, <1>2, PTL DEF Spec

-----------------------------------------------------------------------------
(* Every reachable state of completion, delivery, observation and history  *)
(* is well typed, for any set of dictations and any bounds.                *)
THEOREM TypeCorrect == Spec => []TypeOK
BY StageCorrect, PTL

(* For any number of dictations and revisions: whichever of completion and *)
(* observation is through first, the record ends with the last revision    *)
(* that was observed.                                                      *)
THEOREM FinalTextCorrect == Spec => []FinalTextIsLastRevision
PROOF
<1>1. TypeOK /\ StageInv => FinalTextIsLastRevision
  BY DEF StageInv, RecordInv, FinalTextIsLastRevision
<1> QED
  BY <1>1, StageCorrect, PTL

-----------------------------------------------------------------------------
(* However many dictations there are, one observer at a time watches that  *)
(* was not told to end, and it is the one the next dictation tells.        *)
THEOREM OneObserver == Spec => []OneActiveObserver
PROOF
<1>1. Init => OneActiveObserver
  BY DEF Init, OneActiveObserver, Watches
<1>2. TypeOK /\ OneActiveObserver /\ [Next]_vars => OneActiveObserver'
  <2> SUFFICES ASSUME TypeOK, OneActiveObserver, [Next]_vars
               PROVE  OneActiveObserver'
    OBVIOUS
  <2> USE DEF OneActiveObserver, Watches
  <2>1. CASE UNCHANGED observerVars
    BY <2>1 DEF observerVars
  <2>2. ASSUME NEW d \in Dictation, NoticeTaken(d)
        PROVE  OneActiveObserver'
    BY <2>2 DEF NoticeTaken, Tell
  <2>3. ASSUME NEW d \in Dictation, Observes(d)
        PROVE  OneActiveObserver'
    BY <2>3 DEF Observes, Tell, TypeOK
  <2>4. ASSUME NEW d \in Dictation, ObserverStep(d)
        PROVE  OneActiveObserver'
    <3>1. active' = active /\ \A e \in Dictation \ {d} :
             observer'[e] = observer[e] /\ (e \in notice' <=> e \in notice)
      BY <2>4 DEF ObserverStep, ObserverLooks, ObserverReads, ObserverPersists,
         ObserverGoes, Revised, Deaf, TypeOK
    <3>2. Watches(d)' => Watches(d) /\ (d \in notice <=> d \in notice')
      BY <2>4 DEF ObserverStep, ObserverLooks, ObserverReads, ObserverPersists,
         ObserverGoes, Revised, Deaf, TypeOK
    <3> QED
      BY <3>1, <3>2
  <2> QED
    BY <2>1, <2>2, <2>3, <2>4
       DEF Next, User, RecordsDeleted, HistorySwitched, Begin, Edited,
           WorkerStep, NoticeTimesOut, NothingToDeliver, Finalizes, LoadsPolicy,
           Dispatches, Receives, TimesOut, PersistsHistory, FinishesRevision,
           UpdatesHistory, MainStep, StartDelivery, CompleteDelivery,
           DropDelivery, vars
<1> QED
  BY <1>1, <1>2, TypeCorrect, PTL DEF Spec

-----------------------------------------------------------------------------
(* Every step of the threads is a step of the history's promise or none of *)
(* it: nothing is written while the history is off, twice, or after it was *)
(* deleted.                                                                *)
THEOREM HistoryImplemented == Spec => ImplementsHistoryRecord
PROOF
<1> USE DEF History!vars, History!Absent, History!Deleted, History!Kept,
            History!IsKept, History!Without, Absent, Deleted, Kept, IsKept
<1>1. Init => History!Init
  BY DEF Init, History!Init
<1>2. TypeOK /\ StageInv /\ [Next]_vars => [History!Next]_History!vars
  <2> SUFFICES ASSUME TypeOK, StageInv, [Next]_vars
               PROVE  [History!Next]_History!vars
    OBVIOUS
  <2>1. CASE UNCHANGED <<record, enabled>>
    BY <2>1
  <2>2. ASSUME NEW d \in Dictation, NEW v \in Version, Updates(d, v),
               UNCHANGED enabled
        PROVE  [History!Next]_History!vars
    <3>1. CASE record' = record
      BY <2>2, <3>1
    <3>2. CASE IsKept(d) /\ record' = [record EXCEPT ![d] = Kept(v)]
      BY <2>2, <3>2 DEF History!Next, History!Revise
    <3> QED
      BY <2>2, <3>1, <3>2, UpdatesRecord
  <2>3. ASSUME NEW d \in Dictation, PersistsHistory(d)
        PROVE  [History!Next]_History!vars
    <3>1. record[d] = Absent
      BY <2>3 DEF PersistsHistory, WorkerGoes, StageInv, RecordInv, Unsaved
    <3>2. UNCHANGED enabled
      BY <2>3 DEF PersistsHistory
    <3>3. CASE UNCHANGED record
      BY <3>2, <3>3
    <3>4. CASE Inserts(d) /\ enabled
      <4>1. PICK old \in SUBSET {e \in Dictation : IsKept(e)} :
               record' = [e \in Dictation |->
                             IF e = d THEN Kept(0)
                             ELSE IF e \in old THEN Deleted ELSE record[e]]
        BY <3>4 DEF Inserts
      <4>2. record' = [History!Without(old) EXCEPT ![d] = Kept(0)]
        BY <4>1
      <4>3. 0 \in Version
        BY BoundsAreNat DEF Version
      <4> QED
        BY <3>1, <3>2, <3>4, <4>2, <4>3 DEF History!Next, History!Write
    <3> QED
      BY <2>3, <3>3, <3>4 DEF PersistsHistory, Inserts, TypeOK
  <2>4. CASE RecordsDeleted
    BY <2>4 DEF RecordsDeleted, History!Next, History!Delete
  <2>5. CASE HistorySwitched
    BY <2>5 DEF HistorySwitched, History!Next, History!Switch
  <2>6. ASSUME NEW d \in Dictation, UpdatesHistory(d)
        PROVE  [History!Next]_History!vars
    <3>1. pending[d] \in Version
      BY <2>6 DEF UpdatesHistory, WorkerGoes, StageInv, RecorderInv, TypeOK
    <3> QED
      BY <2>2, <2>6, <3>1 DEF UpdatesHistory
  <2>7. ASSUME NEW d \in Dictation, ObserverPersists(d)
        PROVE  [History!Next]_History!vars
    BY <2>2, <2>7 DEF ObserverPersists, TypeOK, storeVars
  <2> QED
    BY <2>1, <2>3, <2>4, <2>5, <2>6, <2>7
       DEF Next, User, Begin, Edited, WorkerStep, NoticeTimesOut,
           NothingToDeliver, Finalizes, LoadsPolicy, Dispatches, Receives,
           TimesOut, FinishesRevision, MainStep, NoticeTaken, StartDelivery,
           CompleteDelivery, DropDelivery, ObserverStep, ObserverLooks,
           ObserverReads, storeVars, vars
<1> QED
  BY <1>1, <1>2, StageCorrect, PTL DEF Spec, ImplementsHistoryRecord, History!Spec
=============================================================================
