--------------------------- MODULE Speech_proofs ---------------------------
(***************************************************************************)
(* Proofs about the local models and about the recognition of speech: the  *)
(* coordinator of the downloads for any set of models, any number of       *)
(* slots, retries, clicks, faults and restarts, and one recording on its   *)
(* way to a transcript for any sizes of the chunks, queues and segments,   *)
(* any cuts of the device, any silences and any word said again.           *)
(***************************************************************************)
EXTENDS ModelDownload, SpeechRecognition, FiniteSetTheorems, SequenceTheorems,
        WellFoundedInduction, TLAPS

(***************************************************************************)
(* The download of the models.                                             *)
(***************************************************************************)
-----------------------------------------------------------------------------
(* The inductive invariant.  Its parts take the coordinator, the threads   *)
(* and the queue as arguments because start_ready sees them half changed.  *)

(* A generation belongs to one thread, and to the slot while that thread   *)
(* still owns it; a taken slot has its thread.                             *)
ThreadInv(act, thr, gen) ==
    /\ \A t \in thr : t.kind = "download" =>
          /\ t.number < gen
          /\ t.stage \in Holding <=> act[t.model] = t.number
    /\ \A t, u \in thr :
          (t.kind = "download" /\ u.kind = "download" /\ t.number = u.number) => t = u
    /\ \A m \in Models : act[m] # 0 =>
          \E t \in thr : t.kind = "download" /\ t.model = m /\ t.number = act[m]

(* A model waits once, and never beside its own active download.           *)
QueueInv(act, q) ==
    /\ \A i, j \in 1..Len(q) : q[i] = q[j] => i = j
    /\ \A i \in 1..Len(q) : act[q[i]] = 0

(* Whatever is downloading or waiting was asked for since the launch.      *)
AskedInv(thr, q, ask) ==
    /\ \A t \in thr : t.kind = "download" => t.model \in ask
    /\ \A i \in 1..Len(q) : q[i] \in ask

(* The slots of a coordinator: a generation, or 0.                         *)
Slots == [Models -> Nat]

BoundInv(act) == Cardinality(ActiveModels(act)) <= MaxActive

(* A cancel thread only discards and reports.                              *)
CancelInv(thr) ==
    \A t \in thr : t.kind = "cancel" => t.stage \in {"discarding", "closing", "posting"}

IInv ==
    /\ TypeOK
    /\ ThreadInv(active, threads, next_generation)
    /\ CancelInv(threads)
    /\ QueueInv(active, queued)
    /\ AskedInv(threads, queued, asked)
    /\ BoundInv(active)
    /\ WorkConserving
    /\ CardHasActor

-----------------------------------------------------------------------------
(* Lemmas about start_ready.                                               *)

(* A part of the first k entries of a queue is finite and has no more      *)
(* members than places.                                                    *)
LEMMA TakenModels ==
    ASSUME NEW q \in Seq(Models), NEW k \in 0..Len(q), NEW st \in SUBSET (1..k)
    PROVE  /\ IsFiniteSet(st) /\ Cardinality(st) \in Nat
           /\ IsFiniteSet({q[i] : i \in st})
           /\ Cardinality({q[i] : i \in st}) \in Nat
           /\ Cardinality({q[i] : i \in st}) <= Cardinality(st)
PROOF
<1> DEFINE T == {q[i] : i \in st}
           f == [i \in st |-> q[i]]
<1>1. IsFiniteSet(1..k)
  BY FS_Interval
<1>2. IsFiniteSet(st)
  BY <1>1, FS_Subset
<1>3. f \in Surjection(st, T)
  BY DEF Surjection
<1>4. IsFiniteSet(T) /\ Cardinality(T) <= Cardinality(st)
  BY <1>2, <1>3, FS_Surjection
<1> QED
  BY <1>2, <1>4, FS_CardinalityType

(* What start_ready does: the places st of the first k entries of q start, *)
(* with consecutive generations, and no more than there are slots.         *)
Started(act, q, base, crd, k, st) ==
    /\ queued' = SubSeq(q, k + 1, Len(q))
    /\ next_generation' = next_generation + k
    /\ active' \in [Models -> Nat]
    /\ \A i \in st : active'[q[i]] = next_generation + i - 1
    /\ \A m \in Models : (\A i \in st : q[i] # m) => active'[m] = act[m]
    /\ threads' = base \cup
          {DownloadThread(q[i], next_generation + i - 1) : i \in st}
    /\ card' \in [Models -> Cards]
    /\ \A m \in Models : \/ card'[m] = "NotDownloaded"
                         \/ \E i \in st : q[i] = m
                         \/ card'[m] = crd[m] /\ \A i \in 1..k : q[i] # m
    /\ dialog' \in Models \cup {NoModel}
    /\ faults' \in 0..MaxFaults
    /\ BoundInv(active')
    /\ k < Len(q) => Cardinality(ActiveModels(active')) = MaxActive

LEMMA StartReadyEffect ==
    ASSUME TypeOK, NEW act \in Slots, BoundInv(act), NEW q \in Seq(Models), QueueInv(act, q),
           NEW base, base \subseteq Thread, NEW crd \in [Models -> Cards],
           NEW dlg \in Models \cup {NoModel}, StartReady(act, q, base, crd, dlg)
    PROVE  \E k \in 0..Len(q) : \E st \in SUBSET (1..k) : Started(act, q, base, crd, k, st)
PROOF
<1> DEFINE Effect(k, broken) ==
        LET free == MaxActive - Cardinality(ActiveModels(act))
            started == {i \in 1..k : q[i] \notin broken}
            generation(i) == next_generation + i - 1
        IN  /\ Cardinality(started) <= free
            /\ k < Len(q) => Cardinality(started) = free
            /\ faults + Cardinality(broken) <= MaxFaults
            /\ faults' = faults + Cardinality(broken)
            /\ active' = [m \in Models |->
                  IF \E i \in started : q[i] = m
                  THEN generation(CHOOSE i \in started : q[i] = m)
                  ELSE act[m]]
            /\ queued' = SubSeq(q, k + 1, Len(q))
            /\ next_generation' = next_generation + k
            /\ threads' = base \cup
                  {DownloadThread(q[i], generation(i)) : i \in started}
            /\ card' = [m \in Models |->
                  IF m \in broken THEN "NotDownloaded"
                  ELSE IF \E i \in started : q[i] = m THEN "Downloading"
                  ELSE crd[m]]
            /\ dialog' \in IF broken = {} THEN {dlg} ELSE broken
<1>0. PICK k \in 0..Len(q) :
        \E broken \in SUBSET {q[i] : i \in 1..k} : Effect(k, broken)
  BY Zenon DEF StartReady
<1>1. PICK broken \in SUBSET {q[i] : i \in 1..k} : Effect(k, broken)
  BY <1>0
<1> DEFINE st == {i \in 1..k : q[i] \notin broken}
           free == MaxActive - Cardinality(ActiveModels(act))
           T == {q[i] : i \in st}
<1>2. /\ Len(q) \in Nat /\ k \in Nat /\ 1..k \subseteq 1..Len(q)
      /\ st \in SUBSET (1..k) /\ T \subseteq Models
      /\ \A i \in 1..Len(q) : q[i] \in Models
  BY ElementOfSeq, LenProperties
<1>3. IsFiniteSet(broken) /\ Cardinality(broken) \in Nat
  <2>1. IsFiniteSet({q[i] : i \in 1..k})
    BY TakenModels, <1>2
  <2> QED
    BY <2>1, FS_Subset, FS_CardinalityType
<1>4. /\ IsFiniteSet(T) /\ Cardinality(T) \in Nat /\ Cardinality(st) \in Nat
      /\ Cardinality(T) <= Cardinality(st)
  BY <1>2, TakenModels
<1>5. \A i \in st : active'[q[i]] = next_generation + i - 1
  <2> SUFFICES ASSUME NEW i \in st PROVE active'[q[i]] = next_generation + i - 1
    OBVIOUS
  <2>1. \A j \in st : q[j] = q[i] => j = i
    BY <1>2 DEF QueueInv
  <2>2. (CHOOSE j \in st : q[j] = q[i]) = i
    BY <2>1
  <2> QED
    BY <1>1, <1>2, <2>2
<1>6. \A m \in Models : (\A i \in st : q[i] # m) => active'[m] = act[m]
  BY <1>1
<1>7. active' \in [Models -> Nat]
  <2> SUFFICES ASSUME NEW m \in Models PROVE active'[m] \in Nat
    BY <1>1
  <2>1. CASE \E i \in st : q[i] = m
    <3>1. PICK i \in st : q[i] = m
      BY <2>1
    <3>2. active'[m] = next_generation + i - 1 /\ i \in Nat \ {0}
      BY <3>1, <1>2, <1>5
    <3>3. next_generation \in Nat
      BY DEF TypeOK
    <3>4. next_generation + i - 1 \in Nat
      BY ONLY <3>2, <3>3
    <3> QED
      BY ONLY <3>2, <3>4
  <2>2. CASE \A i \in st : q[i] # m
    BY <2>2, <1>6 DEF Slots
  <2> QED
    BY <2>1, <2>2
<1>8. Cardinality(T) = Cardinality(st)
  <2> DEFINE f == [i \in st |-> q[i]]
  <2>1. f \in Injection(st, T)
    BY <1>2 DEF QueueInv, Injection, IsInjective
  <2>2. Cardinality(st) <= Cardinality(T)
    BY <2>1, <1>4, FS_Injection
  <2> QED
    BY <1>4, <2>2
<1>9. /\ IsFiniteSet(ActiveModels(act)) /\ Cardinality(ActiveModels(act)) \in Nat
      /\ ActiveModels(act) \cap T = {}
  <2>1. IsFiniteSet(ActiveModels(act))
    BY DownloadAssumption, FS_Subset DEF ActiveModels
  <2>2. \A i \in st : act[q[i]] = 0
    BY <1>2 DEF QueueInv
  <2> QED
    BY <2>1, <2>2, FS_CardinalityType DEF ActiveModels
<1>10. ActiveModels(active') = ActiveModels(act) \cup T
  <2> SUFFICES ASSUME NEW m \in Models
               PROVE  active'[m] # 0 <=> (act[m] # 0 \/ m \in T)
    BY <1>2 DEF ActiveModels
  <2>1. CASE m \in T
    BY <2>1, <1>2, <1>5 DEF TypeOK
  <2>2. CASE m \notin T
    BY <2>2, <1>6
  <2> QED
    BY <2>1, <2>2
<1>11. Cardinality(ActiveModels(active')) = Cardinality(ActiveModels(act)) + Cardinality(st)
  <2>1. Cardinality({}) = 0
    BY FS_EmptySet
  <2>2. Cardinality(ActiveModels(act) \cup T)
          = Cardinality(ActiveModels(act)) + Cardinality(T) - Cardinality({})
    BY <1>4, <1>9, FS_Union
  <2> HIDE DEF T, st
  <2> QED
    BY <1>4, <1>8, <1>9, <1>10, <2>1, <2>2
<1>12. BoundInv(active') /\ (k < Len(q) => Cardinality(ActiveModels(active')) = MaxActive)
  BY <1>1, <1>4, <1>9, <1>11, DownloadAssumption DEF BoundInv
<1>13. card' \in [Models -> Cards] /\ faults' \in 0..MaxFaults
  <2>1. card' \in [Models -> Cards]
    BY <1>1 DEF Cards
  <2>2. faults' = faults + Cardinality(broken) /\ faults + Cardinality(broken) <= MaxFaults
    BY <1>1
  <2>3. faults \in Nat /\ MaxFaults \in Nat
    BY DownloadAssumption DEF TypeOK
  <2> QED
    BY <1>3, <2>1, <2>2, <2>3
<1>14. dialog' \in Models \cup {NoModel}
  BY <1>1, <1>2
<1>15. /\ queued' = SubSeq(q, k + 1, Len(q))
       /\ next_generation' = next_generation + k
       /\ threads' = base \cup {DownloadThread(q[i], next_generation + i - 1) : i \in st}
  BY <1>1
<1>16. st \in SUBSET (1..k)
  OBVIOUS
<1>17. \A m \in Models :
          \/ card'[m] = "NotDownloaded"
          \/ \E i \in st : q[i] = m
          \/ card'[m] = crd[m] /\ \A i \in 1..k : q[i] # m
  <2> SUFFICES ASSUME NEW m \in Models, ~(\E i \in st : q[i] = m), m \notin broken
               PROVE  card'[m] = crd[m] /\ \A i \in 1..k : q[i] # m
    BY <1>1
  <2>1. card'[m] = crd[m]
    BY <1>1
  <2>2. \A i \in 1..k : q[i] # m
    OBVIOUS
  <2> QED
    BY <2>1, <2>2
<1> HIDE DEF st, T, free, Effect
<1>18. Started(act, q, base, crd, k, st)
  BY <1>5, <1>6, <1>7, <1>12, <1>13, <1>14, <1>15, <1>17 DEF Started
<1> QED
  BY <1>16, <1>18

(* After start_ready the threads, the queue and the slots agree again.     *)
LEMMA StartReadyPreserves ==
    ASSUME TypeOK, NEW act \in Slots, BoundInv(act), NEW q \in Seq(Models), QueueInv(act, q),
           NEW base, base \subseteq Thread, NEW crd \in [Models -> Cards],
           NEW dlg \in Models \cup {NoModel}, NEW ask \in SUBSET Models,
           ThreadInv(act, base, next_generation), AskedInv(base, q, ask),
           CancelInv(base),
           StartReady(act, q, base, crd, dlg)
    PROVE  /\ active' \in [Models -> Nat] /\ queued' \in Seq(Models)
           /\ next_generation' \in Nat \ {0} /\ threads' \subseteq Thread
           /\ card' \in [Models -> Cards] /\ dialog' \in Models \cup {NoModel}
           /\ faults' \in 0..MaxFaults
           /\ ThreadInv(active', threads', next_generation')
           /\ QueueInv(active', queued')
           /\ AskedInv(threads', queued', ask)
           /\ CancelInv(threads')
           /\ BoundInv(active')
           /\ base \subseteq threads'
           /\ queued' # <<>> => Cardinality(ActiveModels(active')) = MaxActive
           /\ \A m \in Models :
                 \/ card'[m] = "NotDownloaded"
                 \/ \E t \in threads' : t.model = m
                 \/ /\ card'[m] = crd[m]
                    /\ m \in Members(q) => m \in Members(queued')
           /\ \A m \in Models : act[m] = 0 /\ active'[m] # 0 =>
                 \A i \in 1..Len(q) : q[i] \in Members(queued') =>
                     \E j \in 1..(i - 1) : q[j] = m
PROOF
<1>0. PICK k \in 0..Len(q) : \E st \in SUBSET (1..k) : Started(act, q, base, crd, k, st)
  BY StartReadyEffect
<1>1. PICK st \in SUBSET (1..k) : Started(act, q, base, crd, k, st)
  BY <1>0
<1> DEFINE new == [i \in st |-> DownloadThread(q[i], next_generation + i - 1)]
           g == next_generation
<1>2. /\ Len(q) \in Nat /\ k \in Nat /\ g \in Nat \ {0}
      /\ \A i \in 1..Len(q) : q[i] \in Models
  BY ElementOfSeq, LenProperties DEF TypeOK
<1>a. /\ queued' = SubSeq(q, k + 1, Len(q))
      /\ next_generation' = g + k
      /\ active' \in [Models -> Nat]
      /\ card' \in [Models -> Cards] /\ dialog' \in Models \cup {NoModel}
      /\ faults' \in 0..MaxFaults
      /\ BoundInv(active')
      /\ k < Len(q) => Cardinality(ActiveModels(active')) = MaxActive
  BY <1>1 DEF Started
<1>b. \A i \in st : /\ active'[q[i]] = g + i - 1
                    /\ i \in 1..Len(q) /\ i <= k
  BY <1>1, <1>2 DEF Started
<1>c. \A m \in Models : (\A i \in st : q[i] # m) => active'[m] = act[m]
  BY <1>1 DEF Started
<1>8. threads' = base \cup {new[i] : i \in st}
  BY <1>1 DEF Started
<1>3. /\ queued' \in Seq(Models)
      /\ Len(queued') = Len(q) - k
      /\ \A j \in 1..Len(queued') : queued'[j] = q[k + j] /\ k + j \in 1..Len(q)
  <2>1. \A i \in (k + 1)..Len(q) : q[i] \in Models
    BY <1>2
  <2>2. /\ SubSeq(q, k + 1, Len(q)) \in Seq(Models)
        /\ Len(SubSeq(q, k + 1, Len(q)))
             = IF k + 1 <= Len(q) THEN Len(q) - (k + 1) + 1 ELSE 0
        /\ \A i \in 1..(Len(q) - (k + 1) + 1) :
              SubSeq(q, k + 1, Len(q))[i] = q[k + 1 + i - 1]
    BY <1>2, <2>1, SubSeqProperties
  <2> QED
    BY <1>a, <1>b, <1>c, <1>2, <2>2
<1>4. \A i \in st : /\ new[i] \in Thread /\ new[i].kind = "download"
                    /\ new[i].model = q[i] /\ new[i].number = g + i - 1
                    /\ new[i].stage \in Holding /\ q[i] \in Models
  BY <1>a, <1>b, <1>c, <1>2 DEF DownloadThread, Thread, Stages, Holding, Interruptions, Completions
<1> HIDE DEF new
<1>5. threads' \subseteq Thread
  BY <1>4, <1>8
<1>6. \A i \in st : act[q[i]] = 0
  BY <1>a, <1>b, <1>c, <1>2 DEF QueueInv
<1>7. \A t \in base : t.kind = "download" =>
         /\ t.number \in Nat \ {0} /\ t.number < g /\ t.model \in Models
         /\ active'[t.model] = t.number <=> act[t.model] = t.number
  <2> SUFFICES ASSUME NEW t \in base, t.kind = "download"
               PROVE  /\ t.number \in Nat \ {0} /\ t.number < g /\ t.model \in Models
                      /\ active'[t.model] = t.number <=> act[t.model] = t.number
    OBVIOUS
  <2>1. t.number \in Nat \ {0} /\ t.number < g /\ t.model \in Models
    BY DEF Thread, ThreadInv
  <2>2. CASE \E i \in st : q[i] = t.model
    <3>1. PICK i \in st : q[i] = t.model
      BY <2>2
    <3>2. active'[t.model] = g + i - 1 /\ act[t.model] = 0 /\ i \in 1..Len(q)
      BY <1>a, <1>b, <1>c, <1>6, <3>1
    <3> QED
      BY <2>1, <3>2, <1>2
  <2>3. CASE \A i \in st : q[i] # t.model
    BY <2>1, <2>3, <1>a, <1>b, <1>c
  <2> QED
    BY <2>1, <2>2, <2>3
<1>9. ThreadInv(active', threads', next_generation')
  <2>1. \A t \in threads' : t.kind = "download" =>
          /\ t.number < next_generation'
          /\ t.stage \in Holding <=> active'[t.model] = t.number
    <3> SUFFICES ASSUME NEW t \in threads', t.kind = "download"
                 PROVE  /\ t.number < next_generation'
                        /\ t.stage \in Holding <=> active'[t.model] = t.number
      OBVIOUS
    <3>1. CASE t \in base
      BY <3>1, <1>a, <1>b, <1>c, <1>2, <1>7 DEF ThreadInv
    <3>2. CASE t \in {new[i] : i \in st}
      <4>1. PICK i \in st : t = new[i]
        BY <3>2
      <4>2. /\ t.model = q[i] /\ t.number = g + i - 1 /\ t.stage \in Holding
            /\ i \in 1..Len(q) /\ i <= k /\ active'[q[i]] = g + i - 1
        BY <4>1, <1>4, <1>b
      <4>3. active'[t.model] = t.number
        BY <4>2
      <4>4. t.number < next_generation'
        BY <4>2, <1>a, <1>2
      <4> QED
        BY <4>2, <4>3, <4>4
    <3> QED
      BY <3>1, <3>2, <1>8
  <2>2. \A t, u \in threads' :
          (t.kind = "download" /\ u.kind = "download" /\ t.number = u.number) => t = u
    <3> SUFFICES ASSUME NEW t \in threads', NEW u \in threads', t.kind = "download",
                        u.kind = "download", t.number = u.number
                 PROVE  t = u
      OBVIOUS
    <3>1. CASE t \in base /\ u \in base
      BY <3>1 DEF ThreadInv
    <3>2. ASSUME NEW i \in st PROVE new[i].number >= g /\ new[i].number \in Nat
      BY <3>2, <1>a, <1>b, <1>c, <1>2, <1>4
    <3>3. CASE t \in {new[i] : i \in st} /\ u \in {new[i] : i \in st}
      <4>1. PICK i \in st, j \in st : t = new[i] /\ u = new[j]
        BY <3>3
      <4>2. i \in 1..Len(q) /\ j \in 1..Len(q) /\ g + i - 1 = g + j - 1
        BY <4>1, <1>4
      <4> QED
        BY <4>1, <4>2, <1>2
    <3>4. CASE t \in base /\ u \in {new[i] : i \in st}
      BY <3>4, <3>2, <1>2, <1>7
    <3>5. CASE u \in base /\ t \in {new[i] : i \in st}
      BY <3>5, <3>2, <1>2, <1>7
    <3> QED
      BY <3>1, <3>3, <3>4, <3>5, <1>8
  <2>3. \A m \in Models : active'[m] # 0 =>
          \E t \in threads' : t.kind = "download" /\ t.model = m /\ t.number = active'[m]
    <3> SUFFICES ASSUME NEW m \in Models, active'[m] # 0
                 PROVE  \E t \in threads' : t.kind = "download" /\ t.model = m
                                             /\ t.number = active'[m]
      OBVIOUS
    <3>1. CASE \E i \in st : q[i] = m
      <4>1. PICK i \in st : q[i] = m
        BY <3>1
      <4>2. new[i] \in threads'
        BY <1>8
      <4> QED
        BY <4>1, <4>2, <1>4, <1>b
    <3>2. CASE \A i \in st : q[i] # m
      <4>1. active'[m] = act[m]
        BY <3>2, <1>c
      <4>2. \E t \in base : t.kind = "download" /\ t.model = m /\ t.number = act[m]
        BY <4>1 DEF ThreadInv
      <4> QED
        BY <4>1, <4>2, <1>8
    <3> QED
      BY <3>1, <3>2
  <2> QED
    BY <2>1, <2>2, <2>3 DEF ThreadInv
<1>10. QueueInv(active', queued')
  <2>1. \A i, j \in 1..Len(queued') : queued'[i] = queued'[j] => i = j
    <3> SUFFICES ASSUME NEW i \in 1..Len(queued'), NEW j \in 1..Len(queued'),
                        queued'[i] = queued'[j]
                 PROVE  i = j
      OBVIOUS
    <3>1. k + i = k + j
      BY <1>3 DEF QueueInv
    <3> QED
      BY <3>1, <1>2
  <2>2. \A j \in 1..Len(queued') : active'[queued'[j]] = 0
    <3> SUFFICES ASSUME NEW j \in 1..Len(queued') PROVE active'[queued'[j]] = 0
      OBVIOUS
    <3>1. queued'[j] = q[k + j] /\ k + j \in 1..Len(q) /\ j \in 1..Len(queued')
      BY <1>3
    <3>2. \A i \in st : q[i] # q[k + j]
      <4> SUFFICES ASSUME NEW i \in st, q[i] = q[k + j] PROVE FALSE
        OBVIOUS
      <4>1. i \in 1..k /\ i = k + j
        BY <1>a, <1>b, <1>c, <3>1 DEF QueueInv
      <4> QED
        BY <4>1, <1>2, <3>1
    <3> QED
      BY <3>1, <3>2, <1>a, <1>b, <1>c, <1>2 DEF QueueInv
  <2> QED
    BY <2>1, <2>2 DEF QueueInv
<1>11. AskedInv(threads', queued', ask)
  <2>1. \A t \in threads' : t.kind = "download" => t.model \in ask
    <3> SUFFICES ASSUME NEW t \in threads', t.kind = "download" PROVE t.model \in ask
      OBVIOUS
    <3>1. CASE t \in base
      BY <3>1 DEF AskedInv
    <3>2. CASE t \in {new[i] : i \in st}
      <4>1. PICK i \in st : t = new[i]
        BY <3>2
      <4>2. t.model = q[i] /\ i \in 1..Len(q)
        BY <4>1, <1>4, <1>b
      <4> QED
        BY <4>2 DEF AskedInv
    <3> QED
      BY <3>1, <3>2, <1>8
  <2>2. \A j \in 1..Len(queued') : queued'[j] \in ask
    BY <1>3 DEF AskedInv
  <2> QED
    BY <2>1, <2>2 DEF AskedInv
<1>12. queued' # <<>> => Cardinality(ActiveModels(active')) = MaxActive
  <2>1. k = Len(q) => queued' = <<>>
    BY <1>3, <1>2, EmptySeq
  <2> QED
    BY <2>1, <1>a, <1>b, <1>c, <1>2
<1>13. next_generation' \in Nat \ {0}
  BY <1>a, <1>b, <1>c, <1>2
<1>14. \A m \in Models :
          \/ card'[m] = "NotDownloaded"
          \/ \E t \in threads' : t.model = m
          \/ /\ card'[m] = crd[m]
             /\ m \in Members(q) => m \in Members(queued')
  <2> SUFFICES ASSUME NEW m \in Models
               PROVE  \/ card'[m] = "NotDownloaded"
                      \/ \E t \in threads' : t.model = m
                      \/ /\ card'[m] = crd[m]
                         /\ m \in Members(q) => m \in Members(queued')
    OBVIOUS
  <2>1. CASE \E i \in st : q[i] = m
    <3>1. PICK i \in st : q[i] = m
      BY <2>1
    <3> QED
      BY <3>1, <1>4, <1>8
  <2>2. CASE card'[m] = crd[m] /\ \A i \in 1..k : q[i] # m
    <3> SUFFICES ASSUME m \in Members(q) PROVE m \in Members(queued')
      BY <2>2
    <3>1. PICK i \in 1..Len(q) : q[i] = m
      BY DEF Members
    <3>2. i > k
      BY <2>2, <3>1, <1>2
    <3>3. i - k \in 1..Len(queued') /\ queued'[i - k] = q[k + (i - k)] /\ k + (i - k) = i
      BY <3>1, <3>2, <1>2, <1>3
    <3> QED
      BY <3>1, <3>3, <1>3 DEF Members
  <2> QED
    BY <2>1, <2>2, <1>1 DEF Started
<1>15. \A m \in Models : act[m] = 0 /\ active'[m] # 0 =>
          \A i \in 1..Len(q) : q[i] \in Members(queued') =>
              \E j \in 1..(i - 1) : q[j] = m
  <2> SUFFICES ASSUME NEW m \in Models, act[m] = 0, active'[m] # 0,
                      NEW i \in 1..Len(q), q[i] \in Members(queued')
               PROVE  \E j \in 1..(i - 1) : q[j] = m
    OBVIOUS
  <2>1. PICK j \in st : q[j] = m
    BY <1>c
  <2>2. PICK n \in 1..Len(queued') : queued'[n] = q[i]
    <3>1. DOMAIN queued' = 1..Len(queued')
      BY <1>3, LenProperties
    <3> QED
      BY <3>1 DEF Members
  <2>3. q[k + n] = q[i] /\ k + n \in 1..Len(q) /\ n >= 1
    BY <2>2, <1>3
  <2>4. i = k + n
    BY <2>3 DEF QueueInv
  <2> QED
    BY <2>1, <2>3, <2>4, <1>b, <1>2
<1>16. CancelInv(threads')
  BY <1>4, <1>8 DEF CancelInv
<1> QED
  BY <1>a, <1>3, <1>5, <1>8, <1>9, <1>10, <1>11, <1>12, <1>13, <1>14, <1>15, <1>16

-----------------------------------------------------------------------------
(* Lemmas about the queue.                                                 *)

LEMMA EnqueuedQueue ==
    ASSUME TypeOK, QueueInv(active, queued), NEW m \in Models
    PROVE  /\ Enqueued(m) \in Seq(Models)
           /\ QueueInv(active, Enqueued(m))
           /\ Len(queued) <= Len(Enqueued(m))
           /\ \A i \in 1..Len(queued) : Enqueued(m)[i] = queued[i]
           /\ \A i \in 1..Len(Enqueued(m)) :
                 Enqueued(m)[i] = m \/ \E j \in 1..Len(queued) : Enqueued(m)[i] = queued[j]
           /\ active[m] # 0 \/ m \in Members(Enqueued(m))
PROOF
<1>1. queued \in Seq(Models) /\ Len(queued) \in Nat /\ DOMAIN queued = 1..Len(queued)
  BY LenProperties DEF TypeOK
<1>2. CASE active[m] # 0 \/ m \in Members(queued)
  BY <1>1, <1>2 DEF Enqueued
<1>3. CASE ~(active[m] # 0 \/ m \in Members(queued))
  <2> DEFINE q == Append(queued, m)
  <2>1. Enqueued(m) = q
    BY <1>3 DEF Enqueued
  <2>2. /\ q \in Seq(Models) /\ Len(q) = Len(queued) + 1
        /\ \A i \in 1..Len(queued) : q[i] = queued[i]
        /\ q[Len(queued) + 1] = m
    BY <1>1, AppendProperties
  <2>3. \A i \in 1..Len(queued) : queued[i] # m
    BY <1>1, <1>3 DEF Members
  <2> HIDE DEF q
  <2>4. QueueInv(active, q)
    BY <1>1, <1>3, <2>2, <2>3 DEF QueueInv
  <2>5. m \in Members(q)
    <3>1. DOMAIN q = 1..Len(q) /\ Len(queued) + 1 \in 1..Len(q)
      BY <1>1, <2>2, LenProperties
    <3> QED
      BY <2>2, <3>1 DEF Members
  <2> QED
    BY <1>1, <2>1, <2>2, <2>4, <2>5
<1> QED
  BY <1>2, <1>3

LEMMA WithoutQueuedQueue ==
    ASSUME TypeOK, QueueInv(active, queued), NEW m \in Models
    PROVE  /\ WithoutQueued(m) \in Seq(Models)
           /\ QueueInv(active, WithoutQueued(m))
           /\ \A i \in 1..Len(WithoutQueued(m)) :
                 \E j \in 1..Len(queued) : WithoutQueued(m)[i] = queued[j]
           /\ WithoutQueued(m) # <<>> => queued # <<>>
           /\ \A n \in Models \ {m} :
                 n \in Members(queued) => n \in Members(WithoutQueued(m))
PROOF
<1>1. /\ queued \in Seq(Models) /\ Len(queued) \in Nat /\ DOMAIN queued = 1..Len(queued)
      /\ \A i \in 1..Len(queued) : queued[i] \in Models
  BY LenProperties, ElementOfSeq DEF TypeOK
<1>2. CASE \A i \in DOMAIN queued : queued[i] # m
  BY <1>1, <1>2 DEF WithoutQueued
<1>3. CASE \E i \in DOMAIN queued : queued[i] = m
  <2> DEFINE i == CHOOSE k \in DOMAIN queued : queued[k] = m
             s == SubSeq(queued, 1, i - 1)
             t == SubSeq(queued, i + 1, Len(queued))
             q == s \o t
  <2>1. i \in 1..Len(queued) /\ queued[i] = m
    BY <1>1, <1>3
  <2>2. WithoutQueued(m) = q
    BY <1>3 DEF WithoutQueued
  <2> HIDE DEF i
  <2>3. /\ s \in Seq(Models) /\ Len(s) = i - 1
        /\ \A k \in 1..(i - 1) : s[k] = queued[k]
    <3>1. /\ SubSeq(queued, 1, i - 1) \in Seq(Models)
          /\ Len(SubSeq(queued, 1, i - 1)) = IF 1 <= i - 1 THEN (i - 1) - 1 + 1 ELSE 0
          /\ \A k \in 1..((i - 1) - 1 + 1) : SubSeq(queued, 1, i - 1)[k] = queued[1 + k - 1]
      <4>1. \A k \in 1..(i - 1) : queued[k] \in Models
        BY <1>1, <2>1
      <4> QED
        BY <1>1, <2>1, <4>1, SubSeqProperties
    <3> QED
      BY <1>1, <2>1, <3>1
  <2>4. /\ t \in Seq(Models) /\ Len(t) = Len(queued) - i
        /\ \A k \in 1..(Len(queued) - i) : t[k] = queued[i + k]
    <3>1. /\ SubSeq(queued, i + 1, Len(queued)) \in Seq(Models)
          /\ Len(SubSeq(queued, i + 1, Len(queued)))
               = IF i + 1 <= Len(queued) THEN Len(queued) - (i + 1) + 1 ELSE 0
          /\ \A k \in 1..(Len(queued) - (i + 1) + 1) :
                SubSeq(queued, i + 1, Len(queued))[k] = queued[(i + 1) + k - 1]
      <4>1. \A k \in (i + 1)..Len(queued) : queued[k] \in Models
        BY <1>1, <2>1
      <4> QED
        BY <1>1, <2>1, <4>1, SubSeqProperties
    <3>0. /\ t \in Seq(Models)
          /\ Len(t) = IF i + 1 <= Len(queued) THEN Len(queued) - (i + 1) + 1 ELSE 0
          /\ \A k \in 1..(Len(queued) - (i + 1) + 1) : t[k] = queued[(i + 1) + k - 1]
      BY <3>1
    <3> HIDE DEF t
    <3>a. Len(queued) \in Int /\ i \in Int /\ i <= Len(queued)
      BY <1>1, <2>1
    <3>b. Len(queued) - (i + 1) + 1 = Len(queued) - i
      BY <3>a
    <3>2. Len(t) = Len(queued) - i
      <4>1. CASE i + 1 <= Len(queued)
        BY <3>0, <3>b, <4>1
      <4>2. CASE ~(i + 1 <= Len(queued))
        <5>1. Len(queued) - i = 0
          BY <3>a, <4>2
        <5> QED
          BY <3>0, <4>2, <5>1
      <4> QED
        BY <4>1, <4>2
    <3>3. \A k \in 1..(Len(queued) - i) : t[k] = queued[(i + 1) + k - 1]
      BY <3>0, <3>b
    <3>4. \A k \in 1..(Len(queued) - i) : (i + 1) + k - 1 = i + k
      BY <2>1
    <3> QED
      BY <3>0, <3>2, <3>3, <3>4
  <2> HIDE DEF s, t
  <2>5. /\ q \in Seq(Models) /\ Len(q) = Len(queued) - 1
        /\ \A k \in 1..Len(q) : q[k] = IF k < i THEN queued[k] ELSE queued[k + 1]
    <3>1. /\ q \in Seq(Models) /\ Len(q) = Len(s) + Len(t)
          /\ \A k \in 1..(Len(s) + Len(t)) :
                q[k] = IF k <= Len(s) THEN s[k] ELSE t[k - Len(s)]
      BY <2>3, <2>4, ConcatProperties
    <3>2. Len(q) = Len(queued) - 1
      BY <1>1, <2>1, <2>3, <2>4, <3>1
    <3>3. ASSUME NEW k \in 1..Len(q)
          PROVE  q[k] = IF k < i THEN queued[k] ELSE queued[k + 1]
      <4>1. CASE k < i
        BY <4>1, <1>1, <2>1, <2>3, <3>1, <3>2
      <4>2. CASE k >= i
        <5>1. q[k] = t[k - (i - 1)] /\ k - (i - 1) \in 1..(Len(queued) - i)
          BY <4>2, <1>1, <2>1, <2>3, <3>1, <3>2
        <5>2. t[k - (i - 1)] = queued[i + (k - (i - 1))] /\ i + (k - (i - 1)) = k + 1
          BY <5>1, <1>1, <2>1, <2>4
        <5> QED
          BY <4>2, <5>1, <5>2, <2>1
      <4> QED
        BY <4>1, <4>2, <2>1
    <3> QED
      BY <3>1, <3>2, <3>3
  <2> HIDE DEF q
  <2>6. QueueInv(active, q)
    <3>1. \A j, k \in 1..Len(q) : q[j] = q[k] => j = k
      <4> SUFFICES ASSUME NEW j \in 1..Len(q), NEW k \in 1..Len(q), q[j] = q[k]
                   PROVE  j = k
        OBVIOUS
      <4>1. /\ j \in 1..Len(queued) /\ j + 1 \in 1..Len(queued)
            /\ k \in 1..Len(queued) /\ k + 1 \in 1..Len(queued)
        BY <1>1, <2>5
      <4>2. \A x, y \in 1..Len(queued) : queued[x] = queued[y] => x = y
        BY DEF QueueInv
      <4>3. CASE j < i /\ k < i
        BY <4>1, <4>2, <4>3, <2>5
      <4>4. CASE j >= i /\ k >= i
        <5>1. j + 1 = k + 1
          BY <4>1, <4>2, <4>4, <2>1, <2>5
        <5> QED
          BY <5>1, <4>1
      <4>5. CASE j < i /\ k >= i
        <5>1. j = k + 1
          BY <4>1, <4>2, <4>5, <2>1, <2>5
        <5> QED
          BY <5>1, <4>1, <4>5, <2>1
      <4>6. CASE k < i /\ j >= i
        <5>1. k = j + 1
          BY <4>1, <4>2, <4>6, <2>1, <2>5
        <5> QED
          BY <5>1, <4>1, <4>6, <2>1
      <4> QED
        BY <4>1, <4>3, <4>4, <4>5, <4>6, <2>1
    <3>2. \A k \in 1..Len(q) : active[q[k]] = 0
      BY <1>1, <2>1, <2>5 DEF QueueInv
    <3> QED
      BY <3>1, <3>2 DEF QueueInv
  <2>7. \A k \in 1..Len(q) : \E j \in 1..Len(queued) : q[k] = queued[j]
    BY <1>1, <2>1, <2>5
  <2>8. queued # <<>>
    BY <1>1, <2>1, EmptySeq
  <2>9. ASSUME NEW n \in Models \ {m}, n \in Members(queued) PROVE n \in Members(q)
    <3>1. PICK j \in 1..Len(queued) : queued[j] = n
      BY <2>9, <1>1 DEF Members
    <3>2. j # i
      BY <2>1, <3>1
    <3>3. DOMAIN q = 1..Len(q)
      BY <2>5, LenProperties
    <3>4. CASE j < i
      BY <3>1, <3>3, <3>4, <1>1, <2>1, <2>5 DEF Members
    <3>5. CASE j > i
      <4>1. j - 1 \in 1..Len(q) /\ ~(j - 1 < i) /\ (j - 1) + 1 = j
        BY <3>1, <3>5, <1>1, <2>1, <2>5
      <4>2. q[j - 1] = queued[j]
        BY <4>1, <2>5
      <4> QED
        BY <3>1, <3>3, <4>1, <4>2 DEF Members
    <3> QED
      BY <3>2, <3>4, <3>5, <2>1
  <2> QED
    BY <2>2, <2>5, <2>6, <2>7, <2>8, <2>9
<1> QED
  BY <1>2, <1>3

-----------------------------------------------------------------------------
(* Lemmas about the threads.                                               *)

(* u is the thread t further on: it still owns its slot exactly if t did.  *)
Successor(t, u) ==
    /\ u \in Thread
    /\ u.kind = t.kind /\ u.model = t.model /\ u.number = t.number
    /\ t.kind = "download" => (u.stage \in Holding <=> t.stage \in Holding)
    /\ t.kind = "cancel" => u.stage \in {"discarding", "closing", "posting"}

LEMMA ThreadGoes ==
    ASSUME IInv, NEW t \in threads, NEW u, Successor(t, u), Goes(t, u),
           UNCHANGED <<active, queued, next_generation, asked, posted, card>>
    PROVE  /\ threads' \subseteq Thread
           /\ ThreadInv(active, threads, next_generation)'
           /\ CancelInv(threads)'
           /\ QueueInv(active, queued)'
           /\ AskedInv(threads, queued, asked)'
           /\ BoundInv(active)'
           /\ WorkConserving' /\ CardHasActor'
PROOF
<1>1. threads' = (threads \ {t}) \cup {u}
  BY DEF Goes
<1>2. threads \subseteq Thread /\ threads' \subseteq Thread
  BY <1>1 DEF IInv, TypeOK, Successor
<1>3. ThreadInv(active, threads, next_generation)'
  <2>1. \A v \in threads' : v.kind = "download" =>
          /\ v.number < next_generation
          /\ v.stage \in Holding <=> active[v.model] = v.number
    BY <1>1 DEF IInv, ThreadInv, Successor
  <2>2. \A v, w \in threads' :
          (v.kind = "download" /\ w.kind = "download" /\ v.number = w.number) => v = w
    BY <1>1 DEF IInv, ThreadInv, Successor
  <2>3. \A m \in Models : active[m] # 0 =>
          \E v \in threads' : v.kind = "download" /\ v.model = m /\ v.number = active[m]
    BY <1>1 DEF IInv, ThreadInv, Successor
  <2> QED
    BY <2>1, <2>2, <2>3 DEF ThreadInv
<1>4. CancelInv(threads)'
  BY <1>1 DEF IInv, CancelInv, Successor
<1>5. QueueInv(active, queued)' /\ BoundInv(active)'
  BY DEF IInv, QueueInv, BoundInv, ActiveModels
<1>6. AskedInv(threads, queued, asked)'
  BY <1>1 DEF IInv, AskedInv, Successor
<1>7. WorkConserving'
  <2>1. (\E v \in threads : v.kind = "download") => \E v \in threads' : v.kind = "download"
    BY <1>1 DEF Successor
  <2> QED
    BY <2>1 DEF IInv, WorkConserving, ActiveModels
<1>8. CardHasActor'
  <2>1. \A m \in Models : (\E v \in threads : v.model = m) => \E v \in threads' : v.model = m
    BY <1>1 DEF Successor
  <2> QED
    BY <2>1 DEF IInv, CardHasActor
<1> QED
  BY <1>2, <1>3, <1>4, <1>5, <1>6, <1>7, <1>8

(* An interruption only changes what the control of a thread says.         *)
LEMMA InterruptKeeps ==
    ASSUME IInv, NEW m \in Models, NEW by \in {"Paused", "Cancelled"}, Interrupt(m, by),
           UNCHANGED <<active, queued, next_generation, asked>>
    PROVE  /\ threads' \subseteq Thread
           /\ ThreadInv(active, threads, next_generation)'
           /\ CancelInv(threads)'
           /\ QueueInv(active, queued)'
           /\ AskedInv(threads, queued, asked)'
           /\ BoundInv(active)'
           /\ \A v \in threads : \E w \in threads' : w.kind = v.kind /\ w.model = v.model
PROOF
<1> DEFINE new == [t \in threads |->
                IF t.kind = "download" /\ t.model = m /\ t.number = active[m]
                THEN [t EXCEPT !.interruption = Interrupted(t.interruption, by)]
                ELSE t]
<1>1. threads' = {new[t] : t \in threads}
  BY DEF Interrupt
<1>2. \A t \in threads :
         /\ t \in Thread
         /\ new[t] \in Thread
         /\ new[t].kind = t.kind /\ new[t].model = t.model
         /\ new[t].number = t.number /\ new[t].stage = t.stage
  <2> SUFFICES ASSUME NEW t \in threads
               PROVE  /\ t \in Thread
                      /\ new[t] \in Thread
                      /\ new[t].kind = t.kind /\ new[t].model = t.model
                      /\ new[t].number = t.number /\ new[t].stage = t.stage
    OBVIOUS
  <2>1. t \in Thread
    BY DEF IInv, TypeOK
  <2>2. Interrupted(t.interruption, by) \in Interruptions
    BY <2>1 DEF Thread, Interrupted, Interruptions
  <2> DEFINE i == Interrupted(t.interruption, by)
             u == [t EXCEPT !.interruption = i]
  <2>3. i \in Interruptions
    BY <2>2
  <2>4. new[t] = u \/ new[t] = t
    OBVIOUS
  <2> HIDE DEF i, new
  <2>5. /\ u \in Thread /\ u.kind = t.kind /\ u.model = t.model
        /\ u.number = t.number /\ u.stage = t.stage
    BY <2>1, <2>3 DEF Thread
  <2> QED
    BY <2>1, <2>4, <2>5
<1> HIDE DEF new
<1>3. threads' \subseteq Thread
  BY <1>1, <1>2
<1>4. ThreadInv(active, threads, next_generation)'
  <2>1. \A v \in threads' : v.kind = "download" =>
          /\ v.number < next_generation
          /\ v.stage \in Holding <=> active[v.model] = v.number
    BY <1>1, <1>2 DEF IInv, ThreadInv
  <2>2. \A v, w \in threads' :
          (v.kind = "download" /\ w.kind = "download" /\ v.number = w.number) => v = w
    BY <1>1, <1>2 DEF IInv, ThreadInv
  <2>3. \A n \in Models : active[n] # 0 =>
          \E v \in threads' : v.kind = "download" /\ v.model = n /\ v.number = active[n]
    BY <1>1, <1>2 DEF IInv, ThreadInv
  <2> QED
    BY <2>1, <2>2, <2>3 DEF ThreadInv
<1>5. CancelInv(threads)'
  BY <1>1, <1>2 DEF IInv, CancelInv
<1>6. QueueInv(active, queued)' /\ BoundInv(active)'
  BY DEF IInv, QueueInv, BoundInv, ActiveModels
<1>7. AskedInv(threads, queued, asked)'
  BY <1>1, <1>2 DEF IInv, AskedInv
<1>8. \A v \in threads : \E w \in threads' : w.kind = v.kind /\ w.model = v.model
  BY <1>1, <1>2
<1> QED
  BY <1>3, <1>4, <1>5, <1>6, <1>7, <1>8

(* Every step of a thread but Finish and Post leaves it a successor, and   *)
(* leaves the coordinator, the cards and the posted closures alone.        *)
LEMMA ThreadMoves ==
    ASSUME IInv, NEW t \in threads,
           \/ BeginAttempt(t) \/ StopDownload(t) \/ FinishDownload(t)
           \/ DownloadFails(t) \/ PassLastCheck(t) \/ Activate(t) \/ Record(t)
           \/ Discard(t) \/ ClearRow(t)
    PROVE  /\ \E u : Successor(t, u) /\ Goes(t, u)
           /\ UNCHANGED <<coordinator, page, asked, posted, clicks, restarts>>
           /\ rows' \subseteq Models /\ installed' \subseteq Models
           /\ recorded' \subseteq Models
           /\ partial' \in [Models -> {"none", "part", "full"}]
           /\ faults' \in 0..MaxFaults
PROOF
<1>1. /\ t \in Thread /\ t.model \in Models
      /\ t.stage \in Stages \ {"discarding", "closing", "posting"} => t.kind = "download"
      /\ t.kind \in {"download", "cancel"}
  BY DEF IInv, TypeOK, Thread, CancelInv
<1>2. /\ rows \subseteq Models /\ installed \subseteq Models /\ recorded \subseteq Models
      /\ partial \in [Models -> {"none", "part", "full"}]
      /\ faults \in 0..MaxFaults /\ MaxFaults \in Nat
  BY DownloadAssumption DEF IInv, TypeOK
<1>3. ASSUME NEW s \in Stages, NEW c \in Completions, NEW r \in Nat,
             t.kind = "download" => (s \in Holding <=> t.stage \in Holding),
             t.kind = "cancel" => s \in {"discarding", "closing", "posting"}
      PROVE  /\ Successor(t, [t EXCEPT !.stage = s])
             /\ Successor(t, [t EXCEPT !.stage = s, !.completion = c])
             /\ Successor(t, [t EXCEPT !.stage = s, !.retries = r])
  BY <1>1, <1>3 DEF Successor, Thread
<1> DEFINE Moves == \E u : Successor(t, u) /\ Goes(t, u)
<1>4. ASSUME t.stage \in Holding \ {"ending"}, t.kind = "download", NEW c \in Completions,
             Returns(t, c)
      PROVE  Moves
  <2>1. "ending" \in Holding /\ "ending" \in Stages
    BY DEF Holding, Stages
  <2>2. Successor(t, [t EXCEPT !.stage = "ending", !.completion = c])
    BY <2>1, <1>3, <1>4
  <2> QED
    BY <2>2, <1>4 DEF Returns
<1>5. ASSUME t.stage \in Holding, t.kind = "download", NEW s \in Holding,
             Goes(t, [t EXCEPT !.stage = s])
      PROVE  Moves
  BY <1>3, <1>5 DEF Holding, Completions
<1>6. ASSUME t.stage \in {"checking", "downloading", "verified"}, Stops(t) PROVE Moves
  <2>1. t.kind = "download" /\ t.stage \in Holding \ {"ending"}
    BY <1>1, <1>6 DEF Holding, Stages
  <2>2. CASE Returns(t, "Paused")
    BY <2>1, <2>2, <1>4 DEF Completions
  <2>3. CASE Goes(t, [t EXCEPT !.stage = "discarding"])
    BY <2>1, <2>3, <1>5 DEF Holding, Stages
  <2> QED
    BY <2>2, <2>3, <1>6 DEF Stops
<1> HIDE DEF Moves
<1>7. CASE BeginAttempt(t)
  <2>1. t.kind = "download" /\ t.stage \in Holding
    BY <1>1, <1>7 DEF BeginAttempt, Holding, Stages
  <2>2. Moves
    BY <2>1, <1>5, <1>6, <1>7 DEF BeginAttempt, Holding, Stages
  <2>3. partial' \in [Models -> {"none", "part", "full"}]
    BY <1>2, <1>7 DEF BeginAttempt
  <2> QED
    BY <2>2, <2>3, <1>2, <1>7 DEF BeginAttempt, Moves, NoFault, ThreadKeeps
<1>8. CASE StopDownload(t)
  BY <1>2, <1>6, <1>8 DEF StopDownload, Moves, NoFault, ThreadKeeps, files
<1>9. CASE FinishDownload(t)
  <2>1. t.kind = "download" /\ t.stage \in Holding \ {"ending"}
    BY <1>1, <1>9 DEF FinishDownload, Holding, Stages
  <2>2. Moves
    BY <2>1, <1>4, <1>5, <1>9 DEF FinishDownload, Holding, Stages, Completions
  <2>3. partial' \in [Models -> {"none", "part", "full"}]
    BY <1>2, <1>9 DEF FinishDownload
  <2> QED
    BY <2>2, <2>3, <1>2, <1>9 DEF FinishDownload, Moves, NoFault, ThreadKeeps
<1>10. CASE DownloadFails(t)
  <2>1. t.kind = "download" /\ t.stage \in Holding \ {"ending"} /\ "checking" \in Holding
    BY <1>1, <1>10 DEF DownloadFails, Holding, Stages
  <2>2. Moves
    <3>1. CASE Returns(t, "Failed")
      BY <2>1, <3>1, <1>4 DEF Completions
    <3>2. CASE Goes(t, [t EXCEPT !.stage = "checking", !.retries = @ + 1])
      <4>1. t.retries + 1 \in Nat /\ "checking" \in Stages /\ "Failed" \in Completions
        BY <1>1 DEF Thread, Stages, Completions
      <4>2. Successor(t, [t EXCEPT !.stage = "checking", !.retries = t.retries + 1])
        BY <2>1, <4>1, <1>3
      <4> QED
        BY <3>2, <4>2 DEF Moves
    <3> QED
      BY <3>1, <3>2, <1>10 DEF DownloadFails
  <2>3. partial' \in [Models -> {"none", "part", "full"}]
    BY <1>2, <1>10 DEF DownloadFails
  <2>4. faults' \in 0..MaxFaults
    BY <1>2, <1>10 DEF DownloadFails, Fault
  <2> QED
    BY <2>2, <2>3, <2>4, <1>2, <1>10 DEF DownloadFails, Moves, ThreadKeeps
<1>11. CASE PassLastCheck(t)
  <2>1. t.kind = "download" /\ t.stage \in Holding /\ "activating" \in Holding
    BY <1>1, <1>11 DEF PassLastCheck, Holding, Stages
  <2> QED
    BY <2>1, <1>2, <1>5, <1>11 DEF PassLastCheck, Moves, NoFault, ThreadKeeps, files
<1>12. CASE Activate(t)
  <2>1. t.kind = "download" /\ t.stage \in Holding \ {"ending"} /\ "recording" \in Holding
    BY <1>1, <1>12 DEF Activate, Holding, Stages
  <2>2. Moves
    BY <2>1, <1>4, <1>5, <1>12 DEF Activate, Completions
  <2>3. partial' \in [Models -> {"none", "part", "full"}] /\ installed' \subseteq Models
    BY <1>1, <1>2, <1>12 DEF Activate
  <2> QED
    BY <2>2, <2>3, <1>2, <1>12 DEF Activate, Moves, NoFault, ThreadKeeps
<1>13. CASE Record(t)
  <2>1. t.kind = "download" /\ t.stage \in Holding \ {"ending"}
    BY <1>1, <1>13 DEF Record, Holding, Stages
  <2>2. Moves
    BY <2>1, <1>4, <1>13 DEF Record, Completions
  <2>3. recorded' \subseteq Models /\ faults' \in 0..MaxFaults
    BY <1>1, <1>2, <1>13 DEF Record, NoFault, Fault
  <2> QED
    BY <2>2, <2>3, <1>2, <1>13 DEF Record, Moves, ThreadKeeps
<1>14. CASE Discard(t)
  <2> DEFINE next == IF t.kind = "download" THEN "ending" ELSE "closing"
  <2>1. /\ next \in Stages /\ {"Cancelled", "Failed"} \subseteq Completions
        /\ t.kind = "download" => (next \in Holding /\ t.stage \in Holding)
        /\ t.kind = "cancel" => next \in {"discarding", "closing", "posting"}
    BY <1>14 DEF Discard, Holding, Stages, Completions
  <2>2. \E c \in {"Cancelled", "Failed"} :
            Goes(t, [t EXCEPT !.stage = next, !.completion = c])
    BY <1>14 DEF Discard
  <2> HIDE DEF next
  <2>3. \A c \in {"Cancelled", "Failed"} :
            Successor(t, [t EXCEPT !.stage = next, !.completion = c])
    BY <2>1, <1>1, <1>3
  <2>4. Moves
    BY <2>2, <2>3 DEF Moves
  <2>5. partial' \in [Models -> {"none", "part", "full"}] /\ faults' \in 0..MaxFaults
    BY <1>1, <1>2, <1>14 DEF Discard, NoFault, Fault
  <2> QED
    BY <2>4, <2>5, <1>2, <1>14 DEF Discard, Moves, ThreadKeeps
<1>15. CASE ClearRow(t)
  <2>1. /\ "posting" \in Stages \ Holding /\ t.stage \notin Holding
        /\ "Failed" \in Completions
    BY <1>15 DEF ClearRow, Holding, Stages, Completions
  <2>2. Successor(t, [t EXCEPT !.stage = "posting"])
    BY <2>1, <1>1, <1>3
  <2>3. rows' \subseteq Models /\ faults' \in 0..MaxFaults
    BY <1>2, <1>15 DEF ClearRow, NoFault, Fault
  <2> QED
    BY <2>2, <2>3, <1>2, <1>15 DEF ClearRow, Moves, ThreadKeeps, files
<1> QED
  BY <1>7, <1>8, <1>9, <1>10, <1>11, <1>12, <1>13, <1>14, <1>15 DEF Moves

-----------------------------------------------------------------------------
(* The steps of the user, the event loop and the process.                  *)

(* The bounds of the model stay bounds.                                    *)
LEMMA ClickBound ==
    ASSUME TypeOK
    PROVE  /\ Click => clicks' \in 0..MaxClicks
           /\ Fault => faults' \in 0..MaxFaults
           /\ NoFault => faults' \in 0..MaxFaults
  BY DownloadAssumption DEF TypeOK, Click, Fault, NoFault

(* wire_start, whatever slots, threads and queue its take_ready meets, as  *)
(* long as nobody was forgotten there.                                     *)
LEMMA AskedStep ==
    ASSUME IInv, NEW m \in Models, NEW act \in Slots, NEW q \in Seq(Models),
           NEW base, base \subseteq Thread,
           BoundInv(act), QueueInv(act, q), CancelInv(base),
           ThreadInv(act, base, next_generation), AskedInv(base, q, asked \cup {m}),
           \A t \in threads : \E u \in base : u.model = t.model,
           \A n \in Models : n \in Members(queued) => n \in Members(q),
           (\E t \in base : t.model = m) \/ m \in Members(q),
           Click, rows' = rows \cup {m}, asked' = asked \cup {m},
           StartReady(act, q, base, [card EXCEPT ![m] = "Queued"], NoModel),
           UNCHANGED <<posted, installed, recorded, partial, restarts>>
    PROVE  IInv'
PROOF
<1> DEFINE crd == [card EXCEPT ![m] = "Queued"]
<1>1. TypeOK /\ asked' \in SUBSET Models /\ NoModel \in Models \cup {NoModel}
  BY DEF IInv, TypeOK
<1>2. /\ crd \in [Models -> Cards] /\ crd[m] = "Queued"
      /\ \A n \in Models \ {m} : crd[n] = card[n]
  BY <1>1 DEF TypeOK, Cards
<1>3. StartReady(act, q, base, crd, NoModel) /\ AskedInv(base, q, asked')
  OBVIOUS
<1> HIDE DEF crd
<1>4. /\ active' \in [Models -> Nat] /\ queued' \in Seq(Models)
      /\ next_generation' \in Nat \ {0} /\ threads' \subseteq Thread
      /\ card' \in [Models -> Cards] /\ dialog' \in Models \cup {NoModel}
      /\ faults' \in 0..MaxFaults
      /\ ThreadInv(active', threads', next_generation')
      /\ QueueInv(active', queued')
      /\ AskedInv(threads', queued', asked')
      /\ CancelInv(threads')
      /\ BoundInv(active')
      /\ base \subseteq threads'
      /\ queued' # <<>> => Cardinality(ActiveModels(active')) = MaxActive
      /\ \A n \in Models :
            \/ card'[n] = "NotDownloaded"
            \/ \E t \in threads' : t.model = n
            \/ card'[n] = crd[n] /\ (n \in Members(q) => n \in Members(queued'))
  BY <1>1, <1>2, <1>3, StartReadyPreserves
<1>5. TypeOK'
  BY <1>1, <1>4, ClickBound DEF TypeOK
<1>6. WorkConserving'
  BY <1>4, DownloadAssumption DEF WorkConserving
<1>7. CardHasActor'
  <2> SUFFICES ASSUME NEW n \in Models, ~(\E t \in threads' : t.model = n),
                      ~(\E c \in Members(posted) : c.model = n)
               PROVE  /\ card'[n] \notin {"Downloading", "Cancelling"}
                      /\ card'[n] = "Queued" => n \in Members(queued')
    BY DEF CardHasActor, Members
  <2>1. ~(\E t \in base : t.model = n) /\ ~(\E t \in threads : t.model = n)
    BY <1>4
  <2>2. CASE card'[n] = "NotDownloaded"
    BY <2>2
  <2>3. CASE card'[n] = crd[n] /\ (n \in Members(q) => n \in Members(queued'))
    <3>1. CASE n = m
      BY <2>1, <2>3, <3>1, <1>2
    <3>2. CASE n # m
      <4>1. CardHasActor
        BY DEF IInv
      <4>2. /\ card[n] \notin {"Downloading", "Cancelling"}
            /\ card[n] = "Queued" => n \in Members(queued)
        BY <2>1, <4>1 DEF CardHasActor
      <4> QED
        BY <2>3, <3>2, <4>2, <1>2
    <3> QED
      BY <3>1, <3>2
  <2> QED
    BY <2>2, <2>3, <1>4
<1> QED
  BY <1>4, <1>5, <1>6, <1>7 DEF IInv

LEMMA DownloadStep ==
    ASSUME IInv, NEW m \in Models, Download(m)
    PROVE  IInv'
PROOF
<1> DEFINE q == Enqueued(m)
<1>1. /\ Click /\ rows' = rows \cup {m} /\ asked' = asked \cup {m}
      /\ StartReady(active, q, threads, [card EXCEPT ![m] = "Queued"], NoModel)
      /\ UNCHANGED <<posted, installed, recorded, partial, restarts>>
  BY DEF Download
<1>2. /\ TypeOK /\ BoundInv(active) /\ QueueInv(active, queued) /\ CancelInv(threads)
      /\ ThreadInv(active, threads, next_generation) /\ AskedInv(threads, queued, asked)
      /\ threads \subseteq Thread /\ active \in Slots
      /\ queued \in Seq(Models) /\ DOMAIN queued = 1..Len(queued)
  BY LenProperties DEF IInv, TypeOK, Slots
<1>3. /\ q \in Seq(Models)
      /\ QueueInv(active, q)
      /\ Len(queued) <= Len(q)
      /\ \A i \in 1..Len(queued) : q[i] = queued[i]
      /\ \A i \in 1..Len(q) : q[i] = m \/ \E j \in 1..Len(queued) : q[i] = queued[j]
      /\ active[m] # 0 \/ m \in Members(q)
  BY <1>2, EnqueuedQueue
<1> HIDE DEF q
<1>4. AskedInv(threads, q, asked \cup {m})
  BY <1>2, <1>3 DEF AskedInv
<1>5. \A n \in Models : n \in Members(queued) => n \in Members(q)
  <2>1. DOMAIN q = 1..Len(q) /\ Len(q) \in Nat /\ Len(queued) \in Nat
    BY <1>2, <1>3, LenProperties
  <2> QED
    BY <2>1, <1>2, <1>3 DEF Members
<1>6. (\E t \in threads : t.model = m) \/ m \in Members(q)
  BY <1>2, <1>3 DEF ThreadInv
<1> QED
  BY <1>1, <1>2, <1>3, <1>4, <1>5, <1>6, AskedStep

(* A download thread that gives its slot back leaves slots, threads and    *)
(* queue in order.                                                         *)
LEMMA SlotBack ==
    ASSUME IInv, NEW t \in threads, t.kind = "download", t.stage = "ending",
           NEW act, act = [active EXCEPT ![t.model] = 0]
    PROVE  /\ act \in Slots /\ Slotless(t) \subseteq Thread
           /\ ThreadInv(act, Slotless(t), next_generation)
           /\ CancelInv(Slotless(t)) /\ AskedInv(Slotless(t), queued, asked)
           /\ QueueInv(act, queued) /\ BoundInv(act)
           /\ \A v \in threads : \E w \in Slotless(t) : w.model = v.model
           /\ \E w \in Slotless(t) : w.kind = "download"
PROOF
<1> DEFINE u == [t EXCEPT !.stage = "closing"]
           thr == Slotless(t)
<1>1. /\ TypeOK /\ BoundInv(active) /\ QueueInv(active, queued) /\ CancelInv(threads)
      /\ ThreadInv(active, threads, next_generation) /\ AskedInv(threads, queued, asked)
  BY DEF IInv
<1>2. /\ t \in Thread /\ t.model \in Models /\ t.number # 0
      /\ t.stage \in Holding /\ active[t.model] = t.number
  BY <1>1 DEF TypeOK, Thread, ThreadInv, Holding, Stages
<1>3. thr = (threads \ {t}) \cup {u}
  BY DEF Slotless
<1>4. /\ u \in Thread /\ u.kind = "download" /\ u.model = t.model
      /\ u.number = t.number /\ u.stage = "closing" /\ u.stage \notin Holding
  BY <1>2 DEF Thread, Stages, Holding
<1> HIDE DEF u, thr
<1>5. /\ act \in [Models -> Nat] /\ act[t.model] = 0
      /\ \A m \in Models \ {t.model} : act[m] = active[m]
  BY <1>1, <1>2 DEF TypeOK
<1>6. thr \subseteq Thread
  BY <1>1, <1>3, <1>4 DEF TypeOK
<1>7. ThreadInv(act, thr, next_generation)
  <2>1. \A v \in thr : v.kind = "download" =>
          /\ v.number < next_generation
          /\ v.stage \in Holding <=> act[v.model] = v.number
    <3> SUFFICES ASSUME NEW v \in thr, v.kind = "download"
                 PROVE  /\ v.number < next_generation
                        /\ v.stage \in Holding <=> act[v.model] = v.number
      OBVIOUS
    <3>1. CASE v = u
      BY <3>1, <1>1, <1>2, <1>4, <1>5 DEF ThreadInv
    <3>2. CASE v \in threads \ {t}
      <4>1. v.number < next_generation /\ (v.stage \in Holding <=> active[v.model] = v.number)
        BY <3>2, <1>1 DEF ThreadInv
      <4>2. v.model \in Models /\ v.number \in Nat \ {0} /\ v.number # t.number
        BY <3>2, <1>1, <1>2 DEF ThreadInv, TypeOK, Thread
      <4>3. CASE v.model = t.model
        BY <4>1, <4>2, <4>3, <1>2, <1>5
      <4>4. CASE v.model # t.model
        BY <4>1, <4>2, <4>4, <1>5
      <4> QED
        BY <4>3, <4>4
    <3> QED
      BY <3>1, <3>2, <1>3
  <2>2. \A v, w \in thr :
          (v.kind = "download" /\ w.kind = "download" /\ v.number = w.number) => v = w
    BY <1>1, <1>2, <1>3, <1>4 DEF ThreadInv
  <2>3. \A m \in Models : act[m] # 0 =>
          \E v \in thr : v.kind = "download" /\ v.model = m /\ v.number = act[m]
    BY <1>1, <1>3, <1>4, <1>5 DEF ThreadInv
  <2> QED
    BY <2>1, <2>2, <2>3 DEF ThreadInv
<1>8. CancelInv(thr) /\ AskedInv(thr, queued, asked)
  BY <1>1, <1>2, <1>3, <1>4 DEF CancelInv, AskedInv
<1>9. QueueInv(act, queued)
  <2>1. \A i \in 1..Len(queued) : queued[i] \in Models
    BY <1>1, ElementOfSeq DEF TypeOK
  <2> QED
    BY <2>1, <1>1, <1>5 DEF QueueInv
<1>10. BoundInv(act)
  <2>1. ActiveModels(act) \subseteq ActiveModels(active)
    BY <1>5 DEF ActiveModels
  <2>2. IsFiniteSet(ActiveModels(active))
    BY DownloadAssumption, FS_Subset DEF ActiveModels
  <2>3. /\ Cardinality(ActiveModels(act)) <= Cardinality(ActiveModels(active))
        /\ Cardinality(ActiveModels(act)) \in Nat
        /\ Cardinality(ActiveModels(active)) \in Nat
    BY <2>1, <2>2, FS_Subset, FS_CardinalityType
  <2> QED
    BY <2>3, <1>1, DownloadAssumption DEF BoundInv
<1>11. /\ \A v \in threads : \E w \in thr : w.model = v.model
       /\ \E w \in thr : w.kind = "download"
  BY <1>3, <1>4
<1> QED
  BY <1>5, <1>6, <1>7, <1>8, <1>9, <1>10, <1>11 DEF thr, Slots

LEMMA DownloadWhileEndingStep ==
    ASSUME IInv, NEW m \in Models, DownloadWhileEnding(m)
    PROVE  IInv'
PROOF
<1>1. PICK t \in threads :
        /\ t.kind = "download" /\ t.model = m /\ t.stage = "ending"
        /\ StartReady([active EXCEPT ![m] = 0], queued, Slotless(t),
                      [card EXCEPT ![m] = "Queued"], NoModel)
  BY DEF DownloadWhileEnding
<1>2. /\ Click /\ rows' = rows \cup {m} /\ asked' = asked \cup {m}
      /\ UNCHANGED <<posted, installed, recorded, partial, restarts>>
  BY DEF DownloadWhileEnding
<1> DEFINE act == [active EXCEPT ![t.model] = 0]
<1>3. StartReady(act, queued, Slotless(t), [card EXCEPT ![m] = "Queued"], NoModel)
  BY <1>1
<1> HIDE DEF act
<1>4. /\ act \in Slots /\ Slotless(t) \subseteq Thread
      /\ ThreadInv(act, Slotless(t), next_generation)
      /\ CancelInv(Slotless(t)) /\ AskedInv(Slotless(t), queued, asked)
      /\ QueueInv(act, queued) /\ BoundInv(act)
      /\ \A v \in threads : \E w \in Slotless(t) : w.model = v.model
  BY <1>1, SlotBack DEF act
<1>5. AskedInv(Slotless(t), queued, asked \cup {m}) /\ queued \in Seq(Models)
  BY <1>4 DEF AskedInv, IInv, TypeOK
<1>6. \E w \in Slotless(t) : w.model = m
  BY <1>1, <1>4
<1> QED
  BY <1>2, <1>3, <1>4, <1>5, <1>6, AskedStep

LEMMA CancelInactiveStep ==
    ASSUME IInv, NEW m \in Models, CancelInactive(m)
    PROVE  IInv'
PROOF
<1> DEFINE q == WithoutQueued(m)
           new == CancelThread(m, clicks + 1)
<1>1. /\ Click /\ active[m] = 0 /\ queued' = q
      /\ UNCHANGED <<active, next_generation, posted, rows, files, asked, restarts>>
      /\ \/ /\ NoFault /\ card' = [card EXCEPT ![m] = "Cancelling"]
            /\ threads' = threads \cup {new} /\ UNCHANGED dialog
         \/ /\ Fault /\ card' = [card EXCEPT ![m] = "NotDownloaded"]
            /\ dialog' = m /\ UNCHANGED threads
  BY DEF CancelInactive
<1>2. /\ TypeOK /\ BoundInv(active) /\ QueueInv(active, queued) /\ CancelInv(threads)
      /\ ThreadInv(active, threads, next_generation) /\ AskedInv(threads, queued, asked)
      /\ WorkConserving /\ CardHasActor
  BY DEF IInv
<1>3. /\ q \in Seq(Models)
      /\ QueueInv(active, q)
      /\ \A i \in 1..Len(q) : \E j \in 1..Len(queued) : q[i] = queued[j]
      /\ q # <<>> => queued # <<>>
      /\ \A n \in Models \ {m} : n \in Members(queued) => n \in Members(q)
  BY <1>2, WithoutQueuedQueue
<1>4. new \in Thread /\ new.kind = "cancel" /\ new.model = m /\ new.stage = "discarding"
  <2>1. clicks + 1 \in Nat \ {0}
    BY <1>2, DownloadAssumption DEF TypeOK
  <2> QED
    BY <2>1 DEF CancelThread, Thread, Stages, Interruptions, Completions
<1> HIDE DEF q, new
<1>5. threads \subseteq threads' /\ \A t \in threads' : t.kind = "download" => t \in threads
  BY <1>1, <1>4
<1>6. TypeOK'
  <2>1. card' \in [Models -> Cards]
    BY <1>1, <1>2 DEF TypeOK, Cards
  <2> QED
    BY <2>1, <1>1, <1>2, <1>3, <1>4, ClickBound DEF TypeOK, files
<1>7. ThreadInv(active, threads, next_generation)'
  BY <1>1, <1>2, <1>5 DEF ThreadInv
<1>8. CancelInv(threads)'
  BY <1>1, <1>2, <1>4 DEF CancelInv
<1>9. AskedInv(threads, queued, asked)'
  BY <1>1, <1>2, <1>3, <1>5 DEF AskedInv
<1>10. QueueInv(active, queued)' /\ BoundInv(active)'
  BY <1>1, <1>2, <1>3 DEF BoundInv, ActiveModels
<1>11. WorkConserving'
  BY <1>1, <1>2, <1>3, <1>5 DEF WorkConserving, ActiveModels
<1>12. CardHasActor'
  <2> SUFFICES ASSUME NEW n \in Models, ~\E t \in threads' : t.model = n,
                      ~\E c \in Members(posted) : c.model = n
               PROVE  /\ card'[n] \notin {"Downloading", "Cancelling"}
                      /\ card'[n] = "Queued" => n \in Members(queued')
    BY <1>1 DEF CardHasActor, Members
  <2>1. ~\E t \in threads : t.model = n
    BY <1>5
  <2>2. CASE n = m
    BY <2>2, <1>1, <1>2, <1>4 DEF TypeOK
  <2>3. CASE n # m
    <3>1. card'[n] = card[n]
      BY <2>3, <1>1, <1>2 DEF TypeOK
    <3> QED
      BY <2>1, <2>3, <3>1, <1>1, <1>2, <1>3 DEF CardHasActor
  <2> QED
    BY <2>2, <2>3
<1> QED
  BY <1>6, <1>7, <1>8, <1>9, <1>10, <1>11, <1>12 DEF IInv

LEMMA FinishStep ==
    ASSUME IInv, NEW t \in threads, Finish(t)
    PROVE  IInv'
PROOF
<1>1. /\ t.stage = "ending" /\ t.kind = "download" /\ active[t.model] = t.number
  <2>1. t \in Thread /\ t.stage = "ending" /\ t.stage \in Holding
    BY DEF IInv, TypeOK, Finish, Holding, Stages
  <2> QED
    BY <2>1 DEF IInv, Thread, CancelInv, ThreadInv
<1>2. /\ active' = [active EXCEPT ![t.model] = 0]
      /\ threads' = Slotless(t)
      /\ UNCHANGED <<queued, next_generation, posted, page, rows, files, asked,
                     bounds>>
  BY <1>1 DEF Finish, NoFault, bounds
<1>3. /\ active' \in [Models -> Nat] /\ threads' \subseteq Thread
      /\ ThreadInv(active', threads', next_generation)
      /\ CancelInv(threads') /\ AskedInv(threads', queued, asked)
      /\ QueueInv(active', queued) /\ BoundInv(active')
      /\ \A v \in threads : \E w \in threads' : w.model = v.model
      /\ \E w \in threads' : w.kind = "download"
  BY <1>1, <1>2, SlotBack DEF Slots
<1>4. TypeOK'
  BY <1>2, <1>3 DEF IInv, TypeOK, page, files, bounds
<1>5. WorkConserving'
  BY <1>3 DEF WorkConserving
<1>6. CardHasActor'
  BY <1>2, <1>3 DEF IInv, CardHasActor, page
<1> QED
  BY <1>2, <1>3, <1>4, <1>5, <1>6 DEF IInv

LEMMA PostStep ==
    ASSUME IInv, NEW t \in threads, Post(t)
    PROVE  IInv'
PROOF
<1> DEFINE c == [model |-> t.model, completion |-> t.completion,
                 starts |-> t.kind = "download"]
<1>1. /\ TypeOK /\ BoundInv(active) /\ QueueInv(active, queued) /\ CancelInv(threads)
      /\ ThreadInv(active, threads, next_generation) /\ AskedInv(threads, queued, asked)
      /\ WorkConserving /\ CardHasActor
  BY DEF IInv
<1>2. t \in Thread /\ t.stage \notin Holding
  BY <1>1 DEF TypeOK, Post, Holding
<1>3. /\ threads' = threads \ {t} /\ posted' = Append(posted, c)
      /\ UNCHANGED <<coordinator, page, rows, files, asked, bounds>>
  BY DEF Post, NoFault, ThreadKeeps, bounds
<1>4. c \in Closure /\ c.model = t.model /\ (t.kind = "download" => c.starts)
  BY <1>2 DEF Thread, Closure
<1> HIDE DEF c
<1>5. /\ posted' \in Seq(Closure) /\ c \in Members(posted')
      /\ \A d \in Members(posted) : d \in Members(posted')
  <2>1. posted \in Seq(Closure) /\ DOMAIN posted = 1..Len(posted) /\ Len(posted) \in Nat
    BY <1>1, LenProperties DEF TypeOK
  <2>2. /\ posted' \in Seq(Closure) /\ Len(posted') = Len(posted) + 1
        /\ \A i \in 1..Len(posted) : posted'[i] = posted[i]
        /\ posted'[Len(posted) + 1] = c
    BY <1>3, <1>4, <2>1, AppendProperties
  <2>3. DOMAIN posted' = 1..Len(posted')
    BY <2>2, LenProperties
  <2> QED
    BY <2>1, <2>2, <2>3 DEF Members
<1>6. TypeOK'
  BY <1>1, <1>3, <1>5 DEF TypeOK, coordinator, page, files, bounds
<1>7. ThreadInv(active, threads, next_generation)'
  <2>1. \A m \in Models : active[m] # 0 =>
          \E v \in threads' : v.kind = "download" /\ v.model = m /\ v.number = active[m]
    BY <1>1, <1>2, <1>3 DEF ThreadInv
  <2> QED
    BY <2>1, <1>1, <1>3 DEF ThreadInv, coordinator
<1>8. CancelInv(threads)' /\ AskedInv(threads, queued, asked)'
  BY <1>1, <1>3 DEF CancelInv, AskedInv, coordinator
<1>9. QueueInv(active, queued)' /\ BoundInv(active)'
  BY <1>1, <1>3 DEF BoundInv, ActiveModels, coordinator
<1>10. WorkConserving'
  <2>1. (\E v \in threads : v.kind = "download") =>
            (\E v \in threads' : v.kind = "download") \/ \E d \in Members(posted') : d.starts
    BY <1>3, <1>4, <1>5
  <2> QED
    BY <2>1, <1>1, <1>3, <1>5 DEF WorkConserving, ActiveModels, coordinator
<1>11. CardHasActor'
  <2>1. \A m \in Models : (\E v \in threads : v.model = m) =>
            (\E v \in threads' : v.model = m) \/ \E d \in Members(posted') : d.model = m
    BY <1>3, <1>4, <1>5
  <2> QED
    BY <2>1, <1>1, <1>3, <1>5 DEF CardHasActor, coordinator, page
<1> QED
  BY <1>6, <1>7, <1>8, <1>9, <1>10, <1>11 DEF IInv

LEMMA RunPostedStep ==
    ASSUME IInv, RunPosted
    PROVE  IInv'
PROOF
<1> DEFINE c == Head(posted)
           crd == [card EXCEPT ![c.model] = CardAfter(c.completion)]
           dlg == DialogAfter(c.model, c.completion)
<1>1. /\ TypeOK /\ BoundInv(active) /\ QueueInv(active, queued) /\ CancelInv(threads)
      /\ ThreadInv(active, threads, next_generation) /\ AskedInv(threads, queued, asked)
      /\ WorkConserving /\ CardHasActor
      /\ threads \subseteq Thread /\ queued \in Seq(Models) /\ asked \in SUBSET Models
      /\ active \in Slots
  BY DEF IInv, TypeOK, Slots
<1>2. /\ posted' = Tail(posted)
      /\ \/ c.starts /\ StartReady(active, queued, threads, crd, dlg)
         \/ /\ ~c.starts /\ card' = crd /\ dialog' = dlg
            /\ NoFault /\ UNCHANGED <<coordinator, threads>>
      /\ UNCHANGED <<rows, files, asked, clicks, restarts>>
  BY Zenon DEF RunPosted
<1>3. /\ c \in Closure /\ posted' \in Seq(Closure)
      /\ \A d \in Members(posted) : d = c \/ d \in Members(posted')
  <2>1. posted \in Seq(Closure) /\ posted # <<>> /\ DOMAIN posted = 1..Len(posted)
    BY <1>1, LenProperties DEF TypeOK, RunPosted
  <2>2. /\ c \in Closure /\ Tail(posted) \in Seq(Closure)
        /\ c = posted[1] /\ Len(posted) \in Nat /\ Len(Tail(posted)) = Len(posted) - 1
        /\ \A i \in 1..(Len(posted) - 1) : Tail(posted)[i] = posted[i + 1]
    BY <2>1, HeadTailProperties, LenProperties, ElementOfSeq, EmptySeq
  <2>3. DOMAIN Tail(posted) = 1..Len(Tail(posted))
    BY <2>2, LenProperties
  <2>4. ASSUME NEW i \in 1..Len(posted), i # 1 PROVE posted[i] \in Members(Tail(posted))
    <3>1. /\ i - 1 \in 1..(Len(posted) - 1) /\ (i - 1) + 1 = i
      BY <2>2, <2>4
    <3>2. Tail(posted)[i - 1] = posted[i]
      BY <2>2, <3>1
    <3> QED
      BY <2>2, <2>3, <3>1, <3>2 DEF Members
  <2> QED
    BY <1>2, <2>1, <2>2, <2>4 DEF Members
<1>4. /\ CardAfter(c.completion) \in {"Downloaded", "Paused", "NotDownloaded"}
      /\ dlg \in Models \cup {NoModel}
  BY <1>1, <1>3 DEF Closure, Completions, CardAfter, DialogAfter, TypeOK
<1>5. /\ crd \in [Models -> Cards]
      /\ crd[c.model] \in {"Downloaded", "Paused", "NotDownloaded"}
      /\ \A n \in Models : n # c.model => crd[n] = card[n]
  BY <1>1, <1>3, <1>4 DEF TypeOK, Cards, Closure
<1> HIDE DEF c, crd, dlg
\* A card whose state crd keeps has the actor it had, or the queue.
<1>6. ASSUME NEW n \in Models, ~(\E t \in threads : t.model = n),
             ~(\E d \in Members(posted') : d.model = n)
      PROVE  /\ crd[n] \notin {"Downloading", "Cancelling"}
             /\ crd[n] = "Queued" => n \in Members(queued)
  <2>1. CASE n = c.model
    BY <2>1, <1>5
  <2>2. CASE n # c.model
    <3>1. ~\E d \in Members(posted) : d.model = n
      BY <2>2, <1>3, <1>6
    <3> QED
      BY <2>2, <3>1, <1>1, <1>5, <1>6 DEF CardHasActor
  <2> QED
    BY <2>1, <2>2
<1>7. CASE c.starts
  <2>1. StartReady(active, queued, threads, crd, dlg)
    BY <1>2, <1>7
  <2>2. /\ active' \in [Models -> Nat] /\ queued' \in Seq(Models)
        /\ next_generation' \in Nat \ {0} /\ threads' \subseteq Thread
        /\ card' \in [Models -> Cards] /\ dialog' \in Models \cup {NoModel}
        /\ faults' \in 0..MaxFaults
        /\ ThreadInv(active', threads', next_generation')
        /\ QueueInv(active', queued')
        /\ AskedInv(threads', queued', asked)
        /\ CancelInv(threads')
        /\ BoundInv(active')
        /\ threads \subseteq threads'
        /\ queued' # <<>> => Cardinality(ActiveModels(active')) = MaxActive
        /\ \A n \in Models :
              \/ card'[n] = "NotDownloaded"
              \/ \E t \in threads' : t.model = n
              \/ card'[n] = crd[n] /\ (n \in Members(queued) => n \in Members(queued'))
    BY <2>1, <1>1, <1>4, <1>5, StartReadyPreserves
  <2>3. TypeOK'
    BY <1>1, <1>2, <1>3, <2>2 DEF TypeOK, files
  <2>4. WorkConserving'
    BY <2>2, DownloadAssumption DEF WorkConserving
  <2>5. CardHasActor'
    <3> SUFFICES ASSUME NEW n \in Models, ~(\E t \in threads' : t.model = n),
                        ~(\E d \in Members(posted') : d.model = n)
                 PROVE  /\ card'[n] \notin {"Downloading", "Cancelling"}
                        /\ card'[n] = "Queued" => n \in Members(queued')
      BY DEF CardHasActor, Members
    <3>1. ~\E t \in threads : t.model = n
      BY <2>2
    <3>2. /\ crd[n] \notin {"Downloading", "Cancelling"}
          /\ crd[n] = "Queued" => n \in Members(queued)
      BY <1>6, <3>1
    <3> QED
      BY <2>2, <3>2
  <2> QED
    BY <1>2, <2>2, <2>3, <2>4, <2>5 DEF IInv
<1>8. CASE ~c.starts
  <2>1. card' = crd /\ dialog' = dlg /\ NoFault /\ UNCHANGED <<coordinator, threads>>
    BY <1>2, <1>8
  <2>2. TypeOK'
    BY <1>1, <1>2, <1>3, <1>4, <1>5, <2>1, ClickBound DEF TypeOK, files, coordinator
  <2>3. WorkConserving'
    BY <1>1, <1>3, <1>8, <2>1 DEF WorkConserving, ActiveModels, coordinator
  <2>4. CardHasActor'
    <3> SUFFICES ASSUME NEW n \in Models, ~(\E t \in threads' : t.model = n),
                        ~(\E d \in Members(posted') : d.model = n)
                 PROVE  /\ card'[n] \notin {"Downloading", "Cancelling"}
                        /\ card'[n] = "Queued" => n \in Members(queued')
      BY DEF CardHasActor, Members
    <3> QED
      BY <1>6, <2>1 DEF coordinator
  <2> QED
    BY <1>1, <1>2, <2>1, <2>2, <2>3, <2>4
       DEF IInv, ThreadInv, CancelInv, QueueInv, AskedInv, BoundInv, ActiveModels, coordinator
<1> QED
  BY <1>7, <1>8

(* What leaves the coordinator and the threads alone, and shows no card as *)
(* waiting for somebody, keeps the invariant.                              *)
LEMMA QuietStep ==
    ASSUME IInv, TypeOK', UNCHANGED <<active, queued, next_generation, threads, posted, asked>>,
           \A n \in Models : card'[n] = card[n] \/ card'[n] \in {"NotDownloaded", "Paused"}
    PROVE  IInv'
PROOF
<1>1. ThreadInv(active, threads, next_generation)' /\ CancelInv(threads)'
  BY DEF IInv, ThreadInv, CancelInv
<1>2. QueueInv(active, queued)' /\ AskedInv(threads, queued, asked)' /\ BoundInv(active)'
  BY DEF IInv, QueueInv, AskedInv, BoundInv, ActiveModels
<1>3. WorkConserving'
  BY DEF IInv, WorkConserving, ActiveModels
<1>4. CardHasActor'
  BY DEF IInv, CardHasActor
<1> QED
  BY <1>1, <1>2, <1>3, <1>4 DEF IInv

LEMMA InterruptStep ==
    ASSUME IInv, NEW m \in Models, Pause(m) \/ CancelActive(m)
    PROVE  IInv'
PROOF
<1>1. PICK by \in {"Paused", "Cancelled"}, s \in {"Paused", "Cancelling"} :
        /\ Click /\ active[m] # 0 /\ Interrupt(m, by)
        /\ card' = [card EXCEPT ![m] = s]
        /\ UNCHANGED <<coordinator, posted, dialog, rows, files, asked, faults, restarts>>
  BY DEF Pause, CancelActive
<1>2. /\ threads' \subseteq Thread
      /\ ThreadInv(active, threads, next_generation)'
      /\ CancelInv(threads)'
      /\ QueueInv(active, queued)'
      /\ AskedInv(threads, queued, asked)'
      /\ BoundInv(active)'
      /\ \A v \in threads : \E w \in threads' : w.kind = v.kind /\ w.model = v.model
  BY <1>1, InterruptKeeps DEF coordinator
<1>3. /\ TypeOK /\ ThreadInv(active, threads, next_generation)
      /\ WorkConserving /\ CardHasActor
  BY DEF IInv
<1>4. card' \in [Models -> Cards] /\ card'[m] = s /\ \A n \in Models \ {m} : card'[n] = card[n]
  BY <1>1, <1>3 DEF TypeOK, Cards
<1>5. TypeOK'
  BY <1>1, <1>2, <1>3, <1>4, ClickBound DEF TypeOK, coordinator, files
<1>6. WorkConserving'
  BY <1>1, <1>2, <1>3 DEF WorkConserving, ActiveModels, coordinator
<1>7. CardHasActor'
  <2>1. \E t \in threads' : t.model = m
    BY <1>1, <1>2, <1>3 DEF ThreadInv
  <2> SUFFICES ASSUME NEW n \in Models, ~(\E t \in threads' : t.model = n),
                      ~(\E d \in Members(posted) : d.model = n)
               PROVE  /\ card'[n] \notin {"Downloading", "Cancelling"}
                      /\ card'[n] = "Queued" => n \in Members(queued)
    BY <1>1 DEF CardHasActor, Members, coordinator
  <2>2. n # m /\ ~\E t \in threads : t.model = n
    BY <1>2, <2>1
  <2> QED
    BY <2>2, <1>3, <1>4 DEF CardHasActor
<1> QED
  BY <1>2, <1>5, <1>6, <1>7 DEF IInv

(* A launch begins with an idle coordinator.                               *)
LEMMA Launched ==
    ASSUME active = [m \in Models |-> 0], queued = <<>>, threads = {},
           \A m \in Models : card[m] \in {"NotDownloaded", "Paused", "Downloaded"},
           TypeOK
    PROVE  IInv
PROOF
<1>1. Len(queued) = 0 /\ 1..Len(queued) = {}
  OBVIOUS
<1>2. ThreadInv(active, threads, next_generation) /\ CancelInv(threads)
  BY DEF ThreadInv, CancelInv
<1>3. QueueInv(active, queued) /\ AskedInv(threads, queued, asked)
  BY <1>1 DEF QueueInv, AskedInv
<1>4. BoundInv(active)
  <2>1. ActiveModels(active) = {}
    BY DEF ActiveModels
  <2>2. Cardinality({}) = 0 /\ 0 <= MaxActive
    BY FS_EmptySet, DownloadAssumption
  <2>3. Cardinality(ActiveModels(active)) <= MaxActive
    BY ONLY <2>1, <2>2
  <2> QED
    BY ONLY <2>3 DEF BoundInv
<1>5. WorkConserving
  <2>1. (queued # <<>>) = FALSE
    OBVIOUS
  <2> QED
    BY <2>1, Zenon DEF WorkConserving
<1>6. CardHasActor
  <2>1. \A m \in Models : card[m] \notin {"Downloading", "Cancelling", "Queued"}
    OBVIOUS
  <2> QED
    BY <2>1 DEF CardHasActor
<1> QED
  BY <1>2, <1>3, <1>4, <1>5, <1>6 DEF IInv

LEMMA InitIInv == Init => IInv
PROOF
<1> SUFFICES ASSUME Init PROVE IInv
  OBVIOUS
<1>1. TypeOK
  BY DownloadAssumption DEF Init, TypeOK, Cards
<1> QED
  BY <1>1, Launched DEF Init

LEMMA RestartStep ==
    ASSUME IInv, Restart
    PROVE  IInv'
PROOF
<1>1. /\ active' = [m \in Models |-> 0] /\ queued' = <<>> /\ threads' = {}
      /\ next_generation' = 1 /\ posted' = <<>>
      /\ card' = [m \in Models |-> RestoredCard(m)]
      /\ dialog' = NoModel /\ rows' = rows \ installed /\ recorded' = installed
      /\ asked' = {} /\ restarts < MaxRestarts /\ restarts' = restarts + 1
      /\ UNCHANGED <<installed, partial, clicks, faults>>
  BY DEF Restart
<1>2. \A m \in Models : card'[m] \in {"NotDownloaded", "Paused", "Downloaded"}
  BY <1>1 DEF RestoredCard
<1>3. TypeOK'
  BY <1>1, DownloadAssumption DEF IInv, TypeOK, Cards, RestoredCard
<1>4. 1..Len(queued') = {}
  BY <1>1
<1>5. ThreadInv(active, threads, next_generation)' /\ CancelInv(threads)'
  BY <1>1 DEF ThreadInv, CancelInv
<1>6. QueueInv(active, queued)' /\ AskedInv(threads, queued, asked)'
  BY <1>1, <1>4 DEF QueueInv, AskedInv
<1>7. BoundInv(active)'
  <2>1. ActiveModels(active') = {}
    BY <1>1 DEF ActiveModels
  <2> QED
    BY <2>1, FS_EmptySet, DownloadAssumption DEF BoundInv
<1>8. WorkConserving' /\ CardHasActor'
  BY <1>1, <1>2 DEF WorkConserving, CardHasActor
<1> QED
  BY <1>3, <1>5, <1>6, <1>7, <1>8 DEF IInv

LEMMA ThreadMovesStep ==
    ASSUME IInv, NEW t \in threads,
           \/ BeginAttempt(t) \/ StopDownload(t) \/ FinishDownload(t)
           \/ DownloadFails(t) \/ PassLastCheck(t) \/ Activate(t) \/ Record(t)
           \/ Discard(t) \/ ClearRow(t)
    PROVE  IInv'
PROOF
<1>1. /\ \E u : Successor(t, u) /\ Goes(t, u)
      /\ UNCHANGED <<coordinator, page, asked, posted, clicks, restarts>>
      /\ rows' \subseteq Models /\ installed' \subseteq Models
      /\ recorded' \subseteq Models
      /\ partial' \in [Models -> {"none", "part", "full"}]
      /\ faults' \in 0..MaxFaults
  BY ThreadMoves
<1>2. PICK u : Successor(t, u) /\ Goes(t, u)
  BY <1>1
<1>3. UNCHANGED <<active, queued, next_generation, asked, posted, card>>
  BY <1>1 DEF coordinator, page
<1>4. /\ threads' \subseteq Thread
      /\ ThreadInv(active, threads, next_generation)'
      /\ CancelInv(threads)' /\ QueueInv(active, queued)'
      /\ AskedInv(threads, queued, asked)' /\ BoundInv(active)'
      /\ WorkConserving' /\ CardHasActor'
  BY <1>2, <1>3, ThreadGoes
<1>5. TypeOK'
  BY <1>1, <1>4 DEF IInv, TypeOK, coordinator, page
<1> QED
  BY <1>4, <1>5 DEF IInv

(* The invariant is inductive.                                             *)
LEMMA NextIInv == IInv /\ [Next]_vars => IInv'
PROOF
<1> SUFFICES ASSUME IInv, [Next]_vars PROVE IInv'
  OBVIOUS
<1>1. CASE UNCHANGED vars
  <2>1. TypeOK'
    BY <1>1 DEF vars, IInv, TypeOK
  <2> QED
    BY <2>1, <1>1, QuietStep DEF vars
<1>2. ASSUME NEW m \in Models, UserStep(m) PROVE IInv'
  <2>1. CASE Download(m) \/ DownloadWhileEnding(m)
    BY <2>1, DownloadStep, DownloadWhileEndingStep
  <2>2. CASE DownloadRefused(m)
    <3>1. TypeOK'
      BY <2>2, ClickBound DEF DownloadRefused, IInv, TypeOK, Cards, coordinator, files
    <3> QED
      BY <2>2, <3>1, QuietStep DEF DownloadRefused, IInv, TypeOK, coordinator
  <2>3. CASE Pause(m) \/ CancelActive(m)
    BY <2>3, InterruptStep
  <2>4. CASE CancelInactive(m)
    BY <2>4, CancelInactiveStep
  <2>5. CASE Delete(m)
    <3>1. TypeOK'
      BY <2>5, ClickBound DEF Delete, IInv, TypeOK, Cards, coordinator
    <3> QED
      BY <2>5, <3>1, QuietStep DEF Delete, IInv, TypeOK, coordinator
  <2>6. CASE DeleteFails(m)
    <3>1. TypeOK'
      BY <2>6, ClickBound DEF DeleteFails, IInv, TypeOK, coordinator, page
    <3> QED
      BY <2>6, <3>1, QuietStep DEF DeleteFails, coordinator, page
  <2> QED
    BY <1>2, <2>1, <2>2, <2>3, <2>4, <2>5, <2>6 DEF UserStep
<1>3. CASE Dismiss
  <2>1. TypeOK'
    BY <1>3 DEF Dismiss, IInv, TypeOK, coordinator, files, bounds
  <2> QED
    BY <1>3, <2>1, QuietStep DEF Dismiss, coordinator
<1>4. ASSUME NEW t \in threads, ThreadStep(t) PROVE IInv'
  BY <1>4, ThreadMovesStep, FinishStep, PostStep DEF ThreadStep
<1>5. CASE RunPosted
  BY <1>5, RunPostedStep
<1>6. CASE Restart
  BY <1>6, RestartStep
<1> QED
  BY <1>1, <1>2, <1>3, <1>4, <1>5, <1>6 DEF Next

LEMMA AlwaysIInv == Spec => []IInv
  BY InitIInv, NextIInv, PTL DEF Spec

-----------------------------------------------------------------------------
(* Type correctness of the coordinator, the threads, the page, the files   *)
(* and the database rows, of download.rs over model_installer.rs.          *)
THEOREM TypeCorrect == Spec => []TypeOK
PROOF
<1>1. IInv => TypeOK
  BY DEF IInv
<1> QED
  BY <1>1, AlwaysIInv, PTL

(* The download threads that hold a slot are exactly the active            *)
(* generations: finish, take_ready and enqueue neither leak a slot nor     *)
(* give one model two threads.                                             *)
THEOREM SlotsAgree == Spec => []SlotsAreThreads
PROOF
<1>1. ASSUME IInv PROVE SlotsAreThreads
  <2> SUFFICES ASSUME NEW m \in Models
               PROVE  {t.number : t \in {u \in ThreadsOf("download", m) : u.stage \in Holding}}
                        = {active[m]} \ {0}
    BY DEF SlotsAreThreads
  <2>1. \A t \in threads : t \in Thread /\ t.number # 0
    BY <1>1 DEF IInv, TypeOK, Thread
  <2>2. \A t \in ThreadsOf("download", m) : t.stage \in Holding => t.number = active[m]
    BY <1>1 DEF IInv, ThreadInv, ThreadsOf
  <2>3. active[m] # 0 => \E t \in ThreadsOf("download", m) :
                            t.stage \in Holding /\ t.number = active[m]
    BY <1>1 DEF IInv, ThreadInv, ThreadsOf
  <2> QED
    BY <2>1, <2>2, <2>3 DEF ThreadsOf
<1> QED
  BY <1>1, AlwaysIInv, PTL

(* take_ready never lets more than MAX_ACTIVE_DOWNLOADS download threads   *)
(* hold a slot.                                                            *)
THEOREM ActiveBounded == Spec => []AtMostMaxActive
PROOF
<1>1. ASSUME IInv PROVE AtMostMaxActive
  <2> DEFINE H == {t \in threads : t.kind = "download" /\ t.stage \in Holding}
             f == [t \in H |-> t.model]
             A == ActiveModels(active)
  <2>1. \A t \in H : t.model \in Models /\ active[t.model] = t.number /\ t.number # 0
    BY <1>1 DEF IInv, TypeOK, ThreadInv, Thread
  <2>2. f \in Injection(H, A)
    <3>1. f \in [H -> A]
      BY <2>1 DEF ActiveModels
    <3>2. \A t, u \in H : f[t] = f[u] => t = u
      BY <2>1, <1>1 DEF IInv, ThreadInv
    <3> QED
      BY <3>1, <3>2 DEF Injection, IsInjective
  <2>3. IsFiniteSet(A) /\ Cardinality(A) \in Nat
    BY DownloadAssumption, FS_Subset, FS_CardinalityType DEF ActiveModels
  <2>4. IsFiniteSet(H) /\ Cardinality(H) <= Cardinality(A)
    BY <2>2, <2>3, FS_Injection
  <2>5. Cardinality(H) \in Nat /\ Cardinality(A) <= MaxActive /\ MaxActive \in Nat
    BY <1>1, <2>4, FS_CardinalityType, DownloadAssumption DEF IInv, BoundInv
  <2> HIDE DEF A, H
  <2>6. Cardinality(H) <= MaxActive
    BY <2>3, <2>4, <2>5
  <2> QED
    BY <2>6 DEF AtMostMaxActive, H
<1> QED
  BY <1>1, AlwaysIInv, PTL

(* A card that shows a transfer, a cancellation or a wait always has the   *)
(* thread, the closure or the queue entry that will change it.             *)
THEOREM CardsHaveActors == Spec => []CardHasActor
PROOF
<1>1. IInv => CardHasActor
  BY DEF IInv
<1> QED
  BY <1>1, AlwaysIInv, PTL

(* restore_queue begins no transfer: whatever waits or downloads was asked *)
(* for since the launch.                                                   *)
THEOREM OnlyAskedDownloads == Spec => []NoSilentTransfer
PROOF
<1>1. ASSUME IInv PROVE NoSilentTransfer
  <2>1. DOMAIN queued = 1..Len(queued)
    BY <1>1, LenProperties DEF IInv, TypeOK
  <2>2. AskedInv(threads, queued, asked)
    BY <1>1 DEF IInv
  <2>3. \A n \in Members(queued) : n \in asked
    BY <2>1, <2>2 DEF AskedInv, Members
  <2> QED
    BY <2>2, <2>3 DEF AskedInv, NoSilentTransfer
<1> QED
  BY <1>1, AlwaysIInv, PTL

(* start_ready is called wherever a slot or a queue entry appears: nobody  *)
(* waits while a slot is free and nothing is on its way to hand it out.    *)
THEOREM SlotsAreHandedOut == Spec => []WorkConserving
PROOF
<1>1. IInv => WorkConserving
  BY DEF IInv
<1> QED
  BY <1>1, AlwaysIInv, PTL

(* Slots go first in, first out: enqueue appends, take_ready takes from    *)
(* the front, and nothing else fills a slot.                               *)
THEOREM StartsInOrder == Spec => FirstInFirstOut
PROOF
<1> DEFINE Order == \A m \in Models : active[m] = 0 /\ active'[m] # 0 =>
               \A i \in DOMAIN queued : queued[i] \in Members(queued') =>
                   \E j \in 1..(i - 1) : queued[j] = m
<1>1. ASSUME IInv, [Next]_vars PROVE [Order]_vars
  <2> SUFFICES ASSUME NEW m \in Models, active[m] = 0, active'[m] # 0,
                      NEW i \in DOMAIN queued, queued[i] \in Members(queued')
               PROVE  \E j \in 1..(i - 1) : queued[j] = m
    OBVIOUS
  <2>1. /\ TypeOK /\ BoundInv(active) /\ QueueInv(active, queued) /\ CancelInv(threads)
        /\ ThreadInv(active, threads, next_generation) /\ AskedInv(threads, queued, asked)
        /\ threads \subseteq Thread /\ asked \in SUBSET Models
        /\ queued \in Seq(Models) /\ DOMAIN queued = 1..Len(queued)
        /\ i \in 1..Len(queued) /\ active \in Slots
    BY <1>1, LenProperties DEF IInv, TypeOK, Slots
  <2>2. ASSUME NEW n \in Models, Download(n)
        PROVE  \E j \in 1..(i - 1) : queued[j] = m
    <3> DEFINE q == Enqueued(n)
               crd == [card EXCEPT ![n] = "Queued"]
    <3>1. StartReady(active, q, threads, crd, NoModel) /\ asked' = asked \cup {n}
      BY <2>2 DEF Download
    <3>2. /\ q \in Seq(Models) /\ QueueInv(active, q)
          /\ Len(queued) <= Len(q)
          /\ \A k \in 1..Len(queued) : q[k] = queued[k]
          /\ \A k \in 1..Len(q) : q[k] = n \/ \E j \in 1..Len(queued) : q[k] = queued[j]
      BY <2>1, EnqueuedQueue
    <3>3. crd \in [Models -> Cards] /\ NoModel \in Models \cup {NoModel}
      BY <2>1 DEF TypeOK, Cards
    <3> HIDE DEF q, crd
    <3>4. /\ Len(q) \in Nat /\ Len(queued) \in Nat /\ i \in 1..Len(q) /\ q[i] = queued[i]
      BY <2>1, <3>2, LenProperties
    <3>5. AskedInv(threads, q, asked \cup {n}) /\ asked \cup {n} \in SUBSET Models
      BY <2>1, <3>2 DEF AskedInv
    <3>9. /\ active \in Slots /\ threads \subseteq Thread
          /\ ThreadInv(active, threads, next_generation)
          /\ CancelInv(threads) /\ AskedInv(threads, q, asked \cup {n})
          /\ q \in Seq(Models) /\ QueueInv(active, q) /\ BoundInv(active) /\ TypeOK
          /\ asked \cup {n} \in SUBSET Models
          /\ StartReady(active, q, threads, crd, NoModel)
      BY ONLY <2>1, <3>1, <3>2, <3>5
    <3>10. \A k \in Models : active[k] = 0 /\ active'[k] # 0 =>
             \A j \in 1..Len(q) : q[j] \in Members(queued') =>
                 \E l \in 1..(j - 1) : q[l] = k
      BY <3>3, <3>9, StartReadyPreserves
    <3>6. \A k \in 1..Len(q) : q[k] \in Members(queued') => \E j \in 1..(k - 1) : q[j] = m
      BY <3>10
    <3>7. PICK j \in 1..(i - 1) : q[j] = m
      BY <3>4, <3>6
    <3>8. j \in 1..Len(queued)
      BY <2>1, <3>4
    <3> QED
      BY <3>2, <3>7, <3>8
  <2>5. ASSUME NEW n \in Models, DownloadWhileEnding(n)
        PROVE  \E j \in 1..(i - 1) : queued[j] = m
    <3> DEFINE crd == [card EXCEPT ![n] = "Queued"]
    <3>1. PICK t \in threads :
            /\ t.kind = "download" /\ t.model = n /\ t.stage = "ending"
            /\ StartReady([active EXCEPT ![n] = 0], queued, Slotless(t), crd, NoModel)
      BY <2>5 DEF DownloadWhileEnding
    <3>2. crd \in [Models -> Cards] /\ NoModel \in Models \cup {NoModel}
      BY <2>1 DEF TypeOK, Cards
    <3> HIDE DEF crd
    <3> DEFINE act == [active EXCEPT ![t.model] = 0]
    <3>3. StartReady(act, queued, Slotless(t), crd, NoModel) /\ act[m] = 0
      BY <2>1, <3>1 DEF Slots
    <3> HIDE DEF act
    <3>4. /\ act \in Slots /\ Slotless(t) \subseteq Thread
          /\ ThreadInv(act, Slotless(t), next_generation)
          /\ CancelInv(Slotless(t)) /\ AskedInv(Slotless(t), queued, asked)
          /\ QueueInv(act, queued) /\ BoundInv(act)
      BY <1>1, <3>1, SlotBack DEF act
    <3>5. \A k \in Models : act[k] = 0 /\ active'[k] # 0 =>
             \A j \in 1..Len(queued) : queued[j] \in Members(queued') =>
                 \E l \in 1..(j - 1) : queued[l] = k
      BY <2>1, <3>2, <3>3, <3>4, StartReadyPreserves
    <3> QED
      BY <2>1, <3>3, <3>5
  <2>3. ASSUME RunPosted
        PROVE  \E j \in 1..(i - 1) : queued[j] = m
    <3> DEFINE c == Head(posted)
               crd == [card EXCEPT ![c.model] = CardAfter(c.completion)]
               dlg == DialogAfter(c.model, c.completion)
    <3>1. StartReady(active, queued, threads, crd, dlg) \/ UNCHANGED active
      BY <2>3, Zenon DEF RunPosted, coordinator
    <3>2. c \in Closure
      BY <2>1, <2>3, HeadTailProperties, ElementOfSeq, LenProperties, EmptySeq
         DEF TypeOK, RunPosted
    <3>3. crd \in [Models -> Cards] /\ dlg \in Models \cup {NoModel}
      BY <2>1, <3>2 DEF TypeOK, Cards, Closure, Completions, CardAfter, DialogAfter
    <3> HIDE DEF c, crd, dlg
    <3>4. StartReady(active, queued, threads, crd, dlg)
      BY <3>1
    <3>6. /\ active \in Slots /\ threads \subseteq Thread
          /\ ThreadInv(active, threads, next_generation)
          /\ CancelInv(threads) /\ AskedInv(threads, queued, asked)
          /\ queued \in Seq(Models) /\ QueueInv(active, queued) /\ BoundInv(active)
          /\ TypeOK /\ asked \in SUBSET Models
      BY ONLY <2>1
    <3>5. \A n \in Models : active[n] = 0 /\ active'[n] # 0 =>
             \A k \in 1..Len(queued) : queued[k] \in Members(queued') =>
                 \E j \in 1..(k - 1) : queued[j] = n
      BY <3>3, <3>4, <3>6, StartReadyPreserves
    <3> QED
      BY <2>1, <3>5
  <2>4. CASE ~(\E n \in Models : Download(n) \/ DownloadWhileEnding(n)) /\ ~RunPosted
    <3>1. \A k \in Models : active'[k] = active[k] \/ active'[k] = 0
      <4>1. ASSUME NEW n \in Models, UserStep(n) PROVE UNCHANGED active
        BY <2>4, <4>1 DEF UserStep, DownloadRefused, Pause, CancelActive,
              CancelInactive, Delete, DeleteFails, coordinator
      <4>2. ASSUME NEW t \in threads, ThreadStep(t)
            PROVE  UNCHANGED active \/ Finish(t)
        BY <1>1, <4>2, ThreadMoves DEF ThreadStep, Post, ThreadKeeps, coordinator
      <4>3. ASSUME NEW t \in threads, Finish(t)
            PROVE  \A k \in Models : active'[k] = active[k] \/ active'[k] = 0
        BY <2>1, <4>3 DEF Finish, Slots
      <4>4. Dismiss \/ UNCHANGED vars => UNCHANGED active
        BY DEF Dismiss, vars, coordinator
      <4>5. Restart => \A k \in Models : active'[k] = 0
        BY DEF Restart
      <4> QED
        BY <1>1, <2>4, <4>1, <4>2, <4>3, <4>4, <4>5 DEF Next
    <3> QED
      BY <3>1
  <2> QED
    BY <2>2, <2>3, <2>4, <2>5
<1>2. Spec => [][Order]_vars
  BY <1>1, AlwaysIInv, PTL DEF Spec
<1> QED
  BY <1>2 DEF FirstInFirstOut

(***************************************************************************)
(* The recognition.                                                        *)
(***************************************************************************)
-----------------------------------------------------------------------------
(* Loops: what is computed step by step exists.                            *)

\* The least number of some.
LEMMA LeastOf ==
    ASSUME NEW N, N \subseteq Nat, N # {}
    PROVE  \E k \in N : \A j \in N : k <= j
<1>1. PICK k \in N : \A j \in N : <<j, k>> \notin OpToRel(<, Nat)
    BY WFMin, NatLessThanWellFounded
<1>2. \A j \in N : ~(j < k)
    BY <1>1 DEF OpToRel
<1> QED
    BY <1>2

\* What holds at first and from each number to the next holds up to the last.
LEMMA OneByOne ==
    ASSUME NEW n \in Nat, NEW good, 0 \in good,
           \A k \in 1..n : k - 1 \in good => k \in good
    PROVE  \A k \in 0..n : k \in good
<1> DEFINE bad == {k \in 0..n : k \notin good}
<1> SUFFICES ASSUME bad # {}
             PROVE  FALSE
    OBVIOUS
<1>1. bad \subseteq Nat
    OBVIOUS
<1>2. PICK k \in bad : \A j \in bad : k <= j
    BY <1>1, LeastOf
<1>3. k # 0 /\ k \in 0..n
    OBVIOUS
<1>4. k \in 1..n /\ k - 1 \in 0..n /\ ~(k <= k - 1)
    BY <1>3
<1> QED
    BY <1>2, <1>4

\* f is what the steps make of the base.
Loop(f, V, base, n, step) ==
    /\ f \in [0..n -> V] /\ f[0] = base
    /\ \A k \in 1..n : f[k] = step[k][f[k - 1]]

\* A loop over finitely many steps has a run.
LEMMA LoopExists ==
    ASSUME NEW V, NEW base \in V, NEW n \in Nat, NEW step \in [1..n -> [V -> V]]
    PROVE  \E f : Loop(f, V, base, n, step)
<1> DEFINE Made(m) == \E f \in [0..m -> V] : /\ f[0] = base
                                             /\ \A k \in 1..m : f[k] = step[k][f[k - 1]]
           bad == {m \in Nat : m <= n /\ ~Made(m)}
<1>1. Made(0)
    <2>1. [k \in 0..0 |-> base] \in [0..0 -> V] /\ [k \in 0..0 |-> base][0] = base
        OBVIOUS
    <2>2. 1..0 = {}
        OBVIOUS
    <2> QED
        BY <2>1, <2>2
<1>2. ASSUME NEW m \in Nat, m < n, Made(m)
      PROVE  Made(m + 1)
    <2>1. PICK f \in [0..m -> V] : /\ f[0] = base
                                   /\ \A k \in 1..m : f[k] = step[k][f[k - 1]]
        BY <1>2
    <2> DEFINE g == [k \in 0..(m + 1) |-> IF k <= m THEN f[k] ELSE step[m + 1][f[m]]]
    <2>2. step[m + 1] \in [V -> V] /\ f[m] \in V
        BY <1>2
    <2>3. step[m + 1][f[m]] \in V
        BY <2>2
    <2>4. g \in [0..(m + 1) -> V]
        BY <2>3
    <2>5. \A k \in 0..m : g[k] = f[k]
        OBVIOUS
    <2>6. g[m + 1] = step[m + 1][f[m]]
        OBVIOUS
    <2> HIDE DEF g
    <2>7. \A k \in 1..(m + 1) : g[k] = step[k][g[k - 1]]
        <3> SUFFICES ASSUME NEW k \in 1..(m + 1)
                     PROVE  g[k] = step[k][g[k - 1]]
            OBVIOUS
        <3>1. CASE k = m + 1
            <4>1. k - 1 = m /\ m \in 0..m
                BY <3>1
            <4> QED
                BY <3>1, <4>1, <2>5, <2>6
        <3>2. CASE k # m + 1
            <4>1. k \in 1..m /\ k \in 0..m /\ k - 1 \in 0..m
                BY <3>2
            <4> QED
                BY <4>1, <2>1, <2>5
        <3> QED
            BY <3>1, <3>2
    <2>8. g[0] = base
        BY <2>1, <2>5
    <2> QED
        BY <2>4, <2>7, <2>8
<1> HIDE DEF Made
<1>3. bad = {}
    <2> SUFFICES ASSUME bad # {}
                 PROVE  FALSE
        OBVIOUS
    <2>1. PICK k \in bad : \A j \in bad : k <= j
        BY LeastOf
    <2>2. k # 0
        BY <1>1
    <2>3. k - 1 \in Nat /\ k - 1 < n /\ ~(k <= k - 1)
        BY <2>2
    <2>4. Made(k - 1)
        BY <2>1, <2>3
    <2>5. Made(k)
        BY <2>3, <2>4, <1>2
    <2> QED
        BY <2>5
<1>4. Made(n)
    BY <1>3
<1> QED
    BY <1>4 DEF Made, Loop

-----------------------------------------------------------------------------
(* Texts as sets of units: an ascending sequence is known by its elements. *)
Ascending(w) == \A i, j \in DOMAIN w : i < j => w[i] < w[j]
Says(w, S) == w \in Seq(Nat) /\ Ascending(w) /\ Range(w) = S

\* What the elements of a text that says S are.
LEMMA SaysIs ==
    ASSUME NEW w, NEW S, Says(w, S)
    PROVE  /\ w \in Seq(Nat) /\ Len(w) \in Nat /\ DOMAIN w = 1..Len(w)
           /\ \A i \in 1..Len(w) : w[i] \in S /\ w[i] \in Nat
           /\ \A i, j \in 1..Len(w) : i < j => w[i] < w[j]
           /\ \A u \in S : \E i \in 1..Len(w) : w[i] = u
<1>1. w \in Seq(Nat) /\ Len(w) \in Nat /\ DOMAIN w = 1..Len(w)
    BY LenProperties DEF Says
<1>2. \A i \in 1..Len(w) : w[i] \in Nat
    BY <1>1, ElementOfSeq
<1> QED
    BY <1>1, <1>2 DEF Says, Ascending, Range

\* A text of ascending units says the set of its units.
LEMMA SaysIntro ==
    ASSUME NEW w \in Seq(Nat), NEW S,
           \A i \in 1..Len(w) : w[i] \in S,
           \A i, j \in 1..Len(w) : i < j => w[i] < w[j],
           \A u \in S : \E i \in 1..Len(w) : w[i] = u
    PROVE  Says(w, S)
<1>1. DOMAIN w = 1..Len(w)
    BY LenProperties
<1> QED
    BY <1>1 DEF Says, Ascending, Range

\* Two that have the same elements agree as far as the first goes.
LEMMA AgreeUpTo ==
    ASSUME NEW v, NEW w, NEW S, Says(v, S), Says(w, S)
    PROVE  Len(v) <= Len(w) /\ \A k \in 1..Len(v) : v[k] = w[k]
<1> DEFINE bad == {k \in 1..Len(v) : ~(k <= Len(w) /\ v[k] = w[k])}
<1>1. /\ Len(v) \in Nat /\ \A i \in 1..Len(v) : v[i] \in S /\ v[i] \in Nat
      /\ \A i, j \in 1..Len(v) : i < j => v[i] < v[j]
      /\ \A u \in S : \E i \in 1..Len(v) : v[i] = u
    BY SaysIs
<1>2. /\ Len(w) \in Nat /\ \A i \in 1..Len(w) : w[i] \in S /\ w[i] \in Nat
      /\ \A i, j \in 1..Len(w) : i < j => w[i] < w[j]
      /\ \A u \in S : \E i \in 1..Len(w) : w[i] = u
    BY SaysIs
<1>3. bad = {}
    <2> SUFFICES ASSUME bad # {}
                 PROVE  FALSE
        OBVIOUS
    <2>1. bad \subseteq Nat
        BY <1>1
    <2>2. PICK k \in bad : \A j \in bad : k <= j
        BY <2>1, LeastOf
    <2>3. k \in 1..Len(v) /\ k \in Nat
        BY <1>1
    <2>4. \A i \in 1..Len(v) : i < k => i <= Len(w) /\ v[i] = w[i]
        <3> SUFFICES ASSUME NEW i \in 1..Len(v), i < k
                     PROVE  i <= Len(w) /\ v[i] = w[i]
            OBVIOUS
        <3>1. ~(k <= i)
            BY <2>3, <1>1
        <3> QED
            BY <3>1, <2>2
    <2>5. PICK j \in 1..Len(w) : w[j] = v[k]
        BY <1>1, <1>2, <2>3
    <2>6. ~(j < k)
        <3> SUFFICES ASSUME j < k
                     PROVE  FALSE
            OBVIOUS
        <3>1. j \in 1..Len(v) /\ j \in Nat
            BY <2>3, <1>1, <1>2
        <3>2. v[j] < v[k] /\ v[j] = w[j]
            BY <3>1, <2>3, <2>4, <1>1
        <3>3. v[k] \in Nat
            BY <2>3, <1>1
        <3> QED
            BY <3>2, <3>3, <2>5
    <2>7. k \in 1..Len(w) /\ k <= Len(w)
        BY <2>3, <2>5, <2>6, <1>2
    <2>8. PICK m \in 1..Len(v) : v[m] = w[k]
        BY <1>1, <1>2, <2>7
    <2>9. ~(m < k)
        <3> SUFFICES ASSUME m < k
                     PROVE  FALSE
            OBVIOUS
        <3>1. v[m] = w[m] /\ m \in 1..Len(w)
            BY <2>4, <1>1, <1>2
        <3>2. w[m] < w[k] /\ w[k] \in Nat
            BY <3>1, <2>7, <1>2
        <3> QED
            BY <3>1, <3>2, <2>8
    <2>10. v[k] # w[k]
        BY <2>7, <2>2
    <2>11. k < j /\ k < m
        <3>1. j \in Nat /\ m \in Nat /\ j # k /\ m # k
            BY <2>5, <2>8, <2>10, <1>1, <1>2
        <3> QED
            BY <3>1, <2>3, <2>6, <2>9
    <2>12. w[k] < w[j] /\ v[k] < v[m]
        BY <2>11, <2>7, <2>3, <1>1, <1>2
    <2>13. w[k] \in Nat /\ v[k] \in Nat
        BY <2>3, <2>7, <1>1, <1>2
    <2> QED
        BY <2>12, <2>13, <2>5, <2>8
<1>4. \A k \in 1..Len(v) : k <= Len(w) /\ v[k] = w[k]
    BY <1>3
<1>5. Len(v) <= Len(w)
    <2>1. CASE Len(v) = 0
        BY <2>1, <1>2
    <2>2. CASE Len(v) # 0
        <3>1. Len(v) \in 1..Len(v)
            BY <2>2, <1>1
        <3> QED
            BY <3>1, <1>4
    <2> QED
        BY <2>1, <2>2
<1> QED
    BY <1>4, <1>5

\* Two texts that say the same units are the same text.
LEMMA SaidOnce ==
    ASSUME NEW v, NEW w, NEW S, Says(v, S), Says(w, S)
    PROVE  v = w
<1>1. v \in Seq(Nat) /\ w \in Seq(Nat) /\ Len(v) \in Nat /\ Len(w) \in Nat
    BY SaysIs
<1>2. Len(v) <= Len(w) /\ Len(w) <= Len(v) /\ \A k \in 1..Len(v) : v[k] = w[k]
    BY AgreeUpTo
<1>3. Len(v) = Len(w)
    BY <1>1, <1>2
<1> QED
    BY <1>1, <1>2, <1>3, SeqEqual

\* The empty text says nothing.
LEMMA NothingSaid == Says(<<>>, {})
<1>1. <<>> \in Seq(Nat) /\ DOMAIN <<>> = {}
    BY EmptySeq, LenProperties
<1> QED
    BY <1>1 DEF Says, Ascending, Range

\* What is said earlier and what is said later, one after the other.
LEMMA JoinSays ==
    ASSUME NEW v, NEW w, NEW S, NEW T, Says(v, S), Says(w, T),
           \A s \in S, t \in T : s < t
    PROVE  Says(v \o w, S \cup T)
<1>1. /\ v \in Seq(Nat) /\ Len(v) \in Nat /\ \A i \in 1..Len(v) : v[i] \in S /\ v[i] \in Nat
      /\ \A i, j \in 1..Len(v) : i < j => v[i] < v[j]
      /\ \A u \in S : \E i \in 1..Len(v) : v[i] = u
    BY SaysIs
<1>2. /\ w \in Seq(Nat) /\ Len(w) \in Nat /\ \A i \in 1..Len(w) : w[i] \in T /\ w[i] \in Nat
      /\ \A i, j \in 1..Len(w) : i < j => w[i] < w[j]
      /\ \A u \in T : \E i \in 1..Len(w) : w[i] = u
    BY SaysIs
<1> DEFINE z == v \o w
<1>3. /\ z \in Seq(Nat) /\ Len(z) = Len(v) + Len(w)
      /\ \A i \in 1..(Len(v) + Len(w)) : z[i] = IF i <= Len(v) THEN v[i] ELSE w[i - Len(v)]
    BY <1>1, <1>2, ConcatProperties
<1> HIDE DEF z
<1>4. \A i \in 1..Len(z) : \/ i \in 1..Len(v) /\ z[i] = v[i]
                           \/ i - Len(v) \in 1..Len(w) /\ ~(i <= Len(v)) /\ z[i] = w[i - Len(v)]
    BY <1>1, <1>2, <1>3
<1>5. \A i \in 1..Len(z) : z[i] \in S \cup T
    BY <1>1, <1>2, <1>4
<1>6. ASSUME NEW i \in 1..Len(z), NEW j \in 1..Len(z), i < j
      PROVE  z[i] < z[j]
    <2>1. CASE j \in 1..Len(v)
        <3>1. i \in 1..Len(v) /\ i <= Len(v)
            BY <2>1, <1>6, <1>1, <1>2, <1>3
        <3>2. z[i] = v[i] /\ z[j] = v[j]
            BY <3>1, <2>1, <1>3, <1>4, <1>1
        <3> QED
            BY <3>1, <3>2, <2>1, <1>1, <1>6
    <2>2. CASE j \notin 1..Len(v)
        <3>1. j - Len(v) \in 1..Len(w) /\ z[j] = w[j - Len(v)]
            BY <2>2, <1>4
        <3>2. CASE i \in 1..Len(v)
            <4>1. z[i] = v[i]
                BY <3>2, <1>1, <1>4
            <4> QED
                BY <4>1, <3>1, <3>2, <1>1, <1>2
        <3>3. CASE i \notin 1..Len(v)
            <4>1. i - Len(v) \in 1..Len(w) /\ z[i] = w[i - Len(v)]
                BY <3>3, <1>4
            <4>2. i - Len(v) < j - Len(v)
                BY <1>6, <1>1, <1>2, <1>3
            <4> QED
                BY <4>1, <4>2, <3>1, <1>2
        <3> QED
            BY <3>2, <3>3
    <2> QED
        BY <2>1, <2>2
<1>7. ASSUME NEW u \in S \cup T
      PROVE  \E i \in 1..Len(z) : z[i] = u
    <2>1. CASE u \in S
        <3>1. PICK i \in 1..Len(v) : v[i] = u
            BY <2>1, <1>1
        <3>2. i \in 1..Len(z) /\ i <= Len(v)
            BY <1>1, <1>2, <1>3
        <3> QED
            BY <3>1, <3>2, <1>3
    <2>2. CASE u \in T
        <3>1. PICK i \in 1..Len(w) : w[i] = u
            BY <2>2, <1>2
        <3>2. Len(v) + i \in 1..Len(z) /\ ~(Len(v) + i <= Len(v)) /\ (Len(v) + i) - Len(v) = i
            <4>1. Len(v) \in Nat /\ Len(w) \in Nat /\ i \in Nat /\ 1 <= i /\ i <= Len(w)
                BY <1>1, <1>2
            <4>2. Len(z) = Len(v) + Len(w)
                BY <1>3
            <4> HIDE DEF z
            <4> QED
                BY <4>1, <4>2
        <3> QED
            BY <3>1, <3>2, <1>3
    <2> QED
        BY <2>1, <2>2
<1> QED
    BY <1>3, <1>5, <1>6, <1>7, SaysIntro DEF z

-----------------------------------------------------------------------------
(* Audio without a gap, and the words in it.                               *)
Piece(a, b) == [i \in 1..(b - a) |-> a + i]
Spoken(a, b) == {u \in Nat : a < u /\ u <= b /\ u \notin quiet}

\* A piece of a recording is a text of its own length.
LEMMA PieceIs ==
    ASSUME NEW a \in Nat, NEW b \in Nat, a <= b
    PROVE  /\ Piece(a, b) \in Seq(Nat) /\ Len(Piece(a, b)) = b - a
           /\ \A i \in 1..(b - a) : Piece(a, b)[i] = a + i
<1>1. b - a \in Nat /\ \A i \in 1..(b - a) : a + i \in Nat
    OBVIOUS
<1>2. Piece(a, b) \in [1..(b - a) -> Nat]
    BY <1>1 DEF Piece
<1>3. Piece(a, b) \in Seq(Nat)
    BY <1>1, <1>2, SeqDef
<1>4. Len(Piece(a, b)) = b - a
    BY <1>1, <1>2, <1>3, LenProperties
<1> QED
    BY <1>3, <1>4 DEF Piece

\* The piece from the beginning is the recording up to there.
LEMMA WholeIs ==
    ASSUME NEW n \in Nat
    PROVE  /\ Piece(0, n) \in Seq(Nat) /\ Len(Piece(0, n)) = n
           /\ \A i \in 1..n : Piece(0, n)[i] = i
<1>1. 0 \in Nat /\ 0 <= n /\ n - 0 = n /\ \A i \in 1..n : 0 + i = i
    OBVIOUS
<1>2. /\ Piece(0, n) \in Seq(Nat) /\ Len(Piece(0, n)) = n - 0
      /\ \A i \in 1..(n - 0) : Piece(0, n)[i] = 0 + i
    BY <1>1, PieceIs
<1> QED
    BY <1>1, <1>2

\* The units of a piece.
LEMMA PieceOf ==
    ASSUME NEW s \in Seq(Nat), NEW a \in Nat, NEW b \in Nat, a <= b, Len(s) = b - a,
           \A i \in 1..(b - a) : s[i] = a + i
    PROVE  s = Piece(a, b)
<1>1. /\ Piece(a, b) \in Seq(Nat) /\ Len(Piece(a, b)) = b - a
      /\ \A i \in 1..(b - a) : Piece(a, b)[i] = a + i
    BY PieceIs
<1> QED
    BY <1>1, SeqEqual

\* Two pieces that meet are one piece.
LEMMA PiecesJoin ==
    ASSUME NEW a \in Nat, NEW b \in Nat, NEW c \in Nat, a <= b, b <= c
    PROVE  Piece(a, b) \o Piece(b, c) = Piece(a, c)
<1>1. /\ Piece(a, b) \in Seq(Nat) /\ Len(Piece(a, b)) = b - a
      /\ \A i \in 1..(b - a) : Piece(a, b)[i] = a + i
    BY PieceIs
<1>2. /\ Piece(b, c) \in Seq(Nat) /\ Len(Piece(b, c)) = c - b
      /\ \A i \in 1..(c - b) : Piece(b, c)[i] = b + i
    BY PieceIs
<1> DEFINE s == Piece(a, b) \o Piece(b, c)
<1>3. /\ s \in Seq(Nat) /\ Len(s) = Len(Piece(a, b)) + Len(Piece(b, c))
      /\ \A i \in 1..(Len(Piece(a, b)) + Len(Piece(b, c))) :
            s[i] = IF i <= Len(Piece(a, b)) THEN Piece(a, b)[i]
                   ELSE Piece(b, c)[i - Len(Piece(a, b))]
    BY <1>1, <1>2, ConcatProperties
<1> HIDE DEF s
<1>4. Len(s) = c - a
    BY <1>1, <1>2, <1>3
<1>5. ASSUME NEW i \in 1..(c - a)
      PROVE  s[i] = a + i
    <2>1. CASE i <= b - a
        <3>1. i \in 1..(b - a) /\ i \in 1..(Len(Piece(a, b)) + Len(Piece(b, c)))
            BY <2>1, <1>1, <1>2
        <3> QED
            BY <2>1, <3>1, <1>1, <1>3
    <2>2. CASE ~(i <= b - a)
        <3>1. /\ i - (b - a) \in 1..(c - b)
              /\ i \in 1..(Len(Piece(a, b)) + Len(Piece(b, c)))
              /\ b + (i - (b - a)) = a + i
            BY <2>2, <1>1, <1>2
        <3>2. s[i] = Piece(b, c)[i - (b - a)]
            BY <3>1, <2>2, <1>1, <1>3
        <3> QED
            BY <3>1, <3>2, <1>2
    <2> QED
        BY <2>1, <2>2
<1>6. s = Piece(a, c)
    BY <1>3, <1>4, <1>5, PieceOf
<1> QED
    BY <1>6 DEF s

\* A part of a piece is a piece.
LEMMA PartOfPiece ==
    ASSUME NEW a \in Nat, NEW b \in Nat, a <= b,
           NEW m \in Nat, NEW n \in Nat, m <= n, n <= b - a
    PROVE  SubSeq(Piece(a, b), m + 1, n) = Piece(a + m, a + n)
<1>1. /\ Piece(a, b) \in Seq(Nat) /\ Len(Piece(a, b)) = b - a
      /\ \A i \in 1..(b - a) : Piece(a, b)[i] = a + i
    BY PieceIs
<1> DEFINE p == Piece(a, b)
           s == SubSeq(p, m + 1, n)
<1>2. p \in Seq(Nat) /\ Len(p) = b - a /\ \A i \in 1..(b - a) : p[i] = a + i
    BY <1>1
<1> HIDE DEF p
<1>3. /\ s \in Seq(Nat) /\ Len(s) = n - m
      /\ \A i \in 1..(n - m) : s[i] = p[m + i]
    <2>1. m + 1 \in Int /\ n \in Int
        OBVIOUS
    <2>2. CASE m = n
        <3>1. s = <<>>
            BY <2>2, <1>2, SubSeqProperties
        <3>2. 1..(n - m) = {}
            BY <2>2
        <3> QED
            BY <3>1, <3>2, <2>2, EmptySeq
    <2>3. CASE m < n
        <3>1. \A i \in (m + 1)..n : p[i] \in Nat
            BY <1>2
        <3>2. s = [i \in 1..(n - m) |-> p[m + i]]
            <4>1. s = [i \in 1..(1 + n - (m + 1)) |-> p[i + (m + 1) - 1]]
                BY <2>3, <1>2 DEF SubSeq
            <4>2. 1 + n - (m + 1) = n - m /\ \A i \in 1..(n - m) : i + (m + 1) - 1 = m + i
                OBVIOUS
            <4> QED
                BY <4>1, <4>2
        <3>3. \A i \in 1..(n - m) : p[m + i] \in Nat
            BY <1>2
        <3> DEFINE t == [i \in 1..(n - m) |-> p[m + i]]
        <3>6. t \in [1..(n - m) -> Nat] /\ n - m \in Nat
            BY <3>3
        <3>7. s = t
            BY <3>2
        <3> HIDE DEF s, t
        <3>4. s \in [1..(n - m) -> Nat] /\ n - m \in Nat
            BY <3>6, <3>7
        <3>5. s \in Seq(Nat)
            BY <3>4, SeqDef
        <3> QED
            BY <3>2, <3>4, <3>5, LenProperties
    <2> QED
        BY <2>2, <2>3
<1> HIDE DEF s
<1>4. \A i \in 1..((a + n) - (a + m)) : s[i] = (a + m) + i
    <2> SUFFICES ASSUME NEW i \in 1..((a + n) - (a + m))
                 PROVE  s[i] = (a + m) + i
        OBVIOUS
    <2>1. i \in 1..(n - m) /\ m + i \in 1..(b - a) /\ a + (m + i) = (a + m) + i
        OBVIOUS
    <2> QED
        BY <2>1, <1>2, <1>3
<1>5. Len(s) = (a + n) - (a + m) /\ a + n \in Nat /\ a + m \in Nat /\ a + m <= a + n
    BY <1>3
<1>6. s = Piece(a + m, a + n)
    BY <1>3, <1>4, <1>5, PieceOf
<1> QED
    BY <1>6 DEF s, p

\* A later unit at the end of a text is said after it.
LEMMA AppendSays ==
    ASSUME NEW v, NEW S, Says(v, S), NEW u \in Nat, \A s \in S : s < u
    PROVE  Says(Append(v, u), S \cup {u})
<1>1. /\ v \in Seq(Nat) /\ Len(v) \in Nat /\ \A i \in 1..Len(v) : v[i] \in S /\ v[i] \in Nat
      /\ \A i, j \in 1..Len(v) : i < j => v[i] < v[j]
      /\ \A x \in S : \E i \in 1..Len(v) : v[i] = x
    BY SaysIs
<1> DEFINE z == Append(v, u)
<1>2. /\ z \in Seq(Nat) /\ Len(z) = Len(v) + 1 /\ z[Len(v) + 1] = u
      /\ \A i \in 1..Len(v) : z[i] = v[i]
    BY <1>1, AppendProperties
<1> HIDE DEF z
<1>3. \A i \in 1..Len(z) : i \in 1..Len(v) \/ i = Len(v) + 1
    BY <1>1, <1>2
<1>4. \A i \in 1..Len(z) : z[i] \in S \cup {u}
    BY <1>1, <1>2, <1>3
<1>5. ASSUME NEW i \in 1..Len(z), NEW j \in 1..Len(z), i < j
      PROVE  z[i] < z[j]
    <2>1. i \in 1..Len(v)
        BY <1>1, <1>2, <1>5
    <2> QED
        BY <2>1, <1>1, <1>2, <1>3, <1>5
<1>6. Len(v) + 1 \in 1..Len(z) /\ \A i \in 1..Len(v) : i \in 1..Len(z)
    BY <1>1, <1>2
<1>7. \A x \in S \cup {u} : \E i \in 1..Len(z) : z[i] = x
    BY <1>1, <1>2, <1>6
<1> QED
    BY <1>2, <1>4, <1>5, <1>7, SaysIntro DEF z

\* The words of a piece say the units that are spoken in it.
LEMMA WordsSay ==
    ASSUME NEW a \in Nat, NEW b \in Nat, a <= b
    PROVE  Says(Words(Piece(a, b)), Spoken(a, b))
<1> DEFINE p == Piece(a, b)
           n == b - a
           step == [k \in 1..n |-> [v \in Seq(Nat) |->
                       IF p[k] \in quiet THEN v ELSE Append(v, p[k])]]
           said == CHOOSE said : said = [k \in 0..n |->
                       IF k = 0 THEN <<>>
                       ELSE IF p[k] \in quiet THEN said[k - 1]
                       ELSE Append(said[k - 1], p[k])]
<1>0. /\ Piece(a, b) \in Seq(Nat) /\ Len(Piece(a, b)) = b - a
      /\ \A i \in 1..(b - a) : Piece(a, b)[i] = a + i
    BY PieceIs
<1>1. p \in Seq(Nat) /\ Len(p) = n /\ n \in Nat /\ \A i \in 1..n : p[i] = a + i /\ p[i] \in Nat
    BY <1>0
<1>2. Words(p) = said[n]
    BY <1>1 DEF Words
<1> HIDE DEF p, n
<1>3. step \in [1..n -> [Seq(Nat) -> Seq(Nat)]] /\ <<>> \in Seq(Nat)
    BY <1>1, AppendProperties, EmptySeq
<1>4. \A k \in 1..n : \A v \in Seq(Nat) :
          step[k][v] = IF p[k] \in quiet THEN v ELSE Append(v, p[k])
    OBVIOUS
<1> HIDE DEF step
<1>13. step \in [1..n -> [Seq(Nat) -> Seq(Nat)]]
    BY <1>3
<1>14. <<>> \in Seq(Nat)
    BY <1>3
<1>15. n \in Nat
    BY <1>1
<1>19. PICK f : Loop(f, Seq(Nat), <<>>, n, step)
    BY <1>13, <1>14, <1>15, LoopExists, Zenon
<1>5. f \in [0..n -> Seq(Nat)] /\ f[0] = <<>> /\ \A k \in 1..n : f[k] = step[k][f[k - 1]]
    BY <1>19 DEF Loop
<1>6. f = [k \in 0..n |-> IF k = 0 THEN <<>>
                          ELSE IF p[k] \in quiet THEN f[k - 1]
                          ELSE Append(f[k - 1], p[k])]
    <2>1. ASSUME NEW k \in 0..n
          PROVE  f[k] = IF k = 0 THEN <<>>
                        ELSE IF p[k] \in quiet THEN f[k - 1]
                        ELSE Append(f[k - 1], p[k])
        <3>1. CASE k = 0
            BY <3>1, <1>5
        <3>2. CASE k # 0
            <4>1. k \in 1..n /\ k - 1 \in 0..n
                BY <3>2, <1>1
            <4>2. f[k - 1] \in Seq(Nat)
                BY <4>1, <1>5
            <4> QED
                BY <3>2, <4>1, <4>2, <1>4, <1>5
        <3> QED
            BY <3>1, <3>2
    <2> QED
        BY <2>1, <1>5
<1>7. said = [k \in 0..n |-> IF k = 0 THEN <<>>
                             ELSE IF p[k] \in quiet THEN said[k - 1]
                             ELSE Append(said[k - 1], p[k])]
    BY <1>6
<1> HIDE DEF said
<1>16. 0 \in 0..n /\ \A k \in 1..n : k \in 0..n /\ k # 0
    BY <1>1
<1>8. said[0] = <<>> /\ \A k \in 1..n : said[k] = IF p[k] \in quiet THEN said[k - 1]
                                                  ELSE Append(said[k - 1], p[k])
    <2>1. said[0] = <<>>
        BY <1>7, <1>16, Zenon
    <2>2. ASSUME NEW k \in 1..n
          PROVE  said[k] = IF p[k] \in quiet THEN said[k - 1] ELSE Append(said[k - 1], p[k])
        BY <1>7, <1>16, Zenon
    <2> QED
        BY <2>1, <2>2
<1> DEFINE good == {k \in 0..n : Says(said[k], Spoken(a, a + k))}
<1>9. 0 \in good
    <2>1. Spoken(a, a + 0) = {}
        BY DEF Spoken
    <2>2. Says(said[0], Spoken(a, a + 0))
        BY <2>1, <1>8, NothingSaid
    <2> QED
        BY <2>2, <1>16
<1>10. ASSUME NEW k \in 1..n, k - 1 \in good
       PROVE  k \in good
    <2>1. Says(said[k - 1], Spoken(a, a + (k - 1)))
        BY <1>10
    <2>2. p[k] = a + k /\ p[k] \in Nat /\ a + (k - 1) \in Nat /\ k \in 0..n
        BY <1>1
    <2>3. CASE p[k] \in quiet
        <3>1. Spoken(a, a + k) = Spoken(a, a + (k - 1))
            BY <2>2, <2>3 DEF Spoken
        <3> QED
            BY <3>1, <2>1, <2>2, <2>3, <1>8
    <2>4. CASE p[k] \notin quiet
        <3>0. \A u \in Nat : (u <= a + k) <=> (u <= a + (k - 1) \/ u = a + k)
            BY <2>2
        <3>4. a + k \in Nat /\ a < a + k /\ a + k \notin quiet /\ p[k] = a + k
            BY <2>2, <2>4
        <3>1. Spoken(a, a + k) = Spoken(a, a + (k - 1)) \cup {p[k]}
            <4>1. ASSUME NEW u
                  PROVE  u \in Spoken(a, a + k) <=> u \in Spoken(a, a + (k - 1)) \/ u = a + k
                BY <3>0, <3>4 DEF Spoken
            <4> QED
                BY <4>1, <3>4
        <3>2. \A s \in Spoken(a, a + (k - 1)) : s < p[k]
            BY <2>2 DEF Spoken
        <3>3. Says(Append(said[k - 1], p[k]), Spoken(a, a + k))
            BY <3>1, <3>2, <2>1, <2>2, AppendSays
        <3> QED
            BY <3>3, <2>2, <2>4, <1>8
    <2> QED
        BY <2>3, <2>4
<1> HIDE DEF good
<1>17. \A k \in 1..n : k - 1 \in good => k \in good
    BY <1>10
<1>18. \A k \in 0..n : k \in good
    BY <1>15, <1>9, <1>17, OneByOne, Zenon
<1>11. n \in good
    BY <1>15, <1>18
<1>12. a + n = b
    BY DEF n
<1> QED
    BY <1>2, <1>11, <1>12 DEF good, p

-----------------------------------------------------------------------------
(* Texts one after the other.                                              *)
LEMMA FlattenIs ==
    ASSUME NEW seqs \in Seq(Seq(Nat)), NEW m, m = Len(seqs)
    PROVE  \E g \in [0..m -> Seq(Nat)] :
              /\ g[0] = <<>> /\ \A k \in 1..m : g[k] = g[k - 1] \o seqs[k]
              /\ FlattenSeq(seqs) = g[m]
<1>1. m \in Nat /\ \A k \in 1..m : seqs[k] \in Seq(Nat)
    BY LenProperties, ElementOfSeq
<1> DEFINE step == [k \in 1..m |-> [v \in Seq(Nat) |-> v \o seqs[k]]]
<1>2. step \in [1..m -> [Seq(Nat) -> Seq(Nat)]]
    BY <1>1, ConcatProperties
<1>3. <<>> \in Seq(Nat) /\ m \in Nat
    BY <1>1, EmptySeq
<1>4. \A k \in 1..m : \A v \in Seq(Nat) : step[k][v] = v \o seqs[k]
    OBVIOUS
<1> HIDE DEF step
<1>5. PICK g : Loop(g, Seq(Nat), <<>>, m, step)
    BY <1>2, <1>3, LoopExists, Zenon
<1>6. g \in [0..m -> Seq(Nat)] /\ g[0] = <<>> /\ \A k \in 1..m : g[k] = step[k][g[k - 1]]
    BY <1>5 DEF Loop
<1>7. \A k \in 1..m : g[k] = g[k - 1] \o seqs[k]
    <2> TAKE k \in 1..m
    <2>1. k - 1 \in 0..m
        BY <1>1
    <2>2. g[k - 1] \in Seq(Nat)
        BY <2>1, <1>6
    <2> QED
        BY <2>2, <1>4, <1>6
<1>8. CASE m = 0
    <2>1. seqs = <<>>
        BY <1>8, EmptySeq
    <2> QED
        BY <2>1, <1>3, <1>6, <1>7, <1>8 DEF FlattenSeq
<1>9. CASE m # 0
    <2> DEFINE flatten == CHOOSE flatten : flatten = [i \in 1..m |->
                  IF i = 1 THEN seqs[i] ELSE flatten[i - 1] \o seqs[i]]
               f == [i \in 1..m |-> g[i]]
               good == {k \in 0..m : k # 0 => flatten[k] = g[k]}
    <2>1. FlattenSeq(seqs) = flatten[m]
        BY <1>9 DEF FlattenSeq
    <2>2. ASSUME NEW i \in 1..m
          PROVE  f[i] = IF i = 1 THEN seqs[i] ELSE f[i - 1] \o seqs[i]
        <3>1. f[i] = g[i - 1] \o seqs[i]
            BY <1>7
        <3>2. CASE i = 1
            <4>4. i - 1 = 0 /\ g[0] = <<>>
                BY <3>2, <1>6
            <4>1. f[i] = <<>> \o seqs[i]
                BY <3>1, <4>4
            <4>2. seqs[i] \in Seq(Nat)
                BY <1>1
            <4>3. <<>> \o seqs[i] = seqs[i]
                BY <4>2, ConcatEmptySeq
            <4> QED
                BY <3>2, <4>1, <4>3
        <3>3. CASE i # 1
            <4>1. i - 1 \in 1..m
                BY <3>3, <1>1
            <4> QED
                BY <3>1, <3>3, <4>1
        <3> QED
            BY <3>2, <3>3
    <2>3. f = [i \in 1..m |-> IF i = 1 THEN seqs[i] ELSE f[i - 1] \o seqs[i]]
        <3> HIDE DEF f
        <3>1. f = [i \in 1..m |-> f[i]]
            BY DEF f
        <3> QED
            BY <3>1, <2>2
    <2> HIDE DEF f
    <2>4. flatten = [i \in 1..m |-> IF i = 1 THEN seqs[i] ELSE flatten[i - 1] \o seqs[i]]
        BY <2>3
    <2> HIDE DEF flatten
    <2>5. \A i \in 1..m : flatten[i] = IF i = 1 THEN seqs[i] ELSE flatten[i - 1] \o seqs[i]
        BY <2>4, Zenon
    <2>6. 0 \in good
        BY <1>1
    <2>7. ASSUME NEW k \in 1..m, k - 1 \in good
          PROVE  k \in good
        <3>0. k \in 0..m
            BY <1>1
        <3>1. seqs[k] \in Seq(Nat) /\ k \in 0..m /\ g[k] = g[k - 1] \o seqs[k]
            BY <3>0, <1>1, <1>7, Zenon
        <3>2. flatten[k] = IF k = 1 THEN seqs[k] ELSE flatten[k - 1] \o seqs[k]
            BY <2>5
        <3>3. CASE k = 1
            <4>3. k - 1 = 0 /\ g[0] = <<>>
                BY <3>3, <1>6
            <4>1. g[k] = <<>> \o seqs[k]
                BY <3>1, <4>3
            <4>2. <<>> \o seqs[k] = seqs[k]
                BY <3>1, ConcatEmptySeq
            <4> QED
                BY <3>1, <3>2, <3>3, <4>1, <4>2
        <3>4. CASE k # 1
            <4>1. k - 1 # 0
                BY <3>4
            <4> QED
                BY <3>1, <3>2, <3>4, <4>1, <2>7
        <3> QED
            BY <3>3, <3>4
    <2>8. \A k \in 1..m : k - 1 \in good => k \in good
        BY <2>7
    <2> HIDE DEF good
    <2>9. \A k \in 0..m : k \in good
        BY <1>3, <2>6, <2>8, OneByOne, Zenon
    <2>10. m \in good
        BY <1>1, <2>9
    <2>11. flatten[m] = g[m]
        BY <1>9, <2>10 DEF good
    <2> QED
        BY <2>1, <2>11, <1>6, <1>7
<1> QED
    BY <1>8, <1>9

\* Texts of parts that come one after the other, put together.
InTurn(seqs, part, m) ==
    /\ seqs \in Seq(Seq(Nat)) /\ m = Len(seqs)
    /\ \A k \in 1..m : Says(seqs[k], part[k])
    /\ \A j, k \in 1..m : j < k => \A s \in part[j], t \in part[k] : s < t

\* Texts that follow each other say together what each of them says.
LEMMA FlattenSays ==
    ASSUME NEW seqs, NEW part, NEW m, InTurn(seqs, part, m)
    PROVE  Says(FlattenSeq(seqs), UNION {part[k] : k \in 1..m})
<1> seqs \in Seq(Seq(Nat)) /\ m = Len(seqs)
    BY DEF InTurn
<1>0. /\ \A k \in 1..m : Says(seqs[k], part[k])
      /\ \A j, k \in 1..m : j < k => \A s \in part[j], t \in part[k] : s < t
    BY DEF InTurn
<1>1. PICK g \in [0..m -> Seq(Nat)] :
              /\ g[0] = <<>> /\ \A k \in 1..m : g[k] = g[k - 1] \o seqs[k]
              /\ FlattenSeq(seqs) = g[m]
    BY FlattenIs
<1>2. m \in Nat
    BY LenProperties
<1> DEFINE upTo(k) == UNION {part[j] : j \in 1..k}
           good == {k \in 0..m : Says(g[k], upTo(k))}
<1>3. 0 \in good
    <2>1. 1..0 = {} /\ 0 \in 0..m
        BY <1>2
    <2>2. upTo(0) = {}
        BY <2>1
    <2>3. Says(g[0], upTo(0))
        BY <2>2, <1>1, NothingSaid
    <2> QED
        BY <2>1, <2>3
<1>4. ASSUME NEW k \in 1..m, k - 1 \in good
      PROVE  k \in good
    <2>1. /\ k \in Nat /\ k - 1 \in 0..m /\ k \in 0..m
          /\ \A j \in 1..(k - 1) : j \in 1..m /\ j < k
          /\ \A j : j \in 1..k <=> j \in 1..(k - 1) \/ j = k
        BY <1>2
    <2>2. Says(g[k - 1], upTo(k - 1))
        BY <1>4
    <2>3. \A s \in upTo(k - 1), t \in part[k] : s < t
        BY <2>1, <1>0
    <2>4. upTo(k) = upTo(k - 1) \cup part[k]
        BY <2>1
    <2> HIDE DEF upTo
    <2>5. Says(g[k - 1] \o seqs[k], upTo(k - 1) \cup part[k])
        BY <2>2, <2>3, <1>0, JoinSays
    <2>6. Says(g[k], upTo(k))
        BY <2>4, <2>5, <1>1
    <2> QED
        BY <2>1, <2>6
<1>5. \A k \in 1..m : k - 1 \in good => k \in good
    BY <1>4
<1> HIDE DEF good
<1>6. \A k \in 0..m : k \in good
    BY <1>2, <1>3, <1>5, OneByOne, Zenon
<1>7. m \in good
    BY <1>2, <1>6
<1> QED
    BY <1>7, <1>1 DEF good

-----------------------------------------------------------------------------
(* Whisper: pieces of the audio that lie side by side.                     *)
LEMMA PartSays ==
    ASSUME NEW a \in Nat, NEW b \in Nat, a <= b,
           NEW m \in Nat, NEW n \in Nat, m <= n, n <= b - a
    PROVE  Says(Words(SubSeq(Piece(a, b), m + 1, n)), Spoken(a + m, a + n))
<1>1. SubSeq(Piece(a, b), m + 1, n) = Piece(a + m, a + n)
    BY PartOfPiece
<1>2. a + m \in Nat /\ a + n \in Nat /\ a + m <= a + n
    OBVIOUS
<1> QED
    BY <1>1, <1>2, WordsSay

\* Multiplication is monotonic.
LEMMA Multiples ==
    ASSUME NEW S \in Nat, S # 0, NEW x \in Nat, NEW y \in Nat, x <= y
    PROVE  x * S \in Nat /\ x * S <= y * S
<1>1. y - x \in Nat /\ y = x + (y - x)
    OBVIOUS
<1>2. (y - x) * S \in Nat /\ x * S \in Nat
    BY <1>1
<1>3. (x + (y - x)) * S = x * S + (y - x) * S
    BY <1>1
<1> QED
    BY <1>1, <1>2, <1>3

\* As many segments as it takes, the last one shorter: chunks of the samples.
LEMMA Quotient ==
    ASSUME NEW S \in Nat, S # 0, NEW n \in Nat
    PROVE  LET q == (n + S - 1) \div S IN
           /\ q \in Nat
           /\ \A k \in 1..q : (k - 1) * S < n
           /\ n <= q * S
<1> DEFINE q == (n + S - 1) \div S
<1>1. n + S - 1 \in Nat
    OBVIOUS
<1>2. q \in Nat
    BY <1>1
<1>3. q * S <= n + S - 1 /\ n + S - 1 < q * S + S
    BY <1>1
<1> HIDE DEF q
<1>4. q * S \in Nat
    BY <1>2
<1>5. n <= q * S
    BY <1>3, <1>4
<1>6. ASSUME NEW k \in 1..q
      PROVE  (k - 1) * S < n
    <2>1. k \in Nat /\ k <= q
        BY <1>2
    <2>2. k * S \in Nat /\ k * S <= q * S
        BY <2>1, <1>2, Multiples
    <2>3. (k - 1) * S = k * S - S
        BY <2>1
    <2> QED
        BY <2>2, <2>3, <1>3, <1>4
<1> QED
    BY <1>2, <1>5, <1>6 DEF q

\* The sizes, one by one.
LEMMA Sizes ==
    /\ SegmentUnits \in Nat /\ SegmentUnits # 0 /\ OverlapUnits \in Nat /\ OverlapUnits # 0
    /\ SegmentUnits > OverlapUnits /\ BatchUnits \in Nat /\ BatchUnits # 0
    /\ StreamQueue \in Nat /\ CommandQueue \in Nat /\ MaxUnits \in Nat
BY SizesArePositive

\* Whisper says what is spoken, whatever segments the piece is cut into.
LEMMA WhisperSays ==
    ASSUME NEW a \in Nat, NEW b \in Nat, a <= b
    PROVE  Says(WhisperText(Piece(a, b)), Spoken(a, b))
<1> DEFINE S == SegmentUnits
           p == Piece(a, b)
           n == b - a
           q == (n + S - 1) \div S
           end(k) == Least(k * S, n)
           seqs == [k \in 1..q |-> Words(SubSeq(p, (k - 1) * S + 1, end(k)))]
           part == [k \in 1..q |-> Spoken(a + (k - 1) * S, a + end(k))]
<1>1. Len(p) = n /\ n \in Nat
    <2>1. Len(Piece(a, b)) = b - a
        BY PieceIs
    <2> QED
        BY <2>1
<1>2. WhisperText(p) = FlattenSeq(seqs)
    BY <1>1 DEF WhisperText
<1>3. S \in Nat /\ S # 0
    BY Sizes
<1> HIDE DEF S, p
<1>4. q \in Nat /\ (\A k \in 1..q : (k - 1) * S < n) /\ n <= q * S
    <2> HIDE DEF n
    <2> QED
        BY <1>1, <1>3, Quotient
<1> HIDE DEF n, q
<1>5. ASSUME NEW k \in 1..q
      PROVE  /\ (k - 1) * S \in Nat /\ k * S \in Nat /\ k * S = (k - 1) * S + S
             /\ end(k) \in Nat /\ (k - 1) * S <= end(k) /\ end(k) <= n /\ end(k) <= k * S
    <2>1. k \in Nat /\ k - 1 \in Nat /\ k - 1 <= k
        BY <1>4
    <2>2. (k - 1) * S \in Nat /\ k * S \in Nat /\ k * S = (k - 1) * S + S
        BY <2>1, <1>3
    <2>3. (k - 1) * S < n
        BY <1>4
    <2> QED
        BY <2>2, <2>3, <1>1, <1>3 DEF Least
<1> HIDE DEF end
<1>6. ASSUME NEW k \in 1..q
      PROVE  Says(seqs[k], part[k])
    <2>1. n = b - a /\ p = Piece(a, b)
        BY DEF n, p
    <2>2. Says(Words(SubSeq(Piece(a, b), (k - 1) * S + 1, end(k))),
               Spoken(a + (k - 1) * S, a + end(k)))
        <3>1. (k - 1) * S \in Nat /\ end(k) \in Nat /\ (k - 1) * S <= end(k) /\ end(k) <= b - a
            BY <1>5, <2>1
        <3> DEFINE m == (k - 1) * S
                   e == end(k)
        <3>2. m \in Nat /\ e \in Nat /\ m <= e /\ e <= b - a
            BY <3>1
        <3> HIDE DEF m, e
        <3>3. Says(Words(SubSeq(Piece(a, b), m + 1, e)), Spoken(a + m, a + e))
            BY <3>2, PartSays
        <3> QED
            BY <3>3 DEF m, e
    <2> QED
        BY <2>1, <2>2
<1>7. seqs \in Seq(Seq(Nat)) /\ Len(seqs) = q
    <2>1. \A k \in 1..q : Words(SubSeq(p, (k - 1) * S + 1, end(k))) \in Seq(Nat)
        BY <1>6 DEF Says
    <2>2. seqs \in [1..q -> Seq(Nat)]
        BY <2>1
    <2> HIDE DEF seqs
    <2>3. seqs \in Seq(Seq(Nat))
        BY <2>2, <1>4, SeqDef
    <2> QED
        BY <2>2, <2>3, <1>4, LenProperties
<1>8. ASSUME NEW j \in 1..q, NEW k \in 1..q, j < k, NEW s \in part[j], NEW t \in part[k]
      PROVE  s < t
    <2>1. s \in Nat /\ s <= a + end(j) /\ t \in Nat /\ a + (k - 1) * S < t
        BY DEF Spoken
    <2>2. end(j) <= j * S /\ end(j) \in Nat /\ j * S \in Nat /\ (k - 1) * S \in Nat
        BY <1>5
    <2>3. j * S <= (k - 1) * S
        <3>1. j \in Nat /\ k - 1 \in Nat /\ j <= k - 1
            BY <1>8, <1>4
        <3> QED
            BY <3>1, <1>3, Multiples
    <2> QED
        BY <2>1, <2>2, <2>3
<1>9. UNION {part[k] : k \in 1..q} = Spoken(a, b)
    <2>1. ASSUME NEW k \in 1..q, NEW u \in part[k]
          PROVE  u \in Spoken(a, b)
        <3>1. u \in Nat /\ a + (k - 1) * S < u /\ u <= a + end(k) /\ u \notin quiet
            BY DEF Spoken
        <3>2. (k - 1) * S \in Nat /\ end(k) \in Nat /\ end(k) <= n /\ n = b - a
            BY <1>5 DEF n
        <3>3. a < u /\ u <= b
            BY <3>1, <3>2
        <3> QED
            BY <3>1, <3>3 DEF Spoken
    <2>2. ASSUME NEW u \in Spoken(a, b)
          PROVE  \E k \in 1..q : u \in part[k]
        <3>1. u \in Nat /\ a < u /\ u <= b /\ u \notin quiet
            BY DEF Spoken
        <3> DEFINE N == {k \in 0..q : u <= a + k * S}
        <3>2. q \in N /\ N \subseteq Nat
            <4>1. q * S \in Nat /\ n = b - a
                BY <1>3, <1>4 DEF n
            <4>2. u <= a + q * S
                BY <4>1, <3>1, <1>4
            <4> QED
                BY <4>2, <1>4
        <3>3. PICK k \in N : \A j \in N : k <= j
            BY <3>2, LeastOf
        <3>4. k # 0
            <4>1. 0 * S = 0 /\ ~(u <= a + 0)
                BY <3>1, <1>3
            <4> QED
                BY <4>1
        <3>5. k \in 1..q /\ k - 1 \in 0..q /\ ~(k <= k - 1)
            BY <3>4, <1>4
        <3>6. ~(u <= a + (k - 1) * S)
            BY <3>3, <3>5
        <3>7. (k - 1) * S \in Nat /\ k * S \in Nat
            BY <3>5, <1>5
        <3>8. u <= a + k * S
            OBVIOUS
        <3>9. u <= a + end(k)
            <4>1. n = b - a
                BY DEF n
            <4> QED
                BY <4>1, <3>1, <3>7, <3>8, <1>1 DEF end, Least
        <3>10. a + (k - 1) * S < u
            BY <3>6, <3>7, <3>1
        <3>11. u \in Spoken(a + (k - 1) * S, a + end(k))
            BY <3>1, <3>9, <3>10 DEF Spoken
        <3> QED
            BY <3>5, <3>11
    <2> QED
        BY <2>1, <2>2
<1> HIDE DEF part, seqs
<1>10. \A k \in 1..q : Says(seqs[k], part[k])
    BY <1>6
<1>11. \A j, k \in 1..q : j < k => \A s \in part[j], t \in part[k] : s < t
    BY <1>8
<1>13. InTurn(seqs, part, q)
    BY <1>7, <1>10, <1>11 DEF InTurn
<1>12. Says(FlattenSeq(seqs), UNION {part[k] : k \in 1..q})
    BY <1>13, FlattenSays
<1> QED
    BY <1>2, <1>9, <1>12 DEF p

-----------------------------------------------------------------------------
(* SenseVoice: spans of speech that follow one another and leave no unit   *)
(* with a word out.                                                        *)
Ranges(r, n, C) ==
    /\ r \in Seq(Nat \X Nat) /\ C \subseteq Nat
    /\ \A i \in 1..Len(r) : r[i][1] <= r[i][2] /\ r[i][2] <= n
    /\ \A i, j \in 1..Len(r) : i < j => r[i][2] <= r[j][1]
    /\ \A u \in C : \E i \in 1..Len(r) : r[i][1] < u /\ u <= r[i][2]

\* Nothing in r reaches beyond x.
EndsAt(r, x) == r # <<>> => r[Len(r)][2] <= x

\* What a list of ranges is, range by range.
LEMMA RangesAre ==
    ASSUME NEW r, NEW n \in Nat, NEW C, Ranges(r, n, C)
    PROVE  /\ Len(r) \in Nat
           /\ \A i \in 1..Len(r) : r[i] \in Nat \X Nat /\ r[i][1] \in Nat /\ r[i][2] \in Nat
<1>1. r \in Seq(Nat \X Nat)
    BY DEF Ranges
<1>2. Len(r) \in Nat
    BY <1>1, LenProperties
<1>3. ASSUME NEW i \in 1..Len(r)
      PROVE  r[i] \in Nat \X Nat
    BY <1>1, ElementOfSeq
<1> QED
    BY <1>2, <1>3

\* Ranges up to n that cover C are ranges up to m, and cover less.
LEMMA FewerRanges ==
    ASSUME NEW r, NEW n \in Nat, NEW C, NEW D, Ranges(r, n, C), D \subseteq C,
           NEW m \in Nat, n <= m
    PROVE  Ranges(r, m, D)
<1>1. \A i \in 1..Len(r) : r[i][2] \in Nat
    BY RangesAre
<1>2. \A i \in 1..Len(r) : r[i][1] <= r[i][2] /\ r[i][2] <= n
    BY DEF Ranges
<1>3. \A i \in 1..Len(r) : r[i][1] <= r[i][2] /\ r[i][2] <= m
    BY <1>1, <1>2
<1> QED
    BY <1>3 DEF Ranges

\* A range that begins after the last one.
LEMMA RangeAppended ==
    ASSUME NEW r, NEW n \in Nat, NEW C, Ranges(r, n, C),
           NEW x \in Nat, NEW y \in Nat, NEW m \in Nat, x <= y, y <= m, n <= m,
           EndsAt(r, x)
    PROVE  Ranges(Append(r, <<x, y>>), m, C \cup {u \in Nat : x < u /\ u <= y})
<1> DEFINE z == Append(r, <<x, y>>)
           l == Len(r)
<1>1. /\ r \in Seq(Nat \X Nat)
      /\ \A i \in 1..l : r[i][1] <= r[i][2] /\ r[i][2] <= n
      /\ \A i, j \in 1..l : i < j => r[i][2] <= r[j][1]
      /\ \A u \in C : \E i \in 1..l : r[i][1] < u /\ u <= r[i][2]
      /\ C \subseteq Nat
    BY DEF Ranges
<1>2. l \in Nat /\ \A i \in 1..l : r[i][1] \in Nat /\ r[i][2] \in Nat
    BY RangesAre
<1>3. <<x, y>> \in Nat \X Nat /\ <<x, y>>[1] = x /\ <<x, y>>[2] = y
    OBVIOUS
<1>4. z \in Seq(Nat \X Nat) /\ Len(z) = l + 1 /\ z[l + 1] = <<x, y>>
      /\ \A i \in 1..l : z[i] = r[i]
    BY <1>1, <1>3, AppendProperties
<1>5. \A i \in 1..Len(z) : i \in 1..l \/ i = l + 1
    BY <1>2, <1>4
<1>6. z[l + 1][1] = x /\ z[l + 1][2] = y
    BY <1>3, <1>4
<1>7. \A i \in 1..l : r[i][2] <= x
    <2>1. CASE l = 0
        BY <2>1
    <2>2. CASE l # 0
        <3>1. l \in 1..l /\ r # <<>>
            BY <2>2, <1>2, EmptySeq
        <3>0. r[l][2] <= x
            BY <3>1 DEF EndsAt
        <3>2. r[l][2] <= x /\ r[l][1] <= r[l][2] /\ r[l][1] \in Nat /\ r[l][2] \in Nat
            BY <3>0, <3>1, <1>1, <1>2
        <3> TAKE i \in 1..l
        <3>3. CASE i = l
            BY <3>2, <3>3
        <3>4. CASE i # l
            <4>1. i < l /\ r[i][2] \in Nat
                BY <3>4, <1>2
            <4>2. r[i][2] <= r[l][1]
                BY <4>1, <3>1, <1>1
            <4> QED
                BY <4>1, <4>2, <3>2
        <3> QED
            BY <3>3, <3>4
    <2> QED
        BY <2>1, <2>2
<1> HIDE DEF z, l
<1>8. ASSUME NEW i \in 1..Len(z)
      PROVE  z[i][1] <= z[i][2] /\ z[i][2] <= m
    <2>1. CASE i \in 1..l
        <3>1. z[i] = r[i] /\ r[i][1] \in Nat /\ r[i][2] \in Nat
            BY <2>1, <1>2, <1>4
        <3>2. r[i][1] <= r[i][2] /\ r[i][2] <= n
            BY <2>1, <1>1
        <3> QED
            BY <3>1, <3>2
    <2>2. CASE i = l + 1
        BY <2>2, <1>6
    <2> QED
        BY <2>1, <2>2, <1>5
<1>9. ASSUME NEW i \in 1..Len(z), NEW j \in 1..Len(z), i < j
      PROVE  z[i][2] <= z[j][1]
    <2>1. i \in 1..l
        BY <1>2, <1>4, <1>9
    <2>2. CASE j \in 1..l
        BY <2>1, <2>2, <1>1, <1>4, <1>9
    <2>3. CASE j = l + 1
        BY <2>1, <2>3, <1>4, <1>6, <1>7
    <2> QED
        BY <2>2, <2>3, <1>5
<1>10. l + 1 \in 1..Len(z) /\ \A i \in 1..l : i \in 1..Len(z)
    BY <1>2, <1>4
<1>11. ASSUME NEW u \in C \cup {u \in Nat : x < u /\ u <= y}
       PROVE  \E i \in 1..Len(z) : z[i][1] < u /\ u <= z[i][2]
    <2>1. CASE u \in C
        <3>1. PICK i \in 1..l : r[i][1] < u /\ u <= r[i][2]
            BY <2>1, <1>1
        <3> QED
            BY <3>1, <1>4, <1>10
    <2>2. CASE u \notin C
        <3>1. x < u /\ u <= y
            BY <2>2
        <3> QED
            BY <3>1, <1>6, <1>10
    <2> QED
        BY <2>1, <2>2
<1> QED
    BY <1>1, <1>4, <1>8, <1>9, <1>11 DEF Ranges, z

\* The front of a list.
LEMMA FrontIs ==
    ASSUME NEW r \in Seq(Nat \X Nat), r # <<>>
    PROVE  /\ Len(r) \in Nat \ {0} /\ Len(Front(r)) = Len(r) - 1
           /\ \A i \in 1..(Len(r) - 1) : Front(r)[i] = r[i]
           /\ Front(r) \in Seq(Nat \X Nat)
<1>2. Len(r) \in Nat \ {0}
    BY LenProperties, EmptySeq
<1> DEFINE l == Len(r)
           f == [i \in 1..(l - 1) |-> r[i]]
<1>3. Front(r) = f
    <2>1. Front(r) = [i \in 1..(1 + (l - 1) - 1) |-> r[i + 1 - 1]]
        BY DEF Front, SubSeq
    <2>2. 1 + (l - 1) - 1 = l - 1 /\ \A i \in 1..(l - 1) : i + 1 - 1 = i
        BY <1>2
    <2> QED
        BY <2>1, <2>2
<1>4. \A i \in 1..(l - 1) : i \in 1..l
    BY <1>2
<1>5. \A i \in 1..(l - 1) : r[i] \in Nat \X Nat
    BY <1>4, ElementOfSeq
<1>6. f \in [1..(l - 1) -> Nat \X Nat] /\ l - 1 \in Nat
    BY <1>2, <1>5
<1> HIDE DEF f
<1>7. f \in Seq(Nat \X Nat)
    BY <1>6, SeqDef
<1>8. Len(f) = l - 1
    BY <1>6, <1>7, LenProperties
<1> QED
    BY <1>2, <1>3, <1>7, <1>8 DEF f

\* The last range drawn out to y.
LEMMA RangeWidened ==
    ASSUME NEW r, NEW n \in Nat, NEW C, Ranges(r, n, C), r # <<>>,
           NEW y \in Nat, NEW m \in Nat, Last(r)[2] <= y, y <= m, n <= m
    PROVE  Ranges(Append(Front(r), <<Last(r)[1], y>>), m,
                  C \cup {u \in Nat : Last(r)[1] < u /\ u <= y})
<1> DEFINE l == Len(r)
           f == Front(r)
           x == r[l][1]
           D == {u \in C : \E i \in 1..(l - 1) : r[i][1] < u /\ u <= r[i][2]}
<1>1. /\ r \in Seq(Nat \X Nat)
      /\ \A i \in 1..l : r[i][1] <= r[i][2] /\ r[i][2] <= n
      /\ \A i, j \in 1..l : i < j => r[i][2] <= r[j][1]
      /\ \A u \in C : \E i \in 1..l : r[i][1] < u /\ u <= r[i][2]
      /\ C \subseteq Nat
    BY DEF Ranges
<1>2. l \in Nat /\ l # 0 /\ Len(f) = l - 1 /\ f \in Seq(Nat \X Nat)
      /\ \A i \in 1..(l - 1) : f[i] = r[i]
    BY <1>1, FrontIs
<1>3. \A i \in 1..l : r[i][1] \in Nat /\ r[i][2] \in Nat
    BY RangesAre
<1>4. l \in 1..l /\ x \in Nat /\ x <= r[l][2] /\ r[l][2] \in Nat /\ Last(r) = r[l] /\ x <= y
    <2>1. l \in 1..l
        BY <1>2
    <2>2. r[l][1] \in Nat /\ r[l][2] \in Nat /\ r[l][1] <= r[l][2]
        BY <2>1, <1>1, <1>3
    <2>3. Last(r) = r[l] /\ r[l][2] <= y
        BY DEF Last
    <2> QED
        BY <2>1, <2>2, <2>3
<1> HIDE DEF f, l
<1>5. \A i \in 1..(l - 1) : i \in 1..l /\ i < l
    BY <1>2
<1>6. Ranges(f, n, D)
    <2>1. \A i \in 1..Len(f) : f[i][1] <= f[i][2] /\ f[i][2] <= n
        BY <1>1, <1>2, <1>5
    <2>2. \A i, j \in 1..Len(f) : i < j => f[i][2] <= f[j][1]
        BY <1>1, <1>2, <1>5
    <2>3. \A u \in D : \E i \in 1..Len(f) : f[i][1] < u /\ u <= f[i][2]
        BY <1>2
    <2> QED
        BY <2>1, <2>2, <2>3, <1>1, <1>2 DEF Ranges, D
<1>7. EndsAt(f, x)
    <2> SUFFICES ASSUME f # <<>>
                 PROVE  f[Len(f)][2] <= x
        BY DEF EndsAt
    <2>1. Len(f) # 0
        BY <1>2, EmptySeq
    <2>2. Len(f) \in 1..(l - 1) /\ Len(f) \in 1..l /\ Len(f) < l
        BY <2>1, <1>2
    <2> QED
        BY <2>2, <1>1, <1>2, <1>4
<1> HIDE DEF D, x
<1>10. x \in Nat /\ x <= y
    BY <1>4 DEF x
<1>8. Ranges(Append(f, <<x, y>>), m, D \cup {u \in Nat : x < u /\ u <= y})
    BY <1>6, <1>7, <1>10, RangeAppended
<1>9. ASSUME NEW u \in C
      PROVE  u \in D \/ (x < u /\ u <= y)
    <2>1. PICK i \in 1..l : r[i][1] < u /\ u <= r[i][2]
        BY <1>1
    <2>2. CASE i = l
        <3>1. r[l][1] < u /\ u <= r[l][2] /\ r[l][2] <= y
            BY <2>1, <2>2, <1>4
        <3> QED
            BY <3>1, <1>1, <1>4 DEF x
    <2>3. CASE i # l
        <3>1. i \in 1..(l - 1)
            BY <2>3, <1>2
        <3> QED
            BY <3>1, <2>1 DEF D
    <2> QED
        BY <2>2, <2>3
<1>11. C \cup {u \in Nat : x < u /\ u <= y} \subseteq D \cup {u \in Nat : x < u /\ u <= y}
    BY <1>1, <1>9
<1>14. m <= m
    OBVIOUS
<1>12. Ranges(Append(f, <<x, y>>), m, C \cup {u \in Nat : x < u /\ u <= y})
    BY <1>8, <1>11, FewerRanges, <1>14
<1>13. x = Last(r)[1]
    BY <1>4 DEF x
<1> QED
    BY <1>12, <1>13 DEF f

\* The last element of a list.
LEMMA LastIs ==
    ASSUME NEW r \in Seq(Nat \X Nat), NEW e \in Nat \X Nat
    PROVE  Append(r, e) \in Seq(Nat \X Nat) /\ Append(r, e) # <<>> /\ Last(Append(r, e)) = e
<1>1. /\ Append(r, e) \in Seq(Nat \X Nat) /\ Len(Append(r, e)) = Len(r) + 1
      /\ Append(r, e)[Len(r) + 1] = e
    BY AppendProperties
<1>2. Len(r) \in Nat
    BY LenProperties
<1>3. Append(r, e) # <<>>
    BY <1>1, <1>2, EmptySeq
<1> QED
    BY <1>1, <1>3 DEF Last

\* The last range is one of the ranges.
LEMMA LastIn ==
    ASSUME NEW r \in Seq(Nat \X Nat), r # <<>>
    PROVE  Last(r) \in Nat \X Nat /\ Last(r)[1] \in Nat /\ Last(r)[2] \in Nat /\ Len(r) \in 1..Len(r)
<1>1. Len(r) \in 1..Len(r)
    BY LenProperties, EmptySeq
<1>2. r[Len(r)] \in Nat \X Nat
    BY <1>1, ElementOfSeq
<1> QED
    BY <1>1, <1>2 DEF Last

\* The three things a further unit does to the detected spans.
LEMMA WithUnitIs ==
    ASSUME NEW r \in Seq(Nat \X Nat), NEW k \in Nat, k # 0
    PROVE  WithUnit(r, k) \in Seq(Nat \X Nat)
<1>1. <<k - 1, k>> \in Nat \X Nat
    OBVIOUS
<1>2. Append(r, <<k - 1, k>>) \in Seq(Nat \X Nat)
    BY <1>1, LastIs
<1>3. CASE r = <<>>
    BY <1>2, <1>3 DEF WithUnit
<1>4. CASE r # <<>>
    <2>1. Front(r) \in Seq(Nat \X Nat)
        BY <1>4, FrontIs
    <2>2. <<Last(r)[1], k>> \in Nat \X Nat
        BY <1>4, LastIn
    <2>3. Append(Front(r), <<Last(r)[1], k>>) \in Seq(Nat \X Nat)
        BY <2>1, <2>2, LastIs
    <2> QED
        BY <1>2, <2>3 DEF WithUnit
<1> QED
    BY <1>3, <1>4

LoudUpTo(k) == {u \in Nat : 0 < u /\ u <= k /\ u \notin quiet}

\* The spans up to a unit become the spans up to the next.
LEMMA WithUnitRanges ==
    ASSUME NEW r, NEW k \in Nat, k # 0, Ranges(r, k - 1, LoudUpTo(k - 1))
    PROVE  Ranges(WithUnit(r, k), k, LoudUpTo(k))
<1>1. r \in Seq(Nat \X Nat) /\ k - 1 \in Nat /\ k - 1 <= k /\ k <= k
    BY DEF Ranges
<1>2. CASE k \in quiet
    <2>1. LoudUpTo(k) \subseteq LoudUpTo(k - 1)
        BY <1>2 DEF LoudUpTo
    <2>2. Ranges(r, k, LoudUpTo(k))
        BY <1>1, <2>1, FewerRanges
    <2> QED
        BY <1>2, <2>2 DEF WithUnit
<1>3. CASE /\ k \notin quiet
           /\ r # <<>> /\ Last(r)[2] = k - 1 /\ Last(r)[2] - Last(r)[1] < SegmentUnits
    <2>1. WithUnit(r, k) = Append(Front(r), <<Last(r)[1], k>>)
        BY <1>3 DEF WithUnit
    <2>2. Last(r)[1] \in Nat /\ Last(r)[1] <= k - 1 /\ Last(r)[2] <= k
        <3>1. Last(r)[1] \in Nat /\ Len(r) \in 1..Len(r)
            BY <1>1, <1>3, LastIn
        <3>2. Last(r)[1] <= Last(r)[2]
            BY <3>1 DEF Ranges, Last
        <3> QED
            BY <3>1, <3>2, <1>1, <1>3
    <2> DEFINE C == LoudUpTo(k - 1) \cup {u \in Nat : Last(r)[1] < u /\ u <= k}
    <2>3. Ranges(Append(Front(r), <<Last(r)[1], k>>), k, C)
        BY <1>1, <1>3, <2>2, RangeWidened
    <2>4. LoudUpTo(k) \subseteq C
        BY <2>2 DEF LoudUpTo
    <2> HIDE DEF C
    <2> QED
        BY <2>1, <2>3, <2>4, <1>1, FewerRanges
<1>4. CASE /\ k \notin quiet
           /\ ~(r # <<>> /\ Last(r)[2] = k - 1 /\ Last(r)[2] - Last(r)[1] < SegmentUnits)
    <2>1. WithUnit(r, k) = Append(r, <<k - 1, k>>)
        BY <1>4 DEF WithUnit
    <2>2. EndsAt(r, k - 1)
        <3> SUFFICES ASSUME r # <<>>
                     PROVE  r[Len(r)][2] <= k - 1
            BY DEF EndsAt
        <3>1. Len(r) \in 1..Len(r)
            BY <1>1, LastIn
        <3> QED
            BY <3>1 DEF Ranges
    <2> DEFINE C == LoudUpTo(k - 1) \cup {u \in Nat : k - 1 < u /\ u <= k}
    <2>3. Ranges(Append(r, <<k - 1, k>>), k, C)
        BY <1>1, <2>2, RangeAppended
    <2>4. LoudUpTo(k) \subseteq C
        BY DEF LoudUpTo
    <2> HIDE DEF C
    <2> QED
        BY <2>1, <2>3, <2>4, <1>1, FewerRanges
<1> QED
    BY <1>2, <1>3, <1>4

\* No ranges cover nothing.
LEMMA NoRanges == Ranges(<<>>, 0, {})
<1>1. <<>> \in Seq(Nat \X Nat) /\ Len(<<>>) = 0 /\ 1..0 = {}
    BY EmptySeq
<1> QED
    BY <1>1 DEF Ranges

\* The detected spans cover every unit in which something is said.
LEMMA DetectedRanges ==
    ASSUME NEW n \in Nat
    PROVE  Ranges(Detected(Piece(0, n)), n, LoudUpTo(n))
<1> DEFINE p == Piece(0, n)
           V == Seq(Nat \X Nat)
           step == [k \in 1..n |-> [r \in V |-> WithUnit(r, k)]]
           spans == CHOOSE spans : spans = [k \in 0..n |->
                       IF k = 0 THEN <<>> ELSE WithUnit(spans[k - 1], p[k])]
<1>0. Len(p) = n /\ \A i \in 1..n : p[i] = i
    BY WholeIs
<1>1. Detected(p) = spans[n]
    BY <1>0 DEF Detected
<1> HIDE DEF p
<1>2. step \in [1..n -> [V -> V]]
    <2>1. \A k \in 1..n : k \in Nat /\ k # 0
        OBVIOUS
    <2> QED
        BY <2>1, WithUnitIs
<1>3. <<>> \in V
    BY EmptySeq
<1>4. \A k \in 1..n : \A r \in V : step[k][r] = WithUnit(r, k)
    OBVIOUS
<1> HIDE DEF step, V
<1>5. PICK f : Loop(f, V, <<>>, n, step)
    BY <1>2, <1>3, LoopExists, Zenon
<1>6. f \in [0..n -> V] /\ f[0] = <<>> /\ \A k \in 1..n : f[k] = step[k][f[k - 1]]
    BY <1>5 DEF Loop
<1>7. f = [k \in 0..n |-> IF k = 0 THEN <<>> ELSE WithUnit(f[k - 1], p[k])]
    <2>1. ASSUME NEW k \in 0..n
          PROVE  f[k] = IF k = 0 THEN <<>> ELSE WithUnit(f[k - 1], p[k])
        <3>1. CASE k = 0
            BY <3>1, <1>6
        <3>2. CASE k # 0
            <4>1. k \in 1..n /\ k - 1 \in 0..n
                BY <3>2
            <4>2. f[k - 1] \in V /\ p[k] = k
                BY <4>1, <1>0, <1>6
            <4> QED
                BY <3>2, <4>1, <4>2, <1>4, <1>6
        <3> QED
            BY <3>1, <3>2
    <2> QED
        BY <2>1, <1>6
<1>8. spans = [k \in 0..n |-> IF k = 0 THEN <<>> ELSE WithUnit(spans[k - 1], p[k])]
    BY <1>7
<1> HIDE DEF spans
<1>9. 0 \in 0..n /\ \A k \in 1..n : k \in 0..n /\ k # 0
    OBVIOUS
<1>10. spans[0] = <<>>
    BY <1>8, <1>9, Zenon
<1>11. ASSUME NEW k \in 1..n
       PROVE  spans[k] = WithUnit(spans[k - 1], k)
    <2>1. spans[k] = WithUnit(spans[k - 1], p[k])
        BY <1>8, <1>9, Zenon
    <2> QED
        BY <2>1, <1>0
<1> DEFINE good == {k \in 0..n : Ranges(spans[k], k, LoudUpTo(k))}
<1>12. 0 \in good
    <2>1. LoudUpTo(0) = {}
        BY DEF LoudUpTo
    <2> QED
        BY <2>1, <1>9, <1>10, NoRanges
<1>13. ASSUME NEW k \in 1..n, k - 1 \in good
       PROVE  k \in good
    <2>1. Ranges(spans[k - 1], k - 1, LoudUpTo(k - 1)) /\ k \in Nat /\ k # 0
        BY <1>13
    <2>2. Ranges(WithUnit(spans[k - 1], k), k, LoudUpTo(k))
        BY <2>1, WithUnitRanges
    <2> QED
        BY <2>2, <1>9, <1>11
<1>14. \A k \in 1..n : k - 1 \in good => k \in good
    BY <1>13
<1> HIDE DEF good
<1>15. \A k \in 0..n : k \in good
    BY <1>12, <1>14, OneByOne, Zenon
<1>16. n \in good
    BY <1>15
<1> QED
    BY <1>1, <1>16 DEF good, p

StartsBy(r, x) == r # <<>> => Last(r)[1] <= x

\* The two things a further span does to the padded ranges.
LEMMA WidenedIs ==
    ASSUME NEW r \in Seq(Nat \X Nat), NEW d \in Nat \X Nat, NEW n \in Nat
    PROVE  Widened(r, d, n) \in Seq(Nat \X Nat)
<1> DEFINE first == IF d[1] = 0 THEN 0 ELSE d[1] - 1
           last  == Least(d[2] + 1, n)
<1>1. first \in Nat /\ last \in Nat
    BY DEF Least
<1>2. Widened(r, d, n) = IF r # <<>> /\ Last(r)[2] >= first
                         THEN Append(Front(r), <<Last(r)[1], Greatest(Last(r)[2], last)>>)
                         ELSE Append(r, <<first, last>>)
    BY DEF Widened
<1> HIDE DEF first, last
<1>3. Append(r, <<first, last>>) \in Seq(Nat \X Nat)
    BY <1>1, LastIs
<1>4. ASSUME r # <<>>
      PROVE  Append(Front(r), <<Last(r)[1], Greatest(Last(r)[2], last)>>) \in Seq(Nat \X Nat)
    <2>1. Front(r) \in Seq(Nat \X Nat)
        BY <1>4, FrontIs
    <2>2. Last(r)[1] \in Nat /\ Last(r)[2] \in Nat
        BY <1>4, LastIn
    <2>3. <<Last(r)[1], Greatest(Last(r)[2], last)>> \in Nat \X Nat
        BY <1>1, <2>2 DEF Greatest
    <2> QED
        BY <2>1, <2>3, LastIs
<1> QED
    BY <1>2, <1>3, <1>4

\* Padded and joined, the ranges still lie apart and cover the spans.
LEMMA WidenedRanges ==
    ASSUME NEW n \in Nat, NEW r, NEW C, Ranges(r, n, C),
           NEW d \in Nat \X Nat, d[1] <= d[2], d[2] <= n, StartsBy(r, d[1])
    PROVE  /\ Ranges(Widened(r, d, n), n, C \cup {u \in Nat : d[1] < u /\ u <= d[2]})
           /\ StartsBy(Widened(r, d, n), d[1])
<1> DEFINE x == d[1]
           y == d[2]
           first == IF x = 0 THEN 0 ELSE x - 1
           last  == Least(y + 1, n)
           W == Widened(r, d, n)
           D == C \cup {u \in Nat : x < u /\ u <= y}
<1>0. x \in Nat /\ y \in Nat /\ x <= y /\ y <= n
    OBVIOUS
<1>2. W = IF r # <<>> /\ Last(r)[2] >= first
          THEN Append(Front(r), <<Last(r)[1], Greatest(Last(r)[2], last)>>)
          ELSE Append(r, <<first, last>>)
    BY DEF Widened
<1>3. StartsBy(r, x) /\ r \in Seq(Nat \X Nat)
    BY DEF Ranges
<1> SUFFICES Ranges(W, n, D) /\ StartsBy(W, x)
    OBVIOUS
<1> HIDE DEF x, y, W
<1>1. first \in Nat /\ last \in Nat /\ first <= x /\ y <= last /\ last <= n /\ n <= n
    BY <1>0 DEF Least
<1> HIDE DEF first, last
<1>4. CASE r # <<>> /\ Last(r)[2] >= first
    <2> DEFINE z == Greatest(Last(r)[2], last)
               e == <<Last(r)[1], z>>
               E == C \cup {u \in Nat : Last(r)[1] < u /\ u <= z}
    <2>1. Last(r)[1] \in Nat /\ Last(r)[2] \in Nat /\ Len(r) \in 1..Len(r)
        BY <1>3, <1>4, LastIn
    <2>2. Last(r)[2] <= n /\ Last(r)[1] <= x
        BY <2>1, <1>3, <1>4 DEF Ranges, Last, StartsBy
    <2>3. z \in Nat /\ Last(r)[2] <= z /\ last <= z /\ z <= n
        BY <1>1, <2>1, <2>2 DEF Greatest
    <2>4. Front(r) \in Seq(Nat \X Nat)
        BY <1>3, <1>4, FrontIs
    <2>5. e \in Nat \X Nat /\ e[1] = Last(r)[1]
        BY <2>1, <2>3
    <2>6. W = Append(Front(r), e)
        BY <1>2, <1>4
    <2> HIDE DEF z
    <2>7. Ranges(Append(Front(r), e), n, E)
        BY <1>1, <1>4, <2>3, RangeWidened
    <2>8. D \subseteq E
        BY <1>0, <1>1, <2>1, <2>2, <2>3
    <2> HIDE DEF D, E, e
    <2>9. Ranges(W, n, D)
        BY <2>6, <2>7, <2>8, <1>1, FewerRanges
    <2>10. Last(W) = e
        BY <2>4, <2>5, <2>6, LastIs
    <2> QED
        BY <2>2, <2>5, <2>9, <2>10 DEF StartsBy
<1>5. CASE ~(r # <<>> /\ Last(r)[2] >= first)
    <2> DEFINE e == <<first, last>>
               E == C \cup {u \in Nat : first < u /\ u <= last}
    <2>1. e \in Nat \X Nat /\ e[1] = first
        BY <1>1
    <2>2. W = Append(r, e)
        BY <1>2, <1>5
    <2>3. EndsAt(r, first)
        <3> SUFFICES ASSUME r # <<>>
                     PROVE  r[Len(r)][2] <= first
            BY DEF EndsAt
        <3>1. Last(r)[2] \in Nat
            BY <1>3, LastIn
        <3> QED
            BY <3>1, <1>1, <1>5 DEF Last
    <2>4. first <= last
        BY <1>0, <1>1
    <2>5. Ranges(Append(r, e), n, E)
        BY <1>1, <2>3, <2>4, RangeAppended
    <2>6. D \subseteq E
        BY <1>0, <1>1
    <2> HIDE DEF D, E, e
    <2>7. Ranges(W, n, D)
        BY <2>2, <2>5, <2>6, <1>1, FewerRanges
    <2>8. Last(W) = e
        BY <2>1, <2>2, <1>3, LastIs
    <2> QED
        BY <1>1, <2>1, <2>7, <2>8 DEF StartsBy
<1> QED
    BY <1>4, <1>5

\* SenseVoice says what is spoken, whatever spans Silero cuts.
LEMMA SenseVoiceSays ==
    ASSUME NEW n \in Nat
    PROVE  Says(SenseVoiceText(Piece(0, n)), Spoken(0, n))
<1> DEFINE p == Piece(0, n)
           V == Seq(Nat \X Nat)
           spans == Detected(p)
           l == Len(spans)
           step == [k \in 1..l |-> [r \in V |-> Widened(r, spans[k], n)]]
           ranges == CHOOSE ranges : ranges = [k \in 0..l |->
                       IF k = 0 THEN <<>> ELSE Widened(ranges[k - 1], spans[k], Len(p))]
           wide == ranges[l]
           seqs == [k \in DOMAIN wide |-> WhisperText(SubSeq(p, wide[k][1] + 1, wide[k][2]))]
<1>0. Len(p) = n
    BY WholeIs
<1>1. SenseVoiceText(p) = FlattenSeq(seqs)
    BY DEF SenseVoiceText
<1>2. Ranges(spans, n, LoudUpTo(n))
    BY DetectedRanges
<1> HIDE DEF spans, wide, seqs
<1>3. /\ l \in Nat /\ \A i \in 1..l : spans[i] \in Nat \X Nat
      /\ \A i \in 1..l : spans[i][1] \in Nat /\ spans[i][2] \in Nat
    BY <1>2, RangesAre
<1>4. /\ \A i \in 1..l : spans[i][1] <= spans[i][2] /\ spans[i][2] <= n
      /\ \A i, j \in 1..l : i < j => spans[i][2] <= spans[j][1]
      /\ \A u \in LoudUpTo(n) : \E i \in 1..l : spans[i][1] < u /\ u <= spans[i][2]
    BY <1>2 DEF Ranges
<1> HIDE DEF l, p
<1>5. step \in [1..l -> [V -> V]]
    BY <1>3, WidenedIs
<1>6. <<>> \in V
    BY EmptySeq
<1>7. \A k \in 1..l : \A r \in V : step[k][r] = Widened(r, spans[k], n)
    OBVIOUS
<1> HIDE DEF step, V
<1>23. l \in Nat
    BY <1>3
<1>8. PICK f : Loop(f, V, <<>>, l, step)
    BY <1>5, <1>6, <1>23, LoopExists, Zenon
<1>9. f \in [0..l -> V] /\ f[0] = <<>> /\ \A k \in 1..l : f[k] = step[k][f[k - 1]]
    BY <1>8 DEF Loop
<1>10. f = [k \in 0..l |-> IF k = 0 THEN <<>> ELSE Widened(f[k - 1], spans[k], Len(p))]
    <2>1. ASSUME NEW k \in 0..l
          PROVE  f[k] = IF k = 0 THEN <<>> ELSE Widened(f[k - 1], spans[k], Len(p))
        <3>1. CASE k = 0
            BY <3>1, <1>9
        <3>2. CASE k # 0
            <4>1. k \in 1..l /\ k - 1 \in 0..l
                BY <3>2, <1>23
            <4>2. f[k - 1] \in V
                BY <4>1, <1>9
            <4> QED
                BY <3>2, <4>1, <4>2, <1>0, <1>7, <1>9
        <3> QED
            BY <3>1, <3>2
    <2> QED
        BY <2>1, <1>9
<1>11. ranges = [k \in 0..l |-> IF k = 0 THEN <<>> ELSE Widened(ranges[k - 1], spans[k], Len(p))]
    BY <1>10
<1> HIDE DEF ranges
<1>12. 0 \in 0..l /\ \A k \in 1..l : k \in 0..l /\ k # 0
    BY <1>23
<1>13. ranges[0] = <<>>
    BY <1>11, <1>12, Zenon
<1>14. \A k \in 1..l : ranges[k] = Widened(ranges[k - 1], spans[k], n)
    <2>1. \A k \in 1..l : ranges[k] = Widened(ranges[k - 1], spans[k], Len(p))
        BY <1>11, <1>12, Zenon
    <2> QED
        BY <2>1, <1>0
<1> DEFINE C(k) == {u \in Nat : \E i \in 1..k : spans[i][1] < u /\ u <= spans[i][2]}
           good == {k \in 0..l : /\ Ranges(ranges[k], n, C(k))
                                 /\ k # 0 => StartsBy(ranges[k], spans[k][1])}
<1>15. 0 \in good
    <2>1. C(0) = {} /\ 0 <= n /\ 0 \in Nat
        OBVIOUS
    <2>2. Ranges(<<>>, n, {})
        BY <2>1, NoRanges, FewerRanges
    <2> QED
        BY <2>1, <2>2, <1>12, <1>13
<1>16. ASSUME NEW k \in 1..l, k - 1 \in good
       PROVE  k \in good
    <2>1. /\ k \in Nat /\ k \in 0..l /\ k # 0 /\ k - 1 \in Nat
          /\ \A i : i \in 1..k <=> i \in 1..(k - 1) \/ i = k
        BY <1>23
    <2> DEFINE r == ranges[k - 1]
               d == spans[k]
    <2>2. Ranges(r, n, C(k - 1)) /\ (k - 1 # 0 => StartsBy(r, spans[k - 1][1]))
        BY <1>16
    <2>3. d \in Nat \X Nat /\ d[1] \in Nat /\ d[2] \in Nat /\ d[1] <= d[2] /\ d[2] <= n
        BY <1>3, <1>4
    <2>4. StartsBy(r, d[1])
        <3>1. CASE k - 1 = 0
            BY <3>1, <1>13 DEF StartsBy
        <3>2. CASE k - 1 # 0
            <4> SUFFICES ASSUME r # <<>>
                         PROVE  Last(r)[1] <= d[1]
                BY DEF StartsBy
            <4>1. k - 1 \in 1..l /\ k - 1 < k
                BY <3>2, <2>1, <1>23
            <4>2. /\ spans[k - 1][1] \in Nat /\ spans[k - 1][2] \in Nat
                  /\ spans[k - 1][1] <= spans[k - 1][2] /\ spans[k - 1][2] <= d[1]
                BY <4>1, <1>3, <1>4
            <4>3. Last(r)[1] <= spans[k - 1][1]
                BY <2>2, <3>2 DEF StartsBy
            <4>4. Last(r)[1] \in Nat
                <5>1. r \in Seq(Nat \X Nat)
                    BY <2>2 DEF Ranges
                <5> QED
                    BY <5>1, LastIn
            <4> QED
                BY <4>2, <4>3, <4>4, <2>3
        <3> QED
            BY <3>1, <3>2
    <2>5. C(k) = C(k - 1) \cup {u \in Nat : d[1] < u /\ u <= d[2]}
        BY <2>1
    <2> HIDE DEF C, r
    <2>9. d[1] <= d[2] /\ d[2] <= n /\ d \in Nat \X Nat
        BY <2>3
    <2> HIDE DEF d
    <2>6. Ranges(Widened(r, d, n), n, C(k - 1) \cup {u \in Nat : d[1] < u /\ u <= d[2]})
        BY <2>2, <2>4, <2>9, WidenedRanges
    <2>7. StartsBy(Widened(r, d, n), d[1])
        BY <2>2, <2>4, <2>9, WidenedRanges
    <2>8. ranges[k] = Widened(r, d, n)
        BY <1>14 DEF r, d
    <2>10. Ranges(ranges[k], n, C(k)) /\ StartsBy(ranges[k], d[1])
        BY <2>5, <2>6, <2>7, <2>8
    <2> QED
        BY <2>1, <2>10 DEF d
<1>17. \A k \in 1..l : k - 1 \in good => k \in good
    BY <1>16
<1> HIDE DEF good
<1>18. \A k \in 0..l : k \in good
    BY <1>23, <1>15, <1>17, OneByOne, Zenon
<1>19. l \in good
    BY <1>23, <1>18
<1>20. Ranges(wide, n, LoudUpTo(n))
    <2>1. Ranges(wide, n, C(l))
        BY <1>19 DEF good, wide
    <2>2. LoudUpTo(n) \subseteq C(l)
        BY <1>4 DEF LoudUpTo
    <2>3. n <= n
        OBVIOUS
    <2> HIDE DEF C
    <2> QED
        BY <2>1, <2>2, <2>3, FewerRanges
<1> DEFINE m == Len(wide)
           part == [k \in 1..m |-> Spoken(wide[k][1], wide[k][2])]
<1>21. /\ m \in Nat /\ DOMAIN wide = 1..m
       /\ \A i \in 1..m : wide[i][1] \in Nat /\ wide[i][2] \in Nat
       /\ \A i \in 1..m : wide[i][1] <= wide[i][2] /\ wide[i][2] <= n
       /\ \A i, j \in 1..m : i < j => wide[i][2] <= wide[j][1]
       /\ \A u \in LoudUpTo(n) : \E i \in 1..m : wide[i][1] < u /\ u <= wide[i][2]
    <2>1. wide \in Seq(Nat \X Nat)
        BY <1>20 DEF Ranges
    <2>2. m \in Nat /\ DOMAIN wide = 1..m
        BY <2>1, LenProperties
    <2>3. \A i \in 1..m : wide[i][1] \in Nat /\ wide[i][2] \in Nat
        BY <1>20, RangesAre
    <2> QED
        BY <2>2, <2>3, <1>20 DEF Ranges
<1> HIDE DEF m
<1>22. seqs = [k \in 1..m |-> WhisperText(SubSeq(p, wide[k][1] + 1, wide[k][2]))]
    BY <1>21 DEF seqs
<1>24. ASSUME NEW k \in 1..m
       PROVE  Says(seqs[k], part[k])
    <2> DEFINE x == wide[k][1]
               y == wide[k][2]
    <2>1. x \in Nat /\ y \in Nat /\ x <= y /\ y <= n
        BY <1>21
    <2>2. seqs[k] = WhisperText(SubSeq(Piece(0, n), x + 1, y)) /\ part[k] = Spoken(x, y)
        BY <1>22 DEF p
    <2> HIDE DEF x, y
    <2>3. 0 \in Nat /\ 0 <= n /\ y <= n - 0 /\ 0 + x = x /\ 0 + y = y
        BY <2>1
    <2>4. SubSeq(Piece(0, n), x + 1, y) = Piece(0 + x, 0 + y)
        BY <2>1, <2>3, PartOfPiece
    <2>5. Says(WhisperText(Piece(x, y)), Spoken(x, y))
        BY <2>1, WhisperSays
    <2> QED
        BY <2>2, <2>3, <2>4, <2>5
<1>25. seqs \in Seq(Seq(Nat)) /\ m = Len(seqs)
    <2>1. \A k \in 1..m : WhisperText(SubSeq(p, wide[k][1] + 1, wide[k][2])) \in Seq(Nat)
        BY <1>22, <1>24 DEF Says
    <2>2. seqs \in [1..m -> Seq(Nat)] /\ m \in Nat
        BY <2>1, <1>21, <1>22
    <2>3. seqs \in Seq(Seq(Nat))
        BY <2>2, SeqDef
    <2> QED
        BY <2>2, <2>3, LenProperties
<1>26. ASSUME NEW j \in 1..m, NEW k \in 1..m, j < k, NEW s \in part[j], NEW t \in part[k]
       PROVE  s < t
    <2>1. s \in Nat /\ s <= wide[j][2] /\ t \in Nat /\ wide[k][1] < t
        BY DEF Spoken
    <2>2. wide[j][2] \in Nat /\ wide[k][1] \in Nat /\ wide[j][2] <= wide[k][1]
        BY <1>21, <1>26
    <2> QED
        BY <2>1, <2>2
<1>27. UNION {part[k] : k \in 1..m} = Spoken(0, n)
    <2>1. ASSUME NEW k \in 1..m, NEW u \in part[k]
          PROVE  u \in Spoken(0, n)
        <3>1. u \in Nat /\ wide[k][1] < u /\ u <= wide[k][2] /\ u \notin quiet
            BY DEF Spoken
        <3>2. wide[k][1] \in Nat /\ wide[k][2] \in Nat /\ wide[k][2] <= n
            BY <1>21
        <3> QED
            BY <3>1, <3>2 DEF Spoken
    <2>2. ASSUME NEW u \in Spoken(0, n)
          PROVE  \E k \in 1..m : u \in part[k]
        <3>1. u \in LoudUpTo(n) /\ u \in Nat /\ u \notin quiet
            BY DEF Spoken, LoudUpTo
        <3>2. PICK k \in 1..m : wide[k][1] < u /\ u <= wide[k][2]
            BY <3>1, <1>21
        <3>3. u \in Spoken(wide[k][1], wide[k][2])
            BY <3>1, <3>2 DEF Spoken
        <3> QED
            BY <3>3
    <2> QED
        BY <2>1, <2>2
<1> HIDE DEF part
<1>28. InTurn(seqs, part, m)
    BY <1>24, <1>25, <1>26 DEF InTurn
<1>29. Says(FlattenSeq(seqs), UNION {part[k] : k \in 1..m})
    BY <1>28, FlattenSays
<1> QED
    BY <1>1, <1>27, <1>29 DEF p

\* The words of any audio are a text.
LEMMA WordsAre ==
    ASSUME NEW p \in Seq(Nat)
    PROVE  Words(p) \in Seq(Nat)
<1> DEFINE n == Len(p)
           step == [k \in 1..n |-> [v \in Seq(Nat) |->
                       IF p[k] \in quiet THEN v ELSE Append(v, p[k])]]
           said == CHOOSE said : said = [k \in 0..n |->
                       IF k = 0 THEN <<>>
                       ELSE IF p[k] \in quiet THEN said[k - 1]
                       ELSE Append(said[k - 1], p[k])]
<1>1. p \in Seq(Nat) /\ n \in Nat /\ \A i \in 1..n : p[i] \in Nat
    BY LenProperties, ElementOfSeq
<1>2. Words(p) = said[n]
    BY DEF Words
<1> HIDE DEF n
<1>3. step \in [1..n -> [Seq(Nat) -> Seq(Nat)]] /\ <<>> \in Seq(Nat)
    BY <1>1, AppendProperties, EmptySeq
<1>4. \A k \in 1..n : \A v \in Seq(Nat) :
          step[k][v] = IF p[k] \in quiet THEN v ELSE Append(v, p[k])
    OBVIOUS
<1> HIDE DEF step
<1>13. step \in [1..n -> [Seq(Nat) -> Seq(Nat)]]
    BY <1>3
<1>14. <<>> \in Seq(Nat)
    BY <1>3
<1>15. n \in Nat
    BY <1>1
<1>19. PICK f : Loop(f, Seq(Nat), <<>>, n, step)
    BY <1>13, <1>14, <1>15, LoopExists, Zenon
<1>5. f \in [0..n -> Seq(Nat)] /\ f[0] = <<>> /\ \A k \in 1..n : f[k] = step[k][f[k - 1]]
    BY <1>19 DEF Loop
<1>6. f = [k \in 0..n |-> IF k = 0 THEN <<>>
                          ELSE IF p[k] \in quiet THEN f[k - 1]
                          ELSE Append(f[k - 1], p[k])]
    <2>1. ASSUME NEW k \in 0..n
          PROVE  f[k] = IF k = 0 THEN <<>>
                        ELSE IF p[k] \in quiet THEN f[k - 1]
                        ELSE Append(f[k - 1], p[k])
        <3>1. CASE k = 0
            BY <3>1, <1>5
        <3>2. CASE k # 0
            <4>1. k \in 1..n /\ k - 1 \in 0..n
                BY <3>2, <1>1
            <4>2. f[k - 1] \in Seq(Nat)
                BY <4>1, <1>5
            <4> QED
                BY <3>2, <4>1, <4>2, <1>4, <1>5
        <3> QED
            BY <3>1, <3>2
    <2> QED
        BY <2>1, <1>5
<1>7. said = [k \in 0..n |-> IF k = 0 THEN <<>>
                             ELSE IF p[k] \in quiet THEN said[k - 1]
                             ELSE Append(said[k - 1], p[k])]
    BY <1>6
<1> HIDE DEF said
<1>16. 0 \in 0..n /\ \A k \in 1..n : k \in 0..n /\ k # 0
    BY <1>1
<1>8. said[0] = <<>> /\ \A k \in 1..n : said[k] = IF p[k] \in quiet THEN said[k - 1]
                                                  ELSE Append(said[k - 1], p[k])
    <2>1. said[0] = <<>>
        BY <1>7, <1>16, Zenon
    <2>2. ASSUME NEW k \in 1..n
          PROVE  said[k] = IF p[k] \in quiet THEN said[k - 1] ELSE Append(said[k - 1], p[k])
        BY <1>7, <1>16, Zenon
    <2> QED
        BY <2>1, <2>2
<1> DEFINE good == {k \in 0..n : said[k] \in Seq(Nat)}
<1>9. 0 \in good
    BY <1>3, <1>8, <1>16
<1>10. ASSUME NEW k \in 1..n, k - 1 \in good
       PROVE  k \in good
    <2>1. said[k - 1] \in Seq(Nat) /\ p[k] \in Nat
        BY <1>1, <1>10
    <2>2. Append(said[k - 1], p[k]) \in Seq(Nat)
        BY <2>1, AppendProperties
    <2>3. said[k] \in Seq(Nat)
        BY <1>8, <2>1, <2>2
    <2> QED
        BY <2>3, <1>16
<1> HIDE DEF good
<1>17. \A k \in 1..n : k - 1 \in good => k \in good
    BY <1>10
<1>18. \A k \in 0..n : k \in good
    BY <1>15, <1>9, <1>17, OneByOne, Zenon
<1>11. n \in good
    BY <1>15, <1>18
<1> QED
    BY <1>2, <1>11 DEF good

-----------------------------------------------------------------------------
(* Qwen3: windows that overlap, and the words of an overlap found again.   *)
LEMMA GreatestOf ==
    ASSUME NEW n \in Nat, NEW N, N \subseteq 1..n, N # {}
    PROVE  \E k \in N : \A j \in N : j <= k
<1> DEFINE M == {n - k : k \in N}
<1>0. \A k \in N : k \in 1..n /\ n - k \in Nat
    OBVIOUS
<1>1. M \subseteq Nat /\ M # {}
    BY <1>0
<1>2. PICK m \in M : \A j \in M : m <= j
    BY <1>1, LeastOf
<1>3. PICK k \in N : m = n - k
    OBVIOUS
<1>4. \A j \in N : n - k <= n - j
    BY <1>2, <1>3
<1>5. \A j \in N : j \in Nat
    OBVIOUS
<1> QED
    BY <1>4, <1>5

\* A slice of a text is a text.
LEMMA SliceIs ==
    ASSUME NEW w \in Seq(Nat), NEW m \in Nat, NEW n \in Nat, m <= n, n <= Len(w)
    PROVE  /\ SubSeq(w, m + 1, n) \in Seq(Nat) /\ Len(SubSeq(w, m + 1, n)) = n - m
           /\ \A i \in 1..(n - m) : SubSeq(w, m + 1, n)[i] = w[m + i]
<1> DEFINE s == SubSeq(w, m + 1, n)
           t == [i \in 1..(n - m) |-> w[m + i]]
<1>0. Len(w) \in Nat /\ \A i \in 1..Len(w) : w[i] \in Nat
    BY LenProperties, ElementOfSeq
<1>1. s = t
    <2>1. s = [i \in 1..(1 + n - (m + 1)) |-> w[i + (m + 1) - 1]]
        BY DEF SubSeq
    <2>2. 1 + n - (m + 1) = n - m /\ \A i \in 1..(n - m) : i + (m + 1) - 1 = m + i
        OBVIOUS
    <2> QED
        BY <2>1, <2>2
<1>2. \A i \in 1..(n - m) : m + i \in 1..Len(w)
    BY <1>0
<1>3. t \in [1..(n - m) -> Nat] /\ n - m \in Nat
    BY <1>0, <1>2
<1> HIDE DEF s, t
<1>4. t \in Seq(Nat)
    BY <1>3, SeqDef
<1>5. Len(t) = n - m
    BY <1>3, <1>4, LenProperties
<1> QED
    BY <1>1, <1>4, <1>5 DEF s, t

\* A slice of a text says the units of the slice.
LEMMA SliceSays ==
    ASSUME NEW w, NEW S, Says(w, S), NEW m \in Nat, NEW n \in Nat, m <= n, n <= Len(w)
    PROVE  Says(SubSeq(w, m + 1, n), {w[x] : x \in (m + 1)..n})
<1> DEFINE s == SubSeq(w, m + 1, n)
           T == {w[x] : x \in (m + 1)..n}
<1>1. /\ w \in Seq(Nat) /\ Len(w) \in Nat
      /\ \A i, j \in 1..Len(w) : i < j => w[i] < w[j]
    BY SaysIs
<1>2. s \in Seq(Nat) /\ Len(s) = n - m /\ \A i \in 1..(n - m) : s[i] = w[m + i]
    BY <1>1, SliceIs
<1> HIDE DEF s
<1>3. \A i \in 1..Len(s) : m + i \in (m + 1)..n /\ m + i \in 1..Len(w)
    BY <1>1, <1>2
<1>4. \A i \in 1..Len(s) : s[i] \in T
    BY <1>2, <1>3
<1>5. ASSUME NEW i \in 1..Len(s), NEW j \in 1..Len(s), i < j
      PROVE  s[i] < s[j]
    <2>1. m + i < m + j /\ m + i \in 1..Len(w) /\ m + j \in 1..Len(w)
        BY <1>2, <1>3, <1>5
    <2>2. w[m + i] < w[m + j]
        BY <2>1, <1>1
    <2> QED
        BY <2>2, <1>2
<1>6. ASSUME NEW u \in T
      PROVE  \E i \in 1..Len(s) : s[i] = u
    <2>1. PICK x \in (m + 1)..n : u = w[x]
        OBVIOUS
    <2>2. x - m \in 1..Len(s) /\ x - m \in 1..(n - m) /\ m + (x - m) = x
        BY <1>2
    <2>3. s[x - m] = u
        BY <2>1, <2>2, <1>2
    <2> QED
        BY <2>2, <2>3
<1> HIDE DEF T
<1> QED
    BY <1>2, <1>4, <1>5, <1>6, SaysIntro DEF s, T

\* Two texts joined: one after the other, where nothing is said again, or
\* without the words of the second up to the end of what is.
LEMMA JoinedIs ==
    ASSUME NEW v \in Seq(Nat), NEW w \in Seq(Nat)
    PROVE  \/ /\ Joined(v, w) = v \o w
              /\ \A k \in 1..Len(v), r \in 0..SkippedUnits :
                    sparse \/ ~SaidAgain(v, w, k, r)
           \/ \E k \in 1..Len(v), r \in 0..SkippedUnits :
                 /\ SaidAgain(v, w, k, r)
                 /\ Joined(v, w) = v \o SubSeq(w, k + r + 1, Len(w))
<1> DEFINE enough == IF sparse THEN OverlapUnits + 1 ELSE 1
           starts(k) == {r \in 0..SkippedUnits : SaidAgain(v, w, k, r)}
           lengths == {k \in enough..Len(v) : starts(k) # {}}
           longest == Max(lengths)
           first == Min(starts(longest))
<1>1. Joined(v, w) = IF lengths = {} THEN v \o w
                     ELSE v \o SubSeq(w, longest + first + 1, Len(w))
    BY DEF Joined
<1>2. Len(v) \in Nat
    BY LenProperties
<1>3. enough \in Nat /\ 1 <= enough /\ (~sparse => enough = 1)
    BY Sizes
<1> HIDE DEF enough
<1>4. lengths \subseteq 1..Len(v)
    BY <1>2, <1>3
<1>5. CASE lengths = {}
    <2>1. ASSUME NEW k \in 1..Len(v), NEW r \in 0..SkippedUnits, ~sparse, SaidAgain(v, w, k, r)
          PROVE  FALSE
        <3>1. r \in starts(k) /\ k \in enough..Len(v)
            BY <2>1, <1>3
        <3> QED
            BY <3>1, <1>5
    <2> HIDE DEF lengths, longest, first
    <2> QED
        BY <2>1, <1>1, <1>5
<1>6. CASE lengths # {}
    <2> HIDE DEF lengths
    <2>1. \E k \in lengths : \A j \in lengths : j <= k
        BY <1>2, <1>4, <1>6, GreatestOf
    <2>2. \A k, j \in lengths : j <= k <=> k >= j
        BY <1>2, <1>4
    <2>3. longest \in lengths
        BY <2>1, <2>2 DEF Max
    <2> HIDE DEF longest
    <2>4. longest \in 1..Len(v) /\ starts(longest) # {}
        BY <2>3, <1>4 DEF lengths
    <2>5. starts(longest) \subseteq Nat
        OBVIOUS
    <2>6. \A r \in starts(longest) : r \in 0..SkippedUnits /\ SaidAgain(v, w, longest, r)
        OBVIOUS
    <2> HIDE DEF starts
    <2>7. \E r \in starts(longest) : \A j \in starts(longest) : r <= j
        BY <2>4, <2>5, LeastOf
    <2>8. first \in starts(longest)
        BY <2>7 DEF Min
    <2> HIDE DEF first
    <2> QED
        BY <2>4, <2>6, <2>8, <1>1, <1>6
<1> QED
    BY <1>5, <1>6

\* Either way it is a text.
LEMMA JoinedText ==
    ASSUME NEW v \in Seq(Nat), NEW w \in Seq(Nat)
    PROVE  Joined(v, w) \in Seq(Nat)
<1>1. CASE Joined(v, w) = v \o w
    BY <1>1, ConcatProperties
<1>2. CASE \E k \in 1..Len(v), r \in 0..SkippedUnits :
              /\ SaidAgain(v, w, k, r)
              /\ Joined(v, w) = v \o SubSeq(w, k + r + 1, Len(w))
    <2>1. PICK k \in 1..Len(v), r \in 0..SkippedUnits :
              /\ SaidAgain(v, w, k, r)
              /\ Joined(v, w) = v \o SubSeq(w, k + r + 1, Len(w))
        BY <1>2
    <2>2. Len(w) \in Nat /\ k + r <= Len(w) /\ k + r \in Nat
        BY <2>1, LenProperties DEF SaidAgain
    <2>3. SubSeq(w, (k + r) + 1, Len(w)) \in Seq(Nat)
        BY <2>2, SliceIs
    <2> QED
        BY <2>1, <2>3, ConcatProperties
<1> QED
    BY <1>1, <1>2, JoinedIs

\* The last word of the text is the greatest.
LEMMA LastWord ==
    ASSUME NEW v, NEW S, Says(v, S), NEW u \in S
    PROVE  Len(v) \in 1..Len(v) /\ v[Len(v)] \in S /\ u <= v[Len(v)]
<1>1. /\ Len(v) \in Nat /\ \A i \in 1..Len(v) : v[i] \in S /\ v[i] \in Nat
      /\ \A i, j \in 1..Len(v) : i < j => v[i] < v[j]
      /\ \A x \in S : \E i \in 1..Len(v) : v[i] = x
    BY SaysIs
<1>2. PICK i \in 1..Len(v) : v[i] = u
    BY <1>1
<1>3. Len(v) \in 1..Len(v)
    BY <1>1
<1>4. v[i] <= v[Len(v)]
    <2>1. v[i] \in Nat /\ v[Len(v)] \in Nat
        BY <1>1, <1>3
    <2>2. CASE i = Len(v)
        BY <2>1, <2>2
    <2>3. CASE i # Len(v)
        <3>1. i < Len(v)
            BY <2>3, <1>1
        <3>2. v[i] < v[Len(v)]
            BY <3>1, <1>1, <1>3
        <3> QED
            BY <3>2, <2>1
    <2> QED
        BY <2>2, <2>3
<1> QED
    BY <1>1, <1>2, <1>3, <1>4

\* Where the text of an overlap ends in the segment, both have all of it.
LEMMA OverlapFound ==
    ASSUME NEW v, NEW w, NEW s \in Nat, NEW e \in Nat, NEW f \in Nat, s <= e, e <= f,
           Says(v, Spoken(0, e)), Says(w, Spoken(s, f)), Spoken(s, e) # {}
    PROVE  \E c \in 1..Len(w) :
              c <= Len(v) /\ w[c] = v[Len(v)] /\ SaidAgain(v, w, c, 0)
<1> DEFINE T == Len(v)
           x == v[T]
<1>1. /\ v \in Seq(Nat) /\ T \in Nat /\ \A i \in 1..T : v[i] \in Spoken(0, e) /\ v[i] \in Nat
      /\ \A i, j \in 1..T : i < j => v[i] < v[j]
      /\ \A u \in Spoken(0, e) : \E i \in 1..T : v[i] = u
    BY SaysIs
<1>2. /\ w \in Seq(Nat) /\ Len(w) \in Nat
      /\ \A i \in 1..Len(w) : w[i] \in Spoken(s, f) /\ w[i] \in Nat
      /\ \A i, j \in 1..Len(w) : i < j => w[i] < w[j]
      /\ \A u \in Spoken(s, f) : \E i \in 1..Len(w) : w[i] = u
    BY SaysIs
<1>3. PICK y : y \in Spoken(s, e)
    OBVIOUS
<1>4. y \in Spoken(0, e) /\ y \in Nat /\ s < y
    BY <1>3 DEF Spoken
<1>5. T \in 1..T /\ x \in Spoken(0, e) /\ y <= x
    BY <1>4, LastWord
<1>6. \A u \in Spoken(0, e) : u <= x
    BY LastWord
<1> HIDE DEF x
<1>7. x \in Nat /\ s < x /\ x <= e /\ x \notin quiet
    BY <1>4, <1>5 DEF Spoken
<1>8. x \in Spoken(s, f)
    BY <1>7 DEF Spoken
<1>9. PICK c \in 1..Len(w) : w[c] = x
    BY <1>2, <1>8
<1> DEFINE N == {i \in 1..T : s < v[i]}
<1>10. T \in N /\ N \subseteq Nat
    BY <1>5, <1>7, <1>1 DEF x
<1>11. PICK d \in N : \A j \in N : d <= j
    BY <1>10, LeastOf
<1>12. d \in 1..T /\ s < v[d] /\ \A i \in 1..T : s < v[i] => d <= i
    BY <1>11
<1> HIDE DEF N
<1> DEFINE m == d - 1
           A == {v[i] : i \in (m + 1)..T}
           B == {w[i] : i \in 1..c}
<1>13. m \in Nat /\ m <= T /\ m + 1 = d
    BY <1>12, <1>1
<1>14. c \in Nat /\ 0 <= c /\ c <= Len(w) /\ 0 + 1 = 1 /\ 0 \in Nat
    BY <1>2
<1> HIDE DEF m
<1>15. Says(SubSeq(v, m + 1, T), A)
    <2>1. T <= T /\ T \in Nat
        BY <1>1
    <2> QED
        BY <1>13, <2>1, SliceSays
<1>16. Says(SubSeq(w, 1, c), B)
    <2>1. Says(SubSeq(w, 0 + 1, c), {w[i] : i \in (0 + 1)..c})
        BY <1>14, SliceSays
    <2> QED
        BY <2>1, <1>14
<1>17. A = Spoken(s, e)
    <2>1. ASSUME NEW i \in (m + 1)..T
          PROVE  v[i] \in Spoken(s, e)
        <3>1. i \in 1..T /\ d <= i /\ i \in Nat /\ d \in Nat
            BY <1>1, <1>12, <1>13
        <3>2. v[d] <= v[i]
            <4>1. CASE d = i
                BY <4>1, <3>1, <1>1
            <4>2. CASE d # i
                <5>1. d < i
                    BY <4>2, <3>1
                <5>2. v[d] < v[i] /\ v[d] \in Nat /\ v[i] \in Nat
                    BY <5>1, <3>1, <1>1, <1>12
                <5> QED
                    BY <5>2
            <4> QED
                BY <4>1, <4>2
        <3>3. v[d] \in Nat /\ v[i] \in Nat /\ v[i] \in Spoken(0, e)
            BY <3>1, <1>1, <1>12
        <3>4. s < v[i]
            BY <3>2, <3>3, <1>12
        <3> QED
            BY <3>3, <3>4 DEF Spoken
    <2>2. ASSUME NEW u \in Spoken(s, e)
          PROVE  \E i \in (m + 1)..T : u = v[i]
        <3>1. u \in Spoken(0, e) /\ s < u
            BY DEF Spoken
        <3>2. PICK i \in 1..T : v[i] = u
            BY <3>1, <1>1
        <3>3. d <= i
            BY <3>1, <3>2, <1>12
        <3>4. i \in (m + 1)..T
            BY <3>2, <3>3, <1>1, <1>13
        <3> QED
            BY <3>2, <3>4
    <2> QED
        BY <2>1, <2>2
<1>18. B = Spoken(s, e)
    <2>1. ASSUME NEW i \in 1..c
          PROVE  w[i] \in Spoken(s, e)
        <3>1. i \in 1..Len(w) /\ i \in Nat /\ i <= c
            BY <1>14
        <3>2. w[i] <= w[c] /\ w[i] \in Nat
            <4>1. w[i] \in Nat /\ w[c] \in Nat
                BY <3>1, <1>2
            <4>2. CASE i = c
                BY <4>1, <4>2
            <4>3. CASE i # c
                <5>1. i < c
                    BY <4>3, <3>1, <1>14
                <5>2. w[i] < w[c]
                    BY <5>1, <3>1, <1>2
                <5> QED
                    BY <4>1, <5>2
            <4> QED
                BY <4>1, <4>2, <4>3
        <3>3. w[i] \in Spoken(s, f)
            BY <3>1, <1>2
        <3>4. w[i] <= e
            BY <3>2, <1>7, <1>9
        <3> QED
            BY <3>3, <3>4 DEF Spoken
    <2>2. ASSUME NEW u \in Spoken(s, e)
          PROVE  \E i \in 1..c : u = w[i]
        <3>1. u \in Spoken(0, e) /\ u \in Nat
            BY DEF Spoken
        <3>2. u \in Spoken(s, f)
            BY DEF Spoken
        <3>3. u <= x
            BY <3>1, <1>6
        <3>4. PICK i \in 1..Len(w) : w[i] = u
            BY <3>2, <1>2
        <3>5. ~(c < i)
            <4> SUFFICES ASSUME c < i
                         PROVE  FALSE
                OBVIOUS
            <4>1. w[c] < w[i]
                BY <1>2, <1>9
            <4> QED
                BY <4>1, <3>1, <3>3, <3>4, <1>7, <1>9
        <3>6. i \in 1..c
            BY <3>5, <1>2, <1>14
        <3> QED
            BY <3>4, <3>6
    <2> QED
        BY <2>1, <2>2
<1> HIDE DEF A, B
<1>19. SubSeq(v, m + 1, T) = SubSeq(w, 1, c)
    BY <1>15, <1>16, <1>17, <1>18, SaidOnce
<1>20. Len(SubSeq(v, m + 1, T)) = T - m
    <2>1. T <= T /\ T \in Nat
        BY <1>1
    <2> QED
        BY <2>1, <1>1, <1>13, SliceIs
<1>21. Len(SubSeq(w, 1, c)) = c
    <2>1. Len(SubSeq(w, 0 + 1, c)) = c - 0
        BY <1>2, <1>14, SliceIs
    <2> QED
        BY <2>1, <1>14
<1>22. c = T - m
    BY <1>19, <1>20, <1>21
<1>23. c <= T /\ T - c = m /\ 0 + c <= Len(w)
    BY <1>1, <1>13, <1>14, <1>22
<1>24. ASSUME NEW i \in 1..c
       PROVE  v[T - c + i] = w[0 + i]
    <2>1. T <= T /\ T \in Nat /\ i \in 1..(T - m) /\ i \in 1..(c - 0)
        BY <1>1, <1>22
    <2>2. SubSeq(v, m + 1, T)[i] = v[m + i]
        BY <2>1, <1>1, <1>13, SliceIs
    <2>3. SubSeq(w, 0 + 1, c)[i] = w[0 + i]
        BY <2>1, <1>2, <1>14, SliceIs
    <2> QED
        BY <2>2, <2>3, <1>14, <1>19, <1>23
<1>25. SaidAgain(v, w, c, 0)
    BY <1>23, <1>24 DEF SaidAgain
<1> QED
    BY <1>9, <1>23, <1>25 DEF x

\* Where the overlap can be told, a window is joined with no word lost or twice.
LEMMA JoinedSays ==
    ASSUME NEW v, NEW w, NEW s \in Nat, NEW e \in Nat, NEW f \in Nat, s <= e, e <= f,
           Says(v, Spoken(0, e)), Says(w, Spoken(s, f)), ~sparse,
           \A x \in Spoken(0, e), y \in Spoken(s, f) :
              (\A u \in Spoken(0, e) : u <= x) /\ {x, y} \subseteq repeated => x = y
    PROVE  Says(Joined(v, w), Spoken(0, f))
<1> DEFINE x == v[Len(v)]
<1>2. /\ v \in Seq(Nat) /\ Len(v) \in Nat
      /\ \A i \in 1..Len(v) : v[i] \in Spoken(0, e) /\ v[i] \in Nat
    BY SaysIs
<1>3. /\ w \in Seq(Nat) /\ Len(w) \in Nat
      /\ \A i \in 1..Len(w) : w[i] \in Spoken(s, f) /\ w[i] \in Nat
      /\ \A i, j \in 1..Len(w) : i < j => w[i] < w[j]
      /\ \A u \in Spoken(s, f) : \E i \in 1..Len(w) : w[i] = u
    BY SaysIs
\* What is said again ends with the last word of the text.
<1>4. ASSUME NEW k \in 1..Len(v), NEW r \in 0..SkippedUnits, SaidAgain(v, w, k, r)
      PROVE  k + r \in 1..Len(w) /\ Len(v) \in 1..Len(v) /\ w[k + r] = x
    <2>1. k \in Nat /\ r \in Nat /\ k + r = r + k /\ k \in 1..k /\ Len(v) - k + k = Len(v)
        BY <1>2
    <2>2. r + k \in 1..Len(w) /\ Len(v) \in 1..Len(v)
        BY <1>2, <1>3, <1>4 DEF SaidAgain
    <2>3. v[Len(v) - k + k] = w[r + k] \/ {v[Len(v) - k + k], w[r + k]} \subseteq repeated
        BY <2>1, <1>4 DEF SaidAgain
    <2>4. x = w[r + k] \/ {x, w[r + k]} \subseteq repeated
        BY <2>1, <2>3
    <2>5. x \in Spoken(0, e) /\ w[r + k] \in Spoken(s, f)
        BY <2>2, <1>2, <1>3
    <2>6. \A u \in Spoken(0, e) : u <= x
        BY LastWord
    <2> HIDE DEF x
    <2> QED
        BY <2>1, <2>2, <2>4, <2>5, <2>6
<1>5. CASE Spoken(s, e) = {}
    <2>1. Joined(v, w) = v \o w
        <3>1. ASSUME NEW k \in 1..Len(v), NEW r \in 0..SkippedUnits, SaidAgain(v, w, k, r)
              PROVE  FALSE
            <4>1. w[k + r] \in Spoken(s, f) /\ w[k + r] \in Spoken(0, e)
                BY <3>1, <1>2, <1>3, <1>4
            <4>2. w[k + r] \in Spoken(s, e)
                BY <4>1 DEF Spoken
            <4> QED
                BY <4>2, <1>5
        <3> QED
            BY <3>1, <1>2, <1>3, JoinedIs
    <2>2. \A p \in Spoken(0, e), q \in Spoken(s, f) : p < q
        <3> TAKE p \in Spoken(0, e), q \in Spoken(s, f)
        <3>1. p \in Nat /\ p <= e /\ p \notin quiet /\ q \in Nat /\ s < q
            BY DEF Spoken
        <3>2. ~(s < p)
            BY <3>1, <1>5 DEF Spoken
        <3> QED
            BY <3>1, <3>2
    <2>3. Spoken(0, e) \cup Spoken(s, f) = Spoken(0, f)
        <3>1. ASSUME NEW u \in Spoken(0, e) \cup Spoken(s, f)
              PROVE  u \in Spoken(0, f)
            BY DEF Spoken
        <3>2. ASSUME NEW u \in Spoken(0, f)
              PROVE  u \in Spoken(0, e) \cup Spoken(s, f)
            BY DEF Spoken
        <3> QED
            BY <3>1, <3>2
    <2>4. Says(v \o w, Spoken(0, e) \cup Spoken(s, f))
        BY <2>2, JoinSays
    <2> QED
        BY <2>1, <2>3, <2>4
<1>6. CASE Spoken(s, e) # {}
    <2>1. PICK k \in 1..Len(w) : k <= Len(v) /\ w[k] = v[Len(v)] /\ SaidAgain(v, w, k, 0)
        BY <1>6, OverlapFound
    <2>2. k \in 1..Len(v) /\ 0 \in 0..SkippedUnits
        BY <2>1, <1>2, <1>3, SizesArePositive
    <2>3. PICK m \in 1..Len(v), r \in 0..SkippedUnits :
              SaidAgain(v, w, m, r) /\ Joined(v, w) = v \o SubSeq(w, m + r + 1, Len(w))
        BY <2>1, <2>2, <1>2, <1>3, JoinedIs
    <2>4. m + r \in 1..Len(w) /\ Len(v) \in 1..Len(v) /\ w[m + r] = w[k]
        BY <2>1, <2>3, <1>4
    <2>5. m + r = k
        <3> DEFINE q == m + r
        <3>1. q \in 1..Len(w) /\ w[q] = w[k] /\ k \in 1..Len(w) /\ w[k] \in Nat
            BY <2>4, <1>3
        <3> HIDE DEF q
        <3>2. ~(q < k) /\ ~(k < q)
            BY <3>1, <1>3
        <3>3. q = k
            BY <3>1, <3>2, <1>3
        <3> QED
            BY <3>3 DEF q
    <2>6. Joined(v, w) = v \o SubSeq(w, k + 1, Len(w))
        BY <2>3, <2>5
    <2> DEFINE D == {w[i] : i \in (k + 1)..Len(w)}
    <2>7. k \in Nat /\ k <= Len(w) /\ Len(w) <= Len(w) /\ Len(w) \in Nat
        BY <1>3
    <2>8. Says(SubSeq(w, k + 1, Len(w)), D)
        BY <2>7, SliceSays
    <2>9. /\ x \in Spoken(0, e) /\ x \in Nat /\ w[k] = x /\ x <= e
          /\ \A u \in Spoken(0, e) : u <= x /\ u \in Nat
        <3>1. Len(v) \in 1..Len(v) /\ w[k] = x
            BY <2>1, <2>4
        <3>2. x \in Spoken(0, e)
            BY <3>1, <1>2
        <3>3. \A u \in Spoken(0, e) : u <= x
            BY LastWord
        <3> QED
            BY <3>1, <3>2, <3>3 DEF Spoken
    <2> HIDE DEF x
    <2>10. \A p \in Spoken(0, e), q \in D : p < q
        <3> TAKE p \in Spoken(0, e), q \in D
        <3>1. PICK i \in (k + 1)..Len(w) : q = w[i]
            OBVIOUS
        <3>2. i \in 1..Len(w) /\ k < i
            BY <2>7
        <3>3. w[k] < w[i] /\ w[i] \in Nat
            BY <3>2, <1>3
        <3> QED
            BY <3>1, <3>3, <2>9
    <2>11. Spoken(0, e) \cup D = Spoken(0, f)
        <3>1. ASSUME NEW u \in Spoken(0, e)
              PROVE  u \in Spoken(0, f)
            BY DEF Spoken
        <3>2. ASSUME NEW u \in D
              PROVE  u \in Spoken(0, f)
            <4>1. PICK i \in (k + 1)..Len(w) : u = w[i]
                OBVIOUS
            <4>2. i \in 1..Len(w)
                BY <2>7
            <4>3. u \in Spoken(s, f)
                BY <4>1, <4>2, <1>3
            <4> QED
                BY <4>3 DEF Spoken
        <3>3. ASSUME NEW u \in Spoken(0, f), u \notin Spoken(0, e)
              PROVE  u \in D
            <4>1. u \in Nat /\ u \notin quiet /\ u <= f /\ 0 < u /\ ~(u <= e)
                BY <3>3 DEF Spoken
            <4>2. u \in Spoken(s, f)
                BY <4>1 DEF Spoken
            <4>3. PICK i \in 1..Len(w) : w[i] = u
                BY <4>2, <1>3
            <4>4. ~(i <= k)
                <5> SUFFICES ASSUME i <= k
                             PROVE  FALSE
                    OBVIOUS
                <5>1. CASE i = k
                    BY <5>1, <4>1, <4>3, <2>9
                <5>2. CASE i # k
                    <6>1. i < k
                        BY <5>2, <2>7
                    <6>2. w[i] < w[k]
                        BY <6>1, <1>3
                    <6> QED
                        BY <6>2, <4>1, <4>3, <2>9
                <5> QED
                    BY <5>1, <5>2
            <4>5. i \in (k + 1)..Len(w)
                BY <4>4, <2>7
            <4> QED
                BY <4>3, <4>5
        <3> HIDE DEF D
        <3> QED
            BY <3>1, <3>2, <3>3
    <2> HIDE DEF D
    <2>12. Says(v \o SubSeq(w, k + 1, Len(w)), Spoken(0, e) \cup D)
        BY <2>8, <2>10, JoinSays
    <2> QED
        BY <2>6, <2>11, <2>12
<1> QED
    BY <1>5, <1>6

\* Qwen3 says what is spoken, whatever windows the piece is cut into.
LEMMA Qwen3Says ==
    ASSUME NEW n \in Nat, engine = "qwen3", SeamsAreTold(n)
    PROVE  Says(Qwen3Text(Piece(0, n)), Spoken(0, n))
<1> DEFINE p == Piece(0, n)
           V == Seq(Nat)
           adv == SegmentUnits - OverlapUnits
           S == SegmentUnits
           begun(k) == k = 1 \/ (k - 2) * adv + S < Len(p)
           window(k) == Words(SubSeq(p, (k - 1) * adv + 1, Least((k - 1) * adv + S, Len(p))))
           step == [k \in 1..n |-> [r \in V |-> IF begun(k) THEN Joined(r, window(k)) ELSE r]]
           text == CHOOSE text : text = [k \in 0..Len(p) |->
                       IF k = 0 THEN <<>>
                       ELSE IF begun(k) THEN Joined(text[k - 1], window(k)) ELSE text[k - 1]]
           end(k) == IF k = 0 THEN 0 ELSE Least((k - 1) * adv + S, n)
<1>1. Qwen3Text(p) = text[Len(p)]
    BY DEF Qwen3Text
<1>2. Len(p) = n
    BY WholeIs
<1>3. S \in Nat /\ adv \in Nat /\ adv # 0 /\ adv <= S
    BY Sizes
<1> HIDE DEF p, S, adv
\* Where a window that is begun starts and ends.
<1>4. ASSUME NEW k \in 1..n
      PROVE  /\ (k - 1) * adv \in Nat /\ end(k) \in Nat /\ end(k) <= n
             /\ end(k - 1) \in Nat /\ end(k - 1) <= n
             /\ begun(k) => /\ (k - 1) * adv <= end(k - 1) /\ end(k - 1) <= end(k)
                            /\ (k - 1) * adv <= n
             /\ ~begun(k) => end(k - 1) = n /\ end(k) = n
    <2>1. k - 1 \in Nat /\ k # 0 /\ k \in Nat
        OBVIOUS
    <2>2. (k - 1) * adv \in Nat
        BY <2>1, <1>3
    <2>3. end(k) = Least((k - 1) * adv + S, n)
        BY <2>1
    <2>4. CASE k = 1
        <3>1. (k - 1) * adv = 0 /\ end(k - 1) = 0 /\ begun(k)
            BY <2>4, <1>3
        <3> HIDE DEF end, begun
        <3> QED
            BY <3>1, <2>3, <1>3 DEF Least
    <2>5. CASE k # 1
        <3> DEFINE q == (k - 2) * adv
        <3>1. k - 2 \in Nat /\ (k - 1) - 1 = k - 2 /\ k - 1 # 0
            BY <2>5
        <3>2. q \in Nat /\ (k - 1) * adv = q + adv
            <4>1. (k - 2) * adv \in Nat
                BY <3>1, <1>3
            <4>2. ((k - 2) + 1) * adv = (k - 2) * adv + adv
                BY <3>1, <1>3
            <4>3. (k - 2) + 1 = k - 1
                BY <3>1
            <4> QED
                BY <4>1, <4>2, <4>3
        <3>3. end(k - 1) = Least(q + S, n)
            BY <3>1
        <3>4. begun(k) <=> q + S < n
            BY <2>5, <1>2
        <3>5. end(k) = Least(q + adv + S, n)
            BY <2>3, <3>2
        <3> HIDE DEF q, end, begun
        <3> QED
            BY <3>2, <3>3, <3>4, <3>5, <1>3 DEF Least
    <2> QED
        BY <2>4, <2>5
\* The last word of a window is not said once more in the next one.
<1>22. ASSUME NEW k \in 1..n, begun(k),
              NEW x \in Spoken(0, end(k - 1)), NEW y \in Spoken((k - 1) * adv, end(k)),
              \A u \in Spoken(0, end(k - 1)) : u <= x, {x, y} \subseteq repeated
       PROVE  x = y
    <2>1. k - 1 \in Nat /\ k \in Nat /\ end(k) = Least((k - 1) * adv + S, n)
        OBVIOUS
    <2>2. CASE k = 1
        <3>1. Spoken(0, end(k - 1)) = {}
            BY <2>2 DEF Spoken
        <3> QED
            BY <3>1
    <2>3. CASE k # 1
        <3> DEFINE q == (k - 2) * adv
                   e == q + S
        <3>1. k - 2 \in Nat /\ (k - 1) - 1 = k - 2 /\ k - 1 # 0 /\ k - 1 \in 1..n
            BY <2>3
        <3>2. q \in Nat /\ (k - 1) * adv = q + adv
            <4>1. (k - 2) * adv \in Nat
                BY <3>1, <1>3
            <4>2. ((k - 2) + 1) * adv = (k - 2) * adv + adv
                BY <3>1, <1>3
            <4>3. (k - 2) + 1 = k - 1
                BY <3>1
            <4> QED
                BY <4>1, <4>2, <4>3
        <3>3. end(k - 1) = Least(e, n) /\ e < n
            BY <2>3, <1>2, <1>22, <3>1
        <3>4. ~EchoedAt(e, n)
            <4>1. \A j \in 1..n :
                     LET a == (j - 1) * (SegmentUnits - OverlapUnits) + SegmentUnits IN
                     a < n => ~EchoedAt(a, n)
                BY DEF SeamsAreTold
            <4>2. ((k - 1) - 1) * (SegmentUnits - OverlapUnits) + SegmentUnits = e
                BY <3>1 DEF adv, S
            <4> HIDE DEF e
            <4> QED
                BY <3>1, <3>3, <4>1, <4>2
        <3>5. (k - 1) * adv = e - OverlapUnits /\ end(k) = Least(e - OverlapUnits + SegmentUnits, n)
            <4>1. q + adv = e - OverlapUnits /\ q + adv + S = e - OverlapUnits + SegmentUnits
                BY <3>2, Sizes DEF adv, S
            <4> QED
                BY <2>1, <3>2, <4>1
        <3>6. e \in Nat /\ end(k - 1) = e
            BY <3>2, <3>3, <1>3 DEF Least
        <3> DEFINE a == e - OverlapUnits
                   b == Least(e - OverlapUnits + SegmentUnits, n)
        <3>7. a \in Nat /\ b \in Nat
            <4>1. (k - 1) * adv \in Nat
                BY <3>2, <1>3
            <4>2. a \in Nat
                BY <4>1, <3>5
            <4> QED
                BY <4>2, Sizes DEF Least
        <3>8. x \in Spoken(0, e) /\ y \in Spoken(a, b) /\ \A u \in Spoken(0, e) : u <= x
            BY <1>22, <3>5, <3>6
        <3> HIDE DEF e, a, b, q, end
        <3>9. x \in 1..e /\ y \in (a + 1)..b /\ x \notin quiet /\ y \notin quiet
            BY <3>6, <3>7, <3>8 DEF Spoken
        <3>10. (x + 1)..e \subseteq quiet
            <4> SUFFICES ASSUME NEW u \in (x + 1)..e, u \notin quiet
                         PROVE  FALSE
                OBVIOUS
            <4>1. u \in Spoken(0, e) /\ ~(u <= x)
                BY <3>6, <3>9 DEF Spoken
            <4> QED
                BY <4>1, <3>8
        <3>11. {x, y} \subseteq repeated \ quiet
            BY <3>9, <1>22
        <3> QED
            BY <3>4, <3>9, <3>10, <3>11 DEF EchoedAt, a, b
    <2> QED
        BY <2>2, <2>3
<1>5. ASSUME NEW k \in 1..n, begun(k)
      PROVE  Says(window(k), Spoken((k - 1) * adv, end(k)))
    <2> DEFINE m == (k - 1) * adv
    <2>1. m \in Nat /\ end(k) \in Nat /\ end(k) <= n /\ m <= end(k)
        BY <1>4, <1>5
    <2>2. k # 0
        OBVIOUS
    <2>3. window(k) = Words(SubSeq(p, m + 1, end(k)))
        BY <1>2, <2>2
    <2> HIDE DEF end, window, m
    <2>4. 0 \in Nat /\ 0 <= n /\ end(k) <= n - 0 /\ 0 + m = m /\ 0 + end(k) = end(k)
        BY <2>1
    <2>5. Says(Words(SubSeq(Piece(0, n), m + 1, end(k))), Spoken(0 + m, 0 + end(k)))
        BY <2>1, <2>4, PartSays
    <2> QED
        BY <2>3, <2>4, <2>5 DEF m, p
<1> HIDE DEF begun, window
<1>6. step \in [1..n -> [V -> V]]
    <2>1. \A k \in 1..n : begun(k) => window(k) \in Seq(Nat)
        BY <1>5 DEF Says
    <2> QED
        BY <2>1, JoinedText
<1>7. <<>> \in V
    BY EmptySeq
<1>8. \A k \in 1..n : \A r \in V : step[k][r] = IF begun(k) THEN Joined(r, window(k)) ELSE r
    OBVIOUS
<1> HIDE DEF step, V
<1>9. PICK f : Loop(f, V, <<>>, n, step)
    BY <1>6, <1>7, LoopExists, Zenon
<1>10. f \in [0..n -> V] /\ f[0] = <<>> /\ \A k \in 1..n : f[k] = step[k][f[k - 1]]
    BY <1>9 DEF Loop
<1>11. f = [k \in 0..Len(p) |-> IF k = 0 THEN <<>>
                     ELSE IF begun(k) THEN Joined(f[k - 1], window(k)) ELSE f[k - 1]]
    <2>1. ASSUME NEW k \in 0..n
          PROVE  f[k] = IF k = 0 THEN <<>>
                        ELSE IF begun(k) THEN Joined(f[k - 1], window(k)) ELSE f[k - 1]
        <3>1. CASE k = 0
            BY <3>1, <1>10
        <3>2. CASE k # 0
            <4>1. k \in 1..n /\ k - 1 \in 0..n
                BY <3>2
            <4>2. f[k - 1] \in V
                BY <4>1, <1>10
            <4> QED
                BY <3>2, <4>1, <4>2, <1>8, <1>10
        <3> QED
            BY <3>1, <3>2
    <2> QED
        BY <2>1, <1>2, <1>10
<1>12. text = [k \in 0..Len(p) |-> IF k = 0 THEN <<>>
                     ELSE IF begun(k) THEN Joined(text[k - 1], window(k)) ELSE text[k - 1]]
    BY <1>11
<1> HIDE DEF text
<1>13. 0 \in 0..Len(p) /\ \A k \in 1..n : k \in 0..Len(p) /\ k # 0 /\ k \in 0..n
    BY <1>2
<1>14. text[0] = <<>>
    BY <1>12, <1>13, Zenon
<1>15. \A k \in 1..n : text[k] = IF begun(k) THEN Joined(text[k - 1], window(k)) ELSE text[k - 1]
    BY <1>12, <1>13, Zenon
<1> DEFINE good == {k \in 0..n : Says(text[k], Spoken(0, end(k)))}
<1>16. 0 \in good
    <2>1. Spoken(0, end(0)) = {} /\ 0 \in 0..n
        BY DEF Spoken
    <2> QED
        BY <2>1, <1>14, NothingSaid
<1> HIDE DEF end
<1>17. ASSUME NEW k \in 1..n, k - 1 \in good
       PROVE  k \in good
    <2>1. Says(text[k - 1], Spoken(0, end(k - 1)))
        BY <1>17
    <2>2. CASE begun(k)
        <3> DEFINE m == (k - 1) * adv
                   e == end(k - 1)
                   f2 == end(k)
        <3>1. m \in Nat /\ e \in Nat /\ f2 \in Nat /\ m <= e /\ e <= f2
            BY <2>2, <1>4
        <3>2. Says(window(k), Spoken(m, f2)) /\ Says(text[k - 1], Spoken(0, e))
            BY <2>1, <2>2, <1>5
        <3>5. \A x \in Spoken(0, e), y \in Spoken(m, f2) :
                 (\A u \in Spoken(0, e) : u <= x) /\ {x, y} \subseteq repeated => x = y
            BY <2>2, <1>22
        <3>6. ~sparse
            BY DEF SeamsAreTold
        <3> HIDE DEF m, e, f2
        <3>3. Says(Joined(text[k - 1], window(k)), Spoken(0, f2))
            BY <3>1, <3>2, <3>5, <3>6, JoinedSays
        <3>4. Says(text[k], Spoken(0, f2))
            BY <3>3, <2>2, <1>15
        <3> QED
            BY <3>4, <1>13 DEF f2
    <2>3. CASE ~begun(k)
        <3>1. end(k) = end(k - 1) /\ text[k] = text[k - 1]
            BY <2>3, <1>4, <1>15
        <3> QED
            BY <3>1, <2>1, <1>13
    <2> QED
        BY <2>2, <2>3
<1>18. \A k \in 1..n : k - 1 \in good => k \in good
    BY <1>17
<1> HIDE DEF good
<1>19. \A k \in 0..n : k \in good
    BY <1>16, <1>18, OneByOne, Zenon
<1>20. n \in good
    BY <1>19
<1>21. end(n) = n
    <2>1. CASE n = 0
        BY <2>1 DEF end
    <2>2. CASE n # 0
        <3>1. n - 1 \in Nat /\ adv - 1 \in Nat /\ adv = (adv - 1) + 1
            BY <2>2, <1>3
        <3>2. (n - 1) * (adv - 1) \in Nat
            BY <3>1
        <3>3. (n - 1) * ((adv - 1) + 1) = (n - 1) * (adv - 1) + (n - 1)
            BY <3>1
        <3>4. n <= (n - 1) * adv + S /\ (n - 1) * adv \in Nat
            BY <3>1, <3>2, <3>3, <1>3
        <3> QED
            BY <2>2, <3>4, <1>3 DEF end, Least
    <2> QED
        BY <2>1, <2>2
<1> QED
    BY <1>1, <1>2, <1>20, <1>21 DEF good, p

-----------------------------------------------------------------------------
(* Whatever engine decodes a whole recording, it has its words, each once  *)
(* and in order; Qwen3's, where no word that ends a window is said once    *)
(* more in the next.                                                       *)
THEOREM TranscribedIsWhole ==
    ASSUME NEW n \in Nat, SeamsAreTold(n), engine \in Local
    PROVE  Transcribed(Piece(0, n)) = Words(Piece(0, n))
<1>1. 0 \in Nat /\ 0 <= n
    OBVIOUS
<1>2. Says(Words(Piece(0, n)), Spoken(0, n))
    BY <1>1, WordsSay
<1>3. Says(WhisperText(Piece(0, n)), Spoken(0, n))
    BY <1>1, WhisperSays
<1>4. Says(SenseVoiceText(Piece(0, n)), Spoken(0, n))
    BY SenseVoiceSays
<1>5. engine = "qwen3" => Says(Qwen3Text(Piece(0, n)), Spoken(0, n))
    BY Qwen3Says
<1>6. Says(Transcribed(Piece(0, n)), Spoken(0, n))
    BY <1>2, <1>3, <1>4, <1>5 DEF Transcribed, ParaformerText, Local
<1> QED
    BY <1>2, <1>6, SaidOnce

-----------------------------------------------------------------------------
(* The way of the audio: what the engine heard, what is on its way in the  *)
(* commands and in the channel, what the callback holds and what is        *)
(* pending are the recording, piece after piece.                           *)
Sound(c) == IF c.is = "audio" THEN c.text ELSE <<>>
Sounds(q) == [k \in 1..Len(q) |-> Sound(q[k])]

\* The pieces of q lie side by side from a to b.
Cuts(q, cut, a, b) ==
    /\ cut \in [0..Len(q) -> Nat] /\ cut[0] = a /\ cut[Len(q)] = b
    /\ \A k \in 1..Len(q) : cut[k - 1] <= cut[k] /\ q[k] = Piece(cut[k - 1], cut[k])

Chain(q, a, b) == \E cut : Cuts(q, cut, a, b)

FlowAt(h, c, b, d) ==
    /\ h \in Nat /\ c \in Nat /\ b \in Nat /\ d \in Nat
    /\ h <= c /\ c <= b /\ b <= d /\ d <= Len(samples)
    /\ heard = Piece(0, h) /\ Chain(Sounds(commands), h, c) /\ Chain(batches, c, b)
    /\ held = Piece(b, d) /\ pending = Piece(d, Len(samples))

Lost == phase = "cancelled" \/ captureError \/ streamError \/ overtaken

FlowInv == ~Lost => \E h, c, b, d : FlowAt(h, c, b, d)

Phase == {"idle", "starting", "failed", "active", "stopping", "cancelled", "finishing",
          "waiting", "answered"}
Kind == {"audio", "finish", "cancel", "final", "error"}
Command == [is : Kind, text : Seq(Nat)]

TypeInv ==
    /\ engine \in Engine /\ phase \in Phase /\ source \in {"live", "restored"}
    /\ connection \in {"none", "connecting", "authorizing", "open", "stalled", "finishing",
                      "closed"}
    /\ {captureError, streamError, overtaken, early} \subseteq BOOLEAN
    /\ samples \in Seq(Nat) /\ pending \in Seq(Nat) /\ held \in Seq(Nat) /\ heard \in Seq(Nat)
    /\ batches \in Seq(Seq(Nat)) /\ commands \in Seq(Command)
    /\ samples = Piece(0, Len(samples))

\* Where audio may be in each phase.
StageInv ==
    /\ phase = "idle" => /\ samples = <<>> /\ pending = <<>> /\ heard = <<>> /\ commands = <<>>
                         /\ connection = "none"
    /\ phase \in {"idle", "starting", "failed", "active"} => ~overtaken
    /\ captureError => phase \in {"active", "cancelled"} \/ overtaken
    /\ batches # <<>> => phase \in {"active", "stopping", "cancelled"}
    /\ held # <<>> => phase \in {"active", "cancelled"} \/ (phase = "stopping" /\ overtaken)
    /\ phase \in {"stopping", "finishing", "waiting", "answered"} => pending = <<>>
    /\ source = "restored" => batches = <<>> /\ held = <<>> /\ ~captureError
    /\ connection = "authorizing" => phase = "starting"

\* Which commands there are.
CommandInv ==
    /\ engine \notin Remote => commands = <<>> /\ connection = "none"
    /\ engine = "volcengine" => \A k \in 1..Len(commands) : commands[k].is \notin {"final", "error"}
    /\ \A k \in 1..Len(commands) :
          commands[k].is = "finish" => phase \in {"waiting", "answered"}
    /\ \A i, k \in 1..Len(commands) :
          i < k /\ commands[i].is = "finish" => commands[k].is # "audio"
    /\ connection = "finishing" =>
          /\ phase \in {"waiting", "answered"}
          /\ \A k \in 1..Len(commands) : commands[k].is # "audio"

Good(text) == ~overtaken /\ ~early /\ ~streamError =>
                  phase \in {"waiting", "answered"} /\ text = Words(samples)

AnswerInv ==
    /\ \A k \in 1..Len(commands) : commands[k].is = "final" => Good(commands[k].text)
    /\ reply.ok => connection = "closed" /\ Good(reply.text)
    /\ given.ok => phase = "answered" /\ connection \in {"none", "closed"}
    /\ TranscriptIsWhole

RecognitionInv == TypeInv /\ StageInv /\ CommandInv /\ FlowInv /\ AnswerInv

\* A piece from a unit to itself is empty.
LEMMA NoSound == Piece(0, 0) = <<>> /\ \A a \in Nat : Piece(a, a) = <<>>
<1>1. \A a \in Nat : Piece(a, a) = <<>>
    <2> TAKE a \in Nat
    <2>1. a <= a /\ a - a = 0
        OBVIOUS
    <2>2. Piece(a, a) \in Seq(Nat) /\ Len(Piece(a, a)) = a - a
        BY <2>1, PieceIs
    <2> QED
        BY <2>1, <2>2, EmptySeq
<1> QED
    BY <1>1

\* Pieces side by side go forward, and no pieces go nowhere.
LEMMA ChainOrder ==
    ASSUME NEW q \in Seq(Seq(Nat)), NEW a, NEW b, Chain(q, a, b)
    PROVE  a \in Nat /\ b \in Nat /\ a <= b /\ (q = <<>> => a = b)
<1>1. PICK cut : Cuts(q, cut, a, b)
    BY DEF Chain
<1> DEFINE n == Len(q)
<1>2. n \in Nat
    BY LenProperties
<1>3. /\ cut \in [0..n -> Nat] /\ cut[0] = a /\ cut[n] = b
      /\ \A k \in 1..n : cut[k - 1] <= cut[k]
    BY <1>1 DEF Cuts
<1>4. q = <<>> => n = 0
    BY EmptySeq
<1> HIDE DEF n
<1> DEFINE good == {k \in 0..n : a <= cut[k]}
<1>5. 0 \in 0..n /\ n \in 0..n /\ a \in Nat /\ b \in Nat
    BY <1>2, <1>3
<1>6. 0 \in good
    BY <1>3, <1>5
<1>7. ASSUME NEW k \in 1..n, k - 1 \in good
      PROVE  k \in good
    <2>1. k \in 0..n /\ k - 1 \in 0..n
        BY <1>2
    <2>2. cut[k] \in Nat /\ cut[k - 1] \in Nat /\ a <= cut[k - 1] /\ cut[k - 1] <= cut[k]
        BY <2>1, <1>3, <1>7
    <2> QED
        BY <2>1, <2>2, <1>5
<1>8. \A k \in 1..n : k - 1 \in good => k \in good
    BY <1>7
<1> HIDE DEF good
<1>9. \A k \in 0..n : k \in good
    BY <1>2, <1>6, <1>8, OneByOne, Zenon
<1>10. n \in good
    BY <1>5, <1>9
<1> QED
    BY <1>3, <1>4, <1>5, <1>10 DEF good

\* No pieces.
LEMMA ChainEmpty ==
    ASSUME NEW a \in Nat
    PROVE  Chain(<<>>, a, a)
<1> DEFINE cut == [k \in 0..0 |-> a]
<1>1. Len(<<>>) = 0 /\ 1..0 = {}
    BY EmptySeq
<1>2. cut \in [0..0 -> Nat] /\ cut[0] = a
    OBVIOUS
<1>3. Cuts(<<>>, cut, a, a)
    BY <1>1, <1>2 DEF Cuts
<1> QED
    BY <1>3 DEF Chain

\* One more piece at the end.
LEMMA ChainAppend ==
    ASSUME NEW q \in Seq(Seq(Nat)), NEW a, NEW b, Chain(q, a, b), NEW c \in Nat, b <= c
    PROVE  Chain(Append(q, Piece(b, c)), a, c)
<1>1. PICK cut : Cuts(q, cut, a, b)
    BY DEF Chain
<1> DEFINE n == Len(q)
           z == Append(q, Piece(b, c))
           new == [k \in 0..(n + 1) |-> IF k = n + 1 THEN c ELSE cut[k]]
<1>2. n \in Nat
    BY LenProperties
<1>3. /\ cut \in [0..n -> Nat] /\ cut[0] = a /\ cut[n] = b
      /\ \A k \in 1..n : cut[k - 1] <= cut[k] /\ q[k] = Piece(cut[k - 1], cut[k])
    BY <1>1 DEF Cuts
<1>4. b \in Nat
    BY <1>2, <1>3
<1>5. Piece(b, c) \in Seq(Nat)
    BY <1>4, PieceIs
<1>6. Len(z) = n + 1 /\ z[n + 1] = Piece(b, c) /\ \A k \in 1..n : z[k] = q[k]
    BY <1>5, AppendProperties
<1> HIDE DEF n, z
<1>7. new \in [0..(n + 1) -> Nat]
    BY <1>2, <1>3
<1>8. \A k \in 0..n : new[k] = cut[k]
    BY <1>2
<1>9. new[n + 1] = c /\ new[0] = a /\ new[n] = b
    BY <1>2, <1>3
<1> HIDE DEF new
<1>10. ASSUME NEW k \in 1..(n + 1)
       PROVE  new[k - 1] <= new[k] /\ z[k] = Piece(new[k - 1], new[k])
    <2>1. CASE k = n + 1
        <3>1. k - 1 = n
            BY <2>1, <1>2
        <3> QED
            BY <2>1, <3>1, <1>6, <1>9
    <2>2. CASE k # n + 1
        <3>1. k \in 1..n /\ k \in 0..n /\ k - 1 \in 0..n
            BY <2>2, <1>2
        <3>2. new[k - 1] = cut[k - 1] /\ new[k] = cut[k] /\ z[k] = q[k]
            BY <3>1, <1>6, <1>8
        <3>3. cut[k - 1] <= cut[k] /\ q[k] = Piece(cut[k - 1], cut[k])
            BY <3>1, <1>3
        <3> QED
            BY <3>2, <3>3
    <2> QED
        BY <2>1, <2>2
<1>11. Cuts(z, new, a, c)
    BY <1>6, <1>7, <1>9, <1>10 DEF Cuts
<1> QED
    BY <1>11 DEF Chain, z

\* The first piece is taken away.
LEMMA ChainTail ==
    ASSUME NEW q \in Seq(Seq(Nat)), q # <<>>, NEW a, NEW b, Chain(q, a, b)
    PROVE  \E c \in Nat : a <= c /\ Head(q) = Piece(a, c) /\ Chain(Tail(q), c, b)
<1>1. PICK cut : Cuts(q, cut, a, b)
    BY DEF Chain
<1> DEFINE n == Len(q)
           z == Tail(q)
           new == [k \in 0..(n - 1) |-> cut[k + 1]]
<1>2. n \in Nat /\ n # 0
    BY LenProperties, EmptySeq
<1>3. /\ cut \in [0..n -> Nat] /\ cut[0] = a /\ cut[n] = b
      /\ \A k \in 1..n : cut[k - 1] <= cut[k] /\ q[k] = Piece(cut[k - 1], cut[k])
    BY <1>1 DEF Cuts
<1>4. Head(q) = q[1] /\ Len(z) = n - 1 /\ \A k \in 1..(n - 1) : z[k] = q[k + 1]
    BY HeadTailProperties
<1> HIDE DEF n, z
<1>5. \A k \in 0..(n - 1) : k + 1 \in 0..n
    BY <1>2
<1>6. new \in [0..(n - 1) -> Nat]
    BY <1>3, <1>5
<1>7. 1 \in 1..n /\ 1 \in 0..n /\ 1 - 1 = 0 /\ 0 \in 0..(n - 1) /\ n - 1 \in 0..(n - 1)
      /\ (n - 1) + 1 = n /\ 0 + 1 = 1
    BY <1>2
<1>8. new[0] = cut[1] /\ new[n - 1] = b
    BY <1>3, <1>7
<1>9. ASSUME NEW k \in 1..(n - 1)
      PROVE  new[k - 1] <= new[k] /\ z[k] = Piece(new[k - 1], new[k])
    <2>1. k + 1 \in 1..n /\ k \in 0..(n - 1) /\ k - 1 \in 0..(n - 1) /\ (k + 1) - 1 = k /\ (k - 1) + 1 = k
        BY <1>2
    <2>2. new[k - 1] = cut[k] /\ new[k] = cut[k + 1]
        BY <2>1
    <2>3. cut[k] <= cut[k + 1] /\ q[k + 1] = Piece(cut[k], cut[k + 1])
        BY <2>1, <1>3
    <2> QED
        BY <2>2, <2>3, <1>4
<1> HIDE DEF new
<1>10. Cuts(z, new, cut[1], b)
    BY <1>4, <1>6, <1>8, <1>9 DEF Cuts
<1>11. cut[1] \in Nat /\ a <= cut[1] /\ q[1] = Piece(a, cut[1])
    BY <1>3, <1>7
<1> QED
    BY <1>4, <1>10, <1>11 DEF Chain, z

\* The audio of the commands, command by command.
LEMMA SoundsAre ==
    ASSUME NEW q \in Seq(Command)
    PROVE  /\ Sounds(q) \in Seq(Seq(Nat)) /\ Len(Sounds(q)) = Len(q) /\ Len(q) \in Nat
           /\ \A k \in 1..Len(q) : Sounds(q)[k] = Sound(q[k]) /\ q[k] \in Command
<1>1. Len(q) \in Nat /\ \A k \in 1..Len(q) : q[k] \in Command
    BY LenProperties, ElementOfSeq
<1>2. \A k \in 1..Len(q) : Sound(q[k]) \in Seq(Nat)
    BY <1>1, EmptySeq DEF Sound, Command
<1>3. Sounds(q) \in [1..Len(q) -> Seq(Nat)] /\ \A k \in 1..Len(q) : Sounds(q)[k] = Sound(q[k])
    BY <1>2 DEF Sounds
<1>4. Sounds(q) \in Seq(Seq(Nat))
    BY <1>1, <1>3, SeqDef
<1>5. Len(Sounds(q)) = Len(q)
    BY <1>1, <1>3, <1>4, LenProperties
<1> QED
    BY <1>1, <1>3, <1>4, <1>5

\* The audio of one more command.
LEMMA SoundsAppend ==
    ASSUME NEW q \in Seq(Command), NEW c \in Command
    PROVE  Append(q, c) \in Seq(Command) /\ Sounds(Append(q, c)) = Append(Sounds(q), Sound(c))
<1> DEFINE z == Append(q, c)
           s == Append(Sounds(q), Sound(c))
           n == Len(q)
<1>1. /\ z \in Seq(Command) /\ Len(z) = n + 1 /\ z[n + 1] = c
      /\ \A k \in 1..n : z[k] = q[k]
    BY AppendProperties
<1>2. /\ Sounds(q) \in Seq(Seq(Nat)) /\ Len(Sounds(q)) = n /\ n \in Nat
      /\ \A k \in 1..n : Sounds(q)[k] = Sound(q[k])
    BY SoundsAre
<1>3. Sound(c) \in Seq(Nat)
    BY EmptySeq DEF Sound, Command
<1>4. /\ s \in Seq(Seq(Nat)) /\ Len(s) = n + 1 /\ s[n + 1] = Sound(c)
      /\ \A k \in 1..n : s[k] = Sounds(q)[k]
    BY <1>2, <1>3, AppendProperties
<1> HIDE DEF z, s, n
<1>5. /\ Sounds(z) \in Seq(Seq(Nat)) /\ Len(Sounds(z)) = Len(z)
      /\ \A k \in 1..Len(z) : Sounds(z)[k] = Sound(z[k])
    BY <1>1, SoundsAre
<1>6. \A k \in 1..(n + 1) : k \in 1..n \/ k = n + 1
    BY <1>2
<1>7. \A k \in 1..(n + 1) : Sounds(z)[k] = s[k]
    BY <1>1, <1>2, <1>4, <1>5, <1>6
<1>8. Sounds(z) = s
    BY <1>1, <1>4, <1>5, <1>7, SeqEqual
<1> QED
    BY <1>1, <1>8 DEF z, s

\* The audio without the first command.
LEMMA SoundsTail ==
    ASSUME NEW q \in Seq(Command), q # <<>>
    PROVE  /\ Tail(q) \in Seq(Command) /\ Head(q) \in Command
           /\ Sounds(q) # <<>> /\ Sounds(Tail(q)) = Tail(Sounds(q))
           /\ Head(Sounds(q)) = Sound(Head(q))
           /\ Len(q) \in Nat /\ Len(Tail(q)) = Len(q) - 1 /\ Head(q) = q[1]
           /\ \A k \in 1..(Len(q) - 1) : Tail(q)[k] = q[k + 1] /\ k + 1 \in 1..Len(q)
<1> DEFINE z == Tail(q)
           t == Sounds(q)
           s == Tail(t)
           n == Len(q)
<1>1. /\ z \in Seq(Command) /\ Len(z) = n - 1 /\ Head(q) \in Command /\ Head(q) = q[1]
      /\ \A k \in 1..(n - 1) : z[k] = q[k + 1]
    BY HeadTailProperties
<1>2. t \in Seq(Seq(Nat)) /\ Len(t) = n /\ n \in Nat /\ \A k \in 1..n : t[k] = Sound(q[k])
    BY SoundsAre
<1>3. n # 0
    BY EmptySeq
<1> HIDE DEF t
<1>4. t # <<>>
    BY <1>2, <1>3, EmptySeq
<1>5. /\ s \in Seq(Seq(Nat)) /\ Len(s) = n - 1 /\ Head(t) = t[1]
      /\ \A k \in 1..(n - 1) : s[k] = t[k + 1]
    BY <1>2, <1>4, HeadTailProperties
<1> HIDE DEF z, s, n
<1>6. /\ Sounds(z) \in Seq(Seq(Nat)) /\ Len(Sounds(z)) = Len(z)
      /\ \A k \in 1..Len(z) : Sounds(z)[k] = Sound(z[k])
    BY <1>1, SoundsAre
<1>7. \A k \in 1..(n - 1) : k + 1 \in 1..n
    BY <1>2
<1>8. \A k \in 1..(n - 1) : Sounds(z)[k] = s[k]
    BY <1>1, <1>2, <1>5, <1>6, <1>7
<1>9. Sounds(z) = s
    BY <1>1, <1>5, <1>6, <1>8, SeqEqual
<1>10. 1 \in 1..n
    BY <1>2, <1>3
<1>11. Head(t) = Sound(Head(q))
    BY <1>1, <1>2, <1>5, <1>10
<1> QED
    BY <1>1, <1>2, <1>4, <1>7, <1>9, <1>11 DEF z, s, t, n

\* A command that goes into the queue, and one that is taken from it.
LEMMA AudioSent ==
    ASSUME NEW q \in Seq(Command), NEW h, NEW b, Chain(Sounds(q), h, b), NEW c \in Command,
           c.is = "audio", NEW d \in Nat, b <= d, c.text = Piece(b, d)
    PROVE  Chain(Sounds(Append(q, c)), h, d)
<1>1. Sounds(Append(q, c)) = Append(Sounds(q), Piece(b, d))
    BY SoundsAppend DEF Sound
<1>2. Sounds(q) \in Seq(Seq(Nat))
    BY SoundsAre
<1> QED
    BY <1>1, <1>2, ChainAppend

\* A command without audio leaves the pieces as they are.
LEMMA OtherSent ==
    ASSUME NEW q \in Seq(Command), NEW h, NEW b, Chain(Sounds(q), h, b), NEW c \in Command,
           c.is # "audio"
    PROVE  Chain(Sounds(Append(q, c)), h, b)
<1>2. Sounds(q) \in Seq(Seq(Nat))
    BY SoundsAre
<1>3. b \in Nat /\ b <= b
    BY <1>2, ChainOrder
<1>1. Sounds(Append(q, c)) = Append(Sounds(q), Piece(b, b))
    BY <1>3, SoundsAppend, NoSound DEF Sound
<1> QED
    BY <1>1, <1>2, <1>3, ChainAppend

\* A command with audio that is taken: its piece is the first one.
LEMMA AudioTaken ==
    ASSUME NEW q \in Seq(Command), q # <<>>, NEW h, NEW b, Chain(Sounds(q), h, b),
           Head(q).is = "audio"
    PROVE  \E c \in Nat : /\ h <= c /\ c <= b /\ Head(q).text = Piece(h, c)
                          /\ Chain(Sounds(Tail(q)), c, b)
<1>1. Sounds(q) \in Seq(Seq(Nat))
    BY SoundsAre
<1>2. /\ Sounds(q) # <<>> /\ Sounds(Tail(q)) = Tail(Sounds(q)) /\ Tail(q) \in Seq(Command)
      /\ Head(Sounds(q)) = Head(q).text
    BY SoundsTail DEF Sound
<1>3. PICK c \in Nat : h <= c /\ Head(Sounds(q)) = Piece(h, c) /\ Chain(Tail(Sounds(q)), c, b)
    BY <1>1, <1>2, ChainTail
<1>4. Sounds(Tail(q)) \in Seq(Seq(Nat)) /\ Chain(Sounds(Tail(q)), c, b)
    BY <1>2, <1>3, SoundsAre
<1>5. c <= b
    BY <1>4, ChainOrder
<1> QED
    BY <1>2, <1>3, <1>4, <1>5

\* A command without audio that is taken leaves the pieces as they are.
LEMMA OtherTaken ==
    ASSUME NEW q \in Seq(Command), q # <<>>, NEW h, NEW b, Chain(Sounds(q), h, b),
           Head(q).is # "audio"
    PROVE  Chain(Sounds(Tail(q)), h, b)
<1>1. Sounds(q) \in Seq(Seq(Nat))
    BY SoundsAre
<1>2. Sounds(q) # <<>> /\ Sounds(Tail(q)) = Tail(Sounds(q)) /\ Head(Sounds(q)) = <<>>
    BY SoundsTail DEF Sound
<1>3. PICK c \in Nat : h <= c /\ Head(Sounds(q)) = Piece(h, c) /\ Chain(Tail(Sounds(q)), c, b)
    BY <1>1, <1>2, ChainTail
<1>4. h \in Nat
    BY <1>1, ChainOrder
<1>5. Len(Piece(h, c)) = c - h /\ Len(<<>>) = 0
    BY <1>3, <1>4, PieceIs, EmptySeq
<1>6. h = c
    BY <1>2, <1>3, <1>4, <1>5
<1> QED
    BY <1>2, <1>3, <1>6

\* Without audio in the commands, nothing is on its way in them.
LEMMA NoAudio ==
    ASSUME NEW q \in Seq(Command), NEW h, NEW b, Chain(Sounds(q), h, b),
           \A k \in 1..Len(q) : q[k].is # "audio"
    PROVE  h = b
<1> DEFINE t == Sounds(q)
           n == Len(t)
<1>1. t \in Seq(Seq(Nat)) /\ n \in Nat /\ \A k \in 1..n : t[k] = <<>>
    <2>1. /\ Sounds(q) \in Seq(Seq(Nat)) /\ Len(Sounds(q)) = Len(q) /\ Len(q) \in Nat
          /\ \A k \in 1..Len(q) : Sounds(q)[k] = Sound(q[k])
        BY SoundsAre
    <2> QED
        BY <2>1 DEF Sound
<1>2. PICK cut : Cuts(t, cut, h, b)
    BY DEF Chain
<1>3. /\ cut \in [0..n -> Nat] /\ cut[0] = h /\ cut[n] = b
      /\ \A k \in 1..n : cut[k - 1] <= cut[k] /\ t[k] = Piece(cut[k - 1], cut[k])
    BY <1>2 DEF Cuts
<1> HIDE DEF n, t
<1> DEFINE good == {k \in 0..n : cut[k] = h}
<1>4. 0 \in good
    BY <1>1, <1>3
<1>5. ASSUME NEW k \in 1..n, k - 1 \in good
      PROVE  k \in good
    <2>1. k \in 0..n /\ k - 1 \in 0..n
        BY <1>1
    <2> DEFINE x == cut[k - 1]
               y == cut[k]
    <2>2. x \in Nat /\ y \in Nat /\ x <= y /\ Piece(x, y) = <<>> /\ x = h
        BY <2>1, <1>1, <1>3, <1>5
    <2> HIDE DEF x, y
    <2>3. Len(Piece(x, y)) = y - x /\ Len(<<>>) = 0
        BY <2>2, PieceIs, EmptySeq
    <2>4. y = h
        BY <2>2, <2>3
    <2> QED
        BY <2>1, <2>4 DEF y
<1>6. \A k \in 1..n : k - 1 \in good => k \in good
    BY <1>5
<1> HIDE DEF good
<1>7. \A k \in 0..n : k \in good
    BY <1>1, <1>4, <1>6, OneByOne, Zenon
<1>8. n \in good
    BY <1>1, <1>7
<1> QED
    BY <1>3, <1>8 DEF good

\* The words depend on what is quiet and on the recording only.
LEMMA WordsKept ==
    ASSUME quiet' = quiet, samples' = samples
    PROVE  Words(samples)' = Words(samples)
BY DEF Words

\* What is said twice is an input.
LEMMA SeamsKept ==
    ASSUME UNCHANGED inputVars, samples' = samples
    PROVE  SeamsAreTold(Len(samples))' <=> SeamsAreTold(Len(samples))
BY DEF SeamsAreTold, EchoedAt, inputVars

\* A step that moves no audio.
LEMMA FlowKept ==
    ASSUME FlowInv, UNCHANGED <<heard, commands, batches, held, pending, samples>>,
           ~Lost' => ~Lost
    PROVE  FlowInv'
<1> SUFFICES ASSUME ~Lost'
             PROVE  (\E h, c, b, d : FlowAt(h, c, b, d))'
    BY DEF FlowInv
<1>1. PICK h, c, b, d : FlowAt(h, c, b, d)
    BY DEF FlowInv
<1>2. FlowAt(h, c, b, d)'
    BY <1>1 DEF FlowAt
<1> QED
    BY <1>2

\* RecognitionInv holds in the initial states.
LEMMA RecognitionInvInit == RecognitionInit => RecognitionInv
<1> SUFFICES ASSUME RecognitionInit
             PROVE  RecognitionInv
    OBVIOUS
<1>1. Piece(0, 0) = <<>> /\ 0 \in Nat /\ Len(<<>>) = 0 /\ 1..0 = {}
    BY NoSound, EmptySeq
<1>2. <<>> \in Seq(Nat) /\ <<>> \in Seq(Seq(Nat)) /\ <<>> \in Seq(Command)
    BY EmptySeq
<1>3. TypeInv
    BY <1>1, <1>2 DEF RecognitionInit, TypeInv, Phase
<1>4. StageInv
    BY DEF RecognitionInit, StageInv
<1>5. CommandInv
    BY <1>1 DEF RecognitionInit, CommandInv
<1>6. FlowInv
    <2>1. Sounds(<<>>) = <<>>
        <3>1. Sounds(<<>>) \in Seq(Seq(Nat)) /\ Len(Sounds(<<>>)) = Len(<<>>)
            BY <1>2, SoundsAre
        <3> QED
            BY <3>1, <1>1, EmptySeq
    <2>2. Chain(<<>>, 0, 0)
        BY ChainEmpty
    <2>3. FlowAt(0, 0, 0, 0)
        BY <1>1, <2>1, <2>2 DEF FlowAt, RecognitionInit
    <2> QED
        BY <2>3 DEF FlowInv
<1>7. AnswerInv
    BY <1>1 DEF AnswerInv, RecognitionInit, Nothing, TranscriptIsWhole
<1> QED
    BY <1>3, <1>4, <1>5, <1>6, <1>7 DEF RecognitionInv

\* StartRecognition keeps RecognitionInv.
LEMMA StartKeeps ==
    ASSUME RecognitionInv, StartRecognition
    PROVE  RecognitionInv'
<1> USE DEF RecognitionInv
<1>1. /\ phase = "idle" /\ samples = <<>> /\ pending = <<>> /\ heard = <<>> /\ commands = <<>>
      /\ connection = "none" /\ batches = <<>> /\ held = <<>> /\ ~overtaken /\ ~captureError
    BY DEF StartRecognition, StageInv
<1>2. /\ UNCHANGED <<inputVars, held, captureError, overtaken, batches, streamError,
                     commands, heard, early, reply, given>>
      /\ \/ phase' = "failed" /\ UNCHANGED connection
         \/ engine = "volcengine" /\ phase' = "active" /\ connection' = "connecting"
         \/ engine = "apple" /\ phase' = "starting" /\ connection' = "authorizing"
         \/ engine \notin Remote /\ phase' = "active" /\ UNCHANGED connection
      /\ \/ UNCHANGED <<samples, pending>>
         \/ samples' = [u \in 1..MaxUnits |-> u] /\ pending' = samples'
    BY DEF StartRecognition, VolcengineStarts, AppleStarts, Remote
<1>3. [u \in 1..MaxUnits |-> u] = Piece(0, MaxUnits) /\ Piece(0, MaxUnits) \in Seq(Nat)
      /\ Len(Piece(0, MaxUnits)) = MaxUnits /\ MaxUnits \in Nat
    <2>1. MaxUnits \in Nat
        BY Sizes
    <2>2. MaxUnits - 0 = MaxUnits /\ \A u \in 1..MaxUnits : 0 + u = u
        BY <2>1
    <2>3. [u \in 1..MaxUnits |-> u] = Piece(0, MaxUnits)
        BY <2>2 DEF Piece
    <2> QED
        BY <2>1, <2>3, WholeIs
<1>4. samples' = Piece(0, Len(samples')) /\ pending' = samples' /\ Len(samples') \in Nat
      /\ samples' \in Seq(Nat)
    BY <1>1, <1>2, <1>3, NoSound, EmptySeq
<1>5. TypeInv'
    BY <1>2, <1>4 DEF TypeInv, Phase, inputVars
<1>6. StageInv'
    BY <1>1, <1>2 DEF StageInv
<1>7. CommandInv'
    <2>1. commands' = <<>> /\ 1..Len(<<>>) = {}
        BY <1>1, <1>2, EmptySeq
    <2> QED
        BY <1>1, <1>2, <2>1 DEF CommandInv, inputVars, Remote
<1>8. FlowInv'
    <2> SUFFICES (\E h, c, b, d : FlowAt(h, c, b, d))'
        BY DEF FlowInv
    <2>1. <<>> \in Seq(Command)
        BY EmptySeq
    <2>2. Sounds(<<>>) = <<>>
        <3>1. Sounds(<<>>) \in Seq(Seq(Nat)) /\ Len(Sounds(<<>>)) = Len(<<>>)
            BY <2>1, SoundsAre
        <3> QED
            BY <3>1, EmptySeq
    <2>3. Chain(<<>>, 0, 0) /\ Piece(0, 0) = <<>>
        BY ChainEmpty, NoSound
    <2>4. FlowAt(0, 0, 0, 0)'
        BY <1>1, <1>2, <1>4, <2>2, <2>3 DEF FlowAt
    <2> QED
        BY <2>4
<1>9. AnswerInv'
    <2>1. commands' = <<>> /\ 1..Len(<<>>) = {}
        BY <1>1, <1>2, EmptySeq
    <2>2. ~reply.ok /\ ~given.ok
        BY <1>1 DEF AnswerInv
    <2> QED
        BY <1>2, <2>1, <2>2 DEF AnswerInv, TranscriptIsWhole
<1> QED
    BY <1>5, <1>6, <1>7, <1>8, <1>9

\* The queue after a command was sent.
LEMMA Sent ==
    ASSUME NEW q \in Seq(Command), NEW c \in Command, NEW r, r = Append(q, c)
    PROVE  /\ r \in Seq(Command) /\ Len(r) = Len(q) + 1 /\ Len(q) \in Nat /\ Len(r) \in Nat
           /\ r[Len(r)] = c
           /\ \A k \in 1..Len(r) : \/ k \in 1..Len(q) /\ k # Len(r) /\ r[k] = q[k]
                                   \/ k = Len(r) /\ k \notin 1..Len(q) /\ r[k] = c
<1>1. Len(q) \in Nat
    BY LenProperties
<1>2. r \in Seq(Command) /\ Len(r) = Len(q) + 1 /\ r[Len(q) + 1] = c
      /\ \A k \in 1..Len(q) : r[k] = q[k]
    BY AppendProperties
<1> QED
    BY <1>1, <1>2

\* The queue after a command was taken.
LEMMA Taken ==
    ASSUME NEW q \in Seq(Command), q # <<>>
    PROVE  /\ Tail(q) \in Seq(Command) /\ Head(q) \in Command /\ Len(q) \in Nat
           /\ 1 \in 1..Len(q) /\ Head(q) = q[1]
           /\ \A k \in 1..Len(Tail(q)) : /\ k + 1 \in 1..Len(q) /\ k \in Nat /\ 1 < k + 1
                                         /\ Tail(q)[k] = q[k + 1]
<1>1. /\ Tail(q) \in Seq(Command) /\ Head(q) \in Command
      /\ Len(q) \in Nat /\ Len(Tail(q)) = Len(q) - 1 /\ Head(q) = q[1]
      /\ \A k \in 1..(Len(q) - 1) : Tail(q)[k] = q[k + 1] /\ k + 1 \in 1..Len(q)
    BY SoundsTail
<1>2. Len(q) # 0
    BY EmptySeq
<1> QED
    BY <1>1, <1>2

\* No answer is good as long as the recording goes on.
Recording == phase \in {"idle", "starting", "failed", "active", "stopping", "cancelled",
                        "finishing"}

\* What the answers are before the recording is at its end.
LEMMA NotAnswered ==
    ASSUME AnswerInv, Recording, commands \in Seq(Command)
    PROVE  /\ ~given.ok
           /\ reply.ok => overtaken \/ early \/ streamError
           /\ \A k \in 1..Len(commands) :
                 commands[k].is = "final" => overtaken \/ early \/ streamError
BY DEF AnswerInv, Recording, Good

\* The engine or its queue takes the next piece.
LEMMA PushedChain ==
    ASSUME TypeInv, CommandInv, NEW h \in Nat, NEW c \in Nat, NEW x \in Nat, h <= c, c <= x,
           heard = Piece(0, h), Chain(Sounds(commands), h, c),
           PushAudio(Piece(c, x)), ~streamError'
    PROVE  \E g \in Nat : g <= x /\ heard' = Piece(0, g) /\ Chain(Sounds(commands'), g, x)
<1>1. commands \in Seq(Command) /\ Piece(c, x) \in Seq(Nat)
    BY PieceIs DEF TypeInv
<1>2. Takes(Piece(c, x))
    BY DEF PushAudio
<1>3. CASE engine \in Remote
    <2> DEFINE a == [is |-> "audio", text |-> Piece(c, x)]
    <2>1. commands' = Append(commands, a) /\ heard' = heard
        BY <1>2, <1>3 DEF PushAudio
    <2>2. a \in Command /\ a.is = "audio" /\ a.text = Piece(c, x)
        BY <1>1 DEF Command, Kind
    <2> HIDE DEF a
    <2>3. Chain(Sounds(Append(commands, a)), h, x)
        BY <1>1, <2>2, AudioSent
    <2>4. h <= x
        OBVIOUS
    <2> QED
        BY <2>1, <2>3, <2>4
<1>4. CASE engine \notin Remote
    <2>1. commands = <<>> /\ commands' = commands /\ heard' = heard \o Piece(c, x)
        BY <1>2, <1>4 DEF PushAudio, CommandInv
    <2>2. 1..Len(commands) = {}
        BY <2>1, EmptySeq
    <2>3. h = c
        BY <1>1, <2>2, NoAudio
    <2>4. 0 \in Nat /\ 0 <= h /\ h <= x
        OBVIOUS
    <2>5. Piece(0, h) \o Piece(h, x) = Piece(0, x)
        BY <2>4, PiecesJoin
    <2>6. Sounds(commands') = <<>>
        <3>1. Sounds(commands) \in Seq(Seq(Nat)) /\ Len(Sounds(commands)) = Len(commands)
            BY <1>1, SoundsAre
        <3> QED
            BY <2>1, <3>1, EmptySeq
    <2>7. Chain(<<>>, x, x) /\ x <= x
        BY ChainEmpty
    <2> QED
        BY <2>1, <2>3, <2>5, <2>6, <2>7
<1> QED
    BY <1>3, <1>4

\* What PushAudio does to the commands.
LEMMA PushKeeps ==
    ASSUME TypeInv, CommandInv, NEW batch \in Seq(Nat), PushAudio(batch),
           phase \in {"active", "stopping"}, phase' \in {"active", "stopping"},
           UNCHANGED <<engine, connection>>
    PROVE  /\ CommandInv' /\ commands' \in Seq(Command) /\ heard' \in Seq(Nat)
           /\ streamError' \in BOOLEAN /\ (streamError => streamError')
           /\ \A k \in 1..Len(commands') :
                 commands'[k].is = "final" => k \in 1..Len(commands) /\ commands'[k] = commands[k]
<1> DEFINE a == [is |-> "audio", text |-> batch]
<1>1. commands \in Seq(Command) /\ heard \in Seq(Nat) /\ streamError \in BOOLEAN
    BY DEF TypeInv
<1>2. a \in Command /\ a.is = "audio"
    BY DEF Command, Kind
<1>3. /\ \/ UNCHANGED commands
         \/ engine \in Remote /\ commands' = Append(commands, a)
      /\ heard' = heard \/ heard' = heard \o batch
      /\ streamError' = streamError \/ streamError' = TRUE
    BY DEF PushAudio
<1> HIDE DEF a
<1>8. heard \o batch \in Seq(Nat)
    BY <1>1, ConcatProperties
<1>4. heard' \in Seq(Nat) /\ streamError' \in BOOLEAN /\ (streamError => streamError')
    <2>1. heard' \in Seq(Nat)
        BY <1>1, <1>3, <1>8
    <2>2. streamError' \in BOOLEAN
        BY <1>1, <1>3, Zenon
    <2>3. streamError => streamError'
        BY <1>3, Zenon
    <2> QED
        BY <2>1, <2>2, <2>3, Zenon
<1>5. /\ connection # "finishing"
      /\ \A k \in 1..Len(commands) : commands[k].is # "finish"
    BY DEF CommandInv
<1>6. CASE UNCHANGED commands
    <2>1. CommandInv'
        BY <1>5, <1>6 DEF CommandInv
    <2> QED
        BY <1>1, <1>4, <1>6, <2>1
<1>7. CASE engine \in Remote /\ commands' = Append(commands, a)
    <2>1. /\ commands' \in Seq(Command)
          /\ \A k \in 1..Len(commands') : \/ k \in 1..Len(commands) /\ commands'[k] = commands[k]
                                          \/ commands'[k] = a
        BY <1>1, <1>2, <1>7, Sent
    <2>2. \A k \in 1..Len(commands') : commands'[k].is # "finish"
        BY <1>2, <1>5, <2>1
    <2>3. engine = "volcengine" =>
              \A k \in 1..Len(commands') : commands'[k].is \notin {"final", "error"}
        BY <1>2, <2>1 DEF CommandInv
    <2>4. CommandInv'
        BY <1>5, <1>7, <2>2, <2>3 DEF CommandInv
    <2> QED
        BY <1>2, <1>4, <2>1, <2>4
<1> QED
    BY <1>3, <1>6, <1>7

\* The rest of a piece whose first units are taken away.
LEMMA RestOfPiece ==
    ASSUME NEW d \in Nat, NEW e \in Nat, d <= e, NEW B \in Nat, B <= Len(Piece(d, e))
    PROVE  SubSeq(Piece(d, e), B + 1, Len(Piece(d, e))) = Piece(d + B, e)
<1> DEFINE l == e - d
<1>1. Len(Piece(d, e)) = l /\ d + l = e
    BY PieceIs
<1>2. l \in Nat /\ B <= l /\ l <= e - d
    BY <1>1
<1> HIDE DEF l
<1>3. SubSeq(Piece(d, e), B + 1, l) = Piece(d + B, d + l)
    BY <1>2, PartOfPiece
<1> QED
    BY <1>1, <1>3

\* The first units of a piece.
LEMMA SplitPiece ==
    ASSUME NEW d \in Nat, NEW e \in Nat, d <= e, NEW B \in Nat, B <= Len(Piece(d, e))
    PROVE  /\ SubSeq(Piece(d, e), 1, B) = Piece(d, d + B)
           /\ d + B \in Nat /\ d <= d + B /\ d + B <= e /\ Len(Piece(d, d + B)) = B
<1>1. Len(Piece(d, e)) = e - d
    BY PieceIs
<1>2. 0 \in Nat /\ 0 <= B /\ d + 0 = d /\ 0 + 1 = 1 /\ B <= e - d
    BY <1>1
<1>3. SubSeq(Piece(d, e), 0 + 1, B) = Piece(d + 0, d + B)
    BY <1>2, PartOfPiece
<1>5. d + B \in Nat /\ d <= d + B /\ d + B <= e /\ (d + B) - d = B
    BY <1>1
<1>6. Len(Piece(d, d + B)) = (d + B) - d
    BY <1>5, PieceIs
<1> QED
    BY <1>2, <1>3, <1>5, <1>6

\* Captures keeps RecognitionInv.
LEMMA CapturesKeeps ==
    ASSUME RecognitionInv, Captures
    PROVE  RecognitionInv'
<1> USE DEF RecognitionInv
<1> DEFINE n == Len(samples)
<1>1. phase = "active" /\ source = "live" /\ held = <<>> /\ pending \in Seq(Nat)
      /\ samples \in Seq(Nat) /\ samples = Piece(0, n) /\ commands \in Seq(Command)
    BY DEF Captures, TypeInv
<1>2. PICK m \in Callbacks :
          LET units == [k \in 1..m |-> Len(samples) + k]
              full  == pending \o units IN
          /\ Len(samples) + m <= MaxUnits
          /\ samples' = samples \o units
          /\ IF Len(full) < BatchUnits
             THEN pending' = full /\ UNCHANGED held
             ELSE /\ held' = SubSeq(full, 1, BatchUnits)
                  /\ pending' = SubSeq(full, BatchUnits + 1, Len(full))
    BY DEF Captures
<1>3. UNCHANGED <<inputVars, phase, captureError, overtaken, batches, streamError,
                  engineVars, given>>
    BY DEF Captures
<1>4. m \in Nat /\ n \in Nat /\ n + m \in Nat /\ n <= n + m
    BY <1>1, SizesArePositive, LenProperties
<1> DEFINE u == Piece(n, n + m)
           full == pending \o u
<1>5. [k \in 1..m |-> Len(samples) + k] = u
    <2>1. (n + m) - n = m
        BY <1>4
    <2> QED
        BY <2>1 DEF Piece
<1>6. u \in Seq(Nat) /\ Len(u) = m
    <2>1. u \in Seq(Nat) /\ Len(u) = (n + m) - n
        BY <1>4, PieceIs
    <2> QED
        BY <2>1, <1>4
<1>7. /\ samples' = samples \o u
      /\ IF Len(full) < BatchUnits
         THEN pending' = full /\ UNCHANGED held
         ELSE /\ held' = SubSeq(full, 1, BatchUnits)
              /\ pending' = SubSeq(full, BatchUnits + 1, Len(full))
    BY <1>2, <1>5
<1> HIDE DEF u
<1>8. samples' = Piece(0, n + m) /\ Len(samples') = n + m /\ samples' \in Seq(Nat)
    <2>1. 0 \in Nat /\ 0 <= n
        BY <1>4
    <2>2. Piece(0, n) \o Piece(n, n + m) = Piece(0, n + m)
        BY <1>4, <2>1, PiecesJoin
    <2>3. samples' = Piece(0, n + m)
        BY <1>1, <1>7, <2>2 DEF u
    <2> QED
        BY <1>4, <2>3, WholeIs
<1>9. BatchUnits \in Nat /\ BatchUnits # 0
    BY Sizes
<1>10. full \in Seq(Nat) /\ Len(full) = Len(pending) + m /\ Len(full) \in Nat
    BY <1>1, <1>4, <1>6, ConcatProperties, LenProperties
<1> HIDE DEF full
<1>11. pending' \in Seq(Nat) /\ held' \in Seq(Nat)
    <2>1. CASE Len(full) < BatchUnits
        BY <1>1, <1>7, <1>10, <2>1, EmptySeq
    <2>2. CASE ~(Len(full) < BatchUnits)
        <3>1. BatchUnits <= Len(full) /\ Len(full) <= Len(full) /\ 0 \in Nat /\ 0 <= BatchUnits
            BY <2>2, <1>9, <1>10
        <3>2. SubSeq(full, BatchUnits + 1, Len(full)) \in Seq(Nat)
            BY <3>1, <1>9, <1>10, SliceIs
        <3>3. SubSeq(full, 0 + 1, BatchUnits) \in Seq(Nat)
            BY <3>1, <1>9, <1>10, SliceIs
        <3>4. 0 + 1 = 1
            OBVIOUS
        <3> QED
            BY <2>2, <3>2, <3>3, <3>4, <1>7
    <2> QED
        BY <2>1, <2>2
<1> HIDE DEF n
<1>12. TypeInv'
    BY <1>3, <1>8, <1>11 DEF TypeInv, inputVars, engineVars
<1>13. StageInv'
    BY <1>1, <1>3 DEF StageInv, inputVars, engineVars
<1>14. CommandInv'
    BY <1>3 DEF CommandInv, inputVars, engineVars
<1>15. FlowInv'
    <2> SUFFICES ASSUME ~Lost'
                 PROVE  (\E h, c, b, d : FlowAt(h, c, b, d))'
        BY DEF FlowInv
    <2>1. ~Lost
        BY <1>3 DEF Lost
    <2>2. PICK h, c, b, d : FlowAt(h, c, b, d)
        BY <2>1 DEF FlowInv
    <2>3. /\ h \in Nat /\ c \in Nat /\ b \in Nat /\ d \in Nat
          /\ h <= c /\ c <= b /\ b <= d /\ d <= n
          /\ heard = Piece(0, h) /\ Chain(Sounds(commands), h, c) /\ Chain(batches, c, b)
          /\ held = Piece(b, d) /\ pending = Piece(d, n)
        BY <2>2 DEF FlowAt, n
    <2>4. b = d
        <3>1. Len(Piece(b, d)) = d - b /\ Len(<<>>) = 0
            BY <2>3, PieceIs, EmptySeq
        <3> QED
            BY <3>1, <2>3, <1>1
    <2> DEFINE e == n + m
    <2>9. e \in Nat /\ d <= e /\ Len(samples') = e
        BY <2>3, <1>4, <1>8
    <2>5. full = Piece(d, e)
        BY <2>3, <1>4, PiecesJoin DEF full, u
    <2> HIDE DEF e
    <2>6. heard' = heard /\ commands' = commands /\ batches' = batches
        BY <1>3 DEF engineVars
    <2>7. CASE Len(full) < BatchUnits
        <3>1. held' = <<>> /\ pending' = Piece(d, e) /\ Piece(d, d) = <<>>
            BY <2>3, <2>5, <2>7, <1>1, <1>7, NoSound
        <3>2. FlowAt(h, c, d, d)'
            BY <3>1, <2>3, <2>4, <2>6, <2>9 DEF FlowAt
        <3> QED
            BY <3>2
    <2>8. CASE ~(Len(full) < BatchUnits)
        <3> DEFINE B == BatchUnits
        <3>1. B \in Nat /\ B <= Len(Piece(d, e))
            BY <2>5, <2>8, <1>9, <1>10
        <3>2. /\ held' = SubSeq(Piece(d, e), 1, B)
              /\ pending' = SubSeq(Piece(d, e), B + 1, Len(Piece(d, e)))
            BY <2>5, <2>8, <1>7
        <3> HIDE DEF B
        <3>3. /\ SubSeq(Piece(d, e), 1, B) = Piece(d, d + B)
              /\ SubSeq(Piece(d, e), B + 1, Len(Piece(d, e))) = Piece(d + B, e)
              /\ d + B \in Nat /\ d <= d + B /\ d + B <= e
            <4>1. d \in Nat /\ e \in Nat /\ d <= e /\ B \in Nat /\ B <= Len(Piece(d, e))
                BY <3>1, <2>3, <2>9
            <4>2. SubSeq(Piece(d, e), 1, B) = Piece(d, d + B)
                BY <4>1, SplitPiece
            <4>3. SubSeq(Piece(d, e), B + 1, Len(Piece(d, e))) = Piece(d + B, e)
                BY <4>1, RestOfPiece
            <4>4. d + B \in Nat /\ d <= d + B /\ d + B <= e
                BY <4>1, SplitPiece
            <4> QED
                BY <4>2, <4>3, <4>4
        <3>7. FlowAt(h, c, d, d + B)'
            BY <3>2, <3>3, <2>3, <2>4, <2>6, <2>9 DEF FlowAt
        <3> QED
            BY <3>7
    <2> QED
        BY <2>7, <2>8
<1>16. AnswerInv'
    <2>1. /\ ~given.ok
          /\ reply.ok => overtaken \/ early \/ streamError
          /\ \A k \in 1..Len(commands) :
                commands[k].is = "final" => overtaken \/ early \/ streamError
        BY <1>1, NotAnswered DEF Recording
    <2> QED
        BY <1>3, <2>1 DEF AnswerInv, Good, TranscriptIsWhole, engineVars
<1> QED
    BY <1>12, <1>13, <1>14, <1>15, <1>16

\* OffersBatch keeps RecognitionInv.
LEMMA OffersKeeps ==
    ASSUME RecognitionInv, OffersBatch
    PROVE  RecognitionInv'
<1> USE DEF RecognitionInv
<1>1. /\ held # <<>> /\ held' = <<>>
      /\ \/ batches' = Append(batches, held) /\ UNCHANGED captureError
         \/ captureError' = TRUE /\ UNCHANGED batches
      /\ UNCHANGED <<inputVars, phase, samples, pending, overtaken, streamError,
                     engineVars, given>>
    BY DEF OffersBatch
<1>2. held \in Seq(Nat) /\ batches \in Seq(Seq(Nat)) /\ captureError \in BOOLEAN
      /\ samples \in Seq(Nat)
    BY DEF TypeInv
<1>3. Append(batches, held) \in Seq(Seq(Nat))
    BY <1>2, AppendProperties
<1>4. TypeInv'
    <2>1. held' \in Seq(Nat) /\ batches' \in Seq(Seq(Nat))
        BY <1>1, <1>2, <1>3, EmptySeq
    <2>2. captureError' \in BOOLEAN
        BY <1>1, <1>2, Zenon
    <2> QED
        BY <1>1, <2>1, <2>2 DEF TypeInv, inputVars, engineVars
<1>5. /\ source # "restored"
      /\ phase \in {"active", "cancelled"} \/ (phase = "stopping" /\ overtaken)
    BY <1>1 DEF StageInv
<1>6. StageInv'
    BY <1>1, <1>5 DEF StageInv, inputVars, engineVars
<1>7. CommandInv'
    BY <1>1 DEF CommandInv, inputVars, engineVars
<1>8. FlowInv'
    <2> SUFFICES ASSUME ~Lost'
                 PROVE  (\E h, c, b, d : FlowAt(h, c, b, d))'
        BY DEF FlowInv
    <2>1. ~Lost /\ batches' = Append(batches, held)
        BY <1>1 DEF Lost
    <2>2. PICK h, c, b, d : FlowAt(h, c, b, d)
        BY <2>1 DEF FlowInv
    <2>3. /\ h \in Nat /\ c \in Nat /\ b \in Nat /\ d \in Nat
          /\ h <= c /\ c <= b /\ b <= d /\ d <= Len(samples)
          /\ heard = Piece(0, h) /\ Chain(Sounds(commands), h, c) /\ Chain(batches, c, b)
          /\ held = Piece(b, d) /\ pending = Piece(d, Len(samples))
        BY <2>2 DEF FlowAt
    <2>4. Chain(Append(batches, Piece(b, d)), c, d)
        BY <2>3, <1>2, ChainAppend
    <2>5. Chain(batches', c, d) /\ held' = Piece(d, d) /\ c <= d /\ d <= d
        BY <2>1, <2>3, <2>4, <1>1, NoSound
    <2>6. FlowAt(h, c, d, d)'
        BY <2>3, <2>5, <1>1 DEF FlowAt, engineVars
    <2> QED
        BY <2>6
<1>9. AnswerInv'
    <2>1. Words(samples)' = Words(samples)
        BY <1>1, WordsKept DEF inputVars
    <2>2. SeamsAreTold(Len(samples))' <=> SeamsAreTold(Len(samples))
        BY <1>1, SeamsKept
    <2> QED
        BY <1>1, <2>1, <2>2 DEF AnswerInv, Good, TranscriptIsWhole, inputVars, engineVars
<1> QED
    BY <1>4, <1>6, <1>7, <1>8, <1>9

\* StreamWorkerPushes keeps RecognitionInv.
LEMMA StreamPushesKeeps ==
    ASSUME RecognitionInv, StreamWorkerPushes
    PROVE  RecognitionInv'
<1> USE DEF RecognitionInv
<1>1. /\ batches # <<>> /\ batches' = Tail(batches)
      /\ UNCHANGED <<inputVars, phase, samples, pending, held, captureError, overtaken,
                     connection, early, reply, given>>
      /\ phase \in {"active", "stopping", "cancelled"} /\ source # "restored"
    BY DEF StreamWorkerPushes, StageInv
<1>2. batches \in Seq(Seq(Nat)) /\ commands \in Seq(Command) /\ samples \in Seq(Nat)
    BY DEF TypeInv
<1>3. batches' \in Seq(Seq(Nat)) /\ Head(batches) \in Seq(Nat)
    BY <1>1, <1>2, HeadTailProperties
<1>4. CASE phase = "cancelled"
    <2>1. UNCHANGED <<streamError, commands, heard>>
        BY <1>4 DEF StreamWorkerPushes
    <2>2. TypeInv' /\ CommandInv'
        BY <1>1, <1>3, <2>1 DEF TypeInv, CommandInv, inputVars
    <2>3. StageInv'
        BY <1>1, <1>4, <2>1 DEF StageInv, inputVars
    <2>4. FlowInv'
        BY <1>1, <1>4 DEF FlowInv, Lost
    <2>5. AnswerInv'
        <3>1. Words(samples)' = Words(samples)
            BY <1>1, WordsKept DEF inputVars
        <3> QED
            BY <1>1, <2>1, <3>1 DEF AnswerInv, Good, TranscriptIsWhole, inputVars
    <2> QED
        BY <2>2, <2>3, <2>4, <2>5
<1>5. CASE phase \in {"active", "stopping"}
    <2>1. PushAudio(Head(batches))
        BY <1>5 DEF StreamWorkerPushes
    <2>2. /\ CommandInv' /\ commands' \in Seq(Command) /\ heard' \in Seq(Nat)
          /\ streamError' \in BOOLEAN /\ (streamError => streamError')
          /\ \A k \in 1..Len(commands') :
                commands'[k].is = "final" => k \in 1..Len(commands) /\ commands'[k] = commands[k]
        BY <1>1, <1>3, <1>5, <2>1, PushKeeps DEF inputVars
    <2>3. TypeInv'
        BY <1>1, <1>3, <2>2 DEF TypeInv, inputVars
    <2>4. StageInv'
        BY <1>1, <1>5 DEF StageInv, inputVars
    <2>5. FlowInv'
        <3> SUFFICES ASSUME ~Lost'
                     PROVE  (\E h, c, b, d : FlowAt(h, c, b, d))'
            BY DEF FlowInv
        <3>1. ~Lost /\ ~streamError'
            BY <1>1, <2>2 DEF Lost
        <3>2. PICK h, c, b, d : FlowAt(h, c, b, d)
            BY <3>1 DEF FlowInv
        <3>3. /\ h \in Nat /\ c \in Nat /\ b \in Nat /\ d \in Nat
              /\ h <= c /\ c <= b /\ b <= d /\ d <= Len(samples)
              /\ heard = Piece(0, h) /\ Chain(Sounds(commands), h, c) /\ Chain(batches, c, b)
              /\ held = Piece(b, d) /\ pending = Piece(d, Len(samples))
            BY <3>2 DEF FlowAt
        <3>4. PICK x \in Nat : c <= x /\ Head(batches) = Piece(c, x) /\ Chain(Tail(batches), x, b)
            BY <3>3, <1>1, <1>2, ChainTail
        <3>5. x <= b
            BY <3>4, <1>1, <1>3, ChainOrder
        <3>6. PushAudio(Piece(c, x))
            BY <2>1, <3>4
        <3>7. PICK g \in Nat : g <= x /\ heard' = Piece(0, g) /\ Chain(Sounds(commands'), g, x)
            BY <3>1, <3>3, <3>4, <3>6, PushedChain
        <3>8. FlowAt(g, x, b, d)'
            BY <3>3, <3>4, <3>5, <3>7, <1>1 DEF FlowAt
        <3> QED
            BY <3>8
    <2>6. AnswerInv'
        <3>1. /\ ~given.ok
              /\ reply.ok => overtaken \/ early \/ streamError
              /\ \A k \in 1..Len(commands) :
                    commands[k].is = "final" => overtaken \/ early \/ streamError
            BY <1>2, <1>5, NotAnswered DEF Recording
        <3>2. reply.ok => overtaken' \/ early' \/ streamError'
            BY <1>1, <2>2, <3>1, Zenon
        <3>3. \A k \in 1..Len(commands') :
                    commands'[k].is = "final" => overtaken' \/ early' \/ streamError'
            BY <1>1, <2>2, <3>1, Zenon
        <3>4. reply.ok => connection = "closed"
            BY DEF AnswerInv
        <3> QED
            BY <1>1, <3>1, <3>2, <3>3, <3>4 DEF AnswerInv, Good, TranscriptIsWhole
    <2> QED
        BY <2>2, <2>3, <2>4, <2>5, <2>6
<1> QED
    BY <1>1, <1>4, <1>5

\* What SendCancel does to the commands.
LEMMA CancelSent ==
    ASSUME TypeInv, CommandInv, SendCancel, phase = "active", phase' = "cancelled",
           UNCHANGED <<engine, connection>>
    PROVE  /\ commands' \in Seq(Command) /\ CommandInv'
           /\ \A k \in 1..Len(commands') :
                 commands'[k].is = "final" => k \in 1..Len(commands) /\ commands'[k] = commands[k]
<1> DEFINE a == [is |-> "cancel", text |-> <<>>]
<1>1. a \in Command /\ a.is = "cancel"
    BY EmptySeq DEF Command, Kind
<1>2. \/ UNCHANGED commands
      \/ engine \in Remote /\ commands' = Append(commands, a)
    BY DEF SendCancel, Remote
<1> HIDE DEF a
<1>3. /\ commands \in Seq(Command) /\ connection # "finishing"
      /\ \A k \in 1..Len(commands) : commands[k].is # "finish"
    BY DEF TypeInv, CommandInv
<1>4. CASE UNCHANGED commands
    BY <1>3, <1>4 DEF CommandInv
<1>5. CASE engine \in Remote /\ commands' = Append(commands, a)
    <2>1. /\ commands' \in Seq(Command)
          /\ \A k \in 1..Len(commands') : \/ k \in 1..Len(commands) /\ commands'[k] = commands[k]
                                          \/ commands'[k] = a
        BY <1>1, <1>3, <1>5, Sent
    <2>2. \A k \in 1..Len(commands') : commands'[k].is # "finish"
        BY <1>1, <1>3, <2>1
    <2>3. engine = "volcengine" =>
              \A k \in 1..Len(commands') : commands'[k].is \notin {"final", "error"}
        BY <1>1, <2>1 DEF CommandInv
    <2>4. CommandInv'
        BY <1>3, <1>5, <2>2, <2>3 DEF CommandInv
    <2> QED
        BY <1>1, <2>1, <2>4
<1> QED
    BY <1>2, <1>4, <1>5

\* CancelRecognition keeps RecognitionInv.
LEMMA CancelKeeps ==
    ASSUME RecognitionInv, CancelRecognition
    PROVE  RecognitionInv'
<1> USE DEF RecognitionInv
<1>1. /\ phase = "active" /\ source = "live" /\ phase' = "cancelled" /\ SendCancel
      /\ UNCHANGED <<inputVars, captureVars, streamError, connection, heard, early, reply, given>>
    BY DEF CancelRecognition
<1>2. /\ commands' \in Seq(Command) /\ CommandInv'
      /\ \A k \in 1..Len(commands') :
            commands'[k].is = "final" => k \in 1..Len(commands) /\ commands'[k] = commands[k]
    BY <1>1, CancelSent DEF inputVars
<1>3. TypeInv'
    BY <1>1, <1>2 DEF TypeInv, Phase, inputVars, captureVars
<1>4. StageInv'
    BY <1>1 DEF StageInv, inputVars, captureVars
<1>5. FlowInv'
    BY <1>1 DEF FlowInv, Lost
<1>6. AnswerInv'
    <2>1. /\ ~given.ok
          /\ reply.ok => overtaken \/ early \/ streamError
          /\ \A k \in 1..Len(commands) :
                commands[k].is = "final" => overtaken \/ early \/ streamError
        BY <1>1, NotAnswered DEF Recording, TypeInv
    <2>2. reply.ok => connection = "closed"
        BY DEF AnswerInv
    <2> QED
        BY <1>1, <1>2, <2>1, <2>2 DEF AnswerInv, Good, TranscriptIsWhole, captureVars
<1> QED
    BY <1>2, <1>3, <1>4, <1>5, <1>6

\* TakeRecognition keeps RecognitionInv.
LEMMA TakeKeeps ==
    ASSUME RecognitionInv, TakeRecognition
    PROVE  RecognitionInv'
<1> USE DEF RecognitionInv
<1>1. /\ phase = "stopping" /\ batches = <<>> /\ held = <<>> /\ phase' = "finishing"
      /\ UNCHANGED <<inputVars, captureVars, streamError, engineVars, given>>
    BY DEF TakeRecognition
<1>2. TypeInv'
    BY <1>1 DEF TypeInv, Phase, inputVars, captureVars, engineVars
<1>3. StageInv'
    BY <1>1 DEF StageInv, inputVars, captureVars, engineVars
<1>4. CommandInv'
    BY <1>1 DEF CommandInv, inputVars, engineVars
<1>5. FlowInv'
    <2>1. ~Lost' => ~Lost
        BY <1>1 DEF Lost, captureVars
    <2> QED
        BY <1>1, <2>1, FlowKept DEF captureVars, engineVars
<1>6. AnswerInv'
    <2>1. /\ ~given.ok
          /\ reply.ok => overtaken \/ early \/ streamError
          /\ \A k \in 1..Len(commands) :
                commands[k].is = "final" => overtaken \/ early \/ streamError
        BY <1>1, NotAnswered DEF Recording, TypeInv
    <2>2. reply.ok => connection = "closed"
        BY DEF AnswerInv
    <2> QED
        BY <1>1, <2>1, <2>2 DEF AnswerInv, Good, TranscriptIsWhole, captureVars, engineVars
<1> QED
    BY <1>2, <1>3, <1>4, <1>5, <1>6

\* Nothing is on its way: the engine heard the recording.
LEMMA AllHeard ==
    ASSUME TypeInv, FlowInv, ~Lost, batches = <<>>, held = <<>>, pending = <<>>,
           \A k \in 1..Len(commands) : commands[k].is # "audio"
    PROVE  heard = samples
<1>1. commands \in Seq(Command) /\ samples \in Seq(Nat) /\ samples = Piece(0, Len(samples))
      /\ batches \in Seq(Seq(Nat))
    BY DEF TypeInv
<1>2. PICK h, c, b, d : FlowAt(h, c, b, d)
    BY DEF FlowInv
<1> DEFINE n == Len(samples)
<1>3. /\ h \in Nat /\ c \in Nat /\ b \in Nat /\ d \in Nat
      /\ h <= c /\ c <= b /\ b <= d /\ d <= n
      /\ heard = Piece(0, h) /\ Chain(Sounds(commands), h, c) /\ Chain(batches, c, b)
      /\ held = Piece(b, d) /\ pending = Piece(d, n)
    BY <1>2 DEF FlowAt
<1>4. n \in Nat
    BY <1>1, LenProperties
<1> HIDE DEF n
<1>5. h = c
    BY <1>1, <1>3, NoAudio
<1>6. c = b
    BY <1>1, <1>3, ChainOrder
<1>7. Len(Piece(b, d)) = d - b /\ Len(Piece(d, n)) = n - d /\ Len(<<>>) = 0
    BY <1>3, <1>4, PieceIs, EmptySeq
<1>8. b = d /\ d = n
    BY <1>3, <1>4, <1>7
<1> QED
    BY <1>1, <1>3, <1>5, <1>6, <1>8 DEF n

\* StopRecording keeps RecognitionInv.
LEMMA StopKeeps ==
    ASSUME RecognitionInv, StopRecording
    PROVE  RecognitionInv'
<1> USE DEF RecognitionInv
<1>1. /\ phase = "active" /\ source = "live" /\ overtaken' = (held # <<>>)
      /\ UNCHANGED <<inputVars, samples, held, captureError, streamError, connection,
                     heard, early, reply, given>>
      /\ \/ captureError /\ phase' = "cancelled" /\ SendCancel /\ UNCHANGED <<pending, batches>>
         \/ ~captureError /\ StopFlushes /\ phase' = "stopping" /\ UNCHANGED commands
    BY DEF StopRecording
<1>2. ~overtaken /\ ~given.ok /\ (reply.ok => early \/ streamError)
      /\ \A k \in 1..Len(commands) : commands[k].is = "final" => early \/ streamError
    BY <1>1, NotAnswered DEF Recording, TypeInv, StageInv
<1>3. reply.ok => connection = "closed"
    BY DEF AnswerInv
<1>4. CASE captureError /\ phase' = "cancelled" /\ SendCancel /\ UNCHANGED <<pending, batches>>
    <2>1. /\ commands' \in Seq(Command) /\ CommandInv'
          /\ \A k \in 1..Len(commands') :
                commands'[k].is = "final" => k \in 1..Len(commands) /\ commands'[k] = commands[k]
        BY <1>1, <1>4, CancelSent DEF inputVars
    <2>2. TypeInv'
        BY <1>1, <1>4, <2>1 DEF TypeInv, Phase, inputVars
    <2>3. StageInv'
        BY <1>1, <1>4 DEF StageInv, inputVars
    <2>4. FlowInv'
        BY <1>4 DEF FlowInv, Lost
    <2>5. AnswerInv'
        BY <1>1, <1>2, <1>3, <2>1 DEF AnswerInv, Good, TranscriptIsWhole
    <2> QED
        BY <2>1, <2>2, <2>3, <2>4, <2>5
<1>5. CASE ~captureError /\ StopFlushes /\ phase' = "stopping" /\ UNCHANGED commands
    <2>1. /\ pending' = <<>>
          /\ batches' = IF pending = <<>> THEN batches ELSE Append(batches, pending)
        BY <1>5 DEF StopFlushes
    <2>2. pending' \in Seq(Nat) /\ batches' \in Seq(Seq(Nat))
        <3>1. Append(batches, pending) \in Seq(Seq(Nat)) /\ batches \in Seq(Seq(Nat))
            BY AppendProperties DEF TypeInv
        <3> QED
            BY <2>1, <3>1, EmptySeq
    <2>3. TypeInv'
        BY <1>1, <1>5, <2>2 DEF TypeInv, Phase, inputVars
    <2>4. StageInv'
        BY <1>1, <1>5, <2>1 DEF StageInv, inputVars
    <2>5. CommandInv'
        BY <1>1, <1>5 DEF CommandInv, inputVars
    <2>6. FlowInv'
        <3> SUFFICES ASSUME ~Lost'
                     PROVE  (\E h, c, b, d : FlowAt(h, c, b, d))'
            BY DEF FlowInv
        <3>1. ~Lost /\ held = <<>>
            BY <1>1, <1>2, <1>5 DEF Lost
        <3>2. PICK h, c, b, d : FlowAt(h, c, b, d)
            BY <3>1 DEF FlowInv
        <3> DEFINE n == Len(samples)
        <3>3. /\ h \in Nat /\ c \in Nat /\ b \in Nat /\ d \in Nat
              /\ h <= c /\ c <= b /\ b <= d /\ d <= n
              /\ heard = Piece(0, h) /\ Chain(Sounds(commands), h, c) /\ Chain(batches, c, b)
              /\ held = Piece(b, d) /\ pending = Piece(d, n)
            BY <3>2 DEF FlowAt
        <3>4. n \in Nat /\ n' = n
            BY <1>1, LenProperties DEF TypeInv
        <3> HIDE DEF n
        <3>5. b = d
            <4>1. Len(Piece(b, d)) = d - b /\ Len(<<>>) = 0
                BY <3>3, PieceIs, EmptySeq
            <4> QED
                BY <4>1, <3>1, <3>3
        <3>6. Chain(batches', c, n)
            <4>1. CASE pending = <<>>
                <5>1. Len(Piece(d, n)) = n - d /\ Len(<<>>) = 0
                    BY <3>3, <3>4, PieceIs, EmptySeq
                <5>2. d = n
                    BY <5>1, <3>3, <3>4, <4>1
                <5> QED
                    BY <4>1, <2>1, <3>3, <3>5, <5>2
            <4>2. CASE pending # <<>>
                <5>1. batches \in Seq(Seq(Nat))
                    BY DEF TypeInv
                <5>2. Chain(Append(batches, Piece(d, n)), c, n)
                    BY <5>1, <3>3, <3>4, <3>5, ChainAppend
                <5> QED
                    BY <4>2, <5>2, <2>1, <3>3
            <4> QED
                BY <4>1, <4>2
        <3>7. Piece(n, n) = <<>> /\ c <= n /\ n <= n
            BY <3>3, <3>4, NoSound
        <3>8. heard' = heard /\ commands' = commands /\ held' = <<>> /\ samples' = samples
            BY <1>1, <1>5, <3>1
        <3>9. FlowAt(h, c, n, n)'
            BY <3>3, <3>4, <3>6, <3>7, <3>8, <2>1 DEF FlowAt, n
        <3> QED
            BY <3>9
    <2>7. AnswerInv'
        BY <1>1, <1>2, <1>3, <1>5 DEF AnswerInv, Good, TranscriptIsWhole
    <2> QED
        BY <2>3, <2>4, <2>5, <2>6, <2>7
<1> QED
    BY <1>1, <1>4, <1>5

\* TranscribeRestored keeps RecognitionInv.
LEMMA TranscribeKeeps ==
    ASSUME RecognitionInv, TranscribeRestored
    PROVE  RecognitionInv'
<1> USE DEF RecognitionInv
<1> DEFINE B == Least(BatchUnits, Len(pending))
           batch == SubSeq(pending, 1, B)
<1>1. /\ phase = "active" /\ source = "restored"
      /\ UNCHANGED <<inputVars, samples, held, captureError, overtaken, batches,
                     connection, early, reply>>
      /\ \/ /\ pending = <<>> /\ phase' = "finishing"
            /\ UNCHANGED <<pending, streamError, commands, heard, given>>
         \/ /\ pending # <<>> /\ Takes(batch) /\ PushAudio(batch)
            /\ pending' = SubSeq(pending, Len(batch) + 1, Len(pending))
            /\ UNCHANGED <<phase, given>>
         \/ /\ phase' = "cancelled" /\ SendCancel /\ given' = Failed
            /\ UNCHANGED <<pending, streamError, heard>>
    BY DEF TranscribeRestored
<1>2. ~overtaken /\ ~given.ok /\ (reply.ok => early \/ streamError)
      /\ \A k \in 1..Len(commands) : commands[k].is = "final" => early \/ streamError
    BY <1>1, NotAnswered DEF Recording, TypeInv, StageInv
<1>3. reply.ok => connection = "closed"
    BY DEF AnswerInv
<1>10. batches = <<>> /\ held = <<>> /\ ~captureError
    BY <1>1 DEF StageInv
<1>4. CASE /\ pending = <<>> /\ phase' = "finishing"
           /\ UNCHANGED <<pending, streamError, commands, heard, given>>
    <2>1. TypeInv'
        BY <1>1, <1>4 DEF TypeInv, Phase, inputVars
    <2>2. StageInv'
        BY <1>1, <1>4, <1>10 DEF StageInv, inputVars
    <2>3. CommandInv'
        BY <1>1, <1>4 DEF CommandInv, inputVars
    <2>4. FlowInv'
        <3>1. ~Lost' => ~Lost
            BY <1>1, <1>4 DEF Lost
        <3> QED
            BY <1>1, <1>4, <3>1, FlowKept
    <2>5. AnswerInv'
        BY <1>1, <1>2, <1>3, <1>4 DEF AnswerInv, Good, TranscriptIsWhole
    <2> QED
        BY <2>1, <2>2, <2>3, <2>4, <2>5
<1>5. CASE /\ pending # <<>> /\ Takes(batch) /\ PushAudio(batch)
           /\ pending' = SubSeq(pending, Len(batch) + 1, Len(pending))
           /\ UNCHANGED <<phase, given>>
    <2>1. BatchUnits \in Nat /\ BatchUnits # 0 /\ pending \in Seq(Nat) /\ Len(pending) \in Nat
        BY Sizes, LenProperties DEF TypeInv
    <2>2. B \in Nat /\ B <= Len(pending)
        BY <2>1 DEF Least
    <2>3. batch \in Seq(Nat) /\ Len(batch) = B
        <3>1. 0 \in Nat /\ 0 <= B /\ 0 + 1 = 1 /\ B - 0 = B
            BY <2>2
        <3>2. SubSeq(pending, 0 + 1, B) \in Seq(Nat) /\ Len(SubSeq(pending, 0 + 1, B)) = B - 0
            BY <2>1, <2>2, <3>1, SliceIs
        <3> QED
            BY <3>1, <3>2
    <2>4. pending' = SubSeq(pending, B + 1, Len(pending)) /\ pending' \in Seq(Nat)
        <3>1. pending' = SubSeq(pending, B + 1, Len(pending))
            BY <1>5, <2>3
        <3>2. Len(pending) <= Len(pending)
            BY <2>1
        <3>3. SubSeq(pending, B + 1, Len(pending)) \in Seq(Nat)
            BY <2>1, <2>2, <3>2, SliceIs
        <3> QED
            BY <3>1, <3>3
    <2>5. PushAudio(batch) /\ streamError' = streamError
        BY <1>5 DEF PushAudio
    <2>6. batch = SubSeq(pending, 1, B)
        OBVIOUS
    <2> HIDE DEF batch, B
    <2>7. /\ CommandInv' /\ commands' \in Seq(Command) /\ heard' \in Seq(Nat)
          /\ \A k \in 1..Len(commands') :
                commands'[k].is = "final" => k \in 1..Len(commands) /\ commands'[k] = commands[k]
        BY <1>1, <1>5, <2>3, <2>5, PushKeeps DEF inputVars
    <2>8. TypeInv'
        BY <1>1, <1>5, <2>4, <2>5, <2>7 DEF TypeInv, inputVars
    <2>9. StageInv'
        BY <1>1, <1>5 DEF StageInv, inputVars
    <2>10. FlowInv'
        <3> SUFFICES ASSUME ~Lost'
                     PROVE  (\E h, c, b, d : FlowAt(h, c, b, d))'
            BY DEF FlowInv
        <3>1. ~Lost /\ ~streamError'
            BY <1>1, <1>5, <2>5 DEF Lost
        <3>2. PICK h, c, b, d : FlowAt(h, c, b, d)
            BY <3>1 DEF FlowInv
        <3> DEFINE n == Len(samples)
        <3>3. /\ h \in Nat /\ c \in Nat /\ b \in Nat /\ d \in Nat
              /\ h <= c /\ c <= b /\ b <= d /\ d <= n
              /\ heard = Piece(0, h) /\ Chain(Sounds(commands), h, c) /\ Chain(batches, c, b)
              /\ held = Piece(b, d) /\ pending = Piece(d, n)
            BY <3>2 DEF FlowAt
        <3>4. n \in Nat /\ n' = n
            BY <1>1, LenProperties DEF TypeInv
        <3> HIDE DEF n
        <3>5. c = b /\ b = d
            <4>1. Len(Piece(b, d)) = d - b /\ Len(<<>>) = 0
                BY <3>3, PieceIs, EmptySeq
            <4>2. batches \in Seq(Seq(Nat))
                BY DEF TypeInv
            <4>3. c = b
                BY <4>2, <3>3, <1>10, ChainOrder
            <4> QED
                BY <4>1, <4>3, <1>10, <3>3
        <3> DEFINE x == d + B
        <3>6. /\ d \in Nat /\ n \in Nat /\ d <= n /\ B \in Nat /\ B <= Len(Piece(d, n))
            BY <2>2, <3>3, <3>4
        <3>7. SubSeq(Piece(d, n), 1, B) = Piece(d, d + B)
            BY <3>6, SplitPiece
        <3>8. SubSeq(Piece(d, n), B + 1, Len(Piece(d, n))) = Piece(d + B, n)
            BY <3>6, RestOfPiece
        <3>9. x \in Nat /\ d <= x /\ x <= n
            BY <3>6, SplitPiece
        <3>10. batch = Piece(c, x) /\ pending' = Piece(x, n)
            BY <3>3, <3>5, <3>7, <3>8, <2>4, <2>6
        <3> HIDE DEF x
        <3>11. PushAudio(Piece(c, x)) /\ c <= x
            BY <3>5, <3>9, <3>10, <2>5
        <3>12. PICK g \in Nat : g <= x /\ heard' = Piece(0, g) /\ Chain(Sounds(commands'), g, x)
            BY <3>1, <3>3, <3>9, <3>11, PushedChain
        <3>13. Chain(<<>>, x, x) /\ Piece(x, x) = <<>> /\ x <= x
            BY <3>9, ChainEmpty, NoSound
        <3>14. batches' = <<>> /\ held' = <<>> /\ samples' = samples
            BY <1>1, <1>10
        <3>16. Chain(batches', x, x) /\ held' = Piece(x, x) /\ Len(samples') = n
            BY <3>13, <3>14 DEF n
        <3>17. pending' = Piece(x, Len(samples')) /\ x <= Len(samples')
            BY <3>9, <3>10, <3>16
        <3>18. PICK y \in Nat : y = x
            BY <3>9
        <3>15. FlowAt(g, y, y, y)'
            BY <3>9, <3>12, <3>13, <3>16, <3>17, <3>18 DEF FlowAt
        <3> QED
            BY <3>15
    <2>11. AnswerInv'
        <3>1. \A k \in 1..Len(commands') : commands'[k].is = "final" => early' \/ streamError'
            BY <1>1, <1>2, <2>5, <2>7
        <3>2. reply'.ok => early' \/ streamError'
            BY <1>1, <1>2, <2>5
        <3> QED
            BY <1>1, <1>2, <1>3, <1>5, <3>1, <3>2 DEF AnswerInv, Good, TranscriptIsWhole
    <2> QED
        BY <2>7, <2>8, <2>9, <2>10, <2>11
<1>6. CASE /\ phase' = "cancelled" /\ SendCancel /\ given' = Failed
           /\ UNCHANGED <<pending, streamError, heard>>
    <2>1. /\ commands' \in Seq(Command) /\ CommandInv'
          /\ \A k \in 1..Len(commands') :
                commands'[k].is = "final" => k \in 1..Len(commands) /\ commands'[k] = commands[k]
        BY <1>1, <1>6, CancelSent DEF inputVars
    <2>2. TypeInv'
        BY <1>1, <1>6, <2>1 DEF TypeInv, Phase, inputVars
    <2>3. StageInv'
        BY <1>1, <1>6 DEF StageInv, inputVars
    <2>4. FlowInv'
        BY <1>6 DEF FlowInv, Lost
    <2>5. ~given'.ok
        BY <1>6 DEF Failed, Nothing
    <2>6. AnswerInv'
        BY <1>1, <1>2, <1>3, <1>6, <2>1, <2>5 DEF AnswerInv, Good, TranscriptIsWhole
    <2> QED
        BY <2>1, <2>2, <2>3, <2>4, <2>6
<1> HIDE DEF batch, B
<1> QED
    BY <1>1, <1>4, <1>5, <1>6

\* Nothing is said of a recording that is at its end.
LEMMA NothingOnItsWay ==
    ASSUME StageInv, phase \in {"finishing", "waiting", "answered"}, ~overtaken, ~streamError
    PROVE  ~Lost /\ batches = <<>> /\ held = <<>> /\ pending = <<>>
BY DEF StageInv, Lost

\* DecodeRecording keeps RecognitionInv.
LEMMA DecodeKeeps ==
    ASSUME RecognitionInv, DecodeRecording
    PROVE  RecognitionInv'
<1> USE DEF RecognitionInv
<1>1. /\ phase = "finishing" /\ engine \in Local /\ phase' = "answered"
      /\ given' = IF streamError THEN Failed ELSE Final(Transcribed(heard))
      /\ UNCHANGED <<inputVars, captureVars, streamError, engineVars>>
    BY DEF DecodeRecording, Answered
<1>2. /\ ~given.ok
      /\ reply.ok => overtaken \/ early \/ streamError
      /\ \A k \in 1..Len(commands) :
            commands[k].is = "final" => overtaken \/ early \/ streamError
    BY <1>1, NotAnswered DEF Recording, TypeInv
<1>3. commands = <<>> /\ connection = "none" /\ 1..Len(<<>>) = {}
    BY <1>1, EmptySeq DEF CommandInv, Local, Remote
<1>4. TypeInv'
    BY <1>1 DEF TypeInv, Phase, inputVars, captureVars, engineVars
<1>5. StageInv'
    BY <1>1 DEF StageInv, inputVars, captureVars, engineVars
<1>6. CommandInv'
    BY <1>1 DEF CommandInv, inputVars, engineVars
<1>7. FlowInv'
    <2>1. ~Lost' => ~Lost
        BY <1>1 DEF Lost, captureVars
    <2> QED
        BY <1>1, <2>1, FlowKept DEF captureVars, engineVars
<1>8. AnswerInv'
    <2>1. samples \in Seq(Nat) /\ samples = Piece(0, Len(samples)) /\ Len(samples) \in Nat
        BY LenProperties DEF TypeInv
    <2>2. Words(samples)' = Words(samples)
        BY <1>1, WordsKept DEF inputVars, captureVars
    <2>3. TranscriptIsWhole'
        <3> SUFFICES ASSUME given'.ok, ~overtaken', ~early', SeamsAreTold(Len(samples))'
                     PROVE  given'.text = Words(samples)
            BY <2>2 DEF TranscriptIsWhole
        <3>1. ~overtaken /\ SeamsAreTold(Len(samples))
            BY <1>1 DEF inputVars, captureVars, SeamsAreTold, EchoedAt
        <3>2. given' = Final(Transcribed(heard)) /\ ~streamError
            BY <1>1 DEF Failed, Nothing
        <3>3. heard = samples
            BY <1>1, <1>3, <3>1, <3>2, NothingOnItsWay, AllHeard
        <3>4. Transcribed(samples) = Words(samples)
            BY <1>1, <2>1, <3>1, TranscribedIsWhole
        <3>5. given' = Final(Words(samples))
            BY <3>2, <3>3, <3>4
        <3> QED
            BY <3>5 DEF Final, Ok, Failed, Nothing
    <2> QED
        BY <1>1, <1>2, <1>3, <2>3 DEF AnswerInv, Good, captureVars, engineVars
<1> QED
    BY <1>4, <1>5, <1>6, <1>7, <1>8

\* OpenAiAnswers keeps RecognitionInv.
LEMMA OpenAiKeeps ==
    ASSUME RecognitionInv, OpenAiAnswers
    PROVE  RecognitionInv'
<1> USE DEF RecognitionInv
<1>1. /\ phase = "finishing" /\ engine = "openAi" /\ phase' = "answered"
      /\ \/ given' = Failed
         \/ ~streamError /\ given' = Final(Words(heard))
      /\ UNCHANGED <<inputVars, captureVars, streamError, engineVars>>
    BY DEF OpenAiAnswers, Answered
<1>2. /\ ~given.ok
      /\ reply.ok => overtaken \/ early \/ streamError
      /\ \A k \in 1..Len(commands) :
            commands[k].is = "final" => overtaken \/ early \/ streamError
    BY <1>1, NotAnswered DEF Recording, TypeInv
<1>3. commands = <<>> /\ connection = "none" /\ 1..Len(<<>>) = {}
    BY <1>1, EmptySeq DEF CommandInv, Remote
<1>4. TypeInv'
    BY <1>1 DEF TypeInv, Phase, inputVars, captureVars, engineVars
<1>5. StageInv'
    BY <1>1 DEF StageInv, inputVars, captureVars, engineVars
<1>6. CommandInv'
    BY <1>1 DEF CommandInv, inputVars, engineVars
<1>7. FlowInv'
    <2>1. ~Lost' => ~Lost
        BY <1>1 DEF Lost, captureVars
    <2> QED
        BY <1>1, <2>1, FlowKept DEF captureVars, engineVars
<1>8. AnswerInv'
    <2>2. Words(samples)' = Words(samples)
        BY <1>1, WordsKept DEF inputVars, captureVars
    <2>3. TranscriptIsWhole'
        <3> SUFFICES ASSUME given'.ok, ~overtaken'
                     PROVE  given'.text = Words(samples)
            BY <2>2 DEF TranscriptIsWhole
        <3>1. ~overtaken
            BY <1>1 DEF captureVars
        <3>2. given' = Final(Words(heard)) /\ ~streamError
            BY <1>1 DEF Failed, Nothing
        <3>3. heard = samples
            BY <1>1, <1>3, <3>1, <3>2, NothingOnItsWay, AllHeard
        <3> QED
            BY <3>2, <3>3 DEF Final, Ok, Failed, Nothing
    <2> QED
        BY <1>1, <1>2, <1>3, <2>3 DEF AnswerInv, Good, captureVars, engineVars
<1> QED
    BY <1>4, <1>5, <1>6, <1>7, <1>8

\* SendFinish keeps RecognitionInv.
LEMMA SendFinishKeeps ==
    ASSUME RecognitionInv, SendFinish
    PROVE  RecognitionInv'
<1> USE DEF RecognitionInv
<1> DEFINE a == [is |-> "finish", text |-> <<>>]
<1>1. /\ phase = "finishing" /\ engine \in Remote /\ phase' = "waiting"
      /\ UNCHANGED commands \/ commands' = Append(commands, a)
      /\ UNCHANGED <<inputVars, captureVars, streamError, connection, heard, early, reply, given>>
    BY DEF SendFinish
<1>2. a \in Command /\ a.is = "finish" /\ a.text = <<>>
    BY EmptySeq DEF Command, Kind
<1> HIDE DEF a
<1>3. /\ ~given.ok
      /\ reply.ok => overtaken \/ early \/ streamError
      /\ \A k \in 1..Len(commands) :
            commands[k].is = "final" => overtaken \/ early \/ streamError
    BY <1>1, NotAnswered DEF Recording, TypeInv
<1>4. /\ commands \in Seq(Command) /\ connection # "finishing"
      /\ \A k \in 1..Len(commands) : commands[k].is # "finish"
    BY <1>1 DEF TypeInv, CommandInv
<1>5. /\ commands' \in Seq(Command) /\ CommandInv'
      /\ \A k \in 1..Len(commands') :
            commands'[k].is = "final" => k \in 1..Len(commands) /\ commands'[k] = commands[k]
      /\ \A h, c : Chain(Sounds(commands), h, c) => Chain(Sounds(commands'), h, c)
    <2>1. CASE UNCHANGED commands
        <3>1. CommandInv'
            BY <1>1, <1>4, <2>1 DEF CommandInv, inputVars
        <3> QED
            BY <1>4, <2>1, <3>1
    <2>2. CASE commands' = Append(commands, a)
        <3>1. /\ commands' \in Seq(Command) /\ Len(commands') \in Nat
              /\ \A k \in 1..Len(commands') :
                    \/ k \in 1..Len(commands) /\ k # Len(commands') /\ commands'[k] = commands[k]
                    \/ k = Len(commands') /\ commands'[k] = a
            BY <1>2, <1>4, <2>2, Sent
        <3>2. engine = "volcengine" =>
                  \A k \in 1..Len(commands') : commands'[k].is \notin {"final", "error"}
            BY <1>2, <3>1 DEF CommandInv
        <3>3. \A k \in 1..Len(commands') : commands'[k].is = "finish" => k = Len(commands')
            BY <1>4, <3>1
        <3>4. ASSUME NEW i \in 1..Len(commands'), NEW k \in 1..Len(commands'), i < k,
                     commands'[i].is = "finish"
              PROVE  FALSE
            BY <3>1, <3>3, <3>4
        <3>5. CommandInv'
            BY <1>1, <1>4, <3>2, <3>4 DEF CommandInv, inputVars
        <3>6. \A h, c : Chain(Sounds(commands), h, c) => Chain(Sounds(commands'), h, c)
            <4> SUFFICES ASSUME NEW h, NEW c, Chain(Sounds(commands), h, c)
                         PROVE  Chain(Sounds(commands'), h, c)
                OBVIOUS
            <4> QED
                BY <1>2, <1>4, <2>2, OtherSent
        <3>7. \A k \in 1..Len(commands') :
                  commands'[k].is = "final" => k \in 1..Len(commands) /\ commands'[k] = commands[k]
            BY <1>2, <3>1
        <3> QED
            BY <3>1, <3>5, <3>6, <3>7
    <2> QED
        BY <1>1, <2>1, <2>2
<1>6. TypeInv'
    BY <1>1, <1>5 DEF TypeInv, Phase, inputVars, captureVars
<1>7. StageInv'
    BY <1>1 DEF StageInv, inputVars, captureVars
<1>8. FlowInv'
    <2> SUFFICES ASSUME ~Lost'
                 PROVE  (\E h, c, b, d : FlowAt(h, c, b, d))'
        BY DEF FlowInv
    <2>1. ~Lost
        BY <1>1 DEF Lost, captureVars
    <2>2. PICK h, c, b, d : FlowAt(h, c, b, d)
        BY <2>1 DEF FlowInv
    <2>3. Chain(Sounds(commands), h, c)
        BY <2>2 DEF FlowAt
    <2>4. Chain(Sounds(commands'), h, c)
        BY <1>5, <2>3
    <2>5. FlowAt(h, c, b, d)'
        BY <1>1, <2>2, <2>4 DEF FlowAt, captureVars
    <2> QED
        BY <2>5
<1>9. AnswerInv'
    <2>1. reply.ok => connection = "closed"
        BY DEF AnswerInv
    <2> QED
        BY <1>1, <1>3, <1>5, <2>1 DEF AnswerInv, Good, TranscriptIsWhole, captureVars
<1> QED
    BY <1>5, <1>6, <1>7, <1>8, <1>9

\* ReceiveAnswer keeps RecognitionInv.
LEMMA ReceiveKeeps ==
    ASSUME RecognitionInv, ReceiveAnswer
    PROVE  RecognitionInv'
<1> USE DEF RecognitionInv
<1>1. /\ phase = "waiting" /\ phase' = "answered"
      /\ given' = Failed \/ (~streamError /\ given' = reply)
      /\ UNCHANGED <<inputVars, captureVars, streamError, engineVars>>
    BY DEF ReceiveAnswer, Answered
<1>2. TypeInv'
    BY <1>1 DEF TypeInv, Phase, inputVars, captureVars, engineVars
<1>3. StageInv'
    BY <1>1 DEF StageInv, inputVars, captureVars, engineVars
<1>4. CommandInv'
    BY <1>1 DEF CommandInv, inputVars, engineVars
<1>5. FlowInv'
    <2>1. ~Lost' => ~Lost
        BY <1>1 DEF Lost, captureVars
    <2> QED
        BY <1>1, <2>1, FlowKept DEF captureVars, engineVars
<1>6. AnswerInv'
    <2>1. Words(samples)' = Words(samples)
        BY <1>1, WordsKept DEF inputVars, captureVars
    <2>2. given'.ok => given' = reply /\ reply.ok /\ ~streamError
        BY <1>1 DEF Failed, Nothing
    <2>3. reply.ok => connection = "closed" /\ Good(reply.text)
        BY DEF AnswerInv
    <2>4. TranscriptIsWhole'
        BY <1>1, <2>1, <2>2, <2>3 DEF Good, TranscriptIsWhole, captureVars, engineVars
    <2>5. Good(reply.text) => Good(reply.text)'
        BY <1>1, <2>1 DEF Good, captureVars, engineVars
    <2>6. \A k \in 1..Len(commands) : Good(commands[k].text) => Good(commands[k].text)'
        BY <1>1, <2>1 DEF Good, captureVars, engineVars
    <2> QED
        BY <1>1, <2>2, <2>3, <2>4, <2>5, <2>6 DEF AnswerInv, engineVars
<1> QED
    BY <1>2, <1>3, <1>4, <1>5, <1>6

\* Authorized keeps RecognitionInv.
LEMMA AuthorizedKeeps ==
    ASSUME RecognitionInv, Authorized
    PROVE  RecognitionInv'
<1> USE DEF RecognitionInv
<1>1. /\ connection = "authorizing"
      /\ \/ connection' = "open" /\ phase' = "active"
         \/ connection' = "closed" /\ phase' = "failed"
      /\ UNCHANGED <<inputVars, captureVars, streamError, commands, heard, early, reply, given>>
    BY DEF Authorized
<1>2. phase = "starting"
    BY <1>1 DEF StageInv
<1>3. TypeInv'
    BY <1>1 DEF TypeInv, Phase, inputVars, captureVars
<1>4. StageInv'
    BY <1>1, <1>2 DEF StageInv, inputVars, captureVars
<1>5. CommandInv'
    BY <1>1, <1>2 DEF CommandInv, inputVars
<1>6. FlowInv'
    <2>1. ~Lost' => ~Lost
        BY <1>1, <1>2 DEF Lost, captureVars
    <2> QED
        BY <1>1, <2>1, FlowKept DEF captureVars
<1>7. AnswerInv'
    <2>1. /\ ~given.ok
          /\ reply.ok => overtaken \/ early \/ streamError
          /\ \A k \in 1..Len(commands) :
                commands[k].is = "final" => overtaken \/ early \/ streamError
        BY <1>2, NotAnswered DEF Recording, TypeInv
    <2>2. ~reply.ok
        BY <1>1 DEF AnswerInv
    <2> QED
        BY <1>1, <2>1, <2>2 DEF AnswerInv, Good, TranscriptIsWhole, captureVars
<1> QED
    BY <1>3, <1>4, <1>5, <1>6, <1>7

\* The worker's connection changes, and there is no answer or an error.
LEMMA ConnectionKeeps ==
    ASSUME RecognitionInv, connection \in {"connecting", "open", "stalled", "finishing"},
           connection' \in {"open", "closed"}, connection # "finishing" \/ connection' = "closed",
           UNCHANGED reply \/ ~reply'.ok,
           UNCHANGED <<inputVars, phase, captureVars, streamError, commands, heard, early, given>>
    PROVE  RecognitionInv'
<1> USE DEF RecognitionInv
<1>1. TypeInv'
    BY DEF TypeInv, inputVars, captureVars
<1>2. StageInv'
    BY DEF StageInv, inputVars, captureVars
<1>3. CommandInv'
    BY DEF CommandInv, inputVars
<1>4. FlowInv'
    <2>1. ~Lost' => ~Lost
        BY DEF Lost, captureVars
    <2> QED
        BY <2>1, FlowKept DEF captureVars
<1>5. AnswerInv'
    <2>1. Words(samples)' = Words(samples)
        BY WordsKept DEF inputVars, captureVars
    <2>2. ~given.ok /\ ~reply.ok
        BY DEF AnswerInv
    <2>3. \A k \in 1..Len(commands) : Good(commands[k].text) => Good(commands[k].text)'
        BY <2>1 DEF Good, captureVars
    <2> QED
        BY <2>2, <2>3 DEF AnswerInv, TranscriptIsWhole
<1> QED
    BY <1>1, <1>2, <1>3, <1>4, <1>5

\* The steps of a worker whose connection opens or breaks keep RecognitionInv.
LEMMA ConnectingKeeps ==
    ASSUME RecognitionInv,
           \/ Connected \/ ConnectionRefused \/ Resumes
           \/ WorkerIsAlone \/ VolcengineFails \/ FinalTimesOut
    PROVE  RecognitionInv'
<1>1. ~Failed.ok
    BY DEF Failed, Nothing
<1>2. CASE Connected
    BY <1>2, ConnectionKeeps DEF Connected
<1>3. CASE ConnectionRefused
    BY <1>1, <1>3, ConnectionKeeps DEF ConnectionRefused
<1>4. CASE WorkerIsAlone
    BY <1>1, <1>4, ConnectionKeeps DEF WorkerIsAlone, Closes
<1>5. CASE VolcengineFails
    BY <1>1, <1>5, ConnectionKeeps DEF VolcengineFails, Closes
<1>6. CASE FinalTimesOut
    BY <1>1, <1>6, ConnectionKeeps DEF FinalTimesOut, Closes
<1>7. CASE Resumes
    BY <1>7, ConnectionKeeps DEF Resumes
<1> QED
    BY <1>2, <1>3, <1>4, <1>5, <1>6, <1>7

\* VolcengineFinal keeps RecognitionInv.
LEMMA FinalKeeps ==
    ASSUME RecognitionInv, VolcengineFinal
    PROVE  RecognitionInv'
<1> USE DEF RecognitionInv
<1>1. /\ connection = "finishing" /\ connection' = "closed" /\ reply' = Ok(Words(heard))
      /\ UNCHANGED <<inputVars, phase, captureVars, streamError, commands, heard, early, given>>
    BY DEF VolcengineFinal, Closes
<1>2. TypeInv'
    BY <1>1 DEF TypeInv, inputVars, captureVars
<1>3. StageInv'
    BY <1>1 DEF StageInv, inputVars, captureVars
<1>4. CommandInv'
    BY <1>1 DEF CommandInv, inputVars
<1>5. FlowInv'
    <2>1. ~Lost' => ~Lost
        BY <1>1 DEF Lost, captureVars
    <2> QED
        BY <1>1, <2>1, FlowKept DEF captureVars
<1>6. AnswerInv'
    <2>1. Words(samples)' = Words(samples)
        BY <1>1, WordsKept DEF inputVars, captureVars
    <2>2. ~given.ok
        BY <1>1 DEF AnswerInv
    <2>3. \A k \in 1..Len(commands) : Good(commands[k].text) => Good(commands[k].text)'
        BY <1>1, <2>1 DEF Good, captureVars
    <2>4. Good(Words(heard))'
        <3> SUFFICES ASSUME ~overtaken', ~streamError'
                     PROVE  phase' \in {"waiting", "answered"} /\ Words(heard)' = Words(samples)'
            BY DEF Good
        <3>1. phase \in {"waiting", "answered"} /\ \A k \in 1..Len(commands) : commands[k].is # "audio"
            BY <1>1 DEF CommandInv
        <3>2. heard = samples
            BY <1>1, <3>1, NothingOnItsWay, AllHeard DEF captureVars
        <3> QED
            BY <1>1, <3>1, <3>2 DEF captureVars
    <2>5. reply' = Ok(Words(heard)')
        <3>1. Words(heard)' = Words(heard)
            BY <1>1 DEF Words, inputVars
        <3> QED
            BY <1>1, <3>1
    <2>6. reply'.text = Words(heard)'
        BY <2>5 DEF Ok
    <2>7. Good(reply.text)'
        BY <2>4, <2>6 DEF Good
    <2> QED
        BY <1>1, <2>2, <2>3, <2>7 DEF AnswerInv, TranscriptIsWhole
<1> QED
    BY <1>2, <1>3, <1>4, <1>5, <1>6

\* The worker takes a command.
LEMMA CommandTaken ==
    ASSUME RecognitionInv, connection \in {"open", "finishing"},
           commands # <<>>, commands' = Tail(commands),
           \/ /\ Head(commands).is = "audio" /\ heard' = heard \o Head(commands).text
              /\ connection' \in {connection, "stalled"} /\ UNCHANGED reply
           \/ /\ Head(commands).is = "finish" /\ connection' = "finishing"
              /\ UNCHANGED <<heard, reply>>
           \/ /\ Head(commands).is # "audio" /\ connection' = "closed" /\ UNCHANGED heard
              /\ \/ ~reply'.ok
                 \/ Head(commands).is = "final" /\ reply' = Ok(Head(commands).text),
           UNCHANGED <<inputVars, phase, captureVars, streamError, early, given>>
    PROVE  RecognitionInv'
<1> USE DEF RecognitionInv
<1>1. commands \in Seq(Command) /\ heard \in Seq(Nat) /\ samples \in Seq(Nat)
    BY DEF TypeInv
<1>2. /\ commands' \in Seq(Command) /\ Head(commands) \in Command
      /\ 1 \in 1..Len(commands) /\ Head(commands) = commands[1]
      /\ \A k \in 1..Len(commands') : /\ k + 1 \in 1..Len(commands) /\ k \in Nat /\ 1 < k + 1
                                      /\ commands'[k] = commands[k + 1]
    BY <1>1, Taken
<1>3. /\ engine \in Remote
      /\ \A k \in 1..Len(commands') : commands'[k].is # "final" \/ Good(commands'[k].text)
      /\ ~reply.ok /\ ~given.ok
    <2>1. engine \in Remote
        BY DEF CommandInv
    <2>2. \A k \in 1..Len(commands') : commands'[k].is # "final" \/ Good(commands'[k].text)
        BY <1>2 DEF AnswerInv
    <2>3. ~reply.ok /\ ~given.ok
        BY DEF AnswerInv
    <2> QED
        BY <2>1, <2>2, <2>3
<1>4. heard' \in Seq(Nat) /\ connection' \in {"open", "stalled", "finishing", "closed"}
    <2>1. Head(commands).text \in Seq(Nat)
        BY <1>2 DEF Command
    <2>2. heard \o Head(commands).text \in Seq(Nat)
        BY <1>1, <2>1, ConcatProperties
    <2> QED
        BY <1>1, <2>2
<1>5. reply'.ok => /\ Head(commands).is = "final" /\ reply' = Ok(Head(commands).text)
                   /\ connection' = "closed"
    BY <1>3
<1>6. TypeInv'
    BY <1>2, <1>4 DEF TypeInv, inputVars, captureVars
<1>7. StageInv'
    BY <1>4 DEF StageInv, inputVars, captureVars
<1>8. CommandInv'
    <2>1. engine = "volcengine" =>
              \A k \in 1..Len(commands') : commands'[k].is \notin {"final", "error"}
        BY <1>2 DEF CommandInv
    <2>2. \A k \in 1..Len(commands') :
              commands'[k].is = "finish" => phase \in {"waiting", "answered"}
        BY <1>2 DEF CommandInv
    <2>3. ASSUME NEW i \in 1..Len(commands'), NEW k \in 1..Len(commands'), i < k,
                 commands'[i].is = "finish"
          PROVE  commands'[k].is # "audio"
        <3>1. i + 1 \in 1..Len(commands) /\ k + 1 \in 1..Len(commands) /\ i + 1 < k + 1
            BY <1>2, <2>3
        <3>2. commands[i + 1].is = "finish"
            BY <1>2, <2>3
        <3>3. commands[k + 1].is # "audio"
            BY <3>1, <3>2 DEF CommandInv
        <3> QED
            BY <1>2, <3>3
    <2>4. ASSUME connection' = "finishing"
          PROVE  /\ phase \in {"waiting", "answered"}
                 /\ \A k \in 1..Len(commands') : commands'[k].is # "audio"
        <3>1. CASE connection = "finishing"
            BY <1>2, <3>1 DEF CommandInv
        <3>2. CASE Head(commands).is = "finish"
            <4>1. commands[1].is = "finish" /\ 1 \in 1..Len(commands)
                BY <1>2, <3>2
            <4>2. phase \in {"waiting", "answered"}
                BY <4>1 DEF CommandInv
            <4>3. \A k \in 1..Len(commands') : commands[k + 1].is # "audio"
                BY <4>1, <1>2 DEF CommandInv
            <4> QED
                BY <4>2, <4>3, <1>2
        <3> QED
            BY <2>4, <3>1, <3>2
    <2>5. engine' = engine /\ phase' = phase
        BY DEF inputVars
    <2> QED
        BY <1>3, <2>1, <2>2, <2>3, <2>4, <2>5 DEF CommandInv
<1>9. FlowInv'
    <2> SUFFICES ASSUME ~Lost'
                 PROVE  (\E h, c, b, d : FlowAt(h, c, b, d))'
        BY DEF FlowInv
    <2>1. ~Lost
        BY DEF Lost, captureVars
    <2>2. PICK h, c, b, d : FlowAt(h, c, b, d)
        BY <2>1 DEF FlowInv
    <2>3. h \in Nat /\ c \in Nat /\ heard = Piece(0, h) /\ Chain(Sounds(commands), h, c)
        BY <2>2 DEF FlowAt
    <2>4. CASE Head(commands).is = "audio"
        <3>1. heard' = heard \o Head(commands).text
            BY <2>4
        <3>2. PICK x \in Nat : /\ h <= x /\ x <= c /\ Head(commands).text = Piece(h, x)
                               /\ Chain(Sounds(Tail(commands)), x, c)
            BY <1>1, <2>3, <2>4, AudioTaken
        <3>3. 0 \in Nat /\ 0 <= h
            BY <2>3
        <3>4. Piece(0, h) \o Piece(h, x) = Piece(0, x)
            BY <2>3, <3>2, <3>3, PiecesJoin
        <3>5. heard' = Piece(0, x) /\ Chain(Sounds(commands'), x, c)
            BY <2>3, <3>1, <3>2, <3>4
        <3>6. FlowAt(x, c, b, d)'
            BY <2>2, <3>2, <3>5 DEF FlowAt, captureVars
        <3> QED
            BY <3>6
    <2>5. CASE Head(commands).is # "audio"
        <3>1. heard' = heard
            BY <2>5
        <3>2. Chain(Sounds(commands'), h, c)
            BY <1>1, <2>3, <2>5, OtherTaken
        <3>3. FlowAt(h, c, b, d)'
            BY <2>2, <3>1, <3>2 DEF FlowAt, captureVars
        <3> QED
            BY <3>3
    <2> QED
        BY <2>4, <2>5
<1>10. AnswerInv'
    <2>1. Words(samples)' = Words(samples)
        BY WordsKept DEF inputVars, captureVars
    <2>2. \A t : Good(t) => Good(t)'
        BY <2>1 DEF Good, captureVars
    <2>3. \A k \in 1..Len(commands') : commands'[k].is = "final" => Good(commands[k].text)'
        BY <1>3, <2>1 DEF Good, captureVars
    <2>4. reply'.ok => connection' = "closed" /\ Good(reply.text)'
        <3>1. Head(commands).is = "final" => Good(Head(commands).text)
            BY <1>2 DEF AnswerInv
        <3>2. reply'.ok => reply'.text = Head(commands).text
            BY <1>5 DEF Ok
        <3> QED
            BY <1>5, <2>1, <3>1, <3>2 DEF Good, captureVars
    <2>5. ~given'.ok
        BY <1>3
    <2> QED
        BY <2>3, <2>4, <2>5 DEF AnswerInv, TranscriptIsWhole
<1> QED
    BY <1>6, <1>7, <1>8, <1>9, <1>10

\* VolcengineWorks and AppleWorks keep RecognitionInv.
LEMMA WorksKeeps ==
    ASSUME RecognitionInv, VolcengineWorks \/ AppleWorks
    PROVE  RecognitionInv'
<1>1. ~Failed.ok /\ ~Nothing.ok
    BY DEF Failed, Nothing
<1>2. commands # <<>>
    BY DEF VolcengineWorks, AppleWorks
<1>3. Head(commands).is \in Kind /\ Head(commands) = commands[1] /\ 1 \in 1..Len(commands)
    <2>1. commands \in Seq(Command)
        BY DEF RecognitionInv, TypeInv
    <2> QED
        BY <1>2, <2>1, Taken DEF Command
<1>4. Final(Head(commands).text).ok => Final(Head(commands).text) = Ok(Head(commands).text)
    BY <1>1 DEF Final
<1>5. CASE VolcengineWorks
    <2>1. Head(commands).is \in {"audio", "finish", "cancel"}
        BY <1>3, <1>5 DEF VolcengineWorks, RecognitionInv, CommandInv, Kind
    <2>2. /\ connection = "open" /\ commands' = Tail(commands)
          /\ UNCHANGED <<inputVars, phase, captureVars, streamError, early, given>>
          /\ \/ /\ Head(commands).is = "audio" /\ heard' = heard \o Head(commands).text
                /\ connection' \in {connection, "stalled"} /\ UNCHANGED reply
             \/ /\ Head(commands).is = "finish" /\ connection' = "finishing"
                /\ UNCHANGED <<heard, reply>>
             \/ /\ Head(commands).is = "cancel" /\ connection' = "closed" /\ UNCHANGED heard
                /\ reply' = Failed
        BY <1>5, <2>1 DEF VolcengineWorks, Closes
    <2> QED
        BY <1>1, <1>2, <2>2, CommandTaken
<1>6. CASE AppleWorks
    <2>2. /\ connection \in {"open", "finishing"} /\ commands' = Tail(commands)
          /\ UNCHANGED <<inputVars, phase, captureVars, streamError, early, given>>
          /\ \/ /\ Head(commands).is = "audio" /\ heard' = heard \o Head(commands).text
                /\ UNCHANGED <<connection, reply>>
             \/ /\ Head(commands).is = "finish" /\ connection' = "finishing"
                /\ UNCHANGED <<heard, reply>>
             \/ /\ Head(commands).is = "cancel" /\ connection' = "closed" /\ UNCHANGED heard
                /\ reply' = Nothing
             \/ /\ Head(commands).is = "final" /\ connection' = "closed" /\ UNCHANGED heard
                /\ reply' = Final(Head(commands).text)
             \/ /\ Head(commands).is = "error" /\ connection' = "closed" /\ UNCHANGED heard
                /\ reply' = Failed
        BY <1>3, <1>6 DEF AppleWorks, Closes, Kind
    <2>3. \/ /\ Head(commands).is = "audio" /\ heard' = heard \o Head(commands).text
             /\ connection' \in {connection, "stalled"} /\ UNCHANGED reply
          \/ /\ Head(commands).is = "finish" /\ connection' = "finishing"
             /\ UNCHANGED <<heard, reply>>
          \/ /\ Head(commands).is # "audio" /\ connection' = "closed" /\ UNCHANGED heard
             /\ \/ ~reply'.ok
                \/ Head(commands).is = "final" /\ reply' = Ok(Head(commands).text)
        BY <1>1, <1>4, <2>2
    <2> QED
        BY <1>2, <2>2, <2>3, CommandTaken
<1> QED
    BY <1>5, <1>6

\* AppleResult keeps RecognitionInv.
LEMMA AppleResultKeeps ==
    ASSUME RecognitionInv, AppleResult
    PROVE  RecognitionInv'
<1> USE DEF RecognitionInv
<1>1. /\ engine = "apple" /\ connection \in {"open", "finishing"}
      /\ \A k \in DOMAIN commands : commands[k].is \notin {"final", "error"}
      /\ UNCHANGED <<inputVars, phase, captureVars, streamError, connection, heard, reply, given>>
    BY DEF AppleResult
<1>2. commands \in Seq(Command) /\ DOMAIN commands = 1..Len(commands) /\ early \in BOOLEAN
      /\ heard \in Seq(Nat) /\ samples = Piece(0, Len(samples)) /\ Len(samples) \in Nat
    BY LenProperties DEF TypeInv
<1>3. Words(heard) \in Seq(Nat)
    BY <1>2, WordsAre
<1>4. PICK a \in Command :
          /\ commands' = Append(commands, a) /\ a.is \in {"final", "error"}
          /\ early' \in BOOLEAN
          /\ a.is = "final" => a.text = Words(heard) /\ early' = (connection = "open")
    <2>1. CASE /\ commands' = Append(commands, [is |-> "final", text |-> Words(heard)])
               /\ early' = (connection = "open")
        <3>1. [is |-> "final", text |-> Words(heard)] \in Command
            BY <1>3 DEF Command, Kind
        <3> QED
            BY <2>1, <3>1
    <2>2. CASE /\ commands' = Append(commands, [is |-> "error", text |-> <<>>])
               /\ UNCHANGED early
        <3>1. [is |-> "error", text |-> <<>>] \in Command
            BY EmptySeq DEF Command, Kind
        <3> QED
            BY <1>2, <2>2, <3>1
    <2> QED
        BY <2>1, <2>2 DEF AppleResult
<1>5. /\ commands' \in Seq(Command) /\ Len(commands') = Len(commands) + 1
      /\ \A k \in 1..Len(commands') :
            \/ k \in 1..Len(commands) /\ commands'[k] = commands[k] /\ commands[k].is # "final"
            \/ k = Len(commands') /\ k \notin 1..Len(commands) /\ commands'[k] = a
    <2>1. /\ commands' \in Seq(Command) /\ Len(commands') = Len(commands) + 1
          /\ \A k \in 1..Len(commands') :
                \/ k \in 1..Len(commands) /\ commands'[k] = commands[k]
                \/ k = Len(commands') /\ k \notin 1..Len(commands) /\ commands'[k] = a
        BY <1>2, <1>4, Sent
    <2> QED
        BY <1>1, <1>2, <2>1
<1>6. TypeInv'
    BY <1>1, <1>4, <1>5 DEF TypeInv, inputVars, captureVars
<1>7. StageInv'
    <2>1. phase # "idle"
        BY <1>1 DEF StageInv
    <2> QED
        BY <1>1, <2>1 DEF StageInv, inputVars, captureVars
<1>8. CommandInv'
    <2>1. engine \in Remote /\ engine # "volcengine" /\ engine' = engine /\ phase' = phase
          /\ connection' = connection
        BY <1>1 DEF Remote, inputVars
    <2>2. \A k \in 1..Len(commands') :
              commands'[k].is = "finish" => phase \in {"waiting", "answered"}
        BY <1>4, <1>5 DEF CommandInv
    <2>3. ASSUME NEW i \in 1..Len(commands'), NEW k \in 1..Len(commands'), i < k,
                 commands'[i].is = "finish"
          PROVE  commands'[k].is # "audio"
        <3>1. CASE k = Len(commands') /\ commands'[k] = a
            BY <1>4, <3>1
        <3>2. CASE k \in 1..Len(commands) /\ commands'[k] = commands[k]
            <4>1. i \in 1..Len(commands) /\ commands'[i] = commands[i]
                BY <1>4, <1>5, <2>3
            <4> QED
                BY <2>3, <3>2, <4>1 DEF CommandInv
        <3> QED
            BY <1>5, <3>1, <3>2
    <2>4. connection = "finishing" =>
              /\ phase \in {"waiting", "answered"}
              /\ \A k \in 1..Len(commands') : commands'[k].is # "audio"
        BY <1>4, <1>5 DEF CommandInv
    <2> QED
        BY <2>1, <2>2, <2>3, <2>4 DEF CommandInv
<1>9. FlowInv'
    <2> SUFFICES ASSUME ~Lost'
                 PROVE  (\E h, c, b, d : FlowAt(h, c, b, d))'
        BY DEF FlowInv
    <2>1. ~Lost
        BY <1>1 DEF Lost, captureVars
    <2>2. PICK h, c, b, d : FlowAt(h, c, b, d)
        BY <2>1 DEF FlowInv
    <2>3. Chain(Sounds(commands), h, c)
        BY <2>2 DEF FlowAt
    <2>4. Chain(Sounds(commands'), h, c)
        BY <1>2, <1>4, <2>3, OtherSent
    <2>5. FlowAt(h, c, b, d)'
        BY <1>1, <2>2, <2>4 DEF FlowAt, captureVars
    <2> QED
        BY <2>5
<1>10. AnswerInv'
    <2>1. Words(samples)' = Words(samples)
        BY <1>1, WordsKept DEF inputVars, captureVars
    <2>2. ~given.ok /\ ~reply.ok
        BY <1>1 DEF AnswerInv
    <2>3. a.is = "final" => Good(a.text)'
        <3> SUFFICES ASSUME a.is = "final", ~overtaken', ~early', ~streamError'
                     PROVE  phase' \in {"waiting", "answered"} /\ a.text = Words(samples)'
            BY DEF Good
        <3>1. connection = "finishing" /\ a.text = Words(heard)
            BY <1>1, <1>4
        <3>2. phase \in {"waiting", "answered"} /\ \A k \in 1..Len(commands) : commands[k].is # "audio"
            BY <3>1 DEF CommandInv
        <3>3. heard = samples
            BY <1>1, <3>2, NothingOnItsWay, AllHeard DEF captureVars
        <3> QED
            BY <1>1, <2>1, <3>1, <3>2, <3>3
    <2>4. \A k \in 1..Len(commands') : commands'[k].is = "final" => commands'[k] = a
        BY <1>5
    <2>5. \A k \in 1..Len(commands') : commands'[k].is = "final" => Good(commands[k].text)'
        <3> SUFFICES ASSUME NEW k \in 1..Len(commands'), commands'[k].is = "final"
                     PROVE  Good(commands[k].text)'
            OBVIOUS
        <3>1. commands'[k] = a
            BY <2>4
        <3>2. commands'[k].text = a.text /\ a.is = "final"
            BY <3>1
        <3> QED
            BY <2>3, <3>2 DEF Good
    <2> QED
        BY <1>1, <2>2, <2>5 DEF AnswerInv, TranscriptIsWhole
<1> QED
    BY <1>6, <1>7, <1>8, <1>9, <1>10

\* A step of somebody else keeps RecognitionInv.
LEMMA StutterKeeps ==
    ASSUME RecognitionInv, UNCHANGED recognitionVars
    PROVE  RecognitionInv'
<1> USE DEF recognitionVars, inputVars, captureVars, engineVars, RecognitionInv
<1>1. TypeInv' /\ StageInv' /\ CommandInv'
    BY DEF TypeInv, StageInv, CommandInv
<1>2. FlowInv'
    <2>1. ~Lost' => ~Lost
        BY DEF Lost
    <2> QED
        BY <2>1, FlowKept
<1>3. AnswerInv'
    <2>1. Words(samples)' = Words(samples)
        BY WordsKept
    <2>2. SeamsAreTold(Len(samples))' <=> SeamsAreTold(Len(samples))
        BY SeamsKept
    <2> QED
        BY <2>1, <2>2 DEF AnswerInv, Good, TranscriptIsWhole
<1> QED
    BY <1>1, <1>2, <1>3

\* Every step keeps RecognitionInv.
LEMMA RecognitionKeeps ==
    ASSUME RecognitionInv, [RecognitionNext]_recognitionVars
    PROVE  RecognitionInv'
BY StartKeeps, CapturesKeeps, OffersKeeps, StreamPushesKeeps, CancelKeeps, TakeKeeps,
   StopKeeps, TranscribeKeeps, DecodeKeeps, OpenAiKeeps, SendFinishKeeps, ReceiveKeeps,
   AuthorizedKeeps, ConnectingKeeps, FinalKeeps, WorksKeeps, AppleResultKeeps, StutterKeeps
   DEF RecognitionNext, Capturing, Calling, Working, Service

(* A transcript that finish returns has every word of the recording, once  *)
(* and in order, for every size of the chunks, queues, segments and        *)
(* overlaps, every way the device cuts the audio, every silence in it and  *)
(* every word said again (but at a seam of Qwen3's windows).               *)
THEOREM TranscriptWhole == RecognitionSpec => []TranscriptIsWhole
<1>1. RecognitionInit => RecognitionInv
    BY RecognitionInvInit
<1>2. RecognitionInv /\ [RecognitionNext]_recognitionVars => RecognitionInv'
    BY RecognitionKeeps
<1>3. RecognitionInv => TranscriptIsWhole
    BY DEF RecognitionInv, AnswerInv
<1> QED
    BY <1>1, <1>2, <1>3, PTL DEF RecognitionSpec
=============================================================================
