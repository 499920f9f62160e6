-------------------------- MODULE LocalData_proofs --------------------------
(***************************************************************************)
(* Proofs about what is kept on the disk, for any value of the constants:  *)
(* the history and its key, the evidence for the dictionary, the schema of *)
(* the database.                                                           *)
(***************************************************************************)
EXTENDS HistoryStorage, DictionaryLearning, SchemaMigrations, LocalDataPages,
        FiniteSetTheorems, SequenceTheorems, WellFoundedInduction, TLAPS

-----------------------------------------------------------------------------
(* The inductive invariant.                                                *)

(* The rows are written with one key, which the validation record names if *)
(* there is one (a reset that stopped short has removed it), and which is  *)
(* in memory while the history is available.                               *)
OneKey(d) == \A r, s \in d.rows : r.key = s.key
Validated(d) == d.validation # NoKey => \A r \in d.rows : r.key = d.validation
Held(d) == d.keyState = "available" =>
    /\ d.key \in Keys /\ d.validation \in {d.key, NoKey}
    /\ \A r \in d.rows : r.key = d.key

KeyInv(d) == OneKey(d) /\ Validated(d) /\ Held(d)

(* Once the backfill is done, and in every state in which a record could be *)
(* inserted, nothing is left to be counted.                                *)
AllCounted(d) == IdsOf(d.rows) \subseteq d.recorded
CountedInv(d) ==
    /\ d.backfilled => AllCounted(d)
    /\ d.keyState \in {"available", "uninitialized"} => AllCounted(d)

(* While a reset is under way there are no rows, and a key can be made.    *)
ResetInv ==
    /\ resetting # "no" => db.rows = {} /\ db.keyState = "unavailable"
    /\ resetting \in {"erased", "deleted"} => db.generated < MaxKeys
    /\ resetting = "saved" => db.generated \in Keys

EverInv == everStored \subseteq db.recorded \cup IdsOf(db.rows) \cup everReset

DbInv == db \in Database /\ KeyInv(db) /\ CountedInv(db)

BoundsInv ==
    /\ retention \in {"days", "forever"}
    /\ resetting \in {"no", "erased", "deleted", "saved"}
    /\ day \in 0..MaxDays
    /\ keyFaults \in 0..MaxKeyFaults /\ opens \in 0..MaxOpens

StoredInv == DbInv /\ BoundsInv /\ ResetInv /\ EverInv

-----------------------------------------------------------------------------
(* Key lookups.                                                            *)

USE HistoryStorageAssumption

(* The row the code looks at is one of the rows.                           *)
LEMMA FirstRowIsRow ==
    ASSUME NEW given \in SUBSET Row, given # {}
    PROVE  FirstRow(given) \in given
<1> DEFINE days == {r.day : r \in given}
<1>1. days \subseteq Nat /\ days # {}
  BY DEF Row
<1>2. PICK least \in days : \A other \in days : ~(<<other, least>> \in OpToRel(<, Nat))
  <2> HIDE DEF days
  <2> QED  BY <1>1, NatLessThanWellFounded, WFMin, Zenon
<1>3. \A other \in days : ~(other < least)
  <2> HIDE DEF days
  <2> QED  BY <1>1, <1>2 DEF OpToRel
<1>4. PICK r \in given : r.day = least
  OBVIOUS
<1>5. \A other \in given : r.day <= other.day
  <2> TAKE other \in given
  <2>1. other.day \in days
    OBVIOUS
  <2>2. r.day \in Nat /\ other.day \in Nat
    BY DEF Row
  <2> QED  BY ONLY <1>3, <1>4, <2>1, <2>2
<1> QED  BY <1>5 DEF FirstRow

(* A lookup changes neither rows nor counts, keeps one key for the rows,   *)
(* and settles the state of the key.                                       *)
Settles(d, e) ==
    /\ e \in Database /\ KeyInv(e)
    /\ e.rows = d.rows /\ e.recorded = d.recorded /\ e.backfilled = d.backfilled
    /\ e.keyState \notin {"closed", "uninitialized"}

LEMMA CreateKeySettles ==
    ASSUME NEW d \in Database, NEW fault, KeyInv(d), d.rows = {},
           d.generated < MaxKeys
    PROVE  Settles(d, CreateKey(d, fault))
<1>1. d.generated + 1 \in Keys /\ d.generated + 1 \in 0..MaxKeys
  BY DEF Database, Keys
<1> QED  BY <1>1 DEF Settles, CreateKey, Database, KeyInv, OneKey, Validated, Held,
                     Available, Without, KeyStates

LEMMA AvailableSettles ==
    ASSUME NEW d \in Database, NEW k \in Keys, \A r \in d.rows : r.key = k
    PROVE  Settles(d, Available(d, k))
BY DEF Settles, Database, KeyInv, OneKey, Validated, Held, Available, KeyStates

LEMMA WithoutSettles ==
    ASSUME NEW d \in Database, KeyInv(d),
           NEW state \in {"locked", "invalid", "unavailable"}
    PROVE  Settles(d, Without(d, state))
BY DEF Settles, Database, KeyInv, OneKey, Validated, Held, Without, KeyStates

LEMMA InitializeKeySettles ==
    ASSUME NEW d \in Database, NEW fault, KeyInv(d), d.generated < MaxKeys
    PROVE  Settles(d, InitializeKey(d, fault))
<1> DEFINE k == d.keychain
<1>1. CASE fault = "load"
  BY <1>1, WithoutSettles DEF InitializeKey
<1>2. CASE fault # "load" /\ k = NoKey
  <2>1. InitializeKey(d, fault) =
          IF d.rows # {} THEN Without(d, "locked") ELSE CreateKey(d, fault)
    BY <1>2 DEF InitializeKey
  <2> QED  BY <2>1, WithoutSettles, CreateKeySettles
<1>3. CASE fault # "load" /\ k # NoKey /\ d.validation = k
  <2>1. InitializeKey(d, fault) = Available(d, k)
    BY <1>3 DEF InitializeKey
  <2>2. k \in Keys /\ \A r \in d.rows : r.key = k
    BY <1>3 DEF Database, KeyInv, Validated
  <2> QED  BY <2>1, <2>2, AvailableSettles
<1>4. CASE fault # "load" /\ k # NoKey /\ d.validation # k
  <2>1. InitializeKey(d, fault) =
          IF d.rows # {} /\ FirstRow(d.rows).key # k THEN Without(d, "locked")
          ELSE IF d.rows # {} /\ d.validation # NoKey THEN Without(d, "invalid")
          ELSE IF fault = "check" THEN Without(d, "unavailable") ELSE Available(d, k)
    BY <1>4 DEF InitializeKey
  <2>2. k \in Keys /\ d.rows \in SUBSET Row
    BY <1>4 DEF Database
  <2>3. ASSUME ~(d.rows # {} /\ FirstRow(d.rows).key # k)
        PROVE  \A r \in d.rows : r.key = k
    <3> TAKE r \in d.rows
    <3>1. FirstRow(d.rows) \in d.rows
      BY <2>2, FirstRowIsRow
    <3> QED  BY <2>3, <3>1 DEF KeyInv, OneKey
  <2> QED  BY <2>1, <2>2, <2>3, AvailableSettles, WithoutSettles
<1> QED  BY <1>1, <1>2, <1>3, <1>4

LEMMA EnsureKeySettles ==
    ASSUME NEW d \in Database, NEW fault, KeyInv(d), d.generated < MaxKeys,
           d.keyState # "closed"
    PROVE  Settles(d, EnsureKey(d, fault))
<1>1. CASE d.keyState = "uninitialized"
  BY <1>1, InitializeKeySettles DEF EnsureKey
<1>2. CASE d.keyState # "uninitialized"
  BY <1>2 DEF EnsureKey, Settles
<1> QED  BY <1>1, <1>2

-----------------------------------------------------------------------------
(* The backfill counts all rows, or leaves the history unavailable.        *)
LEMMA BackfillCounts ==
    ASSUME NEW d \in Database, NEW fault, KeyInv(d), d.generated < MaxKeys,
           d.keyState # "closed", d.backfilled => AllCounted(d)
    PROVE  /\ Backfill(d, fault) \in Database
           /\ KeyInv(Backfill(d, fault)) /\ CountedInv(Backfill(d, fault))
           /\ Backfill(d, fault).rows = d.rows
           /\ d.recorded \subseteq Backfill(d, fault).recorded
           /\ Backfill(d, fault).keyState # "closed"
<1> DEFINE backfill == Backfill(d, fault)
           e == EnsureKey(d, fault)
<1>0. IdsOf(d.rows) \subseteq Dictations
  BY DEF IdsOf, Database, Row
<1>1. CASE d.backfilled \/ d.rows = {}
  <2>1. backfill = [d EXCEPT !.backfilled = TRUE,
                      !.recorded = @ \cup IF d.backfilled THEN {} ELSE IdsOf(d.rows)]
    BY <1>1 DEF Backfill
  <2>2. backfill \in Database /\ KeyInv(backfill)
    BY <2>1, <1>0 DEF Database, KeyInv, OneKey, Validated, Held
  <2>3. backfill.rows = d.rows /\ d.recorded \subseteq backfill.recorded /\ backfill.keyState = d.keyState
    BY <2>1 DEF Database
  <2>4. AllCounted(backfill)
    BY <1>1, <2>1 DEF AllCounted, IdsOf, Database
  <2> QED  BY <2>2, <2>3, <2>4 DEF CountedInv
<1>2. CASE ~(d.backfilled \/ d.rows = {})
  <2> HIDE DEF e
  <2>1. Settles(d, e)
    BY EnsureKeySettles DEF e
  <2>2. CASE Readable(e)
    <3>1. backfill = [e EXCEPT !.backfilled = TRUE, !.recorded = @ \cup IdsOf(d.rows)]
      BY <1>2, <2>2 DEF Backfill, e
    <3>2. backfill \in Database /\ KeyInv(backfill)
      BY <2>1, <3>1, <1>0 DEF Settles, Database, KeyInv, OneKey, Validated, Held
    <3>3. backfill.rows = d.rows /\ d.recorded \cup IdsOf(d.rows) = backfill.recorded
          /\ backfill.keyState = e.keyState
      BY <2>1, <3>1 DEF Settles, Database
    <3>4. AllCounted(backfill)
      <4> HIDE DEF backfill
      <4> QED  BY <3>3 DEF AllCounted, IdsOf
    <3>5. d.recorded \subseteq backfill.recorded /\ backfill.keyState # "closed"
      BY <2>1, <3>3 DEF Settles
    <3>6. CountedInv(backfill)
      <4> HIDE DEF backfill
      <4> QED  BY <3>4 DEF CountedInv
    <3> QED  BY <3>2, <3>3, <3>5, <3>6
  <2>3. CASE ~Readable(e)
    <3>1. backfill = e
      BY <1>2, <2>3 DEF Backfill, e
    <3>2. e.keyState # "available"
      BY <2>1, <2>3 DEF Readable, Settles, KeyInv, Validated, Held, Database, Keys
    <3>3. ~e.backfilled
      BY <1>2, <2>1 DEF Settles
    <3>4. CountedInv(e)
      BY <2>1, <3>2, <3>3 DEF CountedInv, Settles
    <3>5. d.recorded \subseteq e.recorded
      BY <2>1 DEF Settles
    <3> QED  BY ONLY <2>1, <3>1, <3>4, <3>5 DEF Settles
  <2> QED  BY <2>2, <2>3
<1> QED  BY <1>1, <1>2

(* Rows that go leave what the invariant says of the others.               *)
LEMMA RowsGo ==
    ASSUME NEW d \in Database, KeyInv(d), CountedInv(d),
           NEW remaining \in SUBSET d.rows
    PROVE  LET e == [d EXCEPT !.rows = remaining] IN
           /\ e \in Database /\ KeyInv(e) /\ CountedInv(e)
           /\ e.rows = remaining /\ e.recorded = d.recorded
           /\ e.keyState = d.keyState
<1> DEFINE e == [d EXCEPT !.rows = remaining]
<1>1. e \in Database /\ KeyInv(e)
  BY DEF Database, KeyInv, OneKey, Validated, Held
<1>2. e.rows = remaining /\ e.recorded = d.recorded /\ e.keyState = d.keyState
      /\ e.backfilled = d.backfilled
  BY DEF Database
<1>3. CountedInv(e)
  <2> HIDE DEF e
  <2> QED  BY <1>2 DEF CountedInv, AllCounted, IdsOf
<1> QED  BY <1>1, <1>2, <1>3

LEMMA ExpireRemains ==
    ASSUME NEW given, NEW now
    PROVE  Expire(given, now) \subseteq given
BY DEF Expire

-----------------------------------------------------------------------------
(* The initial states, and the steps.                                      *)
LEMMA StoredInvInit == StorageInit => StoredInv
<1> SUFFICES ASSUME StorageInit PROVE StoredInv
  OBVIOUS
<1>1. PICK old \in SUBSET [id : Dictations, day : {0}, key : {1}] :
        /\ db = [rows |-> old, validation |-> IF old = {} THEN NoKey ELSE 1,
                 keychain |-> IF old = {} THEN NoKey ELSE 1,
                 generated |-> IF old = {} THEN 0 ELSE 1,
                 recorded |-> {}, backfilled |-> FALSE,
                 keyState |-> "closed", key |-> NoKey]
        /\ everStored = IdsOf(old)
  BY DEF StorageInit
<1>2. 1 \in Keys /\ 0 \in 0..MaxDays /\ {0, 1} \subseteq 0..MaxKeys
  BY DEF Keys
<1>3. old \in SUBSET Row /\ \A r \in old : r.key = 1
  BY <1>2 DEF Row
<1>4. db \in Database
  BY <1>1, <1>2, <1>3 DEF Database, KeyStates
<1>5. KeyInv(db) /\ CountedInv(db)
  BY <1>1, <1>3 DEF KeyInv, OneKey, Validated, Held, CountedInv
<1>6. EverInv
  BY <1>1 DEF EverInv
<1>7. BoundsInv /\ ResetInv
  BY DEF StorageInit, BoundsInv, ResetInv
<1> QED  BY <1>4, <1>5, <1>6, <1>7 DEF StoredInv, DbInv

(* A lookup that fails is counted.                                         *)
LEMMA FailuresAreBounded ==
    ASSUME BoundsInv, NEW fault, MayFail(fault)
    PROVE  keyFaults' \in 0..MaxKeyFaults
BY DEF BoundsInv, MayFail

(* The commands that count before they remove.                             *)
LEMMA RemovalStep ==
    ASSUME StoredInv, NEW fault, NEW remaining \in SUBSET db.rows,
           AfterBackfill(fault, remaining), retention' \in {"days", "forever"}
    PROVE  StoredInv'
<1> DEFINE d == Backfill(db, fault)
<1>1. /\ d \in Database /\ KeyInv(d) /\ CountedInv(d)
      /\ d.rows = db.rows /\ db.recorded \subseteq d.recorded
  BY BackfillCounts DEF StoredInv, DbInv, CountedInv, AfterBackfill, Serving, CanCreate
<1>2. db' = (IF d.backfilled THEN [d EXCEPT !.rows = remaining] ELSE d)
  BY DEF AfterBackfill
<1> HIDE DEF d
<1>3. DbInv'
  BY <1>1, <1>2, RowsGo DEF DbInv
<1>4. db.recorded \subseteq db'.recorded
  BY <1>1, <1>2, RowsGo
<1>5. IdsOf(db.rows) \subseteq db'.recorded \cup IdsOf(db'.rows)
  <2>1. CASE d.backfilled
    <3>1. AllCounted(d) /\ db'.recorded = d.recorded
      BY <1>1, <1>2, <2>1, RowsGo DEF CountedInv
    <3> QED  BY <1>1, <3>1 DEF AllCounted
  <2>2. CASE ~d.backfilled
    BY <1>1, <1>2, <2>2
  <2> QED  BY <2>1, <2>2
<1>6. EverInv'
  BY <1>4, <1>5 DEF StoredInv, EverInv, AfterBackfill
<1>7. BoundsInv' /\ ResetInv'
  BY FailuresAreBounded DEF AfterBackfill, Serving, StoredInv, BoundsInv, ResetInv
<1> QED  BY <1>3, <1>6, <1>7 DEF StoredInv

LEMMA OpenStep ==
    ASSUME StoredInv, NEW fault, OpenStorage(fault)
    PROVE  StoredInv'
<1> DEFINE o == [db EXCEPT !.keyState = "uninitialized"]
           d == Backfill(o, fault)
<1>1. /\ o \in Database /\ KeyInv(o) /\ o.generated < MaxKeys
      /\ o.keyState # "closed" /\ (o.backfilled => AllCounted(o))
      /\ o.rows = db.rows /\ o.recorded = db.recorded
  BY DEF OpenStorage, CanCreate, StoredInv, DbInv, CountedInv, AllCounted, KeyInv, OneKey,
         Validated, Held, Database, KeyStates
<1> HIDE DEF o
<1>2. /\ d \in Database /\ KeyInv(d) /\ CountedInv(d)
      /\ d.rows = db.rows /\ db.recorded \subseteq d.recorded
  BY <1>1, BackfillCounts
<1>3. db' = (IF d.backfilled THEN [d EXCEPT !.rows = Expire(d.rows, day)] ELSE d)
  BY DEF OpenStorage, o
<1> HIDE DEF d
<1>4. Expire(d.rows, day) \subseteq d.rows
  BY ExpireRemains
<1>5. DbInv'
  BY <1>2, <1>3, <1>4, RowsGo DEF DbInv
<1>6. /\ db.recorded \subseteq db'.recorded
      /\ IdsOf(db.rows) \subseteq db'.recorded \cup IdsOf(db'.rows)
  <2>1. CASE d.backfilled
    <3>1. AllCounted(d) /\ db'.recorded = d.recorded
      BY <1>2, <1>3, <1>4, <2>1, RowsGo DEF CountedInv
    <3> QED  BY <1>2, <3>1 DEF AllCounted
  <2>2. CASE ~d.backfilled
    BY <1>2, <1>3, <2>2
  <2> QED  BY <2>1, <2>2
<1>7. EverInv'
  BY <1>6 DEF StoredInv, EverInv, OpenStorage
<1>8. resetting = "no" /\ resetting' = "no"
  BY DEF OpenStorage, StoredInv, ResetInv, BoundsInv
<1>9. BoundsInv' /\ ResetInv'
  BY <1>8, FailuresAreBounded DEF OpenStorage, StoredInv, BoundsInv, ResetInv
<1> QED  BY <1>5, <1>7, <1>9 DEF StoredInv

LEMMA InsertStep ==
    ASSUME StoredInv, NEW fault, NEW id \in Dictations, InsertRecord(id, fault)
    PROVE  StoredInv'
<1> DEFINE d == EnsureKey(db, fault)
           new == [id |-> id, day |-> day, key |-> d.key]
           added == d.rows \cup {new}
           retained == Expire(added, day)
<1>1. /\ d \in Database /\ KeyInv(d) /\ d.rows = db.rows
      /\ d.recorded = db.recorded /\ d.backfilled = db.backfilled
      /\ d.keyState \notin {"closed", "uninitialized"}
  BY EnsureKeySettles DEF Settles, InsertRecord, Serving, CanCreate, StoredInv, DbInv
<1>2. d.keyState = "available" => db.keyState \in {"available", "uninitialized"}
  BY DEF EnsureKey
<1>3. /\ resetting = "no" /\ resetting' = "no" /\ everReset' = everReset
      /\ retention' = retention /\ opens' = opens /\ day' = day
  BY DEF InsertRecord, Serving
<1>4. BoundsInv' /\ ResetInv'
  BY <1>3, FailuresAreBounded DEF InsertRecord, StoredInv, BoundsInv, ResetInv
<1>5. CASE d.keyState = "available"
  <2>1. /\ db' = [d EXCEPT !.rows = retained, !.recorded = @ \cup {id}]
        /\ everStored' = everStored \cup {id}
    BY <1>5 DEF InsertRecord
  <2>2. AllCounted(db)
    BY <1>2, <1>5 DEF StoredInv, DbInv, CountedInv
  <2> HIDE DEF d
  <2>3. d.key \in Keys /\ d.validation \in {d.key, NoKey} /\ \A r \in d.rows : r.key = d.key
    BY <1>1, <1>5 DEF KeyInv, Held
  <2>4. new \in Row /\ new.key = d.key /\ new.id = id
    BY <2>3 DEF Row, StoredInv, BoundsInv
  <2> HIDE DEF new
  <2>5. retained \subseteq d.rows \cup {new} /\ retained \in SUBSET Row
    BY <1>1, <2>4, ExpireRemains DEF Database
  <2> HIDE DEF retained
  <2>6. /\ db' \in Database /\ db'.rows = retained
        /\ db'.recorded = db.recorded \cup {id} /\ db'.key = d.key
        /\ db'.validation = d.validation /\ db'.keyState = "available"
    BY <1>1, <1>5, <2>1, <2>5 DEF Database
  <2>7. KeyInv(db')
    BY <2>3, <2>4, <2>5, <2>6 DEF KeyInv, OneKey, Validated, Held
  <2>8. AllCounted(db')
    BY <1>1, <2>2, <2>4, <2>5, <2>6 DEF AllCounted, IdsOf
  <2>9. EverInv'
    BY <1>3, <2>1, <2>2, <2>6 DEF StoredInv, EverInv, AllCounted
  <2> QED  BY <1>4, <2>6, <2>7, <2>8, <2>9 DEF StoredInv, DbInv, CountedInv
<1>6. CASE d.keyState # "available"
  <2>1. db' = d /\ everStored' = everStored
    BY <1>6 DEF InsertRecord
  <2> HIDE DEF d
  <2>2. CountedInv(d)
    BY <1>1, <1>6 DEF CountedInv, AllCounted, StoredInv, DbInv
  <2>3. EverInv'
    BY <1>1, <1>3, <2>1 DEF StoredInv, EverInv
  <2> QED  BY <1>1, <1>4, <2>1, <2>2, <2>3 DEF StoredInv, DbInv
<1> QED  BY <1>5, <1>6

LEMMA RetentionStep ==
    ASSUME StoredInv, NEW fault, NEW r \in {"days", "forever"}, SaveRetention(r, fault)
    PROVE  StoredInv'
<1> DEFINE d == Backfill(db, fault)
           retained == IF r = "forever" THEN d.rows ELSE {x \in d.rows : x.day >= day - 1}
<1>1. /\ d \in Database /\ KeyInv(d) /\ CountedInv(d)
      /\ d.rows = db.rows /\ db.recorded \subseteq d.recorded
  BY BackfillCounts DEF StoredInv, DbInv, CountedInv, SaveRetention, Serving, CanCreate
<1>2. /\ db' = (IF d.backfilled THEN [d EXCEPT !.rows = retained] ELSE d)
      /\ retention' \in {"days", "forever"}
  BY DEF SaveRetention, StoredInv, BoundsInv
<1>3. retained \in SUBSET d.rows
  OBVIOUS
<1> HIDE DEF d, retained
<1>4. DbInv'
  BY <1>1, <1>2, <1>3, RowsGo DEF DbInv
<1>5. /\ db.recorded \subseteq db'.recorded
      /\ IdsOf(db.rows) \subseteq db'.recorded \cup IdsOf(db'.rows)
  <2>1. CASE d.backfilled
    <3>1. AllCounted(d) /\ db'.recorded = d.recorded
      BY <1>1, <1>2, <1>3, <2>1, RowsGo DEF CountedInv
    <3> QED  BY <1>1, <3>1 DEF AllCounted
  <2>2. CASE ~d.backfilled
    BY <1>1, <1>2, <2>2
  <2> QED  BY <2>1, <2>2
<1>6. EverInv'
  BY <1>5 DEF StoredInv, EverInv, SaveRetention
<1>7. BoundsInv' /\ ResetInv'
  BY <1>2, FailuresAreBounded DEF SaveRetention, Serving, StoredInv, BoundsInv, ResetInv
<1> QED  BY <1>4, <1>6, <1>7 DEF StoredInv

-----------------------------------------------------------------------------
(* The reset, the end of the application, and what happens outside.        *)
LEMMA ResetStep ==
    ASSUME StoredInv,
           \/ ResetErases \/ ResetStopsShort \/ ResetDeletesKey \/ ResetSavesKey
           \/ ResetEnds \/ ResetFails
    PROVE  StoredInv'
<1> USE DEF StoredInv, DbInv, BoundsInv
<1>1. CASE ResetErases
  <2>1. db' \in Database /\ db'.rows = {} /\ db'.recorded = db.recorded
        /\ db'.keyState = "unavailable" /\ db'.generated = db.generated
        /\ db'.validation = NoKey
    BY <1>1 DEF ResetErases, Database, KeyStates
  <2>2. KeyInv(db') /\ CountedInv(db')
    BY <2>1 DEF KeyInv, OneKey, Validated, Held, CountedInv, AllCounted, IdsOf
  <2>3. EverInv'
    BY <1>1, <2>1 DEF ResetErases, EverInv
  <2>4. ResetInv'
    BY <1>1, <2>1 DEF ResetErases, CanCreate, ResetInv
  <2>5. BoundsInv'
    BY <1>1 DEF ResetErases
  <2> QED  BY <2>1, <2>2, <2>3, <2>4, <2>5
<1>2. CASE ResetDeletesKey
  <2>1. db' \in Database /\ db'.rows = db.rows /\ db'.recorded = db.recorded
        /\ db'.keyState = db.keyState /\ db'.generated = db.generated
        /\ db'.validation = db.validation /\ db'.backfilled = db.backfilled
        /\ db'.key = db.key
    BY <1>2 DEF ResetDeletesKey, Database
  <2>2. KeyInv(db') /\ CountedInv(db')
    BY <2>1 DEF KeyInv, OneKey, Validated, Held, CountedInv, AllCounted
  <2>3. EverInv' /\ ResetInv'
    BY <1>2, <2>1 DEF ResetDeletesKey, EverInv, ResetInv
  <2>4. BoundsInv'
    BY <1>2 DEF ResetDeletesKey
  <2> QED  BY <2>1, <2>2, <2>3, <2>4
<1>3. CASE ResetSavesKey
  <2>1. db.generated + 1 \in Keys /\ db.generated + 1 \in 0..MaxKeys
    BY <1>3 DEF ResetSavesKey, ResetInv, Database, Keys
  <2>2. db' \in Database /\ db'.rows = db.rows /\ db'.recorded = db.recorded
        /\ db'.keyState = db.keyState /\ db'.generated = db.generated + 1
        /\ db'.validation = db.validation /\ db'.backfilled = db.backfilled
        /\ db'.key = db.key
    BY <1>3, <2>1 DEF ResetSavesKey, Database
  <2>3. KeyInv(db') /\ CountedInv(db')
    BY <2>2 DEF KeyInv, OneKey, Validated, Held, CountedInv, AllCounted
  <2>4. EverInv' /\ ResetInv'
    BY <1>3, <2>1, <2>2 DEF ResetSavesKey, EverInv, ResetInv
  <2>5. BoundsInv'
    BY <1>3 DEF ResetSavesKey
  <2> QED  BY <2>2, <2>3, <2>4, <2>5
<1>4. CASE ResetEnds
  <2>1. db.generated \in Keys /\ db.rows = {}
    BY <1>4 DEF ResetEnds, ResetInv
  <2>2. Settles(db, Available(db, db.generated))
    BY <2>1, AvailableSettles
  <2>3. db' \in Database /\ KeyInv(db') /\ db'.rows = {} /\ db'.recorded = db.recorded
    BY <1>4, <2>1, <2>2 DEF Settles, ResetEnds
  <2>4. CountedInv(db')
    BY <2>3 DEF CountedInv, AllCounted, IdsOf
  <2>5. EverInv' /\ ResetInv'
    BY <1>4, <2>1, <2>3 DEF ResetEnds, EverInv, ResetInv
  <2>6. BoundsInv'
    BY <1>4 DEF ResetEnds
  <2> QED  BY <2>3, <2>4, <2>5, <2>6
<1>5. CASE ResetFails
  BY <1>5 DEF ResetFails, ResetInv, EverInv
<1>6. CASE ResetStopsShort
  <2>1. db' \in Database /\ db'.rows = {} /\ db'.recorded = db.recorded
        /\ db'.keyState = db.keyState /\ db'.generated = db.generated
        /\ db'.validation = NoKey /\ db'.key = db.key
    BY <1>6 DEF ResetStopsShort, Database
  <2>2. KeyInv(db') /\ CountedInv(db')
    BY <2>1 DEF KeyInv, OneKey, Validated, Held, CountedInv, AllCounted, IdsOf
  <2>3. EverInv'
    BY <1>6, <2>1 DEF ResetStopsShort, EverInv
  <2>4. ResetInv' /\ BoundsInv'
    BY <1>6, <2>1 DEF ResetStopsShort, Serving, ResetInv
  <2> QED  BY <2>1, <2>2, <2>3, <2>4
<1> QED  BY <1>1, <1>2, <1>3, <1>4, <1>5, <1>6

LEMMA OutsideStep ==
    ASSUME StoredInv, CloseStorage \/ DayPasses \/ \E k \in Keys \cup {NoKey} : KeychainChanges(k)
    PROVE  StoredInv'
<1> USE DEF StoredInv, DbInv, BoundsInv
<1>1. CASE CloseStorage
  <2>1. db' \in Database /\ db'.rows = db.rows /\ db'.recorded = db.recorded
        /\ db'.keyState = "closed" /\ db'.validation = db.validation
        /\ db'.backfilled = db.backfilled
    BY <1>1 DEF CloseStorage, Database, KeyStates
  <2>2. KeyInv(db') /\ CountedInv(db')
    BY <2>1 DEF KeyInv, OneKey, Validated, Held, CountedInv, AllCounted
  <2>3. EverInv' /\ ResetInv' /\ BoundsInv'
    BY <1>1, <2>1 DEF CloseStorage, EverInv, ResetInv
  <2> QED  BY <2>1, <2>2, <2>3
<1>2. CASE DayPasses
  BY <1>2 DEF DayPasses, ResetInv, EverInv
<1>3. ASSUME NEW k \in Keys \cup {NoKey}, KeychainChanges(k) PROVE StoredInv'
  <2>1. db' \in Database /\ db'.rows = db.rows /\ db'.recorded = db.recorded
        /\ db'.keyState = db.keyState /\ db'.validation = db.validation
        /\ db'.backfilled = db.backfilled /\ db'.key = db.key
    BY <1>3 DEF KeychainChanges, Database
  <2>2. KeyInv(db') /\ CountedInv(db')
    BY <2>1 DEF KeyInv, OneKey, Validated, Held, CountedInv, AllCounted
  <2>3. EverInv' /\ ResetInv' /\ BoundsInv'
    BY <1>3, <2>1 DEF KeychainChanges, EverInv, ResetInv
  <2> QED  BY <2>1, <2>2, <2>3
<1> QED  BY <1>1, <1>2, <1>3

LEMMA StoredInvNext == StoredInv /\ [StorageNext]_storageVars => StoredInv'
<1> SUFFICES ASSUME StoredInv, [StorageNext]_storageVars PROVE StoredInv'
  OBVIOUS
<1>1. ASSUME NEW fault \in LookupFaults, OpenStorage(fault) PROVE StoredInv'
  BY <1>1, OpenStep
<1>2. ASSUME NEW fault \in LookupFaults,
             ClearHistory(fault) \/ CleanUp(fault) \/ ReadUsage(fault)
      PROVE  StoredInv'
  <2>1. PICK remaining \in SUBSET db.rows : AfterBackfill(fault, remaining)
    BY <1>2, ExpireRemains DEF ClearHistory, CleanUp, ReadUsage
  <2>2. retention' \in {"days", "forever"}
    BY <1>2 DEF ClearHistory, CleanUp, ReadUsage, StoredInv, BoundsInv
  <2> QED  BY <2>1, <2>2, RemovalStep
<1>3. ASSUME NEW fault \in LookupFaults, NEW id \in Dictations, InsertRecord(id, fault)
      PROVE  StoredInv'
  BY <1>3, InsertStep
<1>4. ASSUME NEW fault \in LookupFaults, NEW id \in Dictations, DeleteRecord(id, fault)
      PROVE  StoredInv'
  <2>1. AfterBackfill(fault, {r \in db.rows : r.id # id})
        /\ retention' \in {"days", "forever"}
    BY <1>4 DEF DeleteRecord, StoredInv, BoundsInv
  <2> QED  BY <2>1, RemovalStep
<1>5. ASSUME NEW fault \in LookupFaults, NEW r \in {"days", "forever"},
             SaveRetention(r, fault)
      PROVE  StoredInv'
  BY <1>5, RetentionStep
<1>6. CASE UNCHANGED storageVars
  BY <1>6 DEF storageVars, StoredInv, DbInv, BoundsInv, ResetInv, EverInv
<1> QED  BY <1>1, <1>2, <1>3, <1>4, <1>5, <1>6, ResetStep, OutsideStep DEF StorageNext

LEMMA StoredAlways == StorageSpec => []StoredInv
BY StoredInvInit, StoredInvNext, PTL DEF StorageSpec

-----------------------------------------------------------------------------
(* Every variable holds what the code's types allow.                       *)
THEOREM StorageTypeCorrect == StorageSpec => []StorageTypeOK
<1>1. StoredInv => StorageTypeOK
  BY DEF StoredInv, DbInv, BoundsInv, StorageTypeOK, Database
<1> QED  BY <1>1, StoredAlways, PTL

(* What is stored stays readable while the history counts as available, and *)
(* counted: whatever happens to the keychain entry, wherever a reset is cut *)
(* and however often the application is started.                           *)
THEOREM HistoryIsKept == StorageSpec => []HistoryKept
<1>1. StoredInv => HistoryStaysReadable
  BY DEF HistoryStaysReadable, StoredInv, DbInv, KeyInv, Held
<1>2. StoredInv => UsageComplete
  BY DEF StoredInv, DbInv, CountedInv, AllCounted, EverInv, UsageComplete
<1> QED  BY <1>1, <1>2, StoredAlways, PTL DEF HistoryKept

HIDE HistoryStorageAssumption

-----------------------------------------------------------------------------
(* What is learned for the dictionary.                                     *)
USE DictionaryAssumption

\* A row counts what was observed of its dictation and term: with the
\* assessment of one observation, at the time of one.
Counted(row, evidence) ==
    /\ \E r \in evidence : /\ r.speech = row.speech /\ r.term = row.term
                           /\ r.decision = row.decision /\ r.confidence = row.confidence
    /\ \E r \in evidence : r.speech = row.speech /\ r.term = row.term /\ r.at = row.at

EvidenceInv ==
    /\ \A row \in observations : Counted(row, evidenceLog)
    /\ IsFiniteSet(SpeechesOf(evidenceLog))

DictionaryInv == DictionaryTypeOK /\ EvidenceInv /\ refused = suppressed

LEMMA ObservationFields ==
    ASSUME NEW r \in Observation
    PROVE  /\ r.speech \in Speeches /\ r.term \in Terms /\ r.decision \in Decisions
           /\ r.confidence \in Confidences /\ r.at \in 0..MaxTicks /\ r.at \in Nat
BY DEF Observation

\* The given of a dictation and term become one, which counts what they counted.
LEMMA MergedRow ==
    ASSUME NEW given, given \subseteq Observation, NEW o \in Observation,
           NEW evidence, o \in evidence, \A row \in given : Counted(row, evidence)
    PROVE  /\ Merged(given, o) \subseteq Observation
           /\ \A row \in Merged(given, o) :
                 Counted(row, evidence) /\ (row \in given \/ row.at >= o.at)
<1> DEFINE same == {r \in given : r.speech = o.speech /\ r.term = o.term}
<1>1. CASE same = {}
    <2>1. Merged(given, o) = (given \ same) \cup {o}
        BY <1>1 DEF Merged
    <2>2. o.at >= o.at
        BY ObservationFields
    <2>3. Counted(o, evidence)
        BY DEF Counted
    <2> QED
        BY <2>1, <2>2, <2>3
<1>2. CASE same # {}
    <2> DEFINE r == CHOOSE r \in same : TRUE
               better == o.confidence > r.confidence
               one == [o EXCEPT !.decision = IF better THEN @ ELSE r.decision,
                                !.confidence = IF better THEN @ ELSE r.confidence,
                                !.at = IF r.at > @ THEN r.at ELSE @]
    <2>1. Merged(given, o) = (given \ same) \cup {one}
        BY <1>2 DEF Merged
    <2>2. r \in same
        BY <1>2
    <2>3. r \in Observation /\ r.speech = o.speech /\ r.term = o.term /\ Counted(r, evidence)
        BY <2>2
    <2> HIDE DEF r, same
    <2>4. better \in BOOLEAN
        OBVIOUS
    <2> HIDE DEF better
    <2>5. /\ one.speech = o.speech /\ one.term = o.term
          /\ one.decision = IF better THEN o.decision ELSE r.decision
          /\ one.confidence = IF better THEN o.confidence ELSE r.confidence
          /\ one.at = IF r.at > o.at THEN r.at ELSE o.at
          /\ one \in Observation
        BY <2>3 DEF Observation
    <2> HIDE DEF one
    <2>6. one.at >= o.at
        BY <2>3, <2>5, ObservationFields
    <2>7. Counted(one, evidence)
        <3>1. \E q \in evidence : /\ q.speech = one.speech /\ q.term = one.term
                                  /\ q.decision = one.decision /\ q.confidence = one.confidence
            BY <2>3, <2>4, <2>5 DEF Counted
        <3>2. one.at = r.at \/ one.at = o.at
            BY <2>5
        <3>3. \E q \in evidence : q.speech = one.speech /\ q.term = one.term /\ q.at = one.at
            BY <2>3, <2>5, <3>2 DEF Counted
        <3> QED
            BY <3>1, <3>3 DEF Counted
    <2> QED
        BY <2>1, <2>5, <2>6, <2>7
<1> QED
    BY <1>1, <1>2

\* More evidence makes no fewer dictations.
LEMMA EnoughMore ==
    ASSUME NEW given, NEW more, IsFiniteSet(SpeechesOf(more)),
           \A r \in given : \E q \in more : q.speech = r.speech /\ (High(r) => High(q)),
           Enough(given)
    PROVE  Enough(more)
<1> DEFINE high == {r \in given : High(r)}
           higher == {r \in more : High(r)}
<1>1. SpeechesOf(given) \subseteq SpeechesOf(more)
    BY DEF SpeechesOf
<1>2. SpeechesOf(high) \subseteq SpeechesOf(higher)
    BY DEF SpeechesOf
<1>3. SpeechesOf(higher) \subseteq SpeechesOf(more)
    BY DEF SpeechesOf
<1> HIDE DEF high, higher
<1>4. Cardinality(SpeechesOf(given)) <= Cardinality(SpeechesOf(more))
      /\ Cardinality(SpeechesOf(given)) \in Nat /\ Cardinality(SpeechesOf(more)) \in Nat
    BY <1>1, FS_Subset, FS_CardinalityType
<1>5. IsFiniteSet(SpeechesOf(higher))
    BY <1>3, FS_Subset
<1>6. Cardinality(SpeechesOf(high)) <= Cardinality(SpeechesOf(higher))
      /\ Cardinality(SpeechesOf(high)) \in Nat /\ Cardinality(SpeechesOf(higher)) \in Nat
    BY <1>2, <1>5, FS_Subset, FS_CardinalityType
<1>7. Cardinality(SpeechesOf(high)) >= 2 \/ Cardinality(SpeechesOf(given)) >= 3
    BY DEF Enough, high
<1>8. Cardinality(SpeechesOf(higher)) >= 2 \/ Cardinality(SpeechesOf(more)) >= 3
    BY <1>4, <1>6, <1>7
<1> QED
    BY <1>8 DEF Enough, higher

\* What one observation recorded makes of the evidence and the given.
LEMMA RecordEvidence ==
    ASSUME DictionaryInv, NEW s \in Speeches, NEW t \in Terms, SameTime(s),
           NEW o \in Observation, o.speech = s, o.term = t, o.at = tick,
           RecordTerm(o)
    PROVE  /\ EvidenceInv' /\ observations' \subseteq Observation
           /\ \A row \in Merged(Recent(observations, o.at), o) :
                 /\ row \in Observation /\ Counted(row, evidenceLog')
                 /\ row.at >= o.at - Window
<1>1. /\ evidenceLog' = evidenceLog \cup {o} /\ tick' = tick
      /\ \/ observations' = Merged(Recent(observations, o.at), o)
         \/ observations' = Merged(Recent(observations, o.at), o) \
                {r \in Merged(Recent(observations, o.at), o) : r.term = o.term}
    BY DEF RecordTerm
<1>2. /\ observations \subseteq Observation /\ evidenceLog \subseteq Observation
      /\ tick \in Nat /\ Window \in Nat
    BY DEF DictionaryInv, DictionaryTypeOK
<1>3. \A row \in observations : Counted(row, evidenceLog')
    BY <1>1 DEF DictionaryInv, EvidenceInv, Counted
<1>4. Recent(observations, o.at) \subseteq observations
      /\ \A r \in Recent(observations, o.at) : r.at >= o.at - Window
    BY DEF Recent
<1> DEFINE given == Recent(observations, o.at)
<1>5. /\ Merged(given, o) \subseteq Observation
      /\ \A row \in Merged(given, o) :
            Counted(row, evidenceLog') /\ (row \in given \/ row.at >= o.at)
    <2>1. given \subseteq Observation /\ o \in evidenceLog'
          /\ \A row \in given : Counted(row, evidenceLog')
        BY <1>1, <1>2, <1>3, <1>4
    <2> HIDE DEF given
    <2> QED
        BY <2>1, MergedRow
<1>6. \A row \in Merged(given, o) : row.at >= o.at - Window
    <2> SUFFICES ASSUME NEW row \in Merged(given, o)
                 PROVE  row.at >= o.at - Window
        OBVIOUS
    <2>1. row.at \in Nat /\ o.at \in Nat
        BY <1>5, ObservationFields
    <2>2. row \in given \/ row.at >= o.at
        BY <1>5
    <2> QED
        BY <1>2, <1>4, <2>1, <2>2
<1>9. IsFiniteSet(SpeechesOf(evidenceLog'))
    <2>1. SpeechesOf(evidenceLog') = SpeechesOf(evidenceLog) \cup {o.speech}
        BY <1>1 DEF SpeechesOf
    <2> QED
        BY <2>1, FS_AddElement DEF DictionaryInv, EvidenceInv
<1>10. observations' \subseteq Merged(given, o)
    BY <1>1
<1> HIDE DEF given
<1>11. \A row \in observations' : Counted(row, evidenceLog')
    BY <1>5, <1>10
<1>12. EvidenceInv'
    BY <1>9, <1>11 DEF EvidenceInv
<1> QED
    BY <1>5, <1>6, <1>10, <1>12 DEF given

\* Enough rows are enough evidence of the dictations heard within the window.
LEMMA RecordLearns ==
    ASSUME DictionaryInv, NEW s \in Speeches, NEW t \in Terms, SameTime(s),
           NEW o \in Observation, o.speech = s, o.term = t, o.at = tick,
           RecordTerm(o),
           Enough({r \in Merged(Recent(observations, o.at), o) : r.term = o.term})
    PROVE  Enough(EvidenceWithin(evidenceLog', t, tick))
<1> DEFINE mine == {r \in Merged(Recent(observations, o.at), o) : r.term = o.term}
           more == EvidenceWithin(evidenceLog', t, tick)
<1>1. /\ EvidenceInv'
      /\ \A row \in mine : /\ row \in Observation /\ Counted(row, evidenceLog')
                           /\ row.at >= o.at - Window /\ row.term = t
    BY RecordEvidence
<1>2. evidenceLog' \subseteq Observation
    BY DEF RecordTerm, DictionaryInv, DictionaryTypeOK
<1>3. SpeechesOf(more) \subseteq SpeechesOf(evidenceLog')
    BY DEF SpeechesOf, EvidenceWithin
<1>4. IsFiniteSet(SpeechesOf(more))
    <2>1. IsFiniteSet(SpeechesOf(evidenceLog'))
        BY <1>1 DEF EvidenceInv
    <2> HIDE DEF more
    <2> QED
        BY <1>3, <2>1, FS_Subset
<1>5. ASSUME NEW row \in mine
      PROVE  \E q \in more : q.speech = row.speech /\ (High(row) => High(q))
    <2>1. PICK q \in evidenceLog' : /\ q.speech = row.speech /\ q.term = row.term
                                    /\ q.decision = row.decision
                                    /\ q.confidence = row.confidence
        BY <1>1, <1>5 DEF Counted
    <2>2. PICK e \in evidenceLog' : e.speech = row.speech /\ e.term = row.term /\ e.at = row.at
        BY <1>1, <1>5 DEF Counted
    <2>3. e.at >= tick - Window /\ e.term = t /\ q.term = t /\ e.speech = q.speech
        BY <1>1, <1>5, <2>1, <2>2
    <2>7. q \in more
        BY <2>1, <2>2, <2>3 DEF EvidenceWithin, SpeechesOf
    <2>8. High(row) => High(q)
        BY <2>1 DEF High
    <2> QED
        BY <2>1, <2>7, <2>8
<1>6. Enough(mine)
    OBVIOUS
<1> HIDE DEF mine, more
<1>7. Enough(more)
    BY <1>4, <1>5, <1>6, EnoughMore
<1> QED
    BY <1>7 DEF more

LEMMA InitDictionaryInv == DictionaryInit => DictionaryInv
<1> SUFFICES ASSUME DictionaryInit
             PROVE  DictionaryInv
    OBVIOUS
<1>1. DictionaryTypeOK
    BY DEF DictionaryInit, DictionaryTypeOK
<1>2. SpeechesOf(evidenceLog) = {}
    BY DEF DictionaryInit, SpeechesOf
<1> QED
    BY <1>1, <1>2, FS_EmptySet DEF DictionaryInit, DictionaryInv, EvidenceInv

\* An observation: recorded as evidence, or ignored.
LEMMA ObserveStep ==
    ASSUME DictionaryInv, ObserveTerm
    PROVE  \/ UNCHANGED dictionaryVars
           \/ \E s \in Speeches, t \in Terms, o \in Observation :
                 /\ SameTime(s) /\ o.speech = s /\ o.term = t /\ o.at = tick
                 /\ RecordTerm(o)
<1>1. PICK s \in Speeches, t \in Terms :
          /\ SameTime(s)
          /\ \/ IgnoreTerm(t)
             \/ \E a \in Possible(t) :
                  RecordTerm([speech |-> s, term |-> t, decision |-> a.decision,
                              confidence |-> a.confidence, at |-> tick])
    BY DEF ObserveTerm
<1>2. CASE IgnoreTerm(t)
    BY <1>2 DEF IgnoreTerm
<1>3. ASSUME NEW a \in Possible(t),
             RecordTerm([speech |-> s, term |-> t, decision |-> a.decision,
                         confidence |-> a.confidence, at |-> tick])
      PROVE  \E o \in Observation :
                 o.speech = s /\ o.term = t /\ o.at = tick /\ RecordTerm(o)
    <2> DEFINE o == [speech |-> s, term |-> t, decision |-> a.decision,
                     confidence |-> a.confidence, at |-> tick]
    <2>1. a.decision \in Decisions /\ a.confidence \in Confidences
        BY <1>3 DEF Possible, LocalAssessment, Assessments, Decisions, Confidences
    <2>2. o \in Observation /\ o.speech = s /\ o.term = t /\ o.at = tick
        BY <2>1 DEF Observation, DictionaryInv, DictionaryTypeOK
    <2>3. RecordTerm(o)
        BY <1>3
    <2> HIDE DEF o
    <2> QED
        BY <2>2, <2>3
<1> QED
    BY <1>1, <1>2, <1>3

LEMMA RecordKeeps ==
    ASSUME DictionaryInv, NEW s \in Speeches, NEW t \in Terms, SameTime(s),
           NEW o \in Observation, o.speech = s, o.term = t, o.at = tick,
           RecordTerm(o)
    PROVE  DictionaryInv'
<1>1. EvidenceInv' /\ observations' \subseteq Observation
    BY RecordEvidence
<1>2. /\ UNCHANGED <<suppressed, tick, refused, edits>>
      /\ evidenceLog' = evidenceLog \cup {o}
      /\ entries' = entries \/ entries' = [entries EXCEPT ![o.term] = "automatic"]
      /\ observed < MaxObservations /\ observed' = observed + 1
    BY DEF RecordTerm
<1>3. entries' \in [Terms -> {"none", "manual", "automatic"}]
    BY <1>2 DEF DictionaryInv, DictionaryTypeOK
<1>4. observed' \in 0..MaxObservations
    BY <1>2 DEF DictionaryInv, DictionaryTypeOK
<1> QED
    BY <1>1, <1>2, <1>3, <1>4 DEF DictionaryInv, DictionaryTypeOK

LEMMA EditKeeps ==
    ASSUME DictionaryInv,
           \/ \E t \in Terms : AddTerm(t) \/ ImportTerm(t) \/ DeleteTerm(t)
           \/ \E t, w \in Terms : RenameTerm(t, w)
    PROVE  DictionaryInv'
<1>1. UNCHANGED <<observations, tick, evidenceLog, observed>> /\ EditsDictionary
    BY DEF AddTerm, ImportTerm, DeleteTerm, RenameTerm
<1>2. EvidenceInv'
    BY <1>1 DEF DictionaryInv, EvidenceInv, Counted, SpeechesOf
<1>3. edits' \in 0..MaxEdits
    BY <1>1 DEF EditsDictionary, DictionaryInv, DictionaryTypeOK
<1>4. /\ entries' \in [Terms -> {"none", "manual", "automatic"}]
      /\ suppressed' \subseteq Terms /\ refused' = suppressed'
    <2>1. ASSUME NEW t \in Terms, AddTerm(t) \/ ImportTerm(t)
          PROVE  /\ entries' \in [Terms -> {"none", "manual", "automatic"}]
                 /\ suppressed' \subseteq Terms /\ refused' = suppressed'
        BY <2>1 DEF AddTerm, ImportTerm, DictionaryInv, DictionaryTypeOK
    <2>2. ASSUME NEW t \in Terms, DeleteTerm(t)
          PROVE  /\ entries' \in [Terms -> {"none", "manual", "automatic"}]
                 /\ suppressed' \subseteq Terms /\ refused' = suppressed'
        BY <2>2 DEF DeleteTerm, DictionaryInv, DictionaryTypeOK
    <2>3. ASSUME NEW t \in Terms, NEW w \in Terms, RenameTerm(t, w)
          PROVE  /\ entries' \in [Terms -> {"none", "manual", "automatic"}]
                 /\ suppressed' \subseteq Terms /\ refused' = suppressed'
        <3>1. entries[t] \in {"none", "manual", "automatic"}
            BY DEF DictionaryInv, DictionaryTypeOK
        <3> QED
            BY <2>3, <3>1 DEF RenameTerm, DictionaryInv, DictionaryTypeOK
    <2> QED
        BY <2>1, <2>2, <2>3
<1> QED
    BY <1>1, <1>2, <1>3, <1>4 DEF DictionaryInv, DictionaryTypeOK

LEMMA NextDictionaryInv == DictionaryInv /\ [DictionaryNext]_dictionaryVars => DictionaryInv'
<1> SUFFICES ASSUME DictionaryInv, [DictionaryNext]_dictionaryVars
             PROVE  DictionaryInv'
    OBVIOUS
<1>1. CASE UNCHANGED dictionaryVars
    BY <1>1 DEF dictionaryVars, DictionaryInv, DictionaryTypeOK, EvidenceInv,
                Counted, SpeechesOf
<1>2. CASE ObserveTerm
    BY <1>1, <1>2, ObserveStep, RecordKeeps
<1>3. CASE \/ \E t \in Terms : AddTerm(t) \/ ImportTerm(t) \/ DeleteTerm(t)
           \/ \E t, w \in Terms : RenameTerm(t, w)
    BY <1>3, EditKeeps
<1>4. CASE Tick
    <2>1. /\ UNCHANGED <<entries, suppressed, observations, evidenceLog, refused, observed,
                         edits>>
          /\ tick' = tick + 1 /\ tick' \in 0..MaxTicks /\ tick \in Nat
        BY <1>4 DEF Tick, DictionaryInv, DictionaryTypeOK
    <2> QED
        BY <2>1 DEF DictionaryInv, DictionaryTypeOK, EvidenceInv, Counted, SpeechesOf
<1> QED
    BY <1>1, <1>2, <1>3, <1>4 DEF DictionaryNext

LEMMA DictionaryAlways == DictionarySpec => []DictionaryInv
BY InitDictionaryInv, NextDictionaryInv, PTL DEF DictionarySpec

(* The tables of the dictionary hold what the code's types allow            *)
(* (sqlite_storage/dictionary.rs and dictionary_learning.rs).               *)
THEOREM DictionaryTypeCorrect == DictionarySpec => []DictionaryTypeOK
<1>1. DictionaryInv => DictionaryTypeOK
    BY DEF DictionaryInv
<1> QED
    BY <1>1, DictionaryAlways, PTL

LEMMA LearnsStep ==
    DictionaryInv /\ [DictionaryNext]_dictionaryVars => \A t \in Terms : LearnedStep(t)
<1> SUFFICES ASSUME DictionaryInv, [DictionaryNext]_dictionaryVars, NEW t \in Terms,
                    entries'[t] = "automatic", entries[t] # "automatic"
             PROVE  LearnedStep(t)
    BY DEF LearnedStep
<1>0. entries \in [Terms -> {"none", "manual", "automatic"}]
    BY DEF DictionaryInv, DictionaryTypeOK
<1>1. CASE UNCHANGED entries
    BY <1>1
<1>2. CASE ObserveTerm
    <2>1. CASE UNCHANGED dictionaryVars
        BY <1>1, <2>1 DEF dictionaryVars
    <2>2. ASSUME NEW s \in Speeches, NEW v \in Terms, NEW o \in Observation,
                 SameTime(s), o.speech = s, o.term = v, o.at = tick, RecordTerm(o)
          PROVE  LearnedStep(t)
        <3>1. CASE ~Enough({r \in Merged(Recent(observations, o.at), o) : r.term = o.term})
            BY <1>1, <2>2, <3>1 DEF RecordTerm
        <3>2. CASE Enough({r \in Merged(Recent(observations, o.at), o) : r.term = o.term})
            <4>1. entries' = [entries EXCEPT ![o.term] = "automatic"]
                  /\ ~Known(o.term) /\ evidenceLog' = evidenceLog \cup {o}
                BY <2>2, <3>2 DEF RecordTerm
            <4>2. t = v
                BY <1>0, <2>2, <4>1
            <4>3. Enough(EvidenceWithin(evidenceLog', v, tick))
                BY <2>2, <3>2, RecordLearns
            <4>4. entries[t] = "none" /\ t \notin refused
                BY <2>2, <4>1, <4>2 DEF Known, DictionaryInv
            <4> QED
                BY <2>2, <4>1, <4>2, <4>3, <4>4 DEF LearnedStep
        <3> QED
            BY <3>1, <3>2
    <2> QED
        BY <1>2, <2>1, <2>2, ObserveStep
<1>3. ASSUME NEW v \in Terms, AddTerm(v) \/ ImportTerm(v) \/ DeleteTerm(v)
      PROVE  LearnedStep(t)
    BY <1>0, <1>3 DEF AddTerm, ImportTerm, DeleteTerm
<1>4. ASSUME NEW v \in Terms, NEW w \in Terms, RenameTerm(v, w)
      PROVE  LearnedStep(t)
    <2>1. /\ entries[v] # "none" /\ entries[w] = "none"
          /\ entries' = [entries EXCEPT ![w] = entries[v], ![v] = "none"]
        BY <1>4 DEF RenameTerm
    <2>2. v # w /\ entries'[v] = "none" /\ t # v
        BY <1>0, <2>1
    <2>3. t = w
        BY <1>0, <2>1, <2>2
    <2>4. entries'[t] = entries[v]
        BY <1>0, <2>1, <2>2, <2>3
    <2> QED
        BY <2>1, <2>2, <2>3, <2>4 DEF LearnedStep
<1>5. CASE Tick
    BY <1>1, <1>5 DEF Tick
<1> QED
    BY <1>1, <1>2, <1>3, <1>4, <1>5 DEF DictionaryNext, dictionaryVars

(* A term becomes an automatic entry only by evidence of two dictations     *)
(* with a confident acceptance each, or of three, each heard of within the  *)
(* window before the observation that makes it one; never one that the user *)
(* deleted and did not add again, and never over what the user typed, in    *)
(* whatever order the transactions of the observation threads and of the    *)
(* user come (dictionary_learning.rs, dictionary.rs).                       *)
THEOREM LearnsByEvidence == DictionarySpec => LearnedByEvidence
<1>1. DictionaryInv /\ [DictionaryNext]_dictionaryVars => [\A t \in Terms : LearnedStep(t)]_dictionaryVars
    BY LearnsStep
<1> QED
    BY <1>1, DictionaryAlways, PTL DEF DictionarySpec, LearnedByEvidence

HIDE DictionaryAssumption

-----------------------------------------------------------------------------
(* The schema brought up to date.                                          *)
USE MigrationsAssumption

\* The database has the form of its schema, and so had the one found.
DatabaseForm(db1) ==
    /\ db1.version \in Nat
    /\ DOMAIN db1.settings = ColumnsUpTo(db1.version)
    /\ db1.tables = TablesUpTo(db1.version)
    /\ db1.rows \in EvidenceOf(db1.version)

LaunchForm ==
    /\ launch \in [at : {"none", "migrating", "open", "refused"}, read : Nat]
    /\ interrupted \in 0..MaxInterruptions

\* Versions only rise, up to the current one; a newer database is left alone.
VersionInv ==
    /\ found.version <= disk.version
    /\ disk.version > 25 => disk = found
    /\ launch.at = "refused" => disk.version > 25
    /\ launch.at \in {"migrating", "open"} =>
         /\ found.version <= launch.read /\ launch.read <= disk.version
         /\ disk.version <= 25
    /\ launch.at = "open" => disk.version = 25

\* The theme that is gone was last known to schema 18.
ClearSkyInv ==
    \A c \in DOMAIN found.settings :
        found.settings[c] = "clear-sky" => c = "theme" /\ found.version <= 18

SettingsKept ==
    \A c \in DOMAIN found.settings :
        disk.settings[c] =
            IF found.settings[c] = "clear-sky" /\ disk.version \in 19..25
            THEN "sunlit-gold" ELSE found.settings[c]

\* What who had a database is given for the settings it had not yet.
OldUserInv ==
    /\ found.version \in 1..11 /\ disk.version >= 12 =>
         disk.settings["shortcuts"] =
            IF disk.settings["shortcut"] = "" THEN "right-command"
            ELSE disk.settings["shortcut"]
    /\ found.version \in 1..12 /\ disk.version >= 13 =>
         disk.settings["onboarding"] = "completed"
    /\ found.version \in 1..14 /\ disk.version >= 15 =>
         disk.settings["theme"] = "lime-pulse"

\* What a new user is given, while the first launch is not interrupted.
NewUserInv ==
    found.version = 0 /\ interrupted = 0 =>
        \/ launch.at = "none" /\ disk.version = 0
        \/ /\ launch.at \in {"migrating", "open"} /\ launch.read = 0
           /\ disk.version >= 12 /\ FreshShortcut # "none" =>
                disk.settings["shortcuts"] = FreshShortcut
           /\ disk.version >= 13 => disk.settings["onboarding"] = "not_started"
           /\ disk.version >= 18 => disk.settings["theme"] = "saymore"

Spoke(d, rows1) == \E r \in rows1 : r.dictation = d

\* The dictations that spoke for a term are those of the database found.
RowsInv ==
    /\ \A d \in Witnesses : Spoke(d, disk.rows) <=> Spoke(d, found.rows)
    /\ found.version >= 23 => disk.rows = found.rows
    /\ found.version < 23 /\ disk.version >= 23 =>
         \A r \in disk.rows : r.grade = "uncertain"

MigrationsInv ==
    /\ DatabaseForm(disk) /\ DatabaseForm(found) /\ LaunchForm /\ VersionInv /\ ClearSkyInv
    /\ SettingsKept /\ OldUserInv /\ NewUserInv /\ RowsInv

-----------------------------------------------------------------------------
(* The schema: what it says of each version.                               *)

LEMMA ColumnsAre ==
    DOMAIN Columns =
        {"history", "retention", "learning", "microphone", "diagnostics", "ui_language",
         "update_checks", "sounds", "copy", "dock", "paused", "shortcut", "shortcuts",
         "onboarding", "theme", "color_scheme", "mute", "assist", "assist_success",
         "consent"}
BY DEF Columns

LEMMA ColumnsSince ==
    /\ Columns["history"].since = 1 /\ Columns["retention"].since = 1
    /\ Columns["learning"].since = 1 /\ Columns["microphone"].since = 6
    /\ Columns["diagnostics"].since = 7 /\ Columns["ui_language"].since = 8
    /\ Columns["update_checks"].since = 9 /\ Columns["sounds"].since = 9
    /\ Columns["copy"].since = 10 /\ Columns["dock"].since = 10
    /\ Columns["paused"].since = 10 /\ Columns["shortcut"].since = 11
    /\ Columns["shortcuts"].since = 12 /\ Columns["onboarding"].since = 13
    /\ Columns["theme"].since = 15 /\ Columns["color_scheme"].since = 15
    /\ Columns["mute"].since = 16 /\ Columns["assist"].since = 21
    /\ Columns["assist_success"].since = 21 /\ Columns["consent"].since = 24
BY DEF Columns

LEMMA ColumnValues == \A c \in DOMAIN Columns : Columns[c].value # "clear-sky"
<1>1. /\ Columns["history"].value = "on" /\ Columns["retention"].value = "7 days"
      /\ Columns["learning"].value = "on" /\ Columns["microphone"].value = "none"
      /\ Columns["diagnostics"].value = "on" /\ Columns["ui_language"].value = "system"
      /\ Columns["update_checks"].value = "off" /\ Columns["sounds"].value = "on"
      /\ Columns["copy"].value = "off" /\ Columns["dock"].value = "on"
      /\ Columns["paused"].value = "off" /\ Columns["shortcut"].value = "right-command"
      /\ Columns["shortcuts"].value = "right-command"
      /\ Columns["onboarding"].value = "not_started"
      /\ Columns["theme"].value = "lime-pulse" /\ Columns["color_scheme"].value = "system"
      /\ Columns["mute"].value = "on" /\ Columns["assist"].value = "off"
      /\ Columns["assist_success"].value = "none" /\ Columns["consent"].value = "none"
    BY DEF Columns
<1> QED
    BY <1>1, ColumnsAre

\* Every column came with a version.
LEMMA ColumnVersions == \A c \in DOMAIN Columns : Columns[c].since \in 1..25
BY ColumnsAre, ColumnsSince

LEMMA TableVersions == \A t \in DOMAIN TablesSince : TablesSince[t] \in 1..25
BY DEF TablesSince

\* A schema has the columns of the one before and its own.
LEMMA ColumnsGrow ==
    ASSUME NEW n \in Nat \ {0}
    PROVE  ColumnsUpTo(n) = ColumnsUpTo(n - 1) \cup ColumnsOf(n)
BY ColumnVersions DEF ColumnsUpTo, ColumnsOf

LEMMA ColumnsRise ==
    ASSUME NEW m \in Nat, NEW n \in Nat, m <= n
    PROVE  ColumnsUpTo(m) \subseteq ColumnsUpTo(n)
BY ColumnVersions DEF ColumnsUpTo

LEMMA TablesGrow ==
    ASSUME NEW n \in Nat \ {0}
    PROVE  TablesUpTo(n) = TablesUpTo(n - 1) \cup TablesOf(n)
BY TableVersions DEF TablesUpTo, TablesOf

LEMMA ColumnsNone == ColumnsUpTo(0) = {}
BY ColumnVersions DEF ColumnsUpTo

LEMMA TablesNone == TablesUpTo(0) = {}
BY TableVersions DEF TablesUpTo

\* The columns the migrations name.
LEMMA NamedColumns ==
    /\ {"shortcut", "shortcuts", "onboarding", "theme"} \subseteq DOMAIN Columns
    /\ Columns["shortcut"].since = 11 /\ Columns["shortcuts"].since = 12
    /\ Columns["onboarding"].since = 13 /\ Columns["theme"].since = 15
    /\ Columns["shortcuts"].value = "right-command"
    /\ Columns["theme"].value = "lime-pulse" /\ Columns["onboarding"].value = "not_started"
BY DEF Columns

\* Versions that brought no column.
LEMMA NoColumns == \A n \in {2, 3, 4, 5, 14, 17, 18, 19, 20, 22, 23, 25} : ColumnsOf(n) = {}
BY ColumnsAre, ColumnsSince DEF ColumnsOf

\* Versions that brought one.
LEMMA OneColumn ==
    ColumnsOf(12) = {"shortcuts"} /\ ColumnsOf(13) = {"onboarding"}
<1>1. ColumnsOf(12) = {"shortcuts"}
    BY ColumnsAre, ColumnsSince DEF ColumnsOf
<1>2. ColumnsOf(13) = {"onboarding"}
    BY ColumnsAre, ColumnsSince DEF ColumnsOf
<1> QED
    BY <1>1, <1>2

\* Versions that brought no table: those that change settings have their tables
\* in Migrate, and these change rows.
LEMMA NoTables == \A n \in {5, 22, 23} : TablesOf(n) = {}
BY DEF TablesOf, TablesSince

LEMMA ExtendedIs ==
    ASSUME NEW f, NEW g
    PROVE  /\ DOMAIN Extended(f, g) = DOMAIN f \cup DOMAIN g
           /\ \A c \in DOMAIN f : Extended(f, g)[c] = f[c]
           /\ \A c \in DOMAIN g \ DOMAIN f : Extended(f, g)[c] = g[c]
BY DEF Extended

LEMMA GivenIs ==
    ASSUME NEW columns
    PROVE  /\ DOMAIN Given(columns) = columns
           /\ \A c \in columns : Given(columns)[c] = Columns[c].value
BY DEF Given

-----------------------------------------------------------------------------
(* The rows: what the three rebuilds make of them.                         *)

\* Versions that leave the form of a row alone.
LEMMA EvidenceSame ==
    ASSUME NEW n \in Nat \ {0, 3, 5, 22, 23}
    PROVE  EvidenceOf(n) = EvidenceOf(n - 1)
<1>1. n < 3 => EvidenceOf(n) = EvidenceOf(n - 1)
    BY DEF EvidenceOf
<1>2. ASSUME n >= 4
      PROVE  EvidenceOf(n) = EvidenceOf(n - 1)
    <2>1. /\ Variants(n) = Variants(n - 1) /\ Kinds(n) = Kinds(n - 1)
          /\ Grades(n) = Grades(n - 1)
        BY <1>2 DEF Variants, Kinds, Grades
    <2>2. EvidenceRow(n) = EvidenceRow(n - 1)
        BY <2>1 DEF EvidenceRow
    <2>3. \A r : RowKey(n, r) = RowKey(n - 1, r)
        BY <1>2 DEF RowKey
    <2>4. \A rows1 : rows1 \in EvidenceOf(n) <=> rows1 \in EvidenceOf(n - 1)
        <3>1. ASSUME NEW rows1
              PROVE  rows1 \in EvidenceOf(n) <=> rows1 \in EvidenceOf(n - 1)
            BY <1>2, <2>2, <2>3 DEF EvidenceOf
        <3> QED
            BY <3>1
    <2> QED
        BY <2>4
<1> QED
    BY <1>1, <1>2

LEMMA NoEvidence == EvidenceOf(0) = {{}} /\ EvidenceOf(2) = {{}}
BY DEF EvidenceOf

\* An empty table fits every schema.
LEMMA EmptyEvidence == \A n \in Nat : {} \in EvidenceOf(n)
<1>1. IsFiniteSet({}) /\ Cardinality({}) = 0
    BY FS_EmptySet
<1> QED
    BY <1>1 DEF EvidenceOf

LEMMA EvidenceIs ==
    ASSUME NEW n \in Nat, n >= 3, NEW rows1 \in EvidenceOf(n)
    PROVE  /\ rows1 \subseteq EvidenceRow(n)
           /\ IsFiniteSet(rows1) /\ Cardinality(rows1) <= MaxOldRows
           /\ \A r, q \in rows1 : RowKey(n, r) = RowKey(n, q) => r = q
BY DEF EvidenceOf

\* A rebuild has no more rows than there were.
LEMMA FewerRows ==
    ASSUME NEW S, IsFiniteSet(S), Cardinality(S) <= MaxOldRows, NEW f, DOMAIN f = S
    PROVE  LET T == {f[x] : x \in S}
           IN  IsFiniteSet(T) /\ Cardinality(T) <= MaxOldRows
<1> DEFINE T == {f[x] : x \in S}
           g == [x \in S |-> f[x]]
<1>1. g \in Surjection(S, T)
    BY DEF Surjection
<1>2. IsFiniteSet(T) /\ Cardinality(T) <= Cardinality(S)
    BY <1>1, FS_Surjection
<1>3. Cardinality(T) \in Nat /\ Cardinality(S) \in Nat
    BY <1>2, FS_CardinalityType
<1> HIDE DEF T, g
<1>4. Cardinality(T) <= MaxOldRows
    BY <1>2, <1>3
<1> QED
    BY <1>2, <1>4 DEF T

-----------------------------------------------------------------------------
(* What each migration does to a database of the schema before it.         *)

ListedAs == IF launch.read = 0 /\ FreshShortcut # "none" THEN FreshShortcut
          ELSE IF disk.settings["shortcut"] = "" THEN "right-command"
          ELSE disk.settings["shortcut"]
Introduced == IF launch.read = 0 THEN "not_started" ELSE "completed"
Themed == IF launch.read = 0 THEN "saymore" ELSE disk.settings["theme"]
Rethemed == IF disk.settings["theme"] = "clear-sky" THEN "sunlit-gold"
            ELSE disk.settings["theme"]

SettingsBy(n, settings) ==
    /\ DOMAIN settings = ColumnsUpTo(n)
    /\ \A c \in ColumnsUpTo(n - 1) : c = "theme" \/ settings[c] = disk.settings[c]
    /\ n >= 16 /\ n \notin {18, 19} => settings["theme"] = disk.settings["theme"]
    /\ n = 12 => settings["shortcuts"] = ListedAs
    /\ n = 13 => settings["onboarding"] = Introduced
    /\ n = 15 => settings["theme"] = "lime-pulse"
    /\ n = 18 => settings["theme"] = Themed
    /\ n = 19 => settings["theme"] = Rethemed

RowsBy(n) ==
    /\ disk'.rows \in EvidenceOf(n)
    /\ \A d \in Witnesses : Spoke(d, disk'.rows) <=> Spoke(d, disk.rows)
    /\ n >= 24 => disk'.rows = disk.rows
    /\ n = 23 => \A r \in disk'.rows : r.grade = "uncertain"

MigratedBy(n) ==
    /\ launch.at = "migrating" /\ launch.read < n /\ disk.version = n - 1
    /\ UNCHANGED <<launch, found, interrupted>>
    /\ disk'.version = n
    /\ disk'.tables = TablesUpTo(n)
    /\ SettingsBy(n, disk'.settings) /\ RowsBy(n)

\* The frame of a migration.
LEMMA MigrateFacts ==
    ASSUME NEW n \in 1..25, NEW settings, NEW tables, NEW rows1,
           Migrate(n, settings, tables, rows1)
    PROVE  /\ launch.at = "migrating" /\ launch.read < n /\ disk.version = n - 1
           /\ UNCHANGED <<launch, found, interrupted>>
           /\ disk'.version = n /\ disk'.settings = settings
           /\ disk'.tables = tables /\ disk'.rows = rows1
BY DEF Migrate

\* The rows of a migration that leaves them alone.
LEMMA RowsStay ==
    ASSUME NEW n \in 1..25, n \notin {5, 22, 23}, DatabaseForm(disk), disk.version = n - 1,
           disk'.rows = disk.rows
    PROVE  RowsBy(n)
<1>1. disk.rows \in EvidenceOf(n - 1)
    BY DEF DatabaseForm
<1>2. disk.rows \in EvidenceOf(n)
    <2>1. n # 3 => disk.rows \in EvidenceOf(n)
        BY <1>1, EvidenceSame
    <2>2. ASSUME n = 3
          PROVE  disk.rows \in EvidenceOf(n)
        <3>1. disk.rows \in EvidenceOf(2)
            BY <1>1, <2>2
        <3>2. disk.rows = {}
            BY <3>1, NoEvidence
        <3> QED
            BY <3>2, EmptyEvidence
    <2> QED
        BY <2>1, <2>2
<1> QED
    BY <1>2 DEF RowsBy, Spoke

\* Migrations of settings and tables.
LEMMA SettingsChange ==
    ASSUME NEW n \in 1..25, n \notin {5, 22, 23}, DatabaseForm(disk), NEW settings,
           ChangeSettings(n, settings), SettingsBy(n, settings)
    PROVE  MigratedBy(n)
<1>1. Migrate(n, settings, disk.tables \cup TablesOf(n), disk.rows)
    BY DEF ChangeSettings
<1>2. /\ launch.at = "migrating" /\ launch.read < n /\ disk.version = n - 1
      /\ UNCHANGED <<launch, found, interrupted>>
      /\ disk'.version = n /\ disk'.settings = settings
      /\ disk'.tables = disk.tables \cup TablesOf(n) /\ disk'.rows = disk.rows
    BY <1>1, MigrateFacts
<1>3. disk'.tables = TablesUpTo(n)
    BY <1>2, TablesGrow DEF DatabaseForm
<1>4. RowsBy(n)
    BY <1>2, RowsStay
<1> QED
    BY <1>2, <1>3, <1>4 DEF MigratedBy

\* Columns are added, all of those of the version.
LEMMA ColumnsAdded ==
    ASSUME NEW n \in 1..25, n \notin {5, 12, 13, 18, 19, 22, 23}, DatabaseForm(disk),
           AddColumns(n)
    PROVE  MigratedBy(n)
<1> DEFINE settings == Extended(disk.settings, Given(ColumnsOf(n)))
<1>1. ChangeSettings(n, settings)
    BY DEF AddColumns
<1>2. disk.version = n - 1
    BY <1>1, MigrateFacts DEF ChangeSettings
<1>3. DOMAIN disk.settings = ColumnsUpTo(n - 1)
    BY <1>2 DEF DatabaseForm
<1> DEFINE added == Given(ColumnsOf(n))
<1>9. DOMAIN added = ColumnsOf(n) /\ \A c \in ColumnsOf(n) : added[c] = Columns[c].value
    BY GivenIs
<1>10. ColumnsUpTo(n) = ColumnsUpTo(n - 1) \cup ColumnsOf(n)
    BY ColumnsGrow
<1>11. /\ DOMAIN settings = DOMAIN disk.settings \cup DOMAIN added
       /\ \A c \in DOMAIN disk.settings : settings[c] = disk.settings[c]
       /\ \A c \in DOMAIN added \ DOMAIN disk.settings : settings[c] = added[c]
    BY DEF Extended
<1> HIDE DEF settings, added
<1>4. DOMAIN settings = ColumnsUpTo(n)
    BY <1>3, <1>9, <1>10, <1>11
<1>5. \A c \in ColumnsUpTo(n - 1) : settings[c] = disk.settings[c]
    BY <1>3, <1>11
<1>6. n = 15 => settings["theme"] = "lime-pulse"
    <2>1. ASSUME n = 15
          PROVE  settings["theme"] = "lime-pulse"
        <3>1. "theme" \in ColumnsOf(15) /\ "theme" \notin ColumnsUpTo(14)
            BY NamedColumns DEF ColumnsOf, ColumnsUpTo
        <3>2. "theme" \in DOMAIN added \ DOMAIN disk.settings
            BY <1>3, <1>9, <2>1, <3>1
        <3>3. settings["theme"] = Columns["theme"].value
            BY <1>9, <1>11, <2>1, <3>1, <3>2
        <3> QED
            BY <3>3, NamedColumns
    <2> QED
        BY <2>1
<1>7. SettingsBy(n, settings)
    <2>1. n >= 16 => "theme" \in ColumnsUpTo(n - 1)
        BY NamedColumns DEF ColumnsUpTo
    <2> QED
        BY <1>4, <1>5, <1>6, <2>1 DEF SettingsBy
<1> QED
    BY <1>1, <1>7, SettingsChange

\* Tables are added, or nothing that is followed here.
LEMMA TablesAdded ==
    ASSUME NEW n \in {2, 3, 4, 14, 17, 20, 25}, DatabaseForm(disk), AddTables(n)
    PROVE  MigratedBy(n)
<1>1. ChangeSettings(n, disk.settings)
    BY DEF AddTables
<1>2. disk.version = n - 1
    BY <1>1, MigrateFacts DEF ChangeSettings
<1>3. DOMAIN disk.settings = ColumnsUpTo(n - 1)
    BY <1>2 DEF DatabaseForm
<1>4. ColumnsUpTo(n) = ColumnsUpTo(n - 1)
    <2>1. ColumnsUpTo(n) = ColumnsUpTo(n - 1) \cup ColumnsOf(n)
        BY ColumnsGrow
    <2>2. ColumnsOf(n) = {}
        BY NoColumns
    <2> QED
        BY <2>1, <2>2
<1>5. SettingsBy(n, disk.settings)
    BY <1>3, <1>4 DEF SettingsBy
<1> QED
    BY <1>1, <1>5, SettingsChange

\* One column is added, with a value of its own.
LEMMA OneAdded ==
    ASSUME NEW n \in 1..25, NEW name, ColumnsOf(n) = {name}, name \notin ColumnsUpTo(n - 1),
           DOMAIN disk.settings = ColumnsUpTo(n - 1), NEW added, DOMAIN added = {name}
    PROVE  LET settings == Extended(disk.settings, added)
           IN  /\ DOMAIN settings = ColumnsUpTo(n)
               /\ \A c \in ColumnsUpTo(n - 1) : settings[c] = disk.settings[c]
               /\ settings[name] = added[name]
<1> DEFINE settings == Extended(disk.settings, added)
<1>1. ColumnsUpTo(n) = ColumnsUpTo(n - 1) \cup ColumnsOf(n)
    BY ColumnsGrow
<1>2. /\ DOMAIN settings = DOMAIN disk.settings \cup DOMAIN added
      /\ \A c \in DOMAIN disk.settings : settings[c] = disk.settings[c]
      /\ \A c \in DOMAIN added \ DOMAIN disk.settings : settings[c] = added[c]
    BY DEF Extended
<1> HIDE DEF settings
<1>3. /\ DOMAIN settings = ColumnsUpTo(n)
      /\ \A c \in ColumnsUpTo(n - 1) : settings[c] = disk.settings[c]
      /\ settings[name] = added[name]
    BY <1>1, <1>2
<1> QED
    BY <1>3 DEF settings

LEMMA ShortcutsListed ==
    ASSUME DatabaseForm(disk), AddMultipleDictationShortcuts
    PROVE  MigratedBy(12)
<1> DEFINE one == disk.settings["shortcut"]
           many == IF FreshInstall /\ FreshShortcut # "none" THEN FreshShortcut
                   ELSE IF one = "" THEN Columns["shortcuts"].value ELSE one
           added == [shortcuts |-> many]
           settings == Extended(disk.settings, added)
<1>1. ChangeSettings(12, settings)
    BY DEF AddMultipleDictationShortcuts
<1>2. disk.version = 11
    <2>1. disk.version = 12 - 1
        BY <1>1 DEF ChangeSettings, Migrate
    <2> QED
        BY <2>1
<1>3. DOMAIN disk.settings = ColumnsUpTo(11)
    BY <1>2 DEF DatabaseForm
<1>4. "shortcuts" \notin ColumnsUpTo(11)
    BY NamedColumns DEF ColumnsUpTo
<1>5. DOMAIN added = {"shortcuts"} /\ added["shortcuts"] = many
    OBVIOUS
<1>6. many = ListedAs
    BY NamedColumns DEF FreshInstall, ListedAs
<1> HIDE DEF added, many
<1>7. /\ DOMAIN settings = ColumnsUpTo(12)
      /\ \A c \in ColumnsUpTo(11) : settings[c] = disk.settings[c]
      /\ settings["shortcuts"] = added["shortcuts"]
    <2>1. 12 \in 1..25 /\ 12 - 1 = 11
        OBVIOUS
    <2>2. ColumnsOf(12) = {"shortcuts"}
        BY OneColumn
    <2>3. "shortcuts" \notin ColumnsUpTo(12 - 1) /\ DOMAIN disk.settings = ColumnsUpTo(12 - 1)
        BY <1>3, <1>4, <2>1
    <2>4. /\ DOMAIN settings = ColumnsUpTo(12)
          /\ \A c \in ColumnsUpTo(12 - 1) : settings[c] = disk.settings[c]
          /\ settings["shortcuts"] = added["shortcuts"]
        BY <1>5, <2>1, <2>2, <2>3, OneAdded
    <2> QED
        BY <2>1, <2>4
<1> HIDE DEF settings
<1>8. SettingsBy(12, settings)
    BY <1>5, <1>6, <1>7 DEF SettingsBy
<1> QED
    BY <1>1, <1>8, SettingsChange

LEMMA OnboardingAdded ==
    ASSUME DatabaseForm(disk), AddOnboardingState
    PROVE  MigratedBy(13)
<1> DEFINE state == IF FreshInstall THEN "not_started" ELSE "completed"
           added == [onboarding |-> state]
           settings == Extended(disk.settings, added)
<1>1. ChangeSettings(13, settings)
    BY DEF AddOnboardingState
<1>2. disk.version = 12
    <2>1. disk.version = 13 - 1
        BY <1>1 DEF ChangeSettings, Migrate
    <2> QED
        BY <2>1
<1>3. DOMAIN disk.settings = ColumnsUpTo(12)
    BY <1>2 DEF DatabaseForm
<1>4. "onboarding" \notin ColumnsUpTo(12)
    BY NamedColumns DEF ColumnsUpTo
<1>5. DOMAIN added = {"onboarding"} /\ added["onboarding"] = state
    OBVIOUS
<1>6. state = Introduced
    BY DEF FreshInstall, Introduced
<1> HIDE DEF added, state
<1>7. /\ DOMAIN settings = ColumnsUpTo(13)
      /\ \A c \in ColumnsUpTo(12) : settings[c] = disk.settings[c]
      /\ settings["onboarding"] = added["onboarding"]
    <2>1. 13 \in 1..25 /\ 13 - 1 = 12
        OBVIOUS
    <2>2. ColumnsOf(13) = {"onboarding"}
        BY OneColumn
    <2>3. "onboarding" \notin ColumnsUpTo(13 - 1) /\ DOMAIN disk.settings = ColumnsUpTo(13 - 1)
        BY <1>3, <1>4, <2>1
    <2>4. /\ DOMAIN settings = ColumnsUpTo(13)
          /\ \A c \in ColumnsUpTo(13 - 1) : settings[c] = disk.settings[c]
          /\ settings["onboarding"] = added["onboarding"]
        BY <1>5, <2>1, <2>2, <2>3, OneAdded
    <2> QED
        BY <2>1, <2>4
<1> HIDE DEF settings
<1>8. SettingsBy(13, settings)
    BY <1>5, <1>6, <1>7 DEF SettingsBy
<1> QED
    BY <1>1, <1>8, SettingsChange

\* The table of settings made anew has the columns there were.
LEMMA RebuiltIs ==
    ASSUME NEW n \in {18, 19}, NEW settings, DOMAIN settings = ColumnsUpTo(n - 1), NEW theme
    PROVE  /\ DOMAIN Rebuilt(settings, theme) = ColumnsUpTo(n)
           /\ \A c \in ColumnsUpTo(n - 1) : c # "theme" =>
                Rebuilt(settings, theme)[c] = settings[c]
           /\ Rebuilt(settings, theme)["theme"] = theme
<1>1. ColumnsUpTo(16) = ColumnsUpTo(17)
    <2>1. ColumnsUpTo(17) = ColumnsUpTo(16) \cup ColumnsOf(17)
        BY ColumnsGrow
    <2> QED
        BY <2>1, NoColumns
<1>2. ColumnsUpTo(17) = ColumnsUpTo(18)
    <2>1. ColumnsUpTo(18) = ColumnsUpTo(17) \cup ColumnsOf(18)
        BY ColumnsGrow
    <2> QED
        BY <2>1, NoColumns
<1>3. ColumnsUpTo(18) = ColumnsUpTo(19)
    <2>1. ColumnsUpTo(19) = ColumnsUpTo(18) \cup ColumnsOf(19)
        BY ColumnsGrow
    <2> QED
        BY <2>1, NoColumns
<1>4. "theme" \in ColumnsUpTo(16)
    BY NamedColumns DEF ColumnsUpTo
<1>5. ColumnsUpTo(n) = ColumnsUpTo(16) /\ ColumnsUpTo(n - 1) = ColumnsUpTo(16)
    BY <1>1, <1>2, <1>3
<1> QED
    BY <1>4, <1>5 DEF Rebuilt

LEMMA ThemeRebuilt ==
    ASSUME NEW n \in {18, 19}, DatabaseForm(disk), NEW theme,
           ChangeSettings(n, Rebuilt(disk.settings, theme)),
           n = 18 => theme = Themed, n = 19 => theme = Rethemed
    PROVE  MigratedBy(n)
<1>1. disk.version = n - 1
    BY DEF ChangeSettings, Migrate
<1>2. DOMAIN disk.settings = ColumnsUpTo(n - 1)
    BY <1>1 DEF DatabaseForm
<1> DEFINE settings == Rebuilt(disk.settings, theme)
<1>3. /\ DOMAIN settings = ColumnsUpTo(n)
      /\ \A c \in ColumnsUpTo(n - 1) : c # "theme" => settings[c] = disk.settings[c]
      /\ settings["theme"] = theme
    BY <1>2, RebuiltIs
<1>4. ChangeSettings(n, settings)
    OBVIOUS
<1> HIDE DEF settings
<1>5. SettingsBy(n, settings)
    BY <1>3 DEF SettingsBy
<1> QED
    BY <1>4, <1>5, SettingsChange

\* A rebuild of the rows that leaves each its dictation.
LEMMA RowsChange ==
    ASSUME NEW n \in {5, 22, 23}, DatabaseForm(disk), NEW f, DOMAIN f = disk.rows,
           ChangeRows(n, {f[r] : r \in disk.rows}),
           \A r \in disk.rows : f[r] \in EvidenceRow(n) /\ f[r].dictation = r.dictation,
           \A r, q \in disk.rows : RowKey(n, f[r]) = RowKey(n, f[q]) => f[r] = f[q],
           n = 23 => \A r \in disk.rows : f[r].grade = "uncertain"
    PROVE  MigratedBy(n)
<1> DEFINE made1 == {f[r] : r \in disk.rows}
<1>1. Migrate(n, disk.settings, disk.tables, made1)
    BY DEF ChangeRows
<1>2. /\ launch.at = "migrating" /\ launch.read < n /\ disk.version = n - 1
      /\ UNCHANGED <<launch, found, interrupted>>
      /\ disk'.version = n /\ disk'.settings = disk.settings
      /\ disk'.tables = disk.tables /\ disk'.rows = made1
    BY <1>1, MigrateFacts
<1>3. disk'.tables = TablesUpTo(n)
    <2>1. TablesUpTo(n) = TablesUpTo(n - 1) \cup TablesOf(n)
        BY TablesGrow
    <2>2. TablesOf(n) = {}
        BY NoTables
    <2>3. disk.tables = TablesUpTo(n - 1)
        BY <1>2 DEF DatabaseForm
    <2> QED
        BY <1>2, <2>1, <2>2, <2>3
<1>4. SettingsBy(n, disk'.settings)
    <2>1. ColumnsUpTo(n) = ColumnsUpTo(n - 1) \cup ColumnsOf(n)
        BY ColumnsGrow
    <2>2. ColumnsOf(n) = {}
        BY NoColumns
    <2>3. DOMAIN disk.settings = ColumnsUpTo(n - 1)
        BY <1>2 DEF DatabaseForm
    <2> QED
        BY <1>2, <2>1, <2>2, <2>3 DEF SettingsBy
<1>5. IsFiniteSet(made1) /\ Cardinality(made1) <= MaxOldRows
    <2>1. disk.rows \in EvidenceOf(n - 1)
        BY <1>2 DEF DatabaseForm
    <2>2. IsFiniteSet(disk.rows) /\ Cardinality(disk.rows) <= MaxOldRows
        BY <2>1, EvidenceIs
    <2> QED
        BY <2>2, FewerRows
<1>6. made1 \in EvidenceOf(n)
    <2>1. made1 \in SUBSET EvidenceRow(n)
        OBVIOUS
    <2>2. \A r, q \in made1 : RowKey(n, r) = RowKey(n, q) => r = q
        OBVIOUS
    <2> HIDE DEF made1
    <2> QED
        BY <1>5, <2>1, <2>2 DEF EvidenceOf
<1>7. \A d \in Witnesses : Spoke(d, made1) <=> Spoke(d, disk.rows)
    BY DEF Spoke
<1>8. n = 23 => \A r \in made1 : r.grade = "uncertain"
    OBVIOUS
<1> HIDE DEF made1
<1>9. RowsBy(n)
    BY <1>2, <1>6, <1>7, <1>8 DEF RowsBy
<1> QED
    BY <1>2, <1>3, <1>4, <1>9 DEF MigratedBy

RowOf(d, v, k, g) == [dictation |-> d, variant |-> v, kind |-> k, grade |-> g]

LEMMA RowFields ==
    \A d, v, k, g :
        /\ RowOf(d, v, k, g).dictation = d /\ RowOf(d, v, k, g).grade = g
        /\ \A n \in {5, 22} : RowKey(n, RowOf(d, v, k, g)) = <<d, v, k>>
        /\ RowKey(23, RowOf(d, v, k, g)) = <<d>>
<1>1. ASSUME NEW d, NEW v, NEW k, NEW g
      PROVE  /\ RowOf(d, v, k, g).dictation = d /\ RowOf(d, v, k, g).grade = g
             /\ \A n \in {5, 22} : RowKey(n, RowOf(d, v, k, g)) = <<d, v, k>>
             /\ RowKey(23, RowOf(d, v, k, g)) = <<d>>
    BY DEF RowOf, RowKey
<1> QED
    BY <1>1

Regraded(r, k1) == [r EXCEPT !.kind = k1, !.grade = "uncertain"]

LEMMA RowGraded ==
    ASSUME NEW r, NEW d, NEW v, NEW k, NEW g, NEW k1, r = RowOf(d, v, k, g)
    PROVE  Regraded(r, k1) = RowOf(d, v, k1, "uncertain")
<1> DEFINE one == [r EXCEPT !.kind = k1]
<1>1. one = RowOf(d, v, k1, g)
    BY DEF RowOf
<1>2. Regraded(r, k1) = [one EXCEPT !.grade = "uncertain"]
    BY DEF Regraded
<1> HIDE DEF one
<1>3. [one EXCEPT !.grade = "uncertain"] = RowOf(d, v, k1, "uncertain")
    BY <1>1 DEF RowOf
<1> QED
    BY <1>2, <1>3

LEMMA RowIn ==
    ASSUME NEW n, NEW d \in Witnesses, NEW v \in Variants(n), NEW k \in Kinds(n),
           NEW g \in Grades(n)
    PROVE  RowOf(d, v, k, g) \in EvidenceRow(n)
BY DEF RowOf, EvidenceRow

\* The form of a row before a rebuild.
LEMMA RowsBefore ==
    ASSUME NEW n \in {4, 21, 22}, DatabaseForm(disk), disk.version = n, NEW r \in disk.rows
    PROVE  /\ r = RowOf(r.dictation, r.variant, r.kind, r.grade)
           /\ r.dictation \in Witnesses
           /\ r.variant \in Variants(n) /\ r.kind \in Kinds(n)
           /\ r.grade \in Grades(n)
<1>1. disk.rows \in EvidenceOf(n)
    BY DEF DatabaseForm
<1>2. r \in EvidenceRow(n)
    BY <1>1, EvidenceIs
<1> QED
    BY <1>2 DEF EvidenceRow, RowOf

LEMMA VariantsGone ==
    ASSUME DatabaseForm(disk), RemoveDictionaryVariantMappings
    PROVE  MigratedBy(5)
<1> DEFINE f == [r \in disk.rows |-> [r EXCEPT !.variant = "none"]]
<1>1. disk.version = 4
    <2>1. disk.version = 5 - 1
        BY DEF RemoveDictionaryVariantMappings, ChangeRows, Migrate
    <2> QED
        BY <2>1
<1>2. {[r EXCEPT !.variant = "none"] : r \in disk.rows} = {f[r] : r \in disk.rows}
    OBVIOUS
<1>3. ChangeRows(5, {f[r] : r \in disk.rows})
    BY <1>2 DEF RemoveDictionaryVariantMappings
<1>4. \A r \in disk.rows :
        /\ r.dictation \in Witnesses
        /\ f[r] = RowOf(r.dictation, "none", "none", "none")
    <2>1. ASSUME NEW r \in disk.rows
          PROVE  /\ r = RowOf(r.dictation, r.variant, "none", "none")
                 /\ r.dictation \in Witnesses
        <3>1. Kinds(4) = {"none"} /\ Grades(4) = {"none"}
            BY DEF Kinds, Grades
        <3> QED
            BY <1>1, <3>1, RowsBefore
    <2>2. ASSUME NEW r \in disk.rows
          PROVE  f[r] = RowOf(r.dictation, "none", "none", "none")
        <3>1. f[r] = [r EXCEPT !.variant = "none"]
            OBVIOUS
        <3> HIDE DEF f
        <3> QED
            BY <2>1, <3>1 DEF RowOf
    <2> QED
        BY <2>1, <2>2
<1>5. DOMAIN f = disk.rows
    OBVIOUS
<1> HIDE DEF f
<1>6. Variants(5) = {"none"} /\ Kinds(5) = {"none"} /\ Grades(5) = {"none"}
    BY DEF Variants, Kinds, Grades
<1>7. \A r \in disk.rows : f[r] \in EvidenceRow(5) /\ f[r].dictation = r.dictation
    BY <1>4, <1>6, RowFields, RowIn
<1>8. \A r, q \in disk.rows : RowKey(5, f[r]) = RowKey(5, f[q]) => f[r] = f[q]
    BY <1>4, RowFields
<1> QED
    BY <1>3, <1>5, <1>7, <1>8, RowsChange

LEMMA KindsGiven ==
    ASSUME DatabaseForm(disk), SeparateDictionaryEvidenceKinds
    PROVE  MigratedBy(22)
<1> DEFINE f == [r \in disk.rows |-> [r EXCEPT !.kind = "user_revision"]]
<1>1. disk.version = 21
    <2>1. disk.version = 22 - 1
        BY DEF SeparateDictionaryEvidenceKinds, ChangeRows, Migrate
    <2> QED
        BY <2>1
<1>2. {[r EXCEPT !.kind = "user_revision"] : r \in disk.rows} = {f[r] : r \in disk.rows}
    OBVIOUS
<1>3. ChangeRows(22, {f[r] : r \in disk.rows})
    BY <1>2 DEF SeparateDictionaryEvidenceKinds
<1>4. \A r \in disk.rows :
        /\ r.dictation \in Witnesses
        /\ f[r] = RowOf(r.dictation, "none", "user_revision", "none")
    <2>1. ASSUME NEW r \in disk.rows
          PROVE  /\ r = RowOf(r.dictation, "none", "none", "none")
                 /\ r.dictation \in Witnesses
        <3>1. Variants(21) = {"none"} /\ Kinds(21) = {"none"} /\ Grades(21) = {"none"}
            BY DEF Variants, Kinds, Grades
        <3> QED
            BY <1>1, <3>1, RowsBefore
    <2>2. ASSUME NEW r \in disk.rows
          PROVE  f[r] = RowOf(r.dictation, "none", "user_revision", "none")
        BY <2>1 DEF RowOf
    <2> QED
        BY <2>1, <2>2
<1>5. DOMAIN f = disk.rows
    OBVIOUS
<1> HIDE DEF f
<1>6. Variants(22) = {"none"} /\ "user_revision" \in Kinds(22) /\ Grades(22) = {"none"}
    BY DEF Variants, Kinds, Grades
<1>7. \A r \in disk.rows : f[r] \in EvidenceRow(22) /\ f[r].dictation = r.dictation
    BY <1>4, <1>6, RowFields, RowIn
<1>8. \A r, q \in disk.rows : RowKey(22, f[r]) = RowKey(22, f[q]) => f[r] = f[q]
    BY <1>4, RowFields
<1> QED
    BY <1>3, <1>5, <1>7, <1>8, RowsChange

\* Rows of one dictation get one kind and one grade, and so are one row.
LEMMA EvidenceOnce ==
    ASSUME DatabaseForm(disk), MakeDictionaryEvidenceIdempotent
    PROVE  MigratedBy(23)
<1> DEFINE KindOf(d) ==
             IF \E r \in disk.rows : r.dictation = d /\ r.kind = "user_revision"
             THEN "user_revision" ELSE "vocabulary_suggestion"
           f == [r \in disk.rows |->
                   [r EXCEPT !.kind = KindOf(r.dictation), !.grade = "uncertain"]]
<1>1. disk.version = 22
    <2>1. disk.version = 23 - 1
        BY DEF MakeDictionaryEvidenceIdempotent, ChangeRows, Migrate
    <2> QED
        BY <2>1
<1>2. {[r EXCEPT !.kind = KindOf(r.dictation), !.grade = "uncertain"] : r \in disk.rows}
        = {f[r] : r \in disk.rows}
    <2> HIDE DEF KindOf
    <2> QED
        OBVIOUS
<1>3. ChangeRows(23, {f[r] : r \in disk.rows})
    <2>1. ChangeRows(23, {[r EXCEPT !.kind = KindOf(r.dictation), !.grade = "uncertain"] :
                             r \in disk.rows})
        BY DEF MakeDictionaryEvidenceIdempotent
    <2> HIDE DEF f, KindOf
    <2> QED
        BY <1>2, <2>1
<1>4. \A d : KindOf(d) \in {"user_revision", "vocabulary_suggestion"}
    OBVIOUS
<1> HIDE DEF KindOf
<1>5. \A r \in disk.rows :
        /\ r.dictation \in Witnesses
        /\ f[r] = RowOf(r.dictation, "none", KindOf(r.dictation), "uncertain")
    <2>1. ASSUME NEW r \in disk.rows
          PROVE  /\ r = RowOf(r.dictation, "none", r.kind, "none")
                 /\ r.dictation \in Witnesses
        <3>1. Variants(22) = {"none"} /\ Grades(22) = {"none"}
            BY DEF Variants, Grades
        <3> QED
            BY <1>1, <3>1, RowsBefore
    <2>2. ASSUME NEW r \in disk.rows
          PROVE  f[r] = RowOf(r.dictation, "none", KindOf(r.dictation), "uncertain")
        <3>1. f[r] = [r EXCEPT !.kind = KindOf(r.dictation), !.grade = "uncertain"]
            OBVIOUS
        <3> HIDE DEF f
        <3> DEFINE k == KindOf(r.dictation)
        <3>2. f[r] = Regraded(r, k)
            BY <3>1 DEF Regraded
        <3> HIDE DEF k
        <3>3. r = RowOf(r.dictation, "none", r.kind, "none")
            BY <2>1
        <3>4. Regraded(r, k) = RowOf(r.dictation, "none", k, "uncertain")
            BY <3>3, RowGraded
        <3>5. f[r] = RowOf(r.dictation, "none", k, "uncertain")
            BY <3>2, <3>4
        <3> QED
            BY <3>5 DEF k
    <2> QED
        BY <2>1, <2>2
<1>6. DOMAIN f = disk.rows
    OBVIOUS
<1> HIDE DEF f
<1>7. /\ Variants(23) = {"none"} /\ "uncertain" \in Grades(23)
      /\ Kinds(23) = {"user_revision", "vocabulary_suggestion"}
    BY DEF Variants, Kinds, Grades
<1>8. \A r \in disk.rows : f[r] \in EvidenceRow(23) /\ f[r].dictation = r.dictation
    <2>1. ASSUME NEW r \in disk.rows
          PROVE  f[r] \in EvidenceRow(23) /\ f[r].dictation = r.dictation
        <3>1. KindOf(r.dictation) \in Kinds(23)
            BY <1>4, <1>7
        <3>2. RowOf(r.dictation, "none", KindOf(r.dictation), "uncertain") \in EvidenceRow(23)
            BY <1>5, <1>7, <3>1, RowIn
        <3> QED
            BY <1>5, <3>2, RowFields
    <2> QED
        BY <2>1
<1>9. \A r, q \in disk.rows : RowKey(23, f[r]) = RowKey(23, f[q]) => f[r] = f[q]
    BY <1>5, RowFields
<1>10. \A r \in disk.rows : f[r].grade = "uncertain"
    BY <1>5, RowFields
<1> QED
    BY <1>3, <1>6, <1>8, <1>9, <1>10, RowsChange

\* Every migration brings the schema to the next version.
LEMMA MigrationIs ==
    ASSUME DatabaseForm(disk), ApplyInitialMigrations \/ ApplyRecentMigrations
    PROVE  \E n \in 1..25 : MigratedBy(n)
<1>1. CASE MigrateSettings
    BY <1>1, ColumnsAdded DEF MigrateSettings
<1>2. CASE MigrateHistory
    BY <1>2, TablesAdded DEF MigrateHistory
<1>3. CASE MigrateDictionaryAndModels
    BY <1>3, TablesAdded DEF MigrateDictionaryAndModels
<1>4. CASE PreserveDictionaryTokenBoundaries
    BY <1>4, TablesAdded DEF PreserveDictionaryTokenBoundaries
<1>5. CASE RemoveDictionaryVariantMappings
    BY <1>5, VariantsGone
<1>6. CASE AddPreferredMicrophone
    BY <1>6, ColumnsAdded DEF AddPreferredMicrophone
<1>7. CASE AddDiagnosticsLogging
    BY <1>7, ColumnsAdded DEF AddDiagnosticsLogging
<1>8. CASE AddUiLanguage
    BY <1>8, ColumnsAdded DEF AddUiLanguage
<1>9. CASE AddRuntimePreferences
    BY <1>9, ColumnsAdded DEF AddRuntimePreferences
<1>10. CASE AddDesktopBehavior
    BY <1>10, ColumnsAdded DEF AddDesktopBehavior
<1>11. CASE AddDictationShortcut
    BY <1>11, ColumnsAdded DEF AddDictationShortcut
<1>12. CASE AddMultipleDictationShortcuts
    BY <1>12, ShortcutsListed
<1>13. CASE AddOnboardingState
    BY <1>13, OnboardingAdded
<1>14. CASE AddDictionaryCandidateEvidence
    BY <1>14, TablesAdded DEF AddDictionaryCandidateEvidence
<1>15. CASE AddAppearanceSettings
    BY <1>15, ColumnsAdded DEF AddAppearanceSettings
<1>16. CASE AddSystemAudioMute
    BY <1>16, ColumnsAdded DEF AddSystemAudioMute
<1>17. CASE AddDiagnosticEvents
    BY <1>17, TablesAdded DEF AddDiagnosticEvents
<1>18. CASE AddSaymoreTheme
    <2> DEFINE theme == IF FreshInstall THEN "saymore" ELSE disk.settings["theme"]
    <2>1. ChangeSettings(18, Rebuilt(disk.settings, theme))
        BY <1>18 DEF AddSaymoreTheme
    <2>2. theme = Themed
        BY DEF FreshInstall, Themed
    <2> HIDE DEF theme
    <2> QED
        BY <2>1, <2>2, ThemeRebuilt
<1>19. CASE ReplaceClearSkyTheme
    <2> DEFINE old == disk.settings["theme"]
               theme == IF old = "clear-sky" THEN "sunlit-gold" ELSE old
    <2>1. ChangeSettings(19, Rebuilt(disk.settings, theme))
        BY <1>19 DEF ReplaceClearSkyTheme
    <2>2. theme = Rethemed
        BY DEF Rethemed
    <2> HIDE DEF theme
    <2> QED
        BY <2>1, <2>2, ThemeRebuilt
<1>20. CASE AddUsageAggregates
    BY <1>20, TablesAdded DEF AddUsageAggregates
<1>21. CASE AddDictionaryAssist
    BY <1>21, ColumnsAdded DEF AddDictionaryAssist
<1>22. CASE SeparateDictionaryEvidenceKinds
    BY <1>22, KindsGiven
<1>23. CASE MakeDictionaryEvidenceIdempotent
    BY <1>23, EvidenceOnce
<1>24. CASE AddDictionaryAssistConsent
    BY <1>24, ColumnsAdded DEF AddDictionaryAssistConsent
<1>25. CASE AddModelDownloadQueue
    BY <1>25, TablesAdded DEF AddModelDownloadQueue
<1> QED
    BY <1>1, <1>2, <1>3, <1>4, <1>5, <1>6, <1>7, <1>8, <1>9, <1>10, <1>11, <1>12, <1>13,
       <1>14, <1>15, <1>16, <1>17, <1>18, <1>19, <1>20, <1>21, <1>22, <1>23, <1>24, <1>25
    DEF ApplyInitialMigrations, ApplyRecentMigrations

-----------------------------------------------------------------------------
(* The invariant is inductive.                                             *)

\* A column of an older schema is a column of every later one.
LEMMA FoundColumns ==
    ASSUME MigrationsInv, NEW n \in Nat, found.version <= n
    PROVE  DOMAIN found.settings \subseteq ColumnsUpTo(n)
BY ColumnsRise DEF MigrationsInv, DatabaseForm

LEMMA InvAfterMigration ==
    ASSUME MigrationsInv, NEW n \in 1..25, MigratedBy(n)
    PROVE  MigrationsInv'
<1> USE DEF MigrationsInv
<1>1. /\ launch.at = "migrating" /\ launch.read < n /\ disk.version = n - 1
      /\ launch' = launch /\ found' = found /\ interrupted' = interrupted
      /\ disk'.version = n /\ disk'.tables = TablesUpTo(n)
    BY DEF MigratedBy
<1>2. /\ DOMAIN disk'.settings = ColumnsUpTo(n)
      /\ \A c \in ColumnsUpTo(n - 1) :
            c = "theme" \/ disk'.settings[c] = disk.settings[c]
      /\ n >= 16 /\ n \notin {18, 19} => disk'.settings["theme"] = disk.settings["theme"]
      /\ n = 12 => disk'.settings["shortcuts"] = ListedAs
      /\ n = 13 => disk'.settings["onboarding"] = Introduced
      /\ n = 15 => disk'.settings["theme"] = "lime-pulse"
      /\ n = 18 => disk'.settings["theme"] = Themed
      /\ n = 19 => disk'.settings["theme"] = Rethemed
    BY DEF MigratedBy, SettingsBy
<1>3. /\ disk'.rows \in EvidenceOf(n)
      /\ \A d \in Witnesses : Spoke(d, disk'.rows) <=> Spoke(d, disk.rows)
      /\ n >= 24 => disk'.rows = disk.rows
      /\ n = 23 => \A r \in disk'.rows : r.grade = "uncertain"
    BY DEF MigratedBy, RowsBy
<1>4. /\ found.version \in Nat /\ found.version <= n - 1 /\ launch.read \in Nat
      /\ found.version <= launch.read
    BY <1>1 DEF DatabaseForm, VersionInv, LaunchForm
<1>5. DatabaseForm(disk') /\ DatabaseForm(found')
    BY <1>1, <1>2, <1>3 DEF DatabaseForm
<1>6. LaunchForm'
    BY <1>1 DEF LaunchForm
<1>7. VersionInv'
    BY <1>1, <1>4 DEF VersionInv
<1>8. ClearSkyInv'
    BY <1>1 DEF ClearSkyInv
<1>9. {"shortcut", "shortcuts", "onboarding", "theme"} \subseteq DOMAIN Columns
    BY NamedColumns
<1>10. /\ n >= 12 => "shortcut" \in ColumnsUpTo(n - 1)
       /\ n >= 13 => "shortcuts" \in ColumnsUpTo(n - 1)
       /\ n >= 14 => "onboarding" \in ColumnsUpTo(n - 1)
    BY NamedColumns DEF ColumnsUpTo
<1>11. /\ n >= 12 => disk'.settings["shortcut"] = disk.settings["shortcut"]
       /\ n >= 13 => disk'.settings["shortcuts"] = disk.settings["shortcuts"]
       /\ n >= 14 => disk'.settings["onboarding"] = disk.settings["onboarding"]
    BY <1>2, <1>10
<1>12. SettingsKept'
    <2> SUFFICES ASSUME NEW c \in DOMAIN found.settings
                 PROVE  disk'.settings[c] =
                            IF found.settings[c] = "clear-sky" /\ n \in 19..25
                            THEN "sunlit-gold" ELSE found.settings[c]
        BY <1>1 DEF SettingsKept
    <2>1. c \in ColumnsUpTo(n - 1)
        BY <1>4, FoundColumns
    <2>2. disk.settings[c] = IF found.settings[c] = "clear-sky" /\ n - 1 \in 19..25
                             THEN "sunlit-gold" ELSE found.settings[c]
        BY <1>1 DEF SettingsKept
    <2>3. found.settings[c] = "clear-sky" => c = "theme"
        BY DEF ClearSkyInv
    <2>4. c \in ColumnsUpTo(found.version)
        BY DEF DatabaseForm
    <2>5. found.version # 0
        BY <2>4, ColumnsNone
    <2>6. CASE c # "theme"
        BY <1>2, <2>1, <2>2, <2>3, <2>6
    <2>7. CASE c = "theme"
        <3>1. n >= 16
            <4>1. "theme" \in ColumnsUpTo(n - 1)
                BY <2>1, <2>7
            <4> QED
                BY <4>1, NamedColumns DEF ColumnsUpTo
        <3>2. n = 18 => disk'.settings["theme"] = disk.settings["theme"]
            <4>1. launch.read # 0
                BY <1>4, <2>5
            <4> QED
                BY <1>2, <4>1 DEF Themed
        <3>3. CASE n # 19
            <4>1. disk'.settings["theme"] = disk.settings["theme"]
                BY <1>2, <3>1, <3>2, <3>3
            <4>2. n - 1 \in 19..25 <=> n \in 19..25
                BY <3>3
            <4> QED
                BY <2>2, <2>7, <4>1, <4>2
        <3>4. CASE n = 19
            <4>1. n \in 19..25 /\ n - 1 \notin 19..25
                BY <3>4
            <4>2. disk.settings["theme"] = found.settings["theme"]
                BY <2>2, <2>7, <4>1
            <4>3. disk'.settings["theme"] = Rethemed
                BY <1>2, <3>4
            <4> QED
                BY <2>7, <4>1, <4>2, <4>3 DEF Rethemed
        <3> QED
            BY <3>3, <3>4
    <2> QED
        BY <2>6, <2>7
<1>13. OldUserInv'
    <2>1. ASSUME found.version \in 1..11, n >= 12
          PROVE  disk'.settings["shortcuts"] =
                    IF disk'.settings["shortcut"] = "" THEN "right-command"
                    ELSE disk'.settings["shortcut"]
        <3>1. CASE n = 12
            <4>1. launch.read # 0
                BY <1>4, <2>1
            <4>2. ListedAs = IF disk.settings["shortcut"] = "" THEN "right-command"
                             ELSE disk.settings["shortcut"]
                BY <4>1 DEF ListedAs
            <4>3. disk'.settings["shortcut"] = disk.settings["shortcut"]
                BY <1>11, <3>1
            <4>4. disk'.settings["shortcuts"] = ListedAs
                BY <1>2, <3>1
            <4> QED
                BY <4>2, <4>3, <4>4
        <3>2. CASE n # 12
            <4>1. disk.version >= 12
                BY <1>1, <2>1, <3>2
            <4>2. disk.settings["shortcuts"] =
                    IF disk.settings["shortcut"] = "" THEN "right-command"
                    ELSE disk.settings["shortcut"]
                BY <2>1, <4>1 DEF OldUserInv
            <4>3. n >= 13
                BY <2>1, <3>2
            <4> QED
                BY <1>11, <2>1, <4>2, <4>3
        <3> QED
            BY <3>1, <3>2
    <2>2. ASSUME found.version \in 1..12, n >= 13
          PROVE  disk'.settings["onboarding"] = "completed"
        <3>1. CASE n = 13
            <4>1. launch.read # 0
                BY <1>4, <2>2
            <4> QED
                BY <1>2, <3>1, <4>1 DEF Introduced
        <3>2. CASE n # 13
            <4>1. disk.version >= 13 /\ n >= 14
                BY <1>1, <2>2, <3>2
            <4>2. disk.settings["onboarding"] = "completed"
                BY <2>2, <4>1 DEF OldUserInv
            <4> QED
                BY <1>11, <4>1, <4>2
        <3> QED
            BY <3>1, <3>2
    <2>3. ASSUME found.version \in 1..14, n >= 15
          PROVE  disk'.settings["theme"] = "lime-pulse"
        <3>1. CASE n = 15
            BY <1>2, <3>1
        <3>2. CASE n # 15
            <4>1. disk.version >= 15 /\ n >= 16
                BY <1>1, <2>3, <3>2
            <4>2. disk.settings["theme"] = "lime-pulse"
                BY <2>3, <4>1 DEF OldUserInv
            <4>3. launch.read # 0
                BY <1>4, <2>3
            <4>4. Themed = "lime-pulse" /\ Rethemed = "lime-pulse"
                BY <4>2, <4>3 DEF Themed, Rethemed
            <4> QED
                BY <1>2, <4>1, <4>2, <4>4
        <3> QED
            BY <3>1, <3>2
    <2> QED
        BY <1>1, <2>1, <2>2, <2>3 DEF OldUserInv
<1>14. NewUserInv'
    <2> SUFFICES ASSUME found.version = 0, interrupted = 0
                 PROVE  /\ launch.at \in {"migrating", "open"} /\ launch.read = 0
                        /\ n >= 12 /\ FreshShortcut # "none" =>
                             disk'.settings["shortcuts"] = FreshShortcut
                        /\ n >= 13 => disk'.settings["onboarding"] = "not_started"
                        /\ n >= 18 => disk'.settings["theme"] = "saymore"
        BY <1>1 DEF NewUserInv
    <2>1. /\ launch.read = 0
          /\ disk.version >= 12 /\ FreshShortcut # "none" =>
                disk.settings["shortcuts"] = FreshShortcut
          /\ disk.version >= 13 => disk.settings["onboarding"] = "not_started"
          /\ disk.version >= 18 => disk.settings["theme"] = "saymore"
        BY <1>1 DEF NewUserInv
    <2>2. ASSUME n >= 12, FreshShortcut # "none"
          PROVE  disk'.settings["shortcuts"] = FreshShortcut
        <3>1. CASE n = 12
            BY <1>2, <2>1, <2>2, <3>1 DEF ListedAs
        <3>2. CASE n # 12
            <4>1. n >= 13 /\ disk.version >= 12
                BY <1>1, <2>2, <3>2
            <4> QED
                BY <1>11, <2>1, <2>2, <4>1
        <3> QED
            BY <3>1, <3>2
    <2>3. ASSUME n >= 13
          PROVE  disk'.settings["onboarding"] = "not_started"
        <3>1. CASE n = 13
            BY <1>2, <2>1, <3>1 DEF Introduced
        <3>2. CASE n # 13
            <4>1. n >= 14 /\ disk.version >= 13
                BY <1>1, <2>3, <3>2
            <4> QED
                BY <1>11, <2>1, <4>1
        <3> QED
            BY <3>1, <3>2
    <2>4. ASSUME n >= 18
          PROVE  disk'.settings["theme"] = "saymore"
        <3>1. CASE n = 18
            BY <1>2, <2>1, <3>1 DEF Themed
        <3>2. CASE n # 18
            <4>1. n >= 19 /\ disk.version >= 18
                BY <1>1, <2>4, <3>2
            <4>2. Rethemed = "saymore"
                BY <2>1, <4>1 DEF Rethemed
            <4> QED
                BY <1>2, <2>1, <4>1, <4>2
        <3> QED
            BY <3>1, <3>2
    <2> QED
        BY <1>1, <2>1, <2>2, <2>3, <2>4
<1>15. RowsInv'
    <2>1. \A d \in Witnesses : Spoke(d, disk'.rows) <=> Spoke(d, found.rows)
        BY <1>3 DEF RowsInv
    <2>2. found.version >= 23 => disk'.rows = found.rows
        <3>1. found.version >= 23 => n >= 24
            BY <1>4
        <3> QED
            BY <1>3, <3>1 DEF RowsInv
    <2>3. found.version < 23 /\ n >= 23 => \A r \in disk'.rows : r.grade = "uncertain"
        <3>1. n # 23 /\ n >= 23 => n >= 24 /\ disk.version >= 23
            BY <1>1
        <3> QED
            BY <1>3, <3>1 DEF RowsInv
    <2> QED
        BY <1>1, <2>1, <2>2, <2>3 DEF RowsInv, Spoke
<1> QED
    BY <1>1, <1>5, <1>6, <1>7, <1>8, <1>12, <1>13, <1>14, <1>15

\* What was found is of its schema, whatever the application stored in it.
LEMMA FoundForms ==
    ASSUME MigrationsInit
    PROVE  DatabaseForm(disk) /\ ClearSkyInv /\ (disk.version = 0 => disk.settings = <<>>)
<1>1. PICK v \in StartVersions :
        disk \in IF v = 0 THEN {Left(0, <<>>, {})}
                 ELSE {Left(v, Given(ColumnsUpTo(v)), rows1) : rows1 \in EvidenceOf(v)} \cup
                      UNION {{Left(v, [Given(ColumnsUpTo(v)) EXCEPT ![c] = value], {}) :
                                value \in Stored(v, c)} : c \in ColumnsUpTo(v)}
    BY DEF MigrationsInit, Databases
<1>2. v \in Nat /\ found = disk
    BY DEF MigrationsInit
<1>3. CASE v = 0
    <2>1. disk = Left(0, <<>>, {})
        BY <1>1, <1>3
    <2>2. /\ disk.version = 0 /\ disk.settings = <<>> /\ disk.tables = TablesUpTo(0)
          /\ disk.rows = {}
        BY <2>1 DEF Left
    <2>3. DOMAIN disk.settings = {}
        BY <2>2
    <2> QED
        BY <1>2, <2>2, <2>3, ColumnsNone, EmptyEvidence DEF DatabaseForm, ClearSkyInv
<1>4. ASSUME NEW rows1 \in EvidenceOf(v), disk = Left(v, Given(ColumnsUpTo(v)), rows1), v # 0
      PROVE  DatabaseForm(disk) /\ ClearSkyInv /\ disk.version # 0
    <2>1. /\ disk.version = v /\ disk.settings = Given(ColumnsUpTo(v))
          /\ disk.tables = TablesUpTo(v) /\ disk.rows = rows1
        BY <1>4 DEF Left
    <2>2. DatabaseForm(disk)
        BY <1>2, <2>1, GivenIs DEF DatabaseForm
    <2>3. ClearSkyInv
        <3>1. \A c \in DOMAIN Columns : Columns[c].value # "clear-sky"
            BY ColumnsAre, ColumnValues
        <3>2. ColumnsUpTo(v) \subseteq DOMAIN Columns
            BY DEF ColumnsUpTo
        <3> QED
            BY <1>2, <2>1, <3>1, <3>2, GivenIs DEF ClearSkyInv
    <2> QED
        BY <1>4, <2>1, <2>2, <2>3
<1>5. ASSUME NEW c \in ColumnsUpTo(v), NEW value \in Stored(v, c), v # 0,
             disk = Left(v, [Given(ColumnsUpTo(v)) EXCEPT ![c] = value], {})
      PROVE  DatabaseForm(disk) /\ ClearSkyInv /\ disk.version # 0
    <2>1. /\ disk.version = v /\ disk.settings = [Given(ColumnsUpTo(v)) EXCEPT ![c] = value]
          /\ disk.tables = TablesUpTo(v) /\ disk.rows = {}
        BY <1>5 DEF Left
    <2>2. DatabaseForm(disk)
        <3>1. DOMAIN disk.settings = ColumnsUpTo(v)
            BY <2>1, GivenIs
        <3> QED
            BY <1>2, <2>1, <3>1, EmptyEvidence DEF DatabaseForm
    <2>3. ClearSkyInv
        <3>1. \A d \in DOMAIN Columns : Columns[d].value # "clear-sky"
            BY ColumnsAre, ColumnValues
        <3>2. ColumnsUpTo(v) \subseteq DOMAIN Columns
            BY DEF ColumnsUpTo
        <3>3. value = "clear-sky" => c = "theme" /\ v <= 18
            BY <1>2, <3>1, <3>2 DEF Stored
        <3>4. \A d \in ColumnsUpTo(v) :
                disk.settings[d] = IF d = c THEN value ELSE Columns[d].value
            BY <2>1 DEF Given
        <3>5. DOMAIN disk.settings = ColumnsUpTo(v)
            BY <2>1, GivenIs
        <3> QED
            BY <1>2, <2>1, <3>1, <3>2, <3>3, <3>4, <3>5 DEF ClearSkyInv
    <2> QED
        BY <1>5, <2>1, <2>2, <2>3
<1> QED
    BY <1>1, <1>3, <1>4, <1>5

LEMMA InvInitially ==
    ASSUME MigrationsInit
    PROVE  MigrationsInv
<1>1. disk = found /\ launch = NoLaunch /\ interrupted = 0
    BY DEF MigrationsInit
<1>2. DatabaseForm(disk) /\ ClearSkyInv
    BY FoundForms
<1>3. LaunchForm
    BY <1>1 DEF LaunchForm, NoLaunch
<1>4. VersionInv
    BY <1>1, <1>2 DEF VersionInv, NoLaunch, DatabaseForm
<1>5. SettingsKept
    <2> SUFFICES ASSUME NEW c \in DOMAIN found.settings
                 PROVE  found.settings[c] = "clear-sky" => found.version \notin 19..25
        BY <1>1 DEF SettingsKept
    <2> QED
        BY <1>1, <1>2 DEF ClearSkyInv, DatabaseForm
<1>6. OldUserInv
    <2>1. found.version = disk.version /\ disk.version \in Nat
        BY <1>1, <1>2 DEF DatabaseForm
    <2>2. /\ ~(found.version \in 1..11 /\ disk.version >= 12)
          /\ ~(found.version \in 1..12 /\ disk.version >= 13)
          /\ ~(found.version \in 1..14 /\ disk.version >= 15)
        BY <2>1
    <2> QED
        BY <2>2 DEF OldUserInv
<1>7. NewUserInv
    BY <1>1 DEF NewUserInv, NoLaunch
<1>8. RowsInv
    BY <1>1, <1>2 DEF RowsInv, DatabaseForm
<1> QED
    BY <1>1, <1>2, <1>3, <1>4, <1>5, <1>6, <1>7, <1>8 DEF MigrationsInv

\* Launches that begin, end, or are refused leave the database alone.
LEMMA InvAfterLaunch ==
    ASSUME MigrationsInv, OpenDatabase \/ DatabaseOpened \/ Interrupt
    PROVE  MigrationsInv'
<1> USE DEF MigrationsInv
<1>1. disk' = disk /\ found' = found
    BY DEF OpenDatabase, DatabaseOpened, Interrupt
<1>2. /\ DatabaseForm(disk') /\ DatabaseForm(found') /\ ClearSkyInv' /\ SettingsKept'
      /\ OldUserInv' /\ RowsInv'
    BY <1>1 DEF ClearSkyInv, SettingsKept, OldUserInv, RowsInv
<1>3. disk.version \in Nat /\ found.version \in Nat
    BY DEF DatabaseForm
<1>4. CASE OpenDatabase
    <2>1. /\ launch.at = "none" /\ interrupted' = interrupted
          /\ launch' = [at |-> IF disk.version > 25 THEN "refused" ELSE "migrating",
                        read |-> disk.version]
        BY <1>4 DEF OpenDatabase, CurrentSchemaVersion
    <2>2. LaunchForm'
        BY <1>3, <2>1 DEF LaunchForm
    <2>3. VersionInv'
        BY <1>1, <1>3, <2>1 DEF VersionInv
    <2>4. NewUserInv'
        <3> SUFFICES ASSUME found.version = 0, interrupted = 0
                     PROVE  NewUserInv'
            BY <1>1, <2>1 DEF NewUserInv
        <3>1. disk.version = 0
            BY <2>1 DEF NewUserInv
        <3> QED
            BY <1>1, <2>1, <3>1 DEF NewUserInv
    <2> QED
        BY <1>1, <1>2, <2>2, <2>3, <2>4
<1>5. CASE DatabaseOpened
    <2>1. /\ launch.at = "migrating" /\ disk.version = 25 /\ interrupted' = interrupted
          /\ launch'.at = "open" /\ launch'.read = launch.read
          /\ launch' \in [at : {"none", "migrating", "open", "refused"}, read : Nat]
        BY <1>5 DEF DatabaseOpened, CurrentSchemaVersion, LaunchForm
    <2>2. LaunchForm' /\ VersionInv' /\ NewUserInv'
        <3>1. LaunchForm'
            BY <2>1 DEF LaunchForm
        <3>2. VersionInv'
            BY <1>1, <1>3, <2>1 DEF VersionInv
        <3>3. NewUserInv'
            BY <1>1, <2>1 DEF NewUserInv
        <3> QED
            BY <3>1, <3>2, <3>3
    <2> QED
        BY <1>1, <1>2, <2>2
<1>6. CASE Interrupt
    <2>1. /\ launch' = NoLaunch /\ interrupted < MaxInterruptions
          /\ interrupted' = interrupted + 1
        BY <1>6 DEF Interrupt
    <2>2. interrupted \in 0..MaxInterruptions /\ MaxInterruptions \in Nat
        BY DEF LaunchForm
    <2>3. interrupted' \in 0..MaxInterruptions /\ interrupted' # 0
        BY <2>1, <2>2
    <2>4. LaunchForm'
        BY <2>1, <2>3 DEF LaunchForm, NoLaunch
    <2>5. VersionInv'
        BY <1>1, <1>3, <2>1 DEF VersionInv, NoLaunch
    <2>6. NewUserInv'
        BY <2>3 DEF NewUserInv
    <2> QED
        BY <1>1, <1>2, <2>4, <2>5, <2>6
<1> QED
    BY <1>4, <1>5, <1>6

LEMMA InvAfterStep ==
    ASSUME MigrationsInv, [MigrationsNext]_migrationVars
    PROVE  MigrationsInv'
<1>1. CASE OpenDatabase \/ DatabaseOpened \/ Interrupt
    BY <1>1, InvAfterLaunch
<1>2. CASE ApplyInitialMigrations \/ ApplyRecentMigrations
    BY <1>2, MigrationIs, InvAfterMigration DEF MigrationsInv
<1>3. CASE UNCHANGED migrationVars
    <2>1. disk' = disk /\ launch' = launch /\ found' = found /\ interrupted' = interrupted
        BY <1>3 DEF migrationVars
    <2>2. /\ DatabaseForm(disk') /\ DatabaseForm(found') /\ LaunchForm' /\ VersionInv'
          /\ ClearSkyInv'
        BY <2>1 DEF MigrationsInv, LaunchForm, VersionInv, ClearSkyInv
    <2>3. SettingsKept' /\ OldUserInv'
        BY <2>1 DEF MigrationsInv, SettingsKept, OldUserInv
    <2>4. NewUserInv' /\ RowsInv'
        BY <2>1 DEF MigrationsInv, NewUserInv, RowsInv
    <2> QED
        BY <2>1, <2>2, <2>3, <2>4 DEF MigrationsInv
<1> QED
    BY <1>1, <1>2, <1>3 DEF MigrationsNext

LEMMA MigrationsAlways == MigrationsSpec => []MigrationsInv
BY InvInitially, InvAfterStep, PTL DEF MigrationsSpec

-----------------------------------------------------------------------------
(* The theorems.                                                           *)

(* A database of a schema has the columns, tables and rows of that schema,  *)
(* whatever launches were interrupted, and the version it says.            *)
THEOREM MigrationsTypeCorrect == MigrationsSpec => []MigrationsTypeOK
<1>1. MigrationsInv => MigrationsTypeOK
    BY DEF MigrationsInv, DatabaseForm, LaunchForm, VersionInv, MigrationsTypeOK
<1> QED
    BY <1>1, MigrationsAlways, PTL

\* Since schema 23 a dictation has one row.
LEMMA OneRow ==
    ASSUME NEW rows1 \in EvidenceOf(25), NEW d
    PROVE  Cardinality({r \in rows1 : r.dictation = d}) = IF Spoke(d, rows1) THEN 1 ELSE 0
<1> DEFINE mine == {r \in rows1 : r.dictation = d}
<1>1. \A r, q \in rows1 : RowKey(25, r) = RowKey(25, q) => r = q
    BY EvidenceIs
<1>2. \A r \in mine : RowKey(25, r) = <<d>>
    BY DEF RowKey
<1>3. CASE Spoke(d, rows1)
    <2>1. PICK r \in rows1 : r.dictation = d
        BY <1>3 DEF Spoke
    <2>2. mine = {r}
        BY <1>1, <1>2, <2>1
    <2> HIDE DEF mine
    <2>3. Cardinality(mine) = 1
        BY <2>2, FS_Singleton
    <2> QED
        BY <1>3, <2>3 DEF mine
<1>4. CASE ~Spoke(d, rows1)
    <2>1. mine = {}
        BY <1>4 DEF Spoke
    <2> HIDE DEF mine
    <2>2. Cardinality(mine) = 0
        BY <2>1, FS_EmptySet
    <2> QED
        BY <1>4, <2>2 DEF mine
<1> QED
    BY <1>3, <1>4

(* An upgrade loses nothing of what it found, however often it was         *)
(* interrupted, and a first launch that was not ends with what a new user  *)
(* is to have.                                                             *)
THEOREM UpgradeKeeps == MigrationsSpec => []UpgradeKeepsData
<1>1. ASSUME MigrationsInv
      PROVE  UpgradeKeepsData
    <2> USE <1>1 DEF MigrationsInv
    <2>1. launch.at = "refused" => disk = found
        BY DEF VersionInv
    <2>2. ASSUME launch.at = "open"
          PROVE  /\ disk.version = 25 /\ found.version \in 0..25
                 /\ disk.rows \in EvidenceOf(25)
        <3>1. disk.version = 25 /\ found.version <= 25
            BY <2>2 DEF VersionInv
        <3> QED
            BY <3>1 DEF DatabaseForm
    <2>3. ASSUME launch.at = "open", found.version \in 1..25
          PROVE  /\ found.version < 12 =>
                      disk.settings["shortcuts"] \in {disk.settings["shortcut"], "right-command"}
                 /\ disk.settings["shortcut"] = "chosen" /\ found.version < 12 =>
                      disk.settings["shortcuts"] = "chosen"
                 /\ found.version < 13 => disk.settings["onboarding"] = "completed"
                 /\ found.version < 15 => disk.settings["theme"] = "lime-pulse"
        <3>1. disk.version = 25
            BY <2>2, <2>3
        <3>2. ASSUME found.version < 12
              PROVE  disk.settings["shortcuts"] =
                        IF disk.settings["shortcut"] = "" THEN "right-command"
                        ELSE disk.settings["shortcut"]
            <4>1. found.version \in 1..11 /\ disk.version >= 12
                BY <2>3, <3>1, <3>2
            <4> QED
                BY <4>1 DEF OldUserInv
        <3>3. found.version < 13 => disk.settings["onboarding"] = "completed"
            <4>1. found.version < 13 => found.version \in 1..12 /\ disk.version >= 13
                BY <2>3, <3>1
            <4> QED
                BY <4>1 DEF OldUserInv
        <3>4. found.version < 15 => disk.settings["theme"] = "lime-pulse"
            <4>1. found.version < 15 => found.version \in 1..14 /\ disk.version >= 15
                BY <2>3, <3>1
            <4> QED
                BY <4>1 DEF OldUserInv
        <3> QED
            BY <3>2, <3>3, <3>4
    <2>4. ASSUME launch.at = "open", found.version = 0, interrupted = 0
          PROVE  /\ disk.settings["onboarding"] = "not_started"
                 /\ disk.settings["theme"] = "saymore"
                 /\ FreshShortcut # "none" => disk.settings["shortcuts"] = FreshShortcut
        <3>1. disk.version >= 12 /\ disk.version >= 13 /\ disk.version >= 18
            BY <2>2, <2>4
        <3> QED
            BY <2>4, <3>1 DEF NewUserInv
    <2>5. ASSUME launch.at = "open", NEW d \in Witnesses
          PROVE  /\ Cardinality({r \in disk.rows : r.dictation = d}) =
                      IF \E r \in found.rows : r.dictation = d THEN 1 ELSE 0
                 /\ IF found.version >= 23 THEN disk.rows = found.rows
                    ELSE \A r \in disk.rows : r.grade = "uncertain"
        <3>1. disk.version >= 23 /\ found.version \in 0..25
            BY <2>2, <2>5
        <3>2. Cardinality({r \in disk.rows : r.dictation = d}) =
                IF Spoke(d, disk.rows) THEN 1 ELSE 0
            BY <2>2, <2>5, OneRow
        <3>3. Spoke(d, disk.rows) <=> Spoke(d, found.rows)
            BY DEF RowsInv
        <3>4. Cardinality({r \in disk.rows : r.dictation = d}) =
                IF Spoke(d, found.rows) THEN 1 ELSE 0
            BY <3>2, <3>3
        <3>5. found.version >= 23 => disk.rows = found.rows
            BY DEF RowsInv
        <3>6. ~(found.version >= 23) => \A r \in disk.rows : r.grade = "uncertain"
            BY <3>1 DEF RowsInv
        <3> QED
            BY <3>4, <3>5, <3>6 DEF Spoke
    <2> QED
        BY <2>1, <2>3, <2>4, <2>5 DEF UpgradeKeepsData, SettingsKept
<1> QED
    BY <1>1, MigrationsAlways, PTL

HIDE MigrationsAssumption

-----------------------------------------------------------------------------
(* Counting: the elements of a finite set of numbers, in their order.      *)

LEMMA NthIs ==
    ASSUME NEW set, IsFiniteSet(set), set \subseteq Nat,
           NEW size, size = Cardinality(set)
    PROVE  /\ size \in Nat
           /\ \A i \in 1..size : Nth(set, i) \in set
           /\ \A i, j \in 1..size : i < j => Nth(set, i) < Nth(set, j)
           /\ \A x \in set : \E i \in 1..size : x = Nth(set, i)
<1> DEFINE below(k) == {j \in set : j <= k}
           rank == [k \in set |-> Cardinality(below(k))]
<1>1. size \in Nat
    BY FS_CardinalityType
<1>2. ASSUME NEW k \in set
      PROVE  IsFiniteSet(below(k)) /\ Cardinality(below(k)) \in 1..size
    <2>1. below(k) \in SUBSET set /\ k \in below(k)
        OBVIOUS
    <2> HIDE DEF below
    <2>2. IsFiniteSet(below(k)) /\ Cardinality(below(k)) <= size
        BY <2>1, FS_Subset
    <2>3. Cardinality(below(k)) \in Nat /\ Cardinality(below(k)) # 0
        BY <2>1, <2>2, FS_CardinalityType, FS_EmptySet
    <2> QED
        BY <1>1, <2>2, <2>3
<1>3. ASSUME NEW k \in set, NEW m \in set, k < m
      PROVE  rank[k] < rank[m]
    <2>1. below(k) \in SUBSET below(m) /\ m \in below(m) /\ m \notin below(k)
        <3>1. k \in Nat /\ m \in Nat
            OBVIOUS
        <3>2. \A j \in set : j <= k => j <= m
            BY <1>3, <3>1
        <3>3. ~(m <= k) /\ m <= m
            BY <1>3, <3>1
        <3> QED
            BY <3>1, <3>2, <3>3
    <2> HIDE DEF below
    <2>2. Cardinality(below(k)) <= Cardinality(below(m))
          /\ Cardinality(below(k)) # Cardinality(below(m))
        BY <1>2, <2>1, FS_Subset
    <2>3. Cardinality(below(k)) \in Nat /\ Cardinality(below(m)) \in Nat
        BY <1>2, <1>1
    <2>4. Cardinality(below(k)) < Cardinality(below(m))
        BY <2>2, <2>3
    <2> QED
        BY <2>4
<1>4. rank \in [set -> 1..size]
    BY <1>2
<1>5. \A k \in set : rank[k] = Cardinality({j \in set : j <= k})
    OBVIOUS
<1> HIDE DEF rank
<1>6. \A k, m \in set : rank[k] = rank[m] => k = m
    <2> SUFFICES ASSUME NEW k \in set, NEW m \in set, rank[k] = rank[m]
                 PROVE  k = m
        OBVIOUS
    <2>1. k \in Nat /\ m \in Nat /\ rank[k] \in 1..size /\ rank[m] \in 1..size
        BY <1>4
    <2>2. ~(k < m) /\ ~(m < k)
        BY <1>1, <1>3, <2>1
    <2> QED
        BY <2>1, <2>2
<1>7. rank \in Injection(set, 1..size)
    BY <1>4, <1>6 DEF Injection, IsInjective
<1>8. IsFiniteSet(1..size) /\ Cardinality(1..size) = size
    BY <1>1, FS_Interval
<1>9. rank \in Surjection(set, 1..size)
    BY <1>7, <1>8, FS_Injection
<1>10. ASSUME NEW i \in 1..size
       PROVE  Nth(set, i) \in set /\ rank[Nth(set, i)] = i
    <2>1. \E k \in set : rank[k] = i
        BY <1>9 DEF Surjection
    <2>2. \E k \in set : Cardinality({j \in set : j <= k}) = i
        BY <1>5, <2>1
    <2>3. Nth(set, i) \in set /\ Cardinality({j \in set : j <= Nth(set, i)}) = i
        BY <2>2, Zenon DEF Nth
    <2> QED
        BY <1>5, <2>3
<1>11. ASSUME NEW i \in 1..size, NEW j \in 1..size, i < j
       PROVE  Nth(set, i) < Nth(set, j)
    <2> DEFINE a == Nth(set, i)
               b == Nth(set, j)
    <2>1. a \in set /\ b \in set /\ rank[a] = i /\ rank[b] = j
        BY <1>10
    <2> HIDE DEF a, b
    <2>2. a \in Nat /\ b \in Nat
        BY <2>1
    <2>3. ~(b < a)
        BY <1>3, <1>11, <2>1
    <2>4. a # b
        BY <1>11, <2>1
    <2>5. a < b
        BY <2>2, <2>3, <2>4
    <2> QED
        BY <2>5 DEF a, b
<1>12. ASSUME NEW x \in set
       PROVE  \E i \in 1..size : x = Nth(set, i)
    <2>1. rank[x] \in 1..size
        BY <1>4
    <2>2. x = Nth(set, rank[x])
        BY <1>6, <1>10, <2>1
    <2> QED
        BY <2>1, <2>2
<1> QED
    BY <1>1, <1>10, <1>11, <1>12

\* The places that remain, in their order.
LEMMA RemainingIs ==
    ASSUME NEW S, NEW s \in Seq(S), NEW places \in SUBSET DOMAIN s
    PROVE  /\ Remaining(s, places) \in Seq(S)
           /\ Range(Remaining(s, places)) = {s[k] : k \in places}
           /\ \A i, j \in DOMAIN Remaining(s, places) : i < j =>
                 \E k, m \in places : /\ k < m
                                      /\ Remaining(s, places)[i] = s[k]
                                      /\ Remaining(s, places)[j] = s[m]
<1> DEFINE size == Cardinality(places)
           rest == Remaining(s, places)
<1>1. Len(s) \in Nat /\ DOMAIN s = 1..Len(s) /\ \A k \in DOMAIN s : s[k] \in S
    BY LenProperties, ElementOfSeq
<1>2. IsFiniteSet(places) /\ places \subseteq Nat
    <2>1. IsFiniteSet(1..Len(s))
        BY <1>1, FS_Interval
    <2> QED
        BY <1>1, <2>1, FS_Subset
<1>3. /\ size \in Nat
      /\ \A i \in 1..size : Nth(places, i) \in places
      /\ \A i, j \in 1..size : i < j => Nth(places, i) < Nth(places, j)
      /\ \A x \in places : \E i \in 1..size : x = Nth(places, i)
    BY <1>2, NthIs
<1>4. rest = [i \in 1..size |-> s[Nth(places, i)]]
    BY DEF Remaining
<1>5. rest \in [1..size -> S]
    BY <1>1, <1>3, <1>4
<1> HIDE DEF rest, size
<1>6. rest \in Seq(S) /\ DOMAIN rest = 1..size
    BY <1>3, <1>5, SeqDef
<1>7. Range(rest) = {s[k] : k \in places}
    BY <1>3, <1>4 DEF Range
<1>8. ASSUME NEW i \in DOMAIN rest, NEW j \in DOMAIN rest, i < j
      PROVE  \E k, m \in places : k < m /\ rest[i] = s[k] /\ rest[j] = s[m]
    BY <1>3, <1>4, <1>6, <1>8
<1> QED
    BY <1>6, <1>7, <1>8 DEF rest

\* The others keep their order when one of a sequence is taken out.
LEMMA RemoveAtIs ==
    ASSUME NEW S, NEW s \in Seq(S), NEW i \in DOMAIN s
    PROVE  /\ RemoveAt(s, i) \in Seq(S)
           /\ \A j \in DOMAIN RemoveAt(s, i) : \E k \in DOMAIN s :
                 /\ k # i /\ RemoveAt(s, i)[j] = s[k]
                 /\ k = IF j < i THEN j ELSE j + 1
           /\ \A k \in DOMAIN s : k # i =>
                 \E j \in DOMAIN RemoveAt(s, i) : RemoveAt(s, i)[j] = s[k]
<1> DEFINE n == Len(s)
           front == SubSeq(s, 1, i - 1)
           back == SubSeq(s, i + 1, n)
           rest == RemoveAt(s, i)
<1>1. n \in Nat /\ DOMAIN s = 1..n /\ i \in 1..n /\ \A k \in 1..n : s[k] \in S
    BY LenProperties, ElementOfSeq
<1> HIDE DEF n
<1>2. /\ front \in Seq(S) /\ Len(front) = i - 1 /\ \A j \in 1..(i - 1) : front[j] = s[j]
    <2>1. \A j \in 1..(i - 1) : j \in 1..n
        BY <1>1
    <2>2. 1 \in Int /\ i - 1 \in Int
        BY <1>1
    <2>3. /\ front \in Seq(S)
          /\ Len(front) = IF 1 <= i - 1 THEN (i - 1) - 1 + 1 ELSE 0
          /\ \A j \in 1..((i - 1) - 1 + 1) : front[j] = s[1 + j - 1]
        BY <1>1, <2>1, <2>2, SubSeqProperties
    <2> HIDE DEF front
    <2>4. Len(front) = i - 1
        BY <1>1, <2>3
    <2>5. ASSUME NEW j \in 1..(i - 1)
          PROVE  front[j] = s[j]
        <3>1. j \in 1..((i - 1) - 1 + 1) /\ 1 + j - 1 = j
            BY <1>1
        <3> QED
            BY <2>3, <3>1
    <2> QED
        BY <2>3, <2>4, <2>5
<1>3. /\ back \in Seq(S) /\ Len(back) = n - i /\ \A j \in 1..(n - i) : back[j] = s[j + i]
    <2>1. \A j \in (i + 1)..n : j \in 1..n
        BY <1>1
    <2>2. n \in Int /\ i + 1 \in Int
        BY <1>1
    <2>3. /\ back \in Seq(S)
          /\ Len(back) = IF i + 1 <= n THEN n - (i + 1) + 1 ELSE 0
          /\ \A j \in 1..(n - (i + 1) + 1) : back[j] = s[(i + 1) + j - 1]
        BY <1>1, <2>1, <2>2, SubSeqProperties
    <2> HIDE DEF back
    <2>4. Len(back) = n - i
        BY <1>1, <2>3
    <2>5. ASSUME NEW j \in 1..(n - i)
          PROVE  back[j] = s[j + i]
        <3>1. j \in 1..(n - (i + 1) + 1) /\ (i + 1) + j - 1 = j + i
            BY <1>1
        <3> QED
            BY <2>3, <3>1
    <2> QED
        BY <2>3, <2>4, <2>5
<1>4. rest = front \o back
    BY DEF RemoveAt, n
<1> HIDE DEF front, back, rest
<1>5. /\ rest \in Seq(S) /\ Len(rest) = (i - 1) + (n - i)
      /\ \A j \in 1..((i - 1) + (n - i)) :
            rest[j] = IF j <= i - 1 THEN front[j] ELSE back[j - (i - 1)]
    <2>1. front \in Seq(S) /\ back \in Seq(S)
        BY <1>2, <1>3
    <2>2. /\ rest \in Seq(S) /\ Len(rest) = Len(front) + Len(back)
          /\ \A j \in 1..(Len(front) + Len(back)) :
                rest[j] = IF j <= Len(front) THEN front[j] ELSE back[j - Len(front)]
        BY <1>4, <2>1, ConcatProperties
    <2>3. Len(front) = i - 1 /\ Len(back) = n - i
        BY <1>2, <1>3
    <2> QED
        BY <2>2, <2>3
<1>6. DOMAIN rest = 1..(n - 1)
    <2>1. (i - 1) + (n - i) = n - 1
        BY <1>1
    <2> QED
        BY <1>5, <2>1, LenProperties
<1>7. ASSUME NEW j \in 1..(n - 1)
      PROVE  rest[j] = s[IF j < i THEN j ELSE j + 1]
    <2>1. j \in 1..((i - 1) + (n - i))
        BY <1>1
    <2>2. CASE j < i
        <3>1. j <= i - 1 /\ j \in 1..(i - 1)
            BY <1>1, <2>2
        <3> QED
            BY <1>2, <1>5, <2>1, <2>2, <3>1
    <2>3. CASE ~(j < i)
        <3>1. /\ ~(j <= i - 1) /\ j - (i - 1) \in 1..(n - i) /\ (j - (i - 1)) + i = j + 1
            BY <1>1, <2>3
        <3>2. back[j - (i - 1)] = s[(j - (i - 1)) + i]
            BY <1>3, <3>1
        <3> QED
            BY <1>5, <2>1, <2>3, <3>1, <3>2
    <2> QED
        BY <2>2, <2>3
<1>8. ASSUME NEW j \in 1..(n - 1)
      PROVE  \E k \in 1..n : k # i /\ rest[j] = s[k] /\ k = IF j < i THEN j ELSE j + 1
    <2> DEFINE k == IF j < i THEN j ELSE j + 1
    <2>1. k \in 1..n /\ k # i
        BY <1>1
    <2> QED
        BY <1>7, <2>1
<1>9. ASSUME NEW k \in 1..n, k # i
      PROVE  \E j \in 1..(n - 1) : rest[j] = s[k]
    <2>1. CASE k < i
        <3>1. k \in 1..(n - 1)
            BY <1>1, <2>1
        <3> QED
            BY <1>7, <2>1, <3>1
    <2>2. CASE ~(k < i)
        <3>1. k - 1 \in 1..(n - 1) /\ ~(k - 1 < i) /\ (k - 1) + 1 = k
            BY <1>1, <1>9, <2>2
        <3> QED
            BY <1>7, <3>1
    <2> QED
        BY <2>1, <2>2
<1> QED
    BY <1>1, <1>5, <1>6, <1>8, <1>9 DEF rest
-----------------------------------------------------------------------------
(* A page of the history.                                                  *)

Descending(s) == \A i, j \in DOMAIN s : i < j => s[i] > s[j]
Matches(row, query) == query = "" \/ row \in Matching
Queries == {"", "text"}

\* The newest of the rows that match come first, and none is left out.
LEMMA NewestIs ==
    ASSUME NEW set, IsFiniteSet(set), set \subseteq Nat, NEW n \in Nat \ {0},
           NEW page, page = Newest(set, n)
    PROVE  /\ page \in Seq(Nat) /\ Range(page) \subseteq set /\ Descending(page)
           /\ \A r \in set : r \in Range(page) \/ (page # <<>> /\ \A p \in Range(page) : r < p)
           /\ page # <<>> => Last(page) \in Range(page) /\ \A p \in Range(page) : p >= Last(page)
<1> DEFINE size == Cardinality(set)
           k == IF size < n THEN size ELSE n
<1>1. /\ size \in Nat
      /\ \A i \in 1..size : Nth(set, i) \in set
      /\ \A i, j \in 1..size : i < j => Nth(set, i) < Nth(set, j)
      /\ \A x \in set : \E i \in 1..size : x = Nth(set, i)
    BY NthIs
<1>2. page = [i \in 1..k |-> Nth(set, size + 1 - i)]
    BY DEF Newest
<1> HIDE DEF size
<1>3. k \in Nat /\ k <= size /\ (k = 0 => size = 0)
    BY <1>1
<1> HIDE DEF k
<1>4. ASSUME NEW i \in 1..k
      PROVE  size + 1 - i \in 1..size
    BY <1>1, <1>3
<1>5. \A i \in 1..k : page[i] = Nth(set, size + 1 - i) /\ page[i] \in set
    BY <1>1, <1>2, <1>4
<1>6. page \in [1..k -> Nat]
    BY <1>2, <1>5
<1>7. page \in Seq(Nat) /\ DOMAIN page = 1..k /\ Len(page) = k
    <2>1. page \in Seq(Nat) /\ DOMAIN page = 1..k
        BY <1>3, <1>6, SeqDef
    <2>2. Len(page) = k
        BY <1>3, <2>1, LenProperties
    <2> QED
        BY <2>1, <2>2
<1>8. Range(page) \subseteq set
    BY <1>5, <1>7 DEF Range
<1>9. ASSUME NEW i \in 1..k, NEW j \in 1..k, i < j
      PROVE  page[i] > page[j]
    <2> DEFINE a == Nth(set, size + 1 - j)
               b == Nth(set, size + 1 - i)
    <2>1. size + 1 - j < size + 1 - i
        BY <1>1, <1>9
    <2>2. a < b
        BY <1>1, <1>4, <2>1
    <2>3. page[i] = b /\ page[j] = a /\ a \in Nat /\ b \in Nat
        BY <1>5, <1>6
    <2> HIDE DEF a, b
    <2> QED
        BY <2>2, <2>3
<1>10. Descending(page)
    BY <1>7, <1>9 DEF Descending
<1>11. ASSUME NEW r \in set, r \notin Range(page)
       PROVE  page # <<>> /\ \A p \in Range(page) : r < p
    <2>1. PICK i \in 1..size : r = Nth(set, i)
        BY <1>1
    <2>2. i < size + 1 - k
        <3> SUFFICES ASSUME ~(i < size + 1 - k)
                     PROVE  FALSE
            OBVIOUS
        <3>1. size + 1 - i \in 1..k /\ size + 1 - (size + 1 - i) = i
            BY <1>1, <1>3
        <3>2. page[size + 1 - i] = r
            BY <1>5, <2>1, <3>1
        <3> QED
            BY <1>7, <1>11, <3>1, <3>2 DEF Range
    <2>3. size # 0
        BY <2>1, <1>1
    <2>4. page # <<>>
        <3>1. k # 0
            BY <1>3, <2>3
        <3>2. Len(<<>>) = 0
            BY EmptySeq
        <3> QED
            BY <1>7, <3>1, <3>2
    <2>5. ASSUME NEW j \in 1..k
          PROVE  r < page[j]
        <3>1. i < size + 1 - j
            BY <1>1, <1>3, <2>2
        <3> QED
            BY <1>1, <1>4, <1>5, <2>1, <3>1
    <2> QED
        BY <1>7, <2>4, <2>5 DEF Range
<1>12. ASSUME page # <<>>
       PROVE  Last(page) \in Range(page) /\ \A p \in Range(page) : p >= Last(page)
    <2>1. k # 0
        BY <1>7, <1>12, EmptySeq
    <2>2. k \in 1..k /\ Last(page) = page[k]
        BY <1>3, <1>7, <2>1 DEF Last
    <2>3. ASSUME NEW i \in 1..k
          PROVE  page[i] >= page[k]
        <3>1. page[i] \in Nat /\ page[k] \in Nat
            BY <1>6, <2>2
        <3>2. CASE i = k
            BY <3>1, <3>2
        <3>3. CASE i # k
            <4>1. i < k
                BY <1>3, <3>3
            <4>2. page[i] > page[k]
                BY <1>9, <2>2, <4>1
            <4> QED
                BY <3>1, <4>2
        <3> QED
            BY <3>2, <3>3
    <2> QED
        BY <1>7, <2>2, <2>3 DEF Range
<1> QED
    BY <1>7, <1>8, <1>10, <1>11, <1>12

\* What a page that was read says of the rows there are, and of those that
\* will be.
Covers(t, rs) ==
    /\ Descending(t.page)
    /\ t.query = "text" => Range(t.page) \subseteq Matching
    /\ \A p \in Range(t.page) : t.cursor = 0 \/ p < t.cursor
    /\ t.next # 0 => t.next \in Range(t.page) /\ \A p \in Range(t.page) : p >= t.next
    /\ \A r \in rs : Matches(r, t.query) /\ (t.cursor = 0 \/ r < t.cursor) =>
          \/ r \in Range(t.page)
          \/ Range(t.page) # {} /\ \A p \in Range(t.page) : r < p
          \/ t.cursor = 0 /\ \A p \in Range(t.page) : r > p

\* history_search::page.
LEMMA PageIs ==
    ASSUME NEW m \in Nat, rows \subseteq 1..m, NEW query \in Queries, NEW cursor \in Nat,
           NEW t, t.page = PageOf(query, cursor), t.next = CursorAfter(query, cursor),
           t.query = query, t.cursor = cursor
    PROVE  /\ t.page \in Seq(Nat) /\ \A p \in Range(t.page) : p \in 1..m
           /\ t.next \in 0..m
           /\ Covers(t, rows)
<1> DEFINE hits == Hits(query, cursor)
           page == PageOf(query, cursor)
           next == CursorAfter(query, cursor)
<1>1. hits \subseteq rows /\ hits \subseteq 1..m /\ hits \subseteq Nat
    <2>1. 1..m \subseteq Nat
        OBVIOUS
    <2> QED
        BY <2>1 DEF Hits
<1>2. IsFiniteSet(hits)
    <2>1. 1 \in Int /\ m \in Int
        OBVIOUS
    <2>2. IsFiniteSet(1..m)
        BY <2>1, FS_Interval
    <2>3. hits \in SUBSET (1..m)
        BY <1>1
    <2> HIDE DEF hits
    <2> QED
        BY <2>2, <2>3, FS_Subset
<1>3. PageSize \in Nat \ {0} /\ page = Newest(hits, PageSize)
    BY PagesAssumption DEF PageOf
<1>4. \A r \in rows : r \in hits <=> Matches(r, query) /\ (cursor = 0 \/ r < cursor)
    BY DEF Hits, Matches
<1> HIDE DEF hits, page
<1>5. /\ page \in Seq(Nat) /\ Range(page) \subseteq hits /\ Descending(page)
      /\ \A r \in hits : r \in Range(page) \/ (page # <<>> /\ \A p \in Range(page) : r < p)
      /\ page # <<>> => Last(page) \in Range(page) /\ \A p \in Range(page) : p >= Last(page)
    BY <1>1, <1>2, <1>3, NewestIs
<1>6. next # 0 => next = Last(page) /\ page # <<>>
    <2>1. next = IF Len(page) = PageSize /\ \E r \in rows : r < Last(page)
                 THEN Last(page) ELSE 0
        BY DEF CursorAfter, page
    <2>2. Len(page) = PageSize => page # <<>>
        BY <1>3, EmptySeq
    <2> QED
        BY <2>1, <2>2
<1> HIDE DEF next
<1>7. next # 0 => next \in Range(page) /\ next \in 1..m /\ \A p \in Range(page) : p >= next
    BY <1>1, <1>5, <1>6
<1>8. page # <<>> => Range(page) # {}
    BY <1>5
<1>9. query = "text" => Range(page) \subseteq Matching
    BY <1>1, <1>4, <1>5 DEF Matches
<1>10. \A p \in Range(page) : cursor = 0 \/ p < cursor
    BY <1>1, <1>4, <1>5
<1>11. t.page = page /\ t.next = next
    BY DEF page, next
<1>12. next \in 0..m
    BY <1>7
<1>13. \A r \in rows : Matches(r, query) /\ (cursor = 0 \/ r < cursor) =>
          \/ r \in Range(page)
          \/ Range(page) # {} /\ \A p \in Range(page) : r < p
    BY <1>4, <1>5, <1>8
<1>14. Covers(t, rows)
    BY <1>5, <1>7, <1>9, <1>10, <1>11, <1>13 DEF Covers
<1> QED
    BY <1>1, <1>5, <1>11, <1>12, <1>14
-----------------------------------------------------------------------------
(* The threads of the history page: what each may be in a history of which *)
(* m rows were made and rs are left, in generation g of the page, that     *)
(* searches for q, while d was deleted by the user.                        *)

PageThread ==
    [kind : {"refresh", "more", "delete", "clear", "reset", "cleanup"}, generation : Nat,
     query : Queries, cursor : Nat, state : {"asking", "answered", "locked", "failed"},
     page : Seq(Nat), next : Nat]

FitsPage(t, m, g, q, d, rs) ==
    /\ t.cursor <= m /\ t.next <= m /\ \A p \in Range(t.page) : p \in 1..m
    /\ t.generation <= g
    /\ t.generation = g => t.query = q
    /\ t.kind = "refresh" => t.cursor = 0
    /\ t.kind = "more" => t.cursor # 0
    /\ t.kind = "delete" => t.cursor \in d
    /\ t.kind = "delete" /\ t.state = "answered" => t.cursor \notin rs
    /\ t.kind \in {"refresh", "more"} /\ t.state = "answered" => Covers(t, rs)

Fitting(m, g, q, d, rs) == {t \in PageThread : FitsPage(t, m, g, q, d, rs)}

\* A thread will bring more of the list that is shown.
Brings(t, g) == t.kind = "more" /\ t.generation = g

OneBrings(threads, g) ==
    \A i, j \in DOMAIN threads : Brings(threads[i], g) /\ Brings(threads[j], g) => i = j

\* What it brings follows what is shown.
Follows(threads, g, loads, mx, shown, next) ==
    \A i \in DOMAIN threads : Brings(threads[i], g) =>
        loads /\ (mx \/ Range(shown) = {} \/ threads[i].cursor = next)

Deletes(threads, row) ==
    \E i \in DOMAIN threads : threads[i].kind = "delete" /\ threads[i].cursor = row

(* The list is one stretch of the rows that match, and what is newer than   *)
(* the cursor is in it or newer still.                                     *)
ShowsAll(shown, q, rs, threads, next) ==
    /\ Descending(shown)
    /\ q = "text" => Range(shown) \subseteq Matching
    /\ \A r \in rs : Matches(r, q) =>
          \/ r \in Range(shown) \/ Deletes(threads, r)
          \/ \A x \in Range(shown) : r > x
          \/ \A x \in Range(shown) : r < x
    /\ next # 0 =>
         /\ \A x \in Range(shown) : x >= next
         /\ \A r \in rs : Matches(r, q) /\ r >= next =>
               \/ r \in Range(shown) \/ Deletes(threads, r)
               \/ \A x \in Range(shown) : r > x

LEMMA SeqGrows ==
    ASSUME NEW S, NEW R, S \subseteq R, NEW s \in Seq(S)
    PROVE  s \in Seq(R)
<1>1. /\ Len(s) \in Nat /\ s \in [1..Len(s) -> S]
    BY LenProperties
<1>2. s \in [1..Len(s) -> R]
    BY <1>1
<1> QED
    BY <1>1, <1>2, SeqDef

LEMMA Joining ==
    ASSUME NEW S, NEW T \in Seq(S), NEW t \in S, NEW T1, T1 = Append(T, t)
    PROVE  /\ T1 \in Seq(S)
           /\ DOMAIN T = 1..Len(T) /\ DOMAIN T1 = 1..(Len(T) + 1) /\ Len(T) \in Nat
           /\ \A j \in DOMAIN T : j \in DOMAIN T1 /\ T1[j] = T[j]
           /\ \A j \in DOMAIN T1 : (j \in DOMAIN T /\ T1[j] = T[j]) \/ T1[j] = t
           /\ T1[Len(T) + 1] = t
<1>1. /\ T1 \in Seq(S) /\ Len(T1) = Len(T) + 1
      /\ \A j \in 1..Len(T) : T1[j] = T[j]
      /\ T1[Len(T) + 1] = t
    BY AppendProperties
<1>2. Len(T) \in Nat /\ DOMAIN T = 1..Len(T) /\ DOMAIN T1 = 1..Len(T1)
    BY <1>1, LenProperties
<1> QED
    BY <1>1, <1>2

LEMMA JoiningDeletes ==
    ASSUME NEW S, NEW T \in Seq(S), NEW t \in S, NEW T1, T1 = Append(T, t)
    PROVE  /\ \A r : Deletes(T, r) => Deletes(T1, r)
           /\ t.kind = "delete" => Deletes(T1, t.cursor)
<1>1. /\ DOMAIN T1 = 1..(Len(T) + 1) /\ Len(T) \in Nat
      /\ \A j \in DOMAIN T : j \in DOMAIN T1 /\ T1[j] = T[j]
      /\ T1[Len(T) + 1] = t
    BY Joining
<1>2. Len(T) + 1 \in DOMAIN T1
    BY <1>1
<1> QED
    BY <1>1, <1>2 DEF Deletes

LEMMA JoiningOthers ==
    ASSUME NEW S, NEW T \in Seq(S), NEW t \in S, NEW T1, T1 = Append(T, t), NEW g,
           ~Brings(t, g), OneBrings(T, g), NEW loads, NEW mx, NEW shown, NEW next,
           Follows(T, g, loads, mx, shown, next)
    PROVE  OneBrings(T1, g) /\ Follows(T1, g, loads, mx, shown, next)
<1>1. \A j \in DOMAIN T1 : (j \in DOMAIN T /\ T1[j] = T[j]) \/ T1[j] = t
    BY Joining
<1> QED
    BY <1>1 DEF OneBrings, Follows

LEMMA Leaving ==
    ASSUME NEW S, NEW T \in Seq(S), NEW i \in DOMAIN T, NEW T1, T1 = RemoveAt(T, i)
    PROVE  /\ T1 \in Seq(S)
           /\ \A j \in DOMAIN T1 : \E k \in DOMAIN T : k # i /\ T1[j] = T[k]
           /\ \A r : /\ Deletes(T, r)
                     /\ ~(T[i].kind = "delete" /\ T[i].cursor = r)
                     => Deletes(T1, r)
           /\ \A g : OneBrings(T, g) => OneBrings(T1, g)
           /\ \A g : OneBrings(T, g) /\ Brings(T[i], g) =>
                \A j \in DOMAIN T1 : ~Brings(T1[j], g)
<1>1. /\ T1 \in Seq(S)
      /\ \A j \in DOMAIN T1 : \E k \in DOMAIN T :
            /\ k # i /\ T1[j] = T[k]
            /\ k = IF j < i THEN j ELSE j + 1
      /\ \A k \in DOMAIN T : k # i => \E j \in DOMAIN T1 : T1[j] = T[k]
    BY RemoveAtIs
<1>2. ASSUME NEW r, Deletes(T, r), ~(T[i].kind = "delete" /\ T[i].cursor = r)
      PROVE  Deletes(T1, r)
    <2>1. PICK k \in DOMAIN T : T[k].kind = "delete" /\ T[k].cursor = r
        BY <1>2 DEF Deletes
    <2>2. k # i
        BY <1>2, <2>1
    <2> QED
        BY <1>1, <2>1, <2>2 DEF Deletes
<1>3. i \in Nat /\ DOMAIN T1 \subseteq Nat
    <2>1. DOMAIN T1 = 1..Len(T1) /\ Len(T1) \in Nat /\ DOMAIN T = 1..Len(T) /\ Len(T) \in Nat
        BY <1>1, LenProperties
    <2> QED
        BY <2>1
<1>4. ASSUME NEW g, OneBrings(T, g)
      PROVE  OneBrings(T1, g)
    <2> SUFFICES ASSUME NEW a \in DOMAIN T1, NEW b \in DOMAIN T1,
                        Brings(T1[a], g), Brings(T1[b], g)
                 PROVE  a = b
        BY DEF OneBrings
    <2>1. PICK k \in DOMAIN T : k # i /\ T1[a] = T[k] /\ k = IF a < i THEN a ELSE a + 1
        BY <1>1
    <2>2. PICK n \in DOMAIN T : n # i /\ T1[b] = T[n] /\ n = IF b < i THEN b ELSE b + 1
        BY <1>1
    <2>3. k = n
        BY <1>4, <2>1, <2>2 DEF OneBrings
    <2>4. a \in Nat /\ b \in Nat /\ i \in Nat
        BY <1>3
    <2>5. (IF a < i THEN a ELSE a + 1) = (IF b < i THEN b ELSE b + 1)
        BY <2>1, <2>2, <2>3
    <2>6. /\ (IF a < i THEN a ELSE a + 1) # i
          /\ (IF b < i THEN b ELSE b + 1) # i
        BY <2>1, <2>2
    <2> QED
        BY <2>4, <2>5, <2>6
<1>5. ASSUME NEW g, OneBrings(T, g), Brings(T[i], g), NEW j \in DOMAIN T1
      PROVE  ~Brings(T1[j], g)
    BY <1>1, <1>5 DEF OneBrings
<1> QED
    BY <1>1, <1>2, <1>4, <1>5

LEMMA LeavingFollows ==
    ASSUME NEW S, NEW T \in Seq(S), NEW i \in DOMAIN T, NEW T1, T1 = RemoveAt(T, i), NEW g,
           NEW loads, NEW mx, NEW shown, NEW next, Follows(T, g, loads, mx, shown, next)
    PROVE  Follows(T1, g, loads, mx, shown, next)
BY Leaving DEF Follows

\* A thread was answered.
LEMMA Answering ==
    ASSUME NEW S, NEW T \in Seq(S), NEW i \in DOMAIN T, NEW t \in S,
           t.kind = T[i].kind, t.generation = T[i].generation, t.cursor = T[i].cursor,
           NEW T1, T1 = [T EXCEPT ![i] = t]
    PROVE  /\ T1 \in Seq(S)
           /\ \A r : Deletes(T, r) => Deletes(T1, r)
           /\ \A g : OneBrings(T, g) => OneBrings(T1, g)
           /\ \A g, loads, mx, shown, next :
                Follows(T, g, loads, mx, shown, next) => Follows(T1, g, loads, mx, shown, next)
<1>1. T1 \in Seq(S)
    BY ExceptSeq
<1>2. /\ DOMAIN T1 = DOMAIN T
      /\ \A j \in DOMAIN T : T1[j].kind = T[j].kind /\ T1[j].cursor = T[j].cursor
                             /\ T1[j].generation = T[j].generation
    OBVIOUS
<1>3. \A g : \A j \in DOMAIN T : Brings(T1[j], g) <=> Brings(T[j], g)
    BY <1>2 DEF Brings
<1> QED
    BY <1>1, <1>2, <1>3 DEF Deletes, OneBrings, Follows

LEMMA NewGeneration ==
    ASSUME NEW m, NEW g \in Nat, NEW q, NEW d, NEW rs, NEW T \in Seq(Fitting(m, g, q, d, rs)),
           NEW loads, NEW mx, NEW shown, NEW next
    PROVE  OneBrings(T, g + 1) /\ Follows(T, g + 1, loads, mx, shown, next)
<1>1. ASSUME NEW j \in DOMAIN T
      PROVE  ~Brings(T[j], g + 1)
    <2>1. T[j] \in PageThread /\ FitsPage(T[j], m, g, q, d, rs)
        BY ElementOfSeq, LenProperties DEF Fitting
    <2>2. T[j].generation \in Nat /\ T[j].generation <= g
        BY <2>1 DEF PageThread, FitsPage
    <2> QED
        BY <2>2 DEF Brings
<1> QED
    BY <1>1 DEF OneBrings, Follows
-----------------------------------------------------------------------------
(* What changes around the threads.                                        *)

\* Rows go.
LEMMA RowsGone ==
    ASSUME NEW m, NEW g, NEW q, NEW d, NEW rs, NEW left, left \subseteq rs,
           NEW t \in Fitting(m, g, q, d, rs)
    PROVE  t \in Fitting(m, g, q, d, left)
<1>1. t \in PageThread /\ FitsPage(t, m, g, q, d, rs)
    BY DEF Fitting
<1>2. Covers(t, rs) => Covers(t, left)
    BY DEF Covers
<1>3. FitsPage(t, m, g, q, d, left)
    BY <1>1, <1>2 DEF FitsPage
<1> QED
    BY <1>1, <1>3 DEF Fitting

\* A row is made: it is newer than whatever was read.
LEMMA OneMoreRow ==
    ASSUME NEW m \in Nat, NEW g, NEW q, NEW d, NEW rs, rs \subseteq 1..m,
           NEW t \in Fitting(m, g, q, d, rs)
    PROVE  t \in Fitting(m + 1, g, q, d, rs \cup {m + 1})
<1>1. t \in PageThread /\ FitsPage(t, m, g, q, d, rs)
    BY DEF Fitting
<1>2. /\ t.cursor \in Nat /\ t.next \in Nat /\ t.cursor <= m /\ t.next <= m
      /\ \A p \in Range(t.page) : p \in 1..m
    BY <1>1 DEF PageThread, FitsPage
<1>3. \A p \in Range(t.page) : m + 1 > p /\ p \in 1..(m + 1)
    BY <1>2
<1>4. ~(m + 1 < t.cursor) /\ t.cursor # m + 1 /\ t.cursor <= m + 1 /\ t.next <= m + 1
    BY <1>2
<1>5. Covers(t, rs) => Covers(t, rs \cup {m + 1})
    BY <1>3, <1>4 DEF Covers
<1>6. FitsPage(t, m + 1, g, q, d, rs \cup {m + 1})
    BY <1>1, <1>3, <1>4, <1>5 DEF FitsPage
<1> QED
    BY <1>1, <1>6 DEF Fitting

\* The list is read anew, perhaps for another search.
LEMMA OlderThreads ==
    ASSUME NEW m, NEW g \in Nat, NEW q, NEW d, NEW rs, NEW q1,
           NEW t \in Fitting(m, g, q, d, rs)
    PROVE  t \in Fitting(m, g + 1, q1, d, rs)
<1>1. t \in PageThread /\ FitsPage(t, m, g, q, d, rs)
    BY DEF Fitting
<1>2. t.generation \in Nat /\ t.generation <= g
    BY <1>1 DEF PageThread, FitsPage
<1>3. t.generation <= g + 1 /\ t.generation # g + 1
    BY <1>2
<1>4. FitsPage(t, m, g + 1, q1, d, rs)
    BY <1>1, <1>3 DEF FitsPage
<1> QED
    BY <1>1, <1>4 DEF Fitting

\* The user deletes rows, or takes back a deletion that is not under way.
LEMMA OtherDoomed ==
    ASSUME NEW m, NEW g, NEW q, NEW d, NEW rs, NEW d1,
           NEW T \in Seq(Fitting(m, g, q, d, rs)),
           \A r \in d : r \in d1 \/ ~Deletes(T, r)
    PROVE  T \in Seq(Fitting(m, g, q, d1, rs))
<1> DEFINE S == Fitting(m, g, q, d1, rs)
<1>1. Len(T) \in Nat /\ DOMAIN T = 1..Len(T)
    BY LenProperties
<1>2. ASSUME NEW i \in DOMAIN T
      PROVE  T[i] \in S
    <2>1. T[i] \in PageThread /\ FitsPage(T[i], m, g, q, d, rs)
        BY <1>1, ElementOfSeq DEF Fitting
    <2>2. T[i].kind = "delete" => T[i].cursor \in d1
        BY <2>1 DEF Deletes, FitsPage
    <2>3. FitsPage(T[i], m, g, q, d1, rs)
        BY <2>1, <2>2 DEF FitsPage
    <2> QED
        BY <2>1, <2>3 DEF Fitting
<1> HIDE DEF S
<1>3. T \in [1..Len(T) -> S]
    <2>1. T \in [1..Len(T) -> Fitting(m, g, q, d, rs)]
        BY LenProperties
    <2> QED
        BY <1>1, <1>2, <2>1
<1>4. T \in Seq(S)
    BY <1>1, <1>3, SeqDef
<1> QED
    BY <1>4 DEF S

-----------------------------------------------------------------------------
(* What the list shows.                                                    *)

LEMMA ShowsStill ==
    ASSUME NEW shown, NEW q, NEW rs, NEW T, NEW next, ShowsAll(shown, q, rs, T, next),
           NEW left, NEW T1,
           \A r \in left : r \in rs \/ \A x \in Range(shown) : r > x,
           \A r \in left : Deletes(T, r) => Deletes(T1, r)
    PROVE  ShowsAll(shown, q, left, T1, next)
<1>1. \A r \in left : Matches(r, q) =>
          \/ r \in Range(shown) \/ Deletes(T1, r)
          \/ \A x \in Range(shown) : r > x
          \/ \A x \in Range(shown) : r < x
    BY DEF ShowsAll
<1>2. next # 0 =>
         /\ \A x \in Range(shown) : x >= next
         /\ \A r \in left : Matches(r, q) /\ r >= next =>
               \/ r \in Range(shown) \/ Deletes(T1, r)
               \/ \A x \in Range(shown) : r > x
    BY DEF ShowsAll
<1>3. Descending(shown) /\ (q = "text" => Range(shown) \subseteq Matching)
    BY DEF ShowsAll
<1> QED
    BY <1>1, <1>2, <1>3 DEF ShowsAll

\* A row is taken off the list, and its deletion is under way.
LEMMA ShowsWithout ==
    ASSUME NEW shown, NEW q, NEW rs, NEW T, NEW next, ShowsAll(shown, q, rs, T, next),
           NEW p, NEW rest, Range(rest) = Range(shown) \ {p}, Descending(rest),
           NEW T1, \A r : Deletes(T, r) => Deletes(T1, r), Deletes(T1, p)
    PROVE  ShowsAll(rest, q, rs, T1, next)
<1>1. \A r \in rs : Matches(r, q) =>
          \/ r \in Range(rest) \/ Deletes(T1, r)
          \/ \A x \in Range(rest) : r > x
          \/ \A x \in Range(rest) : r < x
    BY DEF ShowsAll
<1>2. next # 0 =>
         /\ \A x \in Range(rest) : x >= next
         /\ \A r \in rs : Matches(r, q) /\ r >= next =>
               \/ r \in Range(rest) \/ Deletes(T1, r)
               \/ \A x \in Range(rest) : r > x
    BY DEF ShowsAll
<1>3. q = "text" => Range(rest) \subseteq Matching
    BY DEF ShowsAll
<1> QED
    BY <1>1, <1>2, <1>3 DEF ShowsAll

LEMMA WithoutIs ==
    ASSUME list \in Seq(Nat), NEW row
    PROVE  /\ ListWithout(row) \in Seq(Nat)
           /\ Range(ListWithout(row)) = Range(list) \ {row}
           /\ Descending(list) => Descending(ListWithout(row))
<1> DEFINE places == {i \in DOMAIN list : list[i] # row}
           rest == Remaining(list, places)
<1>1. places \in SUBSET DOMAIN list
    OBVIOUS
<1>2. Range(list) \ {row} = {list[k] : k \in places}
    BY DEF Range
<1>3. \A k \in places : k \in DOMAIN list
    OBVIOUS
<1>4. ListWithout(row) = rest
    BY DEF ListWithout
<1> HIDE DEF places
<1>5. /\ rest \in Seq(Nat)
      /\ Range(rest) = {list[k] : k \in places}
      /\ \A i, j \in DOMAIN rest : i < j =>
            \E k, n \in places : k < n /\ rest[i] = list[k] /\ rest[j] = list[n]
    BY <1>1, RemainingIs
<1> HIDE DEF rest
<1>6. Descending(list) => Descending(rest)
    BY <1>3, <1>5 DEF Descending
<1> QED
    BY <1>2, <1>4, <1>5, <1>6

\* What two sequences hold, one behind the other.
LEMMA RangeOfBoth ==
    ASSUME NEW S, NEW s \in Seq(S), NEW r \in Seq(S)
    PROVE  Range(s \o r) = Range(s) \cup Range(r)
<1> DEFINE a == Len(s)
           b == Len(r)
           both == s \o r
<1>1. /\ a \in Nat /\ DOMAIN s = 1..a /\ b \in Nat /\ DOMAIN r = 1..b
    BY LenProperties
<1>2. /\ both \in Seq(S) /\ Len(both) = a + b
      /\ \A i \in 1..(a + b) : both[i] = IF i <= a THEN s[i] ELSE r[i - a]
    BY ConcatProperties
<1>3. DOMAIN both = 1..(a + b)
    BY <1>2, LenProperties
<1> HIDE DEF a, b, both
<1>4. ASSUME NEW i \in 1..(a + b)
      PROVE  both[i] \in Range(s) \cup Range(r)
    <2>1. CASE i <= a
        <3>1. i \in 1..a
            BY <1>1, <2>1
        <3> QED
            BY <1>1, <1>2, <2>1, <3>1 DEF Range
    <2>2. CASE ~(i <= a)
        <3>1. i - a \in 1..b
            BY <1>1, <2>2
        <3> QED
            BY <1>1, <1>2, <2>2, <3>1 DEF Range
    <2> QED
        BY <2>1, <2>2
<1>5. Range(both) \subseteq Range(s) \cup Range(r)
    BY <1>3, <1>4 DEF Range
<1>6. ASSUME NEW x \in Range(s)
      PROVE  x \in Range(both)
    <2>1. PICK i \in 1..a : x = s[i]
        BY <1>1 DEF Range
    <2>2. i \in 1..(a + b) /\ i <= a
        BY <1>1
    <2> QED
        BY <1>2, <1>3, <2>1, <2>2 DEF Range
<1>7. ASSUME NEW x \in Range(r)
      PROVE  x \in Range(both)
    <2>1. PICK i \in 1..b : x = r[i]
        BY <1>1 DEF Range
    <2>2. i + a \in 1..(a + b) /\ ~(i + a <= a) /\ (i + a) - a = i
        BY <1>1
    <2> QED
        BY <1>2, <1>3, <2>1, <2>2 DEF Range
<1> QED
    BY <1>5, <1>6, <1>7 DEF both

\* A page is put in the place of the list.
LEMMA ShowsPage ==
    ASSUME NEW m \in Nat, NEW rs, rs \subseteq 1..m, NEW t \in PageThread, Covers(t, rs),
           t.cursor = 0, \A p \in Range(t.page) : p \in 1..m, t.next <= m, NEW T
    PROVE  ShowsAll(t.page, t.query, rs, T, t.next)
<1>1. \A r \in rs : Matches(r, t.query) =>
          \/ r \in Range(t.page)
          \/ \A x \in Range(t.page) : r > x
          \/ \A x \in Range(t.page) : r < x
    BY DEF Covers
<1>2. ASSUME t.next # 0, NEW r \in rs, Matches(r, t.query), r >= t.next,
             r \notin Range(t.page), ~(\A x \in Range(t.page) : r > x)
      PROVE  FALSE
    <2>1. r < t.next
        BY <1>1, <1>2 DEF Covers
    <2>2. r \in Nat /\ t.next \in Nat
        BY DEF PageThread
    <2> QED
        BY <1>2, <2>1, <2>2
<1>3. t.next # 0 => \A x \in Range(t.page) : x >= t.next
    BY DEF Covers
<1>4. Descending(t.page) /\ (t.query = "text" => Range(t.page) \subseteq Matching)
    BY DEF Covers
<1> QED
    BY <1>1, <1>2, <1>3, <1>4 DEF ShowsAll

\* A page is put behind the list: it follows the list, or the list is empty.
LEMMA ShowsMore ==
    ASSUME NEW m \in Nat, NEW rs, rs \subseteq 1..m, NEW t \in PageThread, Covers(t, rs),
           t.cursor # 0, \A p \in Range(t.page) : p \in 1..m,
           NEW shown \in Seq(Nat), \A x \in Range(shown) : x \in 1..m,
           NEW T, NEW next, ShowsAll(shown, t.query, rs, T, next),
           Range(shown) = {} \/ t.cursor = next, NEW T1,
           \A r : Deletes(T, r) => Deletes(T1, r),
           NEW both, both = shown \o t.page
    PROVE  /\ both \in Seq(Nat) /\ Range(both) = Range(shown) \cup Range(t.page)
           /\ ShowsAll(both, t.query, rs, T1, t.next)
<1> DEFINE page == t.page
           c == t.cursor
           a == Len(shown)
           b == Len(page)
<1>1. page \in Seq(Nat) /\ c \in Nat /\ t.next \in Nat
    BY DEF PageThread
<1>2. /\ a \in Nat /\ DOMAIN shown = 1..a /\ b \in Nat /\ DOMAIN page = 1..b
    BY <1>1, LenProperties
<1>3. /\ both \in Seq(Nat) /\ Len(both) = a + b
      /\ \A i \in 1..(a + b) : both[i] = IF i <= a THEN shown[i] ELSE page[i - a]
    BY <1>1, ConcatProperties
<1>4. DOMAIN both = 1..(a + b)
    BY <1>3, LenProperties
<1>5. Descending(page) /\ \A p \in Range(page) : p < c /\ p \in Nat
    BY DEF Covers
<1>6. Descending(shown) /\ \A x \in Range(shown) : x >= c /\ x \in Nat
    BY DEF ShowsAll
<1>9. Range(both) = Range(shown) \cup Range(page)
    BY <1>1, RangeOfBoth
<1> HIDE DEF a, b, page, c
<1>7. \A i \in 1..a : shown[i] \in Range(shown)
    BY <1>2 DEF Range
<1>8. \A i \in 1..b : page[i] \in Range(page)
    BY <1>2 DEF Range
<1>10. Descending(both)
    <2> SUFFICES ASSUME NEW i \in 1..(a + b), NEW j \in 1..(a + b), i < j
                 PROVE  both[i] > both[j]
        BY <1>4 DEF Descending
    <2>1. CASE j <= a
        <3>1. i \in 1..a /\ j \in 1..a /\ i <= a
            BY <1>2, <2>1
        <3> QED
            BY <1>2, <1>3, <1>6, <2>1, <3>1 DEF Descending
    <2>2. CASE i <= a /\ ~(j <= a)
        <3>1. i \in 1..a /\ j - a \in 1..b
            BY <1>2, <2>2
        <3>2. both[i] = shown[i] /\ both[j] = page[j - a]
            BY <1>3, <2>2
        <3>3. shown[i] >= c /\ page[j - a] < c /\ shown[i] \in Nat /\ page[j - a] \in Nat
            BY <1>5, <1>6, <1>7, <1>8, <3>1
        <3>4. c \in Nat
            BY <1>1 DEF c
        <3> QED
            BY <3>2, <3>3, <3>4
    <2>3. CASE ~(i <= a)
        <3>1. i - a \in 1..b /\ j - a \in 1..b /\ i - a < j - a /\ ~(j <= a)
            BY <1>2, <2>3
        <3>2. both[i] = page[i - a] /\ both[j] = page[j - a]
            BY <1>3, <2>3, <3>1
        <3> QED
            BY <1>2, <1>5, <3>1, <3>2 DEF Descending
    <2> QED
        BY <2>1, <2>2, <2>3
<1>11. t.query = "text" => Range(both) \subseteq Matching
    BY <1>9 DEF ShowsAll, Covers, page
<1>12. c \in Nat /\ c # 0 /\ t.next \in Nat
    BY <1>1 DEF c
\* A row that matches is at the cursor or before it, or after it.
<1>13. ASSUME NEW r \in rs, Matches(r, t.query), r >= c
       PROVE  \/ r \in Range(both) \/ Deletes(T1, r)
              \/ \A x \in Range(both) : r > x
    <2>1. \/ r \in Range(shown) \/ Deletes(T, r)
          \/ \A x \in Range(shown) : r > x
        <3>1. CASE Range(shown) = {}
            BY <3>1
        <3>2. CASE c = next
            BY <1>12, <1>13, <3>2 DEF ShowsAll
        <3> QED
            BY <3>1, <3>2 DEF c
    <2>2. r \in Nat
        OBVIOUS
    <2>3. \A x \in Range(page) : r > x
        BY <1>5, <1>12, <1>13, <2>2
    <2> QED
        BY <1>9, <2>1, <2>3
<1>14. ASSUME NEW r \in rs, Matches(r, t.query), ~(r >= c)
       PROVE  \/ r \in Range(both)
              \/ \A x \in Range(both) : r < x
    <2>1. r \in Nat
        OBVIOUS
    <2>2. r < c
        BY <1>12, <1>14, <2>1
    <2>3. r \in Range(page) \/ \A p \in Range(page) : r < p
        BY <1>14, <2>2 DEF Covers, page, c
    <2>4. \A x \in Range(shown) : r < x
        BY <1>6, <1>12, <2>1, <2>2
    <2> QED
        BY <1>9, <2>3, <2>4
<1>15. ASSUME t.next # 0
       PROVE  /\ t.next \in Range(page) /\ t.next \in Range(both)
              /\ \A x \in Range(both) : x >= t.next
    <2>1. t.next \in Range(page) /\ \A p \in Range(page) : p >= t.next
        BY <1>15 DEF Covers, page
    <2>2. t.next < c
        BY <1>5, <2>1
    <2>3. \A x \in Range(shown) : x >= t.next
        BY <1>6, <1>12, <2>2
    <2> QED
        BY <1>9, <2>1, <2>3
<1>16. ASSUME t.next # 0, NEW r \in rs, Matches(r, t.query), r >= t.next
       PROVE  \/ r \in Range(both) \/ Deletes(T1, r)
              \/ \A x \in Range(both) : r > x
    <2>1. r \in Nat
        OBVIOUS
    <2>2. ~(r < t.next)
        BY <1>12, <1>16, <2>1
    <2> QED
        BY <1>13, <1>14, <1>15, <1>16, <2>2
<1>17. ShowsAll(both, t.query, rs, T1, t.next)
    BY <1>10, <1>11, <1>13, <1>14, <1>15, <1>16 DEF ShowsAll
<1> QED
    BY <1>3, <1>9, <1>17 DEF page
-----------------------------------------------------------------------------
(* The history page: its invariant.                                        *)

HistoryTyped ==
    /\ made \in Nat /\ rows \subseteq 1..made
    /\ list \in Seq(Nat) /\ \A x \in Range(list) : x \in 1..made
    /\ nextCursor \in 0..made /\ pendingRow \in 0..made
    /\ search \in Queries /\ generation \in Nat
    /\ loadsMore \in BOOLEAN /\ loading \in BOOLEAN /\ mixed \in BOOLEAN
    /\ banner \in {"none", "failed", "locked"}
    /\ timers \in Seq(Nat \ {0})

Fitted == Fitting(made, generation, search, doomed, rows)
WorkFits == pageThreads \in Seq(Fitted)
Bringing ==
    /\ OneBrings(pageThreads, generation)
    /\ Follows(pageThreads, generation, loadsMore, mixed, list, nextCursor)
Undoable == pendingRow = 0 \/ pendingRow \in doomed
Showing == Listed /\ ~mixed => ShowsAll(list, search, rows, pageThreads, nextCursor)

HistoryInv == HistoryTyped /\ WorkFits /\ Bringing /\ Undoable /\ Showing

\* What asks for something has its row, and its generation is the present one.
LEMMA AsksFits ==
    ASSUME NEW m \in Nat, NEW g \in Nat, NEW q \in Queries, NEW d, NEW rs,
           NEW kind \in {"refresh", "more", "delete", "clear", "reset", "cleanup"},
           NEW row \in 0..m, kind = "refresh" => row = 0, kind = "more" => row # 0,
           kind = "delete" => row \in d,
           NEW t, t = [kind |-> kind, generation |-> g, query |-> q, cursor |-> row,
                       state |-> "asking", page |-> <<>>, next |-> 0]
    PROVE  t \in Fitting(m, g, q, d, rs)
<1>1. <<>> \in Seq(Nat) /\ Range(<<>>) = {}
    BY EmptySeq DEF Range
<1>2. t \in PageThread
    BY <1>1 DEF PageThread
<1>3. FitsPage(t, m, g, q, d, rs)
    BY <1>1 DEF FitsPage
<1> QED
    BY <1>2, <1>3 DEF Fitting

LEMMA PageInitOK ==
    ASSUME HistoryPageInit
    PROVE  HistoryInv
<1>1. FirstRows \in Nat
    BY PagesAssumption
<1>2. /\ made = FirstRows /\ rows = 1..FirstRows /\ list = <<>> /\ nextCursor = 0
      /\ search = "" /\ generation = 0 /\ loadsMore = FALSE /\ pendingRow = 0
      /\ timers = <<>> /\ loading = FALSE /\ banner = "none" /\ pageThreads = <<>>
      /\ mixed = FALSE
    BY DEF HistoryPageInit
<1>3. /\ <<>> \in Seq(Nat) /\ <<>> \in Seq(Nat \ {0}) /\ <<>> \in Seq(Fitted)
      /\ DOMAIN <<>> = {} /\ Range(<<>>) = {}
    BY EmptySeq DEF Range
<1>4. HistoryTyped
    <2>1. list \in Seq(Nat) /\ (\A x \in Range(list) : x \in 1..made)
          /\ timers \in Seq(Nat \ {0})
        BY <1>2, <1>3
    <2>2. made \in Nat /\ rows \subseteq 1..made /\ nextCursor \in 0..made
          /\ pendingRow \in 0..made /\ generation \in Nat
        <3>1. made \in Nat /\ rows = 1..made /\ generation = 0
              /\ nextCursor = 0 /\ pendingRow = 0
            BY <1>1, <1>2
        <3>2. 0 \in 0..made
            BY <3>1
        <3> QED
            BY <3>1, <3>2
    <2>3. loadsMore \in BOOLEAN /\ loading \in BOOLEAN /\ mixed \in BOOLEAN
          /\ banner \in {"none", "failed", "locked"} /\ search \in Queries
        BY <1>2 DEF Queries
    <2> QED
        BY <2>1, <2>2, <2>3 DEF HistoryTyped
<1>5. WorkFits /\ Bringing /\ Undoable
    BY <1>2, <1>3 DEF WorkFits, Bringing, Undoable, OneBrings, Follows
<1>6. Showing
    BY <1>2, <1>3 DEF Showing, ShowsAll, Descending
<1> QED
    BY <1>4, <1>5, <1>6 DEF HistoryInv

LEMMA SavedKeeps ==
    ASSUME HistoryInv, DictationIsSaved
    PROVE  HistoryInv'
<1>1. /\ made' = made + 1 /\ rows' = rows \cup {made'}
      /\ list' = list /\ nextCursor' = nextCursor /\ search' = search
      /\ generation' = generation /\ loadsMore' = loadsMore /\ pendingRow' = pendingRow
      /\ timers' = timers /\ loading' = loading /\ banner' = banner
      /\ pageThreads' = pageThreads /\ doomed' = doomed /\ mixed' = mixed
    BY DEF DictationIsSaved
<1>2. HistoryTyped /\ WorkFits /\ Bringing /\ Undoable /\ Showing
    BY DEF HistoryInv
<1>3. made \in Nat /\ rows \subseteq 1..made /\ \A x \in Range(list) : x \in 1..made
    BY <1>2 DEF HistoryTyped
<1>4. \A k \in 1..made : k \in 1..(made + 1) /\ made + 1 > k
    BY <1>3
<1>5. HistoryTyped'
    <2>1. made + 1 \in Nat /\ made + 1 \in 1..(made + 1)
        BY <1>3
    <2>2. rows' \subseteq 1..made'
        BY <1>1, <1>3, <1>4, <2>1
    <2>3. 0..made \subseteq 0..(made + 1)
        BY <1>3
    <2> QED
        BY <1>1, <1>2, <1>3, <1>4, <2>1, <2>2, <2>3 DEF HistoryTyped
<1>6. WorkFits'
    <2>1. \A t \in Fitted :
             t \in Fitting(made + 1, generation, search, doomed, rows \cup {made + 1})
        BY <1>3, OneMoreRow DEF Fitted
    <2>2. Fitted' = Fitting(made + 1, generation, search, doomed, rows \cup {made + 1})
        BY <1>1 DEF Fitted
    <2>3. Fitted \subseteq Fitted'
        BY <2>1, <2>2
    <2>4. pageThreads \in Seq(Fitted')
        BY <1>2, <2>3, SeqGrows DEF WorkFits
    <2> QED
        BY <1>1, <2>4 DEF WorkFits
<1>7. Bringing' /\ Undoable'
    BY <1>1, <1>2 DEF Bringing, Undoable
<1>8. Showing'
    <2> SUFFICES ASSUME Listed', ~mixed'
                 PROVE  ShowsAll(list, search, rows \cup {made + 1}, pageThreads, nextCursor)
        BY <1>1 DEF Showing
    <2>1. ShowsAll(list, search, rows, pageThreads, nextCursor)
        BY <1>1, <1>2 DEF Showing, Listed
    <2>2. \A r \in rows \cup {made + 1} : r \in rows \/ \A x \in Range(list) : r > x
        BY <1>3, <1>4
    <2> QED
        BY <2>1, <2>2, ShowsStill
<1> QED
    BY <1>5, <1>6, <1>7, <1>8 DEF HistoryInv

\* The list is read anew: what was on its way will not be shown.
LEMMA Rereads ==
    ASSUME HistoryInv, NEW T \in Seq(Fitted),
           generation' = generation + 1, loadsMore' = FALSE,
           pageThreads' = Append(T, Asks("refresh", 0)),
           search' \in Queries, loading' \in BOOLEAN, banner' \in {"none", "failed", "locked"},
           UNCHANGED <<made, rows, list, nextCursor, pendingRow, timers, doomed, mixed>>,
           Listed' => /\ Listed /\ search' = search
                      /\ \A r \in rows : Deletes(pageThreads, r) => Deletes(T, r)
    PROVE  HistoryInv'
<1>1. HistoryTyped /\ WorkFits /\ Bringing /\ Undoable /\ Showing
    BY DEF HistoryInv
<1>2. made \in Nat /\ generation \in Nat /\ generation + 1 \in Nat
    BY <1>1 DEF HistoryTyped
<1>3. HistoryTyped'
    BY <1>1, <1>2 DEF HistoryTyped
<1> DEFINE t == Asks("refresh", 0)
           S == Fitting(made, generation + 1, search', doomed, rows)
<1>4. t = [kind |-> "refresh", generation |-> generation + 1, query |-> search', cursor |-> 0,
           state |-> "asking", page |-> <<>>, next |-> 0]
    BY DEF Asks
<1>5. t \in S
    BY <1>2, <1>4, AsksFits
<1>6. S = Fitted'
    BY DEF Fitted
<1>7. \A u \in Fitted : u \in S
    BY <1>2, OlderThreads DEF Fitted
<1> HIDE DEF S
<1>8. T \in Seq(S)
    BY <1>7, SeqGrows
<1>9. pageThreads' \in Seq(S) /\ \A r : Deletes(T, r) => Deletes(pageThreads', r)
    BY <1>5, <1>8, Joining, JoiningDeletes
<1>10. WorkFits'
    BY <1>6, <1>9 DEF WorkFits
<1>11. Bringing'
    <2>1. OneBrings(T, generation + 1)
          /\ Follows(T, generation + 1, FALSE, mixed, list, nextCursor)
        BY <1>2, NewGeneration DEF Fitted
    <2>2. ~Brings(t, generation + 1)
        BY <1>4 DEF Brings
    <2> HIDE DEF t
    <2>3. OneBrings(pageThreads', generation + 1)
          /\ Follows(pageThreads', generation + 1, FALSE, mixed, list, nextCursor)
        <3>1. pageThreads' = Append(T, t)
            BY DEF t
        <3> QED
            BY <1>5, <1>8, <2>1, <2>2, <3>1, JoiningOthers, Zenon
    <2> QED
        BY <2>3 DEF Bringing
<1>12. Undoable'
    BY <1>1 DEF Undoable
<1>13. Showing'
    <2> SUFFICES ASSUME Listed', ~mixed
                 PROVE  ShowsAll(list, search, rows, pageThreads', nextCursor)
        BY DEF Showing
    <2>1. ShowsAll(list, search, rows, pageThreads, nextCursor)
        BY <1>1 DEF Showing
    <2>2. \A r \in rows : Deletes(pageThreads, r) => Deletes(pageThreads', r)
        BY <1>9
    <2> QED
        BY <2>1, <2>2, ShowsStill
<1> QED
    BY <1>3, <1>10, <1>11, <1>12, <1>13 DEF HistoryInv

LEMMA RefreshKeeps ==
    ASSUME HistoryInv, UNCHANGED made, RefreshHistory \/ SearchHistory
    PROVE  HistoryInv'
<1>1. HistoryTyped /\ pageThreads \in Seq(Fitted)
    BY DEF HistoryInv, WorkFits
<1>2. /\ generation' = generation + 1 /\ loadsMore' = FALSE /\ mixed' = mixed
      /\ pageThreads' = Append(pageThreads, Asks("refresh", 0))
      /\ loading' = TRUE /\ banner' = IF banner = "failed" THEN "none" ELSE banner
      /\ UNCHANGED <<rows, list, nextCursor, pendingRow, timers, doomed>>
    BY <1>1 DEF RefreshHistory, SearchHistory, RereadList, HistoryTyped
<1>3. search' \in Queries
    BY <1>1 DEF RefreshHistory, SearchHistory, HistoryTyped, Queries
<1>4. banner' \in {"none", "failed", "locked"} /\ loading' \in BOOLEAN
    BY <1>1, <1>2 DEF HistoryTyped
<1>5. ~Listed'
    BY <1>2 DEF Listed
<1> QED
    BY <1>1, <1>2, <1>3, <1>4, <1>5, Rereads

\* Thread i of those there are.
LEMMA ThreadIs ==
    ASSUME HistoryInv, NEW i \in DOMAIN pageThreads
    PROVE  /\ pageThreads[i] \in PageThread /\ pageThreads[i] \in Fitted
           /\ FitsPage(pageThreads[i], made, generation, search, doomed, rows)
<1>1. pageThreads[i] \in Fitted
    BY ElementOfSeq, LenProperties DEF HistoryInv, WorkFits
<1> QED
    BY <1>1 DEF Fitted, Fitting

LEMMA CleanupKeeps ==
    ASSUME HistoryInv, UNCHANGED made, NEW i \in DOMAIN pageThreads, CleanupEnds(i)
    PROVE  HistoryInv'
<1>1. HistoryTyped /\ pageThreads \in Seq(Fitted)
    BY DEF HistoryInv, WorkFits
<1>2. /\ generation' = generation + 1 /\ loadsMore' = FALSE /\ mixed' = mixed
      /\ pageThreads' = Append(RemoveAt(pageThreads, i), Asks("refresh", 0))
      /\ loading' = loading /\ banner' = banner /\ search' = search
      /\ pageThreads[i].kind = "cleanup"
      /\ UNCHANGED <<rows, list, nextCursor, pendingRow, timers, doomed>>
    BY <1>1 DEF CleanupEnds, RereadList, HistoryTyped, Asked, Others
<1>3. /\ RemoveAt(pageThreads, i) \in Seq(Fitted)
      /\ \A r : Deletes(pageThreads, r) => Deletes(RemoveAt(pageThreads, i), r)
    BY <1>1, <1>2, Leaving
<1>4. /\ search' \in Queries /\ loading' \in BOOLEAN
      /\ banner' \in {"none", "failed", "locked"} /\ (Listed' => Listed)
    BY <1>1, <1>2 DEF HistoryTyped, Listed
<1> QED
    BY <1>2, <1>3, <1>4, Rereads

\* One thread leaves, and the list is the same or not shown.
LEMMA OneLeaves ==
    ASSUME HistoryInv, NEW i \in DOMAIN pageThreads,
           pageThreads' = RemoveAt(pageThreads, i), loadsMore' \in BOOLEAN,
           loadsMore \/ ~loadsMore', Brings(pageThreads[i], generation) \/ loadsMore' = loadsMore,
           loading' \in BOOLEAN, banner' \in {"none", "failed", "locked"},
           UNCHANGED <<made, rows, list, nextCursor, pendingRow, timers, doomed, mixed,
                       generation, search>>,
           Listed' => /\ Listed
                      /\ pageThreads[i].kind = "delete" => pageThreads[i].cursor \notin rows
    PROVE  HistoryInv'
<1>1. HistoryTyped /\ WorkFits /\ Bringing /\ Undoable /\ Showing
    BY DEF HistoryInv
<1>2. HistoryTyped'
    BY <1>1 DEF HistoryTyped
<1>3. WorkFits'
    <2>1. Fitted' = Fitted
        BY DEF Fitted
    <2> QED
        BY <1>1, <2>1, Leaving DEF WorkFits
<1>4. /\ \A r : /\ Deletes(pageThreads, r)
                /\ ~(pageThreads[i].kind = "delete" /\ pageThreads[i].cursor = r)
                => Deletes(pageThreads', r)
      /\ OneBrings(pageThreads', generation)
      /\ Brings(pageThreads[i], generation) =>
           \A j \in DOMAIN pageThreads' : ~Brings(pageThreads'[j], generation)
    BY <1>1, Leaving DEF WorkFits, Bringing
<1>5. Bringing'
    <2>1. CASE Brings(pageThreads[i], generation)
        BY <1>4, <2>1 DEF Bringing, Follows
    <2>2. CASE loadsMore' = loadsMore
        <3>1. Follows(pageThreads', generation, loadsMore, mixed, list, nextCursor)
            BY <1>1, LeavingFollows DEF WorkFits, Bringing
        <3> QED
            BY <1>4, <2>2, <3>1 DEF Bringing
    <2> QED
        BY <2>1, <2>2
<1>6. Undoable'
    BY <1>1 DEF Undoable
<1>7. Showing'
    <2> SUFFICES ASSUME Listed', ~mixed
                 PROVE  ShowsAll(list, search, rows, pageThreads', nextCursor)
        BY DEF Showing
    <2>1. ShowsAll(list, search, rows, pageThreads, nextCursor)
        BY <1>1 DEF Showing
    <2>2. \A r \in rows : Deletes(pageThreads, r) => Deletes(pageThreads', r)
        BY <1>4
    <2> QED
        BY <2>1, <2>2, ShowsStill
<1> QED
    BY <1>2, <1>3, <1>5, <1>6, <1>7 DEF HistoryInv
-----------------------------------------------------------------------------
(* The history page: its other steps.                                      *)

LEMMA LoadMoreKeeps ==
    ASSUME HistoryInv, UNCHANGED made, LoadMore
    PROVE  HistoryInv'
<1>1. HistoryTyped /\ WorkFits /\ Bringing /\ Undoable /\ Showing
    BY DEF HistoryInv
<1>2. /\ nextCursor # 0 /\ ~loadsMore /\ loadsMore' = TRUE
      /\ pageThreads' = Append(pageThreads, Asks("more", nextCursor))
      /\ UNCHANGED <<search, generation, rows, list, nextCursor, loading, banner, pendingRow,
                     timers, doomed, mixed>>
    BY DEF LoadMore, shownVars
<1>3. made \in Nat /\ generation \in Nat /\ search \in Queries /\ nextCursor \in 0..made
    BY <1>1 DEF HistoryTyped
<1>4. HistoryTyped'
    BY <1>1, <1>2 DEF HistoryTyped
<1> DEFINE t == Asks("more", nextCursor)
<1>5. t = [kind |-> "more", generation |-> generation, query |-> search,
           cursor |-> nextCursor, state |-> "asking", page |-> <<>>, next |-> 0]
    BY <1>2 DEF Asks
<1>6. t \in Fitted
    BY <1>2, <1>3, <1>5, AsksFits DEF Fitted
<1>7. t.cursor = nextCursor
    BY <1>5
<1>8. pageThreads' = Append(pageThreads, t)
    BY <1>2
<1> HIDE DEF t
<1>9. /\ pageThreads' \in Seq(Fitted)
      /\ \A j \in DOMAIN pageThreads' :
            \/ j \in DOMAIN pageThreads /\ pageThreads'[j] = pageThreads[j]
            \/ pageThreads'[j] = t
      /\ DOMAIN pageThreads = 1..Len(pageThreads) /\ Len(pageThreads) \in Nat
      /\ DOMAIN pageThreads' = 1..(Len(pageThreads) + 1)
      /\ \A r : Deletes(pageThreads, r) => Deletes(pageThreads', r)
    <2>1. pageThreads \in Seq(Fitted)
        BY <1>1 DEF WorkFits
    <2>2. \A r : Deletes(pageThreads, r) => Deletes(pageThreads', r)
        BY <1>6, <1>8, <2>1, JoiningDeletes
    <2> QED
        BY <1>6, <1>8, <2>1, <2>2, Joining
<1>10. WorkFits'
    <2>1. Fitted' = Fitted
        BY <1>2 DEF Fitted
    <2> QED
        BY <1>9, <2>1 DEF WorkFits
<1>11. \A j \in DOMAIN pageThreads : ~Brings(pageThreads[j], generation)
    BY <1>1, <1>2 DEF Bringing, Follows
<1>12. ASSUME NEW j \in DOMAIN pageThreads', Brings(pageThreads'[j], generation)
       PROVE  j = Len(pageThreads) + 1 /\ pageThreads'[j] = t
    <2>1. pageThreads'[j] = t /\ j \notin DOMAIN pageThreads
        <3>1. CASE j \in DOMAIN pageThreads
            <4>1. pageThreads'[j] = pageThreads[j]
                BY <1>1, <1>6, <1>8, <3>1, Joining DEF WorkFits
            <4> QED
                BY <1>11, <1>12, <3>1, <4>1
        <3>2. CASE j \notin DOMAIN pageThreads
            BY <1>9, <3>2
        <3> QED
            BY <3>1, <3>2
    <2> QED
        BY <1>9, <2>1
<1>13. Bringing'
    <2>1. OneBrings(pageThreads', generation)
        BY <1>12 DEF OneBrings
    <2>2. Follows(pageThreads', generation, TRUE, mixed, list, nextCursor)
        BY <1>7, <1>12 DEF Follows
    <2> QED
        BY <1>2, <2>1, <2>2 DEF Bringing
<1>14. Undoable'
    BY <1>1, <1>2 DEF Undoable
<1>15. Showing'
    <2> SUFFICES ASSUME Listed', ~mixed
                 PROVE  ShowsAll(list, search, rows, pageThreads', nextCursor)
        BY <1>2 DEF Showing
    <2>1. ShowsAll(list, search, rows, pageThreads, nextCursor)
        BY <1>1, <1>2 DEF Showing, Listed
    <2> QED
        BY <1>9, <2>1, ShowsStill
<1> QED
    BY <1>4, <1>10, <1>13, <1>14, <1>15 DEF HistoryInv

\* A deletion is carried out: the row leaves the list.
LEMMA Deleting ==
    ASSUME HistoryInv, pendingRow # 0, list' = ListWithout(pendingRow),
           pageThreads' = Append(pageThreads, Asks("delete", pendingRow)),
           timers' \in Seq(Nat \ {0}), pendingRow' \in 0..made,
           doomed \subseteq doomed', pendingRow' = 0 \/ pendingRow' \in doomed',
           UNCHANGED <<made, search, generation, rows, nextCursor, loadsMore, loading, banner,
                       mixed>>
    PROVE  HistoryInv'
<1>1. HistoryTyped /\ WorkFits /\ Bringing /\ Undoable /\ Showing
    BY DEF HistoryInv
<1>2. /\ made \in Nat /\ generation \in Nat /\ search \in Queries /\ pendingRow \in 0..made
      /\ list \in Seq(Nat) /\ \A x \in Range(list) : x \in 1..made
    BY <1>1 DEF HistoryTyped
<1>3. /\ list' \in Seq(Nat) /\ Range(list') = Range(list) \ {pendingRow}
      /\ Descending(list) => Descending(list')
    BY <1>2, WithoutIs
<1>4. HistoryTyped'
    BY <1>1, <1>3 DEF HistoryTyped
<1> DEFINE t == Asks("delete", pendingRow)
           S == Fitting(made, generation, search, doomed', rows)
<1>5. t = [kind |-> "delete", generation |-> generation, query |-> search,
           cursor |-> pendingRow, state |-> "asking", page |-> <<>>, next |-> 0]
    BY DEF Asks
<1>6. pendingRow \in doomed'
    BY <1>1 DEF Undoable
<1>7. t \in S
    BY <1>2, <1>5, <1>6, AsksFits
<1>8. S = Fitted'
    BY DEF Fitted
<1>9. pageThreads \in Seq(S)
    <2>1. \A r \in doomed : r \in doomed' \/ ~Deletes(pageThreads, r)
        OBVIOUS
    <2>2. pageThreads \in Seq(Fitting(made, generation, search, doomed, rows))
        BY <1>1 DEF WorkFits, Fitted
    <2> QED
        BY <2>1, <2>2, OtherDoomed
<1>10. t.kind = "delete" /\ t.cursor = pendingRow /\ ~Brings(t, generation)
    BY <1>5 DEF Brings
<1>11. pageThreads' = Append(pageThreads, t)
    OBVIOUS
<1> HIDE DEF t, S
<1>12. /\ pageThreads' \in Seq(S)
       /\ \A r : Deletes(pageThreads, r) => Deletes(pageThreads', r)
       /\ Deletes(pageThreads', pendingRow)
    <2>1. pageThreads' \in Seq(S)
        BY <1>7, <1>9, <1>11, Joining
    <2>2. /\ \A r : Deletes(pageThreads, r) => Deletes(pageThreads', r)
          /\ t.kind = "delete" => Deletes(pageThreads', t.cursor)
        BY <1>7, <1>9, <1>11, JoiningDeletes, Zenon
    <2> QED
        BY <1>10, <2>1, <2>2
<1>13. WorkFits'
    BY <1>8, <1>12 DEF WorkFits
<1>14. Bringing'
    <2>1. OneBrings(pageThreads', generation)
          /\ Follows(pageThreads', generation, loadsMore, mixed, list, nextCursor)
        BY <1>1, <1>7, <1>9, <1>10, <1>11, JoiningOthers, Zenon DEF Bringing
    <2>2. Range(list) = {} => Range(list') = {}
        BY <1>3
    <2>3. Follows(pageThreads', generation, loadsMore, mixed, list', nextCursor)
        BY <2>1, <2>2 DEF Follows
    <2> QED
        BY <2>1, <2>3 DEF Bringing
<1>15. Undoable'
    BY DEF Undoable
<1>16. Showing'
    <2> SUFFICES ASSUME Listed', ~mixed
                 PROVE  ShowsAll(list', search, rows, pageThreads', nextCursor)
        BY DEF Showing
    <2>1. ShowsAll(list, search, rows, pageThreads, nextCursor)
        BY <1>1 DEF Showing, Listed
    <2>2. Descending(list')
        BY <1>3, <2>1 DEF ShowsAll
    <2> QED
        BY <1>3, <1>12, <2>1, <2>2, ShowsWithout
<1> QED
    BY <1>4, <1>13, <1>14, <1>15, <1>16 DEF HistoryInv

\* The user deletes a row or takes that back; no thread is started.
LEMMA Choosing ==
    ASSUME HistoryInv, timers' \in Seq(Nat \ {0}), pendingRow' \in 0..made,
           pendingRow' = 0 \/ pendingRow' \in doomed',
           \A r \in doomed : r \in doomed' \/ ~Deletes(pageThreads, r),
           UNCHANGED <<made, search, generation, rows, list, nextCursor, loadsMore, loading,
                       banner, mixed, pageThreads>>
    PROVE  HistoryInv'
<1>1. HistoryTyped /\ WorkFits /\ Bringing /\ Undoable /\ Showing
    BY DEF HistoryInv
<1>2. HistoryTyped'
    BY <1>1 DEF HistoryTyped
<1>3. WorkFits'
    <2>1. pageThreads \in Seq(Fitting(made, generation, search, doomed, rows))
        BY <1>1 DEF WorkFits, Fitted
    <2>2. pageThreads \in Seq(Fitting(made, generation, search, doomed', rows))
        BY <2>1, OtherDoomed
    <2>3. Fitted' = Fitting(made, generation, search, doomed', rows)
        BY DEF Fitted
    <2> QED
        BY <2>2, <2>3 DEF WorkFits
<1>4. Bringing' /\ Undoable' /\ Showing'
    BY <1>1 DEF Bringing, Undoable, Showing, Listed
<1> QED
    BY <1>2, <1>3, <1>4 DEF HistoryInv

LEMMA DeleteKeeps ==
    ASSUME HistoryInv, UNCHANGED made, DeleteRow
    PROVE  HistoryInv'
<1>1. HistoryTyped /\ WorkFits /\ Bringing /\ Undoable /\ Showing
    BY DEF HistoryInv
<1>2. PICK row \in VisibleRows :
          /\ pendingRow' = row /\ timers' = Append(timers, row)
          /\ doomed' = doomed \cup {row}
    BY DEF DeleteRow
<1>3. /\ UNCHANGED <<search, generation, rows, nextCursor, loadsMore, loading, banner, mixed>>
      /\ pendingRow = 0 => UNCHANGED <<list, pageThreads>>
      /\ pendingRow # 0 =>
            /\ list' = ListWithout(pendingRow)
            /\ pageThreads' = Append(pageThreads, Asks("delete", pendingRow))
    BY DEF DeleteRow
<1>4. row \in 1..made /\ made \in Nat
    BY <1>1, <1>2 DEF VisibleRows, HistoryTyped
<1>5. pendingRow' \in 0..made /\ pendingRow' \in doomed' /\ doomed \subseteq doomed'
    BY <1>2, <1>4
<1>6. timers' \in Seq(Nat \ {0})
    <2>1. timers \in Seq(Nat \ {0}) /\ row \in Nat \ {0}
        BY <1>1, <1>4 DEF HistoryTyped
    <2> QED
        BY <1>2, <2>1, AppendProperties
<1>7. CASE pendingRow = 0
    BY <1>3, <1>5, <1>6, <1>7, Choosing
<1>8. CASE pendingRow # 0
    BY <1>3, <1>5, <1>6, <1>8, Deleting
<1> QED
    BY <1>7, <1>8

LEMMA UndoKeeps ==
    ASSUME HistoryInv, UNCHANGED made, UndoDelete
    PROVE  HistoryInv'
<1>1. HistoryTyped
    BY DEF HistoryInv
<1>2. /\ pendingRow' = 0
      /\ doomed' = IF UnderWay(pendingRow) THEN doomed ELSE doomed \ {pendingRow}
      /\ UNCHANGED <<search, generation, rows, list, nextCursor, loadsMore, loading, banner,
                     mixed, pageThreads, timers>>
    BY DEF UndoDelete, shownVars
<1>3. UnderWay(pendingRow) <=> Deletes(pageThreads, pendingRow)
    BY DEF UnderWay, Deletes
<1>4. \A r \in doomed : r \in doomed' \/ ~Deletes(pageThreads, r)
    BY <1>2, <1>3
<1>5. timers' \in Seq(Nat \ {0}) /\ pendingRow' \in 0..made
    BY <1>1, <1>2 DEF HistoryTyped
<1> QED
    BY <1>2, <1>4, <1>5, Choosing

LEMMA TimerKeeps ==
    ASSUME HistoryInv, UNCHANGED made, TimerFires
    PROVE  HistoryInv'
<1>1. HistoryTyped
    BY DEF HistoryInv
<1>2. /\ timers # <<>> /\ timers' = Tail(timers)
      /\ UNCHANGED <<search, generation, rows, nextCursor, loadsMore, loading, banner, doomed,
                     mixed>>
      /\ pendingRow = Head(timers) =>
            /\ pendingRow' = 0 /\ list' = ListWithout(pendingRow)
            /\ pageThreads' = Append(pageThreads, Asks("delete", pendingRow))
      /\ pendingRow # Head(timers) => UNCHANGED <<pendingRow, list, pageThreads>>
    BY DEF TimerFires
<1>3. timers' \in Seq(Nat \ {0}) /\ Head(timers) \in Nat \ {0}
    <2>1. timers \in Seq(Nat \ {0})
        BY <1>1 DEF HistoryTyped
    <2> QED
        BY <1>2, <2>1, HeadTailProperties
<1>4. made \in Nat /\ pendingRow \in 0..made /\ (pendingRow = 0 \/ pendingRow \in doomed)
    BY <1>1 DEF HistoryTyped, HistoryInv, Undoable
<1>5. CASE pendingRow = Head(timers)
    <2>1. pendingRow' = 0 /\ 0 \in 0..made /\ pendingRow # 0
        BY <1>2, <1>3, <1>4, <1>5
    <2> QED
        BY <1>2, <1>3, <1>5, <2>1, Deleting
<1>6. CASE pendingRow # Head(timers)
    <2>1. pendingRow' \in 0..made /\ (pendingRow' = 0 \/ pendingRow' \in doomed')
        BY <1>2, <1>4, <1>6
    <2>2. \A r \in doomed : r \in doomed' \/ ~Deletes(pageThreads, r)
        BY <1>2
    <2> QED
        BY <1>2, <1>3, <1>6, <2>1, <2>2, Choosing
<1> QED
    BY <1>5, <1>6

LEMMA RemoveManyKeeps ==
    ASSUME HistoryInv, UNCHANGED made, RemoveMany
    PROVE  HistoryInv'
<1>1. HistoryTyped /\ WorkFits /\ Bringing /\ Undoable /\ Showing
    BY DEF HistoryInv
<1>2. PICK kind \in {"clear", "reset", "cleanup"} :
          pageThreads' = Append(pageThreads, Asks(kind, 0))
    BY DEF RemoveMany
<1>3. UNCHANGED <<search, generation, rows, list, nextCursor, loading, banner, loadsMore,
                  pendingRow, timers, doomed, mixed>>
    BY DEF RemoveMany, shownVars
<1>4. made \in Nat /\ generation \in Nat /\ search \in Queries /\ 0 \in 0..made
    BY <1>1 DEF HistoryTyped
<1>5. HistoryTyped'
    BY <1>1, <1>3 DEF HistoryTyped
<1> DEFINE t == Asks(kind, 0)
<1>6. t = [kind |-> kind, generation |-> generation, query |-> search, cursor |-> 0,
           state |-> "asking", page |-> <<>>, next |-> 0]
    BY <1>3 DEF Asks
<1>7. kind \in {"refresh", "more", "delete", "clear", "reset", "cleanup"}
      /\ kind # "refresh" /\ kind # "more" /\ kind # "delete"
    OBVIOUS
<1>8. t \in Fitted
    BY <1>4, <1>6, <1>7, AsksFits DEF Fitted
<1>9. ~Brings(t, generation)
    BY <1>6 DEF Brings
<1>10. pageThreads' = Append(pageThreads, t)
    BY <1>2
<1> HIDE DEF t
<1>11. /\ pageThreads' \in Seq(Fitted)
       /\ \A r : Deletes(pageThreads, r) => Deletes(pageThreads', r)
    BY <1>1, <1>8, <1>10, Joining, JoiningDeletes DEF WorkFits
<1>12. WorkFits'
    <2>1. Fitted' = Fitted
        BY <1>3 DEF Fitted
    <2> QED
        BY <1>11, <2>1 DEF WorkFits
<1>13. Bringing'
    <2>1. OneBrings(pageThreads', generation)
          /\ Follows(pageThreads', generation, loadsMore, mixed, list, nextCursor)
        BY <1>1, <1>8, <1>9, <1>10, JoiningOthers, Zenon DEF Bringing, WorkFits
    <2> QED
        BY <1>3, <2>1 DEF Bringing
<1>14. Undoable'
    BY <1>1, <1>3 DEF Undoable
<1>15. Showing'
    <2> SUFFICES ASSUME Listed', ~mixed
                 PROVE  ShowsAll(list, search, rows, pageThreads', nextCursor)
        BY <1>3 DEF Showing
    <2>1. ShowsAll(list, search, rows, pageThreads, nextCursor)
        BY <1>1, <1>3 DEF Showing, Listed
    <2> QED
        BY <1>11, <2>1, ShowsStill
<1> QED
    BY <1>5, <1>12, <1>13, <1>14, <1>15 DEF HistoryInv
\* A request is answered, or fails; with the answer rows may go.
LEMMA Replying ==
    ASSUME HistoryInv, NEW i \in DOMAIN pageThreads, rows' \subseteq rows,
           NEW t \in Fitting(made, generation, search, doomed, rows'),
           t.kind = pageThreads[i].kind, t.generation = pageThreads[i].generation,
           t.cursor = pageThreads[i].cursor, pageThreads' = [pageThreads EXCEPT ![i] = t],
           UNCHANGED <<made, search, generation, list, nextCursor, loadsMore, pendingRow,
                       timers, doomed, loading, banner, mixed>>
    PROVE  HistoryInv'
<1>1. HistoryTyped /\ WorkFits /\ Bringing /\ Undoable /\ Showing
    BY DEF HistoryInv
<1>2. HistoryTyped'
    BY <1>1 DEF HistoryTyped
<1> DEFINE S == Fitting(made, generation, search, doomed, rows')
<1>3. \A u \in Fitted : u \in S
    BY RowsGone DEF Fitted
<1>4. S = Fitted'
    BY DEF Fitted
<1> HIDE DEF S
<1>5. pageThreads \in Seq(S)
    BY <1>1, <1>3, SeqGrows DEF WorkFits
<1>6. t \in S
    BY DEF S
<1>7. /\ pageThreads' \in Seq(S)
      /\ \A r : Deletes(pageThreads, r) => Deletes(pageThreads', r)
      /\ OneBrings(pageThreads, generation) => OneBrings(pageThreads', generation)
      /\ Follows(pageThreads, generation, loadsMore, mixed, list, nextCursor) =>
         Follows(pageThreads', generation, loadsMore, mixed, list, nextCursor)
    BY <1>5, <1>6, Answering
<1>8. WorkFits'
    BY <1>4, <1>7 DEF WorkFits
<1>9. Bringing' /\ Undoable'
    BY <1>1, <1>7 DEF Bringing, Undoable
<1>10. Showing'
    <2> SUFFICES ASSUME Listed', ~mixed
                 PROVE  ShowsAll(list, search, rows', pageThreads', nextCursor)
        BY DEF Showing
    <2>1. ShowsAll(list, search, rows, pageThreads, nextCursor)
        BY <1>1 DEF Showing, Listed
    <2> QED
        BY <1>7, <2>1, ShowsStill
<1> QED
    BY <1>2, <1>8, <1>9, <1>10 DEF HistoryInv

LEMMA AnswersKeeps ==
    ASSUME HistoryInv, UNCHANGED made, NEW i \in DOMAIN pageThreads, StorageAnswers(i)
    PROVE  HistoryInv'
<1> DEFINE t == pageThreads[i]
           page == PageOf(t.query, t.cursor)
           next == CursorAfter(t.query, t.cursor)
           u == [t EXCEPT !.state = "answered", !.page = page, !.next = next]
<1>1. /\ HistoryTyped /\ t \in PageThread
      /\ FitsPage(t, made, generation, search, doomed, rows)
    BY ThreadIs DEF HistoryInv
<1>2. PICK old \in 1..2 : rows' = rows \ Removed(t, old)
    BY DEF StorageAnswers
<1>3. /\ pageThreads' = [pageThreads EXCEPT ![i] = u]
      /\ UNCHANGED <<search, generation, list, nextCursor, loadsMore, pendingRow,
                     timers, doomed, loading, banner, mixed>>
    BY DEF StorageAnswers, shownVars
<1>4. rows' \subseteq rows /\ (t.kind = "delete" => t.cursor \notin rows')
    BY <1>2 DEF Removed
<1>5. /\ u.kind = t.kind /\ u.generation = t.generation /\ u.cursor = t.cursor
      /\ u.query = t.query /\ u.state = "answered" /\ u.page = page /\ u.next = next
    BY <1>1 DEF PageThread
<1>6. t.query \in Queries /\ t.cursor \in Nat /\ made \in Nat /\ rows \subseteq 1..made
    BY <1>1 DEF PageThread, HistoryTyped
<1>7. u = [t EXCEPT !.state = "answered", !.page = page, !.next = next]
    OBVIOUS
<1> HIDE DEF u, page, next, t
<1>8. /\ page \in Seq(Nat) /\ \A p \in Range(page) : p \in 1..made
      /\ next \in 0..made /\ Covers(u, rows)
    <2>1. u.page = PageOf(t.query, t.cursor) /\ u.next = CursorAfter(t.query, t.cursor)
        BY <1>5 DEF page, next
    <2> QED
        BY <1>5, <1>6, <2>1, PageIs
<1>9. u \in PageThread
    <2>1. next \in Nat
        BY <1>6, <1>8
    <2> QED
        BY <1>1, <1>7, <1>8, <2>1 DEF PageThread
<1>10. Covers(u, rows')
    BY <1>4, <1>8 DEF Covers
<1>11. FitsPage(u, made, generation, search, doomed, rows')
    <2>1. u.next <= made
        BY <1>5, <1>6, <1>8
    <2> QED
        BY <1>1, <1>4, <1>5, <1>8, <1>10, <2>1 DEF FitsPage
<1>12. u \in Fitting(made, generation, search, doomed, rows')
    BY <1>9, <1>11 DEF Fitting
<1>13. u.kind = pageThreads[i].kind /\ u.generation = pageThreads[i].generation
       /\ u.cursor = pageThreads[i].cursor
    BY <1>5 DEF t
<1> QED
    BY <1>3, <1>4, <1>12, <1>13, Replying

LEMMA RefusesKeeps ==
    ASSUME HistoryInv, UNCHANGED made, NEW i \in DOMAIN pageThreads, StorageRefuses(i)
    PROVE  HistoryInv'
<1>1. PICK error \in {"locked", "failed"} :
          pageThreads' = [pageThreads EXCEPT ![i].state = error]
    BY DEF StorageRefuses
<1>2. UNCHANGED <<rows, search, generation, list, nextCursor, loadsMore, pendingRow,
                  timers, doomed, loading, banner, mixed>>
    BY DEF StorageRefuses, shownVars
<1> DEFINE t == pageThreads[i]
           u == [t EXCEPT !.state = error]
<1>3. t \in PageThread /\ FitsPage(t, made, generation, search, doomed, rows)
    BY ThreadIs
<1>4. pageThreads' = [pageThreads EXCEPT ![i] = u]
    BY <1>1
<1>5. /\ u \in PageThread /\ u.state = error
      /\ u.kind = t.kind /\ u.generation = t.generation /\ u.cursor = t.cursor
      /\ u.query = t.query /\ u.page = t.page /\ u.next = t.next
    BY <1>3 DEF PageThread
<1> HIDE DEF u
<1>6. FitsPage(u, made, generation, search, doomed, rows)
    BY <1>3, <1>5 DEF FitsPage
<1>7. u \in Fitting(made, generation, search, doomed, rows')
    BY <1>2, <1>5, <1>6 DEF Fitting
<1> QED
    BY <1>2, <1>4, <1>5, <1>7, Replying

-----------------------------------------------------------------------------
(* The closures.                                                           *)

LEMMA ListArrivesKeeps ==
    ASSUME HistoryInv, UNCHANGED made, NEW i \in DOMAIN pageThreads, ListArrives(i)
    PROVE  HistoryInv'
<1> DEFINE t == pageThreads[i]
<1>1. /\ HistoryTyped /\ WorkFits /\ Bringing /\ Undoable /\ Showing
      /\ t \in PageThread /\ FitsPage(t, made, generation, search, doomed, rows)
    BY ThreadIs DEF HistoryInv
<1>2. /\ t.kind = "refresh" /\ t.state = "answered"
      /\ pageThreads' = RemoveAt(pageThreads, i)
      /\ UNCHANGED <<rows, search, generation, loadsMore, pendingRow, timers, doomed>>
    BY DEF ListArrives, Asked, Others
<1>3. CASE ~Current(t)
    <2>1. UNCHANGED <<list, nextCursor, loading, banner, mixed>>
        BY <1>3 DEF ListArrives, shownVars
    <2>2. /\ loadsMore' \in BOOLEAN /\ loading' \in BOOLEAN
          /\ banner' \in {"none", "failed", "locked"} /\ (Listed' => Listed)
        BY <1>1, <1>2, <2>1 DEF HistoryTyped, Listed
    <2> QED
        BY <1>1, <1>2, <2>1, <2>2, OneLeaves DEF HistoryTyped
<1>4. CASE Current(t)
    <2>1. /\ list' = t.page /\ nextCursor' = t.next /\ loading' = FALSE /\ banner' = "none"
          /\ mixed' = \E j \in DOMAIN pageThreads :
                         pageThreads[j].kind = "more" /\ Current(pageThreads[j])
        BY <1>4 DEF ListArrives
    <2>2. /\ t.page \in Seq(Nat) /\ \A p \in Range(t.page) : p \in 1..made
          /\ t.next \in 0..made /\ t.cursor = 0 /\ Covers(t, rows) /\ t.query = search
          /\ made \in Nat /\ rows \subseteq 1..made /\ t.next <= made
        <3>1. t.next \in Nat /\ t.next <= made /\ made \in Nat
            BY <1>1 DEF PageThread, FitsPage, HistoryTyped
        <3>2. t.next \in 0..made
            BY <3>1
        <3> QED
            BY <1>1, <1>2, <1>4, <3>1, <3>2 DEF PageThread, FitsPage, HistoryTyped, Current
    <2>3. HistoryTyped'
        <3>1. mixed' \in BOOLEAN
            BY <2>1
        <3>2. list' \in Seq(Nat) /\ \A x \in Range(list') : x \in 1..made
            BY <2>1, <2>2
        <3> QED
            BY <1>1, <1>2, <2>1, <2>2, <3>1, <3>2 DEF HistoryTyped
    <2>4. WorkFits'
        <3>1. Fitted' = Fitted
            BY <1>2 DEF Fitted
        <3> QED
            BY <1>1, <1>2, <3>1, Leaving DEF WorkFits
    <2>5. Bringing'
        <3>1. /\ OneBrings(pageThreads', generation)
              /\ \A j \in DOMAIN pageThreads' : \E k \in DOMAIN pageThreads :
                    pageThreads'[j] = pageThreads[k]
            BY <1>1, <1>2, Leaving DEF WorkFits, Bringing
        <3>2. ASSUME NEW j \in DOMAIN pageThreads', Brings(pageThreads'[j], generation)
              PROVE  loadsMore /\ mixed'
            <4>1. PICK k \in DOMAIN pageThreads : pageThreads'[j] = pageThreads[k]
                BY <3>1
            <4>2. Brings(pageThreads[k], generation)
                BY <3>2, <4>1
            <4>3. loadsMore
                BY <1>1, <4>2 DEF Bringing, Follows
            <4>4. \E n \in DOMAIN pageThreads :
                     pageThreads[n].kind = "more" /\ Current(pageThreads[n])
                BY <4>2 DEF Brings, Current
            <4> QED
                BY <2>1, <4>3, <4>4
        <3>3. Follows(pageThreads', generation, loadsMore, mixed', list', nextCursor')
            BY <3>2 DEF Follows
        <3> QED
            BY <1>2, <3>1, <3>3 DEF Bringing
    <2>6. Undoable'
        BY <1>1, <1>2 DEF Undoable
    <2>7. Showing'
        <3>1. ShowsAll(t.page, t.query, rows, pageThreads', t.next)
            BY <1>1, <2>2, ShowsPage
        <3> QED
            BY <1>2, <2>1, <2>2, <3>1 DEF Showing
    <2> QED
        BY <2>3, <2>4, <2>5, <2>6, <2>7 DEF HistoryInv
<1> QED
    BY <1>3, <1>4

LEMMA MoreArrivesKeeps ==
    ASSUME HistoryInv, UNCHANGED made, NEW i \in DOMAIN pageThreads, MoreArrives(i)
    PROVE  HistoryInv'
<1> DEFINE t == pageThreads[i]
<1>1. /\ HistoryTyped /\ WorkFits /\ Bringing /\ Undoable /\ Showing
      /\ t \in PageThread /\ FitsPage(t, made, generation, search, doomed, rows)
    BY ThreadIs DEF HistoryInv
<1>2. /\ t.kind = "more" /\ t.state = "answered"
      /\ pageThreads' = RemoveAt(pageThreads, i)
      /\ UNCHANGED <<rows, search, generation, loading, banner, pendingRow, timers, doomed,
                     mixed>>
    BY DEF MoreArrives, Asked, Others
<1>3. CASE ~Current(t)
    <2>1. UNCHANGED <<list, nextCursor, loadsMore>>
        BY <1>3 DEF MoreArrives
    <2>2. /\ loadsMore' \in BOOLEAN /\ loading' \in BOOLEAN
          /\ banner' \in {"none", "failed", "locked"} /\ (Listed' => Listed)
        BY <1>1, <1>2, <2>1 DEF HistoryTyped, Listed
    <2> QED
        BY <1>1, <1>2, <2>1, <2>2, OneLeaves DEF HistoryTyped
<1>4. CASE Current(t)
    <2>1. list' = list \o t.page /\ nextCursor' = t.next /\ loadsMore' = FALSE
        BY <1>4 DEF MoreArrives
    <2>2. /\ t.page \in Seq(Nat) /\ \A p \in Range(t.page) : p \in 1..made
          /\ t.next \in 0..made /\ t.cursor # 0 /\ Covers(t, rows) /\ t.query = search
          /\ made \in Nat /\ rows \subseteq 1..made /\ t.next <= made
          /\ list \in Seq(Nat) /\ \A x \in Range(list) : x \in 1..made
        <3>1. t.next \in Nat /\ t.next <= made /\ made \in Nat
            BY <1>1 DEF PageThread, FitsPage, HistoryTyped
        <3>2. t.next \in 0..made
            BY <3>1
        <3> QED
            BY <1>1, <1>2, <1>4, <3>1, <3>2 DEF PageThread, FitsPage, HistoryTyped, Current
    <2>3. HistoryTyped'
        <3>1. list' \in Seq(Nat)
            BY <2>1, <2>2, ConcatProperties
        <3>2. \A x \in Range(list') : x \in 1..made
            BY <2>1, <2>2, RangeOfBoth
        <3> QED
            BY <1>1, <1>2, <2>1, <2>2, <3>1, <3>2 DEF HistoryTyped
    <2>4. WorkFits'
        <3>1. Fitted' = Fitted
            BY <1>2 DEF Fitted
        <3> QED
            BY <1>1, <1>2, <3>1, Leaving DEF WorkFits
    <2>5. Brings(t, generation)
        BY <1>2, <1>4 DEF Brings, Current
    <2>6. Bringing'
        <3>1. /\ OneBrings(pageThreads', generation)
              /\ \A j \in DOMAIN pageThreads' : ~Brings(pageThreads'[j], generation)
            BY <1>1, <1>2, <2>5, Leaving DEF WorkFits, Bringing
        <3> QED
            BY <1>2, <3>1 DEF Bringing, Follows
    <2>7. Undoable'
        BY <1>1, <1>2 DEF Undoable
    <2>8. Showing'
        <3> SUFFICES ASSUME Listed', ~mixed
                     PROVE  ShowsAll(list', search, rows, pageThreads', t.next)
            BY <1>2, <2>1 DEF Showing
        <3>1. ShowsAll(list, t.query, rows, pageThreads, nextCursor)
            BY <1>1, <1>2, <2>2 DEF Showing, Listed
        <3>2. Range(list) = {} \/ t.cursor = nextCursor
            BY <1>1, <2>5 DEF Bringing, Follows
        <3>3. \A r : Deletes(pageThreads, r) => Deletes(pageThreads', r)
            BY <1>1, <1>2, Leaving DEF WorkFits
        <3> QED
            BY <1>1, <2>1, <2>2, <3>1, <3>2, <3>3, ShowsMore
    <2> QED
        BY <2>3, <2>4, <2>6, <2>7, <2>8 DEF HistoryInv
<1> QED
    BY <1>3, <1>4

LEMMA ReadFailsKeeps ==
    ASSUME HistoryInv, UNCHANGED made, NEW i \in DOMAIN pageThreads, ReadFails(i)
    PROVE  HistoryInv'
<1> DEFINE t == pageThreads[i]
<1>1. HistoryTyped
    BY DEF HistoryInv
<1>2. /\ t.kind \in {"refresh", "more"} /\ t.state \in {"locked", "failed"}
      /\ pageThreads' = RemoveAt(pageThreads, i)
      /\ UNCHANGED <<rows, list, nextCursor, search, generation, pendingRow, timers, doomed,
                     mixed>>
    BY DEF ReadFails, Asked, Others
<1>3. CASE ~Current(t)
    <2>1. UNCHANGED <<loading, banner, loadsMore>>
        BY <1>3 DEF ReadFails
    <2>2. /\ loadsMore' \in BOOLEAN /\ loading' \in BOOLEAN
          /\ banner' \in {"none", "failed", "locked"} /\ (Listed' => Listed)
        BY <1>1, <2>1 DEF HistoryTyped, Listed
    <2> QED
        BY <1>1, <1>2, <2>1, <2>2, OneLeaves DEF HistoryTyped
<1>4. CASE Current(t)
    <2>1. /\ banner' = t.state
          /\ loading' = (t.kind = "more" /\ loading)
          /\ loadsMore' = (t.kind = "refresh" /\ loadsMore)
        BY <1>4 DEF ReadFails
    <2>2. /\ loadsMore' \in BOOLEAN /\ loading' \in BOOLEAN
          /\ banner' \in {"none", "failed", "locked"} /\ ~Listed'
          /\ loadsMore \/ ~loadsMore'
        BY <1>1, <1>2, <2>1 DEF HistoryTyped, Listed
    <2>3. Brings(t, generation) \/ loadsMore' = loadsMore
        BY <1>1, <1>2, <1>4, <2>1 DEF HistoryTyped, Brings, Current
    <2> QED
        BY <1>2, <2>2, <2>3, OneLeaves
<1> QED
    BY <1>3, <1>4

LEMMA DeleteEndsKeeps ==
    ASSUME HistoryInv, UNCHANGED made, NEW i \in DOMAIN pageThreads, DeleteEnds(i)
    PROVE  HistoryInv'
<1> DEFINE t == pageThreads[i]
<1>1. /\ HistoryTyped /\ pageThreads \in Seq(Fitted)
      /\ t \in PageThread /\ FitsPage(t, made, generation, search, doomed, rows)
    BY ThreadIs DEF HistoryInv, WorkFits
<1>2. /\ t.kind = "delete" /\ search' = search
      /\ UNCHANGED <<rows, list, nextCursor, pendingRow, timers, doomed, mixed>>
    BY DEF DeleteEnds
<1>3. CASE t.state = "answered"
    <2>1. /\ pageThreads' = RemoveAt(pageThreads, i)
          /\ UNCHANGED <<loading, banner, generation, loadsMore>>
        BY <1>3 DEF DeleteEnds, Others
    <2>2. /\ loadsMore' \in BOOLEAN /\ loading' \in BOOLEAN
          /\ banner' \in {"none", "failed", "locked"} /\ (Listed' => Listed)
        BY <1>1, <2>1 DEF HistoryTyped, Listed
    <2>3. t.cursor \notin rows
        BY <1>1, <1>2, <1>3 DEF FitsPage
    <2> QED
        BY <1>1, <1>2, <2>1, <2>2, <2>3, OneLeaves DEF HistoryTyped
<1>4. CASE t.state # "answered"
    <2>1. /\ generation' = generation + 1 /\ loadsMore' = FALSE
          /\ pageThreads' = Append(RemoveAt(pageThreads, i), Asks("refresh", 0))
          /\ loading' = TRUE
          /\ banner' = IF t.state = "locked" THEN "locked" ELSE "none"
        BY <1>4 DEF DeleteEnds, Others
    <2>2. RemoveAt(pageThreads, i) \in Seq(Fitted)
        BY <1>1, Leaving
    <2>3. /\ search' \in Queries /\ loading' \in BOOLEAN
          /\ banner' \in {"none", "failed", "locked"} /\ ~Listed'
        BY <1>1, <1>2, <2>1 DEF HistoryTyped, Listed
    <2> QED
        BY <1>2, <2>1, <2>2, <2>3, Rereads
<1> QED
    BY <1>3, <1>4

LEMMA RemovedManyKeeps ==
    ASSUME HistoryInv, UNCHANGED made, NEW i \in DOMAIN pageThreads, RemovedMany(i)
    PROVE  HistoryInv'
<1> DEFINE t == pageThreads[i]
<1>1. HistoryTyped /\ WorkFits /\ Bringing /\ Undoable /\ Showing
    BY DEF HistoryInv
<1>2. /\ list' = <<>> /\ nextCursor' = 0 /\ pendingRow' = 0
      /\ banner' = IF t.kind = "reset" /\ banner = "locked" THEN "none" ELSE banner
      /\ pageThreads' = RemoveAt(pageThreads, i)
      /\ UNCHANGED <<rows, search, generation, loadsMore, timers, loading, doomed, mixed>>
    BY DEF RemovedMany, Others
<1>3. <<>> \in Seq(Nat) /\ Range(<<>>) = {} /\ DOMAIN <<>> = {}
    BY EmptySeq DEF Range
<1>4. HistoryTyped'
    <2>1. 0 \in 0..made
        BY <1>1 DEF HistoryTyped
    <2>2. banner' \in {"none", "failed", "locked"}
        BY <1>1, <1>2 DEF HistoryTyped
    <2>3. list' \in Seq(Nat) /\ \A x \in Range(list') : x \in 1..made
        BY <1>2, <1>3
    <2> QED
        BY <1>1, <1>2, <2>1, <2>2, <2>3 DEF HistoryTyped
<1>5. WorkFits'
    <2>1. Fitted' = Fitted
        BY <1>2 DEF Fitted
    <2> QED
        BY <1>1, <1>2, <2>1, Leaving DEF WorkFits
<1>6. Bringing'
    <2>1. OneBrings(pageThreads', generation)
        BY <1>1, <1>2, Leaving DEF WorkFits, Bringing
    <2>2. Follows(pageThreads', generation, loadsMore, mixed, list, nextCursor)
        BY <1>1, <1>2, LeavingFollows DEF WorkFits, Bringing
    <2>3. Follows(pageThreads', generation, loadsMore, mixed, <<>>, 0)
        BY <1>3, <2>2 DEF Follows
    <2> QED
        BY <1>2, <2>1, <2>3 DEF Bringing
<1>7. Undoable'
    BY <1>2 DEF Undoable
<1>8. Showing'
    <2>1. ShowsAll(<<>>, search, rows, pageThreads', 0)
        BY <1>3 DEF ShowsAll, Descending
    <2> QED
        BY <1>2, <2>1 DEF Showing
<1> QED
    BY <1>4, <1>5, <1>6, <1>7, <1>8 DEF HistoryInv

LEMMA RemoveFailsKeeps ==
    ASSUME HistoryInv, UNCHANGED made, NEW i \in DOMAIN pageThreads, RemoveFails(i)
    PROVE  HistoryInv'
<1> DEFINE t == pageThreads[i]
<1>1. HistoryTyped
    BY DEF HistoryInv
<1>2. /\ t.kind # "delete" /\ t.state \in {"locked", "failed"}
      /\ banner' = IF t.kind = "reset" THEN t.state ELSE banner
      /\ pageThreads' = RemoveAt(pageThreads, i)
      /\ UNCHANGED <<rows, list, nextCursor, search, generation, loadsMore, pendingRow,
                     timers, loading, doomed, mixed>>
    BY DEF RemoveFails, Asked, Others
<1>3. /\ loadsMore' \in BOOLEAN /\ loading' \in BOOLEAN
      /\ banner' \in {"none", "failed", "locked"} /\ (Listed' => Listed)
    BY <1>1, <1>2 DEF HistoryTyped, Listed
<1> QED
    BY <1>1, <1>2, <1>3, OneLeaves DEF HistoryTyped

LEMMA HistoryPageKeeps ==
    ASSUME HistoryInv, HistoryPageNext
    PROVE  HistoryInv'
<1>1. CASE DictationIsSaved
    BY <1>1, SavedKeeps
<1>2. CASE ClosureOrThread /\ UNCHANGED made
    BY <1>2, ListArrivesKeeps, MoreArrivesKeeps, ReadFailsKeeps, DeleteEndsKeeps,
       RemovedManyKeeps, RemoveFailsKeeps, CleanupKeeps DEF ClosureOrThread
<1>3. CASE UNCHANGED made /\ \E i \in DOMAIN pageThreads : StorageAnswers(i) \/ StorageRefuses(i)
    BY <1>3, AnswersKeeps, RefusesKeeps
<1>4. CASE /\ UNCHANGED made
           /\ \/ RefreshHistory \/ SearchHistory \/ LoadMore \/ DeleteRow \/ UndoDelete
              \/ TimerFires \/ RemoveMany
    BY <1>4, RefreshKeeps, LoadMoreKeeps, DeleteKeeps, UndoKeeps, TimerKeeps, RemoveManyKeeps
<1> QED
    BY <1>1, <1>2, <1>3, <1>4 DEF HistoryPageNext

LEMMA HistoryPageStands ==
    ASSUME HistoryInv, UNCHANGED historyPageVars
    PROVE  HistoryInv'
BY DEF historyPageVars, HistoryInv, HistoryTyped, WorkFits, Fitted, Bringing, Undoable,
       Showing, Listed
-----------------------------------------------------------------------------
(* The dictionary page.                                                    *)

\* The tables of words: functions from finite sets of row numbers.
Tables == UNION {[D -> Words] : D \in {E \in SUBSET Nat : IsFiniteSet(E)}}
Drafts == Words \cup {""}
WordWrites == [kind : {"upsert", "update", "delete"}, row : Nat, word : Drafts]
WordThread ==
    [kind : {"save", "edit", "delete", "refresh", "import"}, todo : Seq(WordWrites),
     state : {"writing", "listed", "unlisted"}, failed : BOOLEAN, listed : Tables]

\* A thread writes what it is for.
Meant(t) ==
    \A k \in DOMAIN t.todo :
        /\ t.kind = "edit" => t.todo[k].kind = "update"
        /\ t.kind = "delete" => t.todo[k].kind = "delete"
        /\ t.kind \notin {"edit", "delete"} => t.todo[k].kind = "upsert"
        /\ t.kind # "delete" => t.todo[k].word \in Words

\* What is asked for is in the table or is still to be written by the save;
\* what is edited or deleted is not asked for.
FitsWord(t, asked, table) ==
    /\ Meant(t)
    /\ t.state # "writing" => t.todo = <<>>
    /\ t.kind = "save" /\ ~t.failed =>
          \A x \in asked : x \in Range(table) \/ \E k \in DOMAIN t.todo : t.todo[k].word = x
    /\ t.kind \in {"edit", "delete"} =>
          \A k \in DOMAIN t.todo :
              t.todo[k].row \in DOMAIN table => table[t.todo[k].row] \notin asked
FittingWords(asked, table) == {t \in WordThread : FitsWord(t, asked, table)}

Has(T, kind) == \E i \in DOMAIN T : T[i].kind = kind
OneSave(T) == \A i, j \in DOMAIN T : T[i].kind = "save" /\ T[j].kind = "save" => i = j

WordTyped ==
    /\ words \in Tables /\ shownWords \in Tables /\ drafts \in Seq(Drafts)
    /\ dialog \in BOOLEAN /\ saving \in BOOLEAN
WordWorking ==
    /\ wordThreads \in Seq(FittingWords(requested, words))
    /\ OneSave(wordThreads)
WordDialog ==
    /\ dialog <=> drafts # <<>>
    /\ saving <=> Has(wordThreads, "save")
    /\ saving => dialog
    /\ dialog => ~Has(wordThreads, "edit")
WordKept ==
    /\ \A x \in requested : x \in Range(words) \/ (x \in Range(drafts) /\ x # "")
    /\ ~dialog \/ Has(wordThreads, "delete") => \A x \in requested : x \in Range(words)
WordInv == WordTyped /\ WordWorking /\ WordDialog /\ WordKept

LEMMA TableHas ==
    ASSUME NEW f \in Tables
    PROVE  f \in [DOMAIN f -> Words] /\ IsFiniteSet(DOMAIN f) /\ DOMAIN f \subseteq Nat
<1>1. PICK D \in {E \in SUBSET Nat : IsFiniteSet(E)} : f \in [D -> Words]
    BY DEF Tables
<1>2. DOMAIN f = D
    BY <1>1
<1> QED
    BY <1>1, <1>2

LEMMA TableMade ==
    ASSUME NEW D, IsFiniteSet(D), D \subseteq Nat, NEW f \in [D -> Words]
    PROVE  f \in Tables
BY DEF Tables

LEMMA NoTable == <<>> \in Tables
<1>1. <<>> \in Seq(Words) /\ Len(<<>>) = 0
    BY EmptySeq
<1>2. DOMAIN <<>> = {}
    BY <1>1, LenProperties
<1>3. <<>> \in [{} -> Words]
    BY <1>2
<1> QED
    BY <1>3, FS_EmptySet, TableMade

LEMMA TailIs ==
    ASSUME NEW S, NEW s \in Seq(S), s # <<>>
    PROVE  /\ Head(s) = s[1] /\ 1 \in DOMAIN s /\ s[1] \in S /\ Tail(s) \in Seq(S)
           /\ \A k \in DOMAIN Tail(s) : \E m \in DOMAIN s : Tail(s)[k] = s[m]
           /\ \A m \in DOMAIN s : m # 1 => \E k \in DOMAIN Tail(s) : Tail(s)[k] = s[m]
<1>1. /\ Head(s) \in S /\ Tail(s) \in Seq(S) /\ Len(Tail(s)) = Len(s) - 1
      /\ \A i \in 1..(Len(s) - 1) : Tail(s)[i] = s[i + 1]
    BY HeadTailProperties
<1>2. /\ Len(s) \in Nat /\ DOMAIN s = 1..Len(s) /\ DOMAIN Tail(s) = 1..(Len(s) - 1)
    BY <1>1, LenProperties
<1>3. Len(s) # 0
    BY EmptySeq
<1>4. 1 \in DOMAIN s /\ Head(s) = s[1] /\ s[1] \in S
    BY <1>1, <1>2, <1>3
<1>5. ASSUME NEW k \in DOMAIN Tail(s)
      PROVE  \E m \in DOMAIN s : Tail(s)[k] = s[m]
    <2>1. k + 1 \in DOMAIN s /\ Tail(s)[k] = s[k + 1]
        BY <1>1, <1>2
    <2> QED
        BY <2>1
<1>6. ASSUME NEW m \in DOMAIN s, m # 1
      PROVE  \E k \in DOMAIN Tail(s) : Tail(s)[k] = s[m]
    <2>1. m \in Nat /\ m - 1 \in 1..(Len(s) - 1) /\ (m - 1) + 1 = m
        BY <1>2, <1>6
    <2>2. m - 1 \in DOMAIN Tail(s) /\ Tail(s)[m - 1] = s[(m - 1) + 1]
        BY <1>1, <1>2, <2>1
    <2>3. Tail(s)[m - 1] = s[m]
        BY <2>1, <2>2
    <2> QED
        BY <2>2, <2>3
<1> QED
    BY <1>1, <1>4, <1>5, <1>6

LEMMA FewerAsked ==
    ASSUME NEW asked, NEW fewer, fewer \subseteq asked, NEW table,
           NEW T \in Seq(FittingWords(asked, table))
    PROVE  T \in Seq(FittingWords(fewer, table))
<1>1. \A t \in FittingWords(asked, table) : t \in FittingWords(fewer, table)
    BY DEF FittingWords, FitsWord
<1> QED
    BY <1>1, SeqGrows

LEMMA Starting ==
    ASSUME NEW S, NEW T \in Seq(S), NEW t \in S, NEW T1, T1 = Append(T, t)
    PROVE  /\ T1 \in Seq(S)
           /\ \A kind : Has(T1, kind) <=> Has(T, kind) \/ t.kind = kind
           /\ OneSave(T) /\ ~(t.kind = "save" /\ Has(T, "save")) => OneSave(T1)
<1>1. /\ T1 \in Seq(S)
      /\ DOMAIN T = 1..Len(T) /\ DOMAIN T1 = 1..(Len(T) + 1) /\ Len(T) \in Nat
      /\ \A j \in DOMAIN T : j \in DOMAIN T1 /\ T1[j] = T[j]
      /\ \A j \in DOMAIN T1 : (j \in DOMAIN T /\ T1[j] = T[j]) \/ T1[j] = t
      /\ T1[Len(T) + 1] = t
    BY Joining
<1>2. Len(T) + 1 \in DOMAIN T1
    BY <1>1
<1>3. \A kind : Has(T1, kind) <=> Has(T, kind) \/ t.kind = kind
    BY <1>1, <1>2 DEF Has
<1>4. ASSUME OneSave(T), ~(t.kind = "save" /\ Has(T, "save"))
      PROVE  OneSave(T1)
    <2> SUFFICES ASSUME NEW i \in DOMAIN T1, NEW j \in DOMAIN T1,
                        T1[i].kind = "save", T1[j].kind = "save"
                 PROVE  i = j
        BY DEF OneSave
    <2>1. \A k \in DOMAIN T1 : k \in DOMAIN T \/ k = Len(T) + 1
        BY <1>1
    <2>2. CASE t.kind = "save"
        <3>1. \A k \in DOMAIN T : T[k].kind # "save"
            BY <1>4, <2>2 DEF Has
        <3>2. i = Len(T) + 1 /\ j = Len(T) + 1
            BY <1>1, <2>1, <3>1
        <3> QED
            BY <3>2
    <2>3. CASE t.kind # "save"
        <3>1. i \in DOMAIN T /\ j \in DOMAIN T
            BY <1>1, <2>3
        <3> QED
            BY <1>1, <1>4, <3>1 DEF OneSave
    <2> QED
        BY <2>2, <2>3
<1> QED
    BY <1>1, <1>3, <1>4

LEMMA Ending ==
    ASSUME NEW S, NEW T \in Seq(S), NEW i \in DOMAIN T, NEW T1, T1 = RemoveAt(T, i), OneSave(T)
    PROVE  /\ T1 \in Seq(S) /\ OneSave(T1)
           /\ \A kind : Has(T1, kind) => Has(T, kind)
           /\ \A kind : Has(T, kind) /\ T[i].kind # kind => Has(T1, kind)
           /\ T[i].kind = "save" => ~Has(T1, "save")
<1>1. /\ T1 \in Seq(S)
      /\ \A j \in DOMAIN T1 : \E k \in DOMAIN T :
            /\ k # i /\ T1[j] = T[k]
            /\ k = IF j < i THEN j ELSE j + 1
      /\ \A k \in DOMAIN T : k # i => \E j \in DOMAIN T1 : T1[j] = T[k]
    BY RemoveAtIs
<1>2. i \in Nat /\ DOMAIN T1 \subseteq Nat
    <2>1. DOMAIN T1 = 1..Len(T1) /\ Len(T1) \in Nat /\ DOMAIN T = 1..Len(T) /\ Len(T) \in Nat
        BY <1>1, LenProperties
    <2> QED
        BY <2>1
<1>3. OneSave(T1)
    <2> SUFFICES ASSUME NEW a \in DOMAIN T1, NEW b \in DOMAIN T1,
                        T1[a].kind = "save", T1[b].kind = "save"
                 PROVE  a = b
        BY DEF OneSave
    <2>1. PICK k \in DOMAIN T : k # i /\ T1[a] = T[k] /\ k = IF a < i THEN a ELSE a + 1
        BY <1>1
    <2>2. PICK n \in DOMAIN T : n # i /\ T1[b] = T[n] /\ n = IF b < i THEN b ELSE b + 1
        BY <1>1
    <2>3. k = n
        BY <2>1, <2>2 DEF OneSave
    <2>4. a \in Nat /\ b \in Nat /\ i \in Nat
        BY <1>2
    <2>5. (IF a < i THEN a ELSE a + 1) = (IF b < i THEN b ELSE b + 1)
        BY <2>1, <2>2, <2>3
    <2>6. (IF a < i THEN a ELSE a + 1) # i /\ (IF b < i THEN b ELSE b + 1) # i
        BY <2>1, <2>2
    <2> QED
        BY <2>4, <2>5, <2>6
<1>4. \A kind : Has(T1, kind) => Has(T, kind)
    BY <1>1 DEF Has
<1>5. ASSUME NEW kind, Has(T, kind), T[i].kind # kind
      PROVE  Has(T1, kind)
    BY <1>1, <1>5 DEF Has
<1>6. T[i].kind = "save" => ~Has(T1, "save")
    BY <1>1 DEF Has, OneSave
<1> QED
    BY <1>1, <1>3, <1>4, <1>5, <1>6

LEMMA Changing ==
    ASSUME NEW S, NEW T \in Seq(S), NEW i \in DOMAIN T, NEW t \in S, t.kind = T[i].kind,
           NEW T1, T1 = [T EXCEPT ![i] = t]
    PROVE  /\ T1 \in Seq(S)
           /\ OneSave(T) => OneSave(T1)
           /\ \A kind : Has(T1, kind) <=> Has(T, kind)
<1>1. T1 \in Seq(S)
    BY ExceptSeq
<1>2. DOMAIN T1 = DOMAIN T /\ \A j \in DOMAIN T : T1[j].kind = T[j].kind
    OBVIOUS
<1> QED
    BY <1>1, <1>2 DEF OneSave, Has
LEMMA ThreadsOf ==
    ASSUME NEW S, NEW R, NEW T \in Seq(R), \A j \in DOMAIN T : T[j] \in R => T[j] \in S
    PROVE  T \in Seq(S)
<1>1. Len(T) \in Nat /\ DOMAIN T = 1..Len(T) /\ T \in [1..Len(T) -> R]
    BY LenProperties
<1>2. T \in [1..Len(T) -> S]
    BY <1>1
<1> QED
    BY <1>1, <1>2, SeqDef

LEMMA OneOf ==
    ASSUME NEW S, NEW x \in S
    PROVE  <<x>> \in Seq(S) /\ <<x>> # <<>>
OBVIOUS

LEMMA WorkedIs ==
    ASSUME WordInv, NEW i \in DOMAIN wordThreads
    PROVE  /\ wordThreads[i] \in WordThread
           /\ FitsWord(wordThreads[i], requested, words)
<1>1. wordThreads \in Seq(FittingWords(requested, words))
    BY DEF WordInv, WordWorking
<1>2. wordThreads[i] \in FittingWords(requested, words)
    BY <1>1, LenProperties, ElementOfSeq
<1> QED
    BY <1>2 DEF FittingWords

LEMMA WordPageInitOK == ASSUME WordPageInit PROVE WordInv
<1>1. /\ shownWords = words /\ drafts = <<>> /\ dialog = FALSE /\ saving = FALSE
      /\ wordThreads = <<>> /\ requested = {}
    BY DEF WordPageInit
<1>2. PICK first \in Words : words = [n \in {1} |-> first]
    BY DEF WordPageInit
<1>3. words \in Tables
    <2>1. IsFiniteSet({1})
        BY FS_Singleton, Zenon
    <2>2. {1} \subseteq Nat
        OBVIOUS
    <2>3. words \in [{1} -> Words]
        BY <1>2
    <2> QED
        BY <2>1, <2>2, <2>3, TableMade
<1>4. /\ <<>> \in Seq(Drafts) /\ <<>> \in Seq(FittingWords(requested, words))
      /\ DOMAIN <<>> = {}
    BY EmptySeq
<1>5. WordTyped
    BY <1>1, <1>3, <1>4 DEF WordTyped
<1>6. WordWorking
    BY <1>1, <1>4 DEF WordWorking, OneSave
<1>7. WordDialog
    BY <1>1, <1>4 DEF WordDialog, Has
<1>8. WordKept
    BY <1>1 DEF WordKept
<1> QED
    BY <1>5, <1>6, <1>7, <1>8 DEF WordInv

\* What the user does in the dialog: nothing starts, and what is no more in the
\* dialog is no more asked for.
LEMMA DraftsKeep ==
    ASSUME WordInv, UNCHANGED <<words, shownWords, saving, wordThreads>>,
           drafts' \in Seq(Drafts), dialog' \in BOOLEAN, dialog' <=> drafts' # <<>>,
           saving => dialog', dialog' => ~Has(wordThreads, "edit"),
           requested' \subseteq requested,
           \A x \in requested' : x \in Range(words) \/ (x \in Range(drafts') /\ x # ""),
           ~dialog' => \A x \in requested' : x \in Range(words)
    PROVE  WordInv'
<1>1. WordTyped /\ WordWorking /\ WordDialog /\ WordKept
    BY DEF WordInv
<1>2. WordTyped'
    BY <1>1 DEF WordTyped
<1>3. WordWorking'
    <2>1. wordThreads \in Seq(FittingWords(requested', words))
        BY <1>1, FewerAsked DEF WordWorking
    <2> QED
        BY <1>1, <2>1 DEF WordWorking
<1>4. WordDialog'
    BY <1>1 DEF WordDialog
<1>5. WordKept'
    BY <1>1 DEF WordKept
<1> QED
    BY <1>2, <1>3, <1>4, <1>5 DEF WordInv

LEMMA OpenAddKeeps == ASSUME WordInv, OpenAdd PROVE WordInv'
<1>1. WordTyped /\ WordDialog /\ WordKept
    BY DEF WordInv
<1>2. /\ ~dialog /\ ~Has(wordThreads, "edit")
      /\ dialog' = TRUE /\ drafts' = <<"">>
      /\ UNCHANGED <<words, shownWords, saving, wordThreads, requested>>
    BY DEF OpenAdd, OnWordPage, AtWork, Has
<1>3. \A x \in requested : x \in Range(words)
    BY <1>1, <1>2 DEF WordKept
<1>4. <<"">> \in Seq(Drafts) /\ <<"">> # <<>>
    <2>1. "" \in Drafts
        BY DEF Drafts
    <2> QED
        BY <2>1, OneOf
<1> QED
    BY <1>2, <1>3, <1>4, DraftsKeep

LEMMA CloseAddKeeps == ASSUME WordInv, CloseAdd PROVE WordInv'
<1>1. WordTyped /\ WordDialog /\ WordKept
    BY DEF WordInv
<1>2. /\ ~saving /\ dialog' = FALSE /\ drafts' = <<>>
      /\ \A x \in requested' : x \in requested /\ x \in Range(words)
      /\ UNCHANGED <<words, shownWords, saving, wordThreads>>
    BY DEF CloseAdd, InTable
<1>3. <<>> \in Seq(Drafts)
    BY EmptySeq
<1> QED
    BY <1>1, <1>2, <1>3, DraftsKeep

LEMMA LineAdded ==
    ASSUME NEW T \in Seq(Drafts), NEW line \in Drafts, NEW T1, T1 = Append(T, line)
    PROVE  /\ T1 \in Seq(Drafts)
           /\ DOMAIN T1 = 1..(Len(T) + 1) /\ Len(T) \in Nat
           /\ \A j \in DOMAIN T : j \in DOMAIN T1 /\ T1[j] = T[j]
<1>1. /\ T1 \in Seq(Drafts) /\ Len(T1) = Len(T) + 1
      /\ \A j \in 1..Len(T) : T1[j] = T[j]
    BY AppendProperties
<1>2. Len(T) \in Nat /\ DOMAIN T = 1..Len(T) /\ DOMAIN T1 = 1..Len(T1)
    BY <1>1, LenProperties
<1> QED
    BY <1>1, <1>2

LEMMA AddDraftKeeps == ASSUME WordInv, AddDraft PROVE WordInv'
<1>1. WordTyped /\ WordDialog /\ WordKept
    BY DEF WordInv
<1>2. /\ dialog /\ drafts' = Append(drafts, "")
      /\ UNCHANGED <<words, shownWords, dialog, saving, wordThreads, requested>>
    BY DEF AddDraft
<1>3. drafts \in Seq(Drafts) /\ \E line \in Drafts : drafts' = Append(drafts, line)
    BY <1>1, <1>2 DEF WordTyped, Drafts
<1>4. /\ drafts' \in Seq(Drafts)
      /\ DOMAIN drafts' = 1..(Len(drafts) + 1) /\ Len(drafts) \in Nat
      /\ \A j \in DOMAIN drafts : j \in DOMAIN drafts' /\ drafts'[j] = drafts[j]
    BY <1>3, LineAdded
<1>5. drafts' # <<>>
    <2>1. 1 \in DOMAIN drafts'
        BY <1>4
    <2>2. DOMAIN <<>> = {}
        BY EmptySeq
    <2> QED
        BY <2>1, <2>2
<1>6. \A x \in Range(drafts) : x \in Range(drafts')
    BY <1>4 DEF Range
<1>7. \A x \in requested' : x \in Range(words) \/ (x \in Range(drafts') /\ x # "")
    BY <1>1, <1>2, <1>6 DEF WordKept
<1>8. dialog \in BOOLEAN /\ (dialog => ~Has(wordThreads, "edit"))
    BY <1>1 DEF WordTyped, WordDialog
<1> QED
    BY <1>2, <1>4, <1>5, <1>7, <1>8, DraftsKeep

LEMMA TypeDraftKeeps == ASSUME WordInv, TypeDraft PROVE WordInv'
<1>1. WordTyped /\ WordDialog /\ WordKept
    BY DEF WordInv
<1>2. /\ dialog /\ UNCHANGED <<words, shownWords, dialog, saving, wordThreads>>
    BY DEF TypeDraft
<1>3. PICK i \in DOMAIN drafts, word \in Words :
          /\ drafts' = [drafts EXCEPT ![i] = word]
          /\ requested' = requested \ {drafts[i]}
    BY DEF TypeDraft
<1>4. drafts \in Seq(Drafts) /\ word \in Drafts
    BY <1>1 DEF WordTyped, Drafts
<1>5. drafts' \in Seq(Drafts)
    BY <1>3, <1>4, ExceptSeq
<1>6. /\ DOMAIN drafts' = DOMAIN drafts
      /\ \A j \in DOMAIN drafts : j # i => drafts'[j] = drafts[j]
    BY <1>3
<1>7. drafts' # <<>>
    <2>1. DOMAIN <<>> = {}
        BY EmptySeq
    <2> QED
        BY <1>6, <2>1
<1>8. \A x \in requested' : x \in Range(words) \/ (x \in Range(drafts') /\ x # "")
    <2> TAKE x \in requested'
    <2>1. x \in requested /\ x # drafts[i]
        BY <1>3
    <2>2. CASE x \in Range(drafts) /\ x # ""
        BY <1>6, <2>1, <2>2 DEF Range
    <2> QED
        BY <1>1, <2>1, <2>2 DEF WordKept
<1>9. dialog \in BOOLEAN /\ (dialog => ~Has(wordThreads, "edit"))
    BY <1>1 DEF WordTyped, WordDialog
<1>10. requested' \subseteq requested
    BY <1>3
<1> QED
    BY <1>2, <1>5, <1>7, <1>8, <1>9, <1>10, DraftsKeep

LEMMA RemoveDraftKeeps == ASSUME WordInv, RemoveDraft PROVE WordInv'
<1>1. WordTyped /\ WordDialog /\ WordKept
    BY DEF WordInv
<1>2. /\ dialog /\ Len(drafts) > 1
      /\ UNCHANGED <<words, shownWords, dialog, saving, wordThreads>>
    BY DEF RemoveDraft
<1>3. PICK i \in DOMAIN drafts :
          drafts' = RemoveAt(drafts, i) /\ requested' = requested \ {drafts[i]}
    BY DEF RemoveDraft
<1>4. drafts \in Seq(Drafts)
    BY <1>1 DEF WordTyped
<1>5. /\ drafts' \in Seq(Drafts)
      /\ \A k \in DOMAIN drafts : k # i => \E j \in DOMAIN drafts' : drafts'[j] = drafts[k]
    BY <1>3, <1>4, RemoveAtIs
<1>6. drafts' # <<>>
    <2>1. DOMAIN <<>> = {}
        BY EmptySeq
    <2>2. Len(drafts) \in Nat /\ DOMAIN drafts = 1..Len(drafts)
        BY <1>4, LenProperties
    <2>3. \E k \in DOMAIN drafts : k # i
        <3>1. 1 \in DOMAIN drafts /\ 2 \in DOMAIN drafts
            BY <1>2, <2>2
        <3> QED
            BY <3>1
    <2> QED
        BY <1>5, <2>1, <2>3
<1>7. \A x \in requested' : x \in Range(words) \/ (x \in Range(drafts') /\ x # "")
    <2> TAKE x \in requested'
    <2>1. x \in requested /\ x # drafts[i]
        BY <1>3
    <2>2. CASE x \in Range(drafts) /\ x # ""
        BY <1>5, <2>1, <2>2 DEF Range
    <2> QED
        BY <1>1, <2>1, <2>2 DEF WordKept
<1>8. dialog \in BOOLEAN /\ (dialog => ~Has(wordThreads, "edit"))
    BY <1>1 DEF WordTyped, WordDialog
<1>9. requested' \subseteq requested
    BY <1>3
<1> QED
    BY <1>2, <1>5, <1>6, <1>7, <1>8, <1>9, DraftsKeep
-----------------------------------------------------------------------------
(* Threads of the dictionary page: they start, write, list and end.        *)

LEMMA NewThread ==
    ASSUME NEW kind \in {"save", "edit", "delete", "refresh", "import"},
           NEW todo \in Seq(WordWrites),
           NEW t, t = [kind |-> kind, todo |-> todo, state |-> "writing", failed |-> FALSE,
                       listed |-> <<>>]
    PROVE  /\ t \in WordThread /\ t.kind = kind /\ t.todo = todo /\ t.state = "writing"
           /\ t.failed = FALSE
BY NoTable DEF WordThread

LEMMA WritesOfIs ==
    ASSUME NEW chosen \in Seq(Words), NEW todo, todo = WritesOf(chosen)
    PROVE  /\ todo \in Seq(WordWrites)
           /\ \A k \in DOMAIN todo :
                 todo[k].kind = "upsert" /\ todo[k].word \in Words
           /\ \A x \in Range(chosen) : \E k \in DOMAIN todo : todo[k].word = x
<1>1. /\ Len(chosen) \in Nat /\ DOMAIN chosen = 1..Len(chosen)
      /\ chosen \in [1..Len(chosen) -> Words]
    BY LenProperties
<1>2. todo = [i \in 1..Len(chosen) |-> [kind |-> "upsert", row |-> 0, word |-> chosen[i]]]
    BY <1>1 DEF WritesOf, Writing
<1>3. \A i \in 1..Len(chosen) : chosen[i] \in Words
    BY <1>1
<1>4. \A i \in 1..Len(chosen) :
          [kind |-> "upsert", row |-> 0, word |-> chosen[i]] \in WordWrites
    BY <1>3 DEF WordWrites, Drafts
<1>5. todo \in [1..Len(chosen) -> WordWrites]
    BY <1>2, <1>4
<1>6. todo \in Seq(WordWrites)
    BY <1>1, <1>5, SeqDef
<1>7. /\ DOMAIN todo = DOMAIN chosen
      /\ \A k \in DOMAIN todo : todo[k].kind = "upsert" /\ todo[k].word = chosen[k]
    BY <1>1, <1>2
<1>8. \A x \in Range(chosen) : \E k \in DOMAIN todo : todo[k].word = x
    BY <1>7 DEF Range
<1> QED
    BY <1>1, <1>3, <1>6, <1>7, <1>8

\* A thread other than a save starts while no dialog is open.
LEMMA StartKeeps ==
    ASSUME WordInv, UNCHANGED <<words, shownWords, drafts, dialog, saving>>,
           ~dialog, NEW kind \in {"edit", "delete", "refresh", "import"},
           NEW todo \in Seq(WordWrites), Starts(kind, todo), requested' \subseteq requested,
           NEW t, t = [kind |-> kind, todo |-> todo, state |-> "writing", failed |-> FALSE,
                       listed |-> <<>>],
           FitsWord(t, requested', words)
    PROVE  WordInv'
<1>1. WordTyped /\ WordWorking /\ WordDialog /\ WordKept
    BY DEF WordInv
<1> DEFINE v == t
<1>2. wordThreads' = Append(wordThreads, v)
    BY DEF Starts
<1>3. v \in WordThread /\ v.kind = kind
    BY NewThread
<1> DEFINE S == FittingWords(requested', words)
<1>4. wordThreads \in Seq(S) /\ v \in S
    <2>1. wordThreads \in Seq(S)
        BY <1>1, FewerAsked DEF WordWorking
    <2>2. v \in S
        BY <1>3 DEF FittingWords
    <2> QED
        BY <2>1, <2>2
<1> HIDE DEF S, v
<1>5. /\ wordThreads' \in Seq(S)
      /\ \A k : Has(wordThreads', k) <=> Has(wordThreads, k) \/ v.kind = k
      /\ OneSave(wordThreads) /\ ~(v.kind = "save" /\ Has(wordThreads, "save")) =>
         OneSave(wordThreads')
    <2>1. wordThreads' \in Seq(S)
        BY <1>2, <1>4, Starting
    <2>2. \A k : Has(wordThreads', k) <=> Has(wordThreads, k) \/ v.kind = k
        BY <1>2, <1>4, Starting
    <2>3. ASSUME OneSave(wordThreads), ~(v.kind = "save" /\ Has(wordThreads, "save"))
          PROVE  OneSave(wordThreads')
        BY <1>2, <1>4, <2>3, Starting
    <2> QED
        BY <2>1, <2>2, <2>3
<1>6. WordTyped'
    BY <1>1 DEF WordTyped
<1>7. WordWorking'
    BY <1>1, <1>3, <1>5 DEF WordWorking, S
<1>8. WordDialog'
    BY <1>1, <1>3, <1>5 DEF WordDialog
<1>9. WordKept'
    BY <1>1 DEF WordKept
<1> QED
    BY <1>6, <1>7, <1>8, <1>9 DEF WordInv

LEMMA OneWrite ==
    ASSUME NEW w \in WordWrites
    PROVE  <<w>> \in Seq(WordWrites) /\ DOMAIN <<w>> = {1} /\ <<w>>[1] = w
OBVIOUS

LEMMA EditWordKeeps == ASSUME WordInv, EditWord PROVE WordInv'
<1>1. WordTyped /\ WordKept /\ ~dialog
      /\ UNCHANGED <<words, shownWords, drafts, dialog, saving>>
    BY DEF WordInv, EditWord, OnWordPage
<1>2. PICK n \in DOMAIN shownWords, word \in Words :
          /\ Starts("edit", <<Writing("update", n, word)>>)
          /\ requested' = requested \ WordsOf(n)
    BY DEF EditWord
<1> DEFINE w == Writing("update", n, word)
           todo == <<w>>
           t == [kind |-> "edit", todo |-> todo, state |-> "writing", failed |-> FALSE,
                 listed |-> <<>>]
<1>3. n \in Nat
    BY <1>1, TableHas DEF WordTyped
<1>4. w \in WordWrites /\ w.kind = "update" /\ w.row = n /\ w.word = word
    BY <1>3 DEF Writing, WordWrites, Drafts
<1> HIDE DEF w
<1>5. todo \in Seq(WordWrites) /\ DOMAIN todo = {1} /\ todo[1] = w
    BY <1>4, OneWrite
<1>6. n \in DOMAIN words => words[n] \notin requested'
    BY <1>2 DEF WordsOf
<1>7. Starts("edit", todo) /\ requested' \subseteq requested
    BY <1>2 DEF w
<1> HIDE DEF todo
<1>8. FitsWord(t, requested', words)
    BY <1>4, <1>5, <1>6 DEF FitsWord, Meant
<1> QED
    BY <1>1, <1>5, <1>7, <1>8, StartKeeps

LEMMA DeleteWordKeeps == ASSUME WordInv, DeleteWord PROVE WordInv'
<1>1. WordTyped /\ WordKept /\ ~dialog
      /\ UNCHANGED <<words, shownWords, drafts, dialog, saving>>
    BY DEF WordInv, DeleteWord, OnWordPage
<1>2. PICK n \in DOMAIN shownWords :
          /\ Starts("delete", <<Writing("delete", n, "")>>)
          /\ requested' = requested \ WordsOf(n)
    BY DEF DeleteWord
<1> DEFINE w == Writing("delete", n, "")
           todo == <<w>>
           t == [kind |-> "delete", todo |-> todo, state |-> "writing", failed |-> FALSE,
                 listed |-> <<>>]
<1>3. n \in Nat
    BY <1>1, TableHas DEF WordTyped
<1>4. w \in WordWrites /\ w.kind = "delete" /\ w.row = n
    BY <1>3 DEF Writing, WordWrites, Drafts
<1> HIDE DEF w
<1>5. todo \in Seq(WordWrites) /\ DOMAIN todo = {1} /\ todo[1] = w
    BY <1>4, OneWrite
<1>6. n \in DOMAIN words => words[n] \notin requested'
    BY <1>2 DEF WordsOf
<1>7. Starts("delete", todo) /\ requested' \subseteq requested
    BY <1>2 DEF w
<1> HIDE DEF todo
<1>8. FitsWord(t, requested', words)
    BY <1>4, <1>5, <1>6 DEF FitsWord, Meant
<1> QED
    BY <1>1, <1>5, <1>7, <1>8, StartKeeps

LEMMA RefreshDictionaryKeeps == ASSUME WordInv, RefreshDictionary PROVE WordInv'
<1>1. /\ ~dialog /\ Starts("refresh", <<>>)
      /\ UNCHANGED <<words, shownWords, drafts, dialog, saving, requested>>
    BY DEF RefreshDictionary, OnWordPage
<1> DEFINE t == [kind |-> "refresh", todo |-> <<>>, state |-> "writing", failed |-> FALSE,
                 listed |-> <<>>]
<1>2. <<>> \in Seq(WordWrites) /\ DOMAIN <<>> = {}
    BY EmptySeq
<1>3. FitsWord(t, requested', words)
    BY <1>2 DEF FitsWord, Meant
<1> QED
    BY <1>1, <1>2, <1>3, StartKeeps

LEMMA ImportCsvKeeps == ASSUME WordInv, ImportCsv PROVE WordInv'
<1>1. ~dialog /\ UNCHANGED <<words, shownWords, drafts, dialog, saving, requested>>
    BY DEF ImportCsv, OnWordPage
<1>2. PICK word \in Words :
          Starts("import", WritesOf(IF word \in InTable THEN <<>> ELSE <<word>>))
    BY DEF ImportCsv
<1> DEFINE chosen == IF word \in InTable THEN <<>> ELSE <<word>>
           todo == WritesOf(chosen)
           t == [kind |-> "import", todo |-> todo, state |-> "writing", failed |-> FALSE,
                 listed |-> <<>>]
<1>3. chosen \in Seq(Words)
    <2>1. <<>> \in Seq(Words)
        BY EmptySeq
    <2>2. <<word>> \in Seq(Words)
        OBVIOUS
    <2> QED
        BY <2>1, <2>2
<1>4. Starts("import", todo)
    BY <1>2
<1> HIDE DEF chosen
<1>5. todo \in Seq(WordWrites)
      /\ \A k \in DOMAIN todo : todo[k].kind = "upsert" /\ todo[k].word \in Words
    BY <1>3, WritesOfIs
<1> HIDE DEF todo
<1>6. FitsWord(t, requested', words)
    BY <1>5 DEF FitsWord, Meant
<1> QED
    BY <1>1, <1>4, <1>5, <1>6, StartKeeps
LEMMA SaveDraftsKeeps == ASSUME WordInv, SaveDrafts PROVE WordInv'
<1>1. WordTyped /\ WordWorking /\ WordDialog /\ WordKept
    BY DEF WordInv
<1> DEFINE places == {i \in DOMAIN drafts : drafts[i] # ""}
           chosen == Remaining(drafts, places)
           todo == WritesOf(chosen)
           t == [kind |-> "save", todo |-> todo, state |-> "writing", failed |-> FALSE,
                 listed |-> <<>>]
           S == FittingWords(requested', words)
<1>2. /\ dialog /\ ~saving /\ saving' = TRUE
      /\ Starts("save", todo)
      /\ requested' = requested \cup {word \in Typed : ~AtWork("delete")}
      /\ UNCHANGED <<words, shownWords, drafts, dialog>>
    BY DEF SaveDrafts
<1>3. Range(chosen) = {drafts[i] : i \in places} /\ chosen \in Seq(Drafts)
    <2>1. drafts \in Seq(Drafts) /\ places \in SUBSET DOMAIN drafts
        BY <1>1 DEF WordTyped
    <2> HIDE DEF places
    <2> QED
        BY <2>1, RemainingIs
<1>4. /\ chosen \in Seq(Words)
      /\ \A x \in Range(drafts) : x # "" => x \in Range(chosen)
    <2>1. \A j \in DOMAIN chosen : chosen[j] \in Drafts => chosen[j] \in Words
        <3> TAKE j \in DOMAIN chosen
        <3>1. chosen[j] \in Range(chosen)
            BY DEF Range
        <3>2. chosen[j] # ""
            BY <1>3, <3>1
        <3> QED
            BY <3>2 DEF Drafts
    <2>2. \A x \in Range(drafts) : x # "" => x \in {drafts[i] : i \in places}
        BY DEF Range
    <2> HIDE DEF chosen
    <2>3. chosen \in Seq(Words)
        BY <1>3, <2>1, ThreadsOf
    <2> QED
        BY <1>3, <2>2, <2>3
<1> HIDE DEF chosen
<1>5. /\ todo \in Seq(WordWrites)
      /\ \A k \in DOMAIN todo : todo[k].kind = "upsert" /\ todo[k].word \in Words
      /\ \A x \in Range(chosen) : \E k \in DOMAIN todo : todo[k].word = x
    <2>1. chosen \in Seq(Words)
        BY <1>4
    <2>2. todo = WritesOf(chosen)
        OBVIOUS
    <2> HIDE DEF todo
    <2>3. todo \in Seq(WordWrites)
        BY <2>1, <2>2, WritesOfIs
    <2>4. \A k \in DOMAIN todo : todo[k].kind = "upsert" /\ todo[k].word \in Words
        BY <2>1, <2>2, WritesOfIs
    <2>5. \A x \in Range(chosen) : \E k \in DOMAIN todo : todo[k].word = x
        BY <2>1, <2>2, WritesOfIs
    <2> QED
        BY <2>3, <2>4, <2>5
<1>6. wordThreads' = Append(wordThreads, t)
    BY <1>2 DEF Starts
<1> HIDE DEF todo
<1>7. /\ t \in WordThread /\ t.kind = "save" /\ t.todo = todo /\ t.state = "writing"
      /\ t.failed = FALSE
    BY <1>5, NewThread
<1> HIDE DEF t
<1>8. /\ ~Has(wordThreads, "save") /\ ~Has(wordThreads, "edit")
      /\ AtWork("delete") <=> Has(wordThreads, "delete")
    BY <1>1, <1>2 DEF WordDialog, AtWork, Has
<1>9. \A x \in requested' : x \in Range(words) \/ (x \in Range(drafts) /\ x # "")
    BY <1>1, <1>2 DEF WordKept, Typed
<1>10. t \in S
    <2>1. \A x \in requested' : x \in Range(words) \/ \E k \in DOMAIN t.todo : t.todo[k].word = x
        BY <1>4, <1>5, <1>7, <1>9
    <2>2. Meant(t)
        BY <1>5, <1>7 DEF Meant
    <2>3. FitsWord(t, requested', words)
        BY <1>7, <2>1, <2>2 DEF FitsWord
    <2> QED
        BY <1>7, <2>3 DEF FittingWords
<1>11. Has(wordThreads, "delete") => requested' = requested
    BY <1>2, <1>8
<1>12. wordThreads \in Seq(S)
    <2>1. CASE Has(wordThreads, "delete")
        BY <1>1, <1>11, <2>1 DEF WordWorking
    <2>2. CASE ~Has(wordThreads, "delete")
        <3>1. \A j \in DOMAIN wordThreads : wordThreads[j].kind \notin {"save", "edit", "delete"}
            BY <1>8, <2>2 DEF Has
        <3>2. \A j \in DOMAIN wordThreads :
                 wordThreads[j] \in FittingWords(requested, words) => wordThreads[j] \in S
            BY <3>1 DEF FittingWords, FitsWord
        <3>3. wordThreads \in Seq(FittingWords(requested, words))
            BY <1>1 DEF WordWorking
        <3> HIDE DEF S
        <3> QED
            BY <3>2, <3>3, ThreadsOf
    <2> QED
        BY <2>1, <2>2
<1> HIDE DEF S
<1>13. /\ wordThreads' \in Seq(S)
       /\ \A k : Has(wordThreads', k) <=> Has(wordThreads, k) \/ t.kind = k
       /\ OneSave(wordThreads) /\ ~(t.kind = "save" /\ Has(wordThreads, "save")) =>
          OneSave(wordThreads')
    <2>1. wordThreads' \in Seq(S)
        BY <1>6, <1>10, <1>12, Starting
    <2>2. \A k : Has(wordThreads', k) <=> Has(wordThreads, k) \/ t.kind = k
        BY <1>6, <1>10, <1>12, Starting, Zenon
    <2>3. ASSUME OneSave(wordThreads), ~(t.kind = "save" /\ Has(wordThreads, "save"))
          PROVE  OneSave(wordThreads')
        BY <1>6, <1>10, <1>12, <2>3, Starting, Zenon
    <2> QED
        BY <2>1, <2>2, <2>3
<1>14. WordTyped'
    BY <1>1, <1>2 DEF WordTyped
<1>15. WordWorking'
    BY <1>1, <1>2, <1>8, <1>13 DEF WordWorking, S
<1>16. WordDialog'
    BY <1>1, <1>2, <1>7, <1>8, <1>13 DEF WordDialog
<1>17. WordKept'
    <2>1. ~dialog' \/ Has(wordThreads', "delete") => Has(wordThreads, "delete")
        BY <1>2, <1>7, <1>13
    <2> QED
        BY <1>1, <1>2, <1>9, <1>11, <2>1 DEF WordKept
<1> QED
    BY <1>14, <1>15, <1>16, <1>17 DEF WordInv

\* A thread writes one word: no word that is asked for leaves the table, and,
\* while rows are edited or deleted, no row gets one.
LEMMA WriteKeeps ==
    ASSUME WordInv, NEW i \in DOMAIN wordThreads, wordThreads[i].todo # <<>>,
           NEW u, u = [wordThreads[i] EXCEPT !.todo = Tail(wordThreads[i].todo)],
           wordThreads' = [wordThreads EXCEPT ![i] = u],
           UNCHANGED <<shownWords, drafts, dialog, saving, requested>>,
           words' \in Tables,
           \A x \in requested : x \in Range(words) => x \in Range(words'),
           wordThreads[i].kind = "save" => Head(wordThreads[i].todo).word \in Range(words'),
           Has(wordThreads, "edit") \/ Has(wordThreads, "delete") =>
              \A n \in DOMAIN words' : words'[n] \in requested =>
                  n \in DOMAIN words /\ words[n] \in requested
    PROVE  WordInv'
<1>1. WordTyped /\ WordWorking /\ WordDialog /\ WordKept
    BY DEF WordInv
<1> DEFINE t == wordThreads[i]
           S == FittingWords(requested, words')
<1>2. t \in WordThread /\ FitsWord(t, requested, words)
    BY WorkedIs
<1>3. t.todo \in Seq(WordWrites)
    BY <1>2 DEF WordThread
<1>4. /\ Head(t.todo) = t.todo[1] /\ 1 \in DOMAIN t.todo /\ Tail(t.todo) \in Seq(WordWrites)
      /\ \A k \in DOMAIN Tail(t.todo) : \E m \in DOMAIN t.todo : Tail(t.todo)[k] = t.todo[m]
      /\ \A m \in DOMAIN t.todo : m # 1 =>
            \E k \in DOMAIN Tail(t.todo) : Tail(t.todo)[k] = t.todo[m]
    BY <1>3, TailIs
<1>5. /\ u \in WordThread /\ u.kind = t.kind /\ u.state = t.state /\ u.failed = t.failed
      /\ u.todo = Tail(t.todo)
    BY <1>2, <1>4 DEF WordThread
<1>6. ASSUME NEW v, v \in WordThread, FitsWord(v, requested, words),
             v.kind \in {"edit", "delete"} => Has(wordThreads, v.kind)
      PROVE  FitsWord(v, requested, words')
    <2>1. v.kind = "save" /\ ~v.failed =>
             \A x \in requested : x \in Range(words') \/ \E k \in DOMAIN v.todo : v.todo[k].word = x
        BY <1>6 DEF FitsWord
    <2>2. ASSUME v.kind \in {"edit", "delete"}, NEW k \in DOMAIN v.todo,
                 v.todo[k].row \in DOMAIN words', words'[v.todo[k].row] \in requested
          PROVE  FALSE
        <3>1. Has(wordThreads, "edit") \/ Has(wordThreads, "delete")
            BY <1>6, <2>2
        <3>2. v.todo[k].row \in DOMAIN words /\ words[v.todo[k].row] \in requested
            BY <2>2, <3>1
        <3> QED
            BY <1>6, <2>2, <3>2 DEF FitsWord
    <2> QED
        BY <1>6, <2>1, <2>2 DEF FitsWord
<1>7. t.kind \in {"edit", "delete"} => Has(wordThreads, t.kind)
    BY DEF Has
<1>8. FitsWord(t, requested, words')
    BY <1>2, <1>6, <1>7
<1>9. FitsWord(u, requested, words')
    <2>1. Meant(u)
        BY <1>4, <1>5, <1>8 DEF FitsWord, Meant
    <2>2. u.state = "writing"
        BY <1>2, <1>5 DEF FitsWord, WordThread
    <2>3. ASSUME u.kind = "save", ~u.failed, NEW x \in requested, x \notin Range(words')
          PROVE  \E k \in DOMAIN u.todo : u.todo[k].word = x
        <3>1. PICK m \in DOMAIN t.todo : t.todo[m].word = x
            BY <1>5, <1>8, <2>3 DEF FitsWord
        <3>2. m # 1
            BY <1>4, <1>5, <2>3, <3>1
        <3> QED
            BY <1>4, <1>5, <3>1, <3>2
    <2>4. u.kind \in {"edit", "delete"} =>
             \A k \in DOMAIN u.todo :
                 u.todo[k].row \in DOMAIN words' => words'[u.todo[k].row] \notin requested
        BY <1>4, <1>5, <1>8 DEF FitsWord
    <2> QED
        BY <2>1, <2>2, <2>3, <2>4 DEF FitsWord
<1>10. u \in S
    BY <1>5, <1>9 DEF FittingWords
<1>11. wordThreads \in Seq(S)
    <2>1. \A j \in DOMAIN wordThreads :
             wordThreads[j] \in FittingWords(requested, words) => wordThreads[j] \in S
        BY <1>6 DEF FittingWords, Has
    <2>2. wordThreads \in Seq(FittingWords(requested, words))
        BY <1>1 DEF WordWorking
    <2> HIDE DEF S
    <2> QED
        BY <2>1, <2>2, ThreadsOf
<1> HIDE DEF S
<1>12. /\ wordThreads' \in Seq(S) /\ OneSave(wordThreads')
       /\ \A kind : Has(wordThreads', kind) <=> Has(wordThreads, kind)
    <2> DEFINE v == u
    <2>1. /\ OneSave(wordThreads) /\ v.kind = wordThreads[i].kind /\ v \in S
          /\ wordThreads' = [wordThreads EXCEPT ![i] = v]
        BY <1>1, <1>5, <1>10 DEF WordWorking
    <2> HIDE DEF v
    <2>2. wordThreads' \in Seq(S)
        BY <1>11, <2>1, Changing
    <2>3. OneSave(wordThreads')
        BY <1>11, <2>1, Changing
    <2>4. \A kind : Has(wordThreads', kind) <=> Has(wordThreads, kind)
        BY <1>11, <2>1, Changing
    <2> QED
        BY <2>2, <2>3, <2>4
<1>13. WordTyped'
    BY <1>1 DEF WordTyped
<1>14. WordWorking'
    BY <1>12 DEF WordWorking, S
<1>15. WordDialog'
    BY <1>1, <1>12 DEF WordDialog
<1>16. WordKept'
    BY <1>1, <1>12 DEF WordKept
<1> QED
    BY <1>13, <1>14, <1>15, <1>16 DEF WordInv

\* A thread of which nothing is left to write fails or has listed the words.
LEMMA ListKeeps ==
    ASSUME WordInv, NEW i \in DOMAIN wordThreads, NEW u \in WordThread,
           u.kind = wordThreads[i].kind, u.todo = <<>>,
           (u.failed = wordThreads[i].failed /\ wordThreads[i].todo = <<>>) \/ u.failed,
           wordThreads' = [wordThreads EXCEPT ![i] = u],
           UNCHANGED <<words, shownWords, drafts, dialog, saving, requested>>
    PROVE  WordInv'
<1>1. WordTyped /\ WordWorking /\ WordDialog /\ WordKept
    BY DEF WordInv
<1> DEFINE t == wordThreads[i]
           S == FittingWords(requested, words)
<1>2. t \in WordThread /\ FitsWord(t, requested, words)
    BY WorkedIs
<1>3. DOMAIN <<>> = {}
    BY EmptySeq
<1>4. FitsWord(u, requested, words)
    <2>1. u.kind = "save" /\ ~u.failed => \A x \in requested : x \in Range(words)
        BY <1>2, <1>3 DEF FitsWord
    <2> QED
        BY <1>3, <2>1 DEF FitsWord, Meant
<1>5. u \in S /\ wordThreads \in Seq(S)
    BY <1>1, <1>4 DEF FittingWords, WordWorking
<1> HIDE DEF S
<1>6. /\ wordThreads' \in Seq(S) /\ OneSave(wordThreads')
      /\ \A kind : Has(wordThreads', kind) <=> Has(wordThreads, kind)
    <2>1. OneSave(wordThreads) /\ u.kind = wordThreads[i].kind
        BY <1>1 DEF WordWorking
    <2>2. wordThreads' \in Seq(S)
        BY <1>5, <2>1, Changing
    <2>3. OneSave(wordThreads')
        BY <1>5, <2>1, Changing
    <2>4. \A kind : Has(wordThreads', kind) <=> Has(wordThreads, kind)
        BY <1>5, <2>1, Changing
    <2> QED
        BY <2>2, <2>3, <2>4
<1>7. WordTyped' /\ WordDialog' /\ WordKept'
    BY <1>1, <1>6 DEF WordTyped, WordDialog, WordKept
<1>8. WordWorking'
    BY <1>6 DEF WordWorking, S
<1> QED
    BY <1>7, <1>8 DEF WordInv
LEMMA GreatestRow ==
    ASSUME NEW D, IsFiniteSet(D), D \subseteq Nat, D # {}
    PROVE  Max(D) \in D /\ \A n \in D : Max(D) >= n
<1> DEFINE size == Cardinality(D)
<1>1. /\ size \in Nat
      /\ \A i \in 1..size : Nth(D, i) \in D
      /\ \A i, j \in 1..size : i < j => Nth(D, i) < Nth(D, j)
      /\ \A x \in D : \E i \in 1..size : x = Nth(D, i)
    BY NthIs
<1> HIDE DEF size
<1>2. size \in 1..size
    <2>1. PICK x \in D, i \in 1..size : x = Nth(D, i)
        BY <1>1
    <2> QED
        BY <1>1, <2>1
<1>3. \A n \in D : Nth(D, size) >= n
    <2> TAKE n \in D
    <2>1. PICK i \in 1..size : n = Nth(D, i)
        BY <1>1
    <2>2. i = size \/ i < size
        BY <1>1
    <2>3. i < size => n < Nth(D, size)
        BY <1>1, <1>2, <2>1
    <2>4. n \in Nat /\ Nth(D, size) \in Nat
        BY <1>1, <1>2
    <2> QED
        BY <2>1, <2>2, <2>3, <2>4
<1>4. \E m \in D : \A n \in D : m >= n
    BY <1>1, <1>2, <1>3
<1> QED
    BY <1>4 DEF Max

LEMMA NewRowIs ==
    ASSUME words \in Tables, shownWords \in Tables
    PROVE  NewRow \in Nat /\ NewRow \notin DOMAIN words
<1> DEFINE D == DOMAIN words \cup DOMAIN shownWords \cup {0}
<1>1. /\ IsFiniteSet(DOMAIN words) /\ DOMAIN words \subseteq Nat
      /\ IsFiniteSet(DOMAIN shownWords) /\ DOMAIN shownWords \subseteq Nat
    BY TableHas
<1>2. IsFiniteSet(D)
    <2>1. IsFiniteSet(DOMAIN words \cup DOMAIN shownWords)
        BY <1>1, FS_Union, Zenon
    <2>2. IsFiniteSet({0})
        BY FS_Singleton, Zenon
    <2> QED
        BY <2>1, <2>2, FS_Union, Zenon
<1>3. D \subseteq Nat /\ D # {}
    BY <1>1
<1>4. NewRow = Max(D) + 1
    BY DEF NewRow
<1>5. \A n \in DOMAIN words : n \in D
    OBVIOUS
<1> HIDE DEF D
<1>6. Max(D) \in D /\ \A n \in D : Max(D) >= n
    BY <1>2, <1>3, GreatestRow
<1>7. Max(D) \in Nat
    BY <1>3, <1>6
<1> DEFINE m == Max(D)
<1>8. m \in Nat /\ NewRow = m + 1 /\ \A n \in DOMAIN words : m >= n
    BY <1>4, <1>5, <1>6, <1>7
<1> HIDE DEF m
<1> QED
    BY <1>8

LEMMA UpsertedIs ==
    ASSUME words \in Tables, shownWords \in Tables, NEW word \in Words,
           NEW table, table = Upserted(word)
    PROVE  /\ table \in Tables /\ word \in Range(table)
           /\ \A x \in Range(words) : x \in Range(table)
           /\ \A n \in DOMAIN table :
                 \/ n \in DOMAIN words /\ table[n] = words[n]
                 \/ table[n] = word /\ word \notin Range(words)
<1>1. CASE word \in Range(words)
    BY <1>1 DEF Upserted, InTable
<1>2. CASE word \notin Range(words)
    <2> DEFINE r == NewRow
               D == DOMAIN words \cup {r}
    <2>1. r \in Nat /\ r \notin DOMAIN words
        BY NewRowIs
    <2>2. table = [n \in D |-> IF n = r THEN word ELSE words[n]]
        BY <1>2 DEF Upserted, InTable
    <2> HIDE DEF r
    <2>3. /\ words \in [DOMAIN words -> Words] /\ IsFiniteSet(DOMAIN words)
          /\ DOMAIN words \subseteq Nat
        BY TableHas
    <2>4. IsFiniteSet(D)
        BY <2>3, FS_AddElement, Zenon
    <2>5. D \subseteq Nat /\ table \in [D -> Words]
        BY <2>1, <2>2, <2>3
    <2>6. table \in Tables
        BY <2>4, <2>5, TableMade
    <2>7. /\ DOMAIN table = D /\ r \in D /\ table[r] = word
          /\ \A n \in DOMAIN words : n \in D /\ table[n] = words[n]
          /\ \A n \in D : n \in DOMAIN words \/ n = r
        BY <2>1, <2>2
    <2> HIDE DEF D
    <2> QED
        BY <1>2, <2>6, <2>7 DEF Range
<1> QED
    BY <1>1, <1>2

LEMMA RestrictedIs ==
    ASSUME words \in Tables, NEW row, NEW table,
           table = Restrict(words, DOMAIN words \ {row})
    PROVE  /\ table \in Tables /\ DOMAIN table = DOMAIN words \ {row}
           /\ \A n \in DOMAIN table : table[n] = words[n]
<1>1. /\ words \in [DOMAIN words -> Words] /\ IsFiniteSet(DOMAIN words)
      /\ DOMAIN words \subseteq Nat
    BY TableHas
<1> DEFINE D == DOMAIN words \ {row}
<1>2. table = [n \in D |-> words[n]]
    BY DEF Restrict
<1>3. D \subseteq DOMAIN words /\ D \subseteq Nat
    BY <1>1
<1>4. IsFiniteSet(D)
    BY <1>1, <1>3, FS_Subset, Zenon
<1>5. table \in [D -> Words]
    BY <1>1, <1>2
<1> HIDE DEF D
<1>6. table \in Tables
    BY <1>3, <1>4, <1>5, TableMade
<1> QED
    BY <1>2, <1>6 DEF D

LEMMA UpdatedIs ==
    ASSUME words \in Tables, NEW row \in DOMAIN words, NEW word \in Words,
           NEW table, table = [words EXCEPT ![row] = word]
    PROVE  /\ table \in Tables /\ DOMAIN table = DOMAIN words /\ table[row] = word
           /\ \A n \in DOMAIN words : n # row => table[n] = words[n]
<1>1. /\ words \in [DOMAIN words -> Words] /\ IsFiniteSet(DOMAIN words)
      /\ DOMAIN words \subseteq Nat
    BY TableHas
<1>2. table \in [DOMAIN words -> Words]
    BY <1>1
<1>3. table \in Tables
    BY <1>1, <1>2, TableMade
<1> QED
    BY <1>3

LEMMA ThreadWritesKeeps ==
    ASSUME WordInv, NEW i \in DOMAIN wordThreads, ThreadWrites(i)
    PROVE  WordInv'
<1>1. WordTyped /\ WordWorking /\ WordDialog /\ WordKept
    BY DEF WordInv
<1> DEFINE t == wordThreads[i]
           w == Head(t.todo)
           fails == w.kind = "update" /\ UpdateFails(w)
<1>2. t \in WordThread /\ FitsWord(t, requested, words) /\ t.todo # <<>>
    BY WorkedIs DEF ThreadWrites
<1>3. t.todo \in Seq(WordWrites)
    BY <1>2 DEF WordThread
<1>4. w = t.todo[1] /\ 1 \in DOMAIN t.todo /\ w \in WordWrites
    BY <1>2, <1>3, TailIs
<1>5. UNCHANGED <<shownWords, drafts, dialog, saving, requested>>
    BY DEF ThreadWrites
<1>6. words \in Tables /\ shownWords \in Tables
    BY <1>1 DEF WordTyped
<1>7. /\ t.kind = "edit" => w.kind = "update"
      /\ t.kind = "delete" => w.kind = "delete"
      /\ t.kind \notin {"edit", "delete"} => w.kind = "upsert"
      /\ t.kind # "delete" => w.word \in Words
      /\ t.kind \in {"edit", "delete"} => (w.row \in DOMAIN words => words[w.row] \notin requested)
    BY <1>2, <1>4 DEF FitsWord, Meant
<1>8. Has(wordThreads, "edit") \/ Has(wordThreads, "delete") =>
         \A x \in requested : x \in Range(words)
    BY <1>1 DEF WordDialog, WordKept
<1>9. CASE /\ ~fails /\ words' = Written(w)
           /\ wordThreads' = [wordThreads EXCEPT ![i].todo = Tail(@)]
    <2> DEFINE u == [t EXCEPT !.todo = Tail(t.todo)]
    <2>1. wordThreads' = [wordThreads EXCEPT ![i] = u]
        BY <1>9
    <2>2. u = [t EXCEPT !.todo = Tail(t.todo)]
        OBVIOUS
    <2> HIDE DEF u
    <2>3. CASE t.kind \notin {"edit", "delete"}
        <3>1. words' = Upserted(w.word) /\ w.word \in Words
            BY <1>7, <1>9, <2>3 DEF Written
        <3>2. /\ words' \in Tables /\ w.word \in Range(words')
              /\ \A x \in Range(words) : x \in Range(words')
              /\ \A n \in DOMAIN words' :
                    \/ n \in DOMAIN words /\ words'[n] = words[n]
                    \/ words'[n] = w.word /\ w.word \notin Range(words)
            BY <1>6, <3>1, UpsertedIs
        <3>3. Has(wordThreads, "edit") \/ Has(wordThreads, "delete") =>
                 \A n \in DOMAIN words' : words'[n] \in requested =>
                     n \in DOMAIN words /\ words[n] \in requested
            BY <1>8, <3>2
        <3> QED
            BY <1>2, <1>5, <2>1, <2>2, <3>2, <3>3, WriteKeeps
    <2>4. CASE t.kind = "delete"
        <3>1. words' = Restrict(words, DOMAIN words \ {w.row})
            BY <1>7, <1>9, <2>4 DEF Written
        <3>2. /\ words' \in Tables /\ DOMAIN words' = DOMAIN words \ {w.row}
              /\ \A n \in DOMAIN words' : words'[n] = words[n]
            BY <1>6, <3>1, RestrictedIs
        <3>3. w.row \in DOMAIN words => words[w.row] \notin requested
            BY <1>7, <2>4
        <3>4. \A x \in requested : x \in Range(words) => x \in Range(words')
            BY <3>2, <3>3 DEF Range
        <3>5. \A n \in DOMAIN words' : words'[n] \in requested =>
                     n \in DOMAIN words /\ words[n] \in requested
            BY <3>2
        <3>6. t.kind # "save"
            BY <2>4
        <3> QED
            BY <1>2, <1>5, <2>1, <2>2, <3>2, <3>4, <3>5, <3>6, WriteKeeps
    <2>5. CASE t.kind = "edit"
        <3>1. /\ w.kind = "update" /\ w.word \in Words /\ w.row \in DOMAIN words
              /\ words[w.row] \notin requested
              /\ \A n \in DOMAIN words : words[n] = w.word => n = w.row
            BY <1>7, <1>9, <2>5 DEF UpdateFails, Rows
        <3>2. words' = [words EXCEPT ![w.row] = w.word]
            BY <1>9, <3>1 DEF Written
        <3>3. /\ words' \in Tables /\ DOMAIN words' = DOMAIN words /\ words'[w.row] = w.word
              /\ \A n \in DOMAIN words : n # w.row => words'[n] = words[n]
            BY <1>6, <3>1, <3>2, UpdatedIs
        <3>4. \A x \in requested : x \in Range(words) => x \in Range(words')
            BY <3>1, <3>3 DEF Range
        <3>5. \A x \in requested : x \in Range(words)
            BY <1>8, <2>5 DEF Has
        <3>6. w.word \notin requested
            BY <3>1, <3>5 DEF Range
        <3>7. \A n \in DOMAIN words' : words'[n] \in requested =>
                     n \in DOMAIN words /\ words[n] \in requested
            BY <3>3, <3>6
        <3>8. t.kind # "save"
            BY <2>5
        <3> QED
            BY <1>2, <1>5, <2>1, <2>2, <3>3, <3>4, <3>7, <3>8, WriteKeeps
    <2> QED
        BY <2>3, <2>4, <2>5
<1>10. CASE /\ UNCHANGED words
            /\ wordThreads' = [wordThreads EXCEPT ![i] = [@ EXCEPT !.todo = <<>>, !.failed = TRUE]]
    <2> DEFINE u == [t EXCEPT !.todo = <<>>, !.failed = TRUE]
    <2>1. wordThreads' = [wordThreads EXCEPT ![i] = u]
        BY <1>10
    <2>2. <<>> \in Seq(WordWrites)
        BY EmptySeq
    <2>3. u \in WordThread /\ u.kind = t.kind /\ u.todo = <<>> /\ u.failed
        BY <1>2, <2>2 DEF WordThread
    <2> HIDE DEF u
    <2> QED
        BY <1>5, <1>10, <2>1, <2>3, ListKeeps
<1> QED
    BY <1>9, <1>10 DEF ThreadWrites

LEMMA ThreadListsKeeps ==
    ASSUME WordInv, NEW i \in DOMAIN wordThreads, ThreadLists(i)
    PROVE  WordInv'
<1> DEFINE t == wordThreads[i]
<1>1. t \in WordThread /\ t.todo = <<>> /\ words \in Tables
    BY WorkedIs DEF ThreadLists, WordInv, WordTyped
<1>2. UNCHANGED <<words, shownWords, drafts, dialog, saving, requested>>
    BY DEF ThreadLists
<1>3. CASE wordThreads' = [wordThreads EXCEPT ![i] = [@ EXCEPT !.state = "listed", !.listed = words]]
    <2> DEFINE u == [t EXCEPT !.state = "listed", !.listed = words]
    <2>1. wordThreads' = [wordThreads EXCEPT ![i] = u]
        BY <1>3
    <2>2. u \in WordThread /\ u.kind = t.kind /\ u.todo = <<>> /\ u.failed = t.failed
        BY <1>1 DEF WordThread
    <2> HIDE DEF u
    <2> QED
        BY <1>1, <1>2, <2>1, <2>2, ListKeeps
<1>4. CASE wordThreads' = [wordThreads EXCEPT ![i].state = "unlisted"]
    <2> DEFINE u == [t EXCEPT !.state = "unlisted"]
    <2>1. wordThreads' = [wordThreads EXCEPT ![i] = u]
        BY <1>4
    <2>2. u \in WordThread /\ u.kind = t.kind /\ u.todo = <<>> /\ u.failed = t.failed
        BY <1>1 DEF WordThread
    <2> HIDE DEF u
    <2> QED
        BY <1>1, <1>2, <2>1, <2>2, ListKeeps
<1> QED
    BY <1>3, <1>4 DEF ThreadLists
LEMMA WordsArriveKeeps ==
    ASSUME WordInv, NEW i \in DOMAIN wordThreads, WordsArrive(i)
    PROVE  WordInv'
<1>1. WordTyped /\ WordWorking /\ WordDialog /\ WordKept
    BY DEF WordInv
<1> DEFINE t == wordThreads[i]
           S == FittingWords(requested, words)
<1>2. t \in WordThread /\ FitsWord(t, requested, words) /\ t.state # "writing"
    BY WorkedIs DEF WordsArrive
<1>3. /\ shownWords' = IF t.state = "listed" /\ (t.kind = "save" \/ ~t.failed) THEN t.listed
                       ELSE shownWords
      /\ saving' = (saving /\ t.kind # "save")
      /\ wordThreads' = RemoveAt(wordThreads, i)
      /\ UNCHANGED <<words, requested>>
    BY DEF WordsArrive
<1>4. wordThreads \in Seq(S) /\ OneSave(wordThreads)
    BY <1>1 DEF WordWorking
<1> HIDE DEF S
<1>5. /\ wordThreads' \in Seq(S) /\ OneSave(wordThreads')
      /\ \A kind : Has(wordThreads', kind) => Has(wordThreads, kind)
      /\ \A kind : Has(wordThreads, kind) /\ t.kind # kind => Has(wordThreads', kind)
      /\ t.kind = "save" => ~Has(wordThreads', "save")
    BY <1>3, <1>4, Ending
<1>6. WordWorking'
    BY <1>3, <1>5 DEF WordWorking, S
<1>7. /\ words' \in Tables /\ shownWords' \in Tables /\ saving' \in BOOLEAN
      /\ saving' <=> Has(wordThreads', "save")
    <2>1. t.listed \in Tables
        BY <1>2 DEF WordThread
    <2>2. shownWords' \in Tables
        BY <1>1, <1>3, <2>1 DEF WordTyped
    <2>3. saving' \in BOOLEAN /\ (saving' <=> saving /\ t.kind # "save")
        BY <1>3
    <2>4. saving <=> Has(wordThreads, "save")
        BY <1>1 DEF WordDialog
    <2>5. Has(wordThreads', "save") <=> Has(wordThreads, "save") /\ t.kind # "save"
        BY <1>5
    <2> QED
        BY <1>1, <1>3, <2>2, <2>3, <2>4, <2>5 DEF WordTyped
<1>8. CASE t.kind = "save" /\ t.state = "listed" /\ ~t.failed
    <2>1. dialog' = FALSE /\ drafts' = <<>>
        BY <1>8 DEF WordsArrive
    <2>2. <<>> \in Seq(Drafts) /\ DOMAIN <<>> = {}
        BY EmptySeq
    <2>3. t.todo = <<>>
        BY <1>2 DEF FitsWord
    <2>4. \A x \in requested : x \in Range(words)
        BY <1>2, <1>8, <2>2, <2>3 DEF FitsWord
    <2>5. ~saving'
        BY <1>3, <1>8
    <2>6. WordTyped' /\ WordDialog' /\ WordKept'
        BY <1>3, <1>7, <2>1, <2>2, <2>4, <2>5 DEF WordTyped, WordDialog, WordKept
    <2> QED
        BY <1>6, <2>6 DEF WordInv
<1>9. CASE ~(t.kind = "save" /\ t.state = "listed" /\ ~t.failed)
    <2>1. UNCHANGED <<dialog, drafts>>
        BY <1>9 DEF WordsArrive
    <2>2. saving' => saving
        BY <1>3
    <2>3. WordTyped'
        BY <1>1, <1>7, <2>1 DEF WordTyped
    <2>4. WordDialog'
        BY <1>1, <1>5, <1>7, <2>1, <2>2 DEF WordDialog
    <2>5. WordKept'
        BY <1>1, <1>3, <1>5, <2>1 DEF WordKept
    <2> QED
        BY <1>6, <2>3, <2>4, <2>5 DEF WordInv
<1> QED
    BY <1>8, <1>9

LEMMA WordPageKeeps ==
    ASSUME WordInv, WordPageNext
    PROVE  WordInv'
<1>1. CASE OpenAdd \/ CloseAdd \/ AddDraft \/ TypeDraft \/ RemoveDraft \/ SaveDrafts
    BY <1>1, OpenAddKeeps, CloseAddKeeps, AddDraftKeeps, TypeDraftKeeps, RemoveDraftKeeps,
       SaveDraftsKeeps
<1>2. CASE EditWord \/ DeleteWord \/ RefreshDictionary \/ ImportCsv
    BY <1>2, EditWordKeeps, DeleteWordKeeps, RefreshDictionaryKeeps, ImportCsvKeeps
<1>3. CASE \E i \in DOMAIN wordThreads : WordsArrive(i) \/ ThreadWrites(i) \/ ThreadLists(i)
    BY <1>3, WordsArriveKeeps, ThreadWritesKeeps, ThreadListsKeeps
<1> QED
    BY <1>1, <1>2, <1>3 DEF WordPageNext

LEMMA WordPageStands ==
    ASSUME WordInv, UNCHANGED wordPageVars
    PROVE  WordInv'
BY DEF wordPageVars, WordInv, WordTyped, WordWorking, WordDialog, WordKept

-----------------------------------------------------------------------------
(* The two pages.                                                          *)

PagesInv == HistoryInv /\ WordInv

LEMMA PagesInitOK == ASSUME PagesInit PROVE PagesInv
BY PageInitOK, WordPageInitOK DEF PagesInit, PagesInv

LEMMA PagesStepOK == ASSUME PagesInv, [PagesNext]_pagesVars PROVE PagesInv'
<1>1. CASE HistoryPageNext
    <2>1. UNCHANGED wordPageVars
        BY <1>1 DEF HistoryPageNext
    <2> QED
        BY <1>1, <2>1, HistoryPageKeeps, WordPageStands DEF PagesInv
<1>2. CASE WordPageNext
    <2>1. UNCHANGED historyPageVars
        BY <1>2 DEF WordPageNext
    <2> QED
        BY <1>2, <2>1, WordPageKeeps, HistoryPageStands DEF PagesInv
<1>3. CASE UNCHANGED pagesVars
    <2>1. UNCHANGED wordPageVars /\ UNCHANGED historyPageVars
        BY <1>3 DEF pagesVars
    <2> QED
        BY <2>1, WordPageStands, HistoryPageStands DEF PagesInv
<1> QED
    BY <1>1, <1>2, <1>3 DEF PagesNext

LEMMA PagesInvariant == PagesSpec => []PagesInv
<1>1. PagesInit => PagesInv
    BY PagesInitOK
<1>2. PagesInv /\ [PagesNext]_pagesVars => PagesInv'
    BY PagesStepOK
<1> QED
    BY <1>1, <1>2, PTL DEF PagesSpec

\* The rows, the deletion that can be undone and the cursor of the history page
\* are rows that were made; the dictionary's dialog is open exactly when it has a
\* line, and while a save is at work; the table and the list hold words
\* (local_data_ui.rs, dictionary_ui.rs).
THEOREM PagesTypeCorrect == PagesSpec => []PagesTypeOK
<1>1. ASSUME PagesInv PROVE PagesTypeOK
    <2>1. HistoryTyped /\ WordTyped /\ WordDialog
        BY <1>1 DEF PagesInv, HistoryInv, WordInv
    <2>2. /\ rows \subseteq 1..made /\ {pendingRow, nextCursor} \subseteq 0..made
          /\ Range(list) \subseteq 1..made
        BY <2>1 DEF HistoryTyped
    <2>3. /\ saving <=> AtWork("save")
          /\ dialog <=> drafts # <<>>
          /\ saving => dialog
        BY <2>1 DEF WordDialog, AtWork, Has
    <2>4. dialog = (drafts # <<>>) /\ saving = AtWork("save")
        <3>1. dialog \in BOOLEAN /\ saving \in BOOLEAN
            BY <2>1 DEF WordTyped
        <3>2. AtWork("save") \in BOOLEAN
            BY DEF AtWork
        <3> HIDE DEF AtWork
        <3> QED
            BY <2>3, <3>1, <3>2
    <2>5. Range(words) \cup Range(shownWords) \subseteq Words
        <3>1. words \in [DOMAIN words -> Words] /\ shownWords \in [DOMAIN shownWords -> Words]
            BY <2>1, TableHas DEF WordTyped
        <3> QED
            BY <3>1 DEF Range
    <2>6. Typed \subseteq Words
        <3>1. drafts \in [1..Len(drafts) -> Drafts] /\ DOMAIN drafts = 1..Len(drafts)
            BY <2>1, LenProperties DEF WordTyped
        <3>2. \A j \in DOMAIN drafts : drafts[j] \in Words \cup {""}
            BY <3>1 DEF Drafts
        <3> QED
            BY <3>2 DEF Typed, Range
    <2> QED
        BY <2>2, <2>3, <2>4, <2>5, <2>6 DEF PagesTypeOK
<1>2. PagesInv => PagesTypeOK
    BY <1>1
<1> QED
    BY <1>2, PagesInvariant, PTL

\* The history page lists one stretch of what the table has for the search in its
\* field, each row once, newest first, but for rows whose deletion is under way,
\* whatever the order in which pages arrive; a row whose deletion was taken back
\* is not deleted; a word that was saved is in the table or still in the dialog
\* (history_query.rs:72 and :124, local_data_ui.rs:292, dictionary_ui.rs:363).
THEOREM PagesKeepTheirWordCorrect == PagesSpec => []PagesKeepTheirWord
<1>1. ASSUME PagesInv PROVE PagesKeepTheirWord
    <2>1. /\ HistoryTyped /\ WorkFits /\ Showing
          /\ WordKept
        BY <1>1 DEF PagesInv, HistoryInv, WordInv
    <2>2. UndoneIsKept
        <3> SUFFICES ASSUME NEW i \in DOMAIN pageThreads, pageThreads[i].kind = "delete"
                     PROVE  pageThreads[i].cursor \in doomed
            BY DEF UndoneIsKept
        <3>1. FitsPage(pageThreads[i], made, generation, search, doomed, rows)
            BY <1>1, ThreadIs DEF PagesInv
        <3> QED
            BY <3>1 DEF FitsPage
    <2>3. ASSUME Listed, ~mixed PROVE ListIsOneStretch
        <3>1. ShowsAll(list, search, rows, pageThreads, nextCursor)
            BY <2>1, <2>3 DEF Showing
        <3>2. \A r : Deletes(pageThreads, r) => r \in doomed
            BY <2>2 DEF UndoneIsKept, Deletes
        <3>3. /\ list \in Seq(Nat) /\ Len(list) \in Nat /\ DOMAIN list = 1..Len(list)
              /\ Head(list) = list[1] /\ Last(list) = list[Len(list)]
            BY <2>1, LenProperties DEF HistoryTyped, Last
        <3>4. \A i \in 1..(Len(list) - 1) : list[i] > list[i + 1]
            <4> TAKE i \in 1..(Len(list) - 1)
            <4>1. i \in DOMAIN list /\ i + 1 \in DOMAIN list /\ i < i + 1
                BY <3>3
            <4> QED
                BY <3>1, <4>1 DEF ShowsAll, Descending
        <3>5. search = "text" => Range(list) \subseteq Matching
            BY <3>1 DEF ShowsAll
        <3>6. ASSUME NEW r \in Hits(search, 0) \ (Range(list) \cup doomed), list # <<>>
              PROVE  r > Head(list) \/ r < Last(list)
            <4>1. r \in rows /\ Matches(r, search)
                BY <3>6 DEF Hits, Matches
            <4>2. \/ \A x \in Range(list) : r > x
                  \/ \A x \in Range(list) : r < x
                BY <3>1, <3>2, <3>6, <4>1 DEF ShowsAll
            <4>3. Head(list) \in Range(list) /\ Last(list) \in Range(list)
                <5>1. Len(list) # 0
                    BY <3>3, <3>6, EmptySeq
                <5>2. 1 \in DOMAIN list /\ Len(list) \in DOMAIN list
                    BY <3>3, <5>1
                <5> QED
                    BY <3>3, <5>2 DEF Range
            <4> QED
                BY <4>2, <4>3
        <3> QED
            BY <3>4, <3>5, <3>6 DEF ListIsOneStretch
    <2>4. SavedWordsAreKept
        BY <2>1 DEF SavedWordsAreKept, WordKept, InTable, Typed
    <2> QED
        BY <2>2, <2>3, <2>4 DEF PagesKeepTheirWord
<1>2. PagesInv => PagesKeepTheirWord
    BY <1>1
<1> QED
    BY <1>2, PagesInvariant, PTL
=============================================================================
