--------------------------- MODULE HistoryStorage ---------------------------
(***************************************************************************)
(* The encrypted history, its key and the usage totals taken from it:      *)
(* crates/infra/src/sqlite_storage/worker.rs (one thread serves every      *)
(* command), history.rs (rows, key, reset, expiry) and usage.rs.           *)
(*                                                                         *)
(* Rows are encrypted with a key kept outside the database, in the         *)
(* platform's secret store (the keychain).  The two can disagree: the      *)
(* keychain entry may be lost or restored from a backup, a call to it may  *)
(* fail, and the process may die in the middle of a reset.  A validation   *)
(* record in the database tells whether a key is the one rows were written *)
(* with.                                                                   *)
(*                                                                         *)
(* Usage is counted when a row is inserted; what an older version stored   *)
(* is counted once, by the backfill that runs before anything is deleted.  *)
(* Commands run one after another, so each is one step, except the reset,  *)
(* which a crash may cut.                                                  *)
(***************************************************************************)
EXTENDS Integers, FiniteSets

CONSTANTS
    Dictations,     \* identities of history records
    NoKey,          \* no keychain entry, no validation record
    MaxKeys,        \* bound: keys generated
    MaxKeyFaults,   \* bound: failing keychain calls, lost or restored entries
    MaxDays,        \* bound: the clock, in units of the retention period
    MaxOpens        \* bound: starts of the application

ASSUME HistoryStorageAssumption ==
    /\ NoKey \notin Nat
    /\ MaxKeys \in Nat \ {0}
    /\ {MaxKeyFaults, MaxDays, MaxOpens} \subseteq Nat

VARIABLES
    db,             \* the tables, the keychain and the key in memory
    retention,      \* the stored history_retention
    resetting,      \* how far a reset is
    day,            \* the clock
    everStored,     \* history: records that were ever inserted
    everReset,      \* history: records erased by a reset
    keyFaults, opens

storageVars == <<db, retention, resetting, day, everStored, everReset,
                 keyFaults, opens>>

-----------------------------------------------------------------------------
Keys == 1..MaxKeys
Row == [id : Dictations, day : 0..MaxDays, key : Keys]

\* HistoryKeyState, "closed" while the application does not run.
KeyStates == {"closed", "uninitialized", "available", "locked", "invalid",
              "unavailable"}

Database == [rows : SUBSET Row, validation : Keys \cup {NoKey},
             keychain : Keys \cup {NoKey}, generated : 0..MaxKeys,
             recorded : SUBSET Dictations, backfilled : BOOLEAN,
             keyState : KeyStates, key : Keys \cup {NoKey}]

IdsOf(rows) == {r.id : r \in rows}

\* What may fail while a key is looked for: reading it, saving a new one,
\* writing the validation record of a new one.
LookupFaults == {"none", "load", "save", "check"}

Available(d, k) == [d EXCEPT !.keyState = "available", !.key = k, !.validation = k]
Without(d, state) == [d EXCEPT !.keyState = state]

FirstRow(rows) == CHOOSE r \in rows : \A other \in rows : r.day <= other.day

(* create_and_store_key: the keychain first, then the validation record.   *)
CreateKey(d, fault) ==
    LET new == d.generated + 1
        kept == [d EXCEPT !.generated = new, !.keychain = new]
    IN  CASE fault = "save" -> Without(d, "unavailable")
          [] fault = "check" -> Without(kept, "unavailable")
          [] OTHER -> Available(kept, new)

\* Mutant of InitializeKey: a missing key is created whatever is stored.
InitializeKey_AlwaysCreates(d, fault) ==
    CASE fault = "load" -> Without(d, "unavailable")
      [] fault # "load" /\ d.keychain = NoKey -> CreateKey(d, fault)
      [] OTHER -> Available(d, d.keychain)

(* initialize_key: the keychain's key must be the one the rows were written *)
(* with; a missing key is created only when there is nothing to read.      *)
InitializeKey(d, fault) ==
    LET k == d.keychain IN
    CASE fault = "load" -> Without(d, "unavailable")
      [] fault # "load" /\ k = NoKey ->
           IF d.rows # {} THEN Without(d, "locked") ELSE CreateKey(d, fault)
      [] fault # "load" /\ k # NoKey /\ d.validation = k -> Available(d, k)
      [] fault # "load" /\ k # NoKey /\ d.validation # k ->
           IF d.rows # {} /\ FirstRow(d.rows).key # k THEN Without(d, "locked")
           ELSE IF d.rows # {} /\ d.validation # NoKey THEN Without(d, "invalid")
           ELSE IF fault = "check" THEN Without(d, "unavailable") ELSE Available(d, k)

(* ensure_key: once per start of the application.                          *)
EnsureKey(d, fault) ==
    IF d.keyState = "uninitialized" THEN InitializeKey(d, fault) ELSE d

\* A page is read only if every row of it can be decrypted.
Readable(d) ==
    d.keyState = "available" /\ \A r \in d.rows : r.key = d.key

(* backfill_history: counts every row stored before totals existed, once.  *)
Backfill(d, fault) ==
    LET e == IF d.backfilled \/ d.rows = {} THEN d ELSE EnsureKey(d, fault)
    IN  IF d.backfilled \/ d.rows = {} \/ Readable(e)
        THEN [e EXCEPT !.backfilled = TRUE,
                       !.recorded = @ \cup IF d.backfilled THEN {} ELSE IdsOf(d.rows)]
        ELSE e

(* cleanup_in_transaction.                                                 *)
Expire(rows, now) ==
    IF retention = "forever" THEN rows ELSE {r \in rows : r.day >= now - 1}

StorageInit ==
    /\ \E old \in SUBSET [id : Dictations, day : {0}, key : {1}] :
         /\ old # {} => Cardinality(old) = 1
         /\ db = [rows |-> old, validation |-> IF old = {} THEN NoKey ELSE 1,
                  keychain |-> IF old = {} THEN NoKey ELSE 1,
                  generated |-> IF old = {} THEN 0 ELSE 1,
                  recorded |-> {}, backfilled |-> FALSE,
                  keyState |-> "closed", key |-> NoKey]
         /\ everStored = IdsOf(old)
    /\ retention = "days"
    /\ resetting = "no"
    /\ day = 0 /\ everReset = {} /\ keyFaults = 0 /\ opens = 0

-----------------------------------------------------------------------------
Serving == db.keyState # "closed" /\ resetting = "no"

\* A key lookup may fail only while the bound allows it, and only in a
\* command that looks for the key.
MayFail(fault) ==
    /\ fault # "none" => keyFaults < MaxKeyFaults /\ db.generated < MaxKeys
    /\ keyFaults' = keyFaults + (IF fault = "none" THEN 0 ELSE 1)

CanCreate == db.generated < MaxKeys

(* The application starts: the database is opened, and history is expired  *)
(* before anything else uses it (local_data_ui.rs).                        *)
OpenStorage(fault) ==
    /\ db.keyState = "closed"
    /\ opens < MaxOpens /\ CanCreate
    /\ MayFail(fault)
    /\ LET d == Backfill([db EXCEPT !.keyState = "uninitialized"], fault) IN
       db' = IF d.backfilled THEN [d EXCEPT !.rows = Expire(@, day)] ELSE d
    /\ opens' = opens + 1
    /\ UNCHANGED <<retention, resetting, day, everStored, everReset>>

(* insert: the row, its count and the expiry in one transaction.           *)
InsertRecord(id, fault) ==
    /\ Serving /\ CanCreate /\ id \notin everStored
    /\ MayFail(fault)
    /\ LET d == EnsureKey(db, fault)
           added == d.rows \cup {[id |-> id, day |-> day, key |-> d.key]}
       IN  IF d.keyState = "available"
           THEN /\ db' = [d EXCEPT !.rows = Expire(added, day),
                                   !.recorded = @ \cup {id}]
                /\ everStored' = everStored \cup {id}
           ELSE db' = d /\ UNCHANGED everStored
    /\ UNCHANGED <<retention, resetting, day, everReset, opens>>

\* A command that removes rows counts them first, or fails.
AfterBackfill(fault, remaining) ==
    /\ Serving /\ CanCreate
    /\ MayFail(fault)
    /\ LET d == Backfill(db, fault) IN
       db' = IF d.backfilled THEN [d EXCEPT !.rows = remaining] ELSE d
    /\ UNCHANGED <<resetting, day, everStored, everReset, opens>>

DeleteRecord(id, fault) ==
    /\ id \in IdsOf(db.rows)
    /\ AfterBackfill(fault, {r \in db.rows : r.id # id})
    /\ UNCHANGED retention

ClearHistory(fault) ==
    /\ AfterBackfill(fault, {})
    /\ UNCHANGED retention

CleanUp(fault) ==
    /\ AfterBackfill(fault, Expire(db.rows, day))
    /\ UNCHANGED retention

\* usage::snapshot: what the usage page reads is counted first.
ReadUsage(fault) ==
    /\ AfterBackfill(fault, db.rows)
    /\ UNCHANGED retention

(* save_settings: no preference is stored while rows wait to be counted;   *)
(* the new retention is applied at once.                                   *)
SaveRetention(r, fault) ==
    /\ Serving /\ CanCreate
    /\ MayFail(fault)
    /\ LET d == Backfill(db, fault) IN
       IF d.backfilled
       THEN /\ retention' = r
            /\ db' = [d EXCEPT !.rows = IF r = "forever" THEN @
                                        ELSE {x \in @ : x.day >= day - 1}]
       ELSE db' = d /\ UNCHANGED retention
    /\ UNCHANGED <<resetting, day, everStored, everReset, opens>>

-----------------------------------------------------------------------------
(* reset: the user gives the history up.  Rows and validation record go in *)
(* one transaction; until the last step the key counts as unavailable.     *)
ResetErases ==
    /\ Serving /\ CanCreate
    /\ db' = [db EXCEPT !.rows = {}, !.validation = NoKey,
                        !.keyState = "unavailable", !.key = NoKey]
    /\ everReset' = everReset \cup IdsOf(db.rows)
    /\ resetting' = "erased"
    /\ UNCHANGED <<retention, day, everStored, keyFaults, opens>>

\* The rows are gone, but the log cannot be checkpointed: the key stays.
ResetStopsShort ==
    /\ Serving /\ CanCreate
    /\ keyFaults < MaxKeyFaults
    /\ keyFaults' = keyFaults + 1
    /\ db' = [db EXCEPT !.rows = {}, !.validation = NoKey]
    /\ everReset' = everReset \cup IdsOf(db.rows)
    /\ UNCHANGED <<retention, resetting, day, everStored, opens>>

ResetDeletesKey ==
    /\ resetting = "erased"
    /\ db' = [db EXCEPT !.keychain = NoKey]
    /\ resetting' = "deleted"
    /\ UNCHANGED <<retention, day, everStored, everReset, keyFaults, opens>>

ResetSavesKey ==
    /\ resetting = "deleted"
    /\ LET new == db.generated + 1 IN
       db' = [db EXCEPT !.generated = new, !.keychain = new]
    /\ resetting' = "saved"
    /\ UNCHANGED <<retention, day, everStored, everReset, keyFaults, opens>>

ResetEnds ==
    /\ resetting = "saved"
    /\ db' = Available(db, db.generated)
    /\ resetting' = "no"
    /\ UNCHANGED <<retention, day, everStored, everReset, keyFaults, opens>>

\* A step of the reset fails: the key stays unavailable until the next start.
ResetFails ==
    /\ resetting # "no"
    /\ keyFaults < MaxKeyFaults
    /\ keyFaults' = keyFaults + 1
    /\ resetting' = "no"
    /\ UNCHANGED <<db, retention, day, everStored, everReset, opens>>

-----------------------------------------------------------------------------
\* The application ends or crashes, also in the middle of a reset.
CloseStorage ==
    /\ db.keyState # "closed"
    /\ db' = [db EXCEPT !.keyState = "closed", !.key = NoKey]
    /\ resetting' = "no"
    /\ UNCHANGED <<retention, day, everStored, everReset, keyFaults, opens>>

\* The keychain entry is lost, or an earlier one comes back with a backup.
KeychainChanges(k) ==
    /\ keyFaults < MaxKeyFaults
    /\ keyFaults' = keyFaults + 1
    /\ k \in {NoKey} \cup 1..db.generated
    /\ resetting = "no"
    /\ db' = [db EXCEPT !.keychain = k]
    /\ UNCHANGED <<retention, resetting, day, everStored, everReset, opens>>

DayPasses ==
    /\ day < MaxDays
    /\ day' = day + 1
    /\ UNCHANGED <<db, retention, resetting, everStored, everReset, keyFaults, opens>>

StorageNext ==
    \/ \E fault \in LookupFaults :
         \/ OpenStorage(fault) \/ ClearHistory(fault) \/ CleanUp(fault)
         \/ ReadUsage(fault)
         \/ \E id \in Dictations : InsertRecord(id, fault) \/ DeleteRecord(id, fault)
         \/ \E r \in {"days", "forever"} : SaveRetention(r, fault)
    \/ ResetErases \/ ResetStopsShort \/ ResetDeletesKey \/ ResetSavesKey \/ ResetEnds \/ ResetFails
    \/ CloseStorage \/ DayPasses
    \/ \E k \in Keys \cup {NoKey} : KeychainChanges(k)

StorageSpec == StorageInit /\ [][StorageNext]_storageVars

-----------------------------------------------------------------------------
(* What the variables may hold.                                            *)
StorageTypeOK ==
    /\ db.rows \subseteq Row
    /\ db.validation \in Keys \cup {NoKey} /\ db.keychain \in Keys \cup {NoKey}
    /\ db.generated \in 0..MaxKeys /\ db.key \in Keys \cup {NoKey}
    /\ db.recorded \subseteq Dictations /\ db.backfilled \in BOOLEAN
    /\ db.keyState \in KeyStates
    /\ retention \in {"days", "forever"}
    /\ resetting \in {"no", "erased", "deleted", "saved"}
    /\ day \in 0..MaxDays
    /\ keyFaults \in 0..MaxKeyFaults /\ opens \in 0..MaxOpens

(* While the history counts as available every row of it can be read: no   *)
(* lost or restored keychain entry, no failed or cut reset and no restart  *)
(* leads to rows under two keys, or to a key that is not that of the rows  *)
(* (CONTEXT.md: the key gone, access stops; only the user resets).         *)
HistoryStaysReadable ==
    db.keyState = "available" =>
        \A r \in db.rows : r.key = db.key

(* Every dictation that was ever kept is in the usage totals or still in   *)
(* the history to be counted, whatever was deleted, expired or saved in    *)
(* between; only a reset, which cannot read the rows, loses counts.        *)
UsageComplete ==
    /\ everStored \subseteq db.recorded \cup IdsOf(db.rows) \cup everReset
    /\ db.backfilled => IdsOf(db.rows) \subseteq db.recorded

(* What is stored stays what it was: a history that was kept remains       *)
(* readable and counted through every mishap of its key.                   *)
HistoryKept == HistoryStaysReadable /\ UsageComplete
=============================================================================
