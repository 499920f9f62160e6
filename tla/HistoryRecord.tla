---------------------------- MODULE HistoryRecord ---------------------------
(***************************************************************************)
(* What the history promises about the record of a dictation (CONTEXT.md's *)
(* 最终文本, docs of the history page), without threads, queues or the       *)
(* storage worker: a record is written once, only while the history is on; *)
(* its final text is then the delivered one or the revision observed; what *)
(* was deleted does not come back.  DictationCompletion implements it.     *)
(***************************************************************************)
CONSTANTS Dictation, Text

VARIABLES
    record,    \* the record of each dictation
    enabled    \* is the history switched on?

vars == <<record, enabled>>

Absent  == [status |-> "absent"]
Deleted == [status |-> "deleted"]
Kept(t) == [status |-> "kept", text |-> t]

IsKept(d) == record[d].status = "kept"

Init ==
    /\ record = [d \in Dictation |-> Absent]
    /\ enabled \in BOOLEAN

(* Records that go because they are too old, or because the user says so.  *)
Without(ds) == [d \in Dictation |-> IF d \in ds THEN Deleted ELSE record[d]]

Write(d) ==
    /\ enabled
    /\ record[d] = Absent
    /\ \E t \in Text, old \in SUBSET {e \in Dictation : IsKept(e)} :
         record' = [Without(old) EXCEPT ![d] = Kept(t)]
    /\ UNCHANGED enabled

Revise(d) ==
    /\ IsKept(d)
    /\ \E t \in Text : record' = [record EXCEPT ![d] = Kept(t)]
    /\ UNCHANGED enabled

Delete ==
    /\ \E ds \in SUBSET {d \in Dictation : IsKept(d)} : record' = Without(ds)
    /\ UNCHANGED enabled

Switch == enabled' = ~enabled /\ UNCHANGED record

Next == Delete \/ Switch \/ \E d \in Dictation : Write(d) \/ Revise(d)

Spec == Init /\ [][Next]_vars
=============================================================================
