------------------------- MODULE DictationLifecycle -------------------------
(***************************************************************************)
(* What the dictation threads promise together, seen from outside: the     *)
(* phases one session goes through and the texts that are delivered        *)
(* (CONTEXT.md's 口述会话, 取消 and 取消后的撤销恢复).  At most one session *)
(* is busy; each transition is one of the named ones; a text leaves only   *)
(* while a session finishes, and never twice under one identity.           *)
(* DictationRuntime implements it; the mapping is at the end of that       *)
(* module.                                                                 *)
(***************************************************************************)
CONSTANT Session

VARIABLES
    phase,      \* where each session is
    delivered   \* identities under which a text was delivered

vars == <<phase, delivered>>

(* "closing": the text was delivered, or will not be; "over": the session  *)
(* gave the slot up and no undo prompt stands for it any more.             *)
Phase == {"new", "live", "cancelled", "finishing", "closing", "over"}

Busy(s) == phase[s] \in {"live", "finishing", "closing"}

Init ==
    /\ phase = [s \in Session |-> "new"]
    /\ delivered = {}

(* Session s takes the free slot and moves to phase p: what was cancelled  *)
(* before is over.                                                         *)
TakesSlot(s, p) ==
    /\ \A t \in Session : ~Busy(t)
    /\ phase' = [t \in Session |->
                    IF t = s THEN p
                    ELSE IF phase[t] = "cancelled" THEN "over" ELSE phase[t]]
    /\ UNCHANGED delivered

Moves(s, from, to) ==
    /\ phase[s] \in from
    /\ phase' = [phase EXCEPT ![s] = to]

Begin(s) == phase[s] = "new" /\ TakesSlot(s, "live")

Finish(s) == Moves(s, {"live"}, "finishing") /\ UNCHANGED delivered

Cancel(s) == Moves(s, {"live"}, "cancelled") /\ UNCHANGED delivered

(* The start fails or the finish is through; an undo may find nothing, and *)
(* the application may quit.                                               *)
Leave(s) == Busy(s) /\ Moves(s, Phase, "over") /\ UNCHANGED delivered

(* An undo takes the slot for the identity it read from it a moment before;*)
(* that session may have given the slot up in between.                     *)
Restore(s) ==
    /\ phase[s] \in {"cancelled", "over"}
    /\ TakesSlot(s, "finishing")

(* The text of the session, or of the session whose recording an undo      *)
(* found, is delivered, or the completion failed.                          *)
Settle(s) ==
    /\ Moves(s, {"finishing"}, "closing")
    /\ \/ UNCHANGED delivered
       \/ \E x \in Session \ delivered :
             /\ x = s \/ phase[x] = "over"
             /\ delivered' = delivered \cup {x}

Next ==
    \E s \in Session :
        \/ Begin(s) \/ Finish(s) \/ Cancel(s) \/ Leave(s) \/ Restore(s)
        \/ Settle(s)

Spec == Init /\ [][Next]_vars
=============================================================================
