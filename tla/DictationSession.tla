-------------------------- MODULE DictationSession --------------------------
(***************************************************************************)
(* The shared state machine of one dictation workflow, the struct          *)
(* DictationSession of crates/app/src/dictation_session.rs.  Every method  *)
(* of it takes the mutex, looks at the state and changes it, so every      *)
(* operator below is one atomic step of whichever thread calls it.  The    *)
(* module only says what each call does; which thread calls what, and when,*)
(* is DictationRuntime.                                                    *)
(*                                                                         *)
(* None of the transitions but request_toggle's looks at which session the *)
(* caller means: they act on whatever session holds the slot.              *)
(***************************************************************************)

CONSTANTS
    Session,  \* identities DictationSessionId::generate may return
    None      \* "no identity", Rust's Option::None

ASSUME NoneIsNoSession == None \notin Session

VARIABLES
    state,    \* DictationSessionState
    sid,      \* the identity in the slot, or None
    used      \* identities generated so far; a generated one is always new

sessionVars == <<state, sid, used>>

SessionState == {"Idle", "Starting", "Recording", "Finishing"}

SessionTypeOK ==
    /\ state \in SessionState
    /\ sid \in Session \cup {None}
    /\ used \subseteq Session

SessionInit ==
    /\ state = "Idle"
    /\ sid = None
    /\ used = {}

-----------------------------------------------------------------------------
(* request_toggle: starts a session from Idle and finishes one that is     *)
(* Recording (RequestFinish); otherwise it only reports that it is busy.   *)

ToggleStarts(s) ==
    /\ state = "Idle"
    /\ s \in Session \ used
    /\ state' = "Starting"
    /\ sid' = s
    /\ used' = used \cup {s}

-----------------------------------------------------------------------------
(* recording_started returns whether it made the step: the two outcomes.   *)

RecordingStarted ==
    /\ state = "Starting"
    /\ state' = "Recording"
    /\ UNCHANGED <<sid, used>>

RecordingNotStarted ==
    /\ state # "Starting"
    /\ UNCHANGED sessionVars

StartupFailed ==
    /\ IF state = "Starting"
       THEN state' = "Idle" /\ sid' = None
       ELSE UNCHANGED <<state, sid>>
    /\ UNCHANGED used

(* A mutant: a session that is finishing can be finished again.            *)
CanFinishTwice == state \in {"Recording", "Finishing"} /\ sid # None

(* request_finish returns the identity it finishes, None when it refuses.  *)
CanFinish == state = "Recording" /\ sid # None

RequestFinish ==
    /\ CanFinish
    /\ state' = "Finishing"
    /\ UNCHANGED <<sid, used>>

(* request_cancel keeps the identity in the slot: an undo needs it.        *)
CanCancel == state \in {"Starting", "Recording"} /\ sid # None

RequestCancel ==
    /\ CanCancel
    /\ state' = "Idle"
    /\ UNCHANGED <<sid, used>>

RequestCancelIfPossible ==
    RequestCancel \/ (~CanCancel /\ UNCHANGED sessionVars)

BeginRetainedProcessing(s) ==
    /\ state = "Idle"
    /\ state' = "Finishing"
    /\ sid' = s
    /\ UNCHANGED used

(* A mutant: the identity of a completed session stays in the slot.        *)
CompleteKeepingId == state' = "Idle" /\ UNCHANGED <<sid, used>>

(* complete asks nothing: it empties the slot whatever the state.          *)
Complete ==
    /\ state' = "Idle"
    /\ sid' = None
    /\ UNCHANGED used
=============================================================================
