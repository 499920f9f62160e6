-------------------------- MODULE DictionaryLearning --------------------------
(***************************************************************************)
(* The personal dictionary and what is learned for it:                     *)
(* crates/infra/src/sqlite_storage/dictionary.rs and                       *)
(* dictionary_learning.rs, with the assessments of                         *)
(* crates/app/src/dictionary_learning.rs and dictionary_assist.rs.         *)
(*                                                                         *)
(* A correction the user makes in a delivered text is assessed and         *)
(* recorded by a thread of its own; the suggestion thread records what the *)
(* language model found in the history; meanwhile the user adds, renames,  *)
(* deletes and imports entries.  Each is one transaction of the SQLite     *)
(* worker, in whatever order the threads get there.                        *)
(*                                                                         *)
(* A term is a literal form under one language tag, which is what the      *)
(* tables' keys identify.  A term that differs from another only in its    *)
(* tag is a different term here as it is there.                            *)
(***************************************************************************)
EXTENDS Integers, FiniteSets

CONSTANTS
    Terms,            \* (language, canonical_key)
    ShortTerms,       \* those of a single character
    Speeches,         \* identities of dictations
    Window,           \* OBSERVATION_WINDOW_MS, in ticks of the clock
    MaxTicks,         \* bound: the clock
    MaxObservations,  \* bound: observations recorded
    MaxEdits          \* bound: entries the user adds, renames or deletes

ASSUME DictionaryAssumption ==
    /\ ShortTerms \subseteq Terms
    /\ {Window, MaxTicks, MaxObservations, MaxEdits} \subseteq Nat

VARIABLES
    entries,      \* dictionary_entries: the origin of each term
    suppressed,   \* dictionary_suppressions (never expires)
    observations, \* term_observations: one row per dictation and term
    tick,         \* the clock
    evidenceLog,  \* history: every observation that counted as evidence
    refused,      \* history: learned terms the user deleted and did not add since
    observed, edits

dictionaryVars == <<entries, suppressed, observations, tick, evidenceLog, refused,
                    observed, edits>>

-----------------------------------------------------------------------------
Decisions == {"accept", "uncertain", "reject"}
\* Confidences that the thresholds 80 and 60 tell apart.
Confidences == {50, 70, 90}
Assessments == [decision : Decisions, confidence : Confidences]
Observation == [speech : Speeches, term : Terms, decision : Decisions,
                confidence : Confidences, at : 0..MaxTicks]

\* required_evidence: whether an assessment counts as evidence at all.
RequiresEvidence(a) == a.decision # "reject" /\ a.confidence >= 60

\* What the aggregate counts as high confidence.
High(row) == row.decision = "accept" /\ row.confidence >= 80

\* assess_dictionary_candidate: what the local rules say of a shape of term.
LocalAssessment ==
    [single       |-> [decision |-> "reject",    confidence |-> 90],
     acronym      |-> [decision |-> "accept",    confidence |-> 90],
     identifier   |-> [decision |-> "accept",    confidence |-> 90],
     name         |-> [decision |-> "accept",    confidence |-> 90],
     cjkFragment  |-> [decision |-> "reject",    confidence |-> 90],
     cjk          |-> [decision |-> "uncertain", confidence |-> 70],
     other        |-> [decision |-> "uncertain", confidence |-> 50]]

\* A single character is rejected whatever the language model says of it.
Possible(term) == IF term \in ShortTerms THEN {LocalAssessment.single} ELSE Assessments

DictionaryInit ==
    /\ entries = [t \in Terms |-> "none"]
    /\ suppressed = {} /\ observations = {}
    /\ tick = 0
    /\ evidenceLog = {} /\ refused = {}
    /\ observed = 0 /\ edits = 0

-----------------------------------------------------------------------------
(* The upsert of record_evidence: one row per dictation and term, with the  *)
(* decision of its most confident assessment, the first of equals.         *)
Merged(rows, o) ==
    LET same == {r \in rows : r.speech = o.speech /\ r.term = o.term}
    IN  (rows \ same) \cup
          {IF same = {} THEN o
           ELSE LET r == CHOOSE r \in same : TRUE IN
                [o EXCEPT !.decision = IF o.confidence > r.confidence
                                       THEN @ ELSE r.decision,
                          !.confidence = IF o.confidence > r.confidence
                                         THEN @ ELSE r.confidence,
                          !.at = IF r.at > @ THEN r.at ELSE @]}

\* Mutant of Recent: old rows stay.
Recent_KeepsAll(rows, at) == rows

\* Rows older than the window before the observation are deleted.
Recent(rows, at) == {r \in rows : r.at >= at - Window}

SpeechesOf(rows) == {r.speech : r \in rows}

\* Two dictations with high confidence, or three at all.
Enough(rows) ==
    \/ Cardinality(SpeechesOf({r \in rows : High(r)})) >= 2
    \/ Cardinality(SpeechesOf(rows)) >= 3

\* The entry exists, or the user deleted it after it was learned.
Known(term) == entries[term] # "none" \/ term \in suppressed

(* record: one observation, made at the time of the correction or of the   *)
(* dictation a suggestion was found in.                                    *)
RecordTerm(o) ==
    /\ observed < MaxObservations
    /\ observed' = observed + 1
    /\ RequiresEvidence(o) /\ ~Known(o.term)
    /\ LET rows == Merged(Recent(observations, o.at), o)
           mine == {r \in rows : r.term = o.term}
       IN  IF Enough(mine)
           THEN /\ entries' = [entries EXCEPT ![o.term] = "automatic"]
                /\ observations' = rows \ mine
           ELSE /\ observations' = rows
                /\ UNCHANGED entries
    /\ evidenceLog' = evidenceLog \cup {o}
    /\ UNCHANGED <<suppressed, tick, refused, edits>>

(* An observation that is no evidence, or of a term that is present or      *)
(* suppressed: only the diagnostic table changes.                          *)
Ignored(t) == {a \in Possible(t) : ~RequiresEvidence(a) \/ Known(t)}
IgnoreTerm(t) == Ignored(t) # {} /\ UNCHANGED dictionaryVars

\* A correction is observed when it is made, a suggestion when its dictation
\* was; a day at most lies between, and a tick is a good part of the window.
SameTime(s) == \A r \in evidenceLog : r.speech = s => r.at \in {tick - 1, tick}

ObserveTerm ==
    \E s \in Speeches, t \in Terms :
        /\ SameTime(s)
        /\ \/ IgnoreTerm(t)
           \/ \E a \in Possible(t) :
                RecordTerm([speech |-> s, term |-> t, decision |-> a.decision,
                            confidence |-> a.confidence, at |-> tick])

-----------------------------------------------------------------------------
EditsDictionary == edits < MaxEdits /\ edits' = edits + 1

(* upsert with origin manual: typed, or a row of an imported file.  It      *)
(* takes an automatic entry over and lifts the suppression.                *)
AddTerm(t) ==
    /\ EditsDictionary
    /\ entries' = [entries EXCEPT ![t] = "manual"]
    /\ suppressed' = suppressed \ {t}
    /\ refused' = refused \ {t}
    /\ UNCHANGED <<observations, tick, evidenceLog, observed>>

(* import_terms: terms already in the list, as read when the import began,  *)
(* are skipped.                                                            *)
ImportTerm(t) == entries[t] = "none" /\ AddTerm(t)

\* update: the entry keeps its origin; a name that is taken is refused.
RenameTerm(t, u) ==
    /\ EditsDictionary
    /\ entries[t] # "none" /\ entries[u] = "none"
    /\ entries' = [entries EXCEPT ![u] = entries[t], ![t] = "none"]
    /\ UNCHANGED <<suppressed, observations, tick, evidenceLog, refused, observed>>

\* delete: a learned term is not to be learned again.
DeleteTerm(t) ==
    /\ EditsDictionary
    /\ entries[t] # "none"
    /\ entries' = [entries EXCEPT ![t] = "none"]
    /\ suppressed' = IF entries[t] = "automatic" THEN suppressed \cup {t} ELSE suppressed
    /\ refused' = IF entries[t] = "automatic" THEN refused \cup {t} ELSE refused
    /\ UNCHANGED <<observations, tick, evidenceLog, observed>>

Tick ==
    /\ tick < MaxTicks
    /\ tick' = tick + 1
    /\ UNCHANGED <<entries, suppressed, observations, evidenceLog, refused, observed,
                   edits>>

DictionaryNext ==
    \/ ObserveTerm
    \/ \E t \in Terms : AddTerm(t) \/ ImportTerm(t) \/ DeleteTerm(t)
    \/ \E t, u \in Terms : RenameTerm(t, u)
    \/ Tick

DictionarySpec == DictionaryInit /\ [][DictionaryNext]_dictionaryVars

-----------------------------------------------------------------------------
(* What the variables may hold.                                            *)
DictionaryTypeOK ==
    /\ entries \in [Terms -> {"none", "manual", "automatic"}]
    /\ suppressed \subseteq Terms /\ refused \subseteq Terms
    /\ observations \subseteq Observation /\ evidenceLog \subseteq Observation
    /\ tick \in 0..MaxTicks
    /\ observed \in 0..MaxObservations /\ edits \in 0..MaxEdits

\* The evidence for a term of the dictations that were heard of it within the
\* window before now.
EvidenceWithin(log, t, now) ==
    LET heard == {r \in log : r.term = t}
        recent == SpeechesOf({r \in heard : r.at >= now - Window})
    IN  {r \in heard : r.speech \in recent}

\* What became an automatic entry was one under another name, or has its
\* evidence, and replaces nothing.
LearnedStep(t) ==
    entries'[t] = "automatic" /\ entries[t] # "automatic" =>
      /\ entries[t] = "none"
      /\ \/ \E s \in Terms : entries[s] = "automatic" /\ entries'[s] = "none"
         \/ t \notin refused /\ Enough(EvidenceWithin(evidenceLog', t, tick))

(* A term becomes an automatic entry only by evidence that the observations *)
(* themselves support: two dictations with a confident acceptance each, or  *)
(* three with any evidence, all of which were heard of within the window    *)
(* before the observation that makes it one; a correction older than that   *)
(* is forgotten, whatever came since.  Revisions within one dictation,      *)
(* however many and in whatever order their threads come, count once        *)
(* (CONTEXT.md: no entry from one dictation); a term that the user deleted  *)
(* is not learned again before the user adds it; and nothing learned        *)
(* replaces or reclassifies what the user typed.                            *)
LearnedByEvidence == [][\A t \in Terms : LearnedStep(t)]_dictionaryVars
=============================================================================
