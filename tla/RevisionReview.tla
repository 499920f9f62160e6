---------------------------- MODULE RevisionReview ----------------------------
(***************************************************************************)
(* What the dictionary learns of a text: from the user's revision of a     *)
(* delivered transcript (FinalTextRevisionState and text_revision_diffs of *)
(* crates/app/src/history_revision.rs, dictionary_revision.rs, the local   *)
(* assessment of dictionary_learning.rs, record_dictionary_revision of     *)
(* correction_observation.rs, assess_dictionary_revision of refinement_    *)
(* runtime.rs) and from the history (dictionary_assist.rs: samples, their  *)
(* parts and the answer of the service).  What is recorded here is what    *)
(* DictionaryLearning then counts.                                         *)
(*                                                                         *)
(* A text is a sequence of characters of a few classes; the service is     *)
(* external and answers anything.  The diff library is external too: any   *)
(* longest common subsequence of the two texts may be what it keeps.  The  *)
(* edits' contexts only go to the service and are left out.                *)
(***************************************************************************)
EXTENDS Integers, Sequences, FiniteSets, SequencesExt

CONSTANTS
    Delivered,       \* texts that were delivered
    Revised,         \* bound: what the user makes of them
    Suggested,       \* bound: terms the service names
    LongTexts,       \* texts of the history, for suggestions
    PartBudget,      \* SAMPLE_PART_BUDGET, in bytes
    PartOverlap,     \* PART_OVERLAP_CHARS
    PartOverhead,    \* what a part takes in a request besides its text, in bytes
    RequestBudget,   \* REQUEST_TEXT_BUDGET, in bytes
    MaxSnapshots     \* bound: snapshots of one observation

\* Characters: letters with their case, an underscore, a blank, a Chinese
\* character that names, and one that marks an ordinary fragment.
Characters == {"A", "I", "a", "i", "b", "_", " ", "name", "mark"}

\* The overlap leaves room for progress: a character is at most three bytes
\* here (four in the code, where the parts are 48 KiB and overlap by 32, and a
\* request is 96 KiB: two full parts never share one).
ASSUME RevisionAssumption ==
    /\ Delivered \cup Revised \cup Suggested \cup LongTexts \subseteq Seq(Characters)
    /\ {PartBudget, PartOverlap, PartOverhead, RequestBudget, MaxSnapshots} \subseteq Nat
    /\ PartBudget >= 3 * (PartOverlap + 1)

VARIABLES
    original, latest,  \* FinalTextRevisionState: the delivered text, the last snapshot
    snapshots,         \* snapshots so far
    ending,            \* why the observation ended, or "open"
    learner,           \* the thread that asks what is to be learned
    sent,              \* the parts of a history text that were answered for
    recorded           \* the observations handed to the storage, with the parts
                       \* of the request they answer (a revised text is one)

revisionVars == <<original, latest, snapshots, ending, learner, sent, recorded>>

-----------------------------------------------------------------------------
Folded(c) == IF c = "A" THEN "a" ELSE IF c = "I" THEN "i" ELSE c
Uppercase(c) == c \in {"A", "I"}
Lowercase(c) == c \in {"a", "i", "b"}
Alphanumeric(c) == Uppercase(c) \/ Lowercase(c)
TermCharacter(c) == Alphanumeric(c) \/ c = "_"
Chinese(c) == c \in {"name", "mark"}

AllOf(text, Is(_)) == \A k \in DOMAIN text : Is(text[k])
SomeOf(text, Is(_)) == \E k \in DOMAIN text : Is(text[k])
Blank(c) == c = " "

\* From the first of some positions to the last.
Stretch(text, positions) ==
    IF positions = {} THEN <<>>
    ELSE SubSeq(text, CHOOSE k \in positions : \A j \in positions : k <= j,
                      CHOOSE k \in positions : \A j \in positions : k >= j)

\* Blanks at the ends go.
Trimmed(text) == Stretch(text, {k \in DOMAIN text : ~Blank(text[k])})

\* comparison_key: trimmed, width and case forgotten.
Key(text) == LET t == Trimmed(text) IN [k \in DOMAIN t |-> Folded(t[k])]

OccursIn(part, text) ==
    \E k \in 0..(Len(text) - Len(part)) : \A i \in DOMAIN part : part[i] = text[k + i]

\* Mutant of ContainsEquivalent: what the service names is taken as written.
ContainsEquivalent_Trusted(text, term) == term # <<>>

ContainsEquivalent(text, term) == OccursIn(Key(term), Key(text))

-----------------------------------------------------------------------------
(* text_revision_diffs: between what is kept lie the edits; each gives at   *)
(* most one local candidate, the run of term characters it touches.        *)
Alignments(old, new) ==
    LET pairs == {p \in (DOMAIN old) \X (DOMAIN new) : old[p[1]] = new[p[2]]}
        common == {s \in SUBSET pairs :
                     \A p, q \in s : p = q \/ (p[1] < q[1] /\ p[2] < q[2])
                                           \/ (p[1] > q[1] /\ p[2] > q[2])}
    IN  {s \in common : \A t \in common : Cardinality(s) >= Cardinality(t)}

\* The inserted ranges <<first, last>> of the new text.
Insertions(new, kept) ==
    LET fixed == {p[2] : p \in kept} IN
    {range \in (DOMAIN new) \X (DOMAIN new) :
       /\ range[1] <= range[2] /\ \A i \in range[1]..range[2] : i \notin fixed
       \* An edit ends where something is kept, of either text.
       /\ range[1] = 1 \/ range[1] - 1 \in fixed
       /\ range[2] = Len(new) \/ range[2] + 1 \in fixed}

\* ascii_candidate: the range grown over term characters on both sides.
AsciiCandidate(new, range) ==
    LET first == CHOOSE j \in 1..range[1] :
                   /\ \A i \in j..(range[1] - 1) : TermCharacter(new[i])
                   /\ j = 1 \/ ~TermCharacter(new[j - 1])
        last == CHOOSE k \in range[2]..Len(new) :
                   /\ \A i \in (range[2] + 1)..k : TermCharacter(new[i])
                   /\ k = Len(new) \/ ~TermCharacter(new[k + 1])
        value == SubSeq(new, first, last)
    IN  IF Len(value) >= 2 /\ AllOf(value, TermCharacter) THEN value ELSE <<>>

\* conventional_dictionary_spelling, by one of its entries.
Conventional(term) == IF Key(term) = <<"a", "i">> THEN <<"A", "I">> ELSE term

\* A candidate with one run of letters is that run, in its usual spelling.
Spelling(candidate) ==
    LET letters == {k \in DOMAIN candidate : Alphanumeric(candidate[k])}
        oneRun == letters # {} /\ \A j, k \in letters : \A i \in j..k : i \in letters
    IN  IF oneRun THEN Conventional(Stretch(candidate, letters)) ELSE candidate

\* assess_dictionary_candidate, for what ascii_candidate returns: an acronym, a
\* code identifier or a name.
Acronym(term) == Len(term) >= 2 /\ AllOf(term, Uppercase)
CodeIdentifier(term) == Lowercase(Head(term)) /\ SomeOf(Tail(term), Uppercase)
NamedTerm(term) == Uppercase(Head(term)) /\ SomeOf(Tail(term), Lowercase)
LocallyAccepted(term) ==
    /\ Len(term) >= 2 /\ AllOf(term, Alphanumeric)
    /\ Acronym(term) \/ CodeIdentifier(term) \/ NamedTerm(term)

Review(term, decision, confidence) ==
    [term |-> term, decision |-> decision, confidence |-> confidence]

LocalReview(term) ==
    Review(term, "accept", IF Acronym(term) THEN 90 ELSE IF CodeIdentifier(term) THEN 94
                           ELSE 86)

(* deduplicate_reviews: of the reviews of one term the most confident, the  *)
(* first of equals.                                                        *)
Stands(reviews, k) ==
    \A j \in DOMAIN reviews : (j # k /\ Key(reviews[j].term) = Key(reviews[k].term)) =>
        \/ reviews[j].confidence < reviews[k].confidence
        \/ reviews[j].confidence = reviews[k].confidence /\ k < j

Deduplicated(reviews) == {reviews[k] : k \in {k \in DOMAIN reviews : Stands(reviews, k)}}

TermAt(new, range) == Spelling(AsciiCandidate(new, range))

\* local_dictionary_revision_candidates: of the edits in their order.
ReviewsOf(new, edits) ==
    LET accepted == {range \in edits : LocallyAccepted(TermAt(new, range))}
    IN  Deduplicated([first \in {range[1] : range \in accepted} |->
          LocalReview(TermAt(new, CHOOSE range \in accepted : range[1] = first))])

LocalCandidates(old, new) ==
    {ReviewsOf(new, Insertions(new, kept)) : kept \in Alignments(old, new)}

-----------------------------------------------------------------------------
ReviewItems == [term : Suggested, decision : {"accept", "reject"}, confidence : {70, 90, 101}]

\* A single character is no term, whatever is said of it.
Decided(item) == IF Len(Trimmed(item.term)) < 2 THEN "reject" ELSE item.decision

(* parse_dictionary_revision_response: what the text does not contain is    *)
(* passed over; a number that is no confidence spoils the whole answer,    *)
(* and the local candidates stand.                                         *)
Reviewed(item) == Review(Trimmed(item.term), Decided(item), item.confidence)

TermsIn(items) == {k \in DOMAIN items : Trimmed(items[k].term) # <<>>}

Answered(items, text, fallback) ==
    LET named == {k \in TermsIn(items) : ContainsEquivalent(text, items[k].term)}
    IN  IF \E k \in named : items[k].confidence > 100 THEN fallback
        ELSE Deduplicated([k \in named |-> Reviewed(items[k])])

NextPart(end) == end + 1 - PartOverlap

\* In bytes, from one character to another: a Chinese one has three.
Size(text, j, k) == (k - j + 1) + 2 * Cardinality({i \in j..k : Chinese(text[i])})

\* split_sample: as many characters as the budget takes; the next part begins
\* some characters before the end of the last.
EndOf(text, j) ==
    CHOOSE k \in j..Len(text) :
        /\ Size(text, j, k) <= PartBudget
        /\ k = Len(text) \/ Size(text, j, k + 1) > PartBudget

RunsOn(text, starts) ==
    \A j \in starts : EndOf(text, j) = Len(text) \/ NextPart(EndOf(text, j)) \in starts

\* Where its loop begins a part: the smallest set with the first character.
PartStarts(text) ==
    {j \in DOMAIN text : \A starts \in SUBSET DOMAIN text :
        1 \in starts /\ RunsOn(text, starts) => j \in starts}

\* A part is known by where it begins.
PartsOf == [text \in LongTexts |->
    [j \in PartStarts(text) |-> SubSeq(text, j, EndOf(text, j))]]

(* vocabulary_suggestion_batches: the parts go in their order, as many in   *)
(* one request as its budget takes.  The first may find one that is taken  *)
(* in part by earlier dictations.                                          *)
Weight(text, starts) ==
    MapThenSumSet(LAMBDA j : Size(text, j, EndOf(text, j)) + PartOverhead, starts)

Batch(text, unsent, taken) ==
    LET first == CHOOSE j \in unsent : \A k \in unsent : j <= k IN
    {j \in unsent :
       j = first \/ taken + Weight(text, {k \in unsent : k <= j}) <= RequestBudget}

NextBatches(text) ==
    {Batch(text, DOMAIN PartsOf[text] \ sent, taken) :
       taken \in IF sent = {} THEN 0..RequestBudget ELSE {0}}

(* parse_vocabulary_suggestion_response: a source that was not sent in this *)
(* request, or one that does not contain the term, spoils the whole        *)
(* answer; a term counts once in an answer for a dictation, as it was      *)
(* first named.                                                            *)
Spoils(item, source, parts) ==
    \/ item.confidence > 100
    \/ source \notin DOMAIN parts
    \/ ~ContainsEquivalent(parts[source], item.term)

NamedFirst(items, k) ==
    \A j \in TermsIn(items) : Key(items[j].term) = Key(items[k].term) => k <= j

Spoilt(items, cited, parts) ==
    \E k \in TermsIn(items) : Spoils(items[k], cited[k], parts)

Suggestions(items, cited, parts) ==
    IF Spoilt(items, cited, parts) THEN {}
    ELSE {Reviewed(items[k]) : k \in {k \in TermsIn(items) : NamedFirst(items, k)}}

-----------------------------------------------------------------------------
EndReasons == {"FocusLost", "ControlReset", "NextDictation", "TimedOut", "Cancelled"}

\* permits_dictionary_learning
Permits(reason) == reason \in {"FocusLost", "ControlReset", "NextDictation"}

RevisionInit ==
    /\ \/ original \in Delivered /\ ending = "open"
       \/ original \in LongTexts /\ ending = "history"
    /\ latest = original
    /\ snapshots = 0
    /\ learner = IF ending = "open" THEN "none" ELSE "assessing"
    /\ sent = {}
    /\ recorded = {}

\* FinalTextRevisionState::handle: an empty control is no revision.
Snapshot ==
    /\ ending = "open"
    /\ snapshots < MaxSnapshots
    /\ snapshots' = snapshots + 1
    /\ \E text \in Revised : latest' = IF Trimmed(text) = <<>> THEN latest ELSE text
    /\ UNCHANGED <<original, ending, learner, sent, recorded>>

\* There is a revision, and the user had done with it.
Learns(reason) == latest # original /\ Permits(reason)

\* text_revision_observer: the end counts once; its thread may not start.
ObservationEnds ==
    /\ ending = "open"
    /\ ending' \in EndReasons
    /\ learner' \in {"none"} \cup (IF Learns(ending') THEN {"assessing"} ELSE {})
    /\ UNCHANGED <<original, latest, snapshots, sent, recorded>>

Observations(reviews, parts) == {[review |-> r, parts |-> parts] : r \in reviews}

Records(reviews) ==
    /\ learner' = "done"
    /\ recorded' = Observations(reviews, {1})
    /\ UNCHANGED <<original, latest, snapshots, ending, sent>>

\* assess_dictionary_revision: no provider, one that cannot be used, or an error.
AssessLocally ==
    /\ learner = "assessing" /\ ending # "history"
    /\ \E local \in LocalCandidates(original, latest) : Records(local)

AssessByService ==
    /\ learner = "assessing" /\ ending # "history"
    /\ \E local \in LocalCandidates(original, latest) :
       \E reviews \in {Answered(items, latest, local) : items \in SeqOf(ReviewItems, 2)} :
         Records(reviews)

(* run_vocabulary_suggestions_if_due, of one dictation: the next request is *)
(* answered, and what its answer suggests is recorded before another is    *)
(* sent.                                                                   *)
Suggest(batch, items, cited) ==
    recorded' = recorded \cup
      Observations(Suggestions(items, cited, [j \in batch |-> PartsOf[latest][j]]), batch)

SuggestFromHistory ==
    /\ learner = "assessing" /\ ending = "history"
    /\ \E batch \in NextBatches(latest), items \in SeqOf(ReviewItems, 2) :
       \E cited \in [DOMAIN items -> {0} \cup batch] :
         /\ ~Spoilt(items, cited, [j \in batch |-> PartsOf[latest][j]])
         /\ Suggest(batch, items, cited)
         /\ sent' = sent \cup batch
    /\ learner' = IF sent' = DOMAIN PartsOf[latest] THEN "done" ELSE "assessing"
    /\ UNCHANGED <<original, latest, snapshots, ending>>

(* The answer is bad, the service or the storage fails, or the consent is  *)
(* withdrawn, before the request or between two observations: what was     *)
(* recorded of the answer by then is what a shorter answer gives.          *)
SuggestionsStop ==
    /\ learner = "assessing" /\ ending = "history"
    /\ \E batch \in NextBatches(latest), items \in SeqOf(ReviewItems, 1) :
       \E cited \in [DOMAIN items -> {0} \cup batch] :
         Suggest(batch, items, cited)
    /\ learner' = "stopped"
    /\ UNCHANGED <<original, latest, snapshots, ending, sent>>

RevisionNext ==
    \/ Snapshot \/ ObservationEnds \/ AssessLocally \/ AssessByService
    \/ SuggestFromHistory \/ SuggestionsStop

RevisionSpec == RevisionInit /\ [][RevisionNext]_revisionVars

-----------------------------------------------------------------------------
(* What the variables may hold.                                            *)
RevisionTypeOK ==
    /\ original \in Delivered \cup LongTexts
    /\ latest \in Delivered \cup LongTexts \cup Revised
    /\ snapshots \in 0..MaxSnapshots
    /\ ending \in EndReasons \cup {"open", "history"}
    /\ learner \in {"none", "assessing", "done", "stopped"}
    /\ sent \subseteq DOMAIN latest
    /\ \A o \in recorded : o.review.decision \in {"accept", "reject"}
                           /\ o.review.confidence \in 0..100

(* The dictionary is told only of what the user wrote: an observation names *)
(* a term that the text contains, but for case, when the user has changed  *)
(* it and gone on to something else (not when the observation timed out or *)
(* was cancelled), or a term of a part of the history text that was sent   *)
(* in the request it answers; it accepts no single character, and whatever *)
(* the service answers no part of a text tells of a term twice (a text     *)
(* that takes several requests may).  When all of a history text has been  *)
(* answered for, every term up to a character longer than the overlap was  *)
(* whole in a part.                                                        *)
ObservedAsWritten ==
    /\ recorded # {} =>
         ending = "history" \/ (latest # original
                                /\ ending \in {"FocusLost", "ControlReset", "NextDictation"})
    /\ \A o \in recorded :
         /\ OccursIn(Key(o.review.term), Key(latest))
         /\ o.review.decision = "accept" => Len(o.review.term) >= 2
         /\ ending = "history" => \E n \in o.parts :
              ContainsEquivalent(PartsOf[latest][n], o.review.term)
    /\ \A o, p \in recorded :
         Key(o.review.term) = Key(p.review.term) => o = p \/ o.parts \cap p.parts = {}
    /\ ending = "history" /\ learner = "done" =>
         \A j, k \in DOMAIN latest : k - j \in 0..PartOverlap =>
           \E n \in sent : OccursIn(SubSeq(latest, j, k), PartsOf[latest][n])
=============================================================================
