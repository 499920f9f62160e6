------------------------- MODULE TranscriptRefinement -------------------------
(***************************************************************************)
(* What becomes of a transcript before it is delivered: it is cleaned, and *)
(* refined by a language model when that is wanted, needed and possible.   *)
(*                                                                         *)
(* crates/app/src/final_text_processing.rs (the processor and its circuit),*)
(* crates/app/src/refinement_policy.rs and refinement_terms.rs (which      *)
(* answers are taken), crates/infra/src/chat_completions_llm.rs (the       *)
(* request and what an answer means) and                                   *)
(* apps/desktop/src/refinement_runtime.rs (the plan and the processor      *)
(* kept for the settings of the last one).                                 *)
(*                                                                         *)
(* Actors: the threads that complete dictations (a second one, when a      *)
(* dictation begins while the worker of a cancelled one still waits for    *)
(* its answer), the user who changes the settings, the service, the clock. *)
(* The token that would cancel a refinement is never cancelled.            *)
(*                                                                         *)
(* A text is a sequence of tokens; only the kinds the rules tell apart are *)
(* distinguished.  A language model may answer any of them.                *)
(***************************************************************************)
EXTENDS Naturals, Sequences, FiniteSets, SequencesExt, FiniteSetsExt

CONSTANTS
    Refiners,     \* threads that complete a dictation
    Services,     \* settings of a service a plan may be made from
    Said,         \* transcripts that are tried
    GrowthAllowance, \* OUTPUT_GROWTH_ALLOWANCE
    MinWords,     \* MIN_CJK_REFINEMENT_UNITS, MIN_ENGLISH_REFINEMENT_WORDS
    FailureThreshold,
    MaxAsked,     \* bound: refinements
    MaxChanged    \* bound: changes of the settings

(* Texts.  "Term" is the spelling of a term of the dictionary, "term" the   *)
(* same in other case, "te rm" with a space in it; "path" is a technical    *)
(* fragment, "git" a command; "no" corrects what is said before it.         *)
Digits    == {"1", "2"}
Immutable == {"path"}
Technical == Immutable \cup {"Term"}
Ascii     == {"word", "git", "1", "2", "term", "te rm", "Term"}
Tokens    == Ascii \cup Immutable \cup {",", "no", "Output:"}

ASSUME RefinementAssumption ==
    /\ Said \subseteq Seq(Tokens \cup {" "})
    /\ FailureThreshold \in Nat \ {0}
    /\ {GrowthAllowance, MinWords, MaxAsked, MaxChanged} \subseteq Nat

VARIABLES
    said,         \* the transcript of this behaviour's dictations
    terms,        \* the dictionary, sent with each
    llm,          \* the settings: [enabled, confirmed, service]
    kept,         \* the processor in the cache, or 0
    processors,   \* every processor made, with its circuit
    refiner,      \* what each thread is at
    delivered,    \* what the last one gave to be delivered
    asked, changed

refinementVars == <<said, terms, llm, kept, processors, refiner, delivered, asked, changed>>
-----------------------------------------------------------------------------
Tally(text, token) == Cardinality({i \in DOMAIN text : text[i] = token})

\* The tokens at some positions of a text.
Picked(text, keep) ==
    [i \in 1..Cardinality(keep) |->
        text[CHOOSE k \in keep : Cardinality({j \in keep : j <= k}) = i]]

\* clean_transcript: runs of blanks become one, which is no token.
Cleaned == [text \in Said |-> Picked(text, {i \in DOMAIN text : text[i] # " "})]

\* normalize_standard_spellings, with the dictionary's terms.
Spelled(text, dictionary) ==
    [i \in DOMAIN text |->
        IF text[i] = "term" /\ "Term" \in dictionary THEN "Term" ELSE text[i]]

\* normalize_spaced_standard_spellings.
SpelledSpaced(text, dictionary) ==
    [i \in DOMAIN text |->
        IF text[i] \in {"term", "te rm"} /\ "Term" \in dictionary THEN "Term" ELSE text[i]]

\* refinement_needed: enough is said.
Needed(text) == Len(text) - Tally(text, ",") >= MinWords

\* technical_fragments: in a text with a command, every ASCII word is one.
Fragments(text) ==
    (Technical \cap Range(text)) \cup
        (IF "git" \in Range(text) THEN Ascii \cap Range(text) ELSE {})

ImmutableKept(source, candidate) ==
    \A t \in Immutable : Tally(source, t) = Tally(candidate, t)

TechnicalKept(source, candidate, dictionary) ==
    LET from == SpelledSpaced(source, dictionary)
        to   == Spelled(candidate, dictionary) IN
    /\ ImmutableKept(source, candidate)
    /\ \A t \in Fragments(from) : t \in Fragments(to) /\ Tally(to, t) >= Tally(from, t)
    /\ \A t \in Fragments(to) :
          \/ t \in Fragments(from) /\ Tally(from, t) >= Tally(to, t)
          \/ t \in dictionary

\* explicitly_corrected_numeric_facts: the numbers of the clause before each
\* correction, counted once for each.
Clause(text, marker) ==
    {i \in 1..(marker - 1) :
        /\ text[i] # ","
        /\ ~\E j, k \in i..(marker - 1) : j < k /\ text[j] = "," /\ text[k] # ","}

Corrections(text, digit) ==
    {c \in (DOMAIN text) \X (DOMAIN text) :
        /\ text[c[1]] = digit /\ text[c[2]] = "no"
        /\ c[1] \in Clause(text, c[2])}

Corrected(text, digit) == Cardinality(Corrections(text, digit))

\* numeric_fragments_are_safe.
NumbersKept(source, candidate) ==
    \/ \A d \in Digits : Tally(source, d) = 0
    \/ \A d \in Digits :
          /\ Tally(candidate, d) <= Tally(source, d)
          /\ Tally(source, d) - Tally(candidate, d) <= Corrected(source, d)

\* A preamble, a code fence or a heading the transcript did not have.
Wrapped(source, candidate) == Head(candidate) = "Output:" /\ Head(source) # "Output:"

\* validate_refinement: the first reason to reject an answer, or "accepted".
Verdict(source, candidate, dictionary) ==
    CASE candidate = <<>> -> "EmptyOutput"
      [] candidate # <<>> /\ Len(candidate) > 2 * Len(source) + GrowthAllowance -> "AbnormalGrowth"
      [] OTHER ->
         IF Wrapped(source, candidate) THEN "NonRefinementWrapper"
         ELSE IF ~TechnicalKept(source, candidate, dictionary) THEN "ProtectedFragmentChanged"
         ELSE IF ~NumbersKept(Spelled(source, dictionary), Spelled(candidate, dictionary))
         THEN "NumericFactsChanged"
         ELSE "accepted"
-----------------------------------------------------------------------------
(* The service.  Settings have an address, a model, a key, headers and the  *)
(* profile of a vendor.                                                     *)
Refusals == {"Authentication", "InvalidConfiguration", "ModelUnavailable"}

\* completion_endpoint, the model and parse_headers.
Usable(s) ==
    /\ s.address = "https"
    /\ s.model # "none"
    /\ s.headers = "plain" \/ (s.headers = "authorization" /\ s.key = "none")

\* mapped_provider_error: what a vendor's own codes mean.
VendorCodes ==
    {<<"Qwen", "Arrearage", "Quota">>, <<"VolcengineArk", "QuotaExceeded", "Quota">>,
     <<"ZhipuGlm", "1211", "ModelUnavailable">>, <<"MiniMax", "1008", "Quota">>,
     <<"MiniMax", "1004", "Authentication">>, <<"MiniMax", "2013", "InvalidConfiguration">>,
     <<"MiniMax", "1000", "Transport">>, <<"MiniMax", "1026", "Protocol">>}

Meaning(profile, code) == {c[3] : c \in {v \in VendorCodes : v[1] = profile /\ v[2] = code}}

\* http_error: the code in the body counts more than the status.
StatusError(status) ==
    CASE status \in {401, 403} -> "Authentication"
      [] status \in {400, 422} -> "InvalidConfiguration"
      [] status = 404 -> "ModelUnavailable"
      [] status \in {402, 429} -> "Quota"
      [] status >= 500 -> "Transport"
      [] OTHER -> "Protocol"

Rejection(profile, answer) ==
    IF Meaning(profile, answer.code) # {}
    THEN CHOOSE e \in Meaning(profile, answer.code) : TRUE
    ELSE StatusError(answer.status)

\* request: the error an answer stands for, or "" when it has a text.  A
\* "large" answer is over MAX_RESPONSE_BYTES, a "lost" one breaks off.
AnswerError(profile, answer) ==
    CASE answer.is = "lost"    -> "Transport"
      [] answer.is = "late"    -> "Timeout"
      [] answer.is = "large"   -> "Protocol"
      [] answer.is = "status"  -> Rejection(profile, answer)
      [] answer.is = "garbled" -> "Protocol"
      [] answer.is = "success" ->
            IF profile = "MiniMax" /\ answer.code # ""
            THEN IF Meaning(profile, answer.code) = {} THEN "Protocol"
                 ELSE CHOOSE e \in Meaning(profile, answer.code) : TRUE
            ELSE IF answer.text = <<>> THEN "Protocol" ELSE ""

Codes == {""} \cup {v[2] : v \in VendorCodes}
NoText(is, status, code) == [is |-> is, status |-> status, code |-> code, text |-> <<>>]

\* What comes back that is no refined text.
Failures ==
    {NoText(is, 0, "") : is \in {"lost", "late", "large", "garbled"}}
    \cup {NoText("success", 200, c) : c \in Codes}
    \cup (UNION {{NoText("status", n, c) : c \in Codes} : n \in {401, 400, 404, 429, 503, 302}})

\* Texts a model makes of one: words are left out, and one is put in.
LeavingOut(text) == {Picked(text, keep) : keep \in SUBSET DOMAIN text}
Inserting(text) ==
    UNION {{InsertAt(text, i, t) : t \in Tokens} : i \in 1..(Len(text) + 1)}
Replacing(text) == UNION {{ReplaceAt(text, i, t) : t \in Tokens} : i \in DOMAIN text}
Reworded(text) ==
    LeavingOut(text) \cup Inserting(text) \cup Replacing(text) \cup {text \o text \o text}

\* complete_provider_attempt: an answer that is rejected leaves the transcript.
Completed(source, candidate, dictionary) ==
    LET verdict == Verdict(source, candidate, dictionary) IN
    IF verdict = "accepted" THEN [status |-> "Completed", text |-> candidate]
                            ELSE [status |-> verdict, text |-> source]

\* What may come of each transcript, with each dictionary and each service.
Dictionaries == {{}, {"Term"}}
Refined == [c \in Said \X Dictionaries |->
    {Completed(Cleaned[c[1]], text, c[2]) : text \in Reworded(Cleaned[c[1]]) \ {<<>>}}]
ErrorsOf == [profile \in {s.profile : s \in Services} |->
    {AnswerError(profile, answer) : answer \in Failures} \ {""}]
-----------------------------------------------------------------------------
(* The circuit of a processor.  "outcomes" is history: what was recorded,   *)
(* and when a pause was over.                                              *)
NewProcessor(s) ==
    [service |-> s, configured |-> Usable(s), failures |-> 0,
     availability |-> "Available", outcomes |-> <<>>]

\* bypass_reason, which ends a pause that has run out.
Bypass(p) ==
    CASE p.availability \in {"Available", "PauseOver"} -> "none"
      [] p.availability = "Paused" -> "TemporarilyUnavailable"
      [] OTHER -> p.availability

Looked(p) ==
    IF p.availability # "PauseOver" THEN p
    ELSE [p EXCEPT !.failures = 0, !.availability = "Available",
                   !.outcomes = Append(@, "resumed")]

\* Mutant of ServiceSucceeded: the failures before it still count.
ServiceSucceeded_Counts(p) ==
    [p EXCEPT !.availability = "Available", !.outcomes = Append(@, "success")]

ServiceSucceeded(p) ==
    [p EXCEPT !.failures = 0, !.availability = "Available", !.outcomes = Append(@, "success")]

\* record_failure and record_timeout.  Only a success, or the end of a pause,
\* takes back the failures counted; a refusal leaves them.
ServiceFailed(p, error) ==
    LET kind == IF error \in Refusals THEN error ELSE "transient"
        recorded == [p EXCEPT !.outcomes = Append(@, kind)] IN
    IF error \in Refusals
    THEN [recorded EXCEPT !.availability = error]
    ELSE [recorded EXCEPT
            !.failures = @ + 1,
            !.availability = IF p.failures + 1 >= FailureThreshold THEN "Paused" ELSE @]
-----------------------------------------------------------------------------
NoService == [address |-> "none", model |-> "none", key |-> "none", headers |-> "plain",
              profile |-> "Portable"]
AtRest == [at |-> "idle", service |-> NoService, processor |-> 0]

NothingYet == [status |-> "none", text |-> <<>>, by |-> 0]

RefinementInit ==
    /\ said \in Said
    /\ terms \in Dictionaries
    /\ \E s \in Services : llm = [enabled |-> TRUE, confirmed |-> TRUE, service |-> s]
    /\ kept = 0 /\ processors = <<>>
    /\ refiner = [r \in Refiners |-> AtRest]
    /\ delivered = NothingYet
    /\ asked = 0 /\ changed = 0

\* The models page; data consent goes with the address.
ChangeService ==
    /\ changed < MaxChanged /\ changed' = changed + 1
    /\ \E s \in Services, on, agreed \in BOOLEAN :
          /\ on \/ agreed
          /\ llm' = [enabled |-> on, confirmed |-> agreed, service |-> s]
          /\ llm' # llm
    /\ UNCHANGED <<said, terms, kept, processors, refiner, delivered, asked>>

\* plan, read when the completion begins.
MakePlan(r) ==
    /\ refiner[r].at = "idle" /\ asked < MaxAsked /\ asked' = asked + 1
    /\ refiner' = [refiner EXCEPT ![r] =
          [at |-> "planned", processor |-> 0,
           service |-> IF llm.enabled /\ llm.confirmed THEN llm.service ELSE NoService]]
    /\ delivered' = NothingYet
    /\ UNCHANGED <<said, terms, llm, kept, processors, changed>>

Delivers(r, status, text, p) ==
    /\ delivered' = [status |-> status, text |-> text, by |-> p]
    /\ refiner' = [refiner EXCEPT ![r] = AtRest]

\* processor_for: the cache keeps one processor, with its circuit, as long as
\* not a single setting of the service changes.
Finds(s) == kept # 0 /\ processors[kept].service = s
ProcessorFor(s) == IF Finds(s) THEN kept ELSE Len(processors) + 1
With(s) == IF Finds(s) THEN processors ELSE Append(processors, NewProcessor(s))

\* execute, up to the request.
Execute(r) ==
    LET s == refiner[r].service
        text == Cleaned[said] IN
    /\ refiner[r].at = "planned"
    /\ IF s = NoService
       THEN Delivers(r, "Disabled", text, 0) /\ UNCHANGED <<kept, processors>>
       ELSE LET p == ProcessorFor(s) IN
            /\ kept' = p
            /\ IF ~Needed(text) /\ terms = {}
               THEN Delivers(r, "ShortTranscript", text, p) /\ processors' = With(s)
               ELSE IF ~Usable(s)
               THEN Delivers(r, "NotConfigured", text, p) /\ processors' = With(s)
               ELSE /\ processors' = [With(s) EXCEPT ![p] = Looked(@)]
                    /\ IF Bypass(With(s)[p]) = "none"
                       THEN /\ refiner' = [refiner EXCEPT ![r].at = "asking", ![r].processor = p]
                            /\ UNCHANGED delivered
                       ELSE Delivers(r, Bypass(With(s)[p]), text, p)
    /\ UNCHANGED <<said, terms, llm, asked, changed>>

\* The model's text, which is taken or rejected; a rejected one leaves the
\* circuit as it is.
ServiceRefines(r) ==
    /\ refiner[r].at = "asking"
    /\ \E result \in Refined[<<said, terms>>] :
          LET p == refiner[r].processor IN
          /\ Delivers(r, result.status, result.text, p)
          /\ processors' = IF result.status = "Completed"
                           THEN [processors EXCEPT ![p] = ServiceSucceeded(@)] ELSE processors
    /\ UNCHANGED <<said, terms, llm, kept, asked, changed>>

\* An error, or none in REFINEMENT_TIMEOUT: the transcript is delivered.
ServiceFails(r) ==
    /\ refiner[r].at = "asking"
    /\ \E error \in ErrorsOf[refiner[r].service.profile] :
          LET p == refiner[r].processor IN
          /\ Delivers(r, error, Cleaned[said], p)
          /\ processors' = [processors EXCEPT ![p] = ServiceFailed(@, error)]
    /\ UNCHANGED <<said, terms, llm, kept, asked, changed>>

\* FAILURE_PAUSE has passed since the last failure.
PauseRunsOut ==
    /\ \E p \in DOMAIN processors :
          /\ processors[p].availability = "Paused"
          /\ processors' = [processors EXCEPT ![p].availability = "PauseOver"]
    /\ UNCHANGED <<said, terms, llm, kept, refiner, delivered, asked, changed>>

RefinementNext ==
    \/ ChangeService \/ PauseRunsOut
    \/ \E r \in Refiners : MakePlan(r) \/ Execute(r) \/ ServiceRefines(r) \/ ServiceFails(r)

RefinementSpec == RefinementInit /\ [][RefinementNext]_refinementVars
-----------------------------------------------------------------------------
\* A cached processor and one that is asked exist; one that is asked was usable.
RefinementTypeOK ==
    /\ kept \in 0..Len(processors)
    /\ \A p \in DOMAIN processors :
          /\ processors[p].configured = Usable(processors[p].service)
          /\ processors[p].availability \in {"Available", "Paused", "PauseOver"} \cup Refusals
    /\ \A r \in Refiners : refiner[r].at = "asking" =>
          refiner[r].processor \in DOMAIN processors /\ processors[refiner[r].processor].configured

\* The outcomes since a success, or since the last pause was over.
Since(outcomes) ==
    {i \in DOMAIN outcomes :
        \A j \in i..Len(outcomes) : outcomes[j] \notin {"success", "resumed"}}

Told(outcomes, kind) == {i \in Since(outcomes) : outcomes[i] = kind}

\* What is delivered has the technical fragments of the transcript, and its
\* numbers: none is new, and no more are missing than a correction follows.
\* (Of a number said before the first of two corrections, one occurrence too
\* many may be missing.)
CorrectsTwice(text) == Tally(text, "no") > 1
Followed(text, digit) ==
    {i \in DOMAIN text : text[i] = digit /\ \E j \in DOMAIN text : i < j /\ text[j] = "no"}
SameFacts(from, to) ==
    /\ \A t \in Immutable : Tally(from, t) = Tally(to, t)
    /\ (\E d \in Digits : Tally(from, d) > 0) =>
          \A d \in Digits :
            /\ Tally(to, d) <= Tally(from, d)
            /\ \/ CorrectsTwice(from)
               \/ Tally(from, d) - Tally(to, d) <= Cardinality(Followed(from, d))

KeepsFacts == delivered # NothingYet => SameFacts(Cleaned[said], delivered.text)

\* A service is passed over for a while only after FailureThreshold requests
\* with these very settings failed and none succeeded in between, and until
\* the settings change only after it refused one and accepted none since.
PassedOverForCause ==
    LET outcomes == processors[delivered.by].outcomes IN
    /\ delivered.status = "TemporarilyUnavailable" =>
          Cardinality(Told(outcomes, "transient")) >= FailureThreshold
    /\ delivered.status \in Refusals => Told(outcomes, delivered.status) # {}

\* A service that refused a request is not asked again with these settings,
\* unless it accepted another one or a pause went by.
AskedInHope ==
    \A r \in Refiners :
        refiner[r].at = "planned" /\ refiner'[r].at = "asking" =>
            LET p == processors'[refiner'[r].processor] IN
            /\ p.service = refiner[r].service
            /\ \A error \in Refusals : Told(p.outcomes, error) = {}

RefinementStep ==
    KeepsFacts' /\ AskedInHope /\ (delivered' # delivered => PassedOverForCause')

(* Whatever the language model answers and however requests overlap: the    *)
(* text delivered keeps the facts of the transcript, and the circuit passes *)
(* a service over exactly for what that service did with these settings.    *)
RefinesSafely == [][RefinementStep]_refinementVars
=============================================================================
