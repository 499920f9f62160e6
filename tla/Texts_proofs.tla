---------------------------- MODULE Texts_proofs ----------------------------
(***************************************************************************)
(* Proofs about what becomes of a text, for any transcripts, texts, terms  *)
(* and services, any number of refinements and of observed edits: the      *)
(* refinement of a transcript (TranscriptRefinement) and what is learned   *)
(* of its revision (RevisionReview).                                       *)
(***************************************************************************)
EXTENDS TranscriptRefinement, RevisionReview, FiniteSetTheorems, SequenceTheorems,
        WellFoundedInduction, TLAPS

(***************************************************************************)
(* The refinement of a transcript.                                         *)
(***************************************************************************)
-----------------------------------------------------------------------------
(* The facts of a transcript.                                              *)

\* A cleaned transcript has finitely many positions.
LEMMA CleanedIs ==
    ASSUME NEW t \in Said
    PROVE  \E n \in Nat : /\ DOMAIN Cleaned[t] = 1..n
                          /\ Cleaned[t] = [i \in 1..n |-> Cleaned[t][i]]
<1> DEFINE keep == {i \in DOMAIN t : t[i] # " "}
<1>1. Len(t) \in Nat /\ DOMAIN t = 1..Len(t)
    <2>1. t \in Seq(Tokens \cup {" "})
        BY RefinementAssumption
    <2> QED
        BY <2>1, LenProperties
<1>2. IsFiniteSet(DOMAIN t) /\ keep \in SUBSET DOMAIN t
    <2>1. IsFiniteSet(1..Len(t))
        BY <1>1, FS_Interval
    <2> QED
        BY <1>1, <2>1
<1> HIDE DEF keep
<1>3. Cardinality(keep) \in Nat
    BY <1>2, FS_Subset, FS_CardinalityType
<1>4. Cleaned[t] = Picked(t, keep)
    BY DEF Cleaned, keep
<1> DEFINE size == Cardinality(keep)
<1>5. DOMAIN Cleaned[t] = 1..size /\ Cleaned[t] = [i \in 1..size |-> Cleaned[t][i]]
    <2> DEFINE place(i) == CHOOSE k \in keep : Cardinality({j \in keep : j <= k}) = i
    <2>1. Cleaned[t] = [i \in 1..size |-> t[place(i)]]
        BY <1>4 DEF Picked
    <2> HIDE DEF place, size
    <2> QED
        BY <2>1
<1> QED
    BY <1>3, <1>5

LEMMA TallyIs ==
    ASSUME NEW n \in Nat, NEW text, DOMAIN text = 1..n, NEW token
    PROVE  Tally(text, token) \in Nat
<1> DEFINE places == {i \in DOMAIN text : text[i] = token}
<1>1. IsFiniteSet(1..n)
    BY FS_Interval
<1>2. places \in SUBSET (1..n)
    OBVIOUS
<1> HIDE DEF places
<1>3. Cardinality(places) \in Nat
    BY <1>1, <1>2, FS_Subset, FS_CardinalityType
<1> QED
    BY <1>3 DEF Tally, places

\* With one correction at most, no number is taken back twice.
LEMMA CorrectedOnce ==
    ASSUME NEW n \in Nat, NEW text, DOMAIN text = 1..n, ~CorrectsTwice(text), NEW digit
    PROVE  /\ Corrected(text, digit) <= Cardinality(Followed(text, digit))
           /\ Corrected(text, digit) \in Nat
           /\ Cardinality(Followed(text, digit)) \in Nat
<1> DEFINE places == {i \in DOMAIN text : text[i] = "no"}
           followed == Followed(text, digit)
           corrections == Corrections(text, digit)
           numbers == {c[1] : c \in corrections}
<1>1. IsFiniteSet(1..n)
    BY FS_Interval
<1>2. places \in SUBSET (1..n) /\ followed \in SUBSET (1..n)
    BY DEF Followed
<1>3. IsFiniteSet(places) /\ IsFiniteSet(followed) /\ Cardinality(followed) \in Nat
    BY <1>1, <1>2, FS_Subset, FS_CardinalityType
<1>4. ASSUME NEW j \in places, NEW k \in places
      PROVE  j = k
    <2> SUFFICES ASSUME j # k
                 PROVE  FALSE
        OBVIOUS
    <2>1. IsFiniteSet({j}) /\ Cardinality({j}) = 1
        BY FS_Singleton
    <2>2. Cardinality({j} \cup {k}) = 2
        <3>1. k \notin {j}
            OBVIOUS
        <3>2. Cardinality({j} \cup {k}) = Cardinality({j}) + 1
            BY <2>1, <3>1, FS_AddElement
        <3> DEFINE both == Cardinality({j} \cup {k})
                   one == Cardinality({j})
        <3>3. both = one + 1 /\ one = 1
            BY <2>1, <3>2
        <3> HIDE DEF both, one
        <3>4. both = 2
            BY <3>3
        <3> QED
            BY <3>4 DEF both
    <2>3. {j} \cup {k} \in SUBSET places
        OBVIOUS
    <2>4. Cardinality(places) >= 2
        <3> HIDE DEF places
        <3>1. Cardinality({j} \cup {k}) <= Cardinality(places) /\ Cardinality(places) \in Nat
            BY <1>3, <2>3, FS_Subset, FS_CardinalityType
        <3> QED
            BY <2>2, <3>1
    <2>5. Tally(text, "no") = Cardinality(places)
        BY DEF Tally
    <2> HIDE DEF places
    <2>6. Cardinality(places) \in Nat
        BY <1>3, FS_CardinalityType
    <2> QED
        BY <2>4, <2>5, <2>6 DEF CorrectsTwice
<1>5. \A c \in corrections : c[1] \in followed /\ c[2] \in places /\ c = <<c[1], c[2]>>
    <2> SUFFICES ASSUME NEW c \in corrections
                 PROVE  c[1] \in followed /\ c[2] \in places /\ c = <<c[1], c[2]>>
        OBVIOUS
    <2>1. /\ c \in (1..n) \X (1..n) /\ text[c[1]] = digit /\ text[c[2]] = "no"
          /\ c[1] \in 1..(c[2] - 1)
        BY DEF Corrections, Clause
    <2>2. c[1] < c[2]
        BY <2>1
    <2> QED
        BY <2>1, <2>2 DEF Followed
<1> HIDE DEF places, followed, corrections
<1>6. numbers \in SUBSET followed
    BY <1>5
<1> HIDE DEF numbers
<1>7. IsFiniteSet(numbers) /\ Cardinality(numbers) <= Cardinality(followed)
    BY <1>3, <1>6, FS_Subset
<1>8. IsFiniteSet(corrections) /\ Cardinality(corrections) <= Cardinality(numbers)
    <2>1. CASE corrections = {}
        <3>1. Cardinality(numbers) \in Nat
            BY <1>7, FS_CardinalityType
        <3>2. IsFiniteSet({}) /\ Cardinality({}) = 0
            BY FS_EmptySet
        <3> QED
            BY <2>1, <3>1, <3>2
    <2>2. CASE corrections # {}
        <3>1. PICK c \in corrections : TRUE
            BY <2>2
        <3> DEFINE f == [i \in numbers |-> <<i, c[2]>>]
        <3>2. \A d \in corrections : d[1] \in numbers /\ d = <<d[1], c[2]>>
            BY <1>4, <1>5 DEF numbers
        <3>3. \A i \in numbers : <<i, c[2]>> \in corrections
            BY <3>2 DEF numbers
        <3>4. f \in Surjection(numbers, corrections)
            BY <3>2, <3>3 DEF Surjection
        <3> HIDE DEF f
        <3> QED
            BY <1>7, <3>4, FS_Surjection
    <2> QED
        BY <2>1, <2>2
<1>9. /\ Cardinality(corrections) \in Nat /\ Cardinality(numbers) \in Nat
      /\ Cardinality(followed) \in Nat
    BY <1>3, <1>7, <1>8, FS_CardinalityType
<1>10. Cardinality(corrections) <= Cardinality(followed)
    BY <1>7, <1>8, <1>9
<1> QED
    BY <1>9, <1>10 DEF Corrected, corrections, followed

\* What the rules take from a text has its facts.
LEMMA SpelledTallies ==
    ASSUME NEW text, NEW dictionary, NEW d \in Digits
    PROVE  Tally(Spelled(text, dictionary), d) = Tally(text, d)
<1>1. \A i \in DOMAIN text : Spelled(text, dictionary)[i] = d <=> text[i] = d
    BY DEF Spelled, Digits
<1>2. DOMAIN Spelled(text, dictionary) = DOMAIN text
    BY DEF Spelled
<1>3. {i \in DOMAIN Spelled(text, dictionary) : Spelled(text, dictionary)[i] = d} =
          {i \in DOMAIN text : text[i] = d}
    BY <1>1, <1>2
<1> QED
    BY <1>3 DEF Tally

LEMMA SpelledCorrections ==
    ASSUME NEW n \in Nat, NEW text, DOMAIN text = 1..n, NEW dictionary, NEW d \in Digits
    PROVE  Corrected(Spelled(text, dictionary), d) = Corrected(text, d)
<1> DEFINE spelled == Spelled(text, dictionary)
<1>1. DOMAIN spelled = DOMAIN text
    BY DEF Spelled
<1>2. \A i \in DOMAIN text : /\ spelled[i] = d <=> text[i] = d
                             /\ spelled[i] = "no" <=> text[i] = "no"
                             /\ spelled[i] = "," <=> text[i] = ","
    BY DEF Spelled, Digits
<1> HIDE DEF spelled
<1>3. ASSUME NEW m \in DOMAIN text
      PROVE  Clause(spelled, m) = Clause(text, m)
    <2>1. \A i \in 1..(m - 1) : i \in DOMAIN text
        OBVIOUS
    <2>2. \A i \in 1..(m - 1) : \A j \in i..(m - 1) : j \in DOMAIN text
        OBVIOUS
    <2> QED
        BY <1>2, <2>1, <2>2 DEF Clause
<1>4. Corrections(spelled, d) = Corrections(text, d)
    BY <1>1, <1>2, <1>3 DEF Corrections
<1> QED
    BY <1>4 DEF Corrected, spelled

LEMMA FactsKept ==
    ASSUME NEW source, NEW n \in Nat, DOMAIN source = 1..n, NEW dictionary,
           NEW candidate, NEW m \in Nat, DOMAIN candidate = 1..m,
           Verdict(source, candidate, dictionary) = "accepted"
    PROVE  SameFacts(source, candidate)
<1>1. /\ TechnicalKept(source, candidate, dictionary)
      /\ NumbersKept(Spelled(source, dictionary), Spelled(candidate, dictionary))
    BY DEF Verdict
<1>2. \A t \in Immutable : Tally(source, t) = Tally(candidate, t)
    BY <1>1 DEF TechnicalKept, ImmutableKept
<1>3. ASSUME NEW e \in Digits, Tally(source, e) > 0, NEW d \in Digits
      PROVE  /\ Tally(candidate, d) <= Tally(source, d)
             /\ \/ CorrectsTwice(source)
                \/ Tally(source, d) - Tally(candidate, d) <= Cardinality(Followed(source, d))
    <2>1. Tally(source, e) # 0
        <3>1. Tally(source, e) \in Nat
            BY TallyIs
        <3> QED
            BY <1>3, <3>1
    <2>2. /\ Tally(candidate, d) <= Tally(source, d)
          /\ Tally(source, d) - Tally(candidate, d) <= Corrected(source, d)
        <3>1. ~(\A c \in Digits : Tally(Spelled(source, dictionary), c) = 0)
            BY <2>1, SpelledTallies
        <3>2. /\ Tally(Spelled(candidate, dictionary), d) <= Tally(Spelled(source, dictionary), d)
              /\ Tally(Spelled(source, dictionary), d) - Tally(Spelled(candidate, dictionary), d)
                     <= Corrected(Spelled(source, dictionary), d)
            BY <1>1, <3>1 DEF NumbersKept
        <3>3. /\ Tally(Spelled(candidate, dictionary), d) = Tally(candidate, d)
              /\ Tally(Spelled(source, dictionary), d) = Tally(source, d)
              /\ Corrected(Spelled(source, dictionary), d) = Corrected(source, d)
            BY SpelledTallies, SpelledCorrections
        <3> QED
            BY <3>2, <3>3
    <2>3. CASE CorrectsTwice(source)
        BY <2>2, <2>3
    <2>4. CASE ~CorrectsTwice(source)
        <3> DEFINE lost == Tally(source, d) - Tally(candidate, d)
                   corrected == Corrected(source, d)
                   followed == Cardinality(Followed(source, d))
        <3>1. corrected <= followed /\ corrected \in Nat /\ followed \in Nat
            BY <2>4, CorrectedOnce
        <3>2. lost <= corrected
            BY <2>2
        <3>3. lost \in Int
            <4>1. Tally(source, d) \in Nat /\ Tally(candidate, d) \in Nat
                BY TallyIs
            <4> QED
                BY <4>1
        <3> HIDE DEF lost, corrected, followed
        <3>4. lost <= followed
            BY <3>1, <3>2, <3>3
        <3> QED
            BY <2>2, <3>4 DEF lost, followed
    <2> QED
        BY <2>3, <2>4
<1> QED
    BY <1>2, <1>3 DEF SameFacts

\* A part of a text is a text.
LEMMA SliceIs ==
    ASSUME NEW S, NEW s \in Seq(S), NEW m \in Int, NEW n \in Int, m <= n + 1,
           \A k \in m..n : k \in DOMAIN s
    PROVE  SubSeq(s, m, n) \in Seq(S)
<1>1. \A k \in m..n : s[k] \in S
    BY ElementOfSeq, LenProperties
<1> QED
    BY <1>1, SubSeqProperties

\* What a model makes of a text is a text.
LEMMA RewordedIs ==
    ASSUME NEW text, NEW n \in Nat, DOMAIN text = 1..n, text = [i \in 1..n |-> text[i]],
           NEW candidate \in Reworded(text)
    PROVE  \E m \in Nat : DOMAIN candidate = 1..m
<1> DEFINE S == {text[i] : i \in 1..n} \cup Tokens
<1>1. text \in Seq(S) /\ Len(text) = n
    <2>1. text \in [1..n -> S]
        OBVIOUS
    <2> HIDE DEF S
    <2> QED
        BY <2>1
<1> HIDE DEF S
<1>2. CASE candidate \in LeavingOut(text)
    <2>1. PICK keep \in SUBSET (1..n) : candidate = Picked(text, keep)
        BY <1>2 DEF LeavingOut
    <2>2. Cardinality(keep) \in Nat
        BY FS_Interval, FS_Subset, FS_CardinalityType
    <2>3. DOMAIN candidate = 1..Cardinality(keep)
        BY <2>1 DEF Picked
    <2> QED
        BY <2>2, <2>3
<1>3. ASSUME NEW i \in 1..(Len(text) + 1), NEW t \in Tokens, candidate = InsertAt(text, i, t)
      PROVE  candidate \in Seq(S)
    <2>1. t \in S /\ i \in Int /\ i - 1 \in Int /\ Len(text) \in Nat
        BY <1>1 DEF S
    <2>2. SubSeq(text, 1, i - 1) \in Seq(S)
        <3>1. \A k \in 1..(i - 1) : k \in 1..Len(text) /\ text[k] \in S
            <4> SUFFICES ASSUME NEW k \in 1..(i - 1)
                         PROVE  k \in 1..Len(text) /\ text[k] \in S
                OBVIOUS
            <4>1. k \in 1..Len(text)
                BY <2>1
            <4> QED
                BY <1>1, <4>1
        <3>2. \A k \in 1..(i - 1) : k \in DOMAIN text
            BY <1>1, <3>1
        <3>3. 1 \in Int /\ 1 <= (i - 1) + 1
            BY <2>1
        <3> QED
            BY <1>1, <2>1, <3>1, <3>2, <3>3, SliceIs
    <2>3. SubSeq(text, i, Len(text)) \in Seq(S)
        <3>1. \A k \in i..Len(text) : k \in DOMAIN text
            BY <1>1, <2>1
        <3>2. i <= Len(text) + 1
            BY <2>1
        <3> QED
            BY <1>1, <2>1, <3>1, <3>2, SliceIs
    <2>4. <<t>> \in Seq(S)
        BY <2>1
    <2>5. candidate = SubSeq(text, 1, i - 1) \o <<t>> \o SubSeq(text, i, Len(text))
        BY <1>3 DEF InsertAt
    <2>6. SubSeq(text, 1, i - 1) \o <<t>> \in Seq(S)
        BY <2>2, <2>4, ConcatProperties
    <2> QED
        BY <2>3, <2>5, <2>6, ConcatProperties
<1>4. ASSUME NEW i \in DOMAIN text, NEW t \in Tokens, candidate = ReplaceAt(text, i, t)
      PROVE  candidate \in Seq(S)
    <2>1. t \in S
        BY DEF S
    <2>2. candidate = [text EXCEPT ![i] = t]
        BY <1>4, <1>1 DEF ReplaceAt
    <2> QED
        BY <1>1, <2>1, <2>2
<1>5. ASSUME candidate = text \o text \o text
      PROVE  candidate \in Seq(S)
    <2>1. text \o text \in Seq(S)
        BY <1>1, ConcatProperties
    <2> QED
        BY <1>1, <1>5, <2>1, ConcatProperties
<1>6. candidate \in Seq(S) => \E m \in Nat : DOMAIN candidate = 1..m
    BY LenProperties
<1>7. \/ candidate \in LeavingOut(text)
      \/ \E i \in 1..(Len(text) + 1), t \in Tokens : candidate = InsertAt(text, i, t)
      \/ \E i \in DOMAIN text, t \in Tokens : candidate = ReplaceAt(text, i, t)
      \/ candidate = text \o text \o text
    <2>1. candidate \in Inserting(text) =>
            \E i \in 1..(Len(text) + 1), t \in Tokens : candidate = InsertAt(text, i, t)
        BY DEF Inserting
    <2>2. candidate \in Replacing(text) =>
            \E i \in DOMAIN text, t \in Tokens : candidate = ReplaceAt(text, i, t)
        BY DEF Replacing
    <2> QED
        BY <2>1, <2>2 DEF Reworded
<1>8. candidate \in LeavingOut(text) \/ candidate \in Seq(S)
    BY <1>3, <1>4, <1>5, <1>7
<1> QED
    BY <1>2, <1>6, <1>8

-----------------------------------------------------------------------------
(* What a refinement may deliver.                                          *)

LEMMA SameAsItself ==
    ASSUME NEW n \in Nat, NEW text, DOMAIN text = 1..n
    PROVE  SameFacts(text, text)
<1>1. ASSUME NEW d \in Digits
      PROVE  /\ Tally(text, d) <= Tally(text, d)
             /\ Tally(text, d) - Tally(text, d) <= Cardinality(Followed(text, d))
    <2> DEFINE said_ == Tally(text, d)
               followed == Cardinality(Followed(text, d))
    <2>1. said_ \in Nat
        BY TallyIs
    <2>2. followed \in Nat
        <3>1. IsFiniteSet(1..n)
            BY FS_Interval
        <3>2. Followed(text, d) \in SUBSET (1..n)
            BY DEF Followed
        <3> QED
            BY <3>1, <3>2, FS_Subset, FS_CardinalityType
    <2> HIDE DEF said_, followed
    <2>3. said_ <= said_ /\ said_ - said_ <= followed
        BY <2>1, <2>2
    <2> QED
        BY <2>3 DEF said_, followed
<1> QED
    BY <1>1 DEF SameFacts

\* A text that is not accepted is not delivered, and none is passed over here.
LEMMA RefinedIs ==
    ASSUME NEW t \in Said, NEW d \in Dictionaries, NEW result \in Refined[<<t, d>>]
    PROVE  /\ SameFacts(Cleaned[t], result.text)
           /\ result.status \notin Refusals \cup {"TemporarilyUnavailable"}
<1> DEFINE source == Cleaned[t]
<1>1. PICK n \in Nat : DOMAIN source = 1..n /\ source = [i \in 1..n |-> source[i]]
    BY CleanedIs
<1>2. <<t, d>> \in Said \X Dictionaries
    OBVIOUS
<1>3. PICK c \in Reworded(source) : result = Completed(source, c, d)
    BY <1>2 DEF Refined
<1> HIDE DEF source
<1>4. PICK m \in Nat : DOMAIN c = 1..m
    BY <1>1, RewordedIs
<1>5. CASE Verdict(source, c, d) = "accepted"
    <2>1. SameFacts(source, c)
        BY <1>1, <1>4, <1>5, FactsKept
    <2>2. result.status = "Completed" /\ result.text = c
        BY <1>3, <1>5 DEF Completed
    <2> QED
        BY <2>1, <2>2 DEF source, Refusals
<1>6. CASE Verdict(source, c, d) # "accepted"
    <2>1. result.status = Verdict(source, c, d) /\ result.text = source
        BY <1>3, <1>6 DEF Completed
    <2>2. SameFacts(source, source)
        BY <1>1, SameAsItself
    <2>3. Verdict(source, c, d) \in
              {"EmptyOutput", "AbnormalGrowth", "NonRefinementWrapper",
               "ProtectedFragmentChanged", "NumericFactsChanged", "accepted"}
        BY DEF Verdict
    <2> QED
        BY <2>1, <2>2, <2>3 DEF source, Refusals
<1> QED
    BY <1>5, <1>6

Errors == Refusals \cup {"Quota", "Transport", "Protocol", "Timeout"}

LEMMA MeaningIs ==
    ASSUME NEW profile, NEW code, NEW e \in Meaning(profile, code)
    PROVE  e \in Errors
<1>1. PICK c \in VendorCodes : e = c[3]
    BY DEF Meaning
<1> QED
    BY <1>1 DEF VendorCodes, Errors, Refusals

LEMMA ErrorIs ==
    ASSUME NEW s \in Services, NEW error \in ErrorsOf[s.profile]
    PROVE  error \in Errors
<1> DEFINE profile == s.profile
<1>1. PICK answer \in Failures : error = AnswerError(profile, answer) /\ error # ""
    BY DEF ErrorsOf
<1> HIDE DEF profile
<1>2. answer.is \in {"lost", "late", "large", "garbled", "status", "success"}
    <2> DEFINE silences == {"lost", "late", "large", "garbled"}
               silent == {NoText(is, 0, "") : is \in silences}
               empty == {NoText("success", 200, c) : c \in Codes}
               refused == UNION {{NoText("status", n, c) : c \in Codes} :
                                    n \in {401, 400, 404, 429, 503, 302}}
    <2>1. \A a \in silent : a.is \in silences
        <3> HIDE DEF silences
        <3>1. \A kind \in silences : NoText(kind, 0, "").is = kind
            BY DEF NoText
        <3>2. \A a \in silent : \E kind \in silences : a = NoText(kind, 0, "")
            OBVIOUS
        <3> HIDE DEF silent
        <3> QED
            BY <3>1, <3>2, Zenon
    <2>2. \A a \in empty : a.is = "success"
        BY DEF NoText
    <2>3. \A a \in refused : a.is = "status"
        <3> DEFINE of(n) == {NoText("status", n, c) : c \in Codes}
                   statuses == {401, 400, 404, 429, 503, 302}
        <3>1. \A n : \A a \in of(n) : a.is = "status"
            BY DEF NoText
        <3>2. refused = UNION {of(n) : n \in statuses}
            OBVIOUS
        <3> HIDE DEF of, statuses, refused
        <3> QED
            BY <3>1, <3>2
    <2>4. answer \in silent \/ answer \in empty \/ answer \in refused
        BY Zenon DEF Failures
    <2> HIDE DEF silent, empty, refused
    <2> QED
        BY <2>1, <2>2, <2>3, <2>4
<1>3. Rejection(profile, answer) \in Errors
    <2>1. CASE Meaning(profile, answer.code) # {}
        BY <2>1, MeaningIs DEF Rejection
    <2>2. CASE Meaning(profile, answer.code) = {}
        <3>1. StatusError(answer.status) \in Errors
            BY DEF StatusError, Errors, Refusals
        <3> QED
            BY <2>2, <3>1 DEF Rejection
    <2> QED
        BY <2>1, <2>2
<1>4. CASE answer.is = "success"
    <2>1. Meaning(profile, answer.code) # {} =>
              (CHOOSE e \in Meaning(profile, answer.code) : TRUE) \in Errors
        BY MeaningIs
    <2>2. error = IF profile = "MiniMax" /\ answer.code # ""
                  THEN IF Meaning(profile, answer.code) = {} THEN "Protocol"
                       ELSE CHOOSE e \in Meaning(profile, answer.code) : TRUE
                  ELSE IF answer.text = <<>> THEN "Protocol" ELSE ""
        BY <1>1, <1>4 DEF AnswerError
    <2> QED
        BY <1>1, <2>1, <2>2 DEF Errors
<1>5. CASE answer.is = "status"
    BY <1>1, <1>3, <1>5 DEF AnswerError
<1>6. CASE answer.is \notin {"status", "success"}
    <2>1. error \in {"Transport", "Timeout", "Protocol"}
        BY <1>1, <1>2, <1>6 DEF AnswerError
    <2> QED
        BY <2>1 DEF Errors
<1> QED
    BY <1>4, <1>5, <1>6

-----------------------------------------------------------------------------
(* What a processor was told.                                              *)

Outcomes == {"success", "resumed", "transient"} \cup Refusals
Availabilities == {"Available", "Paused", "PauseOver"} \cup Refusals

Processors ==
    [service : Services, configured : BOOLEAN, failures : Nat,
     availability : Availabilities, outcomes : Seq(Outcomes)]

LEMMA ToldIs ==
    ASSUME NEW outcomes \in Seq(Outcomes), NEW kind
    PROVE  /\ Told(outcomes, kind) \in SUBSET (1..Len(outcomes))
           /\ Len(outcomes) \in Nat
           /\ IsFiniteSet(Told(outcomes, kind))
           /\ Cardinality(Told(outcomes, kind)) \in Nat
<1>1. Len(outcomes) \in Nat /\ DOMAIN outcomes = 1..Len(outcomes)
    BY LenProperties
<1>2. Told(outcomes, kind) \in SUBSET (1..Len(outcomes))
    BY <1>1 DEF Told, Since
<1>3. IsFiniteSet(1..Len(outcomes))
    BY <1>1, FS_Interval
<1> QED
    BY <1>1, <1>2, <1>3, FS_Subset, FS_CardinalityType

\* A success, and the end of a pause, take back what was told.
LEMMA ToldAfterRelief ==
    ASSUME NEW outcomes \in Seq(Outcomes), NEW relief \in {"success", "resumed"}, NEW kind
    PROVE  Told(Append(outcomes, relief), kind) = {}
<1> DEFINE after == Append(outcomes, relief)
           n == Len(outcomes)
<1>1. /\ n \in Nat /\ DOMAIN after = 1..(n + 1) /\ Len(after) = n + 1
      /\ after[n + 1] = relief
    <2>1. after \in Seq(Outcomes) /\ Len(after) = n + 1 /\ after[n + 1] = relief
        BY AppendProperties DEF Outcomes
    <2> QED
        BY <2>1, LenProperties
<1> HIDE DEF after, n
<1>2. ASSUME NEW i \in 1..(n + 1)
      PROVE  n + 1 \in i..(n + 1)
    BY <1>1
<1>3. Since(after) = {}
    BY <1>1, <1>2 DEF Since
<1> QED
    BY <1>3 DEF Told, after

\* A failure adds to what was told of its kind, and to nothing else.
LEMMA ToldAfterFailure ==
    ASSUME NEW outcomes \in Seq(Outcomes), NEW failure \in Outcomes,
           failure \notin {"success", "resumed"}, NEW kind
    PROVE  Told(Append(outcomes, failure), kind) =
               IF kind = failure THEN Told(outcomes, kind) \cup {Len(outcomes) + 1}
                                 ELSE Told(outcomes, kind)
<1> DEFINE after == Append(outcomes, failure)
           n == Len(outcomes)
<1>1. /\ n \in Nat /\ DOMAIN after = 1..(n + 1) /\ Len(after) = n + 1
      /\ DOMAIN outcomes = 1..n
      /\ after[n + 1] = failure
      /\ \A i \in 1..n : after[i] = outcomes[i]
    <2>1. /\ after \in Seq(Outcomes) /\ Len(after) = n + 1 /\ after[n + 1] = failure
          /\ \A i \in 1..n : after[i] = outcomes[i]
        BY AppendProperties
    <2> QED
        BY <2>1, LenProperties
<1> HIDE DEF after
<1>2. Len(outcomes) = n
    OBVIOUS
<1> HIDE DEF n
<1>3. ASSUME NEW i \in 1..n
      PROVE  i \in Since(after) <=> i \in Since(outcomes)
    <2>1. /\ i..(n + 1) = (i..n) \cup {n + 1} /\ i \in DOMAIN after /\ i \in DOMAIN outcomes
          /\ \A j \in i..n : j \in 1..n
        BY <1>1
    <2>2. (\A j \in i..(n + 1) : after[j] \notin {"success", "resumed"}) <=>
              \A j \in i..n : outcomes[j] \notin {"success", "resumed"}
        BY <1>1, <2>1
    <2> QED
        BY <1>1, <1>2, <2>1, <2>2 DEF Since
<1>4. n + 1 \in Since(after)
    <2>1. (n + 1)..(n + 1) = {n + 1} /\ n + 1 \in 1..(n + 1)
        BY <1>1
    <2> QED
        BY <1>1, <2>1 DEF Since
<1>5. Since(after) \in SUBSET (1..(n + 1)) /\ Since(outcomes) \in SUBSET (1..n)
    BY <1>1 DEF Since
<1>6. /\ 1..(n + 1) = (1..n) \cup {n + 1} /\ n + 1 \notin 1..n
    BY <1>1
<1>7. Since(after) = Since(outcomes) \cup {n + 1}
    BY <1>3, <1>4, <1>5, <1>6
<1>8. \A i \in Since(outcomes) : after[i] = outcomes[i]
    BY <1>1, <1>5
<1> QED
    BY <1>1, <1>2, <1>7, <1>8 DEF Told, after

\* The circuit of a processor stands for what it was told.
SoundCircuit(p) ==
    /\ p.configured = Usable(p.service)
    /\ p.failures <= Cardinality(Told(p.outcomes, "transient"))
    /\ p.availability = "Paused" =>
           Cardinality(Told(p.outcomes, "transient")) >= FailureThreshold
    /\ p.availability \in Refusals => Told(p.outcomes, p.availability) # {}
    /\ p.availability = "Available" => \A error \in Refusals : Told(p.outcomes, error) = {}

LEMMA NewProcessorSound ==
    ASSUME NEW s \in Services
    PROVE  NewProcessor(s) \in Processors /\ SoundCircuit(NewProcessor(s))
<1> DEFINE p == NewProcessor(s)
<1>1. p = [service |-> s, configured |-> Usable(s), failures |-> 0,
           availability |-> "Available", outcomes |-> <<>>]
    BY DEF NewProcessor
<1>2. Usable(s) \in BOOLEAN
    BY DEF Usable
<1>3. p \in Processors
    BY <1>1, <1>2, EmptySeq DEF Processors, Availabilities
<1>4. Told(<<>>, "transient") = {} /\ \A error \in Refusals : Told(<<>>, error) = {}
    BY DEF Told, Since
<1>5. 0 <= Cardinality(Told(<<>>, "transient"))
    <2>1. Cardinality({}) = 0
        BY FS_EmptySet
    <2> DEFINE none == Cardinality(Told(<<>>, "transient"))
    <2>2. none = 0
        BY <1>4, <2>1
    <2> HIDE DEF none
    <2>3. 0 <= none
        BY <2>2
    <2> QED
        BY <2>3 DEF none
<1>6. /\ p.configured = Usable(p.service) /\ p.failures = 0 /\ p.availability = "Available"
      /\ p.outcomes = <<>>
    BY <1>1
<1> HIDE DEF p
<1>7. SoundCircuit(p)
    BY <1>4, <1>5, <1>6 DEF SoundCircuit, Refusals
<1> QED
    BY <1>3, <1>7 DEF p

\* What takes a failure back leaves a processor that is used.
LEMMA Relieved ==
    ASSUME NEW p \in Processors, SoundCircuit(p), NEW relief \in {"success", "resumed"},
           NEW q, q = [p EXCEPT !.failures = 0, !.availability = "Available",
                                !.outcomes = Append(@, relief)]
    PROVE  /\ q \in Processors /\ SoundCircuit(q)
           /\ q.service = p.service /\ q.configured = p.configured
<1>1. /\ p.outcomes \in Seq(Outcomes) /\ relief \in Outcomes
    BY DEF Processors, Outcomes
<1>2. Append(p.outcomes, relief) \in Seq(Outcomes)
    BY <1>1, AppendProperties
<1>3. /\ q.service = p.service /\ q.configured = p.configured /\ q.failures = 0
      /\ q.availability = "Available" /\ q.outcomes = Append(p.outcomes, relief)
    BY DEF Processors
<1>4. q \in Processors
    BY <1>2 DEF Processors, Availabilities
<1>5. \A kind : Told(q.outcomes, kind) = {}
    BY <1>1, <1>3, ToldAfterRelief
<1>6. 0 <= Cardinality(Told(q.outcomes, "transient"))
    BY <1>5, FS_EmptySet
<1>7. SoundCircuit(q)
    BY <1>3, <1>5, <1>6 DEF SoundCircuit, Refusals
<1> QED
    BY <1>3, <1>4, <1>7

LEMMA LookedSound ==
    ASSUME NEW p \in Processors, SoundCircuit(p)
    PROVE  /\ Looked(p) \in Processors /\ SoundCircuit(Looked(p))
           /\ Looked(p).service = p.service /\ Looked(p).configured = p.configured
           /\ Bypass(p) = "none" => Looked(p).availability = "Available"
           /\ Bypass(p) # "none" => Looked(p) = p /\ Bypass(p) =
                  IF p.availability = "Paused" THEN "TemporarilyUnavailable" ELSE p.availability
<1>1. CASE p.availability = "PauseOver"
    <2>1. Looked(p) = [p EXCEPT !.failures = 0, !.availability = "Available",
                                !.outcomes = Append(@, "resumed")]
        BY <1>1 DEF Looked
    <2>2. Looked(p).availability = "Available"
        BY <2>1 DEF Processors
    <2>3. Bypass(p) = "none"
        BY <1>1 DEF Bypass
    <2> QED
        BY <2>1, <2>2, <2>3, Relieved
<1>2. CASE p.availability # "PauseOver"
    <2>1. Looked(p) = p
        BY <1>2 DEF Looked
    <2>2. p.availability \in Availabilities
        BY DEF Processors
    <2>3. /\ Bypass(p) = "none" => p.availability = "Available"
          /\ Bypass(p) # "none" => Bypass(p) =
                 IF p.availability = "Paused" THEN "TemporarilyUnavailable" ELSE p.availability
        BY <1>2, <2>2 DEF Bypass, Availabilities, Refusals
    <2> QED
        BY <2>1, <2>3
<1> QED
    BY <1>1, <1>2

LEMMA SucceededSound ==
    ASSUME NEW p \in Processors, SoundCircuit(p)
    PROVE  /\ ServiceSucceeded(p) \in Processors /\ SoundCircuit(ServiceSucceeded(p))
           /\ ServiceSucceeded(p).service = p.service
           /\ ServiceSucceeded(p).configured = p.configured
BY Relieved DEF ServiceSucceeded

LEMMA FailedSound ==
    ASSUME NEW p \in Processors, SoundCircuit(p), NEW error \in Errors
    PROVE  /\ ServiceFailed(p, error) \in Processors /\ SoundCircuit(ServiceFailed(p, error))
           /\ ServiceFailed(p, error).service = p.service
           /\ ServiceFailed(p, error).configured = p.configured
           /\ error \in Refusals => Told(ServiceFailed(p, error).outcomes, error) # {}
<1> DEFINE kind == IF error \in Refusals THEN error ELSE "transient"
           q == ServiceFailed(p, error)
           told == Cardinality(Told(p.outcomes, "transient"))
<1>1. /\ p.outcomes \in Seq(Outcomes) /\ kind \in Outcomes /\ kind \notin {"success", "resumed"}
      /\ p.failures \in Nat /\ p.availability \in Availabilities
    BY DEF Processors, Outcomes, Refusals
<1>2. /\ Append(p.outcomes, kind) \in Seq(Outcomes)
      /\ Len(p.outcomes) \in Nat
    BY <1>1, AppendProperties, LenProperties
<1>3. /\ told \in Nat /\ p.failures <= told
    BY <1>1, ToldIs DEF SoundCircuit
<1>4. \A k : Told(Append(p.outcomes, kind), k) =
               IF k = kind THEN Told(p.outcomes, k) \cup {Len(p.outcomes) + 1}
                           ELSE Told(p.outcomes, k)
    BY <1>1, ToldAfterFailure
<1>5. CASE error \in Refusals
    <2>1. q = [p EXCEPT !.outcomes = Append(@, error), !.availability = error]
        BY <1>5 DEF ServiceFailed, Processors
    <2>2. kind = error /\ error # "transient" /\ error \notin {"Paused", "Available"}
        BY <1>5 DEF Refusals
    <2>3. /\ q.service = p.service /\ q.configured = p.configured /\ q.failures = p.failures
          /\ q.availability = error /\ q.outcomes = Append(p.outcomes, kind)
        BY <2>1, <2>2 DEF Processors
    <2>4. q \in Processors
        BY <1>2, <1>5, <2>1, <2>2 DEF Processors, Availabilities
    <2>5. Told(q.outcomes, "transient") = Told(p.outcomes, "transient")
        BY <1>4, <2>2, <2>3
    <2>6. Told(q.outcomes, error) # {}
        BY <1>4, <2>2, <2>3
    <2> HIDE DEF q, kind
    <2>7. SoundCircuit(q)
        BY <2>2, <2>3, <2>5, <2>6 DEF SoundCircuit
    <2> QED
        BY <2>3, <2>4, <2>6, <2>7 DEF q
<1>6. CASE error \notin Refusals
    <2> DEFINE next == IF p.failures + 1 >= FailureThreshold THEN "Paused" ELSE p.availability
    <2>1. q = [p EXCEPT !.outcomes = Append(@, "transient"), !.failures = @ + 1,
                        !.availability = next]
        BY <1>6 DEF ServiceFailed, Processors
    <2>2. kind = "transient" /\ "transient" \notin Refusals /\ "Paused" \notin Refusals
        BY <1>6 DEF Refusals
    <2>3. /\ q.service = p.service /\ q.configured = p.configured
          /\ q.failures = p.failures + 1
          /\ q.availability = next /\ q.outcomes = Append(p.outcomes, kind)
        BY <2>1, <2>2 DEF Processors
    <2>4. next \in Availabilities /\ p.failures + 1 \in Nat
        BY <1>1 DEF Availabilities
    <2> HIDE DEF next
    <2>5. q \in Processors
        BY <1>2, <2>1, <2>2, <2>4 DEF Processors
    <2>6. Cardinality(Told(q.outcomes, "transient")) = told + 1
        <3>1. Told(q.outcomes, "transient") =
                  Told(p.outcomes, "transient") \cup {Len(p.outcomes) + 1}
            BY <1>4, <2>2, <2>3
        <3>2. /\ IsFiniteSet(Told(p.outcomes, "transient"))
              /\ Len(p.outcomes) + 1 \notin Told(p.outcomes, "transient")
            BY <1>1, <1>2, ToldIs
        <3> QED
            BY <3>1, <3>2, FS_AddElement
    <2>7. \A e \in Refusals : Told(q.outcomes, e) = Told(p.outcomes, e)
        BY <1>4, <2>2, <2>3
    <2> HIDE DEF q, kind, told
    <2>8. /\ q.failures <= told + 1
          /\ next = "Paused" => told + 1 >= FailureThreshold \/ p.availability = "Paused"
          /\ next # "Paused" => next = p.availability
        <3>1. FailureThreshold \in Nat
            BY RefinementAssumption
        <3> QED
            BY <1>1, <1>3, <2>3, <3>1 DEF next
    <2>9. p.availability = "Paused" => told + 1 >= FailureThreshold
        <3>1. FailureThreshold \in Nat
            BY RefinementAssumption
        <3>2. p.availability = "Paused" => told >= FailureThreshold
            BY DEF SoundCircuit, told
        <3> QED
            BY <1>3, <3>1, <3>2
    <2>10. SoundCircuit(q)
        BY <2>2, <2>3, <2>6, <2>7, <2>8, <2>9 DEF SoundCircuit
    <2> QED
        BY <1>6, <2>3, <2>5, <2>10 DEF q
<1> QED
    BY <1>5, <1>6

-----------------------------------------------------------------------------
(* The refinements that overlap.                                           *)

Planned == [at : {"idle", "planned", "asking"}, service : Services \cup {NoService},
            processor : Nat]

\* What a thread asks is a processor that is there, made for these settings.
CanAsk(made, p, s) ==
    /\ p \in DOMAIN made /\ s \in Services
    /\ made[p].service = s /\ made[p].configured

RefinementInv ==
    /\ said \in Said /\ terms \in Dictionaries /\ llm.service \in Services
    /\ processors \in Seq(Processors) /\ kept \in 0..Len(processors)
    /\ \A p \in DOMAIN processors : SoundCircuit(processors[p])
    /\ refiner \in [Refiners -> Planned]
    /\ \A r \in Refiners :
          refiner[r].at = "asking" => CanAsk(processors, refiner[r].processor, refiner[r].service)
    /\ KeepsFacts

LEMMA RefinementInvInit == RefinementInit => RefinementInv
<1> SUFFICES ASSUME RefinementInit
             PROVE  RefinementInv
    OBVIOUS
<1>1. said \in Said /\ terms \in Dictionaries /\ llm.service \in Services
    BY DEF RefinementInit
<1>2. processors = <<>> /\ kept = 0 /\ refiner = [r \in Refiners |-> AtRest]
      /\ delivered = NothingYet
    BY DEF RefinementInit
<1>3. processors \in Seq(Processors) /\ kept \in 0..Len(processors) /\ DOMAIN processors = {}
    BY <1>2, EmptySeq
<1>4. refiner \in [Refiners -> Planned] /\ \A r \in Refiners : refiner[r].at # "asking"
    BY <1>2 DEF AtRest, Planned
<1> QED
    BY <1>1, <1>2, <1>3, <1>4 DEF RefinementInv, KeepsFacts

\* A processor is put in the place of another for the same settings.
LEMMA PutInPlace ==
    ASSUME NEW s \in Seq(Processors), \A k \in DOMAIN s : SoundCircuit(s[k]),
           NEW p \in DOMAIN s, NEW q \in Processors, SoundCircuit(q),
           q.service = s[p].service, q.configured = s[p].configured,
           NEW after, after = [s EXCEPT ![p] = q]
    PROVE  /\ after \in Seq(Processors) /\ Len(after) = Len(s) /\ DOMAIN after = DOMAIN s
           /\ after[p] = q
           /\ \A k \in DOMAIN s : /\ SoundCircuit(after[k])
                                  /\ after[k].service = s[k].service
                                  /\ after[k].configured = s[k].configured
<1>1. DOMAIN s = 1..Len(s)
    BY LenProperties
<1>2. after \in Seq(Processors) /\ Len(after) = Len(s)
    BY <1>1, ExceptSeq
<1>3. \A k \in DOMAIN s : after[k] = IF k = p THEN q ELSE s[k]
    BY <1>1
<1>4. DOMAIN after = DOMAIN s
    BY <1>1, <1>2, LenProperties
<1> QED
    BY <1>2, <1>3, <1>4

\* What was asked still can be.
LEMMA CanAskStill ==
    ASSUME RefinementInv, DOMAIN processors \subseteq DOMAIN processors',
           \A k \in DOMAIN processors : /\ processors'[k].service = processors[k].service
                                        /\ processors'[k].configured = processors[k].configured,
           NEW r \in Refiners, refiner'[r] = refiner[r], refiner[r].at = "asking"
    PROVE  CanAsk(processors', refiner[r].processor, refiner[r].service)
BY DEF RefinementInv, CanAsk

\* The processor found for a service, or made for it.
LEMMA ProcessorFound ==
    ASSUME RefinementInv, NEW s \in Services
    PROVE  /\ With(s) \in Seq(Processors) /\ ProcessorFor(s) \in DOMAIN With(s)
           /\ ProcessorFor(s) \in 0..Len(With(s))
           /\ With(s)[ProcessorFor(s)].service = s
           /\ \A k \in DOMAIN With(s) : SoundCircuit(With(s)[k])
           /\ DOMAIN processors \subseteq DOMAIN With(s)
           /\ \A k \in DOMAIN processors : With(s)[k] = processors[k]
<1>1. /\ processors \in Seq(Processors) /\ Len(processors) \in Nat
      /\ DOMAIN processors = 1..Len(processors) /\ kept \in 0..Len(processors)
      /\ \A k \in DOMAIN processors : SoundCircuit(processors[k])
    BY LenProperties DEF RefinementInv
<1>2. CASE Finds(s)
    <2>1. With(s) = processors /\ ProcessorFor(s) = kept /\ kept # 0 /\ processors[kept].service = s
        BY <1>2 DEF With, ProcessorFor, Finds
    <2>2. kept \in 1..Len(processors)
        BY <1>1, <2>1
    <2> QED
        BY <1>1, <2>1, <2>2
<1>3. CASE ~Finds(s)
    <2> DEFINE n == Len(processors)
               more == Append(processors, NewProcessor(s))
    <2>1. With(s) = more /\ ProcessorFor(s) = n + 1
        BY <1>3 DEF With, ProcessorFor
    <2>2. /\ NewProcessor(s) \in Processors /\ SoundCircuit(NewProcessor(s))
          /\ NewProcessor(s).service = s
        BY NewProcessorSound DEF NewProcessor
    <2>3. /\ more \in Seq(Processors) /\ Len(more) = n + 1
          /\ \A k \in 1..n : more[k] = processors[k]
          /\ more[n + 1] = NewProcessor(s)
        BY <1>1, <2>2, AppendProperties
    <2>4. DOMAIN more = 1..(n + 1)
        BY <2>3, LenProperties
    <2>5. n \in Nat /\ 1..(n + 1) = (1..n) \cup {n + 1} /\ n + 1 \in 0..(n + 1)
        BY <1>1
    <2> HIDE DEF more, n
    <2>6. \A k \in 1..n : more[k] = processors[k] /\ SoundCircuit(more[k])
        BY <1>1, <2>3 DEF n
    <2>7. SoundCircuit(more[n + 1])
        BY <2>2, <2>3
    <2>8. \A k \in 1..(n + 1) : SoundCircuit(more[k])
        BY <2>5, <2>6, <2>7
    <2>9. DOMAIN processors = 1..n
        BY <1>1 DEF n
    <2> QED
        BY <2>1, <2>2, <2>3, <2>4, <2>5, <2>6, <2>8, <2>9
<1> QED
    BY <1>2, <1>3

\* What a thread delivers is the transcript itself, or has its facts.
LEMMA DeliversFacts ==
    ASSUME RefinementInv, NEW r \in Refiners, NEW status, NEW text, NEW p,
           Delivers(r, status, text, p), said' = said, SameFacts(Cleaned[said], text)
    PROVE  /\ KeepsFacts' /\ refiner' \in [Refiners -> Planned]
           /\ refiner'[r].at = "idle" /\ delivered'.status = status /\ delivered'.by = p
           /\ \A other \in Refiners : other # r => refiner'[other] = refiner[other]
<1>1. refiner \in [Refiners -> Planned] /\ AtRest \in Planned /\ AtRest.at = "idle"
    BY DEF RefinementInv, AtRest, Planned
<1>2. delivered' = [status |-> status, text |-> text, by |-> p]
      /\ refiner' = [refiner EXCEPT ![r] = AtRest]
    BY DEF Delivers
<1>3. KeepsFacts'
    BY <1>2 DEF KeepsFacts
<1> QED
    BY <1>1, <1>2, <1>3

LEMMA TranscriptItself ==
    ASSUME RefinementInv
    PROVE  SameFacts(Cleaned[said], Cleaned[said])
<1>1. PICK n \in Nat : DOMAIN Cleaned[said] = 1..n
    BY CleanedIs DEF RefinementInv
<1> QED
    BY <1>1, SameAsItself

-----------------------------------------------------------------------------
(* What each step keeps, and what it may do.                               *)

LEMMA ChangeServiceSafe ==
    ASSUME RefinementInv, ChangeService
    PROVE  RefinementInv' /\ RefinementStep
<1>1. /\ llm'.service \in Services
      /\ UNCHANGED <<said, terms, kept, processors, refiner, delivered>>
    BY DEF ChangeService
<1>2. RefinementInv'
    BY <1>1 DEF RefinementInv, CanAsk, KeepsFacts
<1>3. AskedInHope
    BY <1>1 DEF AskedInHope
<1> QED
    BY <1>1, <1>2, <1>3 DEF RefinementStep, RefinementInv

LEMMA PauseRunsOutSafe ==
    ASSUME RefinementInv, PauseRunsOut
    PROVE  RefinementInv' /\ RefinementStep
<1>1. PICK p \in DOMAIN processors :
          /\ processors[p].availability = "Paused"
          /\ processors' = [processors EXCEPT ![p].availability = "PauseOver"]
    BY DEF PauseRunsOut
<1>2. UNCHANGED <<said, terms, llm, kept, refiner, delivered, asked, changed>>
    BY DEF PauseRunsOut
<1> DEFINE q == [processors[p] EXCEPT !.availability = "PauseOver"]
<1>3. processors[p] \in Processors /\ SoundCircuit(processors[p])
    BY LenProperties, ElementOfSeq DEF RefinementInv
<1>4. q \in Processors /\ q.service = processors[p].service
      /\ q.configured = processors[p].configured /\ q.outcomes = processors[p].outcomes
      /\ q.failures = processors[p].failures /\ q.availability = "PauseOver"
    BY <1>3 DEF Processors, Availabilities
<1>5. processors' = [processors EXCEPT ![p] = q]
    BY <1>1
<1> HIDE DEF q
<1>6. SoundCircuit(q)
    BY <1>3, <1>4 DEF SoundCircuit, Refusals
<1>7. /\ processors' \in Seq(Processors) /\ Len(processors') = Len(processors)
      /\ DOMAIN processors' = DOMAIN processors
      /\ \A k \in DOMAIN processors : /\ SoundCircuit(processors'[k])
                                      /\ processors'[k].service = processors[k].service
                                      /\ processors'[k].configured = processors[k].configured
    BY <1>3, <1>4, <1>5, <1>6, PutInPlace DEF RefinementInv
<1>8. RefinementInv'
    <2>1. \A r \in Refiners : refiner'[r].at = "asking" =>
              CanAsk(processors', refiner'[r].processor, refiner'[r].service)
        BY <1>2, <1>7, CanAskStill
    <2> QED
        BY <1>2, <1>7, <2>1 DEF RefinementInv, KeepsFacts
<1>9. AskedInHope
    BY <1>2 DEF AskedInHope
<1> QED
    BY <1>2, <1>8, <1>9 DEF RefinementStep, RefinementInv

LEMMA MakePlanSafe ==
    ASSUME RefinementInv, NEW r \in Refiners, MakePlan(r)
    PROVE  RefinementInv' /\ RefinementStep
<1> DEFINE s == IF llm.enabled /\ llm.confirmed THEN llm.service ELSE NoService
           plan == [at |-> "planned", processor |-> 0, service |-> s]
<1>1. /\ refiner' = [refiner EXCEPT ![r] = plan] /\ delivered' = NothingYet
      /\ UNCHANGED <<said, terms, llm, kept, processors>>
    BY DEF MakePlan
<1>2. s \in Services \cup {NoService}
    BY DEF RefinementInv
<1> HIDE DEF s
<1>3. plan \in Planned /\ plan.at = "planned"
    BY <1>2 DEF Planned
<1> HIDE DEF plan
<1>4. /\ refiner' \in [Refiners -> Planned] /\ refiner'[r].at = "planned"
      /\ \A other \in Refiners : other # r => refiner'[other] = refiner[other]
    BY <1>1, <1>3 DEF RefinementInv
<1>5. KeepsFacts'
    BY <1>1 DEF KeepsFacts
<1>6. RefinementInv'
    <2>1. \A k \in Refiners : refiner'[k].at = "asking" =>
              CanAsk(processors', refiner'[k].processor, refiner'[k].service)
        BY <1>1, <1>4 DEF RefinementInv, CanAsk
    <2> QED
        BY <1>1, <1>4, <1>5, <2>1 DEF RefinementInv
<1>7. AskedInHope
    BY <1>4 DEF AskedInHope
<1>8. PassedOverForCause'
    BY <1>1 DEF PassedOverForCause, NothingYet, Refusals
<1> QED
    BY <1>5, <1>6, <1>7, <1>8 DEF RefinementStep

\* A transcript that is not refined is delivered as it is.
LEMMA DeliversUnrefined ==
    ASSUME RefinementInv, NEW r \in Refiners, NEW status, NEW p,
           Delivers(r, status, Cleaned[said], p), UNCHANGED <<said, terms, llm>>,
           processors' \in Seq(Processors), kept' \in 0..Len(processors'),
           \A k \in DOMAIN processors' : SoundCircuit(processors'[k]),
           DOMAIN processors \subseteq DOMAIN processors',
           \A k \in DOMAIN processors : /\ processors'[k].service = processors[k].service
                                        /\ processors'[k].configured = processors[k].configured,
           status = "TemporarilyUnavailable" =>
               Cardinality(Told(processors'[p].outcomes, "transient")) >= FailureThreshold,
           status \in Refusals => Told(processors'[p].outcomes, status) # {}
    PROVE  RefinementInv' /\ RefinementStep
<1>1. /\ KeepsFacts' /\ refiner' \in [Refiners -> Planned]
      /\ refiner'[r].at = "idle" /\ delivered'.status = status /\ delivered'.by = p
      /\ \A other \in Refiners : other # r => refiner'[other] = refiner[other]
    BY TranscriptItself, DeliversFacts
<1>2. RefinementInv'
    <2>1. \A k \in Refiners : refiner'[k].at = "asking" =>
              CanAsk(processors', refiner'[k].processor, refiner'[k].service)
        BY <1>1, CanAskStill
    <2> QED
        BY <1>1, <2>1 DEF RefinementInv
<1>3. AskedInHope
    BY <1>1 DEF AskedInHope
<1>4. PassedOverForCause'
    BY <1>1 DEF PassedOverForCause
<1> QED
    BY <1>1, <1>2, <1>3, <1>4 DEF RefinementStep

LEMMA ExecuteSafe ==
    ASSUME RefinementInv, NEW r \in Refiners, Execute(r)
    PROVE  RefinementInv' /\ RefinementStep
<1> DEFINE s == refiner[r].service
           text == Cleaned[said]
           p == ProcessorFor(s)
           found == With(s)
<1>1. refiner[r].at = "planned" /\ UNCHANGED <<said, terms, llm>>
    BY DEF Execute
<1>2. refiner \in [Refiners -> Planned] /\ s \in Services \cup {NoService}
    BY DEF RefinementInv, Planned
<1>3. CASE s = NoService
    <2>1. Delivers(r, "Disabled", text, 0) /\ UNCHANGED <<kept, processors>>
        BY <1>3 DEF Execute
    <2> HIDE DEF s, p, found
    <2>2. "Disabled" \notin Refusals
        BY DEF Refusals
    <2>3. /\ processors' \in Seq(Processors) /\ kept' \in 0..Len(processors')
          /\ \A k \in DOMAIN processors' : SoundCircuit(processors'[k])
        BY <2>1 DEF RefinementInv
    <2> QED
        BY <1>1, <2>1, <2>2, <2>3, DeliversUnrefined
<1>4. CASE s # NoService
    <2>1. /\ kept' = p
          /\ \/ Delivers(r, "ShortTranscript", text, p) /\ processors' = found
             \/ Delivers(r, "NotConfigured", text, p) /\ processors' = found
             \/ /\ Usable(s) /\ processors' = [found EXCEPT ![p] = Looked(@)]
                /\ IF Bypass(found[p]) = "none"
                   THEN /\ refiner' = [refiner EXCEPT ![r].at = "asking", ![r].processor = p]
                        /\ UNCHANGED delivered
                   ELSE Delivers(r, Bypass(found[p]), text, p)
        BY <1>4, Zenon DEF Execute
    <2>2. s \in Services
        BY <1>2, <1>4
    <2> HIDE DEF s
    <2>3. /\ found \in Seq(Processors) /\ p \in DOMAIN found
          /\ p \in 0..Len(found) /\ found[p].service = s
          /\ \A k \in DOMAIN found : SoundCircuit(found[k])
          /\ DOMAIN processors \subseteq DOMAIN found
          /\ \A k \in DOMAIN processors : found[k] = processors[k]
        BY <2>2, ProcessorFound
    <2>4. p \in Nat
        BY <2>3, LenProperties
    <2> HIDE DEF p, found
    <2>5. found[p] \in Processors
        BY <2>3, ElementOfSeq, LenProperties
    <2>6. ASSUME NEW status \in {"ShortTranscript", "NotConfigured"},
                 Delivers(r, status, text, p), processors' = found
          PROVE  RefinementInv' /\ RefinementStep
        <3>1. status \notin Refusals \cup {"TemporarilyUnavailable"}
            BY DEF Refusals
        <3>2. kept' \in 0..Len(processors')
            BY <2>1, <2>3, <2>6
        <3> QED
            BY <1>1, <2>3, <2>6, <3>1, <3>2, DeliversUnrefined
    <2>7. ASSUME Usable(s), processors' = [found EXCEPT ![p] = Looked(@)]
          PROVE  /\ processors' \in Seq(Processors) /\ kept' \in 0..Len(processors')
                 /\ DOMAIN processors' = DOMAIN found
                 /\ processors'[p] = Looked(found[p])
                 /\ \A k \in DOMAIN found : /\ SoundCircuit(processors'[k])
                                            /\ processors'[k].service = found[k].service
                                            /\ processors'[k].configured = found[k].configured
        <3>1. /\ Looked(found[p]) \in Processors /\ SoundCircuit(Looked(found[p]))
              /\ Looked(found[p]).service = found[p].service
              /\ Looked(found[p]).configured = found[p].configured
            BY <2>3, <2>5, LookedSound
        <3>2. processors' = [found EXCEPT ![p] = Looked(found[p])]
            BY <2>7
        <3>3. /\ processors' \in Seq(Processors) /\ DOMAIN processors' = DOMAIN found
              /\ Len(processors') = Len(found)
              /\ processors'[p] = Looked(found[p])
              /\ \A k \in DOMAIN found : /\ SoundCircuit(processors'[k])
                                         /\ processors'[k].service = found[k].service
                                         /\ processors'[k].configured = found[k].configured
            BY <2>3, <3>1, <3>2, PutInPlace
        <3> QED
            BY <2>1, <2>3, <3>3
    <2>8. ASSUME Usable(s), processors' = [found EXCEPT ![p] = Looked(@)],
                 Bypass(found[p]) # "none", Delivers(r, Bypass(found[p]), text, p)
          PROVE  RefinementInv' /\ RefinementStep
        <3> DEFINE status == Bypass(found[p])
        <3>1. /\ Looked(found[p]) = found[p]
              /\ status = IF found[p].availability = "Paused" THEN "TemporarilyUnavailable"
                          ELSE found[p].availability
            BY <2>3, <2>5, <2>8, LookedSound
        <3>2. processors'[p] = found[p] /\ SoundCircuit(found[p])
            BY <2>3, <2>7, <2>8, <3>1
        <3>3. Delivers(r, status, text, p)
            BY <2>8
        <3> HIDE DEF status
        <3>4. status = "TemporarilyUnavailable" =>
                  Cardinality(Told(processors'[p].outcomes, "transient")) >= FailureThreshold
            <4>1. found[p].availability \in Availabilities
                BY <2>5 DEF Processors
            <4>2. status = "TemporarilyUnavailable" => found[p].availability = "Paused"
                BY <3>1, <4>1 DEF Availabilities, Refusals
            <4> QED
                BY <3>2, <4>2 DEF SoundCircuit
        <3>5. status \in Refusals => Told(processors'[p].outcomes, status) # {}
            <4>1. status \in Refusals => status = found[p].availability
                BY <3>1 DEF Refusals
            <4> QED
                BY <3>2, <4>1 DEF SoundCircuit
        <3>6. /\ DOMAIN processors \subseteq DOMAIN processors'
              /\ \A k \in DOMAIN processors' : SoundCircuit(processors'[k])
              /\ \A k \in DOMAIN processors :
                    /\ processors'[k].service = processors[k].service
                    /\ processors'[k].configured = processors[k].configured
            BY <2>3, <2>7, <2>8
        <3> QED
            BY <1>1, <2>7, <2>8, <3>3, <3>4, <3>5, <3>6, DeliversUnrefined
    <2>9. ASSUME Usable(s), processors' = [found EXCEPT ![p] = Looked(@)],
                 Bypass(found[p]) = "none",
                 refiner' = [refiner EXCEPT ![r].at = "asking", ![r].processor = p],
                 UNCHANGED delivered
          PROVE  RefinementInv' /\ RefinementStep
        <3>1. /\ refiner' \in [Refiners -> Planned]
              /\ refiner'[r].at = "asking" /\ refiner'[r].processor = p /\ refiner'[r].service = s
              /\ \A other \in Refiners : other # r => refiner'[other] = refiner[other]
            BY <1>2, <2>4, <2>9 DEF Planned, s
        <3>2. /\ DOMAIN processors \subseteq DOMAIN processors'
              /\ \A k \in DOMAIN processors' : SoundCircuit(processors'[k])
              /\ \A k \in DOMAIN processors :
                    /\ processors'[k].service = processors[k].service
                    /\ processors'[k].configured = processors[k].configured
            BY <2>3, <2>7, <2>9
        <3>3. /\ Looked(found[p]).availability = "Available" /\ SoundCircuit(Looked(found[p]))
              /\ Looked(found[p]).service = s
            BY <2>3, <2>5, <2>9, LookedSound
        <3>4. processors'[p] = Looked(found[p])
            BY <2>7, <2>9
        <3>5. \A error \in Refusals : Told(processors'[p].outcomes, error) = {}
            BY <3>3, <3>4 DEF SoundCircuit
        <3>6. processors'[p].configured
            BY <2>9, <3>3, <3>4 DEF SoundCircuit
        <3>7. CanAsk(processors', p, s)
            BY <2>2, <2>3, <2>7, <2>9, <3>3, <3>4, <3>6 DEF CanAsk
        <3>8. \A k \in Refiners : refiner'[k].at = "asking" =>
                  CanAsk(processors', refiner'[k].processor, refiner'[k].service)
            <4>1. ASSUME NEW k \in Refiners, k # r, refiner'[k].at = "asking"
                  PROVE  CanAsk(processors', refiner'[k].processor, refiner'[k].service)
                BY <3>1, <3>2, <4>1, CanAskStill
            <4> QED
                BY <3>1, <3>7, <4>1
        <3>9. KeepsFacts' /\ delivered' = delivered
            BY <1>1, <2>9 DEF RefinementInv, KeepsFacts
        <3>10. RefinementInv'
            BY <1>1, <2>7, <2>9, <3>1, <3>2, <3>8, <3>9 DEF RefinementInv
        <3>11. AskedInHope
            <4>1. ASSUME NEW k \in Refiners, refiner[k].at = "planned", refiner'[k].at = "asking"
                  PROVE  k = r
                BY <3>1, <4>1
            <4> QED
                BY <3>1, <3>3, <3>4, <3>5, <4>1 DEF AskedInHope, s
        <3> QED
            BY <3>9, <3>10, <3>11 DEF RefinementStep
    <2> QED
        BY <2>1, <2>6, <2>8, <2>9
<1> QED
    BY <1>3, <1>4

\* The model's text: only a success is recorded.
LEMMA ServiceRefinesSafe ==
    ASSUME RefinementInv, NEW r \in Refiners, ServiceRefines(r)
    PROVE  RefinementInv' /\ RefinementStep
<1> DEFINE p == refiner[r].processor
<1>1. /\ refiner[r].at = "asking" /\ UNCHANGED <<said, terms, llm, kept>>
    BY DEF ServiceRefines
<1>2. PICK result \in Refined[<<said, terms>>] :
          /\ Delivers(r, result.status, result.text, p)
          /\ processors' = IF result.status = "Completed"
                           THEN [processors EXCEPT ![p] = ServiceSucceeded(@)] ELSE processors
    BY DEF ServiceRefines
<1>3. /\ processors \in Seq(Processors) /\ p \in DOMAIN processors
      /\ \A k \in DOMAIN processors : SoundCircuit(processors[k])
      /\ kept \in 0..Len(processors)
    BY <1>1 DEF RefinementInv, CanAsk
<1>4. /\ SameFacts(Cleaned[said], result.text)
      /\ result.status \notin Refusals \cup {"TemporarilyUnavailable"}
    BY RefinedIs DEF RefinementInv
<1> HIDE DEF p
<1>5. processors[p] \in Processors /\ SoundCircuit(processors[p])
    BY <1>3, LenProperties, ElementOfSeq
<1>6. /\ processors' \in Seq(Processors) /\ Len(processors') = Len(processors)
      /\ DOMAIN processors' = DOMAIN processors
      /\ \A k \in DOMAIN processors : /\ SoundCircuit(processors'[k])
                                      /\ processors'[k].service = processors[k].service
                                      /\ processors'[k].configured = processors[k].configured
    <2>1. CASE result.status = "Completed"
        <3> DEFINE q == ServiceSucceeded(processors[p])
        <3>1. q \in Processors /\ SoundCircuit(q) /\ q.service = processors[p].service
              /\ q.configured = processors[p].configured
            BY <1>5, SucceededSound
        <3>2. processors' = [processors EXCEPT ![p] = q]
            BY <1>2, <2>1
        <3> HIDE DEF q
        <3> QED
            BY <1>3, <3>1, <3>2, PutInPlace
    <2>2. CASE result.status # "Completed"
        BY <1>2, <1>3, <2>2
    <2> QED
        BY <2>1, <2>2
<1>7. /\ KeepsFacts' /\ refiner' \in [Refiners -> Planned]
      /\ refiner'[r].at = "idle" /\ delivered'.status = result.status
      /\ \A other \in Refiners : other # r => refiner'[other] = refiner[other]
    BY <1>1, <1>2, <1>4, DeliversFacts
<1>8. RefinementInv'
    <2>1. \A k \in Refiners : refiner'[k].at = "asking" =>
              CanAsk(processors', refiner'[k].processor, refiner'[k].service)
        BY <1>6, <1>7, CanAskStill
    <2> QED
        BY <1>1, <1>3, <1>6, <1>7, <2>1 DEF RefinementInv
<1>9. AskedInHope
    BY <1>7 DEF AskedInHope
<1>10. PassedOverForCause'
    BY <1>4, <1>7 DEF PassedOverForCause
<1> QED
    BY <1>7, <1>8, <1>9, <1>10 DEF RefinementStep

\* An error is recorded, and the transcript delivered as it is.
LEMMA ServiceFailsSafe ==
    ASSUME RefinementInv, NEW r \in Refiners, ServiceFails(r)
    PROVE  RefinementInv' /\ RefinementStep
<1> DEFINE p == refiner[r].processor
<1>1. /\ refiner[r].at = "asking" /\ UNCHANGED <<said, terms, llm, kept>>
    BY DEF ServiceFails
<1>2. PICK error \in ErrorsOf[refiner[r].service.profile] :
          /\ Delivers(r, error, Cleaned[said], p)
          /\ processors' = [processors EXCEPT ![p] = ServiceFailed(@, error)]
    BY DEF ServiceFails
<1>3. /\ processors \in Seq(Processors) /\ p \in DOMAIN processors
      /\ \A k \in DOMAIN processors : SoundCircuit(processors[k])
      /\ kept \in 0..Len(processors) /\ refiner[r].service \in Services
    BY <1>1 DEF RefinementInv, CanAsk
<1>4. error \in Errors
    BY <1>2, <1>3, ErrorIs
<1> HIDE DEF p
<1>5. processors[p] \in Processors /\ SoundCircuit(processors[p])
    BY <1>3, LenProperties, ElementOfSeq
<1> DEFINE q == ServiceFailed(processors[p], error)
<1>6. /\ q \in Processors /\ SoundCircuit(q) /\ q.service = processors[p].service
      /\ q.configured = processors[p].configured
      /\ error \in Refusals => Told(q.outcomes, error) # {}
    BY <1>4, <1>5, FailedSound
<1>7. processors' = [processors EXCEPT ![p] = q]
    BY <1>2
<1> HIDE DEF q
<1>8. /\ processors' \in Seq(Processors) /\ Len(processors') = Len(processors)
      /\ DOMAIN processors' = DOMAIN processors
      /\ processors'[p] = q
      /\ \A k \in DOMAIN processors : /\ SoundCircuit(processors'[k])
                                      /\ processors'[k].service = processors[k].service
                                      /\ processors'[k].configured = processors[k].configured
    BY <1>3, <1>6, <1>7, PutInPlace
<1>9. error # "TemporarilyUnavailable"
    BY <1>4 DEF Errors, Refusals
<1>10. error \in Refusals => Told(processors'[p].outcomes, error) # {}
    BY <1>6, <1>8
<1>11. kept' \in 0..Len(processors')
    BY <1>1, <1>3, <1>8
<1> QED
    BY <1>1, <1>2, <1>8, <1>9, <1>10, <1>11, DeliversUnrefined

LEMMA RefinementStands ==
    ASSUME RefinementInv, UNCHANGED refinementVars
    PROVE  RefinementInv'
BY DEF refinementVars, RefinementInv, KeepsFacts, CanAsk

LEMMA RefinementInvNext ==
    ASSUME RefinementInv, RefinementNext
    PROVE  RefinementInv' /\ RefinementStep
<1>1. CASE ChangeService
    BY <1>1, ChangeServiceSafe
<1>2. CASE PauseRunsOut
    BY <1>2, PauseRunsOutSafe
<1>3. ASSUME NEW r \in Refiners, MakePlan(r)
      PROVE  RefinementInv' /\ RefinementStep
    BY <1>3, MakePlanSafe
<1>4. ASSUME NEW r \in Refiners, Execute(r)
      PROVE  RefinementInv' /\ RefinementStep
    BY <1>4, ExecuteSafe
<1>5. ASSUME NEW r \in Refiners, ServiceRefines(r)
      PROVE  RefinementInv' /\ RefinementStep
    BY <1>5, ServiceRefinesSafe
<1>6. ASSUME NEW r \in Refiners, ServiceFails(r)
      PROVE  RefinementInv' /\ RefinementStep
    BY <1>6, ServiceFailsSafe
<1> QED
    BY <1>1, <1>2, <1>3, <1>4, <1>5, <1>6 DEF RefinementNext

\* The circuit of every processor stands for what its service was told of
\* these settings alone: this is what the two theorems after it rest on.
THEOREM RefinementAlways == RefinementSpec => []RefinementInv
<1>1. RefinementInit => RefinementInv
    BY RefinementInvInit
<1>2. RefinementInv /\ [RefinementNext]_refinementVars => RefinementInv'
    BY RefinementInvNext, RefinementStands
<1> QED
    BY <1>1, <1>2, PTL DEF RefinementSpec

\* A thread that waits for an answer waits for a processor that is there and
\* could be asked, and so does the cache, whatever the settings became since
\* (execute and processor_for).
THEOREM RefinementTypeCorrect == RefinementSpec => []RefinementTypeOK
<1>1. RefinementInv => RefinementTypeOK
    <2> SUFFICES ASSUME RefinementInv
                 PROVE  RefinementTypeOK
        OBVIOUS
    <2>1. \A p \in DOMAIN processors :
              /\ processors[p] \in Processors /\ SoundCircuit(processors[p])
        BY LenProperties, ElementOfSeq DEF RefinementInv
    <2>2. \A p \in DOMAIN processors :
              /\ processors[p].configured = Usable(processors[p].service)
              /\ processors[p].availability \in Availabilities
        BY <2>1 DEF SoundCircuit, Processors
    <2> QED
        BY <2>2 DEF RefinementInv, RefinementTypeOK, CanAsk, Availabilities
<1> QED
    BY <1>1, RefinementAlways, PTL

\* Whatever the model answers and however the refinements of two dictations
\* and changes of the settings overlap, a text that is delivered keeps the
\* technical fragments and the numbers of what was said (validate_refinement),
\* and a service is passed over, or asked again, exactly for what it did with
\* these settings since its last success or pause (ProviderCircuit).
THEOREM RefinesSafelyCorrect == RefinementSpec => RefinesSafely
<1>1. RefinementInv /\ [RefinementNext]_refinementVars => [RefinementStep]_refinementVars
    BY RefinementInvNext
<1> QED
    BY <1>1, RefinementAlways, PTL DEF RefinementSpec, RefinesSafely

(***************************************************************************)
(* What is learned of the revision of a text.                              *)
(***************************************************************************)
-----------------------------------------------------------------------------
(* Positions in a text.                                                    *)

Text == Seq(Characters)

\* A non-empty set of natural numbers has a least element.
LEMMA LeastPosition ==
    ASSUME NEW T, T \subseteq Nat, T # {}
    PROVE  \E m \in T : \A n \in T : m <= n
<1> DEFINE R == OpToRel(<, Nat)
<1>1. IsWellFoundedOn(R, Nat)
    BY NatLessThanWellFounded
<1>2. \A x, y \in Nat : x < y => <<x, y>> \in R
    BY DEF OpToRel
<1> HIDE DEF R
<1>3. \E x \in T : \A y \in T : ~(<<y, x>> \in R)
    BY <1>1, WFMin
<1>4. PICK m \in T : \A y \in T : ~(<<y, m>> \in R)
    BY <1>3
<1>5. \A n \in T : m <= n
    <2> TAKE n \in T
    <2>1. m \in Nat /\ n \in Nat
        OBVIOUS
    <2>2. ~(n < m)
        BY <1>2, <1>4, <2>1
    <2> QED
        BY <2>1, <2>2
<1> QED
    BY <1>5

\* And one that is bounded has a greatest.
LEMMA GreatestPosition ==
    ASSUME NEW T, NEW n \in Nat, T \subseteq 0..n, T # {}
    PROVE  \E m \in T : \A k \in T : m >= k
<1> DEFINE U == {n - k : k \in T}
<1>1. U \subseteq Nat /\ U # {}
    <2>1. \A k \in T : k \in Nat /\ n - k \in Nat
        OBVIOUS
    <2> QED
        BY <2>1
<1> HIDE DEF U
<1>2. PICK u \in U : \A v \in U : u <= v
    BY <1>1, LeastPosition
<1> USE DEF U
<1>3. PICK m \in T : u = n - m
    OBVIOUS
<1>4. \A k \in T : m >= k
    <2> TAKE k \in T
    <2>1. n - k \in U
        OBVIOUS
    <2>2. n - m <= n - k
        BY <1>2, <1>3, <2>1
    <2> QED
        BY <2>2
<1> QED
    BY <1>4

\* A part of a text: its length and its characters.
LEMMA PartIs ==
    ASSUME NEW text \in Text, NEW j \in DOMAIN text, NEW k \in DOMAIN text, j <= k
    PROVE  /\ SubSeq(text, j, k) \in Text
           /\ Len(SubSeq(text, j, k)) = k - j + 1
           /\ DOMAIN SubSeq(text, j, k) = 1..(k - j + 1)
           /\ \A i \in 1..(k - j + 1) : SubSeq(text, j, k)[i] = text[j + i - 1]
    BY DEF Text

\* A stretch runs from the first of its positions to the last.
LEMMA StretchIs ==
    ASSUME NEW text \in Text, NEW positions \in SUBSET DOMAIN text
    PROVE  \/ positions = {} /\ Stretch(text, positions) = <<>>
           \/ \E j, k \in positions :
                 /\ \A i \in positions : j <= i /\ i <= k
                 /\ Stretch(text, positions) = SubSeq(text, j, k)
<1>1. CASE positions = {}
    BY <1>1 DEF Stretch
<1>2. CASE positions # {}
    <2>1. positions \subseteq 0..Len(text) /\ Len(text) \in Nat /\ positions \subseteq Nat
        BY DEF Text
    <2>2. \E m \in positions : \A n \in positions : m <= n
        BY <1>2, <2>1, LeastPosition
    <2>3. \E m \in positions : \A n \in positions : m >= n
        BY <1>2, <2>1, GreatestPosition
    <2> DEFINE j == CHOOSE k \in positions : \A i \in positions : k <= i
               k == CHOOSE k \in positions : \A i \in positions : k >= i
    <2>4. j \in positions /\ \A i \in positions : j <= i
        BY <2>2
    <2>5. k \in positions /\ \A i \in positions : k >= i
        BY <2>3
    <2>6. Stretch(text, positions) = SubSeq(text, j, k)
        BY <1>2 DEF Stretch
    <2> HIDE DEF j, k
    <2>7. \A i \in positions : j <= i /\ i <= k
        BY <2>1, <2>4, <2>5
    <2> QED
        BY <2>4, <2>5, <2>6, <2>7
<1> QED
    BY <1>1, <1>2

\* A text without its blanks at the ends.
LEMMA TrimmedIs ==
    ASSUME NEW text \in Text
    PROVE  \/ (\A i \in DOMAIN text : text[i] = " ") /\ Trimmed(text) = <<>>
           \/ \E j, k \in DOMAIN text :
                 /\ j <= k /\ text[j] # " " /\ text[k] # " "
                 /\ \A i \in DOMAIN text : text[i] # " " => j <= i /\ i <= k
                 /\ Trimmed(text) = SubSeq(text, j, k)
<1> DEFINE solid == {k \in DOMAIN text : ~Blank(text[k])}
<1>1. solid \in SUBSET DOMAIN text
    OBVIOUS
<1>2. Trimmed(text) = Stretch(text, solid)
    BY DEF Trimmed
<1>3. \A i \in DOMAIN text : text[i] # " " <=> i \in solid
    BY DEF Blank
<1> HIDE DEF solid
<1>4. \/ solid = {} /\ Trimmed(text) = <<>>
      \/ \E j, k \in solid :
            /\ \A i \in solid : j <= i /\ i <= k
            /\ Trimmed(text) = SubSeq(text, j, k)
    BY <1>1, <1>2, StretchIs
<1>5. CASE solid = {} /\ Trimmed(text) = <<>>
    BY <1>3, <1>5
<1>6. ASSUME NEW j \in solid, NEW k \in solid,
             \A i \in solid : j <= i /\ i <= k, Trimmed(text) = SubSeq(text, j, k)
      PROVE  \E m, n \in DOMAIN text :
                 /\ m <= n /\ text[m] # " " /\ text[n] # " "
                 /\ \A i \in DOMAIN text : text[i] # " " => m <= i /\ i <= n
                 /\ Trimmed(text) = SubSeq(text, m, n)
    BY <1>1, <1>3, <1>6
<1> QED
    BY <1>4, <1>5, <1>6

\* What a text is compared by.
LEMMA FoldedIs ==
    ASSUME NEW c \in Characters
    PROVE  Folded(c) \in Characters
    BY DEF Folded, Characters

LEMMA TrimmedText ==
    ASSUME NEW text \in Text
    PROVE  Trimmed(text) \in Text
<1>1. <<>> \in Text
    BY DEF Text
<1>2. \A j, k \in DOMAIN text : j <= k => SubSeq(text, j, k) \in Text
    BY PartIs
<1> QED
    BY <1>1, <1>2, TrimmedIs

LEMMA KeyOfTrimmed ==
    ASSUME NEW text \in Text
    PROVE  /\ Key(text) \in Text
           /\ Len(Key(text)) = Len(Trimmed(text))
           /\ DOMAIN Key(text) = DOMAIN Trimmed(text)
           /\ \A i \in DOMAIN Trimmed(text) : Key(text)[i] = Folded(Trimmed(text)[i])
<1> DEFINE t == Trimmed(text)
<1>1. t \in Text
    BY TrimmedText
<1>2. Key(text) = [i \in DOMAIN t |-> Folded(t[i])]
    BY DEF Key
<1> HIDE DEF t
<1>3. DOMAIN t = 1..Len(t) /\ Len(t) \in Nat /\ \A i \in DOMAIN t : t[i] \in Characters
    BY <1>1 DEF Text
<1>4. \A i \in DOMAIN t : Folded(t[i]) \in Characters
    BY <1>3, FoldedIs
<1>5. Key(text) \in Text /\ Len(Key(text)) = Len(t) /\ DOMAIN Key(text) = DOMAIN t
    BY <1>2, <1>3, <1>4 DEF Text
<1>6. \A i \in DOMAIN t : Key(text)[i] = Folded(t[i])
    BY <1>2
<1> QED
    BY <1>5, <1>6 DEF t

\* The key of a text that is not blank: its characters from the first that is
\* none to the last.
LEMMA KeyIs ==
    ASSUME NEW text \in Text
    PROVE  \/ (\A i \in DOMAIN text : text[i] = " ") /\ Key(text) = <<>>
           \/ \E j, k \in DOMAIN text :
                 /\ j <= k /\ text[j] # " " /\ text[k] # " "
                 /\ \A i \in DOMAIN text : text[i] # " " => j <= i /\ i <= k
                 /\ Len(Key(text)) = k - j + 1 /\ DOMAIN Key(text) = 1..(k - j + 1)
                 /\ \A i \in 1..(k - j + 1) : Key(text)[i] = Folded(text[j + i - 1])
<1>1. /\ Key(text) \in Text
      /\ Len(Key(text)) = Len(Trimmed(text))
      /\ DOMAIN Key(text) = DOMAIN Trimmed(text)
      /\ \A i \in DOMAIN Trimmed(text) : Key(text)[i] = Folded(Trimmed(text)[i])
    BY KeyOfTrimmed
<1>2. CASE (\A i \in DOMAIN text : text[i] = " ") /\ Trimmed(text) = <<>>
    <2>1. Len(Key(text)) = 0
        BY <1>1, <1>2
    <2>2. Key(text) = <<>>
        BY <1>1, <2>1 DEF Text
    <2> QED
        BY <1>2, <2>2
<1>3. ASSUME NEW j \in DOMAIN text, NEW k \in DOMAIN text,
             j <= k, text[j] # " ", text[k] # " ",
             \A i \in DOMAIN text : text[i] # " " => j <= i /\ i <= k,
             Trimmed(text) = SubSeq(text, j, k)
      PROVE  /\ Len(Key(text)) = k - j + 1 /\ DOMAIN Key(text) = 1..(k - j + 1)
             /\ \A i \in 1..(k - j + 1) : Key(text)[i] = Folded(text[j + i - 1])
    <2>1. /\ Len(SubSeq(text, j, k)) = k - j + 1
          /\ DOMAIN SubSeq(text, j, k) = 1..(k - j + 1)
          /\ \A i \in 1..(k - j + 1) : SubSeq(text, j, k)[i] = text[j + i - 1]
        BY <1>3, PartIs
    <2> QED
        BY <1>1, <1>3, <2>1
<1> QED
    BY <1>2, <1>3, TrimmedIs

-----------------------------------------------------------------------------
(* What occurs in a text.                                                  *)

LEMMA NothingOccurs ==
    ASSUME NEW text \in Text
    PROVE  OccursIn(<<>>, text)
<1>1. 0 \in 0..(Len(text) - Len(<<>>)) /\ \A i \in DOMAIN <<>> : <<>>[i] = text[0 + i]
    BY DEF Text
<1> QED
    BY <1>1 DEF OccursIn

LEMMA OccursWithin ==
    ASSUME NEW a \in Text, NEW c \in Text, NEW d \in Text, OccursIn(a, c), OccursIn(c, d)
    PROVE  OccursIn(a, d)
<1>1. PICK m \in 0..(Len(c) - Len(a)) : \A i \in DOMAIN a : a[i] = c[m + i]
    BY DEF OccursIn
<1>2. PICK n \in 0..(Len(d) - Len(c)) : \A i \in DOMAIN c : c[i] = d[n + i]
    BY DEF OccursIn
<1>3. /\ Len(a) \in Nat /\ Len(c) \in Nat /\ Len(d) \in Nat
      /\ DOMAIN a = 1..Len(a) /\ DOMAIN c = 1..Len(c)
    BY DEF Text
<1>4. n + m \in 0..(Len(d) - Len(a))
    BY <1>3
<1>5. \A i \in DOMAIN a : a[i] = d[(n + m) + i]
    <2> TAKE i \in DOMAIN a
    <2>1. m + i \in DOMAIN c /\ n + (m + i) = (n + m) + i
        BY <1>3
    <2> QED
        BY <1>1, <1>2, <2>1
<1> QED
    BY <1>4, <1>5 DEF OccursIn

LEMMA PartOccurs ==
    ASSUME NEW text \in Text, NEW m \in DOMAIN text, NEW n \in DOMAIN text,
           NEW j \in m..n, NEW k \in j..n
    PROVE  OccursIn(SubSeq(text, j, k), SubSeq(text, m, n))
<1>0. /\ Len(text) \in Nat /\ DOMAIN text = 1..Len(text) /\ m <= n /\ j <= k
      /\ j \in DOMAIN text /\ k \in DOMAIN text
      /\ m \in Nat /\ n \in Nat /\ j \in Nat /\ k \in Nat
    BY DEF Text
<1>1. /\ Len(SubSeq(text, j, k)) = k - j + 1
      /\ DOMAIN SubSeq(text, j, k) = 1..(k - j + 1)
      /\ \A i \in 1..(k - j + 1) : SubSeq(text, j, k)[i] = text[j + i - 1]
    BY <1>0, PartIs
<1>2. /\ Len(SubSeq(text, m, n)) = n - m + 1
      /\ \A i \in 1..(n - m + 1) : SubSeq(text, m, n)[i] = text[m + i - 1]
    BY <1>0, PartIs
<1>3. j - m \in 0..((n - m + 1) - (k - j + 1))
    BY <1>0
<1>4. \A i \in 1..(k - j + 1) :
         SubSeq(text, j, k)[i] = SubSeq(text, m, n)[(j - m) + i]
    <2> TAKE i \in 1..(k - j + 1)
    <2>1. (j - m) + i \in 1..(n - m + 1) /\ m + ((j - m) + i) - 1 = j + i - 1
        BY <1>0
    <2> QED
        BY <1>1, <1>2, <2>1
<1> QED
    BY <1>1, <1>2, <1>3, <1>4 DEF OccursIn

\* Where a character of a part is in the text.
ShiftsInto(m, j, k, p, q) ==
    \A i \in 1..(k - j + 1) :
        /\ ((m + j - 1) - p) + i \in 1..(q - p + 1)
        /\ p + (((m + j - 1) - p) + i) - 1 = m + (j + i - 1) - 1

LEMMA Shifted ==
    ASSUME NEW m \in Nat, NEW n \in Nat, NEW j \in Nat, NEW k \in Nat, NEW p \in Nat,
           NEW q \in Nat, j <= k, p <= m + j - 1, m + k - 1 <= q
    PROVE  /\ (m + j - 1) - p \in 0..((q - p + 1) - (k - j + 1))
           /\ ShiftsInto(m, j, k, p, q)
    BY DEF ShiftsInto

\* The key of a part occurs in the key of the text.
LEMMA KeyOfPartOccurs ==
    ASSUME NEW text \in Text, NEW m \in DOMAIN text, NEW n \in DOMAIN text, m <= n
    PROVE  OccursIn(Key(SubSeq(text, m, n)), Key(text))
<1> DEFINE part == SubSeq(text, m, n)
<1>0. /\ Len(text) \in Nat /\ DOMAIN text = 1..Len(text)
      /\ m \in Nat /\ n \in Nat
    BY DEF Text
<1>1. /\ part \in Text /\ DOMAIN part = 1..(n - m + 1)
      /\ \A i \in 1..(n - m + 1) : part[i] = text[m + i - 1]
    BY PartIs
<1>2. Key(text) \in Text /\ Key(part) \in Text
    BY <1>1, KeyOfTrimmed
<1> HIDE DEF part
<1>3. CASE Key(part) = <<>>
    BY <1>2, <1>3, NothingOccurs DEF part
<1>4. ASSUME NEW j \in DOMAIN part, NEW k \in DOMAIN part,
             j <= k, part[j] # " ", part[k] # " ",
             Len(Key(part)) = k - j + 1, DOMAIN Key(part) = 1..(k - j + 1),
             \A i \in 1..(k - j + 1) : Key(part)[i] = Folded(part[j + i - 1])
      PROVE  OccursIn(Key(part), Key(text))
    <2>1. /\ j \in 1..(n - m + 1) /\ k \in 1..(n - m + 1)
          /\ j \in Nat /\ k \in Nat
        BY <1>0, <1>1
    <2>2. /\ m + j - 1 \in DOMAIN text /\ m + k - 1 \in DOMAIN text
          /\ text[m + j - 1] # " " /\ text[m + k - 1] # " "
        <3>1. m + j - 1 \in 1..Len(text) /\ m + k - 1 \in 1..Len(text)
            BY <1>0, <2>1
        <3>2. part[j] = text[m + j - 1] /\ part[k] = text[m + k - 1]
            BY <1>1, <2>1
        <3> QED
            BY <1>0, <1>4, <3>1, <3>2
    <2>3. PICK p, q \in DOMAIN text :
                 /\ p <= q
                 /\ \A i \in DOMAIN text : text[i] # " " => p <= i /\ i <= q
                 /\ Len(Key(text)) = q - p + 1
                 /\ \A i \in 1..(q - p + 1) : Key(text)[i] = Folded(text[p + i - 1])
        BY <2>2, KeyIs
    <2>4. p <= m + j - 1 /\ m + k - 1 <= q /\ p \in Nat /\ q \in Nat
        <3>1. p \in 1..Len(text) /\ q \in 1..Len(text)
            BY <1>0
        <3>2. p \in Nat /\ q \in Nat
            BY <1>0, <3>1
        <3>3. p <= m + j - 1 /\ m + k - 1 <= q
            BY <2>2, <2>3
        <3> QED
            BY <3>2, <3>3
    <2>5. (m + j - 1) - p \in 0..((q - p + 1) - (k - j + 1))
        BY <1>0, <1>4, <2>1, <2>4, Shifted
    <2>0. ShiftsInto(m, j, k, p, q)
        BY <1>0, <1>4, <2>1, <2>4, Shifted
    <2>6. \A i \in 1..(k - j + 1) : Key(part)[i] = Key(text)[((m + j - 1) - p) + i]
        <3> TAKE i \in 1..(k - j + 1)
        <3>1. j + i - 1 \in 1..(n - m + 1) /\ i \in Nat
            BY <1>0, <2>1
        <3>2. Key(part)[i] = Folded(text[m + (j + i - 1) - 1])
            BY <1>1, <1>4, <3>1
        <3>3. ((m + j - 1) - p) + i \in 1..(q - p + 1)
            BY <2>0 DEF ShiftsInto
        <3>4. p + (((m + j - 1) - p) + i) - 1 = m + (j + i - 1) - 1
            BY <2>0 DEF ShiftsInto
        <3>5. Key(text)[((m + j - 1) - p) + i] = Folded(text[m + (j + i - 1) - 1])
            BY <2>3, <3>3, <3>4
        <3> QED
            BY <3>2, <3>5
    <2> QED
        BY <1>4, <2>3, <2>5, <2>6 DEF OccursIn
<1>5. \/ Key(part) = <<>>
      \/ \E j, k \in DOMAIN part :
             /\ j <= k /\ part[j] # " " /\ part[k] # " "
             /\ Len(Key(part)) = k - j + 1 /\ DOMAIN Key(part) = 1..(k - j + 1)
             /\ \A i \in 1..(k - j + 1) : Key(part)[i] = Folded(part[j + i - 1])
    BY <1>1, KeyIs
<1> QED
    BY <1>3, <1>4, <1>5 DEF part

\* Blanks at the ends do not matter.
LEMMA KeyOfTrimmedIs ==
    ASSUME NEW text \in Text
    PROVE  Trimmed(Trimmed(text)) = Trimmed(text) /\ Key(Trimmed(text)) = Key(text)
<1>1. Trimmed(Trimmed(text)) = Trimmed(text)
    <2>1. CASE Trimmed(text) = <<>>
        <3>1. <<>> \in Text /\ DOMAIN <<>> = {}
            BY DEF Text
        <3>2. Trimmed(<<>>) = <<>>
            BY <3>1, TrimmedIs
        <3> QED
            BY <2>1, <3>2
    <2>2. ASSUME NEW j \in DOMAIN text, NEW k \in DOMAIN text,
                 j <= k, text[j] # " ", text[k] # " ",
                 Trimmed(text) = SubSeq(text, j, k)
          PROVE  Trimmed(Trimmed(text)) = Trimmed(text)
        <3> DEFINE t == Trimmed(text)
        <3>0. j \in Nat /\ k \in Nat
            BY DEF Text
        <3>1. /\ t \in Text /\ Len(t) = k - j + 1 /\ DOMAIN t = 1..(k - j + 1)
              /\ \A i \in 1..(k - j + 1) : t[i] = text[j + i - 1]
            BY <2>2, PartIs
        <3> HIDE DEF t
        <3>2. 1 \in DOMAIN t /\ Len(t) \in DOMAIN t /\ t[1] # " " /\ t[Len(t)] # " "
            <4>1. 1 \in 1..(k - j + 1) /\ k - j + 1 \in 1..(k - j + 1)
                <5>1. \A x, y \in Nat : x <= y =>
                         1 \in 1..(y - x + 1) /\ y - x + 1 \in 1..(y - x + 1)
                    OBVIOUS
                <5> QED
                    BY <2>2, <3>0, <5>1
            <4>2. j + 1 - 1 = j /\ j + (k - j + 1) - 1 = k
                BY <3>0
            <4>3. t[1] = text[j] /\ t[k - j + 1] = text[k]
                BY <3>1, <4>1, <4>2
            <4> QED
                BY <2>2, <3>1, <4>1, <4>3
        <3>3. PICK m, n \in DOMAIN t :
                 /\ \A i \in DOMAIN t : t[i] # " " => m <= i /\ i <= n
                 /\ Trimmed(t) = SubSeq(t, m, n)
            BY <3>1, <3>2, TrimmedIs
        <3>4. m = 1 /\ n = Len(t)
            <4>1. m <= 1 /\ Len(t) <= n
                BY <3>2, <3>3
            <4>2. m \in 1..Len(t) /\ n \in 1..Len(t) /\ Len(t) \in Nat
                <5>1. Len(t) \in Nat /\ DOMAIN t = 1..Len(t)
                    BY <3>1 DEF Text
                <5> QED
                    BY <5>1
            <4> QED
                BY <4>1, <4>2
        <3>5. SubSeq(t, 1, Len(t)) = t
            BY <3>1 DEF Text
        <3> QED
            BY <3>3, <3>4, <3>5 DEF t
    <2> QED
        BY <2>1, <2>2, TrimmedIs
<1> QED
    BY <1>1 DEF Key

-----------------------------------------------------------------------------
(* What a revision suggests.                                               *)

InText(review, text) ==
    /\ review.term \in Text
    /\ review.decision \in {"accept", "reject"}
    /\ review.confidence \in 0..100
    /\ OccursIn(Key(review.term), Key(text))
    /\ review.decision = "accept" => Len(review.term) >= 2

TermsDiffer(reviews) == \A r, q \in reviews : Key(r.term) = Key(q.term) => r = q

ReviewsOK(reviews, text) ==
    TermsDiffer(reviews) /\ \A review \in reviews : InText(review, text)

\* Of the reviews of one term one stands.
LEMMA OneStands ==
    ASSUME NEW reviews, DOMAIN reviews \subseteq Nat,
           \A k \in DOMAIN reviews : reviews[k].confidence \in Nat,
           NEW j \in DOMAIN reviews, NEW k \in DOMAIN reviews,
           Stands(reviews, j), Stands(reviews, k),
           Key(reviews[j].term) = Key(reviews[k].term)
    PROVE  j = k
<1> SUFFICES ASSUME j # k
             PROVE  FALSE
    OBVIOUS
<1>1. \/ reviews[j].confidence < reviews[k].confidence
      \/ reviews[j].confidence = reviews[k].confidence /\ k < j
    BY DEF Stands
<1>2. \/ reviews[k].confidence < reviews[j].confidence
      \/ reviews[k].confidence = reviews[j].confidence /\ j < k
    BY DEF Stands
<1>3. /\ j \in Nat /\ k \in Nat
      /\ reviews[j].confidence \in Nat /\ reviews[k].confidence \in Nat
    OBVIOUS
<1> QED
    BY <1>1, <1>2, <1>3

LEMMA DeduplicatedOK ==
    ASSUME NEW reviews, NEW text, DOMAIN reviews \subseteq Nat,
           \A k \in DOMAIN reviews : InText(reviews[k], text)
    PROVE  ReviewsOK(Deduplicated(reviews), text)
<1>1. \A k \in DOMAIN reviews : reviews[k].confidence \in Nat
    <2>1. 0..100 \subseteq Nat
        OBVIOUS
    <2> QED
        BY <2>1 DEF InText
<1>2. TermsDiffer(Deduplicated(reviews))
    <2> SUFFICES ASSUME NEW r \in Deduplicated(reviews), NEW q \in Deduplicated(reviews),
                        Key(r.term) = Key(q.term)
                 PROVE  r = q
        BY DEF TermsDiffer
    <2>1. PICK j \in DOMAIN reviews : Stands(reviews, j) /\ r = reviews[j]
        BY DEF Deduplicated
    <2>2. PICK k \in DOMAIN reviews : Stands(reviews, k) /\ q = reviews[k]
        BY DEF Deduplicated
    <2>3. j = k
        BY <1>1, <2>1, <2>2, OneStands
    <2> QED
        BY <2>1, <2>2, <2>3
<1>3. \A review \in Deduplicated(reviews) : InText(review, text)
    BY DEF Deduplicated
<1> QED
    BY <1>2, <1>3 DEF ReviewsOK

\* A candidate is a part of the text.
RunStarts(new, range, j) ==
    j \in 1..range[1] /\ \A i \in j..(range[1] - 1) : TermCharacter(new[i])
RunEnds(new, range, k) ==
    k \in range[2]..Len(new) /\ \A i \in (range[2] + 1)..k : TermCharacter(new[i])

LEMMA FirstOfRun ==
    ASSUME NEW new \in Text, NEW range, range[1] \in DOMAIN new
    PROVE  \E j \in 1..range[1] :
               /\ \A i \in j..(range[1] - 1) : TermCharacter(new[i])
               /\ j = 1 \/ ~TermCharacter(new[j - 1])
<1> DEFINE r == range[1]
           starts == {j \in 1..r : RunStarts(new, range, j)}
<1>0. r \in Nat \ {0}
    BY DEF Text
<1>1. \A j : j \in starts <=> j \in 1..r /\ \A i \in j..(r - 1) : TermCharacter(new[i])
    BY DEF RunStarts
<1> HIDE DEF r, starts
<1>2. r \in starts
    BY <1>0, <1>1
<1>3. PICK m \in starts : \A n \in starts : m <= n
    <2>1. starts \subseteq Nat
        BY <1>0, <1>1
    <2> QED
        BY <1>2, <2>1, LeastPosition
<1>4. m \in 1..r
    BY <1>1
<1>5. ASSUME m # 1, TermCharacter(new[m - 1])
      PROVE  FALSE
    <2>1. m - 1 \in 1..r /\ ~(m <= m - 1)
        BY <1>0, <1>4, <1>5
    <2>2. \A i \in (m - 1)..(r - 1) : i = m - 1 \/ i \in m..(r - 1)
        BY <1>0, <1>4
    <2>3. m - 1 \in starts
        BY <1>1, <1>5, <2>1, <2>2
    <2> QED
        BY <1>3, <2>1, <2>3
<1> QED
    BY <1>1, <1>4, <1>5 DEF r

LEMMA LastOfRun ==
    ASSUME NEW new \in Text, NEW range, range[2] \in DOMAIN new
    PROVE  \E k \in range[2]..Len(new) :
               /\ \A i \in (range[2] + 1)..k : TermCharacter(new[i])
               /\ k = Len(new) \/ ~TermCharacter(new[k + 1])
<1> DEFINE r == range[2]
           length == Len(new)
           ends == {k \in r..length : RunEnds(new, range, k)}
<1>0. r \in Nat /\ length \in Nat /\ r <= length
    BY DEF Text
<1>1. \A k : k \in ends <=> k \in r..length /\ \A i \in (r + 1)..k : TermCharacter(new[i])
    BY DEF RunEnds
<1> HIDE DEF r, ends, length
<1>2. r \in ends
    BY <1>0, <1>1
<1>3. PICK m \in ends : \A n \in ends : m >= n
    <2>1. ends \subseteq 0..length
        BY <1>0, <1>1
    <2> QED
        BY <1>0, <1>2, <2>1, GreatestPosition
<1>4. m \in r..length
    BY <1>1
<1>5. ASSUME m # length, TermCharacter(new[m + 1])
      PROVE  FALSE
    <2>1. m + 1 \in r..length /\ ~(m >= m + 1)
        BY <1>0, <1>4, <1>5
    <2>2. \A i \in (r + 1)..(m + 1) : i = m + 1 \/ i \in (r + 1)..m
        BY <1>0, <1>4
    <2>3. m + 1 \in ends
        BY <1>1, <1>5, <2>1, <2>2
    <2> QED
        BY <1>3, <2>1, <2>3
<1> QED
    BY <1>1, <1>4, <1>5 DEF r, length

LEMMA CandidateIs ==
    ASSUME NEW new \in Text, NEW range, range[1] \in DOMAIN new, range[2] \in DOMAIN new,
           range[1] <= range[2]
    PROVE  \/ AsciiCandidate(new, range) = <<>>
           \/ \E m, n \in DOMAIN new : m <= n /\ AsciiCandidate(new, range) = SubSeq(new, m, n)
<1> DEFINE first == CHOOSE j \in 1..range[1] :
                      /\ \A i \in j..(range[1] - 1) : TermCharacter(new[i])
                      /\ j = 1 \/ ~TermCharacter(new[j - 1])
           last == CHOOSE k \in range[2]..Len(new) :
                      /\ \A i \in (range[2] + 1)..k : TermCharacter(new[i])
                      /\ k = Len(new) \/ ~TermCharacter(new[k + 1])
<1>1. first \in 1..range[1]
    BY FirstOfRun
<1>2. last \in range[2]..Len(new)
    BY LastOfRun
<1>3. AsciiCandidate(new, range) \in {<<>>, SubSeq(new, first, last)}
    BY DEF AsciiCandidate
<1> HIDE DEF first, last
<1>4. /\ DOMAIN new = 1..Len(new) /\ Len(new) \in Nat
      /\ range[1] \in 1..Len(new) /\ range[2] \in 1..Len(new)
    BY DEF Text
<1>5. first \in DOMAIN new /\ last \in DOMAIN new /\ first <= last
    BY <1>1, <1>2, <1>4
<1> QED
    BY <1>3, <1>5

\* The usual spelling has the same key.
LEMMA ConventionalKey ==
    ASSUME NEW term \in Text
    PROVE  Conventional(term) \in Text /\ Key(Conventional(term)) = Key(term)
<1> DEFINE AI == <<"A", "I">>
<1>1. AI \in Text /\ DOMAIN AI = 1..2 /\ AI[1] = "A" /\ AI[2] = "I"
    <2>1. "A" \in Characters /\ "I" \in Characters
        BY DEF Characters
    <2>2. AI \in Seq(Characters) /\ Len(AI) = 2
        BY <2>1
    <2> QED
        BY <2>2 DEF Text
<1> HIDE DEF AI
<1>6. 1 \in DOMAIN AI /\ 2 \in DOMAIN AI /\ AI[1] # " " /\ AI[2] # " "
    BY <1>1
<1>2. PICK j, k \in DOMAIN AI :
          /\ \A i \in DOMAIN AI : AI[i] # " " => j <= i /\ i <= k
          /\ Len(Key(AI)) = k - j + 1
          /\ \A i \in 1..(k - j + 1) : Key(AI)[i] = Folded(AI[j + i - 1])
    BY <1>1, <1>6, KeyIs
<1>3. j = 1 /\ k = 2
    <2>1. j <= 1 /\ 2 <= k
        BY <1>2, <1>6
    <2>2. j \in 1..2 /\ k \in 1..2
        BY <1>1
    <2> QED
        BY <2>1, <2>2
<1>4. Len(Key(AI)) = 2 /\ Key(AI)[1] = "a" /\ Key(AI)[2] = "i"
    BY <1>1, <1>2, <1>3 DEF Folded
<1>5. Key(AI) = <<"a", "i">>
    <2>1. Key(AI) \in Text
        BY <1>1, KeyOfTrimmed
    <2> QED
        BY <1>4, <2>1 DEF Text
<1> QED
    BY <1>1, <1>5 DEF Conventional, AI

LEMMA SpellingOccurs ==
    ASSUME NEW candidate \in Text
    PROVE  /\ Spelling(candidate) \in Text
           /\ OccursIn(Key(Spelling(candidate)), Key(candidate))
<1> DEFINE letters == {k \in DOMAIN candidate : Alphanumeric(candidate[k])}
           part == Stretch(candidate, letters)
<1>1. Key(candidate) \in Text
    BY KeyOfTrimmed
<1>2. OccursIn(Key(candidate), Key(candidate))
    <2>1. /\ Len(Key(candidate)) - Len(Key(candidate)) = 0
          /\ \A i \in DOMAIN Key(candidate) : 0 + i = i
        BY <1>1 DEF Text
    <2>2. \A i \in DOMAIN Key(candidate) : Key(candidate)[i] = Key(candidate)[0 + i]
        BY <2>1
    <2>3. 0 \in 0..(Len(Key(candidate)) - Len(Key(candidate)))
        BY <2>1
    <2> QED
        BY <2>2, <2>3 DEF OccursIn
<1>3. letters # {} => part \in Text /\ OccursIn(Key(part), Key(candidate))
    <2> SUFFICES ASSUME letters # {}
                 PROVE  part \in Text /\ OccursIn(Key(part), Key(candidate))
        OBVIOUS
    <2>1. letters \in SUBSET DOMAIN candidate
        OBVIOUS
    <2> HIDE DEF letters
    <2>2. PICK j, k \in letters : j <= k /\ part = SubSeq(candidate, j, k)
        BY <2>1, StretchIs
    <2> QED
        BY <2>1, <2>2, PartIs, KeyOfPartOccurs
<1>4. Spelling(candidate) = candidate \/ (letters # {} /\ Spelling(candidate) = Conventional(part))
    BY DEF Spelling
<1> HIDE DEF letters, part
<1> QED
    BY <1>2, <1>3, <1>4, ConventionalKey

\* A term of an edit that is accepted occurs in the text.
LEMMA TermOccurs ==
    ASSUME NEW new \in Text, NEW range, range[1] \in DOMAIN new, range[2] \in DOMAIN new,
           range[1] <= range[2], LocallyAccepted(TermAt(new, range))
    PROVE  /\ TermAt(new, range) \in Text
           /\ OccursIn(Key(TermAt(new, range)), Key(new))
           /\ Len(TermAt(new, range)) >= 2
<1> DEFINE candidate == AsciiCandidate(new, range)
<1>1. TermAt(new, range) = Spelling(candidate)
    BY DEF TermAt
<1>2. Key(new) \in Text
    BY KeyOfTrimmed
<1>3. candidate \in Text /\ OccursIn(Key(candidate), Key(new))
    <2>1. CASE candidate = <<>>
        <3>1. <<>> \in Text /\ DOMAIN <<>> = {}
            BY DEF Text
        <3>2. Key(<<>>) = <<>>
            BY <3>1, KeyIs
        <3> QED
            BY <1>2, <2>1, <3>1, <3>2, NothingOccurs
    <2>2. ASSUME NEW m \in DOMAIN new, NEW n \in DOMAIN new, m <= n,
                 candidate = SubSeq(new, m, n)
          PROVE  candidate \in Text /\ OccursIn(Key(candidate), Key(new))
        BY <2>2, PartIs, KeyOfPartOccurs
    <2> QED
        BY <2>1, <2>2, CandidateIs
<1> HIDE DEF candidate
<1>4. Spelling(candidate) \in Text /\ OccursIn(Key(Spelling(candidate)), Key(candidate))
    BY <1>3, SpellingOccurs
<1>5. Key(candidate) \in Text /\ Key(Spelling(candidate)) \in Text
    BY <1>3, <1>4, KeyOfTrimmed
<1>6. OccursIn(Key(Spelling(candidate)), Key(new))
    BY <1>2, <1>3, <1>4, <1>5, OccursWithin
<1> QED
    BY <1>1, <1>4, <1>6 DEF LocallyAccepted

LEMMA LocalReviewWritten ==
    ASSUME NEW new \in Text, NEW range, range[1] \in DOMAIN new, range[2] \in DOMAIN new,
           range[1] <= range[2], LocallyAccepted(TermAt(new, range))
    PROVE  InText(LocalReview(TermAt(new, range)), new)
<1> DEFINE term == TermAt(new, range)
<1>1. term \in Text /\ OccursIn(Key(term), Key(new)) /\ Len(term) >= 2
    BY TermOccurs
<1> HIDE DEF term
<1>2. PICK confidence \in {90, 94, 86} : LocalReview(term) = Review(term, "accept", confidence)
    BY DEF LocalReview
<1>3. InText(Review(term, "accept", confidence), new)
    BY <1>1 DEF InText, Review
<1> QED
    BY <1>2, <1>3 DEF term

\* Whichever way the two texts are aligned.
LEMMA LocalCandidatesOK ==
    ASSUME NEW old, NEW new \in Text, NEW local \in LocalCandidates(old, new)
    PROVE  ReviewsOK(local, new)
<1>1. PICK aligned \in Alignments(old, new) : local = ReviewsOf(new, Insertions(new, aligned))
    BY DEF LocalCandidates
<1> DEFINE edits == Insertions(new, aligned)
           accepted == {range \in edits : LocallyAccepted(TermAt(new, range))}
           firsts == {range[1] : range \in accepted}
           RangeAt(first) == CHOOSE range \in accepted : range[1] = first
           reviews == [first \in firsts |-> LocalReview(TermAt(new, RangeAt(first)))]
<1>2. \A range \in accepted : /\ range[1] \in DOMAIN new /\ range[2] \in DOMAIN new
                              /\ range[1] <= range[2]
                              /\ LocallyAccepted(TermAt(new, range))
    BY DEF Insertions
<1>3. local = Deduplicated(reviews)
    BY <1>1 DEF ReviewsOf
<1> HIDE DEF accepted
<1>4. firsts \subseteq Nat
    <2>1. DOMAIN new \subseteq Nat
        BY DEF Text
    <2> QED
        BY <1>2, <2>1
<1>5. \A first \in firsts : RangeAt(first) \in accepted
    OBVIOUS
<1> HIDE DEF RangeAt
<1>6. \A first \in firsts : InText(LocalReview(TermAt(new, RangeAt(first))), new)
    BY <1>2, <1>5, LocalReviewWritten
<1> HIDE DEF firsts
<1>7. DOMAIN reviews \subseteq Nat /\ \A first \in DOMAIN reviews : InText(reviews[first], new)
    BY <1>4, <1>6
<1> HIDE DEF reviews
<1> QED
    BY <1>3, <1>7, DeduplicatedOK

-----------------------------------------------------------------------------
(* What the service answers.                                               *)

LEMMA ReviewedWritten ==
    ASSUME NEW item \in ReviewItems, NEW text, item.confidence <= 100,
           OccursIn(Key(item.term), Key(text))
    PROVE  /\ InText(Reviewed(item), text)
           /\ Key(Reviewed(item).term) = Key(item.term)
<1>1. /\ item.term \in Text /\ item.confidence \in 0..100
      /\ item.decision \in {"accept", "reject"}
    BY RevisionAssumption DEF ReviewItems, Text
<1>2. /\ Trimmed(item.term) \in Text
      /\ Key(Trimmed(item.term)) = Key(item.term)
    BY <1>1, TrimmedText, KeyOfTrimmedIs
<1>3. /\ Decided(item) \in {"accept", "reject"}
      /\ Decided(item) = "accept" => Len(Trimmed(item.term)) >= 2
    <2>1. Len(Trimmed(item.term)) \in Nat
        BY <1>2 DEF Text
    <2> QED
        BY <1>1, <2>1 DEF Decided
<1>4. /\ Reviewed(item).term = Trimmed(item.term)
      /\ Reviewed(item).decision = Decided(item)
      /\ Reviewed(item).confidence = item.confidence
    BY DEF Reviewed, Review
<1> QED
    BY <1>1, <1>2, <1>3, <1>4 DEF InText

LEMMA AnsweredOK ==
    ASSUME NEW items \in SeqOf(ReviewItems, 2), NEW text, NEW fallback,
           ReviewsOK(fallback, text)
    PROVE  ReviewsOK(Answered(items, text, fallback), text)
<1>1. DOMAIN items \subseteq Nat /\ \A k \in DOMAIN items : items[k] \in ReviewItems
    BY DEF SeqOf
<1> DEFINE named == {k \in TermsIn(items) : ContainsEquivalent(text, items[k].term)}
           reviews == [k \in named |-> Reviewed(items[k])]
<1>2. /\ named \subseteq DOMAIN items
      /\ \A k \in named : OccursIn(Key(items[k].term), Key(text))
    BY DEF TermsIn, ContainsEquivalent
<1>3. Answered(items, text, fallback) =
         IF \E k \in named : items[k].confidence > 100 THEN fallback ELSE Deduplicated(reviews)
    BY DEF Answered
<1> HIDE DEF named
<1>4. CASE \E k \in named : items[k].confidence > 100
    BY <1>3, <1>4
<1>5. CASE ~\E k \in named : items[k].confidence > 100
    <2>1. \A k \in named : items[k].confidence <= 100
        BY <1>1, <1>2, <1>5 DEF ReviewItems
    <2>2. \A k \in named : InText(Reviewed(items[k]), text)
        BY <1>1, <1>2, <2>1, ReviewedWritten
    <2>3. DOMAIN reviews \subseteq Nat /\ \A k \in DOMAIN reviews : InText(reviews[k], text)
        BY <1>1, <1>2, <2>2
    <2> HIDE DEF reviews
    <2>4. ReviewsOK(Deduplicated(reviews), text)
        BY <2>3, DeduplicatedOK
    <2> QED
        BY <1>3, <1>5, <2>4
<1> QED
    BY <1>4, <1>5

-----------------------------------------------------------------------------
(* The parts of a long text.                                               *)

SizeIsBounded(text, j, k) ==
    Size(text, j, k) \in Nat /\ Size(text, j, k) <= 3 * (k - j + 1)

LEMMA SizeBounds ==
    ASSUME NEW text \in Text, NEW j \in Nat, NEW k \in Nat, j <= k
    PROVE  SizeIsBounded(text, j, k)
<1> DEFINE three == {i \in j..k : Chinese(text[i])}
<1>1. IsFiniteSet(j..k) /\ Cardinality(j..k) = k - j + 1
    BY FS_Interval
<1>2. three \subseteq j..k
    OBVIOUS
<1> HIDE DEF three
<1>3. Cardinality(three) \in Nat /\ Cardinality(three) <= k - j + 1
    BY <1>1, <1>2, FS_Subset, FS_CardinalityType
<1>4. Size(text, j, k) = (k - j + 1) + 2 * Cardinality(three)
    BY DEF Size, three
<1> QED
    BY <1>3, <1>4 DEF SizeIsBounded

\* A part ends where the budget does not take one more character.
EndsPart(text, j, k) ==
    /\ Size(text, j, k) <= PartBudget
    /\ k = Len(text) \/ Size(text, j, k + 1) > PartBudget

Fits(text, j, k) == Size(text, j, k) <= PartBudget

LEMMA PartEnds ==
    ASSUME NEW text \in Text, NEW j \in DOMAIN text
    PROVE  EndOf(text, j) \in j..Len(text) /\ EndsPart(text, j, EndOf(text, j))
<1> DEFINE length == Len(text)
           fitting == {k \in j..length : Fits(text, j, k)}
<1>0. j \in Nat /\ length \in Nat /\ j \in 1..length
    BY DEF Text
<1>1. Fits(text, j, j)
    <2>1. Size(text, j, j) <= 3 * (j - j + 1) /\ Size(text, j, j) \in Nat
        <3>1. SizeIsBounded(text, j, j)
            BY <1>0, SizeBounds
        <3> QED
            BY <3>1 DEF SizeIsBounded
    <2>2. 3 * (j - j + 1) = 3
        BY <1>0
    <2>3. PartBudget >= 3 /\ PartBudget \in Nat
        BY RevisionAssumption
    <2> QED
        BY <2>1, <2>2, <2>3 DEF Fits
<1>2. \A k : k \in fitting <=> k \in j..length /\ Fits(text, j, k)
    OBVIOUS
<1> HIDE DEF fitting, length
<1>3. j \in fitting
    BY <1>0, <1>1, <1>2
<1>4. fitting \subseteq 0..length
    BY <1>0, <1>2
<1>5. PICK m \in fitting : \A n \in fitting : m >= n
    BY <1>0, <1>3, <1>4, GreatestPosition
<1>6. m \in j..length /\ Fits(text, j, m)
    BY <1>2
<1>7. m = length \/ ~Fits(text, j, m + 1)
    <2> SUFFICES ASSUME m # length, Fits(text, j, m + 1)
                 PROVE  FALSE
        OBVIOUS
    <2>1. m + 1 \in j..length /\ ~(m >= m + 1)
        BY <1>0, <1>6
    <2>2. m + 1 \in fitting
        BY <1>2, <2>1
    <2> QED
        BY <1>5, <2>1, <2>2
<1>8. EndsPart(text, j, m)
    <2>1. ~Fits(text, j, m + 1) => Size(text, j, m + 1) > PartBudget
        <3>1. Size(text, j, m + 1) \in Nat
            <4>1. m + 1 \in Nat /\ j <= m + 1
                BY <1>0, <1>6
            <4>2. SizeIsBounded(text, j, m + 1)
                BY <1>0, <4>1, SizeBounds
            <4> QED
                BY <4>2 DEF SizeIsBounded
        <3>2. PartBudget \in Nat
            BY RevisionAssumption
        <3> QED
            BY <3>1, <3>2 DEF Fits
    <2> QED
        BY <1>6, <1>7, <2>1 DEF EndsPart, Fits, length
<1>9. \E k \in j..Len(text) : EndsPart(text, j, k)
    BY <1>6, <1>8 DEF length
<1> QED
    BY <1>9 DEF EndOf, EndsPart

\* A part that is not the last is longer than the overlap.
LEMMA PartIsLong ==
    ASSUME NEW text \in Text, NEW j \in DOMAIN text, EndOf(text, j) # Len(text)
    PROVE  /\ EndOf(text, j) >= j + PartOverlap
           /\ NextPart(EndOf(text, j)) \in DOMAIN text
           /\ NextPart(EndOf(text, j)) > j
<1> DEFINE end == EndOf(text, j)
           length == Len(text)
<1>0. /\ j \in Nat /\ length \in Nat /\ DOMAIN text = 1..length
      /\ j \in 1..length /\ PartOverlap \in Nat
      /\ PartBudget \in Nat /\ PartBudget >= 3 * (PartOverlap + 1)
    BY RevisionAssumption DEF Text
<1>1. end \in j..length /\ EndsPart(text, j, end)
    BY PartEnds
<1>2. end # length
    OBVIOUS
<1> HIDE DEF end, length
<1>3. Size(text, j, end + 1) > PartBudget
    BY <1>1, <1>2 DEF EndsPart, length
<1>4. /\ Size(text, j, end + 1) \in Nat
      /\ Size(text, j, end + 1) <= 3 * ((end + 1) - j + 1)
    <2>1. end + 1 \in Nat /\ j <= end + 1
        BY <1>0, <1>1
    <2>2. SizeIsBounded(text, j, end + 1)
        BY <1>0, <2>1, SizeBounds
    <2> QED
        BY <2>2 DEF SizeIsBounded
<1> DEFINE size == Size(text, j, end + 1)
<1> HIDE DEF size
<1>5. size > PartBudget /\ size <= 3 * ((end + 1) - j + 1) /\ size \in Nat
    BY <1>3, <1>4 DEF size
<1>6. end \in Nat /\ j <= end /\ end < length
    BY <1>0, <1>1, <1>2
<1>7. end >= j + PartOverlap
    BY <1>0, <1>5, <1>6
<1>8. NextPart(end) = end + 1 - PartOverlap
    BY DEF NextPart
<1>9. NextPart(end) \in 1..length /\ NextPart(end) > j
    BY <1>0, <1>6, <1>7, <1>8
<1> QED
    BY <1>0, <1>7, <1>9 DEF end

\* The loop begins with the first character and goes on to the end.
LEMMA StartsGoOn ==
    ASSUME NEW text \in Text, 1 \in DOMAIN text
    PROVE  1 \in PartStarts(text) /\ RunsOn(text, PartStarts(text))
<1>1. 1 \in PartStarts(text)
    BY DEF PartStarts
<1>2. ASSUME NEW j \in PartStarts(text), EndOf(text, j) # Len(text)
      PROVE  NextPart(EndOf(text, j)) \in PartStarts(text)
    <2>1. j \in DOMAIN text
        BY DEF PartStarts
    <2>2. NextPart(EndOf(text, j)) \in DOMAIN text
        BY <1>2, <2>1, PartIsLong
    <2>3. ASSUME NEW starts \in SUBSET DOMAIN text, 1 \in starts, RunsOn(text, starts)
          PROVE  NextPart(EndOf(text, j)) \in starts
        <3>1. j \in starts
            BY <2>3 DEF PartStarts
        <3> QED
            BY <1>2, <2>3, <3>1 DEF RunsOn
    <2> QED
        BY <2>2, <2>3 DEF PartStarts
<1> QED
    BY <1>1, <1>2 DEF RunsOn

PartsCover(text) ==
    \A j, k \in DOMAIN text : k - j \in 0..PartOverlap =>
        \E n \in DOMAIN PartsOf[text] : OccursIn(SubSeq(text, j, k), PartsOf[text][n])

\* What is no longer than the overlap, and a character, is whole in some part.
LEMMA PartsCoverTexts ==
    ASSUME NEW text \in Text, text \in LongTexts
    PROVE  PartsCover(text)
<1> SUFFICES ASSUME NEW j \in DOMAIN text, NEW k \in DOMAIN text, k - j \in 0..PartOverlap
             PROVE  \E n \in DOMAIN PartsOf[text] :
                        OccursIn(SubSeq(text, j, k), PartsOf[text][n])
    BY DEF PartsCover
<1> DEFINE length == Len(text)
           starts == PartStarts(text)
           before == {n \in starts : n <= j}
<1>0. /\ length \in Nat /\ DOMAIN text = 1..length /\ j \in 1..length /\ k \in 1..length
      /\ PartOverlap \in Nat
    BY RevisionAssumption DEF Text
<1>1. 1 \in starts /\ RunsOn(text, starts) /\ starts \subseteq 1..length
    <2>1. 1 \in DOMAIN text
        BY <1>0
    <2> QED
        BY <1>0, <2>1, StartsGoOn DEF PartStarts
<1>2. \A n : n \in before <=> n \in starts /\ n <= j
    OBVIOUS
<1> HIDE DEF before, starts, length
<1>3. 1 \in before /\ before \subseteq 0..j
    <2>1. j \in Nat /\ 1 <= j
        BY <1>0
    <2>4. 1..length \subseteq Nat
        BY <1>0
    <2>5. starts \subseteq Nat
        BY <1>1, <2>4
    <2>2. \A n \in before : n \in Nat /\ n <= j
        BY <1>2, <2>5
    <2>3. 1 \in before
        BY <1>1, <1>2, <2>1
    <2> QED
        BY <2>1, <2>2, <2>3
<1>4. PICK n \in before : \A m \in before : n >= m
    <2>1. j \in Nat
        BY <1>0
    <2> QED
        BY <1>3, <2>1, GreatestPosition
<1>5. n \in starts /\ n \in DOMAIN text /\ n \in 1..length /\ n <= j
    BY <1>0, <1>1, <1>2
<1> DEFINE end == EndOf(text, n)
<1>6. end \in n..length
    BY <1>5, PartEnds DEF length
<1>7. k <= end
    <2>1. CASE end = length
        BY <1>0, <2>1
    <2>2. CASE end # length
        <3>1. NextPart(end) \in starts
            BY <1>1, <1>5, <2>2 DEF RunsOn, length
        <3>2. NextPart(end) > n
            BY <1>5, <2>2, PartIsLong DEF length
        <3>3. NextPart(end) = end + 1 - PartOverlap
            BY DEF NextPart
        <3> HIDE DEF end
        <3>4. NextPart(end) \in Nat /\ n \in Nat /\ end \in Nat /\ j \in Nat /\ k \in Nat
            <4>1. 1..length \subseteq Nat
                BY <1>0
            <4>2. n..length \subseteq Nat
                BY <1>0, <1>5, <4>1
            <4> QED
                BY <1>0, <1>1, <1>5, <1>6, <3>1, <4>1, <4>2
        <3>5. ~(NextPart(end) <= j)
            <4>1. ~(n >= NextPart(end))
                BY <3>2, <3>4
            <4> QED
                BY <1>2, <1>4, <3>1, <4>1
        <3>6. end + 1 - PartOverlap > j
            BY <3>3, <3>4, <3>5
        <3>7. k - j <= PartOverlap
            BY <1>0
        <3> QED
            BY <1>0, <3>4, <3>6, <3>7
    <2> QED
        BY <2>1, <2>2
<1>8. n \in DOMAIN PartsOf[text] /\ PartsOf[text][n] = SubSeq(text, n, end)
    BY <1>5 DEF PartsOf, starts
<1> HIDE DEF end
<1>9. end \in DOMAIN text /\ j \in n..end /\ k \in j..end
    <2>1. j <= k /\ j \in Nat /\ k \in Nat /\ n \in Nat /\ end \in Nat
        BY <1>0, <1>5, <1>6
    <2> QED
        BY <1>0, <1>5, <1>6, <1>7, <2>1
<1> QED
    BY <1>5, <1>8, <1>9, PartOccurs

\* What one request takes is yet to be sent.
LEMMA BatchIsUnsent ==
    ASSUME NEW text, NEW batch \in NextBatches(text)
    PROVE  batch \subseteq DOMAIN PartsOf[text] \ sent
<1>1. PICK taken : batch = Batch(text, DOMAIN PartsOf[text] \ sent, taken)
    BY DEF NextBatches
<1> QED
    BY <1>1 DEF Batch

InSomePart(review, text, batch) ==
    \E n \in batch : ContainsEquivalent(PartsOf[text][n], review.term)

\* A term that is suggested occurs in the text, and in a part that was sent.
LEMMA SuggestionsOK ==
    ASSUME NEW text \in Text, text \in LongTexts, NEW items \in SeqOf(ReviewItems, 2), NEW cited,
           NEW batch \in SUBSET DOMAIN PartsOf[text]
    PROVE  LET found == Suggestions(items, cited, [j \in batch |-> PartsOf[text][j]]) IN
           /\ ReviewsOK(found, text)
           /\ \A review \in found : InSomePart(review, text, batch)
<1> DEFINE parts == [j \in batch |-> PartsOf[text][j]]
           spoilt == Spoilt(items, cited, parts)
           first == {k \in TermsIn(items) : NamedFirst(items, k)}
<1>1. /\ DOMAIN items \subseteq Nat /\ TermsIn(items) \subseteq DOMAIN items
      /\ \A k \in DOMAIN items : items[k] \in ReviewItems
    BY DEF SeqOf, TermsIn
<1>2. Suggestions(items, cited, parts) =
          IF spoilt THEN {} ELSE {Reviewed(items[k]) : k \in first}
    BY DEF Suggestions
<1>3. CASE spoilt
    BY <1>2, <1>3 DEF ReviewsOK, TermsDiffer
<1>4. CASE ~spoilt
    <2>1. ASSUME NEW k \in TermsIn(items)
          PROVE  /\ InText(Reviewed(items[k]), text)
                 /\ Key(Reviewed(items[k]).term) = Key(items[k].term)
                 /\ InSomePart(Reviewed(items[k]), text, batch)
        <3>1. /\ items[k].confidence <= 100
              /\ cited[k] \in DOMAIN parts
              /\ ContainsEquivalent(parts[cited[k]], items[k].term)
            <4>1. ~Spoils(items[k], cited[k], parts)
                BY <1>4 DEF Spoilt
            <4>2. items[k].confidence \in {70, 90, 101}
                BY <1>1 DEF ReviewItems
            <4> QED
                BY <4>1, <4>2 DEF Spoils
        <3>0. cited[k] \in batch /\ parts[cited[k]] = PartsOf[text][cited[k]]
            BY <3>1
        <3>2. PICK j \in DOMAIN text : PartsOf[text][cited[k]] = SubSeq(text, j, EndOf(text, j))
            BY <3>0 DEF PartsOf, PartStarts
        <3>3. EndOf(text, j) \in DOMAIN text /\ j <= EndOf(text, j)
            <4>1. EndOf(text, j) \in j..Len(text)
                BY PartEnds
            <4>2. DOMAIN text = 1..Len(text) /\ Len(text) \in Nat
                BY DEF Text
            <4> QED
                BY <4>1, <4>2
        <3>4. /\ PartsOf[text][cited[k]] \in Text
              /\ OccursIn(Key(PartsOf[text][cited[k]]), Key(text))
            BY <3>2, <3>3, PartIs, KeyOfPartOccurs
        <3>5. items[k].term \in Text
            BY <1>1, RevisionAssumption DEF ReviewItems, Text
        <3>6. OccursIn(Key(items[k].term), Key(PartsOf[text][cited[k]]))
            BY <3>0, <3>1 DEF ContainsEquivalent
        <3>7. /\ Key(items[k].term) \in Text /\ Key(PartsOf[text][cited[k]]) \in Text
              /\ Key(text) \in Text
            BY <3>4, <3>5, KeyOfTrimmed
        <3>8. OccursIn(Key(items[k].term), Key(text))
            BY <3>4, <3>6, <3>7, OccursWithin
        <3>9. items[k] \in ReviewItems
            BY <1>1
        <3>10. /\ InText(Reviewed(items[k]), text)
               /\ Key(Reviewed(items[k]).term) = Key(items[k].term)
            BY <3>1, <3>8, <3>9, ReviewedWritten
        <3>11. OccursIn(Key(Reviewed(items[k]).term), Key(PartsOf[text][cited[k]]))
            BY <3>0, <3>6, <3>10
        <3> QED
            BY <3>0, <3>10, <3>11 DEF InSomePart, ContainsEquivalent
    <2>2. TermsDiffer({Reviewed(items[k]) : k \in first})
        <3> SUFFICES ASSUME NEW j \in first, NEW k \in first,
                            Key(Reviewed(items[j]).term) = Key(Reviewed(items[k]).term)
                     PROVE  Reviewed(items[j]) = Reviewed(items[k])
            BY DEF TermsDiffer
        <3>1. Key(items[j].term) = Key(items[k].term)
            BY <2>1
        <3>2. j <= k /\ k <= j
            BY <3>1 DEF NamedFirst
        <3>3. j \in Nat /\ k \in Nat
            BY <1>1
        <3>4. j = k
            BY <3>2, <3>3
        <3> QED
            BY <3>4
    <2>3. \A review \in {Reviewed(items[k]) : k \in first} :
             InText(review, text) /\ InSomePart(review, text, batch)
        BY <2>1
    <2>4. ReviewsOK({Reviewed(items[k]) : k \in first}, text)
        BY <2>2, <2>3 DEF ReviewsOK
    <2> HIDE DEF first, spoilt
    <2> QED
        BY <1>2, <1>4, <2>3, <2>4
<1> QED
    BY <1>3, <1>4

-----------------------------------------------------------------------------
(* The inductive invariant: who assesses a revision has one, of a user who  *)
(* went on to something else; what he recorded is written in it; and the    *)
(* requests of a history text share no part.                               *)

InTexts(observations, text) == \A o \in observations : InText(o.review, text)

Apart(observations) ==
    \A o, p \in observations :
        Key(o.review.term) = Key(p.review.term) => o = p \/ o.parts \cap p.parts = {}

Cited(observations, text) ==
    \A o \in observations : InSomePart(o.review, text, o.parts)

AnsweredFor(observations, parts) == \A o \in observations : o.parts \subseteq parts

RevisionInv ==
    /\ original \in Delivered \cup LongTexts
    /\ latest \in Delivered \cup LongTexts \cup Revised
    /\ snapshots \in 0..MaxSnapshots
    /\ ending \in EndReasons \cup {"open", "history"}
    /\ learner \in {"none", "assessing", "done", "stopped"}
    /\ ending = "history" =>
         /\ latest \in LongTexts
         /\ sent \subseteq DOMAIN PartsOf[latest]
         /\ Cited(recorded, latest)
         /\ learner # "stopped" => AnsweredFor(recorded, sent)
         /\ learner = "done" => sent = DOMAIN PartsOf[latest]
    /\ ending # "history" =>
         /\ sent = {}
         /\ learner # "none" => ending # "open" /\ Learns(ending)
         /\ learner # "done" => recorded = {}
    /\ InTexts(recorded, latest)
    /\ Apart(recorded)

LEMMA TextsAreTexts ==
    ASSUME RevisionInv
    PROVE  latest \in Text /\ original \in Text
    BY RevisionAssumption DEF RevisionInv, Text

LEMMA RevisionInvInit == RevisionInit => RevisionInv
<1> SUFFICES ASSUME RevisionInit
             PROVE  RevisionInv
    OBVIOUS
<1>1. recorded = {} /\ sent = {}
    BY DEF RevisionInit
<1>2. InTexts(recorded, latest) /\ Apart(recorded) /\ Cited(recorded, latest)
      /\ AnsweredFor(recorded, sent)
    BY <1>1 DEF InTexts, Apart, Cited, AnsweredFor
<1>3. snapshots \in 0..MaxSnapshots
    BY RevisionAssumption DEF RevisionInit
<1>4. learner \in {"none", "assessing"} /\ (learner = "assessing" => ending = "history")
    BY DEF RevisionInit
<1>5. /\ original \in Delivered \cup LongTexts
      /\ latest \in Delivered \cup LongTexts \cup Revised
      /\ ending = "history" => latest \in LongTexts
      /\ ending \in EndReasons \cup {"open", "history"}
    BY DEF RevisionInit
<1> QED
    BY <1>1, <1>2, <1>3, <1>4, <1>5 DEF RevisionInv

LEMMA RecordsStep ==
    ASSUME RevisionInv, NEW reviews, ReviewsOK(reviews, latest), learner = "assessing",
           ending # "history", Records(reviews)
    PROVE  RevisionInv'
<1>1. /\ learner' = "done" /\ sent' = sent
      /\ original' = original /\ latest' = latest /\ snapshots' = snapshots
      /\ ending' = ending
      /\ recorded' = Observations(reviews, {1})
    BY DEF Records
<1>2. InTexts(recorded', latest')
    BY <1>1 DEF InTexts, Observations, ReviewsOK
<1>3. Apart(recorded')
    <2> SUFFICES ASSUME NEW o \in recorded', NEW p \in recorded',
                        Key(o.review.term) = Key(p.review.term)
                 PROVE  o = p
        BY DEF Apart
    <2>1. o.review \in reviews /\ o = [review |-> o.review, parts |-> {1}]
        BY <1>1 DEF Observations
    <2>2. p.review \in reviews /\ p = [review |-> p.review, parts |-> {1}]
        BY <1>1 DEF Observations
    <2>3. o.review = p.review
        BY <2>1, <2>2 DEF ReviewsOK, TermsDiffer
    <2> QED
        BY <2>1, <2>2, <2>3
<1>4. ending # "open" /\ Learns(ending) /\ sent = {}
    BY DEF RevisionInv
<1>5. Learns(ending)'
    BY <1>1, <1>4 DEF Learns
<1> QED
    BY <1>1, <1>2, <1>3, <1>4, <1>5 DEF RevisionInv

\* An answer adds what its parts say, and its parts are of no earlier request.
LEMMA SuggestKeeps ==
    ASSUME RevisionInv, learner = "assessing", ending = "history",
           NEW batch \in NextBatches(latest), NEW items \in SeqOf(ReviewItems, 2), NEW cited,
           Suggest(batch, items, cited)
    PROVE  /\ InTexts(recorded', latest) /\ Apart(recorded') /\ Cited(recorded', latest)
           /\ AnsweredFor(recorded', sent \cup batch)
<1> DEFINE found == Suggestions(items, cited, [j \in batch |-> PartsOf[latest][j]])
           new == Observations(found, batch)
<1>1. latest \in Text /\ latest \in LongTexts /\ AnsweredFor(recorded, sent)
      /\ InTexts(recorded, latest) /\ Apart(recorded) /\ Cited(recorded, latest)
    BY TextsAreTexts DEF RevisionInv
<1>2. batch \subseteq DOMAIN PartsOf[latest] /\ batch \cap sent = {}
    BY BatchIsUnsent
<1>3. /\ ReviewsOK(found, latest)
      /\ \A review \in found : InSomePart(review, latest, batch)
    BY <1>1, <1>2, SuggestionsOK
<1>4. recorded' = recorded \cup new
    BY DEF Suggest
<1>5. \A o \in new : o.review \in found /\ o.parts = batch /\ o = [review |-> o.review, parts |-> batch]
    BY DEF Observations
<1> HIDE DEF found, new
<1>6. InTexts(recorded', latest)
    BY <1>1, <1>3, <1>4, <1>5 DEF InTexts, ReviewsOK
<1>7. Cited(recorded', latest)
    BY <1>1, <1>3, <1>4, <1>5 DEF Cited
<1>8. AnsweredFor(recorded', sent \cup batch)
    BY <1>1, <1>4, <1>5 DEF AnsweredFor
<1>9. Apart(recorded')
    <2> SUFFICES ASSUME NEW o \in recorded', NEW p \in recorded',
                        Key(o.review.term) = Key(p.review.term)
                 PROVE  o = p \/ o.parts \cap p.parts = {}
        BY DEF Apart
    <2>1. CASE o \in recorded /\ p \in recorded
        BY <1>1, <2>1 DEF Apart
    <2>2. CASE o \in new /\ p \in new
        <3>1. o.review = p.review
            BY <1>3, <1>5, <2>2 DEF ReviewsOK, TermsDiffer
        <3> QED
            BY <1>5, <2>2, <3>1
    <2>3. CASE o \in recorded /\ p \in new
        BY <1>1, <1>2, <1>5, <2>3 DEF AnsweredFor
    <2>4. CASE o \in new /\ p \in recorded
        BY <1>1, <1>2, <1>5, <2>4 DEF AnsweredFor
    <2> QED
        BY <1>4, <2>1, <2>2, <2>3, <2>4
<1> QED
    BY <1>6, <1>7, <1>8, <1>9

LEMMA RevisionInvNext == RevisionInv /\ [RevisionNext]_revisionVars => RevisionInv'
<1> SUFFICES ASSUME RevisionInv, [RevisionNext]_revisionVars
             PROVE  RevisionInv'
    OBVIOUS
<1>0. latest \in Text /\ original \in Text
    BY TextsAreTexts
<1>a. recorded' = {} => InTexts(recorded', latest') /\ Apart(recorded')
    BY DEF InTexts, Apart
<1>1. CASE Snapshot
    <2>1. /\ ending = "open" /\ ending' = ending /\ original' = original
          /\ learner' = learner /\ recorded' = recorded /\ sent' = sent
          /\ latest' \in {latest} \cup Revised
        BY <1>1 DEF Snapshot
    <2>2. learner = "none" /\ recorded = {} /\ sent = {}
        BY <2>1 DEF RevisionInv
    <2>4. snapshots' \in 0..MaxSnapshots
        BY <1>1, RevisionAssumption DEF Snapshot, RevisionInv
    <2>5. latest' \in Delivered \cup LongTexts \cup Revised
        BY <2>1 DEF RevisionInv
    <2> QED
        BY <1>a, <2>1, <2>2, <2>4, <2>5 DEF RevisionInv
<1>2. CASE ObservationEnds
    <2>1. /\ ending = "open" /\ ending' \in EndReasons
          /\ learner' \in {"none", "assessing"}
          /\ learner' = "assessing" => Learns(ending')
          /\ original' = original /\ latest' = latest /\ snapshots' = snapshots
          /\ recorded' = recorded /\ sent' = sent
        BY <1>2 DEF ObservationEnds
    <2>2. recorded' = {} /\ sent' = {} /\ ending' # "open" /\ ending' # "history"
        BY <2>1 DEF RevisionInv, EndReasons
    <2>3. learner' = "assessing" => latest' # original' /\ Permits(ending')
        BY <2>1 DEF Learns
    <2> QED
        BY <1>a, <2>1, <2>2, <2>3 DEF RevisionInv, Learns
<1>3. CASE AssessLocally
    <2>1. PICK local \in LocalCandidates(original, latest) : Records(local)
        BY <1>3 DEF AssessLocally
    <2>2. ReviewsOK(local, latest)
        BY <1>0, LocalCandidatesOK
    <2> QED
        BY <1>3, <2>1, <2>2, RecordsStep DEF AssessLocally
<1>4. CASE AssessByService
    <2>1. PICK local \in LocalCandidates(original, latest), items \in SeqOf(ReviewItems, 2) :
             Records(Answered(items, latest, local))
        BY <1>4 DEF AssessByService
    <2>2. ReviewsOK(local, latest)
        BY <1>0, LocalCandidatesOK
    <2>3. ReviewsOK(Answered(items, latest, local), latest)
        BY <2>2, AnsweredOK
    <2> QED
        BY <1>4, <2>1, <2>3, RecordsStep DEF AssessByService
<1>5. CASE SuggestFromHistory
    <2>1. PICK batch \in NextBatches(latest), items \in SeqOf(ReviewItems, 2) :
             \E cited \in [DOMAIN items -> {0} \cup batch] :
               Suggest(batch, items, cited) /\ sent' = sent \cup batch
        BY <1>5 DEF SuggestFromHistory
    <2>2. PICK cited : Suggest(batch, items, cited) /\ sent' = sent \cup batch
        BY <2>1
    <2>3. /\ learner = "assessing" /\ ending = "history" /\ ending' = ending
          /\ original' = original /\ latest' = latest /\ snapshots' = snapshots
          /\ learner' = IF sent' = DOMAIN PartsOf[latest] THEN "done" ELSE "assessing"
        BY <1>5 DEF SuggestFromHistory
    <2>4. /\ InTexts(recorded', latest') /\ Apart(recorded') /\ Cited(recorded', latest')
          /\ AnsweredFor(recorded', sent')
        BY <2>2, <2>3, SuggestKeeps
    <2>5. sent' \subseteq DOMAIN PartsOf[latest']
        BY <2>2, <2>3, BatchIsUnsent DEF RevisionInv
    <2> QED
        BY <2>3, <2>4, <2>5 DEF RevisionInv
<1>6. CASE SuggestionsStop
    <2>1. PICK batch \in NextBatches(latest), items \in SeqOf(ReviewItems, 1) :
             \E cited \in [DOMAIN items -> {0} \cup batch] :
               Suggest(batch, items, cited)
        BY <1>6 DEF SuggestionsStop
    <2>2. PICK cited : Suggest(batch, items, cited)
        BY <2>1
    <2>3. /\ learner = "assessing" /\ ending = "history" /\ ending' = ending
          /\ original' = original /\ latest' = latest /\ snapshots' = snapshots
          /\ learner' = "stopped" /\ sent' = sent
        BY <1>6 DEF SuggestionsStop
    <2>4. items \in SeqOf(ReviewItems, 2)
        BY <2>1 DEF SeqOf
    <2>5. InTexts(recorded', latest') /\ Apart(recorded') /\ Cited(recorded', latest')
        BY <2>2, <2>3, <2>4, SuggestKeeps
    <2> QED
        BY <2>3, <2>5 DEF RevisionInv
<1>7. CASE UNCHANGED revisionVars
    <2>1. /\ original' = original /\ latest' = latest /\ snapshots' = snapshots
          /\ ending' = ending /\ learner' = learner /\ sent' = sent /\ recorded' = recorded
        BY <1>7 DEF revisionVars
    <2> QED
        BY <2>1 DEF RevisionInv, Learns
<1> QED
    BY <1>1, <1>2, <1>3, <1>4, <1>5, <1>6, <1>7 DEF RevisionNext

THEOREM RevisionAlways == RevisionSpec => []RevisionInv
BY RevisionInvInit, RevisionInvNext, PTL DEF RevisionSpec

(* RevisionTypeOK: an observation is accepted or refused, with a confidence *)
(* in per cent, for any texts and whatever the service answers.            *)
(* (crates/app/src/dictionary_revision.rs, dictionary_assist.rs)           *)
THEOREM RevisionTypeCorrect == RevisionSpec => []RevisionTypeOK
<1>1. RevisionInv => RevisionTypeOK
    <2> SUFFICES ASSUME RevisionInv
                 PROVE  RevisionTypeOK
        OBVIOUS
    <2>1. \A o \in recorded : o.review.decision \in {"accept", "reject"}
                              /\ o.review.confidence \in 0..100
        BY DEF RevisionInv, InTexts, InText
    <2>2. sent \subseteq DOMAIN latest
        BY DEF RevisionInv, PartsOf, PartStarts
    <2> QED
        BY <2>1, <2>2 DEF RevisionInv, RevisionTypeOK
<1> QED
    BY <1>1, RevisionAlways, PTL

(* ObservedAsWritten: the dictionary is told only of terms that the user's  *)
(* text has, and only of a revision he had done with; no part of a text     *)
(* tells of a term twice, and the part that tells of it has it; and when a  *)
(* history text has been answered for, what is no longer than the overlap   *)
(* and a character was whole in one of its parts, for any text, budgets and *)
(* overlap.                                                                 *)
(* (crates/app/src/dictionary_revision.rs, dictionary_assist.rs,            *)
(* history_revision.rs)                                                    *)
THEOREM ObservedAsWrittenCorrect == RevisionSpec => []ObservedAsWritten
<1>1. RevisionInv => ObservedAsWritten
    <2> SUFFICES ASSUME RevisionInv
                 PROVE  ObservedAsWritten
        OBVIOUS
    <2>1. \A o \in recorded :
             /\ OccursIn(Key(o.review.term), Key(latest))
             /\ o.review.decision = "accept" => Len(o.review.term) >= 2
        BY DEF RevisionInv, InTexts, InText
    <2>2. \A o \in recorded : ending = "history" => \E n \in o.parts :
              ContainsEquivalent(PartsOf[latest][n], o.review.term)
        BY DEF RevisionInv, Cited, InSomePart
    <2>3. \A o, p \in recorded :
             Key(o.review.term) = Key(p.review.term) => o = p \/ o.parts \cap p.parts = {}
        BY DEF RevisionInv, Apart
    <2>4. recorded # {} =>
             ending = "history" \/ (latest # original
                                    /\ ending \in {"FocusLost", "ControlReset", "NextDictation"})
        BY DEF RevisionInv, Learns, Permits
    <2>5. ending = "history" => PartsCover(latest)
        BY TextsAreTexts, PartsCoverTexts DEF RevisionInv
    <2>6. ending = "history" /\ learner = "done" => sent = DOMAIN PartsOf[latest]
        BY DEF RevisionInv
    <2>7. ending = "history" /\ learner = "done" =>
             \A j, k \in DOMAIN latest : k - j \in 0..PartOverlap =>
               \E n \in sent : OccursIn(SubSeq(latest, j, k), PartsOf[latest][n])
        BY <2>5, <2>6 DEF PartsCover
    <2> QED
        BY <2>1, <2>2, <2>3, <2>4, <2>7 DEF ObservedAsWritten
<1> QED
    BY <1>1, RevisionAlways, PTL
=============================================================================
