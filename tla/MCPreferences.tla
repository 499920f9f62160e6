---------------------------- MODULE MCPreferences ----------------------------
(***************************************************************************)
(* One instance for what the application keeps between two dictations: the *)
(* preferences, the history and its key, the dictionary, the local models, *)
(* the providers, the two pages of local data, the schema of the database; *)
(* and for the refinement of a transcript and what is learned of its       *)
(* revision.  The modules share no variable, so a state of their product   *)
(* says nothing more than its parts: a behaviour of this module is a       *)
(* behaviour of one of them, chosen in the initial state, while the others *)
(* stay in one initial state of theirs.                                    *)
(***************************************************************************)
EXTENDS LocalSettings, HistoryStorage, DictionaryLearning, LocalModelLifecycle,
        ProviderSettings, TranscriptRefinement, LocalDataPages, RevisionReview,
        SchemaMigrations

CONSTANTS
    f1, f2, fn, alt,    \* fingerprints, shortcuts
    d1, d2, d3, t1, t2, \* dictations, terms
    m1, m2,             \* local models
    b, u, l,            \* addresses: built-in, remote, on this machine
    r1, r2,             \* threads that complete a dictation
    none

VARIABLE part           \* the module that runs

Parts == {"settings", "storage", "dictionary", "models", "providers", "refinement",
          "history page", "word page", "revision", "migrations"}

\* Transcripts: of short ones all the answers are followed, see OneOfTheOthers.
Plain == <<"git", "1", "1">>
Sayings ==
    {Plain, <<"word", " ", "word">>, <<"1", ",", "word", "no", "2">>, <<"1", "no", "no", "1">>,
     <<"1", ",", "1", "no", "2">>, <<"git", "te rm", "1">>, <<"path", "term", "word">>}

Offer(vendor, k, h) ==
    [address |-> "https", model |-> "m", key |-> k, headers |-> h, profile |-> vendor]
Offers == {Offer("MiniMax", "k1", "plain"), Offer("MiniMax", "k2", "plain"),
           Offer("Portable", "k1", "authorization")}

\* Texts: what was delivered and what became of it, terms, and long texts.
AI == <<"a", "i">>
Heard == {AI \o <<" ", "name">>, <<"b", " ", "a">>, <<"A", "b", "name">>}
Edited ==
    {<<" ">>, <<"b", " ", "a">>, <<"A", "i", " ", "name">>, <<"_", "a", "i", " ", "name">>,
     <<"A", " ", "A", "b">>, <<"a", " ", "name">>, <<"A", "b", " ", "a", "I", "b">>,
     <<"A", "b", "A">>, <<"A", "b", "b", " ", "a", "I">>, <<"b", "_", "A">>,
     <<"name", "name">>, <<"I">>}
Named ==
    {<<"A", "I">>, <<"a", "b">>, <<"A", "b", "b">>, <<"name">>, <<" ">>,
     AI \o <<" ", "name">>, <<"name", "name">>}
Kept == {AI \o <<" ", "name", "a", "b">>, <<"name", "a", "i", "name", "name">>}

Init ==
    /\ part \in Parts
    /\ SettingsInit /\ (part # "settings" => stored.consent = NoConsent)
    /\ StorageInit /\ (part # "storage" => db.rows = {})
    /\ DictionaryInit
    /\ LifecycleInit
    /\ part # "models" => onDisk = {} /\ catalog = [asr |-> "cloud", mode |-> "llm"]
    /\ ProvidersInit /\ (part # "providers" => file.llm = "none")
    /\ RefinementInit
    /\ part # "refinement" => said = Plain /\ terms = {} /\ llm.service.key = "k2"
    /\ PagesInit /\ (part # "word page" => words[1] = t1)
    /\ RevisionInit /\ (part # "revision" => original = <<"b", " ", "a">>)
    /\ MigrationsInit /\ (part # "migrations" => found.version = 0)

Next ==
    /\ UNCHANGED part
    /\ \/ /\ part = "settings" /\ SettingsNext
          /\ UNCHANGED <<storageVars, dictionaryVars, lifecycleVars,
                         providersVars, refinementVars, pagesVars, revisionVars,
                         migrationVars>>
       \/ /\ part = "storage" /\ StorageNext
          /\ UNCHANGED <<settingsVars, dictionaryVars, lifecycleVars,
                         providersVars, refinementVars, pagesVars, revisionVars,
                         migrationVars>>
       \/ /\ part = "dictionary" /\ DictionaryNext
          /\ UNCHANGED <<settingsVars, storageVars, lifecycleVars, providersVars,
                         refinementVars, pagesVars, revisionVars, migrationVars>>
       \/ /\ part = "models" /\ LifecycleNext
          /\ UNCHANGED <<settingsVars, storageVars, dictionaryVars, providersVars,
                         refinementVars, pagesVars, revisionVars, migrationVars>>
       \/ /\ part = "providers" /\ ProvidersNext
          /\ UNCHANGED <<settingsVars, storageVars, dictionaryVars, lifecycleVars,
                         refinementVars, pagesVars, revisionVars, migrationVars>>
       \/ /\ part = "refinement" /\ RefinementNext
          /\ UNCHANGED <<settingsVars, storageVars, dictionaryVars, lifecycleVars,
                         providersVars, pagesVars, revisionVars, migrationVars>>
       \/ /\ part = "history page" /\ HistoryPageNext
          /\ UNCHANGED <<settingsVars, storageVars, dictionaryVars, lifecycleVars,
                         providersVars, refinementVars, revisionVars,
                         migrationVars>>
       \/ /\ part = "word page" /\ WordPageNext
          /\ UNCHANGED <<settingsVars, storageVars, dictionaryVars, lifecycleVars,
                         providersVars, refinementVars, revisionVars,
                         migrationVars>>
       \/ /\ part = "revision" /\ RevisionNext
          /\ UNCHANGED <<settingsVars, storageVars, dictionaryVars, lifecycleVars,
                         providersVars, refinementVars, pagesVars, migrationVars>>
       \/ /\ part = "migrations" /\ MigrationsNext
          /\ UNCHANGED <<settingsVars, storageVars, dictionaryVars, lifecycleVars,
                         providersVars, refinementVars, pagesVars, revisionVars>>

Spec == Init /\ [][Next]_<<settingsVars, storageVars, dictionaryVars,
                           lifecycleVars, providersVars, refinementVars,
                           pagesVars, revisionVars, migrationVars, part>>

\* Dictations are alike: only behaviours that use d1 before d2 before d3.
NamedInOrder ==
    LET named == SpeechesOf(evidenceLog) IN
    (d2 \in named => d1 \in named) /\ (d3 \in named => d2 \in named)

\* What the circuit does not tell from other outcomes of a request.
LikeOthers == {"Timeout", "Quota", "Protocol", "ModelUnavailable", "AbnormalGrowth",
               "NonRefinementWrapper", "ProtectedFragmentChanged"}

\* Other transcripts than the plain one, and such outcomes, are followed in one
\* refinement.
OneOfTheOthers ==
    /\ delivered.status \in LikeOthers => asked <= 1
    /\ IF said = Plain /\ terms = {}
       THEN /\ delivered.status = "Completed" => delivered.text = Plain
            /\ part = "refinement" /\ changed = 0 =>
                  llm.service.key = "k1" /\ llm.service.profile = "MiniMax"
       ELSE asked <= 1 /\ changed = 0

(* The variables of the part that runs hold what the code's types allow; a *)
(* model whose thread is at work has its card pending; every catalog in    *)
(* the providers file is one that the next load accepts; a refinement that *)
(* asks has a processor; and a save goes on only with its dialog open.     *)
PartsTypeOK ==
    CASE part = "settings" -> SettingsTypeOK
      [] part = "storage" -> StorageTypeOK
      [] part = "dictionary" -> DictionaryTypeOK
      [] part = "models" -> LifecycleTypeOK
      [] part = "providers" -> ProvidersTypeOK
      [] part = "refinement" -> RefinementTypeOK
      [] part = "revision" -> RevisionTypeOK
      [] part = "migrations" -> MigrationsTypeOK
      [] OTHER -> PagesTypeOK

(* Consent binds what runs on: texts of the history go to a service only   *)
(* under the consent given for it, and everything goes only where the user *)
(* agreed to send it.                                                      *)
ConsentHolds == ConsentBinds /\ SendsOnlyWhereAgreed
=============================================================================
