--------------------------- MODULE ProviderSettings ---------------------------
(***************************************************************************)
(* providers.json and the models page: which language model refines the    *)
(* dictated text, and to which address text may be sent.                   *)
(*                                                                         *)
(* crates/app/src/settings.rs (the catalog and its changes),               *)
(* crates/app/src/provider_configuration.rs,                               *)
(* crates/infra/src/json_settings_store.rs (the file, one lock per load    *)
(* and per save) and apps/desktop/src/settings_ui/ (the page: the draft,   *)
(* the consent dialog, the connection tests).                              *)
(*                                                                         *)
(* Actors: the UI thread, whose handlers load the catalog, change it and   *)
(* save it, and whose closures reload the page; a thread per connection    *)
(* test, which enables what it tested; a thread that puts a local model    *)
(* into the file (the module LocalModelLifecycle models what it is for).   *)
(* Between the load and the save of one, the others save theirs.           *)
(***************************************************************************)
EXTENDS Integers, Sequences, FiniteSets

CONSTANTS
    BuiltInUrl,     \* the address of the built-in language-model provider
    Addresses,      \* addresses an instance may have
    LocalAddresses, \* those on this machine: no consent is asked
    NoUrl,
    MaxDecisions,   \* bound: clicks that start something
    MaxMishaps,     \* bound: failing saves and connection tests
    MaxTests        \* bound: connection tests at a time

ASSUME ProviderAssumption ==
    /\ BuiltInUrl \in Addresses /\ LocalAddresses \subseteq Addresses
    /\ BuiltInUrl \notin LocalAddresses /\ NoUrl \notin Addresses
    /\ {MaxDecisions, MaxMishaps, MaxTests} \subseteq Nat

VARIABLES
    file,         \* providers.json
    page,         \* what the page shows, its draft, its dialogs
    handler,      \* a handler of the UI thread between its load and its save
    llmTests,     \* threads testing a language model
    writer,       \* the thread that puts a local model into the file
    closures,     \* queued on the event loop
    agreed,       \* history: addresses the user agreed to send text to
    worked,       \* history: addresses a connection test succeeded with
    overwrote,    \* history: a save overwrote a change it had not read
    decisions, mishaps

providersVars == <<file, page, handler, llmTests, writer, closures, agreed,
                   worked, overwrote, decisions, mishaps>>

-----------------------------------------------------------------------------
(* The catalog.  An instance of a language model has its address, whether   *)
(* key and model are filled in, and the address its data consent is for.   *)
Presets == {"builtin", "custom"}
CloudAsr == {"volcengine", "compatible"}
Ids == Presets \cup {"none", "legacy"}
Urls == Addresses \cup {NoUrl}

Instance == [id : Ids \ {"none"}, url : Urls, ready : BOOLEAN,
             enabled : BOOLEAN, consent : Urls]

First(positions) ==
    IF positions = {} THEN 0
    ELSE CHOOSE i \in positions : \A j \in positions : i <= j

ActiveIndex(catalog) ==
    First({i \in DOMAIN catalog.llms : catalog.llms[i].id = catalog.llm})

(* llm_provider_index: a built-in provider is also found by its address, so *)
(* a custom instance with that address passes for it; the custom provider   *)
(* is also found as whatever is active elsewhere.                          *)
LlmIndex(catalog, preset) ==
    LET exact == First({i \in DOMAIN catalog.llms :
                          \/ catalog.llms[i].id = preset
                          \/ preset = "builtin" /\ catalog.llms[i].url = BuiltInUrl})
        active == ActiveIndex(catalog)
    IN  IF exact # 0 \/ preset = "builtin" THEN exact
        ELSE IF active # 0 /\ catalog.llms[active].url # BuiltInUrl THEN active ELSE 0

\* save_llm_provider_settings: consent goes with a change of the address.
SaveLlm(catalog, preset, url) ==
    LET i == LlmIndex(catalog, preset)
        fresh == [id |-> preset, url |-> url, ready |-> TRUE, enabled |-> TRUE,
                  consent |-> NoUrl]
    IN  IF i = 0 THEN [catalog EXCEPT !.llms = Append(@, fresh)]
        ELSE [catalog EXCEPT
                !.llms[i] = [fresh EXCEPT !.consent =
                                IF catalog.llms[i].url = url
                                THEN catalog.llms[i].consent ELSE NoUrl],
                !.llm = IF @ = catalog.llms[i].id THEN preset ELSE @]

\* select_llm_provider, of a provider that has an instance.
SelectLlm(catalog, preset) ==
    [catalog EXCEPT !.llm = catalog.llms[LlmIndex(catalog, preset)].id]

\* save_and_enable_llm_configuration: the consent is for the address tested.
EnableLlm(catalog, preset, url) ==
    LET saved == SelectLlm(SaveLlm(catalog, preset,
                     IF preset = "builtin" THEN BuiltInUrl ELSE url), preset)
        i == ActiveIndex(saved)
    IN  [saved EXCEPT !.llms[i].enabled = TRUE, !.llms[i].consent = url]

(* validate_catalog, called by every save: identities are distinct and the  *)
(* active ones exist.                                                       *)
Valid(catalog) ==
    /\ \A i, j \in DOMAIN catalog.llms :
          catalog.llms[i].id = catalog.llms[j].id => i = j
    /\ catalog.llm # "none" => ActiveIndex(catalog) # 0
    /\ catalog.asr \in CloudAsr => catalog.asr \in catalog.cloud

(* catalog_to_settings: what dictation uses.  The language model counts as  *)
(* enabled only with a consent for the very address it has.                *)
View(catalog) ==
    LET active == ActiveIndex(catalog)
        i == IF active # 0 THEN active ELSE IF catalog.llms = <<>> THEN 0 ELSE 1
    IN  [cloud |-> catalog.cloud,
         asr |-> IF catalog.asr \in CloudAsr THEN catalog.asr ELSE "none",
         url |-> IF i = 0 THEN NoUrl ELSE catalog.llms[i].url,
         ready |-> i # 0 /\ catalog.llms[i].ready,
         confirmed |-> IF i # 0 /\ catalog.llms[i].consent = catalog.llms[i].url
                       THEN catalog.llms[i].url ELSE NoUrl,
         enabled |-> active # 0 /\ catalog.llms[i].enabled
                     /\ catalog.llms[i].consent = catalog.llms[i].url
                     /\ catalog.llms[i].consent # NoUrl]

(* SettingsStore::save: writes a view back into the catalog as it is then.  *)
MergeAsr(catalog, view) ==
    IF view.asr # "none" THEN view.asr
    ELSE IF catalog.asr = "local" THEN "local"
    ELSE IF "volcengine" \in view.cloud \/ catalog.asr \notin view.cloud THEN "none"
    ELSE catalog.asr

MergeLlm(catalog, view) ==
    LET active == ActiveIndex(catalog)
        i == IF active # 0 THEN active ELSE IF catalog.llms = <<>> THEN 0 ELSE 1
        written(id) == [id |-> id, url |-> view.url, ready |-> view.ready,
                        enabled |-> view.enabled,
                        consent |-> IF view.confirmed = view.url THEN view.url ELSE NoUrl]
    IN  IF i = 0 /\ view.url = NoUrl THEN [catalog EXCEPT !.llm = "none"]
        ELSE IF i = 0
        THEN [catalog EXCEPT !.llms = <<written("legacy")>>, !.llm = "legacy"]
        ELSE [catalog EXCEPT !.llms[i] = written(@.id), !.llm = catalog.llms[i].id]

Merge(catalog, view) ==
    [MergeLlm(catalog, view) EXCEPT
        !.asr = MergeAsr(catalog, view), !.cloud = @ \cup view.cloud]


-----------------------------------------------------------------------------
(* The page.                                                               *)

\* llm_provider_settings: the address of the built-in one is known without
\* an instance.
SavedUrl(catalog, preset) ==
    LET i == LlmIndex(catalog, preset)
    IN  IF i # 0 THEN catalog.llms[i].url
        ELSE IF preset = "builtin" THEN BuiltInUrl ELSE NoUrl

SavedReady(catalog, preset) ==
    LET i == LlmIndex(catalog, preset)
    IN  i # 0 /\ catalog.llms[i].ready /\ catalog.llms[i].url # NoUrl

\* active_llm_provider, or the first that is configured.
ShownPreset(catalog) ==
    LET active == ActiveIndex(catalog) IN
    IF active # 0
    THEN IF active = LlmIndex(catalog, "builtin") THEN "builtin" ELSE "custom"
    ELSE IF ~SavedReady(catalog, "builtin") /\ SavedReady(catalog, "custom")
         THEN "custom" ELSE "builtin"

(* apply_loaded_settings: the file goes into the page, over the draft, the  *)
(* address a dialog shows, and the mark that a test is running.            *)
Reloaded(shown, catalog) ==
    LET preset == ShownPreset(catalog)
        url == SavedUrl(catalog, preset)
    IN  [shown EXCEPT
            !.provider = preset, !.draft = url, !.target = url, !.testing = FALSE,
            !.enabled = View(catalog).enabled /\ SavedReady(catalog, preset)
                        /\ View(catalog).confirmed = url]

\* llm_consent_required; local addresses need none.  Mutant: the consent for
\* one address serves every other.
ConsentRequired_Once(view, url) ==
    url \notin LocalAddresses /\ view.confirmed = NoUrl

ConsentRequired(view, url) ==
    url \notin LocalAddresses /\ view.confirmed # url

\* The address of the candidate: that of a built-in provider is not editable.
DraftUrl == IF page.provider = "builtin" THEN BuiltInUrl ELSE page.draft

-----------------------------------------------------------------------------
NotBusy == [at |-> "idle"]

(* The first start, or an older version's file in the present format: its   *)
(* provider with the consent given there, or without.                      *)
ProvidersInit ==
    /\ \E url \in Addresses \ LocalAddresses, consents \in BOOLEAN, fresh \in BOOLEAN :
         /\ file = [asr |-> "volcengine", cloud |-> {"volcengine"},
                    llm |-> IF fresh THEN "none" ELSE "legacy",
                    llms |-> IF fresh THEN <<>> ELSE
                        <<[id |-> "legacy", url |-> url, ready |-> TRUE, enabled |-> TRUE,
                           consent |-> IF consents THEN url ELSE NoUrl]>>]
         /\ agreed = IF consents /\ ~fresh THEN {url} ELSE {}
    /\ worked = agreed /\ overwrote = FALSE
    /\ page = Reloaded([provider |-> "builtin", draft |-> NoUrl, target |-> NoUrl,
                        enabled |-> FALSE, testing |-> FALSE, modal |-> FALSE,
                        dialog |-> "none"], file)
    /\ handler = NotBusy /\ llmTests = {} /\ writer = NotBusy /\ closures = <<>>
    /\ decisions = 0 /\ mishaps = 0

Fails == mishaps < MaxMishaps /\ mishaps' = mishaps + 1
Works == mishaps' = mishaps

\* save_catalog of what was made from a catalog read before: an invalid one
\* is refused, a valid one may fail to be written.
Saves(read, catalog) ==
    /\ Valid(catalog) /\ Works
    /\ file' = catalog
    /\ overwrote' = (overwrote \/ file # read)

SaveFails(catalog) ==
    /\ IF Valid(catalog) THEN Fails ELSE Works
    /\ UNCHANGED <<file, overwrote>>

\* What the user can click: nothing while a handler runs; the consent dialog
\* lies over everything, the provider's own dialog over the page.
AtPage == handler = NotBusy /\ page.dialog = "none"
Decides ==
    /\ AtPage
    /\ decisions < MaxDecisions /\ decisions' = decisions + 1

StartTest(kind, url) ==
    /\ Cardinality(llmTests) < MaxTests
    /\ llmTests' = llmTests \cup
         {[kind |-> kind, provider |-> page.provider, url |-> url,
           at |-> IF kind = "saved" THEN "reading" ELSE "testing"]}

-----------------------------------------------------------------------------
(* Editing and trying a provider.                                          *)

\* open_llm_config loads its saved address into the draft; the user may type
\* another one where it is editable.
OpenProvider(preset, url) ==
    /\ AtPage /\ ~page.modal
    /\ preset = "builtin" => url = SavedUrl(file, preset)
    /\ page' = [page EXCEPT !.provider = preset, !.draft = url, !.modal = TRUE]
    /\ UNCHANGED <<file, handler, llmTests, writer, closures, agreed, worked,
                   overwrote, decisions, mishaps>>

\* Closing it puts the active provider back; not while a test is shown.
CloseProvider ==
    /\ AtPage /\ page.modal /\ ~page.testing
    /\ LET active == ShownPreset(file) IN
       page' = [page EXCEPT !.provider = active, !.draft = SavedUrl(file, active),
                            !.modal = FALSE]
    /\ UNCHANGED <<file, handler, llmTests, writer, closures, agreed, worked,
                   overwrote, decisions, mishaps>>

\* save_llm_config (begin_activation): the draft is tested, at once when the
\* address is local or the one agreed to, otherwise after the dialog.
TryDraft ==
    /\ Decides /\ page.modal /\ ~page.testing /\ DraftUrl # NoUrl
    /\ IF ConsentRequired(View(file), DraftUrl)
       THEN /\ page' = [page EXCEPT !.target = DraftUrl, !.dialog = "draft"]
            /\ UNCHANGED llmTests
       ELSE /\ page' = [page EXCEPT !.target = DraftUrl, !.testing = TRUE]
            /\ StartTest("draft", DraftUrl)
    /\ UNCHANGED <<file, handler, writer, closures, agreed, worked, overwrote, mishaps>>

\* request_llm_enable: the same for the provider as it is saved.
RequestEnable ==
    /\ Decides /\ ~page.testing /\ SavedReady(file, page.provider)
    /\ LET url == SavedUrl(file, page.provider) IN
       IF ConsentRequired(View(file), url)
       THEN /\ page' = [page EXCEPT !.target = url, !.dialog = "saved"]
            /\ UNCHANGED llmTests
       ELSE /\ page' = [page EXCEPT !.target = url, !.testing = TRUE, !.enabled = FALSE]
            /\ StartTest("saved", url)
    /\ UNCHANGED <<file, handler, writer, closures, agreed, worked, overwrote, mishaps>>

\* The user agrees to the address the dialog shows.  The draft is tested if it
\* still has it (confirm_llm_config) ...
AgreeToDraft ==
    /\ handler = NotBusy /\ page.dialog = "draft"
    /\ agreed' = agreed \cup {page.target}
    /\ IF DraftUrl = page.target
       THEN /\ page' = [page EXCEPT !.dialog = "none", !.testing = TRUE]
            /\ StartTest("draft", DraftUrl)
       ELSE /\ page' = [page EXCEPT !.dialog = "none"]
            /\ UNCHANGED llmTests
    /\ UNCHANGED <<file, handler, writer, closures, worked, overwrote, decisions, mishaps>>

\* ... and so is the saved provider (set_llm_enabled), its consent stored
\* first: persist_llm_consent loads the settings ...
AgreeToSaved ==
    /\ handler = NotBusy /\ page.dialog = "saved"
    /\ agreed' = agreed \cup {page.target}
    /\ page' = [page EXCEPT !.dialog = "none"]
    /\ handler' = IF SavedUrl(file, page.provider) = page.target
                  THEN [at |-> "consenting", read |-> file,
                        view |-> [View(file) EXCEPT !.enabled = FALSE,
                                                    !.confirmed = page.target]]
                  ELSE NotBusy
    /\ UNCHANGED <<file, llmTests, writer, closures, worked, overwrote, decisions, mishaps>>

\* ... and saves them.
ConsentSaved ==
    /\ handler.at = "consenting"
    /\ handler' = NotBusy
    /\ LET catalog == Merge(file, handler.view) IN
       \/ /\ Saves(handler.read, catalog)
          /\ page' = [page EXCEPT !.testing = TRUE, !.enabled = FALSE]
          /\ StartTest("saved", handler.view.confirmed)
       \/ SaveFails(catalog) /\ UNCHANGED <<page, llmTests>>
    /\ UNCHANGED <<writer, closures, agreed, worked, decisions>>

Refuse ==
    /\ handler = NotBusy /\ page.dialog # "none"
    /\ page' = [page EXCEPT !.dialog = "none"]
    /\ UNCHANGED <<file, handler, llmTests, writer, closures, agreed, worked,
                   overwrote, decisions, mishaps>>

-----------------------------------------------------------------------------
(* The thread of a connection test (ProviderConfigurator::configure_llm).  *)
Concludes(t, enables) ==
    /\ llmTests' = llmTests \ {t}
    /\ closures' = Append(closures, [reload |-> enables \/ t.kind = "saved"])

Becomes(t, u) == llmTests' = (llmTests \ {t}) \cup {u} /\ UNCHANGED closures

\* test_and_enable_llm reads the provider again before it tests it.
TestReads(t) ==
    /\ t \in llmTests /\ t.at = "reading"
    /\ IF SavedReady(file, t.provider)
       THEN Becomes(t, [t EXCEPT !.url = SavedUrl(file, t.provider), !.at = "testing"])
       ELSE Concludes(t, FALSE)
    /\ UNCHANGED <<file, page, handler, writer, agreed, worked, overwrote, decisions, mishaps>>

TestAnswers(t) ==
    /\ t \in llmTests /\ t.at = "testing"
    /\ \/ /\ Works
          /\ worked' = worked \cup {t.url}
          /\ Becomes(t, [t EXCEPT !.at = "saving"])
       \/ Fails /\ Concludes(t, FALSE) /\ UNCHANGED worked
    /\ UNCHANGED <<file, page, handler, writer, agreed, overwrote, decisions>>

\* save_and_enable_llm_configuration: load, change and save under one lock.
TestEnables(t) ==
    /\ t \in llmTests /\ t.at = "saving"
    /\ LET catalog == EnableLlm(file, t.provider, t.url) IN
       \/ Saves(file, catalog) /\ Concludes(t, TRUE)
       \/ SaveFails(catalog) /\ Concludes(t, FALSE)
    /\ UNCHANGED <<page, handler, writer, agreed, worked, decisions>>

\* The closure reloads the page, or only ends the test of a draft.
ClosureRuns ==
    /\ handler = NotBusy /\ closures # <<>>
    /\ closures' = Tail(closures)
    /\ page' = IF Head(closures).reload THEN Reloaded(page, file)
               ELSE [page EXCEPT !.testing = FALSE]
    /\ UNCHANGED <<file, handler, llmTests, writer, agreed, worked, overwrote, decisions, mishaps>>

-----------------------------------------------------------------------------
(* Switching.                                                              *)

\* set_llm_enabled(false) loads the settings ...
TurnOff ==
    /\ Decides /\ ~page.modal /\ page.enabled /\ ~page.testing
    /\ handler' = [at |-> "turning off", read |-> file, view |-> [View(file) EXCEPT !.enabled = FALSE]]
    /\ UNCHANGED <<file, page, llmTests, writer, closures, agreed, worked, overwrote, mishaps>>

\* ... and saves them.
TurnedOff ==
    /\ handler.at = "turning off"
    /\ handler' = NotBusy
    /\ LET catalog == Merge(file, handler.view) IN
       \/ Saves(handler.read, catalog) /\ page' = [page EXCEPT !.enabled = FALSE]
       \/ SaveFails(catalog) /\ page' = [page EXCEPT !.enabled = TRUE]
    /\ UNCHANGED <<llmTests, writer, closures, agreed, worked, decisions>>

\* select_configured_llm_provider and select_configured_asr_provider load the
\* catalog and change it ...
SelectProvider ==
    /\ Decides /\ page.modal /\ ~page.testing
    /\ SavedReady(file, page.provider)
    /\ handler' = [at |-> "selecting", read |-> file, catalog |-> SelectLlm(file, page.provider)]
    /\ UNCHANGED <<file, page, llmTests, writer, closures, agreed, worked, overwrote, mishaps>>

SelectCloudAsr(asr) ==
    /\ Decides /\ ~page.modal /\ asr \in file.cloud
    /\ handler' = [at |-> "selecting", read |-> file, catalog |-> [file EXCEPT !.asr = asr]]
    /\ UNCHANGED <<file, page, llmTests, writer, closures, agreed, worked, overwrote, mishaps>>

\* ... and save what they loaded.
Selected ==
    /\ handler.at = "selecting"
    /\ handler' = NotBusy
    /\ \/ Saves(handler.read, handler.catalog) /\ page' = Reloaded(page, file')
       \/ SaveFails(handler.catalog) /\ UNCHANGED page
    /\ UNCHANGED <<llmTests, writer, closures, agreed, worked, decisions>>

\* configure_asr, on its thread: one lock for load and save.
ConfigureAsr(asr) ==
    /\ decisions < MaxDecisions /\ decisions' = decisions + 1
    /\ file' = [file EXCEPT !.cloud = @ \cup {asr}]
    /\ UNCHANGED <<page, handler, llmTests, writer, closures, agreed, worked, overwrote, mishaps>>

\* A thread that activates a local model loads the whole catalog ...
WriterReads ==
    /\ writer = NotBusy
    /\ decisions < MaxDecisions /\ decisions' = decisions + 1
    /\ writer' = [at |-> "writing", read |-> file]
    /\ UNCHANGED <<file, page, handler, llmTests, closures, agreed, worked, overwrote, mishaps>>

\* ... and saves it with the model; its closure reloads the page.
WriterSaves ==
    /\ writer.at = "writing"
    /\ writer' = NotBusy
    /\ Saves(writer.read, [writer.read EXCEPT !.asr = "local"])
    /\ closures' = Append(closures, [reload |-> TRUE])
    /\ UNCHANGED <<page, handler, llmTests, agreed, worked, decisions>>

ProvidersNext ==
    \/ \E preset \in Presets, url \in Addresses : OpenProvider(preset, url)
    \/ CloseProvider \/ TryDraft \/ RequestEnable
    \/ AgreeToDraft \/ AgreeToSaved \/ ConsentSaved \/ Refuse
    \/ \E t \in llmTests : TestReads(t) \/ TestAnswers(t) \/ TestEnables(t)
    \/ ClosureRuns
    \/ TurnOff \/ TurnedOff \/ SelectProvider \/ Selected
    \/ \E asr \in CloudAsr : SelectCloudAsr(asr) \/ ConfigureAsr(asr)
    \/ WriterReads \/ WriterSaves

ProvidersSpec == ProvidersInit /\ [][ProvidersNext]_providersVars

-----------------------------------------------------------------------------
\* The variables hold what the code's types allow, and the file is one every
\* load accepts.
ProvidersTypeOK ==
    /\ file \in [asr : CloudAsr \cup {"none", "local"}, cloud : SUBSET CloudAsr,
                 llm : Ids, llms : Seq(Instance)]
    /\ Valid(file)
    /\ page \in [provider : Presets, draft : Urls, target : Urls, enabled : BOOLEAN,
                 testing : BOOLEAN, modal : BOOLEAN, dialog : {"none", "draft", "saved"}]
    /\ handler.at \in {"idle", "consenting", "turning off", "selecting"}
    /\ llmTests \subseteq [kind : {"draft", "saved"}, provider : Presets, url : Urls,
                           at : {"reading", "testing", "saving"}]
    /\ writer.at \in {"idle", "writing"}
    /\ closures \in Seq([reload : BOOLEAN])
    /\ agreed \subseteq Urls /\ worked \subseteq Urls
    /\ decisions \in 0..MaxDecisions /\ mishaps \in 0..MaxMishaps

(* Text is sent only where the user agreed to: whatever the tests, the      *)
(* dialogs and the threads that write the same file did to each other, the  *)
(* address of the language model in use is local or one a dialog showed     *)
(* when the user agreed, and a connection test succeeded with it.          *)
SendsOnlyWhereAgreed ==
    View(file).enabled /\ ~overwrote =>
        /\ View(file).url \in agreed \cup LocalAddresses
        /\ View(file).url \in worked
=============================================================================
