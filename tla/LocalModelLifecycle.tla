-------------------------- MODULE LocalModelLifecycle --------------------------
(***************************************************************************)
(* Choosing, preloading, testing and deleting the recognition models that  *)
(* run on this machine, and the punctuation model that goes with one of    *)
(* them: apps/desktop/src/local_model_runtime.rs and its modules           *)
(* lifecycle.rs, recognition_test.rs, punctuation.rs and state.rs, the     *)
(* memory of apps/desktop/src/asr_runtime.rs, and the choice of a cloud    *)
(* recogniser in apps/desktop/src/settings_ui/asr_configuration.rs.        *)
(*                                                                         *)
(* Actors: the UI thread (clicks, and the closures other threads post to   *)
(* it), one thread per model being activated or preloaded, the threads     *)
(* that load a model to use it (a test, a dictation), and one thread for   *)
(* the punctuation model.  All change the same file, providers.json: load  *)
(* and save each hold its lock, the two together do not.  Loading a model  *)
(* holds the lock of its slot, so it is one step for those who clear it.   *)
(***************************************************************************)
EXTENDS Integers, Sequences, FiniteSets

CONSTANTS
    Models,         \* recognition models
    Paraformer,     \* the one the punctuation model serves
    MaxClicks,      \* bound: clicks, downloads and dictations
    MaxFaults,      \* bound: failing saves, loads, self-tests and removals
    MaxLaunches     \* bound: restarts

ASSUME LifecycleAssumption ==
    /\ Paraformer \in Models
    /\ Models \cap {"cloud", "none", "punctuation"} = {}
    /\ {MaxClicks, MaxFaults, MaxLaunches} \subseteq Nat

VARIABLES
    catalog,      \* providers.json: the recogniser in use, the punctuation mode
    selected,     \* the recogniser the page shows as selected
    choosing,     \* a handler of the UI thread between its load and its save
    activation,   \* the thread that activates or preloads each model
    activating,   \* activation_pending of each card
    finished,     \* closures queued on the event loop
    using,        \* models a test or a dictation is about to load
    punctuation,  \* the thread of the punctuation model (busy)
    memory,       \* who loaded each model that is in memory
    punctuates,   \* the punctuation model is in memory
    onDisk,       \* models installed, "punctuation" among them
    lost,         \* history: a save overwrote a change it had not read
    unsaved,      \* history: a deleted punctuation model is still the mode
    clicks, modelFaults, launches

lifecycleVars == <<catalog, selected, choosing, activation, activating,
                   finished, using, punctuation, memory, punctuates, onDisk,
                   lost, unsaved, clicks, modelFaults, launches>>
threadVars == <<activation, activating, finished, using, punctuation>>
memoryVars == <<memory, punctuates>>
historyVars == <<lost, unsaved>>
boundVars == <<clicks, modelFaults, launches>>

-----------------------------------------------------------------------------
Recognisers == Models \cup {"cloud", "none"}
Modes == {"llm", "local"}
ProviderFiles == [asr : Recognisers, mode : Modes]
Loaders == {"nobody", "activation", "another"}
NotRunning == [at |-> "idle"]

Clicks == clicks < MaxClicks /\ clicks' = clicks + 1
Goes == modelFaults' = modelFaults
Faults == modelFaults < MaxFaults /\ modelFaults' = modelFaults + 1

\* save_catalog of a catalog loaded before: whatever was saved in between goes.
Writes(read, written) ==
    /\ catalog' = written
    /\ lost' = (lost \/ catalog # read)

\* asr_runtime::*_runtime: loads the model unless it is in memory.
LoadedFor(m, who) == [memory EXCEPT ![m] = IF @ = "nobody" THEN who ELSE @]
Cleared(m) == [memory EXCEPT ![m] = "nobody"]

(* apply_loaded_settings and the callback it ends with: the page shows what *)
(* the file selects, and every other model leaves memory.                  *)
Reload ==
    /\ selected' = catalog'.asr
    /\ memory' = [m \in Models |-> IF m = selected' THEN memory[m] ELSE "nobody"]
    /\ punctuates' = (punctuates /\ selected' = Paraformer)

-----------------------------------------------------------------------------
(* Choosing a recogniser.                                                  *)

\* The page is modal for the handler: no other click, no closure meanwhile.
AtLeisure == choosing = NotRunning

SelectModel(m) ==
    /\ AtLeisure /\ Clicks
    /\ m \in onDisk /\ ~activating[m] /\ selected # m
    /\ activating' = [activating EXCEPT ![m] = TRUE]
    /\ activation' = [activation EXCEPT ![m] = [at |-> "starting"]]
    /\ UNCHANGED <<catalog, selected, choosing, finished, using, punctuation,
                   memoryVars, onDisk, historyVars, modelFaults, launches>>

\* select_configured_asr_provider loads the catalog ...
SelectCloud ==
    /\ AtLeisure /\ Clicks
    /\ choosing' = [at |-> "cloud", read |-> catalog]
    /\ UNCHANGED <<catalog, selected, threadVars, memoryVars, onDisk,
                   historyVars, modelFaults, launches>>

\* ... and saves it, with the cloud recogniser; the page is reloaded.
CloudSelected ==
    /\ choosing.at = "cloud"
    /\ choosing' = NotRunning
    /\ \/ /\ Goes
          /\ Writes(choosing.read, [choosing.read EXCEPT !.asr = "cloud"])
          /\ Reload
       \/ /\ Faults
          /\ UNCHANGED <<catalog, selected, memoryVars, lost>>
    /\ UNCHANGED <<threadVars, onDisk, unsaved, clicks, launches>>

-----------------------------------------------------------------------------
(* lifecycle::activate, on a thread of its own.                            *)
Ends(m, reload) ==
    /\ activation' = [activation EXCEPT ![m] = NotRunning]
    /\ finished' = Append(finished, [model |-> m, reload |-> reload])

ActivationReads(m) ==
    /\ activation[m].at = "starting"
    /\ activation' = [activation EXCEPT ![m] =
                        [at |-> "preparing", expected |-> catalog.asr]]
    /\ UNCHANGED <<catalog, selected, choosing, activating, finished, using,
                   punctuation, memoryVars, onDisk, historyVars, boundVars>>

(* prepare: a model that cannot be loaded leaves nothing; one that fails    *)
(* its self-test stays in memory, for nothing clears it.                   *)
ActivationPrepares(m) ==
    /\ activation[m].at = "preparing"
    /\ \/ /\ Goes
          /\ memory' = LoadedFor(m, "activation")
          /\ activation' = [activation EXCEPT ![m].at = "prepared"]
          /\ UNCHANGED finished
       \/ /\ Faults
          /\ memory' \in {memory, LoadedFor(m, "another")}
          /\ Ends(m, FALSE)
    /\ UNCHANGED <<catalog, selected, choosing, activating, using, punctuation,
                   punctuates, onDisk, historyVars, clicks, launches>>

\* The other provider or the failed save is reported; the model is cleared.
GivesUp(m) == Ends(m, FALSE) /\ memory' = Cleared(m)

\* The recogniser must still be the one it was before the model was loaded.
ActivationChecks(m) ==
    /\ activation[m].at = "prepared"
    /\ IF catalog.asr = activation[m].expected
       THEN /\ activation' = [activation EXCEPT ![m] =
                 [at |-> "saving", expected |-> @.expected, read |-> catalog]]
            /\ UNCHANGED <<finished, memory>>
       ELSE GivesUp(m)
    /\ UNCHANGED <<catalog, selected, choosing, activating, using, punctuation,
                   punctuates, onDisk, historyVars, boundVars>>

ActivationSaves(m) ==
    /\ activation[m].at = "saving"
    /\ \/ /\ Goes
          /\ Writes(activation[m].read, [activation[m].read EXCEPT !.asr = m])
          /\ activation' = [activation EXCEPT ![m] =
                              [at |-> "saved", expected |-> @.expected]]
          /\ UNCHANGED <<finished, memory>>
       \/ /\ Faults
          /\ GivesUp(m)
          /\ UNCHANGED <<catalog, lost>>
    /\ UNCHANGED <<selected, choosing, activating, using, punctuation,
                   punctuates, onDisk, unsaved, clicks, launches>>

(* The model it replaced is cleared, and the punctuation model prepared     *)
(* with the recogniser it serves (a failure of that is only logged).       *)
ActivationConcludes(m) ==
    /\ activation[m].at = "saved"
    /\ LET previous == activation[m].expected IN
       memory' = IF previous \in Models \ {m} THEN Cleared(previous) ELSE memory
    /\ IF m = Paraformer /\ catalog.mode = "local" /\ "punctuation" \in onDisk
       THEN \/ punctuates' = TRUE /\ Goes
            \/ Faults /\ UNCHANGED punctuates
       ELSE Goes /\ UNCHANGED punctuates
    /\ Ends(m, TRUE)
    /\ UNCHANGED <<catalog, selected, choosing, activating, using, punctuation,
                   onDisk, historyVars, clicks, launches>>

\* preload_selected_model, at launch: no catalog is read and none is written.
Preloads(m) ==
    /\ activation[m].at = "preloading"
    /\ \/ Goes /\ memory' = LoadedFor(m, "another")
       \/ Faults /\ memory' \in {memory, LoadedFor(m, "another")}
    /\ Ends(m, FALSE)
    /\ UNCHANGED <<catalog, selected, choosing, activating, using, punctuation,
                   punctuates, onDisk, historyVars, clicks, launches>>

\* Mutant of ActivationEnds: the end of one activation frees every card.
ActivationEnds_EveryCard ==
    /\ AtLeisure /\ finished # <<>>
    /\ finished' = Tail(finished)
    /\ activating' = [m \in Models |-> FALSE]
    /\ UNCHANGED catalog
    /\ IF Head(finished).reload THEN Reload ELSE UNCHANGED <<selected, memoryVars>>
    /\ UNCHANGED <<choosing, activation, using, punctuation, onDisk,
                   historyVars, boundVars>>

ActivationEnds ==
    /\ AtLeisure /\ finished # <<>>
    /\ finished' = Tail(finished)
    /\ activating' = [activating EXCEPT ![Head(finished).model] = FALSE]
    /\ UNCHANGED catalog
    /\ IF Head(finished).reload THEN Reload ELSE UNCHANGED <<selected, memoryVars>>
    /\ UNCHANGED <<choosing, activation, using, punctuation, onDisk,
                   historyVars, boundVars>>

-----------------------------------------------------------------------------
(* Using and deleting models.                                              *)

(* A test of any installed model, or a dictation with the selected one: the *)
(* model is loaded a moment later, whatever was cleared in between.        *)
UseModel(m) ==
    /\ AtLeisure /\ Clicks
    /\ m \notin using
    /\ \/ m \in onDisk /\ ~activating[m]
       \/ catalog.asr = m
    /\ using' = using \cup {m}
    /\ UNCHANGED <<catalog, selected, choosing, activation, activating, finished,
                   punctuation, memoryVars, onDisk, historyVars, modelFaults,
                   launches>>

UseLoads(m) ==
    /\ m \in using
    /\ using' = using \ {m}
    /\ memory' = IF m \in onDisk THEN LoadedFor(m, "another") ELSE memory
    /\ UNCHANGED <<catalog, selected, choosing, activation, activating, finished,
                   punctuation, punctuates, onDisk, historyVars, boundVars>>

\* Mutant of Deletable: a model that is being activated can be deleted.
Deletable_WhileActivating(m) == m \in onDisk /\ catalog.asr # m

Deletable(m) == m \in onDisk /\ ~activating[m] /\ catalog.asr # m

\* wire_delete and lifecycle::delete: refused for the active model, and for
\* one whose activation is pending.
DeleteModel(m) ==
    /\ AtLeisure /\ Clicks
    /\ Deletable(m)
    /\ memory' = Cleared(m)
    /\ \/ /\ Goes
          /\ onDisk' = onDisk \ {m}
          /\ selected' = IF selected = m THEN "none" ELSE selected
       \/ Faults /\ UNCHANGED <<onDisk, selected>>
    /\ UNCHANGED <<catalog, choosing, threadVars, punctuates, historyVars, launches>>

\* A download of the model ends (the module ModelDownload models it).
ModelArrives(m) ==
    /\ Clicks
    /\ m \notin onDisk
    /\ onDisk' = onDisk \cup {m}
    /\ UNCHANGED <<catalog, selected, choosing, threadVars, memoryVars,
                   historyVars, modelFaults, launches>>

-----------------------------------------------------------------------------
(* The punctuation model.                                                  *)

\* request_punctuation_mode, local, or request_punctuation_download: one
\* thread at a time.
PunctuateLocally ==
    /\ AtLeisure /\ Clicks
    /\ punctuation = NotRunning
    /\ punctuation' = [at |-> IF "punctuation" \in onDisk THEN "activating"
                              ELSE "downloading"]
    /\ UNCHANGED <<catalog, selected, choosing, activation, activating, finished,
                   using, memoryVars, onDisk, historyVars, modelFaults, launches>>

PunctuationArrives ==
    /\ punctuation.at = "downloading"
    /\ \/ /\ Goes
          /\ onDisk' = onDisk \cup {"punctuation"}
          /\ punctuation' = [at |-> "activating"]
       \/ Faults /\ punctuation' = NotRunning /\ UNCHANGED onDisk
    /\ UNCHANGED <<catalog, selected, choosing, activation, activating, finished,
                   using, memoryVars, historyVars, clicks, launches>>

\* The model is loaded only for a recogniser that was active just before.
PunctuationReads ==
    /\ punctuation.at = "activating"
    /\ punctuation' = [at |-> IF catalog.asr = Paraformer THEN "preparing"
                              ELSE "prepared"]
    /\ UNCHANGED <<catalog, selected, choosing, activation, activating, finished,
                   using, memoryVars, onDisk, historyVars, boundVars>>

PunctuationPrepares ==
    /\ punctuation.at = "preparing"
    /\ \/ Goes /\ punctuates' = TRUE /\ punctuation' = [at |-> "prepared"]
       \/ Faults /\ punctuation' = NotRunning /\ UNCHANGED punctuates
    /\ UNCHANGED <<catalog, selected, choosing, activation, activating, finished,
                   using, memory, onDisk, historyVars, clicks, launches>>

\* save_mode: load ...
PunctuationLoadsCatalog ==
    /\ punctuation.at = "prepared"
    /\ punctuation' = [at |-> "saving", read |-> catalog]
    /\ UNCHANGED <<catalog, selected, choosing, activation, activating, finished,
                   using, memoryVars, onDisk, historyVars, boundVars>>

\* ... and save.
PunctuationSaves ==
    /\ punctuation.at = "saving"
    /\ punctuation' = NotRunning
    /\ \/ /\ Goes
          /\ Writes(punctuation.read, [punctuation.read EXCEPT !.mode = "local"])
          /\ UNCHANGED unsaved
       \/ Faults /\ UNCHANGED <<catalog, historyVars>>
    /\ UNCHANGED <<selected, choosing, activation, activating, finished, using,
                   memoryVars, onDisk, clicks, launches>>

\* request_punctuation_mode, llm: not refused while the thread is at work.
PunctuateByLlm ==
    /\ AtLeisure /\ Clicks
    /\ choosing' = [at |-> "llm", read |-> catalog]
    /\ UNCHANGED <<catalog, selected, threadVars, memoryVars, onDisk,
                   historyVars, modelFaults, launches>>

\* request_punctuation_delete: the files go first, then the mode is saved.
DeletePunctuation ==
    /\ AtLeisure /\ Clicks
    /\ punctuation = NotRunning
    /\ "punctuation" \in onDisk
    /\ punctuates' = FALSE
    /\ \/ /\ Goes
          /\ onDisk' = onDisk \ {"punctuation"}
          /\ choosing' = [at |-> "removed", read |-> catalog]
       \/ Faults /\ UNCHANGED <<onDisk, choosing>>
    /\ UNCHANGED <<catalog, selected, threadVars, memory, historyVars, launches>>

\* save_mode of llm, for either: only the first clears memory after it.
ModeSaved ==
    /\ choosing.at \in {"llm", "removed"}
    /\ choosing' = NotRunning
    /\ \/ /\ Goes
          /\ Writes(choosing.read, [choosing.read EXCEPT !.mode = "llm"])
          /\ punctuates' = (punctuates /\ choosing.at = "removed")
          /\ UNCHANGED unsaved
       \/ /\ Faults
          /\ unsaved' = (unsaved \/ choosing.at = "removed")
          /\ UNCHANGED <<catalog, punctuates, lost>>
    /\ UNCHANGED <<selected, threadVars, memory, onDisk, clicks, launches>>

-----------------------------------------------------------------------------
(* Launch: reconcile takes back what the file selects and the disk does not *)
(* have; the selected models are preloaded.  A crash leaves the file and    *)
(* the disk as they are, at any point between two steps.                   *)
Reconciled(file, disk) ==
    [asr |-> IF file.asr \in Models \ disk THEN "none" ELSE file.asr,
     mode |-> IF "punctuation" \notin disk THEN "llm" ELSE file.mode]

PreloadPending(file) == [m \in Models |-> m = file.asr]
PreloadThreads(file) ==
    [m \in Models |-> IF m = file.asr THEN [at |-> "preloading"] ELSE NotRunning]
PunctuationThread(file) ==
    IF file = [asr |-> Paraformer, mode |-> "local"] THEN [at |-> "activating"]
    ELSE NotRunning
NothingLoaded == [m \in Models |-> "nobody"]

LifecycleInit ==
    /\ onDisk \in SUBSET (Models \cup {"punctuation"})
    /\ \E asr \in Models \cup {"cloud"}, mode \in Modes :
          catalog = Reconciled([asr |-> asr, mode |-> mode], onDisk)
    /\ selected = catalog.asr
    /\ activating = PreloadPending(catalog)
    /\ activation = PreloadThreads(catalog)
    /\ punctuation = PunctuationThread(catalog)
    /\ choosing = NotRunning /\ finished = <<>> /\ using = {}
    /\ memory = NothingLoaded /\ punctuates = FALSE
    /\ lost = FALSE /\ unsaved = FALSE
    /\ clicks = 0 /\ modelFaults = 0 /\ launches = 0

\* Between two launches the user may remove a model from the disk by hand.
Restart ==
    /\ launches < MaxLaunches
    /\ launches' = launches + 1
    /\ \/ Goes /\ onDisk' = onDisk
       \/ Faults /\ \E d \in onDisk : onDisk' = onDisk \ {d}
    /\ catalog' = Reconciled(catalog, onDisk')
    /\ selected' = catalog'.asr
    /\ activating' = PreloadPending(catalog')
    /\ activation' = PreloadThreads(catalog')
    /\ punctuation' = PunctuationThread(catalog')
    /\ choosing' = NotRunning /\ finished' = <<>> /\ using' = {}
    /\ memory' = NothingLoaded /\ punctuates' = FALSE
    /\ lost' = FALSE /\ unsaved' = FALSE
    /\ UNCHANGED clicks

LifecycleNext ==
    \/ \E m \in Models :
          \/ SelectModel(m) \/ ActivationReads(m) \/ ActivationPrepares(m)
          \/ ActivationChecks(m) \/ ActivationSaves(m) \/ ActivationConcludes(m)
          \/ Preloads(m) \/ UseModel(m) \/ UseLoads(m)
          \/ DeleteModel(m) \/ ModelArrives(m)
    \/ SelectCloud \/ CloudSelected \/ ActivationEnds
    \/ PunctuateLocally \/ PunctuationArrives \/ PunctuationReads
    \/ PunctuationPrepares \/ PunctuationLoadsCatalog \/ PunctuationSaves
    \/ PunctuateByLlm \/ DeletePunctuation \/ ModeSaved
    \/ Restart

LifecycleSpec == LifecycleInit /\ [][LifecycleNext]_lifecycleVars

-----------------------------------------------------------------------------
ActivationStates ==
    [at : {"idle", "starting", "preloading"}]
    \cup [at : {"preparing", "prepared", "saved"}, expected : Recognisers]
    \cup [at : {"saving"}, expected : Recognisers, read : ProviderFiles]

(* The variables hold what the code's types allow; a model whose thread is  *)
(* at work has its card pending.                                           *)
LifecycleTypeOK ==
    /\ catalog \in ProviderFiles /\ selected \in Recognisers
    /\ choosing \in {NotRunning} \cup [at : {"cloud", "llm", "removed"}, read : ProviderFiles]
    /\ activation \in [Models -> ActivationStates]
    /\ activating \in [Models -> BOOLEAN]
    /\ finished \in Seq([model : Models, reload : BOOLEAN])
    /\ using \subseteq Models
    /\ punctuation \in
         [at : {"idle", "downloading", "activating", "preparing", "prepared"}]
         \cup [at : {"saving"}, read : ProviderFiles]
    /\ memory \in [Models -> Loaders] /\ punctuates \in BOOLEAN
    /\ onDisk \subseteq Models \cup {"punctuation"}
    /\ \A m \in Models : activation[m] # NotRunning => activating[m]

(* What the file selects is on the disk, whatever was activated and deleted *)
(* while the other models were loading: a dictation never starts with a     *)
(* model that is gone.  (Unless a save overwrote another one: lost; or the  *)
(* files of the punctuation model went and the mode could not be saved.)   *)
SelectedIsInstalled ==
    ~lost =>
        /\ catalog.asr \in Models => catalog.asr \in onDisk
        /\ catalog.mode = "local" /\ choosing.at # "removed" /\ ~unsaved
             => "punctuation" \in onDisk

(* An activation leaves in memory only the model that is selected: however  *)
(* it ended, and whichever others ran next to it, what it loaded is the     *)
(* selected model or has been cleared once its closure has run.             *)
ActivationHoldsOnlySelected ==
    ~lost /\ finished = <<>> /\ choosing = NotRunning
          /\ (\A m \in Models : activation[m] = NotRunning) =>
        \A m \in Models : memory[m] = "activation" => m = catalog.asr

(* What is selected is on the disk, and memory holds nothing else for long. *)
SelectedIsHeld == SelectedIsInstalled /\ ActivationHoldsOnlySelected
=============================================================================
