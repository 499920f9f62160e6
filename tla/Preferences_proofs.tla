------------------------- MODULE Preferences_proofs -------------------------
(***************************************************************************)
(* Proofs about the preferences, the local models and the providers, for   *)
(* any value of the constants.                                             *)
(***************************************************************************)
EXTENDS LocalSettings, LocalModelLifecycle, ProviderSettings, FiniteSetTheorems,
        WellFoundedInduction, TLAPS

-----------------------------------------------------------------------------
(* Types.                                                                  *)

Loaded == [at : {"loaded"}, item : Items, settings : Preferences]

Run == [at : {"started", "batch", "asked", "found", "recording"}, consent : Fingerprints,
        now : Nat, batches : Int, found : Int]

Completions == [kind : {"completion"}, item : Items, ok : BOOLEAN, committed : Preferences]
Trays == [kind : {"tray"}, value : BOOLEAN]
Closures == Completions \cup Trays

(* What SettingsTypeOK says, with the shape of what is queued; nothing was *)
(* analysed on a day later than the number of runs.                        *)
TypesInv ==
    /\ phase \in {"running", "draining", "closed"}
    /\ stored \in Preferences /\ shown \in Preferences
    /\ pending \in Seq(Items) /\ Len(pending) <= QueueCapacity
    /\ loop \in Seq(Closures)
    /\ settingsThread \in Loaded \cup {NoThread}
    /\ paused \in BOOLEAN /\ trayPaused \in BOOLEAN /\ changing \in BOOLEAN
    /\ registered \in Shortcuts /\ provider \in Fingerprints
    /\ suggesting \in Run \cup {NoRun}
    /\ failedPauses \in Nat /\ unreported \in Nat
    /\ choices \in 0..MaxChoices /\ runs \in 0..MaxRuns /\ saveFaults \in 0..MaxSaveFaults

AnalysedInv ==
    /\ stored.analysed <= runs
    /\ settingsThread \in Loaded => settingsThread.settings.analysed <= runs
    /\ suggesting \in Run => suggesting.now <= runs

-----------------------------------------------------------------------------
(* Queues: what is in them, and which element of a kind is the last.       *)

NoneIn(q, kind) == \A i \in 1..Len(q) : q[i] \notin kind
LastIn(q, kind, good) ==
    \E i \in 1..Len(q) : q[i] \in good /\ \A j \in 1..Len(q) : j > i => q[j] \notin kind
OneIn(q, kind, good) ==
    \E i \in 1..Len(q) : q[i] \in good /\ \A j \in 1..Len(q) : j # i => q[j] \notin kind

Working(field) ==
    settingsThread \in Loaded /\ settingsThread.item.change.field = field

(* What the settings thread is about to write is the row with its change:  *)
(* nobody else changes a preference (the day of the last analysis is none).*)
SamePreferences(s, r) ==
    /\ s.paused = r.paused /\ s.history = r.history /\ s.assist = r.assist
    /\ s.consent = r.consent /\ s.shortcuts = r.shortcuts

ThreadInv ==
    settingsThread \in Loaded =>
        SamePreferences(settingsThread.settings,
                        Applied(stored, settingsThread.item.change))

(* The event loop takes its closures with it, the settings thread ends     *)
(* with an empty queue; a change that was not saved counts as a fault.     *)
FailureCount == {c \in Completions : ~c.ok}

PhaseInv ==
    /\ phase # "running" => loop = <<>>
    /\ phase = "closed" => pending = <<>> /\ settingsThread = NoThread
    /\ unreported <= saveFaults
    /\ saveFaults = 0 => NoneIn(loop, FailureCount)

(* The pause.  As long as no change of it failed, the flag is what the     *)
(* last change under way will store.                                       *)
PauseItems == {i \in Items : i.change.field = "paused"}
PausesAs(v) == {i \in PauseItems : i.change.value = v}
PauseUndoes ==
    Trays \cup {c \in FailureCount : c.item.change.field = "paused"}

PauseInv ==
    failedPauses = 0 =>
        /\ trayPaused = paused
        /\ NoneIn(loop, PauseUndoes)
        /\ \/ LastIn(pending, PauseItems, PausesAs(paused))
           \/ /\ NoneIn(pending, PauseItems)
              /\ IF Working("paused")
                 THEN settingsThread.item.change.value = paused
                 ELSE stored.paused = paused

(* The page.  It shows the row, or a closure that will show it is under    *)
(* way, and no later one will show something else.                         *)
HistorySaves == {c \in Completions : c.ok /\ c.item.change.field = "history"}
HistoryShows == {c \in HistorySaves : c.committed.history = stored.history}
AssistSaves ==
    {c \in Completions : c.ok /\ c.item.change.field \in {"assist", "consent"}}
AssistShows ==
    {c \in AssistSaves : c.committed.assist = stored.assist
                         /\ c.committed.consent = stored.consent}

PageInv ==
    phase = "running" /\ unreported = 0 =>
        /\ \/ LastIn(loop, HistorySaves, HistoryShows)
           \/ NoneIn(loop, HistorySaves) /\ shown.history = stored.history
        /\ \/ LastIn(loop, AssistSaves, AssistShows)
           \/ /\ NoneIn(loop, AssistSaves)
              /\ shown.assist = stored.assist /\ shown.consent = stored.consent

(* The shortcuts.  One change of them is under way at most, in the queue,  *)
(* with the settings thread or in its closure; unless a stored change was  *)
(* reported as failed it leads from the row to what the monitor listens to.*)
ShortcutItems == {i \in Items : i.change.field = "shortcuts"}
ShortcutEnds == {c \in Completions : c.item.change.field = "shortcuts"}

Reported == (phase = "running" /\ unreported = 0) \/ saveFaults = 0
Leads(i) == Reported => i.change.value = registered /\ i.previous = stored.shortcuts
LeadingItems == {i \in ShortcutItems : Leads(i)}
LeadingEnds ==
    {c \in ShortcutEnds : Reported =>
        IF c.ok THEN registered = stored.shortcuts
        ELSE c.item.previous = stored.shortcuts}

ShortcutsAtRest ==
    /\ NoneIn(pending, ShortcutItems) /\ ~Working("shortcuts") /\ NoneIn(loop, ShortcutEnds)
    /\ phase = "running" => ~changing
    /\ Reported => registered = stored.shortcuts
ShortcutsQueued ==
    /\ OneIn(pending, ShortcutItems, LeadingItems) /\ ~Working("shortcuts")
    /\ NoneIn(loop, ShortcutEnds) /\ changing
ShortcutsSaving ==
    /\ NoneIn(pending, ShortcutItems) /\ Working("shortcuts")
    /\ Leads(settingsThread.item) /\ NoneIn(loop, ShortcutEnds) /\ changing
ShortcutsEnding ==
    /\ NoneIn(pending, ShortcutItems) /\ ~Working("shortcuts")
    /\ OneIn(loop, ShortcutEnds, LeadingEnds) /\ changing

ShortcutInv ==
    ShortcutsAtRest \/ ShortcutsQueued \/ ShortcutsSaving \/ ShortcutsEnding

(* Consent.  An observation that is being recorded was agreed to, and a run*)
(* that still has consent recorded none without it.                        *)
ConsentInv ==
    /\ late \in 0..1
    /\ suggesting.at = "recording" => late = 0
    /\ suggesting.at \in {"batch", "asked", "found"}
           /\ Consents(stored, suggesting.consent) => late = 0

PreferencesInv ==
    /\ TypesInv /\ AnalysedInv /\ ThreadInv /\ PhaseInv
    /\ PauseInv /\ PageInv /\ ShortcutInv /\ ConsentInv

-----------------------------------------------------------------------------
(* Lemmas about the changes and the queues.                                *)

(* A change of one field leaves the others.                                *)
LEMMA AppliedFields ==
    ASSUME NEW s \in Preferences, NEW c \in Changes
    PROVE  /\ Applied(s, c) \in Preferences
           /\ Applied(s, c).analysed = s.analysed
           /\ Applied(s, c).paused = IF c.field = "paused" THEN c.value ELSE s.paused
           /\ Applied(s, c).history = IF c.field = "history" THEN c.value ELSE s.history
           /\ Applied(s, c).shortcuts = IF c.field = "shortcuts" THEN c.value ELSE s.shortcuts
           /\ Applied(s, c).consent = IF c.field = "consent" THEN c.value ELSE s.consent
           /\ Applied(s, c).assist = IF c.field = "assist" THEN c.value
                                     ELSE IF c.field = "consent" THEN TRUE ELSE s.assist
<1>1. CASE c.field = "consent"
  BY <1>1 DEF Applied, Preferences, Changes
<1>2. CASE c.field = "paused"
  <2>1. Applied(s, c) = [s EXCEPT !.paused = c.value]
    BY <1>2 DEF Applied
  <2> QED  BY <1>2, <2>1 DEF Preferences, Changes
<1>3. CASE c.field = "history"
  <2>1. Applied(s, c) = [s EXCEPT !.history = c.value]
    BY <1>3 DEF Applied
  <2> QED  BY <1>3, <2>1 DEF Preferences, Changes
<1>4. CASE c.field = "assist"
  <2>1. Applied(s, c) = [s EXCEPT !.assist = c.value]
    BY <1>4 DEF Applied
  <2> QED  BY <1>4, <2>1 DEF Preferences, Changes
<1>5. CASE c.field = "shortcuts"
  <2>1. Applied(s, c) = [s EXCEPT !.shortcuts = c.value]
    BY <1>5 DEF Applied
  <2> QED  BY <1>5, <2>1 DEF Preferences, Changes
<1> QED  BY <1>1, <1>2, <1>3, <1>4, <1>5 DEF Changes

(* The same change of rows with the same preferences.                      *)
LEMMA AppliedSame ==
    ASSUME NEW s \in Preferences, NEW r \in Preferences, NEW c \in Changes,
           SamePreferences(s, r)
    PROVE  SamePreferences(Applied(s, c), Applied(r, c))
<1>1. CASE c.field = "paused"
  <2>1. Applied(s, c) = [s EXCEPT !.paused = c.value] /\ Applied(r, c) = [r EXCEPT !.paused = c.value]
    BY <1>1 DEF Applied
  <2> QED  BY <2>1 DEF SamePreferences, Preferences
<1>2. CASE c.field = "history"
  <2>1. Applied(s, c) = [s EXCEPT !.history = c.value] /\ Applied(r, c) = [r EXCEPT !.history = c.value]
    BY <1>2 DEF Applied
  <2> QED  BY <2>1 DEF SamePreferences, Preferences
<1>3. CASE c.field = "assist"
  <2>1. Applied(s, c) = [s EXCEPT !.assist = c.value] /\ Applied(r, c) = [r EXCEPT !.assist = c.value]
    BY <1>3 DEF Applied
  <2> QED  BY <2>1 DEF SamePreferences, Preferences
<1>4. CASE c.field = "shortcuts"
  <2>1. Applied(s, c) = [s EXCEPT !.shortcuts = c.value] /\ Applied(r, c) = [r EXCEPT !.shortcuts = c.value]
    BY <1>4 DEF Applied
  <2> QED  BY <2>1 DEF SamePreferences, Preferences
<1>5. CASE c.field = "consent"
  BY <1>5 DEF Applied, SamePreferences, Preferences
<1> QED  BY <1>1, <1>2, <1>3, <1>4, <1>5 DEF Changes

(* What is loaded, and what is not.                                        *)
LEMMA Shapes ==
    /\ NoThread \notin Loaded /\ NoRun \notin Run
    /\ \A r \in Run \cup {NoRun} : r.at = "idle" <=> r = NoRun
    /\ \A t \in Loaded \cup {NoThread} : t.at = "loaded" <=> t \in Loaded
    /\ Completions \cap Trays = {}
    /\ \A c \in Closures : /\ c.kind = "completion" <=> c \in Completions
                           /\ c.kind = "tray" <=> c \in Trays
<1>1. NoThread \notin Loaded /\ \A t \in Loaded \cup {NoThread} : t.at = "loaded" <=> t \in Loaded
  BY DEF Loaded, NoThread
<1>2. NoRun \notin Run /\ \A r \in Run \cup {NoRun} : r.at = "idle" <=> r = NoRun
  BY DEF Run, NoRun
<1>3. \A c \in Completions : c.kind = "completion"
  BY DEF Completions
<1>4. \A c \in Trays : c.kind = "tray"
  BY DEF Trays
<1> QED  BY <1>1, <1>2, <1>3, <1>4 DEF Closures

(* An empty queue; a longer one; a shorter one.                            *)
LEMMA QueueEmpty ==
    ASSUME NEW kind, NEW good
    PROVE  NoneIn(<<>>, kind) /\ ~LastIn(<<>>, kind, good) /\ ~OneIn(<<>>, kind, good)
<1>1. 1..Len(<<>>) = {}
  OBVIOUS
<1> QED  BY <1>1 DEF NoneIn, LastIn, OneIn

LEMMA QueueAppends ==
    ASSUME NEW T, NEW q \in Seq(T), NEW e \in T, NEW kind, NEW good
    PROVE  /\ e \notin kind =>
                 /\ NoneIn(q, kind) => NoneIn(Append(q, e), kind)
                 /\ LastIn(q, kind, good) => LastIn(Append(q, e), kind, good)
                 /\ OneIn(q, kind, good) => OneIn(Append(q, e), kind, good)
           /\ e \in good => LastIn(Append(q, e), kind, good)
           /\ e \in good /\ NoneIn(q, kind) => OneIn(Append(q, e), kind, good)
<1> DEFINE r == Append(q, e)
           n == Len(q)
<1>1. /\ n \in Nat /\ Len(r) = n + 1 /\ r[n + 1] = e
      /\ \A i \in 1..n : r[i] = q[i]
  OBVIOUS
<1> HIDE DEF r
<1>2. /\ \A i \in 1..n : i \in 1..Len(r) /\ i < n + 1
      /\ \A i \in 1..Len(r) : i \in 1..n \/ i = n + 1
      /\ n + 1 \in 1..Len(r) /\ \A i \in 1..Len(r) : ~(i > n + 1)
  BY <1>1
<1>3. e \notin kind /\ NoneIn(q, kind) => NoneIn(r, kind)
  BY <1>1, <1>2 DEF NoneIn
<1>4. e \notin kind /\ LastIn(q, kind, good) => LastIn(r, kind, good)
  <2> SUFFICES ASSUME e \notin kind, LastIn(q, kind, good) PROVE LastIn(r, kind, good)
    OBVIOUS
  <2>1. PICK i \in 1..n : q[i] \in good /\ \A j \in 1..n : j > i => q[j] \notin kind
    BY DEF LastIn
  <2>2. i \in 1..Len(r) /\ r[i] \in good /\ \A j \in 1..Len(r) : j > i => r[j] \notin kind
    BY <1>1, <1>2, <2>1
  <2> QED  BY <2>2 DEF LastIn
<1>5. e \notin kind /\ OneIn(q, kind, good) => OneIn(r, kind, good)
  <2> SUFFICES ASSUME e \notin kind, OneIn(q, kind, good) PROVE OneIn(r, kind, good)
    OBVIOUS
  <2>1. PICK i \in 1..n : q[i] \in good /\ \A j \in 1..n : j # i => q[j] \notin kind
    BY DEF OneIn
  <2>2. i \in 1..Len(r) /\ r[i] \in good /\ \A j \in 1..Len(r) : j # i => r[j] \notin kind
    BY <1>1, <1>2, <2>1
  <2> QED  BY <2>2 DEF OneIn
<1>6. e \in good => LastIn(r, kind, good)
  BY <1>1, <1>2 DEF LastIn
<1>7. e \in good /\ NoneIn(q, kind) => OneIn(r, kind, good)
  BY <1>1, <1>2 DEF OneIn, NoneIn
<1> QED  BY <1>3, <1>4, <1>5, <1>6, <1>7 DEF r

LEMMA QueueTakes ==
    ASSUME NEW T, NEW q \in Seq(T), q # <<>>, NEW kind, NEW good
    PROVE  /\ Head(q) \in T /\ Tail(q) \in Seq(T) /\ Len(Tail(q)) = Len(q) - 1
           /\ NoneIn(q, kind) => Head(q) \notin kind /\ NoneIn(Tail(q), kind)
           /\ LastIn(q, kind, good) =>
                 \/ LastIn(Tail(q), kind, good)
                 \/ Head(q) \in good /\ NoneIn(Tail(q), kind)
           /\ OneIn(q, kind, good) =>
                 \/ Head(q) \notin kind /\ OneIn(Tail(q), kind, good)
                 \/ Head(q) \in good /\ NoneIn(Tail(q), kind)
<1> DEFINE r == Tail(q)
<1>1. /\ Len(q) \in Nat \ {0} /\ Len(r) = Len(q) - 1 /\ Head(q) = q[1]
      /\ \A i \in 1..Len(r) : r[i] = q[i + 1]
      /\ Head(q) \in T /\ r \in Seq(T)
  OBVIOUS
<1> HIDE DEF r
<1>2. /\ \A i \in 1..Len(r) : i + 1 \in 1..Len(q) /\ i + 1 > 1
      /\ \A i \in 1..Len(q) : i # 1 => i - 1 \in 1..Len(r) /\ (i - 1) + 1 = i
      /\ 1 \in 1..Len(q)
  BY <1>1
<1>3. NoneIn(q, kind) => Head(q) \notin kind /\ NoneIn(r, kind)
  BY <1>1, <1>2 DEF NoneIn
<1>4. ASSUME LastIn(q, kind, good)
      PROVE  LastIn(r, kind, good) \/ (Head(q) \in good /\ NoneIn(r, kind))
  <2>1. PICK i \in 1..Len(q) : q[i] \in good /\ \A j \in 1..Len(q) : j > i => q[j] \notin kind
    BY <1>4 DEF LastIn
  <2>2. CASE i = 1
    BY <1>1, <1>2, <2>1, <2>2 DEF NoneIn
  <2>3. CASE i # 1
    <3>1. i - 1 \in 1..Len(r) /\ r[i - 1] = q[i]
      BY <1>1, <1>2, <2>3
    <3>2. \A j \in 1..Len(r) : j > i - 1 => r[j] \notin kind
      BY <1>1, <1>2, <2>1
    <3> QED  BY <2>1, <3>1, <3>2 DEF LastIn
  <2> QED  BY <2>2, <2>3
<1>5. ASSUME OneIn(q, kind, good)
      PROVE  \/ Head(q) \notin kind /\ OneIn(r, kind, good)
             \/ Head(q) \in good /\ NoneIn(r, kind)
  <2>1. PICK i \in 1..Len(q) : q[i] \in good /\ \A j \in 1..Len(q) : j # i => q[j] \notin kind
    BY <1>5 DEF OneIn
  <2>2. CASE i = 1
    BY <1>1, <1>2, <2>1, <2>2 DEF NoneIn
  <2>3. CASE i # 1
    <3>1. i - 1 \in 1..Len(r) /\ r[i - 1] = q[i]
      BY <1>1, <1>2, <2>3
    <3>2. \A j \in 1..Len(r) : j # i - 1 => r[j] \notin kind
      BY <1>1, <1>2, <2>1
    <3>3. Head(q) \notin kind
      BY <1>1, <1>2, <2>1, <2>3
    <3> QED  BY <2>1, <3>1, <3>2, <3>3 DEF OneIn
  <2> QED  BY <2>2, <2>3
<1> QED  BY <1>1, <1>3, <1>4, <1>5 DEF r

(* What is meant by a good element may be widened.                         *)
LEMMA QueueWidens ==
    ASSUME NEW q, NEW kind, NEW good, NEW better, good \subseteq better
    PROVE  /\ LastIn(q, kind, good) => LastIn(q, kind, better)
           /\ OneIn(q, kind, good) => OneIn(q, kind, better)
BY DEF LastIn, OneIn

-----------------------------------------------------------------------------
(* The steps of the suggestion thread, and the choices.                    *)

SuggestionsNext ==
    \/ CheckTimer \/ CheckDue \/ SendBatch \/ ReceiveAnswer
    \/ CheckObservation \/ RecordObservation \/ RecordSuccess

(* All a suggestion step changes of the row is the day of the analysis.    *)
LEMMA SuggestionsKeep ==
    ASSUME TypesInv, SuggestionsNext
    PROVE  /\ UNCHANGED <<phase, pending, settingsThread, loop, uiVars, provider,
                          failedPauses, unreported, choices, saveFaults>>
           /\ SamePreferences(stored', stored)
           /\ stored' = stored \/ RecordSuccess
<1> USE DEF SuggestionsNext, SuggestionStep, uiVars
<1>1. UNCHANGED <<phase, pending, settingsThread, loop, uiVars, provider,
                  failedPauses, unreported, choices, saveFaults>>
  BY DEF CheckTimer, CheckDue, SendBatch, ReceiveAnswer, CheckObservation,
     RecordObservation, RecordSuccess
<1>2. stored' = stored \/ RecordSuccess
  BY DEF CheckTimer, CheckDue, SendBatch, ReceiveAnswer, CheckObservation, RecordObservation
<1>3. RecordSuccess => SamePreferences(stored', stored)
  BY DEF RecordSuccess, TypesInv, Preferences, SamePreferences
<1>4. stored' = stored => SamePreferences(stored', stored)
  BY DEF SamePreferences
<1> QED  BY <1>1, <1>2, <1>3, <1>4

(* What a choice queues, if it does.                                       *)
Queues(c, previous) ==
    \/ UNCHANGED pending
    \/ Accepts /\ pending' = Append(pending, [change |-> c, previous |-> previous])

WaitingChanges == {c \in Changes : c.field \in {"history", "assist", "consent"}}
WaitingChoice ==
    \/ \E on \in BOOLEAN : ChooseHistory(on) \/ ChooseSuggestions(on)
    \/ \E f \in Fingerprints : ChangeProvider(f)

LEMMA WaitingQueues ==
    ASSUME TypesInv, WaitingChoice
    PROVE  /\ \E c \in WaitingChanges : Queues(c, registered)
           /\ UNCHANGED <<phase, stored, settingsThread, loop, uiVars,
                          suggestionVars, failedPauses, unreported, saveFaults>>
           /\ provider' \in Fingerprints /\ choices' \in 0..MaxChoices
<1>0. choices' = choices + 1 /\ choices < MaxChoices => choices' \in 0..MaxChoices
  BY LocalSettingsAssumption DEF TypesInv
<1>1. ASSUME NEW c \in WaitingChanges, ChooseWaiting(c)
      PROVE  /\ Queues(c, registered) /\ provider' = provider /\ choices' \in 0..MaxChoices
             /\ UNCHANGED <<phase, stored, settingsThread, loop, uiVars,
                            suggestionVars, failedPauses, unreported, saveFaults>>
  BY <1>0, <1>1 DEF ChooseWaiting, Chooses, Submit, Queues
<1>2. ASSUME NEW on \in BOOLEAN
      PROVE  /\ Change("history", on) \in WaitingChanges
             /\ Change("assist", on) \in WaitingChanges
             /\ Change("consent", provider) \in WaitingChanges
  BY DEF Change, WaitingChanges, Changes, TypesInv
<1>3. ASSUME NEW on \in BOOLEAN, ChooseHistory(on) \/ ChooseSuggestions(on)
      PROVE  \E c \in WaitingChanges : ChooseWaiting(c)
  BY <1>2, <1>3 DEF ChooseHistory, ChooseSuggestions
<1>4. ASSUME NEW f \in Fingerprints, ChangeProvider(f)
      PROVE  /\ UNCHANGED pending /\ provider' = f /\ choices' \in 0..MaxChoices
             /\ UNCHANGED <<phase, stored, settingsThread, loop, uiVars,
                            suggestionVars, failedPauses, unreported, saveFaults>>
  BY <1>0, <1>4 DEF ChangeProvider, Chooses
<1>5. provider \in Fingerprints /\ \E c \in WaitingChanges : TRUE
  BY <1>2 DEF TypesInv
<1> QED  BY <1>1, <1>3, <1>4, <1>5 DEF WaitingChoice, Queues

-----------------------------------------------------------------------------
(* The types.                                                              *)

LEMMA QueuedTypes ==
    ASSUME TypesInv, NEW c \in Changes, NEW k \in Shortcuts, Queues(c, k)
    PROVE  pending' \in Seq(Items) /\ Len(pending') <= QueueCapacity
<1>1. [change |-> c, previous |-> k] \in Items
  BY DEF Items
<1>2. pending \in Seq(Items) /\ Len(pending) <= QueueCapacity /\ QueueCapacity \in Nat
  BY LocalSettingsAssumption DEF TypesInv
<1>3. CASE UNCHANGED pending
  BY <1>2, <1>3
<1>4. CASE Accepts /\ pending' = Append(pending, [change |-> c, previous |-> k])
  <2>1. Len(pending) < QueueCapacity
    BY <1>4 DEF Accepts
  <2> DEFINE i == [change |-> c, previous |-> k]
  <2>2. pending' = Append(pending, i) /\ i \in Items
    BY <1>1, <1>4
  <2> HIDE DEF i
  <2> QED  BY <1>2, <2>1, <2>2
<1> QED  BY <1>3, <1>4 DEF Queues

LEMMA InitTypesInv == SettingsInit => TypesInv
<1> SUFFICES ASSUME SettingsInit PROVE TypesInv
  OBVIOUS
<1>1. provider \in Fingerprints /\ stored \in Preferences
  BY LocalSettingsAssumption DEF SettingsInit
<1>2. /\ pending \in Seq(Items) /\ Len(pending) <= QueueCapacity
      /\ loop \in Seq(Closures)
  BY LocalSettingsAssumption DEF SettingsInit
<1>3. /\ stored.paused \in BOOLEAN /\ stored.shortcuts \in Shortcuts
  BY <1>1 DEF Preferences
<1>4. /\ phase = "running" /\ settingsThread = NoThread /\ suggesting = NoRun
      /\ shown = stored /\ paused = stored.paused /\ trayPaused = stored.paused
      /\ registered = stored.shortcuts /\ changing = FALSE
      /\ failedPauses = 0 /\ unreported = 0 /\ choices = 0 /\ saveFaults = 0 /\ runs = 0
  BY DEF SettingsInit
<1>5. /\ shown \in Preferences /\ paused \in BOOLEAN /\ trayPaused \in BOOLEAN
      /\ changing \in BOOLEAN /\ registered \in Shortcuts
  BY <1>1, <1>3, <1>4
<1>6. choices \in 0..MaxChoices /\ runs \in 0..MaxRuns /\ saveFaults \in 0..MaxSaveFaults
  <2>1. MaxChoices \in Nat /\ MaxRuns \in Nat /\ MaxSaveFaults \in Nat
    BY LocalSettingsAssumption
  <2> QED  BY <1>4, <2>1
<1> QED  BY <1>1, <1>2, <1>4, <1>5, <1>6 DEF TypesInv

LEMMA StartRunTypes ==
    ASSUME TypesInv, AnalysedInv, StartRun
    PROVE  /\ suggesting' \in Run /\ runs' \in 0..MaxRuns /\ runs' = runs + 1
           /\ suggesting'.now <= runs' /\ suggesting'.at = "started" /\ late' = late
<1>1. stored.analysed \in Nat /\ stored.analysed <= runs
  BY LocalSettingsAssumption DEF TypesInv, AnalysedInv, Preferences
<1>2. PICK today \in {stored.analysed, stored.analysed + 1} :
         suggesting' = [at |-> "started", consent |-> provider, now |-> today,
                        batches |-> 0, found |-> 0]
  BY DEF StartRun
<1>3. today \in Nat /\ today <= runs + 1
  BY <1>1 DEF TypesInv
<1>4. suggesting' \in Run /\ suggesting'.now = today /\ suggesting'.at = "started"
  BY <1>2, <1>3 DEF Run, TypesInv
<1>5. runs' = runs + 1 /\ runs' \in 0..MaxRuns /\ late' = late
  BY LocalSettingsAssumption DEF StartRun, TypesInv
<1> QED  BY <1>3, <1>4, <1>5

(* A run that goes on.                                                     *)
GoesOn(r, q) == q \in Run /\ q.now = r.now

LEMMA RunMoves ==
    ASSUME NEW r \in Run, NEW n \in Int
    PROVE  /\ GoesOn(r, [r EXCEPT !.at = "batch", !.batches = n])
           /\ GoesOn(r, [r EXCEPT !.at = "asked"])
           /\ GoesOn(r, [r EXCEPT !.at = "found", !.found = n, !.batches = @ - 1])
           /\ GoesOn(r, [r EXCEPT !.at = "batch"])
           /\ GoesOn(r, [r EXCEPT !.at = "recording"])
           /\ GoesOn(r, [r EXCEPT !.at = "found", !.found = @ - 1])
<1>1. GoesOn(r, [r EXCEPT !.at = "batch", !.batches = n])
  BY DEF GoesOn, Run
<1>2. GoesOn(r, [r EXCEPT !.at = "asked"])
  BY DEF GoesOn, Run
<1>3. GoesOn(r, [r EXCEPT !.at = "found", !.found = n, !.batches = @ - 1])
  <2>1. r.batches - 1 \in Int /\ r.found - 1 \in Int
    BY DEF Run
  <2>2. \A m \in Int : GoesOn(r, [r EXCEPT !.at = "found", !.found = n, !.batches = m])
    BY DEF GoesOn, Run
  <2>3. GoesOn(r, [r EXCEPT !.at = "found", !.found = n, !.batches = r.batches - 1])
    BY <2>1, <2>2
  <2> QED  BY <2>3
<1>4. GoesOn(r, [r EXCEPT !.at = "batch"])
  BY DEF GoesOn, Run
<1>5. GoesOn(r, [r EXCEPT !.at = "recording"])
  BY DEF GoesOn, Run
<1>6. GoesOn(r, [r EXCEPT !.at = "found", !.found = @ - 1])
  <2>1. r.batches - 1 \in Int /\ r.found - 1 \in Int
    BY DEF Run
  <2>2. \A m \in Int : GoesOn(r, [r EXCEPT !.at = "found", !.found = m])
    BY DEF GoesOn, Run
  <2>3. GoesOn(r, [r EXCEPT !.at = "found", !.found = r.found - 1])
    BY <2>1, <2>2
  <2> QED  BY <2>3
<1> QED  BY <1>1, <1>2, <1>3, <1>4, <1>5, <1>6

LEMMA SuggestionTypes ==
    ASSUME TypesInv, AnalysedInv, SuggestionsNext
    PROVE  TypesInv' /\ AnalysedInv'
<1> USE DEF SuggestionsNext, SuggestionStep
<1>0. /\ UNCHANGED <<phase, pending, settingsThread, loop, uiVars, provider,
                     failedPauses, unreported, choices, saveFaults>>
      /\ stored' = stored \/ RecordSuccess
  BY SuggestionsKeep
<1>1. ASSUME stored' = stored, suggesting' \in Run \cup {NoRun}, runs' \in 0..MaxRuns,
             runs' >= runs, suggesting' \in Run => suggesting'.now <= runs'
      PROVE  TypesInv' /\ AnalysedInv'
  <2>1. TypesInv'
    BY <1>0, <1>1 DEF TypesInv, uiVars, Shows
  <2>2. stored'.analysed <= runs'
    BY <1>1, LocalSettingsAssumption DEF TypesInv, AnalysedInv, Preferences
  <2>3. settingsThread' \in Loaded => settingsThread'.settings.analysed <= runs'
    BY <1>0, <1>1, LocalSettingsAssumption DEF TypesInv, AnalysedInv, Loaded, Preferences
  <2> QED  BY <1>1, <2>1, <2>2, <2>3 DEF AnalysedInv
<1>2. CASE CheckTimer
  <2>1. StartRun /\ UNCHANGED stored
    BY <1>2 DEF CheckTimer
  <2> QED  BY <1>1, <2>1, StartRunTypes DEF TypesInv
<1>3. CASE CheckDue \/ SendBatch \/ ReceiveAnswer \/ CheckObservation \/ RecordObservation
  <2>1. suggesting \in Run
    BY <1>3, Shapes DEF CheckDue, SendBatch, ReceiveAnswer, CheckObservation,
       RecordObservation, TypesInv, NoRun
  <2>2. UNCHANGED <<stored, runs>>
    BY <1>3 DEF CheckDue, SendBatch, ReceiveAnswer, CheckObservation, RecordObservation
  <2>3. suggesting' = NoRun \/ (suggesting' \in Run /\ suggesting'.now = suggesting.now)
    <3>1. CASE CheckDue
      <4>1. PICK n \in 0..MaxBatches :
               suggesting' = IF Due(suggesting)
                             THEN [suggesting EXCEPT !.at = "batch", !.batches = n]
                             ELSE NoRun
        BY <3>1 DEF CheckDue
      <4>2. n \in Int
        BY LocalSettingsAssumption
      <4> QED  BY <2>1, <4>1, <4>2, RunMoves DEF GoesOn
    <3>2. CASE SendBatch \/ RecordObservation \/ CheckObservation
      <4>1. suggesting' \in {NoRun, [suggesting EXCEPT !.at = "asked"],
                             [suggesting EXCEPT !.at = "batch"],
                             [suggesting EXCEPT !.at = "recording"],
                             [suggesting EXCEPT !.at = "found", !.found = @ - 1]}
        BY <3>2 DEF SendBatch, RecordObservation, CheckObservation
      <4>2. 0 \in Int
        OBVIOUS
      <4> QED  BY <2>1, <4>1, <4>2, RunMoves DEF GoesOn
    <3>3. CASE ReceiveAnswer
      <4>1. CASE suggesting' = NoRun
        BY <4>1
      <4>2. ASSUME NEW n \in 0..MaxFound,
                   suggesting' = [suggesting EXCEPT !.at = "found", !.found = n,
                                                    !.batches = @ - 1]
            PROVE  GoesOn(suggesting, suggesting')
        <5>1. n \in Int
          BY LocalSettingsAssumption
        <5> QED  BY <2>1, <4>2, <5>1, RunMoves
      <4> QED  BY <3>3, <4>1, <4>2 DEF ReceiveAnswer, GoesOn
    <3> QED  BY <1>3, <3>1, <3>2, <3>3 DEF GoesOn
  <2> QED  BY <1>1, <2>1, <2>2, <2>3, Shapes DEF TypesInv, AnalysedInv
<1>4. CASE RecordSuccess
  <2>1. suggesting \in Run
    BY <1>4, Shapes DEF RecordSuccess, TypesInv, NoRun
  <2>2. suggesting' = NoRun /\ runs' = runs
    BY <1>4 DEF RecordSuccess
  <2>3. suggesting.now \in 0..MaxRuns /\ suggesting.now <= runs
    BY <2>1, LocalSettingsAssumption DEF TypesInv, AnalysedInv, Run
  <2>4. stored' \in Preferences /\ stored'.analysed <= runs'
    BY <1>4, <2>2, <2>3 DEF RecordSuccess, TypesInv, AnalysedInv, Preferences
  <2>5. TypesInv'
    BY <1>0, <2>2, <2>4 DEF TypesInv, uiVars
  <2> QED  BY <1>0, <2>2, <2>4, <2>5, Shapes DEF AnalysedInv
<1> QED  BY <1>2, <1>3, <1>4

(* A closure that ran to its end.                                          *)
LEMMA ShowsTypes ==
    ASSUME shown \in Preferences, NEW s \in Preferences, NEW field
    PROVE  /\ Shows(field, s) \in Preferences
           /\ Shows(field, s).history =
                 IF field = "history" THEN s.history ELSE shown.history
           /\ field \in {"assist", "consent"} =>
                 Shows(field, s).assist = s.assist /\ Shows(field, s).consent = s.consent
           /\ field \notin {"assist", "consent"} =>
                 /\ Shows(field, s).assist = shown.assist
                 /\ Shows(field, s).consent = shown.consent
<1>1. CASE field = "history"
  <2>1. Shows(field, s) = [shown EXCEPT !.history = s.history]
    BY <1>1 DEF Shows
  <2> QED  BY <1>1, <2>1 DEF Preferences
<1>2. CASE field \in {"assist", "consent"}
  <2>1. Shows(field, s) = [shown EXCEPT !.assist = s.assist, !.consent = s.consent]
    BY <1>2 DEF Shows
  <2> QED  BY <1>2, <2>1 DEF Preferences
<1>3. CASE field \notin {"history", "assist", "consent"}
  <2>1. Shows(field, s) = shown
    BY <1>3 DEF Shows
  <2> QED  BY <1>3, <2>1
<1> QED  BY <1>1, <1>2, <1>3

(* A closure of the event loop runs: one that completes a change, or one   *)
(* that puts the menu bar back.                                            *)
LEMMA ClosureRunning ==
    ASSUME TypesInv, RunClosure
    PROVE  /\ phase = "running" /\ loop # <<>>
           /\ UNCHANGED <<phase, stored, pending, settingsThread, provider,
                          failedPauses, unreported, choices, saveFaults>>
           /\ Tail(loop) \in Seq(Closures)
           /\ \/ /\ Head(loop) \in Completions /\ CompletionRuns(Head(loop))
                 /\ UNCHANGED trayPaused
              \/ /\ Head(loop) \in Trays /\ trayPaused' = Head(loop).value
                 /\ loop' = Tail(loop)
                 /\ UNCHANGED <<paused, shown, registered, changing, suggestionVars>>
<1>1. phase = "running" /\ loop # <<>> /\ loop \in Seq(Closures)
  BY DEF RunClosure, TypesInv
<1>2. Head(loop) \in Closures /\ Tail(loop) \in Seq(Closures)
  BY <1>1, QueueTakes
<1>3. UNCHANGED <<phase, stored, pending, settingsThread, provider,
                  failedPauses, unreported, choices, saveFaults>>
  BY DEF RunClosure
<1>4. CASE Head(loop).kind = "completion"
  BY <1>1, <1>2, <1>3, <1>4, Shapes DEF RunClosure
<1>5. CASE Head(loop).kind # "completion"
  BY <1>1, <1>2, <1>3, <1>5, Shapes DEF RunClosure
<1> QED  BY <1>4, <1>5

(* The parts of a completed change.                                        *)
LEMMA CompletionParts ==
    ASSUME NEW c \in Completions
    PROVE  /\ c.item \in Items /\ c.item.change \in Changes /\ c.item.previous \in Shortcuts
           /\ c.ok \in BOOLEAN /\ c.committed \in Preferences /\ c \in Closures
           /\ c.item.change.field = "paused" => c.item.change.value \in BOOLEAN
           /\ c.item.change.field = "shortcuts" => c.item.change.value \in Shortcuts
<1>1. /\ c.item \in Items /\ c.ok \in BOOLEAN /\ c.committed \in Preferences /\ c \in Closures
  BY DEF Completions, Closures
<1>2. c.item.change \in Changes /\ c.item.previous \in Shortcuts
  BY <1>1 DEF Items
<1> QED  BY <1>1, <1>2 DEF Changes

LEMMA CompletionLoop ==
    ASSUME TypesInv, loop # <<>>, NEW c \in Completions, CompletionRuns(c)
    PROVE  /\ c.item.change.field = "paused" /\ ~c.ok =>
                 \E t \in Trays : loop' = Append(Tail(loop), t)
           /\ ~(c.item.change.field = "paused" /\ ~c.ok) => loop' = Tail(loop)
           /\ loop' \in Seq(Closures)
<1>1. Tail(loop) \in Seq(Closures)
  BY QueueTakes DEF TypesInv
<1>2. ASSUME c.item.change.field = "paused", ~c.ok
      PROVE  \E t \in Trays : loop' = Append(Tail(loop), t)
  <2>1. [kind |-> "tray", value |-> ~c.item.change.value] \in Trays
    BY <1>2, CompletionParts DEF Trays
  <2>2. loop' = Append(Tail(loop), [kind |-> "tray", value |-> ~c.item.change.value])
    BY <1>2 DEF CompletionRuns
  <2> QED  BY <2>1, <2>2
<1>3. ~(c.item.change.field = "paused" /\ ~c.ok) => loop' = Tail(loop)
  BY DEF CompletionRuns
<1>4. \A t \in Trays : Append(Tail(loop), t) \in Seq(Closures)
  BY <1>1 DEF Closures
<1> QED  BY <1>1, <1>2, <1>3, <1>4

(* A change is loaded, and saved.                                          *)
LEMMA LoadParts ==
    ASSUME TypesInv, LoadSettings
    PROVE  /\ settingsThread = NoThread /\ pending # <<>> /\ pending' = Tail(pending)
           /\ Head(pending) \in Items /\ Head(pending).change \in Changes
           /\ settingsThread' \in Loaded /\ settingsThread'.item = Head(pending)
           /\ settingsThread'.settings = Applied(stored, Head(pending).change)
           /\ UNCHANGED <<phase, stored, loop, uiVars, provider, suggestionVars,
                          failedPauses, unreported, choices, saveFaults>>
<1>1. settingsThread = NoThread /\ pending # <<>> /\ pending' = Tail(pending)
  BY DEF LoadSettings
<1>2. Head(pending) \in Items /\ Head(pending).change \in Changes
  <2>1. Head(pending) \in Items
    BY <1>1, QueueTakes DEF TypesInv
  <2> QED  BY <2>1 DEF Items
<1>3. Applied(stored, Head(pending).change) \in Preferences
  BY <1>2, AppliedFields DEF TypesInv
<1>4. /\ settingsThread' \in Loaded /\ settingsThread'.item = Head(pending)
      /\ settingsThread'.settings = Applied(stored, Head(pending).change)
  BY <1>2, <1>3 DEF LoadSettings, Loaded
<1> QED  BY <1>1, <1>2, <1>4 DEF LoadSettings

LEMMA SaveParts ==
    ASSUME TypesInv, NEW outcome \in {"saved", "failed", "unreported"}, SaveSettings(outcome)
    PROVE  /\ settingsThread \in Loaded /\ settingsThread.item \in Items
           /\ settingsThread.item.change \in Changes
           /\ settingsThread.settings \in Preferences
           /\ settingsThread' = NoThread
           /\ \E c \in Completions :
                 /\ c.item = settingsThread.item /\ c.committed = settingsThread.settings
                 /\ c.ok = (outcome = "saved")
                 /\ loop' = IF phase = "running" THEN Append(loop, c) ELSE loop
           /\ UNCHANGED <<phase, pending, uiVars, provider, suggesting, choices, runs>>
<1>1. settingsThread \in Loaded
  BY Shapes DEF SaveSettings, TypesInv
<1>2. /\ settingsThread.item \in Items /\ settingsThread.settings \in Preferences
      /\ settingsThread.item.change \in Changes
  BY <1>1 DEF Loaded, Items
<1> DEFINE c == Completion(outcome = "saved")
<1>3. /\ c \in Completions /\ c.item = settingsThread.item
      /\ c.committed = settingsThread.settings /\ c.ok = (outcome = "saved")
  BY <1>2 DEF Completion, Completions
<1>4. loop' = IF phase = "running" THEN Append(loop, c) ELSE loop
  BY DEF SaveSettings, Dispatch
<1> HIDE DEF c
<1>5. /\ settingsThread' = NoThread
      /\ UNCHANGED <<phase, pending, uiVars, provider, suggesting, choices, runs>>
  BY DEF SaveSettings
<1> QED  BY <1>1, <1>2, <1>3, <1>4, <1>5

LEMMA SaveCounts ==
    ASSUME TypesInv, NEW outcome \in {"saved", "failed", "unreported"}, SaveSettings(outcome)
    PROVE  /\ outcome = "saved" => UNCHANGED <<saveFaults, unreported, failedPauses>>
           /\ outcome # "saved" => saveFaults' = saveFaults + 1
           /\ outcome = "failed" => unreported' = unreported
           /\ outcome = "unreported" => unreported' = unreported + 1
           /\ failedPauses' = failedPauses \/ failedPauses' = failedPauses + 1
           /\ outcome # "saved" /\ settingsThread.item.change.field = "paused" =>
                 failedPauses' = failedPauses + 1
           /\ saveFaults' \in 0..MaxSaveFaults
<1>0. MaxSaveFaults \in Nat /\ saveFaults \in 0..MaxSaveFaults /\ unreported \in Nat
      /\ failedPauses \in Nat
  BY LocalSettingsAssumption DEF TypesInv
<1>1. outcome = "saved" \/ saveFaults < MaxSaveFaults
  BY DEF SaveSettings
<1>2. saveFaults' = saveFaults + (IF outcome = "saved" THEN 0 ELSE 1)
  BY DEF SaveSettings
<1>3. unreported' = unreported + (IF outcome = "unreported" THEN 1 ELSE 0)
  BY DEF SaveSettings
<1>4. failedPauses' = failedPauses +
         (IF outcome # "saved" /\ settingsThread.item.change.field = "paused"
          THEN 1 ELSE 0)
  BY DEF SaveSettings
<1> QED  BY <1>0, <1>1, <1>2, <1>3, <1>4

(* The pause, and the shortcuts.                                           *)
LEMMA ToggleParts ==
    ASSUME TypesInv, TogglePause
    PROVE  /\ UNCHANGED <<phase, stored, settingsThread, shown, registered, changing,
                          provider, suggestionVars, unreported, saveFaults>>
           /\ phase = "running" /\ trayPaused' \in BOOLEAN /\ choices' \in 0..MaxChoices
           /\ \/ /\ \E c \in Changes : /\ c.field = "paused" /\ c.value = paused'
                                       /\ pending' = Append(pending,
                                             [change |-> c, previous |-> registered])
                                       /\ Queues(c, registered)
                 /\ paused' \in BOOLEAN /\ trayPaused' = paused'
                 /\ UNCHANGED <<loop, failedPauses>>
              \/ /\ UNCHANGED <<paused, pending>>
                 /\ \E t \in Trays : loop' = Append(loop, t)
                 /\ failedPauses' = failedPauses + 1
<1> DEFINE on == ~paused
<1>1. on \in BOOLEAN /\ (~on) \in BOOLEAN
  <2>1. \A flag \in BOOLEAN : (~flag) \in BOOLEAN /\ (~~flag) \in BOOLEAN
    OBVIOUS
  <2> QED  BY <2>1 DEF TypesInv
<1>2. /\ UNCHANGED <<phase, stored, settingsThread, shown, registered, changing,
                     provider, suggestionVars, unreported, saveFaults>>
      /\ phase = "running" /\ choices' = choices + 1 /\ choices < MaxChoices
      /\ trayPaused' = on
  BY DEF TogglePause, Chooses
<1>3. choices' \in 0..MaxChoices
  BY <1>2, LocalSettingsAssumption DEF TypesInv
<1>4. CASE Accepts
  <2>1. /\ paused' = on /\ UNCHANGED <<loop, failedPauses>>
        /\ Submit(Change("paused", on), registered)
    BY <1>4 DEF TogglePause
  <2>2. /\ Change("paused", on) \in Changes
        /\ Change("paused", on).field = "paused" /\ Change("paused", on).value = on
    BY <1>1 DEF Change, Changes
  <2> HIDE DEF on
  <2> QED  BY <1>1, <1>2, <1>3, <1>4, <2>1, <2>2 DEF Submit, Queues
<1>5. CASE ~Accepts
  <2>1. /\ UNCHANGED <<paused, pending>> /\ failedPauses' = failedPauses + 1
        /\ loop' = Append(loop, [kind |-> "tray", value |-> ~on])
    BY <1>5 DEF TogglePause
  <2>2. [kind |-> "tray", value |-> ~on] \in Trays
    BY <1>1 DEF Trays
  <2> HIDE DEF on
  <2> QED  BY <1>1, <1>2, <1>3, <2>1, <2>2
<1> QED  BY <1>4, <1>5

LEMMA ReplaceParts ==
    ASSUME TypesInv, NEW k \in Shortcuts, ReplaceShortcuts(k)
    PROVE  /\ UNCHANGED <<phase, stored, settingsThread, loop, paused, trayPaused,
                          shown, provider, suggestionVars, failedPauses, unreported,
                          saveFaults>>
           /\ ~changing /\ phase = "running" /\ choices' \in 0..MaxChoices
           /\ \/ UNCHANGED <<pending, registered, changing>>
              \/ \E c \in Changes : /\ c.field = "shortcuts" /\ c.value = k
                                    /\ pending' = Append(pending,
                                          [change |-> c, previous |-> registered])
                                    /\ Queues(c, registered)
                                    /\ registered' = k /\ changing' = TRUE
<1>1. /\ UNCHANGED <<phase, stored, settingsThread, loop, paused, trayPaused,
                     shown, provider, suggestionVars, failedPauses, unreported,
                     saveFaults>>
      /\ ~changing /\ phase = "running" /\ choices' = choices + 1 /\ choices < MaxChoices
  BY DEF ReplaceShortcuts, Chooses
<1>2. choices' \in 0..MaxChoices
  BY <1>1, LocalSettingsAssumption DEF TypesInv
<1>3. Change("shortcuts", k) \in Changes /\ Change("shortcuts", k).field = "shortcuts"
      /\ Change("shortcuts", k).value = k
  BY DEF Change, Changes
<1>4. CASE Accepts
  BY <1>1, <1>2, <1>3, <1>4 DEF ReplaceShortcuts, Submit, Queues
<1>5. CASE ~Accepts
  BY <1>1, <1>2, <1>5 DEF ReplaceShortcuts
<1> QED  BY <1>4, <1>5

LEMMA TypesStep ==
    ASSUME TypesInv, AnalysedInv, [SettingsNext]_settingsVars
    PROVE  TypesInv'
<1> USE DEF uiVars, suggestionVars
<1>1. CASE SuggestionsNext
  BY <1>1, SuggestionTypes
<1>2. CASE WaitingChoice
  <2>1. PICK c \in WaitingChanges : Queues(c, registered)
    BY <1>2, WaitingQueues
  <2>2. c \in Changes /\ registered \in Shortcuts
    BY DEF WaitingChanges, TypesInv
  <2>3. pending' \in Seq(Items) /\ Len(pending') <= QueueCapacity
    BY <2>1, <2>2, QueuedTypes
  <2> QED  BY <1>2, <2>3, WaitingQueues DEF TypesInv
<1>3. CASE TogglePause
  <2>1. pending' \in Seq(Items) /\ Len(pending') <= QueueCapacity
    <3>1. CASE UNCHANGED pending
      BY <3>1 DEF TypesInv
    <3>2. ASSUME NEW c \in Changes, Queues(c, registered)
          PROVE  pending' \in Seq(Items) /\ Len(pending') <= QueueCapacity
      BY <3>2, QueuedTypes DEF TypesInv
    <3> QED  BY <1>3, <3>1, <3>2, ToggleParts
  <2>2. loop' \in Seq(Closures)
    <3>1. \A t \in Trays : Append(loop, t) \in Seq(Closures)
      BY DEF TypesInv, Closures
    <3> QED  BY <1>3, <3>1, ToggleParts DEF TypesInv
  <2>3. paused' \in BOOLEAN /\ failedPauses' \in Nat
    BY <1>3, ToggleParts DEF TypesInv
  <2> QED  BY <1>3, <2>1, <2>2, <2>3, ToggleParts DEF TypesInv
<1>4. ASSUME NEW k \in Shortcuts, ReplaceShortcuts(k) PROVE TypesInv'
  <2>1. pending' \in Seq(Items) /\ Len(pending') <= QueueCapacity
    <3>1. CASE UNCHANGED pending
      BY <3>1 DEF TypesInv
    <3>2. ASSUME NEW c \in Changes, Queues(c, registered)
          PROVE  pending' \in Seq(Items) /\ Len(pending') <= QueueCapacity
      BY <3>2, QueuedTypes DEF TypesInv
    <3> QED  BY <1>4, <3>1, <3>2, ReplaceParts
  <2>2. registered' \in Shortcuts /\ changing' \in BOOLEAN
    BY <1>4, ReplaceParts DEF TypesInv
  <2> QED  BY <1>4, <2>1, <2>2, ReplaceParts DEF TypesInv
<1>5. CASE LoadSettings
  <2>1. pending' \in Seq(Items) /\ Len(pending') <= QueueCapacity
    <3>1. pending \in Seq(Items) /\ pending # <<>> /\ Len(pending) <= QueueCapacity
          /\ QueueCapacity \in Nat
      BY <1>5, LoadParts, LocalSettingsAssumption DEF TypesInv
    <3>2. Tail(pending) \in Seq(Items) /\ Len(Tail(pending)) = Len(pending) - 1
      BY <3>1, QueueTakes
    <3> QED  BY <1>5, <3>1, <3>2, LoadParts
  <2> QED  BY <1>5, <2>1, LoadParts DEF TypesInv
<1>6. ASSUME NEW outcome \in {"saved", "failed", "unreported"}, SaveSettings(outcome)
      PROVE  TypesInv'
  <2>1. loop' \in Seq(Closures)
    <3>1. \A c \in Completions : Append(loop, c) \in Seq(Closures)
      BY DEF TypesInv, Closures
    <3> QED  BY <1>6, <3>1, SaveParts DEF TypesInv
  <2>2. stored' \in Preferences
    BY <1>6, SaveParts DEF SaveSettings, TypesInv
  <2>3. unreported' \in Nat /\ failedPauses' \in Nat /\ saveFaults' \in 0..MaxSaveFaults
    BY <1>6, SaveCounts DEF TypesInv
  <2> QED  BY <1>6, <2>1, <2>2, <2>3, SaveParts DEF TypesInv
<1>7. CASE RunClosure
  <2>1. CASE Head(loop) \in Completions /\ CompletionRuns(Head(loop))
    <3> DEFINE c == Head(loop)
    <3>1. loop' \in Seq(Closures)
      BY <1>7, <2>1, ClosureRunning, CompletionLoop
    <3>2. shown' \in Preferences
      BY <2>1, CompletionParts, ShowsTypes DEF CompletionRuns, TypesInv
    <3>3. registered' \in Shortcuts
      BY <2>1, CompletionParts DEF CompletionRuns, TypesInv
    <3>4. paused' \in BOOLEAN /\ changing' \in BOOLEAN
      <4>1. paused' = paused \/ paused' = ~c.item.change.value
        BY <2>1 DEF CompletionRuns
      <4>2. c.item.change.field = "paused" \/ paused' = paused
        BY <2>1 DEF CompletionRuns
      <4>3. paused' \in BOOLEAN
        BY <2>1, <4>1, <4>2, CompletionParts DEF TypesInv
      <4>4. changing' \in BOOLEAN
        BY <2>1 DEF CompletionRuns
      <4> QED  BY <4>3, <4>4
    <3>5. suggesting' \in Run \cup {NoRun} /\ runs' \in 0..MaxRuns
      <4>1. StartRun \/ UNCHANGED suggestionVars
        BY <2>1 DEF CompletionRuns
      <4> QED  BY <4>1, StartRunTypes DEF TypesInv
    <3>6. trayPaused' \in BOOLEAN
      BY <1>7, <2>1, ClosureRunning, Shapes DEF TypesInv
    <3> QED  BY <1>7, <3>1, <3>2, <3>3, <3>4, <3>5, <3>6, ClosureRunning DEF TypesInv
  <2>2. CASE ~(Head(loop) \in Completions /\ CompletionRuns(Head(loop)))
    <3>1. Head(loop) \in Trays /\ trayPaused' = Head(loop).value /\ loop' = Tail(loop)
          /\ UNCHANGED <<paused, shown, registered, changing, suggestionVars>>
      BY <1>7, <2>2, ClosureRunning
    <3>2. trayPaused' \in BOOLEAN
      BY <3>1 DEF Trays
    <3> QED  BY <1>7, <3>1, <3>2, ClosureRunning DEF TypesInv
  <2> QED  BY <2>1, <2>2
<1>8. CASE Quit
  <2>1. loop' \in Seq(Closures)
    BY <1>8 DEF Quit
  <2> QED  BY <1>8, <2>1 DEF Quit, TypesInv
<1>9. CASE Exit
  BY <1>9 DEF Exit, TypesInv
<1>10. CASE Launch
  <2>1. stored.paused \in BOOLEAN /\ stored.shortcuts \in Shortcuts
    BY DEF TypesInv, Preferences
  <2> QED  BY <1>10, <2>1 DEF Launch, TypesInv
<1>11. CASE UNCHANGED settingsVars
  BY <1>11 DEF settingsVars, TypesInv
<1> QED
  BY <1>1, <1>2, <1>3, <1>4, <1>5, <1>6, <1>7, <1>8, <1>9, <1>10, <1>11
     DEF SettingsNext, SuggestionsNext, WaitingChoice

LEMMA AnalysedStep ==
    ASSUME TypesInv, AnalysedInv, [SettingsNext]_settingsVars
    PROVE  AnalysedInv'
<1> USE DEF uiVars, suggestionVars
<1>0. /\ stored.analysed \in Nat /\ stored.analysed <= runs /\ runs \in Nat
      /\ suggesting \in Run => suggesting.now <= runs /\ suggesting.now \in Nat
      /\ settingsThread \in Loaded =>
            /\ settingsThread.settings.analysed <= runs
            /\ settingsThread.settings.analysed \in Nat
  BY LocalSettingsAssumption DEF TypesInv, AnalysedInv, Preferences, Loaded, Run
<1>1. CASE SuggestionsNext
  BY <1>1, SuggestionTypes
<1>2. CASE UNCHANGED <<stored, settingsThread, suggesting, runs>>
  BY <1>2 DEF AnalysedInv
<1>3. CASE LoadSettings
  <2>1. settingsThread'.settings.analysed = stored.analysed
    <3>1. stored \in Preferences
      BY DEF TypesInv
    <3>2. Head(pending).change \in Changes
      BY <1>3, LoadParts
    <3>3. Applied(stored, Head(pending).change).analysed = stored.analysed
      BY <3>1, <3>2, AppliedFields
    <3> QED  BY <1>3, <3>3, LoadParts
  <2> QED  BY <1>0, <1>3, <2>1, LoadParts DEF AnalysedInv
<1>4. ASSUME NEW outcome \in {"saved", "failed", "unreported"}, SaveSettings(outcome)
      PROVE  AnalysedInv'
  <2>1. stored' \in {stored, settingsThread.settings}
    BY <1>4 DEF SaveSettings
  <2> QED  BY <1>0, <1>4, <2>1, SaveParts, Shapes DEF AnalysedInv
<1>5. CASE RunClosure
  <2>1. StartRun \/ UNCHANGED suggestionVars
    BY <1>5, ClosureRunning DEF CompletionRuns
  <2>2. UNCHANGED <<stored, settingsThread>>
    BY <1>5, ClosureRunning
  <2>3. CASE StartRun
    <3>1. /\ suggesting' \in Run /\ runs' = runs + 1 /\ suggesting'.now <= runs'
      BY <2>3, StartRunTypes
    <3> QED  BY <1>0, <2>2, <3>1 DEF AnalysedInv
  <2>4. CASE UNCHANGED suggestionVars
    BY <2>2, <2>4 DEF AnalysedInv
  <2> QED  BY <2>1, <2>3, <2>4
<1>6. CASE WaitingChoice
  BY <1>2, <1>6, WaitingQueues
<1>7. CASE TogglePause
  BY <1>2, <1>7, ToggleParts
<1>8. ASSUME NEW k \in Shortcuts, ReplaceShortcuts(k) PROVE AnalysedInv'
  BY <1>2, <1>8, ReplaceParts
<1>9. CASE Exit
  BY <1>9, Shapes DEF Exit, AnalysedInv
<1>10. CASE Quit \/ Launch \/ UNCHANGED settingsVars
  BY <1>2, <1>10 DEF Quit, Launch, settingsVars
<1> QED
  BY <1>1, <1>3, <1>4, <1>5, <1>6, <1>7, <1>8, <1>9, <1>10
     DEF SettingsNext, SuggestionsNext, WaitingChoice

-----------------------------------------------------------------------------
(* The suggestion thread disturbs nothing but the consent.                 *)

LEMMA SuggestionsHold ==
    ASSUME PreferencesInv, SuggestionsNext
    PROVE  ThreadInv' /\ PhaseInv' /\ PauseInv' /\ PageInv' /\ ShortcutInv'
<1>0. /\ UNCHANGED <<phase, pending, settingsThread, loop, paused, trayPaused, shown,
                     registered, changing, failedPauses, unreported, saveFaults>>
      /\ SamePreferences(stored', stored)
      /\ stored' \in Preferences /\ stored \in Preferences
  BY SuggestionsKeep, SuggestionTypes DEF PreferencesInv, uiVars, TypesInv
<1>1. ThreadInv'
  <2> SUFFICES ASSUME settingsThread \in Loaded PROVE ThreadInv'
    BY <1>0 DEF ThreadInv
  <2> DEFINE c == settingsThread.item.change
  <2>1. c \in Changes
    <3>1. settingsThread.item \in Items
      BY DEF Loaded
    <3> QED  BY <3>1 DEF Items
  <2>2. SamePreferences(Applied(stored', c), Applied(stored, c))
    BY <1>0, <2>1, AppliedSame
  <2>3. SamePreferences(settingsThread.settings, Applied(stored, c))
    BY DEF PreferencesInv, ThreadInv
  <2>4. SamePreferences(settingsThread.settings, Applied(stored', c))
    BY <2>2, <2>3 DEF SamePreferences
  <2> QED  BY <1>0, <2>4 DEF ThreadInv
<1>2. PhaseInv'
  BY <1>0 DEF PreferencesInv, PhaseInv
<1>3. PauseInv'
  <2>1. stored'.paused = stored.paused
    BY <1>0 DEF SamePreferences
  <2> QED  BY <1>0, <2>1 DEF PreferencesInv, PauseInv, Working
<1>4. PageInv'
  <2>1. /\ stored'.history = stored.history /\ stored'.assist = stored.assist
        /\ stored'.consent = stored.consent
    BY <1>0 DEF SamePreferences
  <2>2. HistoryShows' = HistoryShows /\ AssistShows' = AssistShows
    BY <2>1 DEF HistoryShows, AssistShows
  <2> QED  BY <1>0, <2>1, <2>2 DEF PreferencesInv, PageInv
<1>5. ShortcutInv'
  <2>1. stored'.shortcuts = stored.shortcuts
    BY <1>0 DEF SamePreferences
  <2>2. /\ LeadingItems' = LeadingItems /\ LeadingEnds' = LeadingEnds
        /\ Reported' = Reported /\ \A i : Leads(i)' = Leads(i)
    BY <1>0, <2>1 DEF LeadingItems, LeadingEnds, Leads, Reported
  <2>3. Leads(settingsThread.item) => Leads(settingsThread.item)'
    BY <1>0, <2>1 DEF Leads, Reported
  <2> QED  BY <1>0, <2>1, <2>2, <2>3
       DEF PreferencesInv, ShortcutInv, ShortcutsAtRest, ShortcutsQueued, ShortcutsSaving, ShortcutsEnding,
           Working
<1> QED  BY <1>1, <1>2, <1>3, <1>4, <1>5

-----------------------------------------------------------------------------
(* What the settings thread writes; the phases.                            *)

LEMMA ThreadStep ==
    ASSUME PreferencesInv, [SettingsNext]_settingsVars
    PROVE  ThreadInv'
<1> USE DEF uiVars, suggestionVars
<1>0. TypesInv /\ ThreadInv
  BY DEF PreferencesInv
<1>1. CASE LoadSettings
  BY <1>0, <1>1, LoadParts DEF ThreadInv, SamePreferences
<1>2. ASSUME NEW outcome \in {"saved", "failed", "unreported"}, SaveSettings(outcome)
      PROVE  ThreadInv'
  BY <1>0, <1>2, SaveParts, Shapes DEF ThreadInv
<1>3. CASE SuggestionsNext
  BY <1>3, SuggestionsHold
<1>4. CASE UNCHANGED <<stored, settingsThread>>
  BY <1>0, <1>4 DEF ThreadInv
<1>5. CASE WaitingChoice
  BY <1>0, <1>4, <1>5, WaitingQueues
<1>6. CASE TogglePause
  BY <1>0, <1>4, <1>6, ToggleParts
<1>7. ASSUME NEW k \in Shortcuts, ReplaceShortcuts(k) PROVE ThreadInv'
  BY <1>0, <1>4, <1>7, ReplaceParts
<1>8. CASE RunClosure
  BY <1>0, <1>4, <1>8, ClosureRunning
<1>9. CASE Quit \/ Exit \/ Launch \/ UNCHANGED settingsVars
  BY <1>4, <1>9 DEF Quit, Exit, Launch, settingsVars
<1> QED
  BY <1>1, <1>2, <1>3, <1>5, <1>6, <1>7, <1>8, <1>9
     DEF SettingsNext, SuggestionsNext, WaitingChoice

(* What a save stores: the change, and nothing else of the preferences.    *)
LEMMA SaveStores ==
    ASSUME PreferencesInv, NEW outcome \in {"saved", "failed", "unreported"}, SaveSettings(outcome)
    PROVE  LET c == settingsThread.item.change IN
           /\ outcome = "failed" => stored' = stored
           /\ outcome # "failed" =>
                 /\ stored' = settingsThread.settings
                 /\ stored'.paused = IF c.field = "paused" THEN c.value ELSE stored.paused
                 /\ stored'.shortcuts =
                       IF c.field = "shortcuts" THEN c.value ELSE stored.shortcuts
                 /\ c.field # "history" => stored'.history = stored.history
                 /\ c.field \notin {"assist", "consent"} =>
                       stored'.assist = stored.assist /\ stored'.consent = stored.consent
<1> DEFINE c == settingsThread.item.change
           a == Applied(stored, c)
<1>1. settingsThread \in Loaded /\ c \in Changes /\ stored \in Preferences
  BY SaveParts DEF PreferencesInv, TypesInv
<1>2. stored' = IF outcome = "failed" THEN stored ELSE settingsThread.settings
  BY DEF SaveSettings
<1>3. SamePreferences(settingsThread.settings, a)
  BY <1>1 DEF PreferencesInv, ThreadInv
<1>4. /\ a.paused = IF c.field = "paused" THEN c.value ELSE stored.paused
      /\ a.shortcuts = IF c.field = "shortcuts" THEN c.value ELSE stored.shortcuts
  BY <1>1, AppliedFields
<1>5. c.field # "history" => a.history = stored.history
  BY <1>1, AppliedFields
<1>6. c.field \notin {"assist", "consent"} =>
         a.assist = stored.assist /\ a.consent = stored.consent
  BY <1>1, AppliedFields
<1> HIDE DEF a, c
<1>7. /\ outcome = "failed" => stored' = stored
      /\ outcome # "failed" =>
            /\ stored' = settingsThread.settings
            /\ stored'.paused = IF c.field = "paused" THEN c.value ELSE stored.paused
            /\ stored'.shortcuts =
                  IF c.field = "shortcuts" THEN c.value ELSE stored.shortcuts
            /\ c.field # "history" => stored'.history = stored.history
            /\ c.field \notin {"assist", "consent"} =>
                  stored'.assist = stored.assist /\ stored'.consent = stored.consent
  BY <1>2, <1>3, <1>4, <1>5, <1>6 DEF SamePreferences
<1> QED  BY <1>7 DEF c

LEMMA PhaseStep ==
    ASSUME PreferencesInv, [SettingsNext]_settingsVars
    PROVE  PhaseInv'
<1> USE DEF uiVars, suggestionVars
<1>0. /\ TypesInv /\ PhaseInv /\ loop \in Seq(Closures)
      /\ saveFaults \in Nat /\ unreported \in Nat
      /\ \A c \in Closures : c \in Closures
  BY LocalSettingsAssumption DEF PreferencesInv, TypesInv
<1>1. CASE SuggestionsNext
  BY <1>1, SuggestionsHold
<1>2. CASE UNCHANGED <<phase, pending, settingsThread, loop, unreported, saveFaults>>
  BY <1>0, <1>2 DEF PhaseInv
<1>3. CASE WaitingChoice
  <2>1. UNCHANGED <<phase, settingsThread, loop, unreported, saveFaults>>
    BY <1>0, <1>3, WaitingQueues
  <2>2. pending' = pending \/ phase = "running"
    BY <1>0, <1>3, WaitingQueues DEF Queues, Accepts
  <2> QED  BY <1>0, <2>1, <2>2 DEF PhaseInv
<1>4. CASE TogglePause
  <2>1. phase = "running" /\ UNCHANGED <<phase, settingsThread, unreported, saveFaults>>
    BY <1>0, <1>4, ToggleParts
  <2>2. loop' = loop \/ \E t \in Trays : loop' = Append(loop, t)
    BY <1>0, <1>4, ToggleParts
  <2>3. \A t \in Trays : t \in Closures /\ t \notin FailureCount
    BY Shapes DEF FailureCount, Closures
  <2>4. NoneIn(loop, FailureCount) => NoneIn(loop', FailureCount)
    BY <1>0, <2>2, <2>3, QueueAppends
  <2> QED  BY <1>0, <2>1, <2>4 DEF PhaseInv
<1>5. ASSUME NEW k \in Shortcuts, ReplaceShortcuts(k) PROVE PhaseInv'
  BY <1>0, <1>5, ReplaceParts DEF PhaseInv
<1>6. CASE LoadSettings
  <2>1. phase # "closed"
    BY <1>0, <1>6, LoadParts DEF PhaseInv
  <2> QED  BY <1>0, <1>6, <2>1, LoadParts DEF PhaseInv
<1>7. ASSUME NEW outcome \in {"saved", "failed", "unreported"}, SaveSettings(outcome)
      PROVE  PhaseInv'
  <2>1. /\ settingsThread \in Loaded /\ UNCHANGED <<phase, pending>>
        /\ settingsThread' = NoThread
    BY <1>0, <1>7, SaveParts
  <2>2. PICK c \in Completions :
           /\ c.ok = (outcome = "saved")
           /\ loop' = IF phase = "running" THEN Append(loop, c) ELSE loop
    BY <1>0, <1>7, SaveParts
  <2>3. unreported' <= saveFaults' /\ (saveFaults' = 0 => outcome = "saved" /\ saveFaults = 0)
    BY <1>0, <1>7, SaveCounts DEF PhaseInv
  <2>4. outcome = "saved" => c \notin FailureCount
    BY <2>2 DEF FailureCount
  <2>5. saveFaults' = 0 => NoneIn(loop', FailureCount)
    BY <1>0, <2>2, <2>3, <2>4, QueueAppends DEF PhaseInv, Closures
  <2> QED  BY <1>0, <2>1, <2>2, <2>3, <2>5, Shapes DEF PhaseInv
<1>8. CASE RunClosure
  <2>1. /\ phase = "running" /\ loop # <<>>
        /\ UNCHANGED <<phase, pending, settingsThread, unreported, saveFaults>>
        /\ Tail(loop) \in Seq(Closures)
    BY <1>0, <1>8, ClosureRunning
  <2>2. loop' = Tail(loop) \/ \E t \in Trays : loop' = Append(Tail(loop), t)
    BY <1>0, <1>8, ClosureRunning, CompletionLoop
  <2>3. \A t \in Trays : t \in Closures /\ t \notin FailureCount
    BY Shapes DEF FailureCount, Closures
  <2>4. NoneIn(loop, FailureCount) => NoneIn(Tail(loop), FailureCount)
    BY <1>0, <2>1, QueueTakes
  <2>5. NoneIn(Tail(loop), FailureCount) => NoneIn(loop', FailureCount)
    BY <2>1, <2>2, <2>3, QueueAppends
  <2> QED  BY <1>0, <2>1, <2>4, <2>5 DEF PhaseInv
<1>9. CASE Quit
  BY <1>0, <1>9, QueueEmpty DEF Quit, PhaseInv
<1>10. CASE Exit
  BY <1>0, <1>10 DEF Exit, PhaseInv
<1>11. CASE Launch
  BY <1>0, <1>11 DEF Launch, PhaseInv
<1>12. CASE UNCHANGED settingsVars
  BY <1>2, <1>12 DEF settingsVars
<1> QED
  BY <1>1, <1>3, <1>4, <1>5, <1>6, <1>7, <1>8, <1>9, <1>10, <1>11, <1>12
     DEF SettingsNext, SuggestionsNext, WaitingChoice

-----------------------------------------------------------------------------
(* The pause: every step that changes the flag or takes a change of it one *)
(* place further.                                                          *)

LEMMA PauseStep ==
    ASSUME PreferencesInv, [SettingsNext]_settingsVars
    PROVE  PauseInv'
<1> USE DEF uiVars, suggestionVars
<1>0. /\ TypesInv /\ PhaseInv /\ PauseInv /\ loop \in Seq(Closures)
      /\ pending \in Seq(Items) /\ failedPauses \in Nat
  BY DEF PreferencesInv, TypesInv
<1>1. CASE UNCHANGED <<stored, pending, settingsThread, loop, paused, trayPaused, failedPauses>>
  BY <1>0, <1>1 DEF PauseInv, Working
<1>2. CASE SuggestionsNext
  BY <1>2, SuggestionsHold
<1>3. ASSUME NEW c \in Changes, c.field # "paused", NEW k \in Shortcuts, Queues(c, k),
             UNCHANGED <<stored, settingsThread, loop, paused, trayPaused, failedPauses>>
      PROVE  PauseInv'
  <2>1. CASE UNCHANGED pending
    BY <1>1, <1>3, <2>1
  <2>2. CASE ~UNCHANGED pending
    <3> DEFINE i == [change |-> c, previous |-> k]
    <3>1. pending' = Append(pending, i)
      BY <1>3, <2>2 DEF Queues
    <3>2. i \in Items /\ i \notin PauseItems
      BY <1>3 DEF Items, PauseItems
    <3> HIDE DEF i
    <3>3. /\ NoneIn(pending, PauseItems) => NoneIn(pending', PauseItems)
          /\ \A good : LastIn(pending, PauseItems, good) => LastIn(pending', PauseItems, good)
      BY <1>0, <3>1, <3>2, QueueAppends
    <3>4. Working("paused")' = Working("paused") /\ PausesAs(paused)' = PausesAs(paused)
      BY <1>3 DEF Working, PausesAs
    <3> QED  BY <1>0, <1>3, <3>3, <3>4 DEF PauseInv
  <2> QED  BY <2>1, <2>2
<1>4. CASE WaitingChoice
  <2>1. PICK c \in WaitingChanges : Queues(c, registered)
    BY <1>0, <1>4, WaitingQueues
  <2>2. c \in Changes /\ c.field # "paused" /\ registered \in Shortcuts
    BY <1>0 DEF WaitingChanges, TypesInv
  <2> QED  BY <1>0, <1>3, <1>4, <2>1, <2>2, WaitingQueues
<1>5. ASSUME NEW k \in Shortcuts, ReplaceShortcuts(k) PROVE PauseInv'
  <2>1. UNCHANGED <<stored, settingsThread, loop, paused, trayPaused, failedPauses>>
    BY <1>0, <1>5, ReplaceParts
  <2>2. UNCHANGED pending \/ \E c \in Changes : c.field = "shortcuts" /\ Queues(c, registered)
    BY <1>0, <1>5, ReplaceParts
  <2>3. registered \in Shortcuts
    BY <1>0 DEF TypesInv
  <2> QED  BY <1>1, <1>3, <2>1, <2>2, <2>3
<1>6. CASE TogglePause
  <2>1. CASE failedPauses' = failedPauses + 1
    BY <1>0, <2>1 DEF PauseInv
  <2>2. CASE failedPauses' # failedPauses + 1
    <3>1. PICK c \in Changes :
             /\ c.field = "paused" /\ c.value = paused'
             /\ pending' = Append(pending, [change |-> c, previous |-> registered])
      BY <1>0, <1>6, <2>2, ToggleParts
    <3>2. trayPaused' = paused' /\ UNCHANGED <<loop, failedPauses>>
      BY <1>0, <1>6, <2>2, ToggleParts
    <3> DEFINE i == [change |-> c, previous |-> registered]
    <3>3. i \in Items /\ i.change = c
      BY <1>0 DEF Items, TypesInv
    <3>4. pending' = Append(pending, i)
      BY <3>1
    <3> HIDE DEF i
    <3>5. i \in PausesAs(paused)'
      BY <3>1, <3>3 DEF PausesAs, PauseItems
    <3>6. LastIn(pending', PauseItems, PausesAs(paused)')
      BY <1>0, <3>3, <3>4, <3>5, QueueAppends
    <3> QED  BY <1>0, <3>2, <3>6 DEF PauseInv
  <2> QED  BY <2>1, <2>2
<1>7. CASE LoadSettings
  <2>1. /\ settingsThread = NoThread /\ pending # <<>> /\ pending' = Tail(pending)
        /\ settingsThread' \in Loaded /\ settingsThread'.item = Head(pending)
        /\ UNCHANGED <<stored, loop, paused, trayPaused, failedPauses>>
    BY <1>0, <1>7, LoadParts
  <2> SUFFICES ASSUME failedPauses = 0 PROVE PauseInv'
    BY <2>1 DEF PauseInv
  <2>2. ~Working("paused") /\ (Working("paused")' <=> Head(pending).change.field = "paused")
    BY <2>1, Shapes DEF Working
  <2>3. PausesAs(paused)' = PausesAs(paused)
    BY <2>1 DEF PausesAs
  <2>4. /\ Head(pending) \in Items
        /\ NoneIn(pending, PauseItems) =>
              Head(pending) \notin PauseItems /\ NoneIn(pending', PauseItems)
        /\ LastIn(pending, PauseItems, PausesAs(paused)) =>
              \/ LastIn(pending', PauseItems, PausesAs(paused))
              \/ Head(pending) \in PausesAs(paused) /\ NoneIn(pending', PauseItems)
    BY <1>0, <2>1, QueueTakes
  <2>5. CASE LastIn(pending', PauseItems, PausesAs(paused))
    BY <1>0, <2>1, <2>3, <2>5 DEF PauseInv
  <2>6. CASE Head(pending) \in PausesAs(paused) /\ NoneIn(pending', PauseItems)
    <3>1. Head(pending).change.field = "paused" /\ Head(pending).change.value = paused
      BY <2>6 DEF PausesAs, PauseItems
    <3> QED  BY <1>0, <2>1, <2>2, <2>6, <3>1 DEF PauseInv
  <2>7. CASE NoneIn(pending, PauseItems)
    <3>1. Head(pending).change.field # "paused" /\ NoneIn(pending', PauseItems)
      BY <2>4, <2>7 DEF PauseItems
    <3>2. stored.paused = paused \/ LastIn(pending, PauseItems, PausesAs(paused))
      BY <1>0, <2>2 DEF PauseInv
    <3>3. stored.paused = paused \/ LastIn(pending', PauseItems, PausesAs(paused))
      BY <2>4, <3>1, <3>2, <2>7 DEF PausesAs
    <3>4. trayPaused = paused /\ NoneIn(loop, PauseUndoes)
      BY <1>0 DEF PauseInv
    <3> QED  BY <2>1, <2>2, <2>5, <3>1, <3>3, <3>4 DEF PauseInv
  <2> QED  BY <1>0, <2>4, <2>5, <2>6, <2>7 DEF PauseInv
<1>8. ASSUME NEW outcome \in {"saved", "failed", "unreported"}, SaveSettings(outcome)
      PROVE  PauseInv'
  <2> SUFFICES ASSUME failedPauses' = 0 PROVE PauseInv'
    BY DEF PauseInv
  <2>1. /\ failedPauses = 0
        /\ outcome # "saved" => settingsThread.item.change.field # "paused"
    BY <1>0, <1>8, SaveCounts
  <2>2. /\ settingsThread \in Loaded /\ settingsThread' = NoThread
        /\ UNCHANGED <<phase, pending, paused, trayPaused>>
    BY <1>0, <1>8, SaveParts
  <2>3. PICK c \in Completions :
           /\ c.item = settingsThread.item /\ c.ok = (outcome = "saved")
           /\ loop' = IF phase = "running" THEN Append(loop, c) ELSE loop
    BY <1>0, <1>8, SaveParts
  <2>4. c \notin PauseUndoes /\ c \in Closures
    BY <2>1, <2>3, Shapes DEF PauseUndoes, FailureCount, Closures
  <2>5. NoneIn(loop', PauseUndoes)
    BY <1>0, <2>1, <2>3, <2>4, QueueAppends DEF PauseInv
  <2>6. Working("paused")' = FALSE /\ PausesAs(paused)' = PausesAs(paused)
    BY <2>2, Shapes DEF Working, PausesAs
  <2>7. stored'.paused = IF settingsThread.item.change.field = "paused"
                         THEN settingsThread.item.change.value ELSE stored.paused
    BY <1>8, <2>1, SaveStores
  <2>8. Working("paused") <=> settingsThread.item.change.field = "paused"
    BY <2>2 DEF Working
  <2> QED  BY <1>0, <2>1, <2>2, <2>5, <2>6, <2>7, <2>8 DEF PauseInv
<1>9. CASE RunClosure
  <2>1. /\ loop # <<>> /\ Head(loop) \in Closures
        /\ UNCHANGED <<stored, pending, settingsThread, failedPauses>>
        /\ NoneIn(loop, PauseUndoes) =>
              Head(loop) \notin PauseUndoes /\ NoneIn(Tail(loop), PauseUndoes)
    BY <1>0, <1>9, ClosureRunning, QueueTakes
  <2> SUFFICES ASSUME failedPauses = 0 PROVE PauseInv'
    BY <2>1 DEF PauseInv
  <2>2. Head(loop) \notin PauseUndoes /\ NoneIn(Tail(loop), PauseUndoes)
    BY <1>0, <2>1 DEF PauseInv
  <2>3. Head(loop) \in Completions /\ CompletionRuns(Head(loop)) /\ UNCHANGED trayPaused
    BY <1>0, <1>9, <2>2, ClosureRunning DEF PauseUndoes
  <2>4. ~(Head(loop).item.change.field = "paused" /\ ~Head(loop).ok)
    BY <2>2, <2>3 DEF PauseUndoes, FailureCount
  <2>5. loop' = Tail(loop) /\ paused' = paused
    BY <2>3, <2>4 DEF CompletionRuns
  <2>6. Working("paused")' = Working("paused") /\ PausesAs(paused)' = PausesAs(paused)
    BY <2>1, <2>5 DEF Working, PausesAs
  <2> QED  BY <1>0, <2>1, <2>2, <2>3, <2>5, <2>6 DEF PauseInv
<1>10. CASE Quit
  <2>1. UNCHANGED <<stored, pending, settingsThread, paused, trayPaused, failedPauses>>
        /\ loop' = <<>>
    BY <1>10 DEF Quit
  <2>2. NoneIn(loop', PauseUndoes)
    BY <2>1, QueueEmpty
  <2> QED  BY <1>0, <2>1, <2>2 DEF PauseInv, Working
<1>11. CASE Exit
  BY <1>1, <1>11 DEF Exit
<1>12. CASE Launch
  <2>1. /\ paused' = stored.paused /\ trayPaused' = stored.paused
        /\ UNCHANGED <<stored, pending, settingsThread, loop>> /\ phase = "closed"
    BY <1>12 DEF Launch
  <2>2. pending = <<>> /\ settingsThread = NoThread /\ loop = <<>>
    BY <1>0, <2>1 DEF PhaseInv
  <2>3. NoneIn(loop', PauseUndoes) /\ NoneIn(pending', PauseItems) /\ ~Working("paused")'
    BY <2>1, <2>2, QueueEmpty, Shapes DEF Working
  <2> QED  BY <2>1, <2>3 DEF PauseInv
<1>13. CASE UNCHANGED settingsVars
  BY <1>1, <1>13 DEF settingsVars
<1> QED
  BY <1>2, <1>4, <1>5, <1>6, <1>7, <1>8, <1>9, <1>10, <1>11, <1>12, <1>13
     DEF SettingsNext, SuggestionsNext, WaitingChoice

-----------------------------------------------------------------------------
(* The page: a saved change of a control that waits takes its value along. *)

(* What one control shows, for the two of them: a closure under way will   *)
(* show the row, or none is and the page does (fits).                      *)
LEMMA PageSave ==
    ASSUME NEW saves \in SUBSET Completions, NEW shows, NEW q \in Seq(Closures),
           NEW c \in Completions, NEW fits, c \in shows \/ c \notin saves,
           LastIn(q, saves, shows) \/ (NoneIn(q, saves) /\ fits)
    PROVE  \/ LastIn(Append(q, c), saves, shows)
           \/ NoneIn(Append(q, c), saves) /\ fits
<1>1. c \in Closures
  BY DEF Closures
<1> QED  BY <1>1, QueueAppends

LEMMA PageStep ==
    ASSUME PreferencesInv, [SettingsNext]_settingsVars
    PROVE  PageInv'
<1> USE DEF uiVars, suggestionVars
<1>0. /\ TypesInv /\ PhaseInv /\ PageInv /\ loop \in Seq(Closures)
      /\ unreported \in Nat /\ shown \in Preferences
  BY DEF PreferencesInv, TypesInv
<1>1. CASE UNCHANGED <<phase, unreported, stored, loop, shown>>
  <2>1. HistoryShows' = HistoryShows /\ AssistShows' = AssistShows
    BY <1>1 DEF HistoryShows, AssistShows
  <2> QED  BY <1>0, <1>1, <2>1 DEF PageInv
<1>2. CASE SuggestionsNext
  BY <1>2, SuggestionsHold
<1>3. CASE WaitingChoice
  BY <1>0, <1>1, <1>3, WaitingQueues
<1>4. ASSUME NEW k \in Shortcuts, ReplaceShortcuts(k) PROVE PageInv'
  BY <1>0, <1>1, <1>4, ReplaceParts
<1>5. CASE LoadSettings
  BY <1>0, <1>1, <1>5, LoadParts
<1>6. CASE TogglePause
  <2>1. UNCHANGED <<phase, unreported, stored, shown>>
    BY <1>0, <1>6, ToggleParts
  <2>2. CASE UNCHANGED loop
    BY <1>1, <2>1, <2>2
  <2>3. CASE ~UNCHANGED loop
    <3>1. PICK t \in Trays : loop' = Append(loop, t)
      BY <1>0, <1>6, <2>3, ToggleParts
    <3>2. t \in Closures /\ t \notin HistorySaves /\ t \notin AssistSaves
      BY Shapes DEF HistorySaves, AssistSaves, Closures
    <3>3. HistoryShows' = HistoryShows /\ AssistShows' = AssistShows
      BY <2>1 DEF HistoryShows, AssistShows
    <3>4. /\ NoneIn(loop, HistorySaves) => NoneIn(loop', HistorySaves)
          /\ LastIn(loop, HistorySaves, HistoryShows) => LastIn(loop', HistorySaves, HistoryShows)
          /\ NoneIn(loop, AssistSaves) => NoneIn(loop', AssistSaves)
          /\ LastIn(loop, AssistSaves, AssistShows) => LastIn(loop', AssistSaves, AssistShows)
      BY <1>0, <3>1, <3>2, QueueAppends
    <3> QED  BY <1>0, <2>1, <3>3, <3>4 DEF PageInv
  <2> QED  BY <2>2, <2>3
<1>7. ASSUME NEW outcome \in {"saved", "failed", "unreported"}, SaveSettings(outcome)
      PROVE  PageInv'
  <2> SUFFICES ASSUME phase' = "running", unreported' = 0 PROVE PageInv'
    BY DEF PageInv
  <2>1. outcome # "unreported" /\ unreported = 0
    BY <1>0, <1>7, SaveCounts
  <2>2. /\ phase = "running" /\ shown' = shown
        /\ settingsThread.settings \in Preferences
    BY <1>0, <1>7, SaveParts
  <2>3. PICK c \in Completions :
           /\ c.item = settingsThread.item /\ c.committed = settingsThread.settings
           /\ c.ok = (outcome = "saved") /\ loop' = Append(loop, c)
    BY <1>0, <1>7, <2>2, SaveParts
  <2> DEFINE field == settingsThread.item.change.field
  <2>4. /\ outcome = "failed" => stored' = stored
        /\ outcome = "saved" =>
              /\ stored' = settingsThread.settings
              /\ field # "history" => stored'.history = stored.history
              /\ field \notin {"assist", "consent"} =>
                    stored'.assist = stored.assist /\ stored'.consent = stored.consent
    BY <1>7, SaveStores
  <2>5. c.item.change.field = field
    BY <2>3
  <2> HIDE DEF field
  <2>6. CASE outcome = "saved" /\ field = "history"
    <3>1. c \in HistorySaves /\ c \in HistoryShows' /\ c \notin AssistSaves
      BY <2>3, <2>4, <2>5, <2>6 DEF HistorySaves, HistoryShows, AssistSaves
    <3>2. stored'.assist = stored.assist /\ stored'.consent = stored.consent
      BY <2>4, <2>6
    <3>3. AssistShows' = AssistShows
      BY <3>2 DEF AssistShows
    <3>4. LastIn(loop', HistorySaves, HistoryShows')
      BY <1>0, <2>3, <3>1, QueueAppends DEF Closures
    <3>5. \/ LastIn(loop, AssistSaves, AssistShows)
          \/ NoneIn(loop, AssistSaves) /\ shown.assist = stored.assist /\ shown.consent = stored.consent
      BY <1>0, <2>1, <2>2 DEF PageInv
    <3>6. \/ LastIn(loop', AssistSaves, AssistShows)
          \/ NoneIn(loop', AssistSaves) /\ shown.assist = stored.assist /\ shown.consent = stored.consent
      BY <1>0, <2>3, <3>1, <3>5, PageSave DEF AssistSaves
    <3> QED  BY <2>2, <3>2, <3>3, <3>4, <3>6 DEF PageInv
  <2>7. CASE outcome = "saved" /\ field \in {"assist", "consent"}
    <3>1. c \in AssistSaves /\ c \in AssistShows' /\ c \notin HistorySaves
      BY <2>3, <2>4, <2>5, <2>7 DEF HistorySaves, AssistShows, AssistSaves
    <3>2. stored'.history = stored.history
      BY <2>4, <2>7
    <3>3. HistoryShows' = HistoryShows
      BY <3>2 DEF HistoryShows
    <3>4. LastIn(loop', AssistSaves, AssistShows')
      BY <1>0, <2>3, <3>1, QueueAppends DEF Closures
    <3>5. \/ LastIn(loop, HistorySaves, HistoryShows)
          \/ NoneIn(loop, HistorySaves) /\ shown.history = stored.history
      BY <1>0, <2>1, <2>2 DEF PageInv
    <3>6. \/ LastIn(loop', HistorySaves, HistoryShows)
          \/ NoneIn(loop', HistorySaves) /\ shown.history = stored.history
      BY <1>0, <2>3, <3>1, <3>5, PageSave DEF HistorySaves
    <3> QED  BY <2>2, <3>2, <3>3, <3>4, <3>6 DEF PageInv
  <2>8. CASE outcome = "failed" \/ field \notin {"history", "assist", "consent"}
    <3>1. c \notin HistorySaves /\ c \notin AssistSaves
      BY <2>3, <2>5, <2>8 DEF HistorySaves, AssistSaves
    <3>2. /\ stored'.history = stored.history /\ stored'.assist = stored.assist
          /\ stored'.consent = stored.consent
      BY <2>1, <2>4, <2>8
    <3>3. HistoryShows' = HistoryShows /\ AssistShows' = AssistShows
      BY <3>2 DEF HistoryShows, AssistShows
    <3>4. /\ \/ LastIn(loop, HistorySaves, HistoryShows)
             \/ NoneIn(loop, HistorySaves) /\ shown.history = stored.history
          /\ \/ LastIn(loop, AssistSaves, AssistShows)
             \/ NoneIn(loop, AssistSaves) /\ shown.assist = stored.assist
                /\ shown.consent = stored.consent
      BY <1>0, <2>1, <2>2 DEF PageInv
    <3>5. \/ LastIn(loop', HistorySaves, HistoryShows)
          \/ NoneIn(loop', HistorySaves) /\ shown.history = stored.history
      BY <1>0, <2>3, <3>1, <3>4, PageSave DEF HistorySaves
    <3>6. \/ LastIn(loop', AssistSaves, AssistShows)
          \/ NoneIn(loop', AssistSaves) /\ shown.assist = stored.assist
             /\ shown.consent = stored.consent
      BY <1>0, <2>3, <3>1, <3>4, PageSave DEF AssistSaves
    <3> QED  BY <2>2, <3>2, <3>3, <3>5, <3>6 DEF PageInv
  <2> QED  BY <2>1, <2>6, <2>7, <2>8
<1>8. CASE RunClosure
  <2>1. /\ phase = "running" /\ loop # <<>> /\ Tail(loop) \in Seq(Closures)
        /\ UNCHANGED <<phase, stored, unreported>>
    BY <1>0, <1>8, ClosureRunning
  <2> SUFFICES ASSUME unreported = 0 PROVE PageInv'
    BY <2>1 DEF PageInv
  <2>2. HistoryShows' = HistoryShows /\ AssistShows' = AssistShows
    BY <2>1 DEF HistoryShows, AssistShows
  <2>3. loop' = Tail(loop) \/ \E t \in Trays : loop' = Append(Tail(loop), t)
    BY <1>0, <1>8, ClosureRunning, CompletionLoop
  <2>4. \A t \in Trays : t \in Closures /\ t \notin HistorySaves /\ t \notin AssistSaves
    BY Shapes DEF HistorySaves, AssistSaves, Closures
  <2>5. /\ NoneIn(Tail(loop), HistorySaves) => NoneIn(loop', HistorySaves)
        /\ LastIn(Tail(loop), HistorySaves, HistoryShows) => LastIn(loop', HistorySaves, HistoryShows)
        /\ NoneIn(Tail(loop), AssistSaves) => NoneIn(loop', AssistSaves)
        /\ LastIn(Tail(loop), AssistSaves, AssistShows) => LastIn(loop', AssistSaves, AssistShows)
    BY <2>1, <2>3, <2>4, QueueAppends
  <2> DEFINE c == Head(loop)
  <2>6. /\ NoneIn(loop, HistorySaves) => c \notin HistorySaves /\ NoneIn(Tail(loop), HistorySaves)
        /\ LastIn(loop, HistorySaves, HistoryShows) =>
              \/ LastIn(Tail(loop), HistorySaves, HistoryShows)
              \/ c \in HistoryShows /\ NoneIn(Tail(loop), HistorySaves)
        /\ NoneIn(loop, AssistSaves) => c \notin AssistSaves /\ NoneIn(Tail(loop), AssistSaves)
        /\ LastIn(loop, AssistSaves, AssistShows) =>
              \/ LastIn(Tail(loop), AssistSaves, AssistShows)
              \/ c \in AssistShows /\ NoneIn(Tail(loop), AssistSaves)
    BY <1>0, <2>1, QueueTakes
  <2>7. /\ c \in HistorySaves => shown'.history = c.committed.history
        /\ c \notin HistorySaves => shown'.history = shown.history
        /\ c \in AssistSaves =>
              shown'.assist = c.committed.assist /\ shown'.consent = c.committed.consent
        /\ c \notin AssistSaves =>
              shown'.assist = shown.assist /\ shown'.consent = shown.consent
    <3>1. CASE c \in Completions /\ CompletionRuns(c)
      <4>1. shown' = IF c.ok THEN Shows(c.item.change.field, c.committed) ELSE shown
        BY <3>1 DEF CompletionRuns
      <4>2. c.committed \in Preferences
        BY <3>1, CompletionParts
      <4> HIDE DEF c
      <4>3. /\ c \in HistorySaves <=> c.ok /\ c.item.change.field = "history"
            /\ c \in AssistSaves <=> c.ok /\ c.item.change.field \in {"assist", "consent"}
        BY <3>1 DEF HistorySaves, AssistSaves
      <4> QED  BY <1>0, <4>1, <4>2, <4>3, ShowsTypes
    <3>2. CASE ~(c \in Completions /\ CompletionRuns(c))
      BY <1>0, <1>8, <3>2, ClosureRunning, Shapes DEF HistorySaves, AssistSaves
    <3> QED  BY <3>1, <3>2
  <2>8. /\ c \in HistoryShows => c \in HistorySaves /\ c.committed.history = stored.history
        /\ c \in AssistShows => /\ c \in AssistSaves /\ c.committed.assist = stored.assist
                                /\ c.committed.consent = stored.consent
    BY DEF HistoryShows, AssistShows
  <2> HIDE DEF c
  <2>9. \/ LastIn(loop', HistorySaves, HistoryShows)
        \/ NoneIn(loop', HistorySaves) /\ shown'.history = stored.history
    BY <1>0, <2>1, <2>5, <2>6, <2>7, <2>8 DEF PageInv
  <2>10. \/ LastIn(loop', AssistSaves, AssistShows)
         \/ NoneIn(loop', AssistSaves) /\ shown'.assist = stored.assist
            /\ shown'.consent = stored.consent
    BY <1>0, <2>1, <2>5, <2>6, <2>7, <2>8 DEF PageInv
  <2> QED  BY <2>1, <2>2, <2>9, <2>10 DEF PageInv
<1>9. CASE Quit \/ Exit
  BY <1>9 DEF Quit, Exit, PageInv
<1>10. CASE Launch
  <2>1. shown' = stored /\ UNCHANGED <<stored, loop>> /\ loop = <<>>
    BY <1>0, <1>10 DEF Launch, PhaseInv
  <2>2. NoneIn(loop', HistorySaves) /\ NoneIn(loop', AssistSaves)
    BY <2>1, QueueEmpty
  <2> QED  BY <2>1, <2>2 DEF PageInv
<1>11. CASE UNCHANGED settingsVars
  BY <1>1, <1>11 DEF settingsVars
<1> QED
  BY <1>2, <1>3, <1>4, <1>5, <1>6, <1>7, <1>8, <1>9, <1>10, <1>11
     DEF SettingsNext, SuggestionsNext, WaitingChoice

-----------------------------------------------------------------------------
(* The shortcuts: a change of them goes from place to place, and no other  *)
(* step moves it.                                                          *)

LEMMA ShortcutsStay ==
    ASSUME ShortcutInv,
           UNCHANGED <<registered, changing>>, stored'.shortcuts = stored.shortcuts,
           Reported' => Reported, phase' = "running" => phase = "running",
           Working("shortcuts")' <=> Working("shortcuts"),
           Working("shortcuts") => settingsThread'.item = settingsThread.item,
           NoneIn(pending, ShortcutItems) => NoneIn(pending', ShortcutItems),
           ShortcutsQueued => OneIn(pending', ShortcutItems, LeadingItems),
           NoneIn(loop, ShortcutEnds) => NoneIn(loop', ShortcutEnds),
           ShortcutsEnding => OneIn(loop', ShortcutEnds, LeadingEnds)
    PROVE  ShortcutInv'
<1>1. LeadingItems \subseteq LeadingItems' /\ LeadingEnds \subseteq LeadingEnds'
  BY DEF LeadingItems, LeadingEnds, Leads
<1>2. CASE ShortcutsAtRest
  BY <1>2 DEF ShortcutInv, ShortcutsAtRest
<1>3. CASE ShortcutsQueued
  <2>1. OneIn(pending', ShortcutItems, LeadingItems')
    BY <1>1, <1>3, QueueWidens
  <2> QED  BY <1>3, <2>1 DEF ShortcutInv, ShortcutsQueued
<1>4. CASE ShortcutsSaving
  <2>1. Leads(settingsThread.item)'
    BY <1>4 DEF Leads, ShortcutsSaving
  <2> QED  BY <1>4, <2>1 DEF ShortcutInv, ShortcutsSaving
<1>5. CASE ShortcutsEnding
  <2>1. OneIn(loop', ShortcutEnds, LeadingEnds')
    BY <1>1, <1>5, QueueWidens
  <2> QED  BY <1>5, <2>1 DEF ShortcutInv, ShortcutsEnding
<1> QED  BY <1>2, <1>3, <1>4, <1>5 DEF ShortcutInv

(* A change of something else joins the queue.                             *)
LEMMA OtherQueued ==
    ASSUME TypesInv, NEW c \in Changes, c.field # "shortcuts", Queues(c, registered)
    PROVE  /\ NoneIn(pending, ShortcutItems) => NoneIn(pending', ShortcutItems)
           /\ ShortcutsQueued => OneIn(pending', ShortcutItems, LeadingItems)
<1> DEFINE i == [change |-> c, previous |-> registered]
<1>1. i \in Items /\ i \notin ShortcutItems
  BY DEF Items, ShortcutItems, TypesInv
<1>2. UNCHANGED pending \/ pending' = Append(pending, i)
  BY DEF Queues
<1> HIDE DEF i
<1>3. CASE UNCHANGED pending
  BY <1>3 DEF ShortcutsQueued
<1>4. CASE pending' = Append(pending, i)
  BY <1>1, <1>4, QueueAppends DEF ShortcutsQueued, TypesInv
<1> QED  BY <1>2, <1>3, <1>4

(* The change is saved, or its save fails.                                 *)
LEMMA ShortcutsSaved ==
    ASSUME PreferencesInv, ShortcutsSaving,
           NEW outcome \in {"saved", "failed", "unreported"}, SaveSettings(outcome)
    PROVE  ShortcutInv'
<1> USE DEF uiVars
<1> DEFINE item == settingsThread.item
<1>0. TypesInv /\ loop \in Seq(Closures) /\ unreported \in Nat /\ saveFaults \in Nat
  BY LocalSettingsAssumption DEF PreferencesInv, TypesInv
<1>1. /\ item.change.field = "shortcuts"
      /\ Reported => item.change.value = registered /\ item.previous = stored.shortcuts
      /\ NoneIn(pending, ShortcutItems) /\ NoneIn(loop, ShortcutEnds) /\ changing
  BY DEF ShortcutsSaving, Working, Leads
<1>2. /\ UNCHANGED <<phase, pending, registered, changing>>
      /\ settingsThread' = NoThread
  BY <1>0, SaveParts
<1>3. ~Working("shortcuts")'
  BY <1>2, Shapes DEF Working
<1>4. PICK c \in Completions :
         /\ c.item = item /\ c.ok = (outcome = "saved")
         /\ loop' = IF phase = "running" THEN Append(loop, c) ELSE loop
  BY <1>0, SaveParts
<1>5. /\ outcome = "saved" => UNCHANGED <<saveFaults, unreported>>
      /\ outcome # "saved" => saveFaults' = saveFaults + 1
      /\ outcome = "failed" => unreported' = unreported
      /\ outcome = "unreported" => unreported' = unreported + 1
  BY <1>0, SaveCounts
<1>6. /\ Reported' => Reported
      /\ Reported' => outcome # "unreported"
      /\ Reported' /\ phase # "running" => outcome = "saved"
  BY <1>0, <1>2, <1>5 DEF Reported
<1>7. /\ outcome = "failed" => stored'.shortcuts = stored.shortcuts
      /\ outcome = "saved" => stored'.shortcuts = item.change.value
  BY <1>1, SaveStores
<1> HIDE DEF item
<1>8. CASE phase = "running"
  <2>1. c \in ShortcutEnds
    BY <1>1, <1>4 DEF ShortcutEnds
  <2>2. Reported' => IF c.ok THEN registered' = stored'.shortcuts
                     ELSE c.item.previous = stored'.shortcuts
    BY <1>1, <1>2, <1>4, <1>6, <1>7
  <2>3. c \in LeadingEnds' /\ c \in Closures
    BY <2>1, <2>2 DEF LeadingEnds, Closures
  <2>4. OneIn(loop', ShortcutEnds, LeadingEnds')
    BY <1>0, <1>1, <1>4, <1>8, <2>3, QueueAppends
  <2> QED  BY <1>1, <1>2, <1>3, <2>4 DEF ShortcutInv, ShortcutsEnding
<1>9. CASE phase # "running"
  <2>1. Reported' => registered' = stored'.shortcuts
    BY <1>1, <1>2, <1>6, <1>7, <1>9
  <2> QED  BY <1>1, <1>2, <1>3, <1>4, <1>9, <2>1 DEF ShortcutInv, ShortcutsAtRest
<1> QED  BY <1>8, <1>9

(* The closure of a change of the shortcuts.                               *)
LEMMA ShortcutsEnd ==
    ASSUME PreferencesInv, RunClosure, NoneIn(pending, ShortcutItems), ~Working("shortcuts"),
           Head(loop) \in LeadingEnds, NoneIn(Tail(loop), ShortcutEnds)
    PROVE  ShortcutInv'
<1> DEFINE c == Head(loop)
<1>0. TypesInv
  BY DEF PreferencesInv
<1>1. /\ c \in Completions /\ c.item.change.field = "shortcuts"
      /\ Reported => IF c.ok THEN registered = stored.shortcuts
                     ELSE c.item.previous = stored.shortcuts
  BY DEF LeadingEnds, ShortcutEnds
<1>2. CompletionRuns(c) /\ UNCHANGED <<phase, stored, pending, settingsThread, unreported, saveFaults>>
  BY <1>0, <1>1, ClosureRunning, Shapes
<1>3. /\ changing' = FALSE /\ loop' = Tail(loop)
      /\ registered' = IF c.ok THEN registered ELSE c.item.previous
  <2>1. changing' = (changing /\ c.item.change.field # "shortcuts")
    BY <1>2 DEF CompletionRuns
  <2>2. changing' = FALSE
    BY <1>1, <2>1
  <2>3. registered' = IF c.item.change.field = "shortcuts" /\ ~c.ok
                      THEN c.item.previous ELSE registered
    BY <1>2 DEF CompletionRuns
  <2>4. loop' = Tail(loop)
    BY <1>1, <1>2 DEF CompletionRuns
  <2> QED  BY <1>1, <2>2, <2>3, <2>4
<1> HIDE DEF c
<1>4. Reported' <=> Reported
  BY <1>2 DEF Reported
<1>5. ~Working("shortcuts")'
  BY <1>2 DEF Working
<1> QED  BY <1>1, <1>2, <1>3, <1>4, <1>5 DEF ShortcutInv, ShortcutsAtRest

LEMMA ShortcutStep ==
    ASSUME PreferencesInv, [SettingsNext]_settingsVars
    PROVE  ShortcutInv'
<1> USE DEF uiVars, suggestionVars
<1>0. /\ TypesInv /\ PhaseInv /\ ShortcutInv /\ loop \in Seq(Closures)
      /\ pending \in Seq(Items) /\ unreported \in Nat /\ saveFaults \in Nat
      /\ registered \in Shortcuts
  BY LocalSettingsAssumption DEF PreferencesInv, TypesInv
<1>a. /\ ShortcutsQueued => OneIn(pending, ShortcutItems, LeadingItems)
      /\ ShortcutsEnding => OneIn(loop, ShortcutEnds, LeadingEnds)
  BY DEF ShortcutsQueued, ShortcutsEnding
<1>b. ASSUME UNCHANGED <<phase, stored, settingsThread, loop, registered, changing,
                         unreported, saveFaults>>,
             NEW c \in Changes, c.field # "shortcuts", Queues(c, registered)
      PROVE  ShortcutInv'
  <2>1. (Reported' <=> Reported) /\ (Working("shortcuts")' <=> Working("shortcuts"))
    BY <1>b DEF Reported, Working
  <2>2. /\ NoneIn(pending, ShortcutItems) => NoneIn(pending', ShortcutItems)
        /\ ShortcutsQueued => OneIn(pending', ShortcutItems, LeadingItems)
    BY <1>0, <1>b, OtherQueued
  <2> QED  BY <1>0, <1>a, <1>b, <2>1, <2>2, ShortcutsStay
<1>c. ASSUME UNCHANGED <<phase, stored, pending, settingsThread, registered, changing,
                         unreported, saveFaults>>,
             UNCHANGED loop \/ \E t \in Trays : loop' = Append(loop, t)
      PROVE  ShortcutInv'
  <2>1. (Reported' <=> Reported) /\ (Working("shortcuts")' <=> Working("shortcuts"))
    BY <1>c DEF Reported, Working
  <2>2. \A t \in Trays : t \in Closures /\ t \notin ShortcutEnds
    BY Shapes DEF ShortcutEnds, Closures
  <2>3. /\ NoneIn(loop, ShortcutEnds) => NoneIn(loop', ShortcutEnds)
        /\ ShortcutsEnding => OneIn(loop', ShortcutEnds, LeadingEnds)
    BY <1>0, <1>a, <1>c, <2>2, QueueAppends
  <2> QED  BY <1>0, <1>a, <1>c, <2>1, <2>3, ShortcutsStay
<1>1. CASE SuggestionsNext
  BY <1>1, SuggestionsHold
<1>2. CASE WaitingChoice
  <2>1. PICK c \in WaitingChanges : Queues(c, registered)
    BY <1>0, <1>2, WaitingQueues
  <2>2. c \in Changes /\ c.field # "shortcuts"
    BY DEF WaitingChanges
  <2> QED  BY <1>0, <1>2, <1>b, <2>1, <2>2, WaitingQueues
<1>3. CASE TogglePause
  <2>1. UNCHANGED <<phase, stored, settingsThread, registered, changing, unreported, saveFaults>>
    BY <1>0, <1>3, ToggleParts
  <2>2. \/ \E t \in Trays : loop' = Append(loop, t) /\ UNCHANGED pending
        \/ UNCHANGED loop /\ \E c \in Changes : c.field = "paused" /\ Queues(c, registered)
    BY <1>0, <1>3, ToggleParts
  <2> QED  BY <1>b, <1>c, <2>1, <2>2
<1>4. ASSUME NEW k \in Shortcuts, ReplaceShortcuts(k) PROVE ShortcutInv'
  <2>1. /\ UNCHANGED <<phase, stored, settingsThread, loop, unreported, saveFaults>>
        /\ phase = "running" /\ ~changing
    BY <1>0, <1>4, ReplaceParts
  <2>2. ShortcutsAtRest
    BY <1>0, <2>1 DEF ShortcutInv, ShortcutsQueued, ShortcutsSaving, ShortcutsEnding
  <2>3. CASE UNCHANGED <<pending, registered, changing>>
    BY <1>c, <2>1, <2>3
  <2>4. CASE ~UNCHANGED <<pending, registered, changing>>
    <3>1. \E c \in Changes :
             /\ c.field = "shortcuts" /\ c.value = k
             /\ pending' = Append(pending, [change |-> c, previous |-> registered])
             /\ registered' = k /\ changing' = TRUE
      BY <1>0, <1>4, <2>4, ReplaceParts
    <3>2. \A c \in Changes :
             LET i == [change |-> c, previous |-> registered]
             IN  i \in Items /\ i.change = c /\ i.previous = registered
      BY <1>0 DEF Items
    <3>3. PICK i \in Items :
             /\ i.change.field = "shortcuts" /\ i.change.value = k
             /\ i.previous = registered /\ pending' = Append(pending, i)
             /\ registered' = k /\ changing' = TRUE
      BY <3>1, <3>2
    <3>4. /\ Reported' <=> Reported
          /\ Reported => registered = stored.shortcuts
      BY <2>1, <2>2 DEF Reported, ShortcutsAtRest
    <3>5. i \in ShortcutItems
      BY <3>3 DEF ShortcutItems
    <3>6. Leads(i)'
      BY <2>1, <3>3, <3>4 DEF Leads
    <3>7. i \in LeadingItems'
      BY <3>5, <3>6 DEF LeadingItems
    <3>8. OneIn(pending', ShortcutItems, LeadingItems')
      BY <1>0, <2>2, <3>3, <3>7, QueueAppends DEF ShortcutsAtRest
    <3>9. ~Working("shortcuts")' /\ NoneIn(loop', ShortcutEnds)
      BY <2>1, <2>2 DEF ShortcutsAtRest, Working
    <3> QED  BY <3>3, <3>8, <3>9 DEF ShortcutInv, ShortcutsQueued
  <2> QED  BY <2>3, <2>4
<1>5. CASE LoadSettings
  <2>1. /\ settingsThread = NoThread /\ pending # <<>> /\ pending' = Tail(pending)
        /\ settingsThread' \in Loaded /\ settingsThread'.item = Head(pending)
        /\ UNCHANGED <<phase, stored, loop, registered, changing, unreported, saveFaults>>
        /\ Head(pending) \in Items
    BY <1>0, <1>5, LoadParts
  <2>2. ~Working("shortcuts") /\ (Reported' <=> Reported)
    BY <2>1, Shapes DEF Working, Reported
  <2>3. /\ NoneIn(pending, ShortcutItems) =>
              Head(pending) \notin ShortcutItems /\ NoneIn(pending', ShortcutItems)
        /\ OneIn(pending, ShortcutItems, LeadingItems) =>
              \/ Head(pending) \notin ShortcutItems /\ OneIn(pending', ShortcutItems, LeadingItems)
              \/ Head(pending) \in LeadingItems /\ NoneIn(pending', ShortcutItems)
    BY <1>0, <2>1, QueueTakes
  <2>4. CASE Head(pending) \notin ShortcutItems
    <3>1. ~Working("shortcuts")'
      BY <2>1, <2>4 DEF Working, ShortcutItems
    <3>2. Head(pending) \notin LeadingItems
      BY <2>4 DEF LeadingItems
    <3> QED  BY <1>0, <1>a, <2>1, <2>2, <2>3, <3>1, <3>2, ShortcutsStay
  <2>5. CASE Head(pending) \in ShortcutItems
    <3>1. ~NoneIn(pending, ShortcutItems)
      BY <2>3, <2>5
    <3>2. ShortcutsQueued
      BY <1>0, <3>1 DEF ShortcutInv, ShortcutsAtRest, ShortcutsSaving, ShortcutsEnding
    <3>3. /\ Head(pending) \in LeadingItems /\ NoneIn(pending', ShortcutItems)
          /\ NoneIn(loop', ShortcutEnds) /\ changing'
      BY <1>a, <2>1, <2>3, <2>5, <3>2 DEF ShortcutsQueued
    <3>4. Working("shortcuts")'
      BY <2>1, <2>5 DEF Working, ShortcutItems
    <3>5. Leads(settingsThread.item)'
      BY <2>1, <2>2, <3>3 DEF LeadingItems, Leads
    <3> QED  BY <3>3, <3>4, <3>5 DEF ShortcutInv, ShortcutsSaving
  <2> QED  BY <2>4, <2>5
<1>6. ASSUME NEW outcome \in {"saved", "failed", "unreported"}, SaveSettings(outcome)
      PROVE  ShortcutInv'
  <2>1. CASE ShortcutsSaving
    BY <1>6, <2>1, ShortcutsSaved
  <2>2. CASE ~ShortcutsSaving
    <3>1. ~Working("shortcuts")
      BY <1>0, <2>2 DEF ShortcutInv, ShortcutsAtRest, ShortcutsQueued, ShortcutsEnding
    <3>2. /\ settingsThread \in Loaded /\ settingsThread' = NoThread
          /\ UNCHANGED <<phase, pending, registered, changing>>
      BY <1>0, <1>6, SaveParts
    <3>3. settingsThread.item.change.field # "shortcuts" /\ ~Working("shortcuts")'
      BY <3>1, <3>2, Shapes DEF Working
    <3>4. stored'.shortcuts = stored.shortcuts
      BY <1>6, <3>3, SaveStores
    <3>5. PICK c \in Completions :
             /\ c.item = settingsThread.item
             /\ loop' = IF phase = "running" THEN Append(loop, c) ELSE loop
      BY <1>0, <1>6, SaveParts
    <3>6. c \in Closures /\ c \notin ShortcutEnds
      BY <3>3, <3>5 DEF ShortcutEnds, Closures
    <3>7. /\ NoneIn(loop, ShortcutEnds) => NoneIn(loop', ShortcutEnds)
          /\ ShortcutsEnding => OneIn(loop', ShortcutEnds, LeadingEnds)
      BY <1>0, <1>a, <3>5, <3>6, QueueAppends
    <3>8. Reported' => Reported
      BY <1>0, <1>6, <3>2, SaveCounts DEF Reported
    <3> QED  BY <1>0, <1>a, <3>1, <3>2, <3>3, <3>4, <3>7, <3>8, ShortcutsStay
  <2> QED  BY <2>1, <2>2
<1>7. CASE RunClosure
  <2>1. /\ loop # <<>> /\ Tail(loop) \in Seq(Closures) /\ Head(loop) \in Closures
        /\ UNCHANGED <<phase, stored, pending, settingsThread, unreported, saveFaults>>
    BY <1>0, <1>7, ClosureRunning, QueueTakes
  <2>2. /\ NoneIn(loop, ShortcutEnds) =>
              Head(loop) \notin ShortcutEnds /\ NoneIn(Tail(loop), ShortcutEnds)
        /\ OneIn(loop, ShortcutEnds, LeadingEnds) =>
              \/ Head(loop) \notin ShortcutEnds /\ OneIn(Tail(loop), ShortcutEnds, LeadingEnds)
              \/ Head(loop) \in LeadingEnds /\ NoneIn(Tail(loop), ShortcutEnds)
    BY <1>0, <2>1, QueueTakes
  <2>3. CASE Head(loop) \in ShortcutEnds
    <3>1. ShortcutsEnding
      BY <1>0, <2>2, <2>3 DEF ShortcutInv, ShortcutsAtRest, ShortcutsQueued, ShortcutsSaving
    <3> QED  BY <1>7, <1>a, <2>2, <2>3, <3>1, ShortcutsEnd DEF ShortcutsEnding
  <2>4. CASE Head(loop) \notin ShortcutEnds
    <3>1. loop' = Tail(loop) \/ \E t \in Trays : loop' = Append(Tail(loop), t)
      BY <1>0, <1>7, ClosureRunning, CompletionLoop
    <3>2. \A t \in Trays : t \in Closures /\ t \notin ShortcutEnds
      BY Shapes DEF ShortcutEnds, Closures
    <3>3. /\ NoneIn(Tail(loop), ShortcutEnds) => NoneIn(loop', ShortcutEnds)
          /\ OneIn(Tail(loop), ShortcutEnds, LeadingEnds) => OneIn(loop', ShortcutEnds, LeadingEnds)
      BY <2>1, <3>1, <3>2, QueueAppends
    <3>4. Head(loop) \notin LeadingEnds
      BY <2>4 DEF LeadingEnds
    <3>5. registered' = registered /\ changing' = changing
      <4>1. CASE Head(loop) \in Completions /\ CompletionRuns(Head(loop))
        <5>1. Head(loop).item.change.field # "shortcuts"
          BY <2>4, <4>1 DEF ShortcutEnds
        <5>2. changing \in BOOLEAN
          BY <1>0 DEF TypesInv
        <5>3. changing' = (changing /\ Head(loop).item.change.field # "shortcuts")
          BY <4>1 DEF CompletionRuns
        <5>4. changing' = changing
          BY <5>1, <5>2, <5>3
        <5> QED  BY <4>1, <5>1, <5>4 DEF CompletionRuns
      <4>2. CASE ~(Head(loop) \in Completions /\ CompletionRuns(Head(loop)))
        BY <1>0, <1>7, <4>2, ClosureRunning
      <4> QED  BY <4>1, <4>2
    <3>6. (Reported' <=> Reported) /\ (Working("shortcuts")' <=> Working("shortcuts"))
      BY <2>1 DEF Reported, Working
    <3> QED  BY <1>0, <1>a, <2>1, <2>2, <3>3, <3>4, <3>5, <3>6, ShortcutsStay
  <2> QED  BY <2>3, <2>4
<1>8. CASE Quit
  <2>1. /\ UNCHANGED <<stored, pending, settingsThread, registered, changing, unreported,
                       saveFaults>>
        /\ phase = "running" /\ phase' = "draining" /\ loop' = <<>>
    BY <1>8 DEF Quit
  <2>2. /\ Reported' => Reported /\ saveFaults = 0
        /\ Working("shortcuts")' <=> Working("shortcuts")
        /\ NoneIn(loop', ShortcutEnds)
    BY <2>1, QueueEmpty DEF Reported, Working
  <2>3. CASE ~ShortcutsEnding
    BY <1>0, <1>a, <2>1, <2>2, <2>3, ShortcutsStay
  <2>4. CASE ShortcutsEnding
    <3>1. PICK i \in 1..Len(loop) : loop[i] \in LeadingEnds
      BY <1>a, <2>4 DEF OneIn
    <3>2. saveFaults = 0 => loop[i] \notin FailureCount
      BY <1>0, <3>1 DEF PhaseInv, NoneIn
    <3>3. Reported' => registered = stored.shortcuts
      BY <2>2, <3>1, <3>2 DEF LeadingEnds, ShortcutEnds, FailureCount
    <3> QED  BY <2>1, <2>2, <2>4, <3>3 DEF ShortcutInv, ShortcutsAtRest, ShortcutsEnding
  <2> QED  BY <2>3, <2>4
<1>9. CASE Exit
  <2>1. /\ UNCHANGED <<stored, pending, settingsThread, loop, registered, changing,
                       unreported, saveFaults>>
        /\ phase' = "closed"
    BY <1>9 DEF Exit
  <2>2. (Reported' => Reported) /\ (Working("shortcuts")' <=> Working("shortcuts"))
    BY <2>1 DEF Reported, Working
  <2> QED  BY <1>0, <1>a, <2>1, <2>2, ShortcutsStay
<1>10. CASE Launch
  <2>1. /\ registered' = stored.shortcuts /\ changing' = FALSE
        /\ UNCHANGED <<stored, pending, settingsThread, loop>> /\ phase = "closed"
    BY <1>10 DEF Launch
  <2>2. pending = <<>> /\ settingsThread = NoThread /\ loop = <<>>
    BY <1>0, <2>1 DEF PhaseInv
  <2>3. NoneIn(loop', ShortcutEnds) /\ NoneIn(pending', ShortcutItems) /\ ~Working("shortcuts")'
    BY <2>1, <2>2, QueueEmpty, Shapes DEF Working
  <2> QED  BY <2>1, <2>3 DEF ShortcutInv, ShortcutsAtRest
<1>11. CASE UNCHANGED settingsVars
  BY <1>11, <1>c DEF settingsVars
<1> QED
  BY <1>1, <1>2, <1>3, <1>4, <1>5, <1>6, <1>7, <1>8, <1>9, <1>10, <1>11
     DEF SettingsNext, SuggestionsNext, WaitingChoice

-----------------------------------------------------------------------------
(* Consent.                                                                *)

(* A step that starts no run but one that changes nobody's consent.        *)
LEMMA ConsentStays ==
    ASSUME TypesInv, AnalysedInv, ConsentInv, SamePreferences(stored', stored),
           UNCHANGED suggestionVars \/ StartRun
    PROVE  ConsentInv'
<1>1. \A k : Consents(stored', k) <=> Consents(stored, k)
  BY DEF Consents, SamePreferences
<1>2. CASE UNCHANGED suggestionVars
  <2>1. UNCHANGED <<suggesting, late>>
    BY <1>2 DEF suggestionVars
  <2>2. Consents(stored, suggesting.consent)' <=> Consents(stored, suggesting.consent)
    BY <1>1, <2>1 DEF Consents
  <2> QED  BY <2>1, <2>2 DEF ConsentInv
<1>3. CASE StartRun
  BY <1>3, StartRunTypes DEF ConsentInv
<1> QED  BY <1>2, <1>3

LEMMA ConsentStep ==
    ASSUME PreferencesInv, [SettingsNext]_settingsVars
    PROVE  ConsentInv'
<1> USE DEF uiVars
<1>0. TypesInv /\ AnalysedInv /\ ConsentInv /\ suggesting \in Run \cup {NoRun}
      /\ SamePreferences(stored, stored)
  BY DEF PreferencesInv, TypesInv, SamePreferences
<1>1. CASE UNCHANGED <<stored, suggestionVars>>
  BY <1>0, <1>1, ConsentStays
<1>2. CASE CheckTimer
  BY <1>0, <1>2, ConsentStays DEF CheckTimer
<1>3. CASE CheckDue \/ SendBatch \/ ReceiveAnswer \/ CheckObservation \/ RecordObservation
  <2>1. suggesting \in Run /\ stored' = stored
    BY <1>0, <1>3, Shapes DEF CheckDue, SendBatch, ReceiveAnswer, CheckObservation,
       RecordObservation, NoRun
  <2>2. \A q : GoesOn(suggesting, q) => q \in Run
    BY DEF GoesOn
  <2>3. ASSUME suggesting' = NoRun, late' = late PROVE ConsentInv'
    BY <1>0, <2>3 DEF ConsentInv, NoRun
  <2>4. ASSUME suggesting'.consent = suggesting.consent, late' = 0 PROVE ConsentInv'
    BY <2>4 DEF ConsentInv
  <2>5. ASSUME suggesting'.consent = suggesting.consent, late' = late,
               suggesting.at \in {"batch", "asked", "found"},
               suggesting'.at \in {"batch", "asked", "found"}
        PROVE  ConsentInv'
    <3>1. Consents(stored, suggesting.consent)' <=> Consents(stored, suggesting.consent)
      BY <2>1, <2>5 DEF Consents
    <3> QED  BY <1>0, <2>5, <3>1 DEF ConsentInv
  <2>6. CASE CheckDue
    <3>1. PICK n \in 0..MaxBatches :
             suggesting' = IF Due(suggesting)
                           THEN [suggesting EXCEPT !.at = "batch", !.batches = n]
                           ELSE NoRun
      BY <2>6 DEF CheckDue, SuggestionStep
    <3>2. late' = IF Due(suggesting) THEN 0 ELSE late
      BY <2>6 DEF CheckDue
    <3>3. [suggesting EXCEPT !.at = "batch", !.batches = n].consent = suggesting.consent
      BY <2>1 DEF Run
    <3> QED  BY <2>3, <2>4, <3>1, <3>2, <3>3
  <2>7. CASE SendBatch
    <3>1. /\ suggesting' = NoRun \/ suggesting' = [suggesting EXCEPT !.at = "asked"]
          /\ late' = late /\ suggesting.at = "batch"
      BY <2>7 DEF SendBatch, SuggestionStep
    <3>2. /\ [suggesting EXCEPT !.at = "asked"].consent = suggesting.consent
          /\ [suggesting EXCEPT !.at = "asked"].at = "asked"
      BY <2>1 DEF Run
    <3> QED  BY <2>3, <2>5, <3>1, <3>2
  <2>8. CASE ReceiveAnswer
    <3>1. suggesting.at = "asked" /\ late' = late
      BY <2>8 DEF ReceiveAnswer
    <3>2. \/ suggesting' = NoRun
          \/ \E n \in 0..MaxFound :
                suggesting' = [suggesting EXCEPT !.at = "found", !.found = n, !.batches = @ - 1]
      BY <2>8 DEF ReceiveAnswer, SuggestionStep
    <3>3. \A n \in 0..MaxFound :
             LET q == [suggesting EXCEPT !.at = "found", !.found = n, !.batches = @ - 1]
             IN  q.consent = suggesting.consent /\ q.at = "found"
      BY <2>1 DEF Run
    <3> QED  BY <2>3, <2>5, <3>1, <3>2, <3>3
  <2>9. CASE CheckObservation
    <3>1. suggesting.at = "found" /\ late' = late
      BY <2>9 DEF CheckObservation
    <3>2. \/ suggesting' = NoRun \/ suggesting' = [suggesting EXCEPT !.at = "batch"]
          \/ /\ suggesting' = [suggesting EXCEPT !.at = "recording"]
             /\ Consents(stored, suggesting.consent)
      BY <2>9 DEF CheckObservation, SuggestionStep
    <3>3. /\ [suggesting EXCEPT !.at = "batch"].consent = suggesting.consent
          /\ [suggesting EXCEPT !.at = "batch"].at = "batch"
          /\ [suggesting EXCEPT !.at = "recording"].consent = suggesting.consent
      BY <2>1 DEF Run
    <3>4. CASE suggesting' = [suggesting EXCEPT !.at = "recording"]
               /\ Consents(stored, suggesting.consent)
      <4>1. late' = 0
        BY <1>0, <3>1, <3>4 DEF ConsentInv
      <4> QED  BY <2>4, <3>3, <3>4, <4>1
    <3> QED  BY <2>3, <2>5, <3>1, <3>2, <3>3, <3>4
  <2>10. CASE RecordObservation
    <3>1. /\ suggesting.at = "recording"
          /\ suggesting' = [suggesting EXCEPT !.at = "found", !.found = @ - 1]
          /\ late' = IF Consents(stored, suggesting.consent) THEN 0 ELSE late + 1
      BY <2>10 DEF RecordObservation, SuggestionStep
    <3>2. late = 0
      BY <1>0, <3>1 DEF ConsentInv
    <3>3. suggesting'.consent = suggesting.consent /\ suggesting'.at = "found"
      BY <2>1, <3>1 DEF Run
    <3>4. Consents(stored, suggesting.consent)' <=> Consents(stored, suggesting.consent)
      BY <2>1, <3>3 DEF Consents
    <3> QED  BY <3>1, <3>2, <3>3, <3>4 DEF ConsentInv
  <2> QED  BY <1>3, <2>6, <2>7, <2>8, <2>9, <2>10
<1>4. CASE RecordSuccess
  BY <1>0, <1>4 DEF RecordSuccess, SuggestionStep, ConsentInv, NoRun
<1>5. CASE WaitingChoice
  BY <1>0, <1>1, <1>5, WaitingQueues
<1>6. CASE TogglePause
  BY <1>0, <1>1, <1>6, ToggleParts
<1>7. ASSUME NEW k \in Shortcuts, ReplaceShortcuts(k) PROVE ConsentInv'
  BY <1>0, <1>1, <1>7, ReplaceParts
<1>8. CASE LoadSettings
  BY <1>0, <1>1, <1>8, LoadParts
<1>9. ASSUME NEW outcome \in {"saved", "failed", "unreported"}, SaveSettings(outcome)
      PROVE  ConsentInv'
  <2>1. suggesting' = suggesting
    BY <1>0, <1>9, SaveParts
  <2>2. late' = IF suggesting # NoRun /\ Consents(stored', suggesting.consent)
                THEN 0 ELSE late
    BY <1>9 DEF SaveSettings
  <2>3. Consents(stored, suggesting.consent)' <=> Consents(stored', suggesting.consent)
    BY <2>1 DEF Consents
  <2>4. suggesting.at \in {"batch", "asked", "found"} => suggesting # NoRun
    BY DEF NoRun
  <2> QED  BY <1>0, <2>1, <2>2, <2>3, <2>4 DEF ConsentInv
<1>10. CASE RunClosure
  <2>1. stored' = stored
    BY <1>0, <1>10, ClosureRunning
  <2>2. StartRun \/ UNCHANGED suggestionVars
    BY <1>0, <1>10, ClosureRunning DEF CompletionRuns
  <2> QED  BY <1>0, <2>1, <2>2, ConsentStays
<1>11. CASE Exit
  BY <1>0, <1>11 DEF Exit, ConsentInv, NoRun
<1>12. CASE Quit \/ Launch \/ UNCHANGED settingsVars
  BY <1>1, <1>12 DEF Quit, Launch, settingsVars, suggestionVars
<1> QED
  BY <1>2, <1>3, <1>4, <1>5, <1>6, <1>7, <1>8, <1>9, <1>10, <1>11, <1>12
     DEF SettingsNext, SuggestionsNext, WaitingChoice

-----------------------------------------------------------------------------
(* The invariant, and what follows from it.                                *)

LEMMA PreferencesInvInit == SettingsInit => PreferencesInv
<1> SUFFICES ASSUME SettingsInit PROVE PreferencesInv
  OBVIOUS
<1>1. /\ phase = "running" /\ pending = <<>> /\ loop = <<>>
      /\ settingsThread = NoThread /\ suggesting = NoRun /\ shown = stored
      /\ paused = stored.paused /\ trayPaused = stored.paused
      /\ registered = stored.shortcuts /\ changing = FALSE
      /\ unreported = 0 /\ late = 0 /\ saveFaults = 0 /\ runs = 0
      /\ stored.analysed = 0
  BY DEF SettingsInit
<1>2. TypesInv
  BY InitTypesInv
<1>3. AnalysedInv /\ ThreadInv
  BY <1>1, Shapes DEF AnalysedInv, ThreadInv
<1>4. \A kind : NoneIn(pending, kind) /\ NoneIn(loop, kind)
  BY <1>1, QueueEmpty
<1>5. \A field : ~Working(field)
  BY <1>1, Shapes DEF Working
<1>6. PhaseInv
  BY <1>1, <1>4 DEF PhaseInv
<1>7. PauseInv
  BY <1>1, <1>4, <1>5 DEF PauseInv
<1>8. PageInv
  BY <1>1, <1>4 DEF PageInv
<1>9. ShortcutInv
  BY <1>1, <1>4, <1>5 DEF ShortcutInv, ShortcutsAtRest
<1>10. ConsentInv
  BY <1>1 DEF ConsentInv, NoRun
<1> QED  BY <1>2, <1>3, <1>6, <1>7, <1>8, <1>9, <1>10 DEF PreferencesInv

LEMMA StepIInv == PreferencesInv /\ [SettingsNext]_settingsVars => PreferencesInv'
<1> SUFFICES ASSUME PreferencesInv, [SettingsNext]_settingsVars PROVE PreferencesInv'
  OBVIOUS
<1>1. TypesInv' /\ AnalysedInv'
  BY TypesStep, AnalysedStep DEF PreferencesInv
<1> QED
  BY <1>1, ThreadStep, PhaseStep, PauseStep, PageStep, ShortcutStep, ConsentStep DEF PreferencesInv

(* The inductive invariant: types, what the settings thread will write,    *)
(* where a change of the pause, of the page and of the shortcuts is, and   *)
(* what the suggestion thread may still record.                            *)
THEOREM SettingsAlways == SettingsSpec => []PreferencesInv
BY PreferencesInvInit, StepIInv, PTL DEF SettingsSpec

(* Every variable keeps its type, and the queue its capacity.              *)
THEOREM SettingsTypeCorrect == SettingsSpec => []SettingsTypeOK
<1>1. PreferencesInv => SettingsTypeOK
  <2> SUFFICES ASSUME PreferencesInv PROVE SettingsTypeOK
    OBVIOUS
  <2>1. TypesInv
    BY DEF PreferencesInv
  <2>2. \A i \in DOMAIN pending : pending[i] \in Items
    BY <2>1 DEF TypesInv
  <2>3. settingsThread = NoThread
          \/ (settingsThread.item \in Items /\ settingsThread.settings \in Preferences)
    BY <2>1 DEF TypesInv, Loaded
  <2>4. suggesting.at \in {"idle", "started", "batch", "asked", "found", "recording"}
    BY <2>1 DEF TypesInv, Run, NoRun
  <2> QED  BY <2>1, <2>2, <2>3, <2>4 DEF TypesInv, SettingsTypeOK
<1> QED  BY <1>1, SettingsAlways, PTL

(* Once nothing is under way the page, the monitor, the flag and the menu  *)
(* bar agree with the row, and what took effect at once is what the next   *)
(* start reads (SettledShowsStored): whatever the capacity of the queue,   *)
(* however many changes are under way, and whatever other threads do       *)
(* between the load and the save of one.                                   *)
THEOREM SettledShowsStoredCorrect == SettingsSpec => []SettledShowsStored
<1>1. PreferencesInv => SettledShowsStored
  <2> SUFFICES ASSUME PreferencesInv PROVE SettledShowsStored
    OBVIOUS
  <2>0. TypesInv /\ PhaseInv /\ PauseInv /\ PageInv /\ ShortcutInv
    BY DEF PreferencesInv
  <2>1. ASSUME pending = <<>>, settingsThread = NoThread, loop = <<>>
        PROVE  /\ failedPauses = 0 => paused = stored.paused /\ trayPaused = paused
               /\ ShortcutsAtRest
    <3>1. \A field : ~Working(field)
      BY <2>1, Shapes DEF Working
    <3>2. \A kind, good : /\ ~LastIn(pending, kind, good) /\ ~OneIn(pending, kind, good)
                          /\ ~OneIn(loop, kind, good)
      BY <2>1, QueueEmpty
    <3>3. failedPauses = 0 => paused = stored.paused /\ trayPaused = paused
      BY <2>0, <3>1, <3>2 DEF PauseInv
    <3>4. ShortcutsAtRest
      BY <2>0, <3>1, <3>2 DEF ShortcutInv, ShortcutsQueued, ShortcutsSaving, ShortcutsEnding
    <3> QED  BY <3>3, <3>4
  <2>2. ASSUME SettingsSettled, unreported = 0
        PROVE  /\ shown.history = stored.history
               /\ shown.assist = stored.assist /\ shown.consent = stored.consent
               /\ registered = stored.shortcuts /\ ~changing
               /\ failedPauses = 0 => paused = stored.paused /\ trayPaused = paused
    <3>1. /\ pending = <<>> /\ settingsThread = NoThread /\ loop = <<>>
          /\ phase = "running"
      BY <2>2 DEF SettingsSettled
    <3>2. \A kind, good : ~LastIn(loop, kind, good)
      BY <3>1, QueueEmpty
    <3>3. /\ shown.history = stored.history
          /\ shown.assist = stored.assist /\ shown.consent = stored.consent
      BY <2>0, <2>2, <3>1, <3>2 DEF PageInv
    <3>4. registered = stored.shortcuts /\ ~changing
      BY <2>1, <2>2, <3>1 DEF ShortcutsAtRest, Reported
    <3> QED  BY <2>1, <3>1, <3>3, <3>4
  <2>3. ASSUME phase = "closed", saveFaults = 0, failedPauses = 0
        PROVE  paused = stored.paused /\ registered = stored.shortcuts
    <3>1. pending = <<>> /\ settingsThread = NoThread /\ loop = <<>>
      BY <2>0, <2>3 DEF PhaseInv
    <3> QED  BY <2>1, <2>3, <3>1 DEF ShortcutsAtRest, Reported
  <2> QED  BY <2>2, <2>3 DEF SettledShowsStored
<1> QED  BY <1>1, SettingsAlways, PTL

(* After consent was withdrawn the suggestion thread records one           *)
(* observation at most (ConsentBinds): however many it was sent, and       *)
(* whichever change withdrew it.                                           *)
THEOREM ConsentBindsCorrect == SettingsSpec => []ConsentBinds
<1>1. PreferencesInv => ConsentBinds
  BY DEF PreferencesInv, ConsentInv, ConsentBinds
<1> QED  BY <1>1, SettingsAlways, PTL

-----------------------------------------------------------------------------
(* The inductive invariant.                                                *)

(* A closure on the event loop is of a thread that ended and whose card is *)
(* still pending: a model has one closure at most, and none while its next *)
(* thread is at work.                                                      *)
QueueInv ==
    /\ \A i \in DOMAIN finished :
          /\ activation[finished[i].model] = NotRunning
          /\ activating[finished[i].model]
    /\ \A i, j \in DOMAIN finished : finished[i].model = finished[j].model => i = j

(* What a thread is at work for cannot be deleted under it.                *)
DiskInv ==
    /\ \A m \in Models : activation[m] # NotRunning => m \in onDisk
    /\ punctuation.at \in {"activating", "preparing", "prepared", "saving"} =>
          "punctuation" \in onDisk
    /\ choosing.at = "removed" => punctuation = NotRunning

(* What an activation loaded is selected, or somebody will clear it: its    *)
(* own thread, or the closure that reloads the page after another one.     *)
HeldInv ==
    ~lost => \A m \in Models : memory[m] = "activation" =>
        \/ m = catalog.asr
        \/ activation[m].at \in {"prepared", "saving"}
        \/ \E n \in Models : activation[n].at = "saved"
        \/ \E i \in DOMAIN finished : finished[i].reload

Closure == [model : Models, reload : BOOLEAN]

ModelTypesInv ==
    /\ catalog \in ProviderFiles /\ selected \in Recognisers
    /\ choosing \in {NotRunning} \cup [at : {"cloud", "llm", "removed"}, read : ProviderFiles]
    /\ activation \in [Models -> ActivationStates]
    /\ activating \in [Models -> BOOLEAN]
    /\ finished \in Seq(Closure)
    /\ using \subseteq Models
    /\ punctuation \in
         [at : {"idle", "downloading", "activating", "preparing", "prepared"}]
         \cup [at : {"saving"}, read : ProviderFiles]
    /\ memory \in [Models -> Loaders] /\ punctuates \in BOOLEAN
    /\ onDisk \subseteq Models \cup {"punctuation"}
    /\ lost \in BOOLEAN /\ unsaved \in BOOLEAN

PendingInv == \A m \in Models : activation[m] # NotRunning => activating[m]

ModelsInv == ModelTypesInv /\ PendingInv /\ QueueInv /\ DiskInv /\ SelectedIsInstalled /\ HeldInv

-----------------------------------------------------------------------------
USE LifecycleAssumption

LEMMA ModelsInvInit == LifecycleInit => ModelsInv
<1> SUFFICES ASSUME LifecycleInit PROVE ModelsInv
  OBVIOUS
<1> USE DEF NotRunning
<1>1. PICK asr \in Models \cup {"cloud"}, mode \in Modes :
         catalog = Reconciled([asr |-> asr, mode |-> mode], onDisk)
  BY DEF LifecycleInit
<1>2. /\ catalog \in ProviderFiles
      /\ catalog.asr \in Models => catalog.asr \in onDisk
      /\ catalog.mode = "local" => "punctuation" \in onDisk
  BY <1>1 DEF Reconciled, ProviderFiles, Recognisers, Modes
<1>3. /\ onDisk \subseteq Models \cup {"punctuation"} /\ selected = catalog.asr
      /\ activating = PreloadPending(catalog) /\ activation = PreloadThreads(catalog)
      /\ punctuation = PunctuationThread(catalog)
      /\ choosing = NotRunning /\ finished = <<>> /\ using = {}
      /\ memory = NothingLoaded /\ punctuates = FALSE /\ lost = FALSE /\ unsaved = FALSE
  BY DEF LifecycleInit
<1>4. ModelTypesInv /\ PendingInv
  <2>1. /\ finished \in Seq(Closure)
        /\ choosing \in {NotRunning} /\ using \subseteq Models
    BY <1>3
  <2>2. /\ activation \in [Models -> ActivationStates] /\ activating \in [Models -> BOOLEAN]
        /\ PendingInv
    BY <1>3 DEF ActivationStates, PreloadThreads, PreloadPending, PendingInv
  <2>3. /\ selected \in Recognisers /\ memory \in [Models -> Loaders]
        /\ punctuation \in [at : {"idle", "downloading", "activating", "preparing", "prepared"}]
    BY <1>2, <1>3 DEF ProviderFiles, PunctuationThread, NothingLoaded, Loaders
  <2> QED  BY <1>2, <1>3, <2>1, <2>2, <2>3 DEF ModelTypesInv
<1>5. QueueInv /\ HeldInv
  BY <1>3 DEF QueueInv, HeldInv, NothingLoaded
<1>6. DiskInv /\ SelectedIsInstalled
  BY <1>2, <1>3 DEF DiskInv, SelectedIsInstalled, PreloadThreads, PunctuationThread
<1> QED  BY <1>4, <1>5, <1>6 DEF ModelsInv

-----------------------------------------------------------------------------
(* The end of a thread, and the closure that follows it.                   *)

Reloads == \E i \in DOMAIN finished : finished[i].reload

LEMMA ClosureTypes ==
    ASSUME ModelTypesInv, NEW i \in 1..Len(finished)
    PROVE  /\ i \in DOMAIN finished /\ finished[i] \in Closure
           /\ finished[i].model \in Models
<1>1. finished[i] \in Closure /\ i \in DOMAIN finished
  BY DEF ModelTypesInv
<1> QED  BY <1>1 DEF Closure

LEMMA EndsEffect ==
    ASSUME ModelTypesInv, PendingInv, QueueInv, NEW m \in Models, NEW reload \in BOOLEAN,
           activation[m] # NotRunning, Ends(m, reload), UNCHANGED activating
    PROVE  /\ finished' \in Seq(Closure)
           /\ activation' \in [Models -> ActivationStates]
           /\ PendingInv' /\ QueueInv'
           /\ Reloads \/ reload => Reloads'
<1> DEFINE closure == [model |-> m, reload |-> reload]
<1>1. /\ finished \in Seq(Closure)
      /\ finished' = Append(finished, closure)
      /\ closure \in Closure
  BY DEF ModelTypesInv, Ends, Closure
<1>2. /\ finished' \in Seq(Closure)
      /\ Len(finished') = Len(finished) + 1 /\ Len(finished) \in Nat
      /\ \A i \in 1..Len(finished) : finished'[i] = finished[i]
      /\ finished'[Len(finished) + 1] = closure
  BY <1>1
<1>3. /\ activation' = [activation EXCEPT ![m] = NotRunning] /\ activating' = activating
      /\ activation \in [Models -> ActivationStates]
  BY DEF ModelTypesInv, Ends
<1>4. activation' \in [Models -> ActivationStates] /\ PendingInv'
  BY <1>3 DEF ActivationStates, NotRunning, PendingInv
<1>5. ASSUME NEW i \in 1..Len(finished)
      PROVE  finished[i].model \in Models \ {m}
  <2>1. finished[i] \in Closure /\ i \in DOMAIN finished
    BY <1>1, <1>5, ClosureTypes
  <2>2. activation[finished[i].model] = NotRunning
    BY <2>1 DEF QueueInv
  <2>3. finished[i].model \in Models
    BY <1>5, ClosureTypes
  <2> QED  BY <2>2, <2>3
<1>6. ASSUME NEW i \in DOMAIN finished'
      PROVE  i \in 1..Len(finished) \/ i = Len(finished) + 1
  BY <1>2, <1>6
<1>7. \A i \in DOMAIN finished' :
         activation'[finished'[i].model] = NotRunning /\ activating'[finished'[i].model]
  <2>1. ASSUME NEW i \in 1..Len(finished)
        PROVE  /\ activation'[finished'[i].model] = NotRunning
               /\ activating'[finished'[i].model]
    BY <1>1, <1>2, <1>3, <1>5, <2>1 DEF QueueInv
  <2>2. activation'[m] = NotRunning /\ activating'[m]
    BY <1>3 DEF PendingInv
  <2> QED  BY <1>2, <1>6, <2>1, <2>2
<1>8. \A i, j \in DOMAIN finished' : finished'[i].model = finished'[j].model => i = j
  <2>1. \A i, j \in 1..Len(finished) : finished'[i].model = finished'[j].model => i = j
    BY <1>1, <1>2 DEF QueueInv
  <2>2. \A i \in 1..Len(finished) : finished'[i].model # finished'[Len(finished) + 1].model
    BY <1>2, <1>5
  <2> QED  BY <1>6, <2>1, <2>2
<1>9. Reloads \/ reload => Reloads'
  <2>1. 1..Len(finished) \subseteq DOMAIN finished' /\ Len(finished) + 1 \in DOMAIN finished'
        /\ DOMAIN finished = 1..Len(finished)
    BY <1>1, <1>2
  <2> QED  BY <1>2, <2>1 DEF Reloads
<1> QED  BY <1>2, <1>4, <1>7, <1>8, <1>9 DEF QueueInv

LEMMA ClosureEffect ==
    ASSUME ModelTypesInv, PendingInv, QueueInv, finished # <<>>, finished' = Tail(finished),
           activating' = [activating EXCEPT ![Head(finished).model] = FALSE],
           UNCHANGED activation
    PROVE  /\ finished' \in Seq(Closure)
           /\ activating' \in [Models -> BOOLEAN]
           /\ PendingInv' /\ QueueInv'
           /\ Reloads => Reloads' \/ Head(finished).reload
<1>1. /\ finished \in Seq(Closure)
      /\ activating \in [Models -> BOOLEAN] /\ activation \in [Models -> ActivationStates]
  BY DEF ModelTypesInv
<1>2. /\ finished' \in Seq(Closure)
      /\ DOMAIN finished = 1..Len(finished) /\ DOMAIN finished' = 1..Len(finished')
      /\ Len(finished') = Len(finished) - 1 /\ Len(finished) \in Nat \ {0}
      /\ \A i \in 1..Len(finished') : finished'[i] = finished[i + 1]
      /\ Head(finished) = finished[1] /\ finished[1] \in Closure
  BY <1>1
<1>3. \A i \in 1..Len(finished') : i + 1 \in 1..Len(finished) /\ i + 1 # 1
  BY <1>2
<1>4. activating' \in [Models -> BOOLEAN] /\ PendingInv'
  <2>1. Head(finished).model \in Models /\ 1 \in DOMAIN finished
    BY <1>2 DEF Closure
  <2>2. activation[Head(finished).model] = NotRunning
    BY <1>2, <2>1 DEF QueueInv
  <2> QED  BY <1>1, <2>1, <2>2 DEF PendingInv
<1>5. \A i \in 1..Len(finished') : finished'[i].model # Head(finished).model
  <2> SUFFICES ASSUME NEW i \in 1..Len(finished'), finished[i + 1].model = finished[1].model
               PROVE  FALSE
    BY <1>2
  <2>1. i + 1 \in DOMAIN finished /\ 1 \in DOMAIN finished /\ i + 1 # 1
    BY <1>2, <1>3
  <2> QED  BY <2>1 DEF QueueInv
<1>6. \A i \in DOMAIN finished' :
         activation'[finished'[i].model] = NotRunning /\ activating'[finished'[i].model]
  <2> SUFFICES ASSUME NEW i \in 1..Len(finished')
               PROVE  activation[finished[i + 1].model] = NotRunning
                      /\ activating'[finished[i + 1].model]
    BY <1>2
  <2>1. i + 1 \in DOMAIN finished /\ finished[i + 1].model \in Models
    <3>1. i + 1 \in DOMAIN finished
      BY <1>2, <1>3
    <3> QED  BY <1>3, <3>1, ClosureTypes
  <2>2. activation[finished[i + 1].model] = NotRunning /\ activating[finished[i + 1].model]
    BY <2>1 DEF QueueInv
  <2>3. finished[i + 1].model # Head(finished).model
    BY <1>2, <1>5
  <2> QED  BY <1>1, <2>1, <2>2, <2>3
<1>7. \A i, j \in DOMAIN finished' : finished'[i].model = finished'[j].model => i = j
  <2> SUFFICES ASSUME NEW i \in 1..Len(finished'), NEW j \in 1..Len(finished'),
                      finished'[i].model = finished'[j].model
               PROVE  i = j
    BY <1>2, Zenon
  <2>1. i + 1 = j + 1
    BY <1>2, <1>3 DEF QueueInv
  <2> QED  BY <2>1
<1>8. Reloads => Reloads' \/ Head(finished).reload
  <2> SUFFICES ASSUME NEW i \in 1..Len(finished), finished[i].reload, i # 1
               PROVE  Reloads'
    <3> SUFFICES ASSUME Reloads, ~Head(finished).reload PROVE Reloads'
      OBVIOUS
    <3>1. PICK i \in DOMAIN finished : finished[i].reload
      BY DEF Reloads
    <3> QED  BY <1>2, <3>1
  <2>1. i - 1 \in 1..Len(finished') /\ (i - 1) + 1 = i
    BY <1>2
  <2>2. finished'[i - 1] = finished[i]
    BY <1>2, <2>1
  <2> QED  BY <1>2, <2>1, <2>2 DEF Reloads
<1> QED  BY <1>2, <1>4, <1>6, <1>7, <1>8 DEF QueueInv

-----------------------------------------------------------------------------
(* A step keeps the types, and the closures their cards.                   *)

LEMMA ReloadTypes ==
    ASSUME ModelTypesInv, Reload, catalog' \in ProviderFiles
    PROVE  /\ selected' \in Recognisers /\ memory' \in [Models -> Loaders]
           /\ punctuates' \in BOOLEAN
BY DEF ModelTypesInv, Reload, ProviderFiles, Loaders

LEMMA LoadedTypes ==
    ASSUME ModelTypesInv, NEW m \in Models, NEW who \in Loaders
    PROVE  LoadedFor(m, who) \in [Models -> Loaders] /\ Cleared(m) \in [Models -> Loaders]
BY DEF ModelTypesInv, LoadedFor, Cleared, Loaders

Carded == ModelTypesInv /\ PendingInv /\ QueueInv

Quiet == UNCHANGED <<activation, activating, finished>>

LEMMA QuietKeeps ==
    ASSUME PendingInv, QueueInv, Quiet
    PROVE  PendingInv' /\ QueueInv'
BY DEF PendingInv, QueueInv, Quiet

(* A thread at work, or one that starts, is in no closure.                 *)
LEMMA ThreadKeeps ==
    ASSUME ModelTypesInv, PendingInv, QueueInv, NEW m \in Models, NEW state \in ActivationStates,
           activation' = [activation EXCEPT ![m] = state], UNCHANGED finished,
           \/ activation[m] # NotRunning /\ UNCHANGED activating
           \/ ~activating[m] /\ activating' = [activating EXCEPT ![m] = TRUE]
    PROVE  activation' \in [Models -> ActivationStates] /\ PendingInv' /\ QueueInv'
<1>1. /\ activation \in [Models -> ActivationStates] /\ activating \in [Models -> BOOLEAN]
      /\ finished \in Seq(Closure)
  BY DEF ModelTypesInv
<1>2. ASSUME NEW i \in DOMAIN finished PROVE finished[i].model \in Models \ {m}
  <2>1. i \in 1..Len(finished)
    BY <1>1, <1>2
  <2>2. activation[finished[i].model] = NotRunning /\ activating[finished[i].model]
    BY <1>2 DEF QueueInv
  <2>3. finished[i].model \in Models
    BY <2>1, ClosureTypes
  <2> QED  BY <2>2, <2>3
<1> QED  BY <1>1, <1>2 DEF PendingInv, QueueInv

(* A step of a thread of a model.                                          *)
ModelThreadStep(m) ==
    \/ ActivationReads(m) \/ ActivationPrepares(m) \/ ActivationChecks(m)
    \/ ActivationSaves(m) \/ ActivationConcludes(m) \/ Preloads(m)

LEMMA ThreadAtWork ==
    ASSUME NEW m \in Models, ModelThreadStep(m)
    PROVE  activation[m] # NotRunning /\ UNCHANGED activating
BY DEF ModelThreadStep, ActivationReads, ActivationPrepares, ActivationChecks,
       ActivationSaves, ActivationConcludes, Preloads, GivesUp, Ends, NotRunning

LEMMA ActivationCards ==
    ASSUME Carded, NEW m \in Models,
           \/ SelectModel(m) \/ ActivationReads(m) \/ ActivationPrepares(m)
           \/ ActivationChecks(m) \/ ActivationSaves(m) \/ ActivationConcludes(m)
           \/ Preloads(m)
    PROVE  Carded'
<1> USE DEF Carded, historyVars
<1>0. /\ ModelTypesInv /\ PendingInv /\ QueueInv
      /\ catalog \in ProviderFiles /\ catalog.asr \in Recognisers
      /\ activation \in [Models -> ActivationStates] /\ activating \in [Models -> BOOLEAN]
      /\ memory \in [Models -> Loaders]
  BY DEF ModelTypesInv, ProviderFiles
<1>1. CASE SelectModel(m)
  <2>1. [at |-> "starting"] \in ActivationStates
    BY DEF ActivationStates
  <2>2. activation' \in [Models -> ActivationStates] /\ PendingInv' /\ QueueInv'
    BY <1>0, <1>1, <2>1, ThreadKeeps DEF SelectModel
  <2> QED  BY <1>0, <1>1, <2>2 DEF SelectModel, ModelTypesInv, memoryVars
<1>a. ModelThreadStep(m) => activation[m] # NotRunning /\ UNCHANGED activating
  BY ThreadAtWork
<1>2. CASE ActivationReads(m)
  <2>1. [at |-> "preparing", expected |-> catalog.asr] \in ActivationStates
    BY <1>0 DEF ActivationStates
  <2>2. activation' \in [Models -> ActivationStates] /\ PendingInv' /\ QueueInv'
    BY <1>0, <1>a, <1>2, <2>1, ThreadKeeps, Zenon DEF ActivationReads, ModelThreadStep
  <2> QED  BY <1>0, <1>2, <2>2 DEF ActivationReads, ModelTypesInv, memoryVars
<1>3. CASE ActivationPrepares(m)
  <2>1. memory' \in [Models -> Loaders]
    <3>1. memory' \in {memory, LoadedFor(m, "activation"), LoadedFor(m, "another")}
      BY <1>3 DEF ActivationPrepares, Ends
    <3>2. "activation" \in Loaders /\ "another" \in Loaders
      BY DEF Loaders
    <3>3. /\ LoadedFor(m, "activation") \in [Models -> Loaders]
          /\ LoadedFor(m, "another") \in [Models -> Loaders]
      BY <1>0, <3>2, LoadedTypes, Zenon
    <3> QED  BY <1>0, <3>1, <3>3, Zenon
  <2>2. /\ activation' \in [Models -> ActivationStates] /\ PendingInv' /\ QueueInv'
        /\ finished' \in Seq(Closure)
    <3>1. CASE Ends(m, FALSE)
      BY <1>0, <1>a, <1>3, <3>1, EndsEffect, Zenon DEF ModelThreadStep
    <3>2. CASE activation' = [activation EXCEPT ![m].at = "prepared"] /\ UNCHANGED finished
      <4>1. [activation[m] EXCEPT !.at = "prepared"] \in ActivationStates
        BY <1>0, <1>3 DEF ActivationPrepares, ActivationStates
      <4>2. activation' = [activation EXCEPT ![m] = [activation[m] EXCEPT !.at = "prepared"]]
        BY <1>0, <3>2
      <4>3. activation[m] # NotRunning /\ UNCHANGED activating /\ UNCHANGED finished
        BY <1>a, <1>3, <3>2, Zenon DEF ModelThreadStep
      <4>4. activation' \in [Models -> ActivationStates] /\ PendingInv' /\ QueueInv'
        BY <1>0, <4>1, <4>2, <4>3, ThreadKeeps, Zenon
      <4> QED  BY <1>0, <4>3, <4>4, Zenon DEF ModelTypesInv
    <3> QED  BY <1>3, <3>1, <3>2, Zenon DEF ActivationPrepares
  <2> QED  BY <1>0, <1>3, <2>1, <2>2 DEF ActivationPrepares, ModelTypesInv
<1>4. CASE ActivationChecks(m)
  <2>1. CASE GivesUp(m)
    <3>1. PendingInv' /\ QueueInv' /\ finished' \in Seq(Closure)
          /\ activation' \in [Models -> ActivationStates]
      BY <1>0, <1>a, <1>4, <2>1, EndsEffect, Zenon DEF ModelThreadStep, GivesUp
    <3>2. memory' \in [Models -> Loaders]
      BY <1>0, <2>1, LoadedTypes DEF GivesUp, Ends, Loaders
    <3> QED  BY <1>0, <1>4, <3>1, <3>2 DEF ActivationChecks, GivesUp, Ends, ModelTypesInv
  <2>2. CASE catalog.asr = activation[m].expected
    <3>1. [at |-> "saving", expected |-> activation[m].expected, read |-> catalog]
             \in ActivationStates
      BY <1>0, <2>2 DEF ActivationStates
    <3>2. activation' \in [Models -> ActivationStates] /\ PendingInv' /\ QueueInv'
      BY <1>0, <1>a, <1>4, <2>2, <3>1, ThreadKeeps, Zenon DEF ActivationChecks, ModelThreadStep
    <3> QED  BY <1>0, <1>4, <2>2, <3>2 DEF ActivationChecks, ModelTypesInv
  <2> QED  BY <1>4, <2>1, <2>2 DEF ActivationChecks
<1>5. CASE ActivationSaves(m)
  <2>0. activation[m] \in [at : {"saving"}, expected : Recognisers, read : ProviderFiles]
    BY <1>0, <1>5 DEF ActivationSaves, ActivationStates
  <2>1. CASE GivesUp(m) /\ UNCHANGED catalog
    <3>1. PendingInv' /\ QueueInv' /\ finished' \in Seq(Closure)
          /\ activation' \in [Models -> ActivationStates]
      BY <1>0, <1>a, <1>5, <2>1, EndsEffect, Zenon DEF ModelThreadStep, GivesUp
    <3>2. memory' \in [Models -> Loaders]
      BY <1>0, <2>1, LoadedTypes DEF GivesUp, Ends, Loaders
    <3>3. lost' \in BOOLEAN
      BY <1>0, <1>5 DEF ActivationSaves, Writes, GivesUp, Ends, ModelTypesInv
    <3> QED  BY <1>0, <1>5, <2>1, <3>1, <3>2, <3>3 DEF ActivationSaves, GivesUp, Ends, ModelTypesInv
  <2>2. CASE /\ catalog' = [activation[m].read EXCEPT !.asr = m]
             /\ activation' = [activation EXCEPT ![m] =
                   [at |-> "saved", expected |-> activation[m].expected]]
             /\ UNCHANGED <<finished, memory>>
             /\ lost' = (lost \/ catalog # activation[m].read)
    <3>1. [at |-> "saved", expected |-> activation[m].expected] \in ActivationStates
      BY <2>0 DEF ActivationStates
    <3>2. activation' \in [Models -> ActivationStates] /\ PendingInv' /\ QueueInv'
      BY <1>0, <1>a, <1>5, <2>2, <3>1, ThreadKeeps, Zenon DEF ModelThreadStep
    <3>3. catalog' \in ProviderFiles
      BY <2>0, <2>2 DEF ProviderFiles, Recognisers
    <3>4. lost' \in BOOLEAN
      BY <2>2
    <3> QED
      BY <1>0, <1>5, <2>2, <3>2, <3>3, <3>4 DEF ActivationSaves, GivesUp, Ends, ModelTypesInv
  <2> QED  BY <1>5, <2>1, <2>2, Zenon DEF ActivationSaves, Writes
<1>6. CASE ActivationConcludes(m)
  <2>1. /\ memory' \in [Models -> Loaders] /\ punctuates' \in BOOLEAN
    BY <1>0, <1>6, LoadedTypes DEF ActivationConcludes, ModelTypesInv, Loaders
  <2>2. /\ activation' \in [Models -> ActivationStates] /\ PendingInv' /\ QueueInv'
        /\ finished' \in Seq(Closure)
    BY <1>0, <1>a, <1>6, EndsEffect, Zenon DEF ActivationConcludes, ModelThreadStep
  <2> QED  BY <1>0, <1>6, <2>1, <2>2 DEF ActivationConcludes, ModelTypesInv
<1>7. CASE Preloads(m)
  <2>1. memory' \in [Models -> Loaders]
    BY <1>0, <1>7, LoadedTypes DEF Preloads, Loaders
  <2>2. /\ activation' \in [Models -> ActivationStates] /\ PendingInv' /\ QueueInv'
        /\ finished' \in Seq(Closure)
    BY <1>0, <1>a, <1>7, EndsEffect, Zenon DEF Preloads, ModelThreadStep
  <2> QED  BY <1>0, <1>7, <2>1, <2>2 DEF Preloads, ModelTypesInv
<1> QED  BY <1>1, <1>2, <1>3, <1>4, <1>5, <1>6, <1>7

LEMMA OtherCards ==
    ASSUME Carded,
           \/ SelectCloud \/ CloudSelected \/ ActivationEnds
           \/ \E m \in Models :
                 UseModel(m) \/ UseLoads(m) \/ DeleteModel(m) \/ ModelArrives(m)
    PROVE  Carded'
<1> USE DEF Carded, threadVars, memoryVars, historyVars, Quiet
<1>0. /\ ModelTypesInv /\ PendingInv /\ QueueInv
      /\ catalog \in ProviderFiles /\ catalog.asr \in Recognisers
      /\ memory \in [Models -> Loaders]
  BY DEF ModelTypesInv, ProviderFiles
<1>1. CASE SelectCloud
  <2>1. choosing' \in [at : {"cloud"}, read : ProviderFiles]
    BY <1>0, <1>1 DEF SelectCloud
  <2> QED  BY <1>0, <1>1, <2>1, QuietKeeps DEF SelectCloud, ModelTypesInv
<1>2. CASE CloudSelected
  <2>1. choosing \in [at : {"cloud"}, read : ProviderFiles]
    BY <1>0, <1>2 DEF CloudSelected, ModelTypesInv, NotRunning
  <2>2. catalog' \in ProviderFiles
    BY <1>0, <1>2, <2>1 DEF CloudSelected, Writes, ProviderFiles, Recognisers
  <2>3. /\ selected' \in Recognisers /\ memory' \in [Models -> Loaders]
        /\ punctuates' \in BOOLEAN
    BY <1>0, <1>2, <2>2, ReloadTypes DEF CloudSelected, ModelTypesInv
  <2>4. lost' \in BOOLEAN
    BY <1>0, <1>2 DEF CloudSelected, Writes, ModelTypesInv
  <2>5. PendingInv' /\ QueueInv'
    BY <1>0, <1>2, QuietKeeps DEF CloudSelected
  <2> QED  BY <1>0, <1>2, <2>2, <2>3, <2>4, <2>5 DEF CloudSelected, ModelTypesInv
<1>3. CASE ActivationEnds
  <2>1. /\ finished' \in Seq(Closure)
        /\ activating' \in [Models -> BOOLEAN] /\ PendingInv' /\ QueueInv'
    BY <1>0, <1>3, ClosureEffect DEF ActivationEnds
  <2>2. /\ selected' \in Recognisers /\ memory' \in [Models -> Loaders]
        /\ punctuates' \in BOOLEAN
    BY <1>0, <1>3, ReloadTypes DEF ActivationEnds, ModelTypesInv
  <2> QED  BY <1>0, <1>3, <2>1, <2>2 DEF ActivationEnds, ModelTypesInv
<1>4. ASSUME NEW m \in Models, UseModel(m) PROVE Carded'
  BY <1>0, <1>4, QuietKeeps DEF UseModel, ModelTypesInv
<1>5. ASSUME NEW m \in Models, UseLoads(m) PROVE Carded'
  <2>1. memory' \in [Models -> Loaders]
    BY <1>0, <1>5, LoadedTypes DEF UseLoads, Loaders
  <2> QED  BY <1>0, <1>5, <2>1, QuietKeeps DEF UseLoads, ModelTypesInv
<1>6. ASSUME NEW m \in Models, DeleteModel(m) PROVE Carded'
  <2>1. memory' \in [Models -> Loaders]
    BY <1>0, <1>6, LoadedTypes DEF DeleteModel, Loaders
  <2>2. selected' \in Recognisers
    BY <1>0, <1>6 DEF DeleteModel, Recognisers, ModelTypesInv
  <2> QED  BY <1>0, <1>6, <2>1, <2>2, QuietKeeps DEF DeleteModel, ModelTypesInv
<1>7. ASSUME NEW m \in Models, ModelArrives(m) PROVE Carded'
  BY <1>0, <1>7, QuietKeeps DEF ModelArrives, ModelTypesInv
<1> QED  BY <1>1, <1>2, <1>3, <1>4, <1>5, <1>6, <1>7

LEMMA PunctuationCards ==
    ASSUME Carded,
           \/ PunctuateLocally \/ PunctuationArrives \/ PunctuationReads
           \/ PunctuationPrepares \/ PunctuationLoadsCatalog \/ PunctuationSaves
           \/ PunctuateByLlm \/ DeletePunctuation \/ ModeSaved
    PROVE  Carded'
<1> USE DEF Carded, threadVars, memoryVars, historyVars, Quiet, NotRunning
<1>0. ModelTypesInv /\ PendingInv /\ QueueInv /\ catalog \in ProviderFiles
  BY DEF ModelTypesInv
<1>1. CASE PunctuateLocally
  BY <1>0, <1>1, QuietKeeps DEF PunctuateLocally, ModelTypesInv
<1>2. CASE PunctuationArrives
  BY <1>0, <1>2, QuietKeeps DEF PunctuationArrives, ModelTypesInv
<1>3. CASE PunctuationReads
  BY <1>0, <1>3, QuietKeeps DEF PunctuationReads, ModelTypesInv
<1>4. CASE PunctuationPrepares
  <2>1. punctuates' \in BOOLEAN /\ punctuation' \in [at : {"idle", "prepared"}]
    <3>1. \/ punctuates' = TRUE /\ punctuation' = [at |-> "prepared"]
          \/ punctuates' = punctuates /\ punctuation' = [at |-> "idle"]
      BY <1>4, Zenon DEF PunctuationPrepares
    <3>2. punctuates \in BOOLEAN
      BY <1>0 DEF ModelTypesInv
    <3>3. punctuates' \in BOOLEAN
      BY <3>1, <3>2, Zenon
    <3>4. punctuation' \in [at : {"idle", "prepared"}]
      <4>1. punctuation' = [at |-> "prepared"] \/ punctuation' = [at |-> "idle"]
        BY <3>1, Zenon
      <4> QED  BY <4>1
    <3> QED  BY <3>3, <3>4
  <2>2. PendingInv' /\ QueueInv'
    BY <1>0, <1>4, QuietKeeps DEF PunctuationPrepares
  <2> QED  BY <1>0, <1>4, <2>1, <2>2 DEF PunctuationPrepares, ModelTypesInv
<1>5. CASE PunctuationLoadsCatalog
  BY <1>0, <1>5, QuietKeeps DEF PunctuationLoadsCatalog, ModelTypesInv
<1>6. CASE PunctuationSaves
  <2>1. punctuation \in [at : {"saving"}, read : ProviderFiles]
    BY <1>0, <1>6 DEF PunctuationSaves, ModelTypesInv
  <2>2. catalog' \in ProviderFiles
    BY <1>0, <1>6, <2>1 DEF PunctuationSaves, Writes, ProviderFiles, Modes
  <2>3. lost' \in BOOLEAN
    BY <1>0, <1>6 DEF PunctuationSaves, Writes, ModelTypesInv
  <2>4. PendingInv' /\ QueueInv'
    BY <1>0, <1>6, QuietKeeps DEF PunctuationSaves
  <2> QED  BY <1>0, <1>6, <2>2, <2>3, <2>4 DEF PunctuationSaves, ModelTypesInv
<1>7. CASE PunctuateByLlm
  <2>1. choosing' \in [at : {"llm"}, read : ProviderFiles]
    BY <1>0, <1>7 DEF PunctuateByLlm
  <2> QED  BY <1>0, <1>7, <2>1, QuietKeeps DEF PunctuateByLlm, ModelTypesInv
<1>8. CASE DeletePunctuation
  <2>1. \/ UNCHANGED choosing
        \/ choosing' \in [at : {"removed"}, read : ProviderFiles]
    BY <1>0, <1>8 DEF DeletePunctuation
  <2> QED  BY <1>0, <1>8, <2>1, QuietKeeps DEF DeletePunctuation, ModelTypesInv
<1>9. CASE ModeSaved
  <2>1. choosing \in [at : {"llm", "removed"}, read : ProviderFiles]
    BY <1>0, <1>9 DEF ModeSaved, ModelTypesInv
  <2>2. catalog' \in ProviderFiles /\ punctuates' \in BOOLEAN
    BY <1>0, <1>9, <2>1 DEF ModeSaved, Writes, ProviderFiles, Modes, ModelTypesInv
  <2>3. lost' \in BOOLEAN /\ unsaved' \in BOOLEAN
    BY <1>0, <1>9 DEF ModeSaved, Writes, ModelTypesInv
  <2>4. PendingInv' /\ QueueInv'
    BY <1>0, <1>9, QuietKeeps DEF ModeSaved
  <2> QED  BY <1>0, <1>9, <2>2, <2>3, <2>4 DEF ModeSaved, ModelTypesInv
<1> QED  BY <1>1, <1>2, <1>3, <1>4, <1>5, <1>6, <1>7, <1>8, <1>9

-----------------------------------------------------------------------------
(* A launch: nothing of the last process is left but the file and the disk. *)

LEMMA RestartKeeps ==
    ASSUME ModelsInv, Restart
    PROVE  ModelsInv'
<1> USE DEF NotRunning
<1>0. catalog \in ProviderFiles /\ onDisk \subseteq Models \cup {"punctuation"}
  BY DEF ModelsInv, ModelTypesInv
<1>1. /\ onDisk' \subseteq Models \cup {"punctuation"}
      /\ catalog' = Reconciled(catalog, onDisk')
      /\ selected' = catalog'.asr
      /\ activating' = PreloadPending(catalog') /\ activation' = PreloadThreads(catalog')
      /\ punctuation' = PunctuationThread(catalog')
      /\ choosing' = NotRunning /\ finished' = <<>> /\ using' = {}
      /\ memory' = NothingLoaded /\ punctuates' = FALSE
      /\ lost' = FALSE /\ unsaved' = FALSE
  BY <1>0 DEF Restart
<1>2. /\ catalog' \in ProviderFiles
      /\ catalog'.asr \in Models => catalog'.asr \in onDisk'
      /\ catalog'.mode = "local" => "punctuation" \in onDisk'
  BY <1>0, <1>1 DEF Reconciled, ProviderFiles, Recognisers, Modes
<1>3. ModelTypesInv' /\ PendingInv'
  <2>1. /\ finished' \in Seq(Closure)
        /\ choosing' \in {NotRunning} /\ using' \subseteq Models
    BY <1>1
  <2>2. /\ activation' \in [Models -> ActivationStates]
        /\ activating' \in [Models -> BOOLEAN] /\ PendingInv'
    BY <1>1 DEF ActivationStates, PreloadThreads, PreloadPending, PendingInv
  <2>3. /\ selected' \in Recognisers /\ memory' \in [Models -> Loaders]
        /\ punctuation' \in
              [at : {"idle", "downloading", "activating", "preparing", "prepared"}]
    BY <1>1, <1>2 DEF ProviderFiles, PunctuationThread, NothingLoaded, Loaders
  <2> QED  BY <1>1, <1>2, <2>1, <2>2, <2>3 DEF ModelTypesInv
<1>4. QueueInv' /\ HeldInv'
  BY <1>1 DEF QueueInv, HeldInv, NothingLoaded
<1>5. DiskInv' /\ SelectedIsInstalled'
  BY <1>1, <1>2 DEF DiskInv, SelectedIsInstalled, PreloadThreads, PunctuationThread
<1> QED  BY <1>3, <1>4, <1>5 DEF ModelsInv

-----------------------------------------------------------------------------
(* What is at work stays on the disk.                                      *)

LEMMA ThreadStepFrame ==
    ASSUME Carded, NEW m \in Models, ModelThreadStep(m)
    PROVE  /\ \A k \in Models \ {m} : activation'[k] = activation[k]
           /\ UNCHANGED <<choosing, punctuation, onDisk, unsaved>>
BY DEF ModelThreadStep, Carded, ModelTypesInv, ActivationReads, ActivationPrepares, ActivationChecks,
       ActivationSaves, ActivationConcludes, Preloads, GivesUp, Ends, NotRunning,
       historyVars

LEMMA DiskStep ==
    ASSUME ModelsInv, LifecycleNext, ~Restart
    PROVE  DiskInv'
<1> USE DEF threadVars, NotRunning, AtLeisure
<1>0. /\ Carded /\ DiskInv /\ PendingInv
      /\ activation \in [Models -> ActivationStates] /\ activating \in [Models -> BOOLEAN]
  BY DEF ModelsInv, Carded, ModelTypesInv
<1>1. ASSUME NEW m \in Models, ModelThreadStep(m) PROVE DiskInv'
  BY <1>0, <1>1, ThreadStepFrame, ThreadAtWork DEF DiskInv
<1>2. ASSUME NEW m \in Models, SelectModel(m) PROVE DiskInv'
  BY <1>0, <1>2 DEF SelectModel, DiskInv
<1>3. ASSUME NEW m \in Models, DeleteModel(m) PROVE DiskInv'
  BY <1>0, <1>3 DEF DeleteModel, Deletable, DiskInv, PendingInv
<1>4. ASSUME NEW m \in Models, UseModel(m) \/ UseLoads(m) \/ ModelArrives(m)
      PROVE  DiskInv'
  BY <1>0, <1>4 DEF UseModel, UseLoads, ModelArrives, DiskInv
<1>5. CASE SelectCloud \/ CloudSelected \/ ActivationEnds
  BY <1>0, <1>5 DEF SelectCloud, CloudSelected, ActivationEnds, DiskInv
<1>6. CASE PunctuateLocally \/ PunctuationArrives \/ PunctuationReads
  BY <1>0, <1>6 DEF PunctuateLocally, PunctuationArrives, PunctuationReads, DiskInv
<1>7. CASE PunctuationPrepares \/ PunctuationLoadsCatalog \/ PunctuationSaves
  BY <1>0, <1>7 DEF PunctuationPrepares, PunctuationLoadsCatalog, PunctuationSaves, DiskInv
<1>8. CASE PunctuateByLlm \/ DeletePunctuation \/ ModeSaved
  BY <1>0, <1>8 DEF PunctuateByLlm, DeletePunctuation, ModeSaved, DiskInv
<1> QED
  BY <1>1, <1>2, <1>3, <1>4, <1>5, <1>6, <1>7, <1>8 DEF LifecycleNext, ModelThreadStep

-----------------------------------------------------------------------------
(* What is selected stays on the disk.  A save that overwrites nothing adds *)
(* its own change to the file as it is.                                    *)

(* A save of what was read before, if it overwrites nothing.               *)
LEMMA WritesOwnChange ==
    ASSUME ModelTypesInv, NEW read, NEW written, Writes(read, written), ~lost'
    PROVE  ~lost /\ read = catalog /\ catalog' = written
BY DEF Writes, ModelTypesInv

Untouched == UNCHANGED <<catalog, lost, unsaved>>

(* The file and what it lost stay, and so does what it selects on the disk. *)
LEMMA UntouchedKeeps ==
    ASSUME SelectedIsInstalled, Untouched,
           \A k \in Models : k = catalog.asr /\ k \in onDisk => k \in onDisk',
           "punctuation" \in onDisk => "punctuation" \in onDisk' \/ choosing'.at = "removed",
           choosing.at = "removed" => choosing'.at = "removed"
    PROVE  SelectedIsInstalled'
BY DEF SelectedIsInstalled, Untouched

LEMMA SelectedStep ==
    ASSUME ModelsInv, LifecycleNext, ~Restart
    PROVE  SelectedIsInstalled'
<1> USE DEF threadVars, historyVars, NotRunning, AtLeisure, Untouched
<1>0. /\ ModelTypesInv /\ DiskInv /\ SelectedIsInstalled /\ catalog \in ProviderFiles
      /\ activation \in [Models -> ActivationStates]
  BY DEF ModelsInv, ModelTypesInv
<1>1. ASSUME NEW m \in Models,
             \/ SelectModel(m) \/ ActivationReads(m) \/ ActivationPrepares(m)
             \/ ActivationChecks(m) \/ ActivationConcludes(m) \/ Preloads(m)
      PROVE  SelectedIsInstalled'
  <2>1. Untouched /\ UNCHANGED <<onDisk, choosing>>
    BY <1>1 DEF SelectModel, ActivationReads, ActivationPrepares, ActivationChecks,
       ActivationConcludes, Preloads
  <2> QED  BY <1>0, <2>1, UntouchedKeeps
<1>2. ASSUME NEW m \in Models, ActivationSaves(m) PROVE SelectedIsInstalled'
  <2>1. UNCHANGED <<onDisk, choosing, unsaved>> /\ m \in onDisk
    BY <1>0, <1>2 DEF ActivationSaves, DiskInv
  <2>2. CASE Untouched
    BY <1>0, <2>1, <2>2, UntouchedKeeps
  <2>3. CASE Writes(activation[m].read, [activation[m].read EXCEPT !.asr = m])
    <3> SUFFICES ASSUME ~lost' PROVE SelectedIsInstalled'
      BY DEF SelectedIsInstalled
    <3>1. ~lost /\ catalog' = [catalog EXCEPT !.asr = m]
      BY <1>0, <2>3, WritesOwnChange
    <3> QED  BY <1>0, <2>1, <3>1 DEF SelectedIsInstalled, ProviderFiles
  <2> QED  BY <1>2, <2>1, <2>2, <2>3 DEF ActivationSaves
<1>3. ASSUME NEW m \in Models, UseModel(m) \/ UseLoads(m) \/ ModelArrives(m)
      PROVE  SelectedIsInstalled'
  <2>1. Untouched /\ onDisk \subseteq onDisk' /\ UNCHANGED choosing
    BY <1>3 DEF UseModel, UseLoads, ModelArrives
  <2> QED  BY <1>0, <2>1, UntouchedKeeps
<1>4. ASSUME NEW m \in Models, DeleteModel(m) PROVE SelectedIsInstalled'
  <2>1. Untouched /\ UNCHANGED choosing /\ onDisk \ {m} \subseteq onDisk' /\ catalog.asr # m
    BY <1>4 DEF DeleteModel, Deletable
  <2> QED  BY <1>0, <2>1, UntouchedKeeps
<1>5. CASE SelectCloud \/ ActivationEnds \/ PunctuateByLlm
  <2>1. Untouched /\ UNCHANGED onDisk /\ choosing.at # "removed"
    BY <1>5 DEF SelectCloud, ActivationEnds, PunctuateByLlm
  <2> QED  BY <1>0, <2>1, UntouchedKeeps
<1>6. CASE PunctuateLocally \/ PunctuationArrives \/ PunctuationReads
           \/ PunctuationPrepares \/ PunctuationLoadsCatalog
  <2>1. Untouched /\ onDisk \subseteq onDisk' /\ UNCHANGED choosing
    BY <1>6 DEF PunctuateLocally, PunctuationArrives, PunctuationReads,
       PunctuationPrepares, PunctuationLoadsCatalog
  <2> QED  BY <1>0, <2>1, UntouchedKeeps
<1>7. CASE DeletePunctuation
  <2>1. /\ Untouched /\ choosing.at # "removed"
        /\ \/ UNCHANGED onDisk
           \/ onDisk' = onDisk \ {"punctuation"} /\ choosing'.at = "removed"
    BY <1>7 DEF DeletePunctuation
  <2> QED  BY <1>0, <2>1, UntouchedKeeps
<1>8. CASE CloudSelected
  <2>1. UNCHANGED <<onDisk, unsaved>> /\ choosing.at # "removed" /\ choosing'.at # "removed"
    BY <1>8 DEF CloudSelected
  <2>2. CASE Untouched
    BY <1>0, <2>1, <2>2, UntouchedKeeps
  <2>3. CASE Writes(choosing.read, [choosing.read EXCEPT !.asr = "cloud"])
    <3> SUFFICES ASSUME ~lost' PROVE SelectedIsInstalled'
      BY DEF SelectedIsInstalled
    <3>1. ~lost /\ catalog' = [catalog EXCEPT !.asr = "cloud"]
      BY <1>0, <2>3, WritesOwnChange
    <3> QED  BY <1>0, <2>1, <3>1 DEF SelectedIsInstalled, ProviderFiles
  <2> QED  BY <1>8, <2>1, <2>2, <2>3 DEF CloudSelected
<1>9. CASE PunctuationSaves
  <2>1. UNCHANGED <<onDisk, choosing>> /\ "punctuation" \in onDisk
    BY <1>0, <1>9 DEF PunctuationSaves, DiskInv
  <2>2. CASE Untouched
    BY <1>0, <2>1, <2>2, UntouchedKeeps
  <2>3. CASE Writes(punctuation.read, [punctuation.read EXCEPT !.mode = "local"])
    <3> SUFFICES ASSUME ~lost' PROVE SelectedIsInstalled'
      BY DEF SelectedIsInstalled
    <3>1. ~lost /\ catalog' = [catalog EXCEPT !.mode = "local"]
      BY <1>0, <2>3, WritesOwnChange
    <3> QED  BY <1>0, <2>1, <3>1 DEF SelectedIsInstalled, ProviderFiles
  <2> QED  BY <1>9, <2>1, <2>2, <2>3 DEF PunctuationSaves
<1>10. CASE ModeSaved
  <2>1. UNCHANGED onDisk
    BY <1>10 DEF ModeSaved
  <2>2. CASE UNCHANGED <<catalog, lost>> /\ unsaved' = (unsaved \/ choosing.at = "removed")
    BY <1>0, <2>1, <2>2 DEF SelectedIsInstalled
  <2>3. CASE Writes(choosing.read, [choosing.read EXCEPT !.mode = "llm"])
    <3> SUFFICES ASSUME ~lost' PROVE SelectedIsInstalled'
      BY DEF SelectedIsInstalled
    <3>1. ~lost /\ catalog' = [catalog EXCEPT !.mode = "llm"]
      BY <1>0, <2>3, WritesOwnChange
    <3> QED  BY <1>0, <2>1, <3>1 DEF SelectedIsInstalled, ProviderFiles
  <2> QED  BY <1>10, <2>2, <2>3 DEF ModeSaved
<1> QED
  BY <1>1, <1>2, <1>3, <1>4, <1>5, <1>6, <1>7, <1>8, <1>9, <1>10 DEF LifecycleNext

-----------------------------------------------------------------------------
(* What an activation loaded is selected, or somebody will clear it.       *)

Somebody == (\E n \in Models : activation[n].at = "saved") \/ Reloads

(* A step that selects nothing else, loads nothing for an activation and   *)
(* dismisses nobody who will clear.                                        *)
LEMMA HeldKeeps ==
    ASSUME HeldInv, ~lost' => ~lost /\ catalog'.asr = catalog.asr,
           \A k \in Models : memory'[k] = "activation" =>
               /\ memory[k] = "activation"
               /\ activation[k].at \in {"prepared", "saving"} =>
                     activation'[k].at \in {"prepared", "saving"},
           Somebody => Somebody'
    PROVE  HeldInv'
BY DEF HeldInv, Somebody, Reloads

HeldFrame == UNCHANGED <<catalog, lost, activation, finished>>

LEMMA HeldFrameKeeps ==
    ASSUME HeldInv, HeldFrame,
           \A k \in Models : memory'[k] = "activation" => memory[k] = "activation"
    PROVE  HeldInv'
BY DEF HeldInv, HeldFrame

LEMMA ActivationHeld ==
    ASSUME ModelsInv, NEW m \in Models, SelectModel(m) \/ ModelThreadStep(m)
    PROVE  HeldInv'
<1> USE DEF NotRunning
<1>0. /\ ModelTypesInv /\ PendingInv /\ QueueInv /\ HeldInv
      /\ activation \in [Models -> ActivationStates] /\ memory \in [Models -> Loaders]
  BY DEF ModelsInv, ModelTypesInv
<1>a. ASSUME NEW reload \in BOOLEAN, Ends(m, reload), ModelThreadStep(m)
      PROVE  /\ Reloads \/ reload => Reloads'
             /\ activation' = [activation EXCEPT ![m] = NotRunning]
  BY <1>0, <1>a, EndsEffect, ThreadAtWork, Zenon DEF Ends
<1>1. CASE SelectModel(m)
  <2>1. /\ activation[m] = NotRunning
        /\ activation' = [activation EXCEPT ![m] = [at |-> "starting"]]
        /\ UNCHANGED <<catalog, lost, finished, memory>>
    BY <1>0, <1>1 DEF SelectModel, PendingInv, memoryVars, historyVars
  <2> QED  BY <1>0, <2>1 DEF HeldInv
<1>2. CASE ActivationReads(m)
  <2>1. /\ activation[m].at = "starting"
        /\ activation' = [activation EXCEPT ![m] =
                            [at |-> "preparing", expected |-> catalog.asr]]
        /\ UNCHANGED <<catalog, lost, finished, memory>>
    BY <1>0, <1>2 DEF ActivationReads, memoryVars, historyVars
  <2> QED  BY <1>0, <2>1 DEF HeldInv
<1>3. CASE /\ ActivationPrepares(m)
           /\ memory' = LoadedFor(m, "activation") /\ UNCHANGED finished
           /\ activation' = [activation EXCEPT ![m].at = "prepared"]
  <2>1. activation[m].at = "preparing" /\ UNCHANGED <<catalog, lost, finished>>
    BY <1>3, Zenon DEF ActivationPrepares, historyVars
  <2>2. /\ activation'[m].at = "prepared"
        /\ \A k \in Models \ {m} : activation'[k] = activation[k] /\ memory'[k] = memory[k]
    BY <1>0, <1>3, <2>1 DEF LoadedFor, ActivationStates
  <2> QED  BY <1>0, <2>1, <2>2 DEF HeldInv
<1>4. CASE /\ ActivationPrepares(m) \/ Preloads(m)
           /\ Ends(m, FALSE) /\ memory' \in {memory, LoadedFor(m, "another")}
  <2>1. Reloads => Reloads'
    BY <1>a, <1>4, Zenon DEF ModelThreadStep
  <2>2. /\ activation[m].at \in {"preparing", "preloading"}
        /\ activation' = [activation EXCEPT ![m] = NotRunning]
        /\ UNCHANGED <<catalog, lost>>
    BY <1>4 DEF Preloads, ActivationPrepares, Ends, historyVars
  <2>3. \A k \in Models : memory'[k] = "activation" => memory[k] = "activation"
    BY <1>0, <1>4 DEF LoadedFor
  <2>4. \A k \in Models : activation[k].at \in {"prepared", "saving", "saved"} =>
           activation'[k] = activation[k]
    BY <1>0, <2>2
  <2>5. Somebody => Somebody'
    BY <2>1, <2>4 DEF Somebody
  <2> QED  BY <1>0, <2>2, <2>3, <2>4, <2>5, HeldKeeps
<1>5. CASE (ActivationChecks(m) \/ ActivationSaves(m)) /\ GivesUp(m)
  <2>1. Reloads => Reloads'
    BY <1>a, <1>5, Zenon DEF ModelThreadStep, GivesUp
  <2>2. /\ activation[m].at \in {"prepared", "saving"} /\ memory' = Cleared(m)
        /\ activation' = [activation EXCEPT ![m] = NotRunning]
    BY <1>5 DEF ActivationChecks, ActivationSaves, GivesUp, Ends
  <2>3. ~lost' => ~lost /\ catalog'.asr = catalog.asr
    <3>1. activation' # [activation EXCEPT ![m] =
                           [at |-> "saved", expected |-> activation[m].expected]]
      BY <1>0, <2>2
    <3> QED
      BY <1>5, <3>1 DEF ActivationChecks, ActivationSaves, GivesUp, Ends, historyVars
  <2>4. \A k \in Models : memory'[k] = "activation" => memory[k] = "activation" /\ k # m
    BY <1>0, <2>2 DEF Cleared
  <2>5. \A k \in Models \ {m} : activation'[k] = activation[k]
    BY <1>0, <2>2
  <2>6. Somebody => Somebody'
    BY <2>1, <2>2, <2>5 DEF Somebody
  <2> QED  BY <1>0, <2>3, <2>4, <2>5, <2>6, HeldKeeps
<1>6. CASE ActivationChecks(m) /\ ~GivesUp(m)
  <2>1. /\ activation[m].at = "prepared"
        /\ activation' = [activation EXCEPT ![m] =
              [at |-> "saving", expected |-> activation[m].expected, read |-> catalog]]
        /\ UNCHANGED <<catalog, lost, finished, memory>>
    BY <1>0, <1>6, Zenon DEF ActivationChecks, historyVars
  <2>2. /\ activation'[m].at = "saving"
        /\ \A k \in Models \ {m} : activation'[k] = activation[k]
    BY <1>0, <2>1
  <2> QED  BY <1>0, <2>1, <2>2 DEF HeldInv
<1>7. CASE ActivationSaves(m) /\ ~GivesUp(m)
  <2>1. activation' = [activation EXCEPT ![m] =
                         [at |-> "saved", expected |-> activation[m].expected]]
    BY <1>0, <1>7, Zenon DEF ActivationSaves
  <2>2. activation'[m].at = "saved"
    BY <1>0, <2>1
  <2> QED  BY <2>2 DEF HeldInv
<1>8. CASE ActivationConcludes(m)
  <2>1. Ends(m, TRUE)
    BY <1>8, Zenon DEF ActivationConcludes
  <2>2. Reloads'
    BY <1>a, <1>8, <2>1, Zenon DEF ModelThreadStep
  <2> QED  BY <2>2 DEF HeldInv, Reloads
<1>9. ActivationPrepares(m) =>
         \/ /\ memory' = LoadedFor(m, "activation") /\ UNCHANGED finished
            /\ activation' = [activation EXCEPT ![m].at = "prepared"]
         \/ Ends(m, FALSE) /\ memory' \in {memory, LoadedFor(m, "another")}
  BY Zenon DEF ActivationPrepares
<1>10. Preloads(m) => Ends(m, FALSE) /\ memory' \in {memory, LoadedFor(m, "another")}
  BY DEF Preloads
<1> QED
  BY <1>1, <1>2, <1>3, <1>4, <1>5, <1>6, <1>7, <1>8, <1>9, <1>10, Zenon DEF ModelThreadStep

LEMMA OtherHeld ==
    ASSUME ModelsInv, LifecycleNext, ~Restart,
           \A m \in Models : ~SelectModel(m) /\ ~ModelThreadStep(m)
    PROVE  HeldInv'
<1> USE DEF threadVars, memoryVars, historyVars, HeldFrame
<1>0. /\ ModelTypesInv /\ PendingInv /\ QueueInv /\ HeldInv /\ catalog \in ProviderFiles
      /\ memory \in [Models -> Loaders]
  BY DEF ModelsInv, ModelTypesInv
<1>1. ASSUME NEW m \in Models, UseModel(m) \/ UseLoads(m) \/ DeleteModel(m) \/ ModelArrives(m)
      PROVE  HeldInv'
  <2>1. HeldFrame /\ memory' \in {memory, LoadedFor(m, "another"), Cleared(m)}
    BY <1>1 DEF UseModel, UseLoads, DeleteModel, ModelArrives
  <2>2. \A k \in Models : memory'[k] = "activation" => memory[k] = "activation"
    BY <1>0, <2>1 DEF LoadedFor, Cleared
  <2> QED  BY <1>0, <2>1, <2>2, HeldFrameKeeps
<1>2. CASE SelectCloud \/ PunctuateLocally \/ PunctuationArrives \/ PunctuationReads
           \/ PunctuationPrepares \/ PunctuationLoadsCatalog \/ PunctuateByLlm
           \/ DeletePunctuation
  <2>1. HeldFrame /\ UNCHANGED memory
    BY <1>2 DEF SelectCloud, PunctuateLocally, PunctuationArrives, PunctuationReads,
       PunctuationPrepares, PunctuationLoadsCatalog, PunctuateByLlm, DeletePunctuation
  <2> QED  BY <1>0, <2>1, HeldFrameKeeps
<1>3. ASSUME selected' = catalog'.asr,
             memory' = [m \in Models |-> IF m = selected' THEN memory[m] ELSE "nobody"]
      PROVE  HeldInv'
  BY <1>3 DEF HeldInv
<1>4. CASE CloudSelected
  <2>1. Reload \/ (HeldFrame /\ UNCHANGED memory)
    <3>1. Reload \/ UNCHANGED <<catalog, selected, memoryVars, lost>>
      BY <1>4, Zenon DEF CloudSelected
    <3>2. UNCHANGED <<activation, finished>>
      BY <1>4 DEF CloudSelected
    <3>3. CASE UNCHANGED <<catalog, selected, memoryVars, lost>>
      BY <3>2, <3>3
    <3> QED  BY <3>1, <3>3, Zenon
  <2> QED  BY <1>0, <1>3, <2>1, HeldFrameKeeps DEF Reload
<1>5. CASE ActivationEnds /\ ~Head(finished).reload
  <2>1. UNCHANGED <<catalog, lost, activation, memory>>
    BY <1>5 DEF ActivationEnds
  <2>2. Reloads => Reloads'
    BY <1>0, <1>5, ClosureEffect DEF ActivationEnds
  <2> QED  BY <1>0, <2>1, <2>2, HeldKeeps DEF Somebody
<1>6. CASE ActivationEnds /\ Head(finished).reload
  BY <1>3, <1>6 DEF ActivationEnds, Reload
<1>7. ASSUME UNCHANGED <<memory, activation, finished>>,
             \/ UNCHANGED <<catalog, lost>>
             \/ \E read, written :
                   Writes(read, written) /\ (read = catalog => written.asr = catalog.asr)
      PROVE  HeldInv'
  <2>1. ~lost' => ~lost /\ catalog'.asr = catalog.asr
    BY <1>0, <1>7, WritesOwnChange
  <2> QED  BY <1>0, <1>7, <2>1, HeldKeeps DEF Somebody, Reloads
<1>8. CASE PunctuationSaves
  <2>1. UNCHANGED <<memory, activation, finished>>
    BY <1>8 DEF PunctuationSaves
  <2>2. punctuation.read = catalog =>
           [punctuation.read EXCEPT !.mode = "local"].asr = catalog.asr
    BY <1>0 DEF ProviderFiles
  <2> QED  BY <1>7, <1>8, <2>1, <2>2 DEF PunctuationSaves
<1>9. CASE ModeSaved
  <2>1. UNCHANGED <<memory, activation, finished>>
    BY <1>9 DEF ModeSaved
  <2>2. choosing.read = catalog => [choosing.read EXCEPT !.mode = "llm"].asr = catalog.asr
    BY <1>0 DEF ProviderFiles
  <2> QED  BY <1>7, <1>9, <2>1, <2>2 DEF ModeSaved
<1> QED
  BY <1>1, <1>2, <1>4, <1>5, <1>6, <1>8, <1>9 DEF LifecycleNext, ModelThreadStep

-----------------------------------------------------------------------------
(* The theorems.                                                           *)

LEMMA ModelsInvNext == ModelsInv /\ [LifecycleNext]_lifecycleVars => ModelsInv'
<1> SUFFICES ASSUME ModelsInv, [LifecycleNext]_lifecycleVars PROVE ModelsInv'
  OBVIOUS
<1>1. CASE Restart
  BY <1>1, RestartKeeps
<1>2. CASE LifecycleNext /\ ~Restart
  <2>1. Carded'
    <3>1. Carded
      BY DEF ModelsInv, Carded
    <3> QED
      BY <1>2, <3>1, ActivationCards, OtherCards, PunctuationCards, Zenon DEF LifecycleNext
  <2>2. HeldInv'
    BY <1>2, ActivationHeld, OtherHeld, Zenon
  <2> QED  BY <1>2, <2>1, <2>2, DiskStep, SelectedStep DEF ModelsInv, Carded
<1>3. CASE UNCHANGED lifecycleVars
  BY <1>3 DEF lifecycleVars, ModelsInv, ModelTypesInv, PendingInv, QueueInv, DiskInv, HeldInv,
     SelectedIsInstalled
<1> QED  BY <1>1, <1>2, <1>3

(* The inductive invariant holds.                                          *)
THEOREM ModelsAlways == LifecycleSpec => []ModelsInv
BY ModelsInvInit, ModelsInvNext, PTL DEF LifecycleSpec

(* For any set of models: the cards, threads and closures stay consistent,  *)
(* whichever threads activate, preload and punctuate at the same time.      *)
THEOREM LifecycleTypeCorrect == LifecycleSpec => []LifecycleTypeOK
<1>1. ModelsInv => LifecycleTypeOK
  BY DEF ModelsInv, ModelTypesInv, PendingInv, Closure, LifecycleTypeOK
<1> QED  BY <1>1, ModelsAlways, PTL

(* For any set of models and however activations, downloads, deletions,     *)
(* launches and saves meet: what is selected is on the disk, and an         *)
(* activation leaves no other model in memory.                              *)
THEOREM SelectedIsHeldCorrect == LifecycleSpec => []SelectedIsHeld
<1>1. ModelsInv => SelectedIsHeld
  <2> SUFFICES ASSUME ModelsInv PROVE ActivationHoldsOnlySelected
    BY DEF ModelsInv, SelectedIsHeld
  <2> SUFFICES ASSUME ~lost, finished = <<>>, \A m \in Models : activation[m] = NotRunning,
                      NEW m \in Models, memory[m] = "activation"
               PROVE  m = catalog.asr
    BY DEF ActivationHoldsOnlySelected
  <2> QED  BY DEF ModelsInv, HeldInv, NotRunning
<1> QED  BY <1>1, ModelsAlways, PTL

HIDE LifecycleAssumption

-----------------------------------------------------------------------------
Catalogs == [asr : CloudAsr \cup {"none", "local"}, cloud : SUBSET CloudAsr,
             llm : Ids, llms : Seq(Instance)]
Views == [cloud : SUBSET CloudAsr, asr : CloudAsr \cup {"none"}, url : Urls, ready : BOOLEAN,
          confirmed : Urls, enabled : BOOLEAN]
Pages == [provider : Presets, draft : Urls, target : Urls, enabled : BOOLEAN,
          testing : BOOLEAN, modal : BOOLEAN, dialog : {"none", "draft", "saved"}]
Tests == [kind : {"draft", "saved"}, provider : Presets, url : Urls,
          at : {"reading", "testing", "saving"}]

(* What a handler holds between its load and its save was made of what it  *)
(* loaded.                                                                 *)
Consenting(read, view) ==
    /\ view = [View(read) EXCEPT !.enabled = FALSE, !.confirmed = SavedUrl(read, page.provider)]
    /\ view.confirmed \in agreed
TurningOff(read, view) == view = [View(read) EXCEPT !.enabled = FALSE]
Selecting(read, cat) ==
    \/ \E preset \in Presets : SavedReady(read, preset) /\ cat = SelectLlm(read, preset)
    \/ \E asr \in read.cloud : cat = [read EXCEPT !.asr = asr]

HandlerInv ==
    \/ handler = NotBusy
    \/ /\ handler.read \in Catalogs /\ Valid(handler.read)
       /\ \/ /\ handler.at = "consenting"
             /\ handler = [at |-> "consenting", read |-> handler.read, view |-> handler.view]
             /\ Consenting(handler.read, handler.view)
          \/ /\ handler.at = "turning off"
             /\ handler = [at |-> "turning off", read |-> handler.read, view |-> handler.view]
             /\ TurningOff(handler.read, handler.view)
          \/ /\ handler.at = "selecting"
             /\ handler = [at |-> "selecting", read |-> handler.read, catalog |-> handler.catalog]
             /\ Selecting(handler.read, handler.catalog)

WriterInv ==
    \/ writer = NotBusy
    \/ /\ writer.at = "writing"
       /\ writer = [at |-> "writing", read |-> writer.read]
       /\ writer.read \in Catalogs /\ Valid(writer.read)

FormsInv ==
    /\ file \in Catalogs /\ Valid(file) /\ page \in Pages /\ llmTests \subseteq Tests
    /\ closures \in Seq([reload : BOOLEAN]) /\ agreed \subseteq Urls /\ worked \subseteq Urls
    /\ overwrote \in BOOLEAN /\ decisions \in 0..MaxDecisions /\ mishaps \in 0..MaxMishaps
    /\ HandlerInv /\ WriterInv

(* A consent in a file is for an address the user agreed to, or one of     *)
(* this machine; where it makes the model usable, a test succeeded too.    *)
Permitted == agreed \cup LocalAddresses
BuiltInAt(cat) ==
    \A i \in DOMAIN cat.llms : cat.llms[i].id = "builtin" => cat.llms[i].url = BuiltInUrl
Agreeable(cat, may, ok) ==
    \A i \in DOMAIN cat.llms :
        LET entry == cat.llms[i] IN
        /\ entry.consent # NoUrl => entry.consent \in may
        /\ entry.enabled /\ entry.consent = entry.url /\ entry.url # NoUrl => entry.url \in ok

(* A thread tests and saves only what the user agreed to; one that has yet *)
(* to read its provider will find an address the user agreed to.           *)
TestAgreed(cat, t, may, ok) ==
    IF t.at = "reading"
    THEN /\ t.provider = "builtin" => BuiltInUrl \in may
         /\ LlmIndex(cat, t.provider) # 0 => SavedUrl(cat, t.provider) \in may
    ELSE /\ t.url \in may /\ (t.provider = "builtin" => t.url = BuiltInUrl)
         /\ t.at = "saving" => t.url \in ok

Sound(cat, tests, may, ok) ==
    /\ Agreeable(cat, may, ok) /\ BuiltInAt(cat)
    /\ cat.llms # <<>> => cat.llm # "none"
    /\ \A t \in tests : TestAgreed(cat, t, may, ok)

AgreedInv == ~overwrote => Sound(file, llmTests, Permitted, worked)

ProvidersInv == FormsInv /\ AgreedInv

USE ProviderAssumption

-----------------------------------------------------------------------------
(* The first of a set of positions.                                        *)

\* A non-empty set of natural numbers has a least element.
LEMMA Smallest ==
    ASSUME NEW T, T \subseteq Nat, T # {}
    PROVE  \E m \in T : \A n \in T : m <= n
<1> DEFINE R == OpToRel(<, Nat)
<1>1. IsWellFoundedOn(R, Nat)
    BY NatLessThanWellFounded
<1>2. \A x, y \in Nat : x < y => <<x, y>> \in R
    BY DEF OpToRel
<1> HIDE DEF R
<1>3. \E x \in T : \A y \in T : ~(<<y, x>> \in R)
    BY <1>1, WFMin
<1>4. PICK m \in T : \A y \in T : ~(<<y, m>> \in R)
    BY <1>3
<1>5. \A n \in T : m <= n
    <2> TAKE n \in T
    <2>1. m \in Nat /\ n \in Nat
        OBVIOUS
    <2>2. ~(n < m)
        BY <1>2, <1>4, <2>1
    <2> QED
        BY <2>1, <2>2
<1> QED
    BY <1>5

\* First returns a member, the least one, or zero.
LEMMA FirstFound ==
    ASSUME NEW T, T \subseteq Nat, T # {}
    PROVE  First(T) \in T /\ \A n \in T : First(T) <= n
<1>1. \E m \in T : \A n \in T : m <= n
    BY Smallest
<1> QED
    BY <1>1 DEF First

LEMMA FirstIs ==
    ASSUME NEW T, T \subseteq Nat, NEW m \in T, \A n \in T : m <= n
    PROVE  First(T) = m
<1>1. First(T) \in T /\ First(T) <= m
    BY FirstFound
<1>2. m <= First(T) /\ m \in Nat /\ First(T) \in Nat
    BY <1>1
<1> HIDE DEF First
<1> QED
    BY <1>1, <1>2

\* A sequence with one element replaced.
LEMMA Replaced ==
    ASSUME NEW S, NEW s \in Seq(S), NEW i \in DOMAIN s, NEW x \in S
    PROVE  /\ [s EXCEPT ![i] = x] \in Seq(S)
           /\ DOMAIN [s EXCEPT ![i] = x] = DOMAIN s
           /\ [s EXCEPT ![i] = x][i] = x
           /\ \A j \in DOMAIN s : j # i => [s EXCEPT ![i] = x][j] = s[j]
<1>1. Len(s) \in Nat /\ s \in [1..Len(s) -> S] /\ DOMAIN s = 1..Len(s)
    OBVIOUS
<1>2. [s EXCEPT ![i] = x] \in [1..Len(s) -> S]
    BY <1>1
<1>3. [s EXCEPT ![i] = x] \in Seq(S)
    BY <1>1, <1>2
<1> QED
    BY <1>1, <1>2, <1>3

-----------------------------------------------------------------------------
(* Finding an instance.                                                    *)

LEMMA CatalogFields ==
    ASSUME NEW cat \in Catalogs
    PROVE  /\ cat.llms \in Seq(Instance) /\ cat.llm \in Ids
           /\ cat.asr \in CloudAsr \cup {"none", "local"} /\ cat.cloud \in SUBSET CloudAsr
           /\ Len(cat.llms) \in Nat /\ DOMAIN cat.llms = 1..Len(cat.llms)
           /\ \A i \in DOMAIN cat.llms : cat.llms[i] \in Instance
BY DEF Catalogs

LEMMA InstanceFields ==
    ASSUME NEW x \in Instance
    PROVE  /\ x.id \in Ids \ {"none"} /\ x.url \in Urls /\ x.ready \in BOOLEAN
           /\ x.enabled \in BOOLEAN /\ x.consent \in Urls
BY DEF Instance

LEMMA UrlFacts ==
    /\ BuiltInUrl \in Urls /\ NoUrl \in Urls /\ BuiltInUrl # NoUrl
    /\ \A url \in Addresses : url \in Urls /\ url # NoUrl
BY DEF Urls

\* The active instance is the one with the identity the catalog names.
LEMMA ActiveFacts ==
    ASSUME NEW cat \in Catalogs
    PROVE  /\ ActiveIndex(cat) \in Nat
           /\ ActiveIndex(cat) # 0 =>
                 ActiveIndex(cat) \in DOMAIN cat.llms
                 /\ cat.llms[ActiveIndex(cat)].id = cat.llm
           /\ ActiveIndex(cat) = 0 =>
                 \A i \in DOMAIN cat.llms : cat.llms[i].id # cat.llm
<1> DEFINE T == {i \in DOMAIN cat.llms : cat.llms[i].id = cat.llm}
<1>1. T \subseteq Nat /\ 0 \notin T /\ ActiveIndex(cat) = First(T)
    BY CatalogFields DEF ActiveIndex
<1>2. CASE T = {}
    <2>1. First(T) = 0
        BY <1>2 DEF First
    <2> QED
        BY <1>1, <1>2, <2>1
<1>3. CASE T # {}
    <2>1. First(T) \in T
        BY <1>1, <1>3, FirstFound
    <2> QED
        BY <1>1, <2>1
<1> QED
    BY <1>2, <1>3

\* What passes for the provider a preset stands for.
Exact(cat, preset) ==
    {i \in DOMAIN cat.llms : \/ cat.llms[i].id = preset
                             \/ preset = "builtin" /\ cat.llms[i].url = BuiltInUrl}

LEMMA IndexFacts ==
    ASSUME NEW cat \in Catalogs, NEW preset \in Presets
    PROVE  /\ LlmIndex(cat, preset) \in Nat
           /\ LlmIndex(cat, preset) # 0 => LlmIndex(cat, preset) \in DOMAIN cat.llms
           /\ Exact(cat, preset) # {} =>
                 /\ LlmIndex(cat, preset) \in Exact(cat, preset)
                 /\ \A j \in Exact(cat, preset) : LlmIndex(cat, preset) <= j
           /\ Exact(cat, preset) = {} /\ preset = "builtin" => LlmIndex(cat, preset) = 0
           /\ Exact(cat, preset) = {} /\ preset # "builtin" =>
                 LlmIndex(cat, preset) =
                     IF ActiveIndex(cat) # 0 /\ cat.llms[ActiveIndex(cat)].url # BuiltInUrl
                     THEN ActiveIndex(cat) ELSE 0
<1> DEFINE T == Exact(cat, preset)
<1>1. T \subseteq Nat /\ 0 \notin T /\ T \subseteq DOMAIN cat.llms
    BY CatalogFields DEF Exact
<1>2. LlmIndex(cat, preset) =
          IF First(T) # 0 \/ preset = "builtin" THEN First(T)
          ELSE IF ActiveIndex(cat) # 0 /\ cat.llms[ActiveIndex(cat)].url # BuiltInUrl
               THEN ActiveIndex(cat) ELSE 0
    BY DEF LlmIndex, Exact
<1> HIDE DEF T
<1>3. CASE T = {}
    <2>1. First(T) = 0
        BY <1>3 DEF First
    <2> QED
        BY <1>2, <1>3, <2>1, ActiveFacts DEF T
<1>4. CASE T # {}
    <2>1. First(T) \in T /\ \A n \in T : First(T) <= n
        BY <1>1, <1>4, FirstFound
    <2>2. LlmIndex(cat, preset) = First(T)
        BY <1>1, <1>2, <2>1
    <2> QED
        BY <1>1, <1>4, <2>1, <2>2 DEF T
<1> QED
    BY <1>3, <1>4

LEMMA SavedFacts ==
    ASSUME NEW cat \in Catalogs, NEW preset \in Presets
    PROVE  SavedUrl(cat, preset) \in Urls /\ SavedReady(cat, preset) \in BOOLEAN
<1>1. LlmIndex(cat, preset) # 0 => cat.llms[LlmIndex(cat, preset)].url \in Urls
    BY IndexFacts, CatalogFields, InstanceFields
<1> QED
    BY <1>1, UrlFacts DEF SavedUrl, SavedReady

LEMMA ShownFacts == ASSUME NEW cat PROVE ShownPreset(cat) \in Presets
BY DEF ShownPreset, Presets

\* The instance a view of the catalog shows.
ShownIndex(cat) ==
    IF ActiveIndex(cat) # 0 THEN ActiveIndex(cat) ELSE IF cat.llms = <<>> THEN 0 ELSE 1

LEMMA ShownIndexFacts ==
    ASSUME NEW cat \in Catalogs
    PROVE  /\ ShownIndex(cat) \in Nat
           /\ ShownIndex(cat) # 0 =>
                 ShownIndex(cat) \in DOMAIN cat.llms /\ cat.llms[ShownIndex(cat)] \in Instance
           /\ ShownIndex(cat) = 0 => cat.llms = <<>>
BY ActiveFacts, CatalogFields DEF ShownIndex

LEMMA ViewIs ==
    ASSUME NEW cat \in Catalogs
    PROVE  /\ View(cat) \in Views
           /\ View(cat).cloud = cat.cloud
           /\ View(cat).url = IF ShownIndex(cat) = 0 THEN NoUrl
                              ELSE cat.llms[ShownIndex(cat)].url
           /\ View(cat).confirmed # NoUrl =>
                 /\ ShownIndex(cat) # 0
                 /\ View(cat).confirmed = cat.llms[ShownIndex(cat)].url
                 /\ View(cat).confirmed = cat.llms[ShownIndex(cat)].consent
           /\ View(cat).enabled =>
                 /\ ShownIndex(cat) # 0
                 /\ cat.llms[ShownIndex(cat)].enabled
                 /\ cat.llms[ShownIndex(cat)].consent = cat.llms[ShownIndex(cat)].url
                 /\ cat.llms[ShownIndex(cat)].consent # NoUrl
<1> DEFINE i == ShownIndex(cat)
<1>1. View(cat) =
        [cloud |-> cat.cloud,
         asr |-> IF cat.asr \in CloudAsr THEN cat.asr ELSE "none",
         url |-> IF i = 0 THEN NoUrl ELSE cat.llms[i].url,
         ready |-> i # 0 /\ cat.llms[i].ready,
         confirmed |-> IF i # 0 /\ cat.llms[i].consent = cat.llms[i].url
                       THEN cat.llms[i].url ELSE NoUrl,
         enabled |-> ActiveIndex(cat) # 0 /\ cat.llms[i].enabled
                     /\ cat.llms[i].consent = cat.llms[i].url
                     /\ cat.llms[i].consent # NoUrl]
    BY DEF View, ShownIndex
<1>2. ActiveIndex(cat) # 0 => i # 0
    BY DEF ShownIndex
<1>3. i # 0 => cat.llms[i] \in Instance
    BY ShownIndexFacts
<1>4. i # 0 => cat.llms[i].url \in Urls /\ cat.llms[i].ready \in BOOLEAN
               /\ cat.llms[i].enabled \in BOOLEAN
    BY <1>3, InstanceFields
<1> HIDE DEF i
<1>5. View(cat) \in Views
    BY <1>1, <1>2, <1>4, CatalogFields, UrlFacts DEF Views
<1>6. /\ View(cat).cloud = cat.cloud
      /\ View(cat).url = IF i = 0 THEN NoUrl ELSE cat.llms[i].url
    BY <1>1
<1>7. View(cat).confirmed = IF i # 0 /\ cat.llms[i].consent = cat.llms[i].url
                            THEN cat.llms[i].url ELSE NoUrl
    BY <1>1
<1>8. View(cat).enabled = (ActiveIndex(cat) # 0 /\ cat.llms[i].enabled
                           /\ cat.llms[i].consent = cat.llms[i].url
                           /\ cat.llms[i].consent # NoUrl)
    BY <1>1
<1> QED
    BY <1>2, <1>5, <1>6, <1>7, <1>8 DEF i

-----------------------------------------------------------------------------
(* The changes of a catalog.                                               *)

\* Where a change of a provider goes: its instance, or a new one at the end.
Place(cat, preset) ==
    IF LlmIndex(cat, preset) = 0 THEN Len(cat.llms) + 1 ELSE LlmIndex(cat, preset)

LEMMA PlaceFacts ==
    ASSUME NEW cat \in Catalogs, NEW preset \in Presets
    PROVE  /\ Place(cat, preset) \in Nat \ {0}
           /\ \A j \in DOMAIN cat.llms :
                 j # Place(cat, preset) /\ preset = "builtin" /\ j \in Exact(cat, preset) =>
                    Place(cat, preset) <= j
<1> DEFINE k == Place(cat, preset)
<1>1. LlmIndex(cat, preset) \in Nat /\ Len(cat.llms) \in Nat
    BY IndexFacts, CatalogFields
<1>2. k \in Nat \ {0}
    BY <1>1 DEF Place
<1>3. ASSUME NEW j \in Exact(cat, preset)
      PROVE  k <= j
    <2>1. LlmIndex(cat, preset) \in Exact(cat, preset) /\ LlmIndex(cat, preset) <= j
        BY IndexFacts
    <2>2. LlmIndex(cat, preset) # 0
        BY <2>1, CatalogFields DEF Exact
    <2> QED
        BY <2>1, <2>2 DEF Place
<1> QED
    BY <1>2, <1>3

\* save_llm_provider_settings changes that instance alone.
WrittenAt(cat, saved, preset, url, k) ==
    /\ saved \in Catalogs /\ k \in DOMAIN saved.llms
    /\ saved.llms[k].id = preset /\ saved.llms[k].url = url
    /\ DOMAIN cat.llms \subseteq DOMAIN saved.llms
    /\ DOMAIN saved.llms \subseteq DOMAIN cat.llms \cup {k}
    /\ \A j \in DOMAIN cat.llms : j # k => saved.llms[j] = cat.llms[j]

LEMMA SaveLlmIs ==
    ASSUME NEW cat \in Catalogs, NEW preset \in Presets, NEW url \in Urls
    PROVE  WrittenAt(cat, SaveLlm(cat, preset, url), preset, url, Place(cat, preset))
<1> DEFINE saved == SaveLlm(cat, preset, url)
           k == Place(cat, preset)
<1> DEFINE i == LlmIndex(cat, preset)
           fresh == [id |-> preset, url |-> url, ready |-> TRUE, enabled |-> TRUE,
                     consent |-> NoUrl]
           consented == IF cat.llms[i].url = url THEN cat.llms[i].consent ELSE NoUrl
           with == [fresh EXCEPT !.consent = consented]
<1>1. fresh \in Instance /\ fresh.id = preset /\ fresh.url = url
      /\ fresh.ready = TRUE /\ fresh.enabled = TRUE
    BY UrlFacts DEF Instance, Presets, Ids
<1>2. CASE i = 0
    <2>1. saved = [cat EXCEPT !.llms = Append(@, fresh)]
        BY <1>2 DEF SaveLlm
    <2>2. k = Len(cat.llms) + 1
        BY <1>2 DEF Place
    <2> HIDE DEF fresh
    <2>3. /\ Append(cat.llms, fresh) \in Seq(Instance)
          /\ Len(Append(cat.llms, fresh)) = Len(cat.llms) + 1
          /\ Append(cat.llms, fresh)[Len(cat.llms) + 1] = fresh
          /\ \A j \in 1..Len(cat.llms) : Append(cat.llms, fresh)[j] = cat.llms[j]
        BY <1>1, CatalogFields
    <2>4. saved \in Catalogs /\ saved.llms = Append(cat.llms, fresh)
        BY <2>1, <2>3 DEF Catalogs
    <2>5. DOMAIN saved.llms = 1..(Len(cat.llms) + 1) /\ DOMAIN cat.llms = 1..Len(cat.llms)
          /\ Len(cat.llms) \in Nat
        BY <2>3, <2>4, CatalogFields
    <2>6. /\ k \in DOMAIN saved.llms /\ DOMAIN cat.llms \subseteq DOMAIN saved.llms
          /\ DOMAIN saved.llms \subseteq DOMAIN cat.llms \cup {k}
        BY <2>2, <2>5
    <2>7. saved.llms[k] = fresh
        BY <2>2, <2>3, <2>4
    <2>8. \A j \in DOMAIN cat.llms : saved.llms[j] = cat.llms[j]
        BY <2>3, <2>4, <2>5
    <2> HIDE DEF k, saved
    <2>9. WrittenAt(cat, saved, preset, url, k)
        BY <1>1, <2>4, <2>6, <2>7, <2>8 DEF WrittenAt
    <2> QED
        BY <2>9 DEF saved, k
<1>3. CASE i # 0
    <2>1. saved = [cat EXCEPT !.llms[i] = with,
                              !.llm = IF @ = cat.llms[i].id THEN preset ELSE @]
        BY <1>3 DEF SaveLlm
    <2>2. k = i /\ i \in DOMAIN cat.llms
        BY <1>3, IndexFacts DEF Place
    <2>3. consented \in Urls
        BY <2>2, CatalogFields, InstanceFields, UrlFacts
    <2>4. with \in Instance /\ with.id = preset /\ with.url = url
          /\ with.ready = TRUE /\ with.enabled = TRUE
        <3> HIDE DEF consented
        <3> QED
            BY <1>1, <2>3 DEF Instance
    <2> HIDE DEF with, fresh, consented, i
    <2>5. /\ [cat.llms EXCEPT ![i] = with] \in Seq(Instance)
          /\ DOMAIN [cat.llms EXCEPT ![i] = with] = DOMAIN cat.llms
          /\ [cat.llms EXCEPT ![i] = with][i] = with
          /\ \A j \in DOMAIN cat.llms :
                j # i => [cat.llms EXCEPT ![i] = with][j] = cat.llms[j]
        BY <2>2, <2>4, CatalogFields, Replaced
    <2>6. saved.llms = [cat.llms EXCEPT ![i] = with]
        BY <2>1 DEF Catalogs
    <2>7. preset \in Ids
        BY DEF Presets, Ids
    <2>8. saved \in Catalogs
        BY <2>1, <2>5, <2>7 DEF Catalogs
    <2> HIDE DEF k, saved
    <2>9. WrittenAt(cat, saved, preset, url, k)
        BY <2>2, <2>4, <2>5, <2>6, <2>8 DEF WrittenAt
    <2> QED
        BY <2>9 DEF saved, k
<1> QED
    BY <1>2, <1>3

\* Afterwards the provider is found where the change went.
LEMMA SavedPlace ==
    ASSUME NEW cat \in Catalogs, Valid(cat), NEW preset \in Presets, NEW url \in Urls,
           preset = "builtin" => url = BuiltInUrl,
           NEW saved, saved = SaveLlm(cat, preset, url),
           NEW k, k = Place(cat, preset)
    PROVE  LlmIndex(saved, preset) = k
<1>1. /\ saved \in Catalogs /\ k \in DOMAIN saved.llms
      /\ saved.llms[k].id = preset
      /\ DOMAIN saved.llms \subseteq DOMAIN cat.llms \cup {k}
      /\ \A j \in DOMAIN cat.llms : j # k => saved.llms[j] = cat.llms[j]
    <2>1. WrittenAt(cat, saved, preset, url, k)
        BY SaveLlmIs
    <2> QED
        BY <2>1 DEF WrittenAt
<1>2. k \in Exact(saved, preset)
    BY <1>1 DEF Exact
<1>3. \A j \in Exact(saved, preset) : j # k => j \in Exact(cat, preset) /\ j \in DOMAIN cat.llms
    BY <1>1 DEF Exact
<1>4. k \in Nat /\ Exact(saved, preset) \subseteq Nat
    BY <1>1, CatalogFields DEF Exact
<1>5. LlmIndex(saved, preset) \in Exact(saved, preset)
      /\ \A j \in Exact(saved, preset) : LlmIndex(saved, preset) <= j
    BY <1>1, <1>2, IndexFacts
<1>6. LlmIndex(saved, preset) # k => FALSE
    <2> SUFFICES ASSUME LlmIndex(saved, preset) # k
                 PROVE  FALSE
        OBVIOUS
    <2> DEFINE j == LlmIndex(saved, preset)
    <2>1. j \in Exact(cat, preset) /\ j \in DOMAIN cat.llms /\ j <= k
        BY <1>2, <1>3, <1>5
    <2>2. CASE preset = "builtin"
        <3>1. k <= j
            BY <2>1, <2>2, PlaceFacts
        <3> QED
            BY <1>4, <1>5, <2>1, <3>1
    <2>3. CASE preset # "builtin"
        <3>1. cat.llms[j].id = preset
            BY <2>1, <2>3 DEF Exact
        <3>2. LlmIndex(cat, preset) \in Exact(cat, preset)
            BY <2>1, IndexFacts
        <3>3. LlmIndex(cat, preset) \in DOMAIN cat.llms
              /\ cat.llms[LlmIndex(cat, preset)].id = preset
            BY <2>3, <3>2 DEF Exact
        <3>4. LlmIndex(cat, preset) = j
            BY <2>1, <3>1, <3>3 DEF Valid
        <3>5. LlmIndex(cat, preset) # 0
            BY <3>3, CatalogFields
        <3> QED
            BY <3>4, <3>5 DEF Place
    <2> QED
        BY <2>2, <2>3
<1> QED
    BY <1>6

\* select_llm_provider makes the provider's instance the active one.
LEMMA SelectLlmIs ==
    ASSUME NEW cat \in Catalogs, NEW preset \in Presets, LlmIndex(cat, preset) # 0
    PROVE  /\ SelectLlm(cat, preset) \in Catalogs
           /\ SelectLlm(cat, preset).llms = cat.llms
           /\ SelectLlm(cat, preset).llm = cat.llms[LlmIndex(cat, preset)].id
           /\ SelectLlm(cat, preset).llm # "none"
<1>1. cat.llms[LlmIndex(cat, preset)].id \in Ids \ {"none"}
    BY IndexFacts, CatalogFields, InstanceFields
<1>2. SelectLlm(cat, preset) = [cat EXCEPT !.llm = cat.llms[LlmIndex(cat, preset)].id]
    BY DEF SelectLlm
<1> QED
    BY <1>1, <1>2 DEF Catalogs

(* save_and_enable_llm_configuration: the provider has the address, enabled *)
(* and with the consent for it, and is the active one; nothing else changes.*)
LEMMA EnableLlmIs ==
    ASSUME NEW cat \in Catalogs, Valid(cat), NEW preset \in Presets, NEW url \in Urls,
           NEW address, address = IF preset = "builtin" THEN BuiltInUrl ELSE url
    PROVE  /\ WrittenAt(cat, EnableLlm(cat, preset, url), preset, address, Place(cat, preset))
           /\ EnableLlm(cat, preset, url).llm = preset
           /\ EnableLlm(cat, preset, url).llms[Place(cat, preset)].consent = url
<1> SUFFICES ASSUME NEW after, after = EnableLlm(cat, preset, url),
                    NEW k, k = Place(cat, preset)
             PROVE  /\ WrittenAt(cat, after, preset, address, k)
                    /\ after.llm = preset /\ after.llms[k].consent = url
    OBVIOUS
<1>0. address \in Urls /\ (preset = "builtin" => address = BuiltInUrl)
    BY UrlFacts
<1> DEFINE saved == SaveLlm(cat, preset, address)
           chosen == SelectLlm(saved, preset)
<1>1. /\ saved \in Catalogs /\ k \in DOMAIN saved.llms
      /\ saved.llms[k].id = preset /\ saved.llms[k].url = address
      /\ DOMAIN cat.llms \subseteq DOMAIN saved.llms
      /\ DOMAIN saved.llms \subseteq DOMAIN cat.llms \cup {k}
      /\ \A j \in DOMAIN cat.llms : j # k => saved.llms[j] = cat.llms[j]
    <2>1. WrittenAt(cat, saved, preset, address, k)
        BY <1>0, SaveLlmIs
    <2> HIDE DEF saved
    <2> QED
        BY <2>1 DEF WrittenAt
<1>2. LlmIndex(saved, preset) = k
    BY <1>0, SavedPlace
<1>3. k \in Nat \ {0}
    BY PlaceFacts
<1> HIDE DEF saved
<1>4. chosen \in Catalogs /\ chosen.llms = saved.llms /\ chosen.llm = preset
    BY <1>1, <1>2, <1>3, SelectLlmIs
<1> HIDE DEF chosen
<1>5. ActiveIndex(chosen) = k
    <2> DEFINE T == {i \in DOMAIN chosen.llms : chosen.llms[i].id = chosen.llm}
    <2>1. ActiveIndex(chosen) = First(T)
        BY DEF ActiveIndex
    <2>2. k \in T /\ T \subseteq Nat
        BY <1>1, <1>4, CatalogFields
    <2>3. \A n \in T : k <= n
        <3>1. T \subseteq Exact(saved, preset)
            BY <1>4 DEF Exact
        <3>2. \A n \in Exact(saved, preset) : LlmIndex(saved, preset) <= n
            BY <1>1, <3>1, <2>2, IndexFacts
        <3> QED
            BY <1>2, <3>1, <3>2
    <2> HIDE DEF T
    <2> QED
        BY <2>1, <2>2, <2>3, FirstIs
<1>6. after = [chosen EXCEPT !.llms[k].enabled = TRUE, !.llms[k].consent = url]
    BY <1>5 DEF EnableLlm, saved, chosen
<1> DEFINE enabled1 == [chosen.llms[k] EXCEPT !.enabled = TRUE]
           entry == [enabled1 EXCEPT !.consent = url]
           llms1 == [chosen.llms EXCEPT ![k] = enabled1]
           chosen1 == [chosen EXCEPT !.llms = llms1]
<1>7. k \in DOMAIN chosen.llms /\ chosen.llms \in Seq(Instance) /\ chosen.llms[k] \in Instance
    BY <1>1, <1>4, CatalogFields
<1>8. /\ entry \in Instance /\ entry.id = chosen.llms[k].id
      /\ entry.url = chosen.llms[k].url /\ entry.consent = url
    BY <1>7 DEF Instance
<1>13. enabled1 \in Instance
    BY <1>7 DEF Instance
<1>14. after = [chosen1 EXCEPT !.llms[k].consent = url]
    BY <1>6
<1> HIDE DEF entry, enabled1
<1>15. /\ llms1 \in Seq(Instance) /\ DOMAIN llms1 = DOMAIN chosen.llms
       /\ llms1[k] = enabled1
       /\ \A j \in DOMAIN chosen.llms : j # k => llms1[j] = chosen.llms[j]
    BY <1>7, <1>13, Replaced
<1> HIDE DEF llms1
<1>16. chosen1 \in Catalogs /\ chosen1.llms = llms1 /\ chosen1.llm = chosen.llm
    BY <1>4, <1>15 DEF Catalogs
<1> HIDE DEF chosen1
<1>9. after.llms = [llms1 EXCEPT ![k] = entry]
    BY <1>14, <1>15, <1>16 DEF Catalogs, entry
<1>10. after = [chosen1 EXCEPT !.llms = [llms1 EXCEPT ![k] = entry]]
    BY <1>14, <1>15, <1>16 DEF Catalogs, entry
<1>11. /\ [llms1 EXCEPT ![k] = entry] \in Seq(Instance)
       /\ DOMAIN [llms1 EXCEPT ![k] = entry] = DOMAIN chosen.llms
       /\ [llms1 EXCEPT ![k] = entry][k] = entry
       /\ \A j \in DOMAIN chosen.llms :
             j # k => [llms1 EXCEPT ![k] = entry][j] = chosen.llms[j]
    BY <1>7, <1>8, <1>15, Replaced
<1>12. after \in Catalogs /\ after.llm = chosen.llm
    BY <1>10, <1>11, <1>16 DEF Catalogs
<1> QED
    BY <1>1, <1>4, <1>8, <1>9, <1>11, <1>12 DEF WrittenAt

\* What writing a view back does to the catalog it was merged of.
LEMMA MergeAsrType ==
    ASSUME NEW cat \in Catalogs, NEW view \in Views
    PROVE  MergeAsr(cat, view) \in CloudAsr \cup {"none", "local"}
<1>1. view.asr \in CloudAsr \cup {"none"} /\ view.cloud \subseteq CloudAsr
    BY DEF Views
<1> QED
    BY <1>1 DEF MergeAsr

WrittenAs(view, id) ==
    [id |-> id, url |-> view.url, ready |-> view.ready, enabled |-> view.enabled,
     consent |-> IF view.confirmed = view.url THEN view.url ELSE NoUrl]

LEMMA MergeLlmIs ==
    ASSUME NEW cat \in Catalogs, NEW view \in Views
    PROVE  /\ MergeLlm(cat, view) \in Catalogs
           /\ ShownIndex(cat) = 0 /\ view.url = NoUrl =>
                 MergeLlm(cat, view).llms = <<>>
           /\ ShownIndex(cat) # 0 =>
                 /\ MergeLlm(cat, view).llm = cat.llms[ShownIndex(cat)].id
                 /\ DOMAIN MergeLlm(cat, view).llms = DOMAIN cat.llms
                 /\ MergeLlm(cat, view).llms[ShownIndex(cat)]
                       = WrittenAs(view, cat.llms[ShownIndex(cat)].id)
                 /\ \A j \in DOMAIN cat.llms : j # ShownIndex(cat) =>
                       MergeLlm(cat, view).llms[j] = cat.llms[j]
<1> DEFINE i == ShownIndex(cat)
           merged == MergeLlm(cat, view)
<1>1. merged = IF i = 0 /\ view.url = NoUrl THEN [cat EXCEPT !.llm = "none"]
             ELSE IF i = 0
             THEN [cat EXCEPT !.llms = <<WrittenAs(view, "legacy")>>, !.llm = "legacy"]
             ELSE [cat EXCEPT !.llms[i] = WrittenAs(view, @.id), !.llm = cat.llms[i].id]
    BY DEF MergeLlm, ShownIndex, WrittenAs
<1>2. \A id \in Ids \ {"none"} : WrittenAs(view, id) \in Instance
    BY UrlFacts DEF WrittenAs, Instance, Views
<1>3. "none" \in Ids /\ "legacy" \in Ids /\ "legacy" # "none"
    BY DEF Ids, Presets
<1>4. CASE i = 0 /\ view.url = NoUrl
    <2>1. merged = [cat EXCEPT !.llm = "none"]
        BY <1>1, <1>4
    <2>2. merged \in Catalogs /\ merged.llms = cat.llms /\ cat.llms = <<>>
        BY <1>3, <1>4, <2>1, ShownIndexFacts DEF Catalogs
    <2> QED
        BY <1>4, <2>2
<1>5. CASE i = 0 /\ view.url # NoUrl
    <2>1. merged = [cat EXCEPT !.llms = <<WrittenAs(view, "legacy")>>, !.llm = "legacy"]
        BY <1>1, <1>5
    <2>2. <<WrittenAs(view, "legacy")>> \in Seq(Instance)
        <3>1. WrittenAs(view, "legacy") \in Instance
            BY <1>2, <1>3
        <3> QED
            BY <3>1
    <2>3. merged \in Catalogs
        BY <1>3, <2>1, <2>2 DEF Catalogs
    <2> QED
        BY <1>5, <2>3
<1>6. CASE i # 0
    <2> DEFINE one == WrittenAs(view, cat.llms[i].id)
               llms2 == [cat.llms EXCEPT ![i] = one]
    <2>1. i \in DOMAIN cat.llms /\ cat.llms[i] \in Instance /\ cat.llms \in Seq(Instance)
        BY <1>6, ShownIndexFacts, CatalogFields
    <2>2. cat.llms[i].id \in Ids \ {"none"}
        BY <2>1, InstanceFields
    <2>3. merged = [cat EXCEPT !.llms[i] = WrittenAs(view, @.id), !.llm = cat.llms[i].id]
        BY <1>1, <1>6
    <2> HIDE DEF merged, i
    <2>4. merged = [cat EXCEPT !.llms = llms2, !.llm = cat.llms[i].id]
        BY <2>1, <2>3 DEF Catalogs
    <2>5. one \in Instance
        BY <1>2, <2>2
    <2> HIDE DEF one
    <2>6. /\ llms2 \in Seq(Instance) /\ DOMAIN llms2 = DOMAIN cat.llms /\ llms2[i] = one
          /\ \A j \in DOMAIN cat.llms : j # i => llms2[j] = cat.llms[j]
        BY <2>1, <2>5, Replaced
    <2> HIDE DEF llms2
    <2>7. merged \in Catalogs /\ merged.llms = llms2 /\ merged.llm = cat.llms[i].id
        BY <2>2, <2>4, <2>6 DEF Catalogs
    <2> QED
        BY <1>6, <2>6, <2>7 DEF one, merged, i
<1> QED
    BY <1>4, <1>5, <1>6

LEMMA MergeIs ==
    ASSUME NEW cat \in Catalogs, NEW view \in Views
    PROVE  /\ Merge(cat, view) \in Catalogs
           /\ Merge(cat, view).llms = MergeLlm(cat, view).llms
           /\ Merge(cat, view).llm = MergeLlm(cat, view).llm
<1> DEFINE merged == MergeLlm(cat, view)
<1>1. merged \in Catalogs
    BY MergeLlmIs
<1>2. MergeAsr(cat, view) \in CloudAsr \cup {"none", "local"}
    BY MergeAsrType
<1>3. view.cloud \in SUBSET CloudAsr
    BY DEF Views
<1>4. Merge(cat, view) = [merged EXCEPT !.asr = MergeAsr(cat, view), !.cloud = @ \cup view.cloud]
    BY DEF Merge
<1> HIDE DEF merged
<1>5. /\ Merge(cat, view) \in Catalogs
      /\ Merge(cat, view).llms = merged.llms /\ Merge(cat, view).llm = merged.llm
    BY <1>1, <1>2, <1>3, <1>4 DEF Catalogs
<1> QED
    BY <1>5 DEF merged

(* A change that leaves every provider, its address and the choice of the  *)
(* active one as they are finds them where they were.                      *)
SameProviders(cat, other) ==
    /\ DOMAIN other.llms = DOMAIN cat.llms
    /\ \A j \in DOMAIN cat.llms : /\ other.llms[j].id = cat.llms[j].id
                                  /\ other.llms[j].url = cat.llms[j].url
    /\ other.llm = cat.llm

LEMMA SameFound ==
    ASSUME NEW cat, NEW other, SameProviders(cat, other), cat \in Catalogs, NEW preset \in Presets
    PROVE  /\ LlmIndex(other, preset) = LlmIndex(cat, preset)
           /\ SavedUrl(other, preset) = SavedUrl(cat, preset)
<1>1. Exact(other, preset) = Exact(cat, preset)
    BY DEF Exact, SameProviders
<1>2. ActiveIndex(other) = ActiveIndex(cat)
    <2>1. {i \in DOMAIN other.llms : other.llms[i].id = other.llm}
          = {i \in DOMAIN cat.llms : cat.llms[i].id = cat.llm}
        BY DEF SameProviders
    <2> QED
        BY <2>1 DEF ActiveIndex
<1>3. ActiveIndex(cat) # 0 =>
          other.llms[ActiveIndex(cat)].url = cat.llms[ActiveIndex(cat)].url
    BY ActiveFacts DEF SameProviders
<1>4. LlmIndex(other, preset) = LlmIndex(cat, preset)
    <2>1. \A x : LlmIndex(x, preset) =
            IF First(Exact(x, preset)) # 0 \/ preset = "builtin" THEN First(Exact(x, preset))
            ELSE IF ActiveIndex(x) # 0 /\ x.llms[ActiveIndex(x)].url # BuiltInUrl
                 THEN ActiveIndex(x) ELSE 0
        BY DEF LlmIndex, Exact
    <2> QED
        BY <1>1, <1>2, <1>3, <2>1
<1>5. LlmIndex(cat, preset) # 0 =>
          other.llms[LlmIndex(cat, preset)].url = cat.llms[LlmIndex(cat, preset)].url
    BY IndexFacts DEF SameProviders
<1> QED
    BY <1>4, <1>5 DEF SavedUrl

\* The address of the built-in provider, with an instance or without.
LEMMA BuiltInFixed ==
    ASSUME NEW cat \in Catalogs, BuiltInAt(cat)
    PROVE  SavedUrl(cat, "builtin") = BuiltInUrl
<1>1. "builtin" \in Presets
    BY DEF Presets
<1>2. LlmIndex(cat, "builtin") # 0 => LlmIndex(cat, "builtin") \in Exact(cat, "builtin")
    BY <1>1, IndexFacts
<1>3. \A i \in Exact(cat, "builtin") : cat.llms[i].url = BuiltInUrl
    BY DEF Exact, BuiltInAt
<1> QED
    BY <1>2, <1>3 DEF SavedUrl

LEMMA SelectKeepsUrl ==
    ASSUME NEW cat \in Catalogs, Valid(cat), BuiltInAt(cat), NEW preset \in Presets,
           LlmIndex(cat, preset) # 0,
           LlmIndex(SelectLlm(cat, preset), "custom") # 0
    PROVE  /\ LlmIndex(cat, "custom") # 0
           /\ SavedUrl(SelectLlm(cat, preset), "custom") = SavedUrl(cat, "custom")
<1> DEFINE sel == SelectLlm(cat, preset)
           p == LlmIndex(cat, preset)
           x == LlmIndex(sel, "custom")
<1>1. /\ sel \in Catalogs /\ sel.llms = cat.llms /\ sel.llm = cat.llms[p].id
      /\ p \in DOMAIN cat.llms /\ "custom" \in Presets /\ "custom" # "builtin"
    BY SelectLlmIs, IndexFacts DEF Presets
<1>2. Exact(sel, "custom") = Exact(cat, "custom")
    BY <1>1 DEF Exact
<1> HIDE DEF sel
<1>3. x \in DOMAIN cat.llms
    BY <1>1, IndexFacts DEF sel
<1>4. CASE Exact(cat, "custom") # {}
    <2>1. x \in Exact(cat, "custom") /\ LlmIndex(cat, "custom") \in Exact(cat, "custom")
        BY <1>1, <1>2, <1>4, IndexFacts
    <2>2. x = LlmIndex(cat, "custom")
        BY <2>1, <1>1 DEF Exact, Valid
    <2>3. x # 0
        BY DEF sel
    <2> QED
        BY <1>1, <2>2, <2>3 DEF SavedUrl, sel
<1>5. CASE Exact(cat, "custom") = {}
    <2>1. x = ActiveIndex(sel) /\ x # 0 /\ sel.llms[x].url # BuiltInUrl
        <3>1. x # 0
            BY DEF sel
        <3> QED
            BY <1>1, <1>2, <1>5, <3>1, IndexFacts
    <2>2. cat.llms[x].id = cat.llms[p].id
        BY <1>1, <2>1, ActiveFacts
    <2>3. x = p
        BY <1>1, <1>3, <2>2 DEF Valid
    <2>4. CASE preset = "builtin"
        <3>1. p \in Exact(cat, "builtin")
            BY <2>4, IndexFacts
        <3>2. cat.llms[p].url = BuiltInUrl
            BY <3>1 DEF Exact, BuiltInAt
        <3> QED
            BY <1>1, <2>1, <2>3, <3>2
    <2>5. CASE preset = "custom"
        <3> QED
            BY <1>1, <2>1, <2>3, <2>5 DEF SavedUrl, sel
    <2> QED
        BY <2>4, <2>5 DEF Presets
<1> QED
    BY <1>4, <1>5

LEMMA EnableKeepsUrl ==
    ASSUME NEW cat \in Catalogs, Valid(cat), NEW preset \in Presets, NEW url \in Urls,
           preset = "builtin" => url = BuiltInUrl,
           NEW after, after = EnableLlm(cat, preset, url), Valid(after),
           LlmIndex(after, "custom") # 0
    PROVE  \/ SavedUrl(after, "custom") = url
           \/ /\ LlmIndex(cat, "custom") # 0
              /\ SavedUrl(after, "custom") = SavedUrl(cat, "custom")
<1> DEFINE k == Place(cat, preset)
           x == LlmIndex(after, "custom")
<1>1. WrittenAt(cat, after, preset, url, k) /\ after.llm = preset
    BY EnableLlmIs
<1> HIDE DEF k
<1>2. /\ after \in Catalogs /\ k \in DOMAIN after.llms
      /\ after.llms[k].id = preset /\ after.llms[k].url = url
      /\ DOMAIN after.llms \subseteq DOMAIN cat.llms \cup {k}
      /\ \A j \in DOMAIN cat.llms : j # k => after.llms[j] = cat.llms[j]
    BY <1>1 DEF WrittenAt
<1>3. x \in DOMAIN after.llms /\ "custom" \in Presets /\ "custom" # "builtin"
    BY <1>2, IndexFacts DEF Presets
<1>4. SavedUrl(after, "custom") = after.llms[x].url
    BY DEF SavedUrl
<1>5. CASE x = k
    BY <1>2, <1>4, <1>5
<1>6. CASE x # k /\ Exact(after, "custom") # {}
    <2>1. x \in Exact(after, "custom")
        BY <1>2, <1>3, <1>6, IndexFacts
    <2>2. x \in DOMAIN cat.llms /\ after.llms[x] = cat.llms[x]
        BY <1>2, <1>3, <1>6
    <2>3. x \in Exact(cat, "custom") /\ cat.llms[x].id = "custom"
        BY <1>3, <2>1, <2>2 DEF Exact
    <2>4. LlmIndex(cat, "custom") \in Exact(cat, "custom")
        BY <1>3, <2>3, IndexFacts
    <2>5. LlmIndex(cat, "custom") \in DOMAIN cat.llms
          /\ cat.llms[LlmIndex(cat, "custom")].id = "custom"
        BY <1>3, <2>4 DEF Exact
    <2>6. LlmIndex(cat, "custom") = x
        BY <2>2, <2>3, <2>5 DEF Valid
    <2> QED
        BY <1>4, <2>2, <2>6 DEF SavedUrl
<1>7. CASE x # k /\ Exact(after, "custom") = {}
    <2>1. x = ActiveIndex(after)
        BY <1>2, <1>3, <1>7, IndexFacts
    <2>2. after.llms[x].id = after.llms[k].id
        BY <1>1, <1>2, <2>1, ActiveFacts
    <2> QED
        BY <1>2, <1>3, <1>7, <2>2 DEF Valid
<1> QED
    BY <1>5, <1>6, <1>7

-----------------------------------------------------------------------------
(* What each change of the file leaves agreed to.                          *)

LEMMA SoundMonotone ==
    ASSUME NEW cat, NEW tests, NEW may, NEW ok, Sound(cat, tests, may, ok),
           NEW tests2, tests2 \subseteq tests, NEW may2, may \subseteq may2,
           NEW ok2, ok \subseteq ok2
    PROVE  Sound(cat, tests2, may2, ok2)
<1>1. Agreeable(cat, may2, ok2)
    BY DEF Sound, Agreeable
<1>2. \A t \in tests2 : TestAgreed(cat, t, may2, ok2)
    BY DEF Sound, TestAgreed
<1> QED
    BY <1>1, <1>2 DEF Sound

\* A test is started, or goes on, with what the user agreed to.
LEMMA SoundWith ==
    ASSUME NEW cat, NEW tests, NEW may, NEW ok, Sound(cat, tests, may, ok),
           NEW t, TestAgreed(cat, t, may, ok),
           NEW tests2, tests2 \subseteq tests \cup {t}
    PROVE  Sound(cat, tests2, may, ok)
BY DEF Sound

\* The tests still to read their provider find an address agreed to.
LEMMA TestsKept ==
    ASSUME NEW cat \in Catalogs, NEW after \in Catalogs, BuiltInAt(after),
           NEW may, NEW ok, NEW t \in Tests, TestAgreed(cat, t, may, ok),
           LlmIndex(after, "custom") # 0 =>
               \/ SavedUrl(after, "custom") \in may
               \/ /\ LlmIndex(cat, "custom") # 0
                  /\ SavedUrl(after, "custom") = SavedUrl(cat, "custom")
    PROVE  TestAgreed(after, t, may, ok)
<1>1. t.provider = "builtin" \/ t.provider = "custom"
    BY DEF Tests, Presets
<1>2. CASE t.at # "reading"
    BY <1>2 DEF TestAgreed
<1>3. CASE t.at = "reading" /\ t.provider = "builtin"
    <2>1. SavedUrl(after, "builtin") = BuiltInUrl
        BY BuiltInFixed
    <2>2. BuiltInUrl \in may
        BY <1>3 DEF TestAgreed
    <2> QED
        BY <1>3, <2>1, <2>2 DEF TestAgreed
<1>4. CASE t.at = "reading" /\ t.provider = "custom"
    <2>1. LlmIndex(cat, "custom") # 0 => SavedUrl(cat, "custom") \in may
        BY <1>4 DEF TestAgreed
    <2>2. LlmIndex(after, "custom") # 0 => SavedUrl(after, "custom") \in may
        BY <2>1
    <2> QED
        BY <1>4, <2>2 DEF TestAgreed
<1> QED
    BY <1>1, <1>2, <1>3, <1>4

\* A change of the recogniser leaves the language models alone.
LEMMA AsrSound ==
    ASSUME NEW cat \in Catalogs, NEW after \in Catalogs,
           after.llms = cat.llms, after.llm = cat.llm,
           NEW tests, tests \subseteq Tests, NEW may, NEW ok, Sound(cat, tests, may, ok)
    PROVE  Sound(after, tests, may, ok)
<1>1. Agreeable(after, may, ok) /\ BuiltInAt(after) /\ (after.llms # <<>> => after.llm # "none")
    BY DEF Sound, Agreeable, BuiltInAt
<1>2. SameProviders(cat, after)
    BY DEF SameProviders
<1>3. LlmIndex(after, "custom") = LlmIndex(cat, "custom")
      /\ SavedUrl(after, "custom") = SavedUrl(cat, "custom")
    BY <1>2, SameFound DEF Presets
<1>4. \A t \in tests : TestAgreed(after, t, may, ok)
    BY <1>1, <1>3, TestsKept DEF Sound
<1> QED
    BY <1>1, <1>4 DEF Sound

LEMMA SelectSound ==
    ASSUME NEW cat \in Catalogs, Valid(cat), NEW preset \in Presets, LlmIndex(cat, preset) # 0,
           NEW tests, tests \subseteq Tests, NEW may, NEW ok, Sound(cat, tests, may, ok)
    PROVE  Sound(SelectLlm(cat, preset), tests, may, ok)
<1> DEFINE after == SelectLlm(cat, preset)
<1>1. after \in Catalogs /\ after.llms = cat.llms /\ after.llm # "none"
    BY SelectLlmIs
<1>2. Agreeable(after, may, ok) /\ BuiltInAt(after)
    BY <1>1 DEF Sound, Agreeable, BuiltInAt
<1>3. LlmIndex(after, "custom") # 0 =>
          LlmIndex(cat, "custom") # 0 /\ SavedUrl(after, "custom") = SavedUrl(cat, "custom")
    BY SelectKeepsUrl DEF Sound
<1> HIDE DEF after
<1>4. \A t \in tests : TestAgreed(after, t, may, ok)
    BY <1>1, <1>2, <1>3, TestsKept DEF Sound
<1>5. Sound(after, tests, may, ok)
    BY <1>1, <1>2, <1>4 DEF Sound
<1> QED
    BY <1>5 DEF after

LEMMA EnableSound ==
    ASSUME NEW cat \in Catalogs, Valid(cat), NEW preset \in Presets, NEW url \in Urls,
           preset = "builtin" => url = BuiltInUrl, Valid(EnableLlm(cat, preset, url)),
           NEW tests, tests \subseteq Tests, NEW may, NEW ok, Sound(cat, tests, may, ok),
           url \in may, url \in ok
    PROVE  Sound(EnableLlm(cat, preset, url), tests, may, ok)
<1> DEFINE after == EnableLlm(cat, preset, url)
           k == Place(cat, preset)
<1>1. WrittenAt(cat, after, preset, url, k) /\ after.llm = preset /\ after.llms[k].consent = url
    BY EnableLlmIs
<1>2. LlmIndex(after, "custom") # 0 =>
          \/ SavedUrl(after, "custom") = url
          \/ /\ LlmIndex(cat, "custom") # 0
             /\ SavedUrl(after, "custom") = SavedUrl(cat, "custom")
    BY EnableKeepsUrl
<1> HIDE DEF after, k
<1>3. /\ after \in Catalogs /\ k \in DOMAIN after.llms
      /\ after.llms[k].id = preset /\ after.llms[k].url = url
      /\ DOMAIN after.llms \subseteq DOMAIN cat.llms \cup {k}
      /\ \A j \in DOMAIN cat.llms : j # k => after.llms[j] = cat.llms[j]
    BY <1>1 DEF WrittenAt
<1>4. Agreeable(after, may, ok)
    <2> SUFFICES ASSUME NEW i \in DOMAIN after.llms
                 PROVE  /\ after.llms[i].consent # NoUrl => after.llms[i].consent \in may
                        /\ after.llms[i].enabled /\ after.llms[i].consent = after.llms[i].url
                           /\ after.llms[i].url # NoUrl => after.llms[i].url \in ok
        BY DEF Agreeable
    <2>1. CASE i = k
        BY <1>1, <1>3, <2>1
    <2>2. CASE i # k
        <3>1. i \in DOMAIN cat.llms /\ after.llms[i] = cat.llms[i]
            BY <1>3, <2>2
        <3> QED
            BY <3>1 DEF Sound, Agreeable
    <2> QED
        BY <2>1, <2>2
<1>5. BuiltInAt(after)
    BY <1>3 DEF Sound, BuiltInAt
<1>6. after.llm # "none"
    BY <1>1 DEF Presets
<1>7. \A t \in tests : TestAgreed(after, t, may, ok)
    BY <1>2, <1>3, <1>5, TestsKept DEF Sound
<1>8. Sound(after, tests, may, ok)
    BY <1>4, <1>5, <1>6, <1>7 DEF Sound
<1> QED
    BY <1>8 DEF after

(* A view written back over what it was merged of: the addresses stay, the   *)
(* model it shows is off, and its consent is the one the view confirms.    *)
LEMMA MergeSame ==
    ASSUME NEW cat \in Catalogs, Valid(cat), cat.llms # <<>> => cat.llm # "none",
           NEW view \in Views, view.url = View(cat).url
    PROVE  LET after == Merge(cat, view) IN
           \/ /\ cat.llms = <<>> /\ after.llms = <<>>
           \/ /\ ShownIndex(cat) # 0 /\ SameProviders(cat, after)
              /\ after.llms[ShownIndex(cat)]
                    = WrittenAs(view, cat.llms[ShownIndex(cat)].id)
              /\ \A j \in DOMAIN cat.llms :
                    j # ShownIndex(cat) => after.llms[j] = cat.llms[j]
<1> DEFINE i == ShownIndex(cat)
           after == Merge(cat, view)
           merged == MergeLlm(cat, view)
<1>1. after.llms = merged.llms /\ after.llm = merged.llm
    BY MergeIs
<1>2. CASE i = 0
    <2>1. cat.llms = <<>> /\ view.url = NoUrl
        BY <1>2, ViewIs, ShownIndexFacts
    <2>2. merged.llms = <<>>
        BY <1>2, <2>1, MergeLlmIs
    <2> QED
        BY <1>1, <2>1, <2>2
<1>3. CASE i # 0
    <2>1. i \in DOMAIN cat.llms /\ cat.llms[i] \in Instance /\ view.url = cat.llms[i].url
        BY <1>3, ViewIs, ShownIndexFacts
    <2>2. /\ merged.llm = cat.llms[i].id /\ DOMAIN merged.llms = DOMAIN cat.llms
          /\ merged.llms[i] = WrittenAs(view, cat.llms[i].id)
          /\ \A j \in DOMAIN cat.llms : j # i => merged.llms[j] = cat.llms[j]
        BY <1>3, MergeLlmIs
    <2>3. cat.llms[i].id = cat.llm
        <3>1. cat.llms # <<>>
            BY <2>1
        <3>2. ActiveIndex(cat) # 0
            BY <3>1 DEF Valid
        <3> QED
            BY <3>2, ActiveFacts DEF ShownIndex
    <2>4. merged.llms[i].id = cat.llms[i].id /\ merged.llms[i].url = cat.llms[i].url
        BY <2>1, <2>2 DEF WrittenAs
    <2> HIDE DEF i, merged, after
    <2>5. SameProviders(cat, after)
        BY <1>1, <2>2, <2>3, <2>4 DEF SameProviders
    <2> QED
        BY <1>1, <1>3, <2>2, <2>5 DEF i, after
<1> QED
    BY <1>2, <1>3

LEMMA MergeFinds ==
    ASSUME NEW cat \in Catalogs, Valid(cat), cat.llms # <<>> => cat.llm # "none",
           NEW view \in Views, view.url = View(cat).url, NEW preset \in Presets,
           LlmIndex(Merge(cat, view), preset) # 0
    PROVE  /\ LlmIndex(cat, preset) # 0
           /\ SavedUrl(Merge(cat, view), preset) = SavedUrl(cat, preset)
<1> DEFINE after == Merge(cat, view)
<1>1. after \in Catalogs
    BY MergeIs
<1>2. \/ after.llms = <<>>
      \/ SameProviders(cat, after)
    BY MergeSame
<1> HIDE DEF after
<1>3. after.llms # <<>>
    BY <1>1, IndexFacts DEF after
<1> QED
    BY <1>2, <1>3, SameFound DEF after

LEMMA MergeSound ==
    ASSUME NEW cat \in Catalogs, Valid(cat), NEW view \in Views, view.url = View(cat).url,
           view.enabled = FALSE,
           NEW tests, tests \subseteq Tests, NEW may, NEW ok, Sound(cat, tests, may, ok),
           view.confirmed # NoUrl => view.confirmed \in may
    PROVE  Sound(Merge(cat, view), tests, may, ok)
<1> DEFINE after == Merge(cat, view)
           i == ShownIndex(cat)
<1>1. after \in Catalogs
    BY MergeIs
<1>2. \/ cat.llms = <<>> /\ after.llms = <<>>
      \/ /\ i # 0 /\ SameProviders(cat, after)
         /\ after.llms[i] = WrittenAs(view, cat.llms[i].id)
         /\ \A j \in DOMAIN cat.llms : j # i => after.llms[j] = cat.llms[j]
    BY MergeSame DEF Sound
<1>3. LlmIndex(after, "custom") # 0 =>
          LlmIndex(cat, "custom") # 0 /\ SavedUrl(after, "custom") = SavedUrl(cat, "custom")
    BY MergeFinds DEF Sound, Presets
<1> HIDE DEF after, i
<1>4. CASE after.llms = <<>>
    <2>1. Agreeable(after, may, ok) /\ BuiltInAt(after)
        BY <1>4 DEF Agreeable, BuiltInAt
    <2>2. \A t \in tests : TestAgreed(after, t, may, ok)
        BY <1>1, <1>3, <2>1, TestsKept DEF Sound
    <2>3. Sound(after, tests, may, ok)
        BY <1>4, <2>1, <2>2 DEF Sound
    <2> QED
        BY <2>3 DEF after
<1>5. CASE after.llms # <<>>
    <2>1. /\ SameProviders(cat, after)
          /\ after.llms[i] = WrittenAs(view, cat.llms[i].id)
          /\ \A j \in DOMAIN cat.llms : j # i => after.llms[j] = cat.llms[j]
        BY <1>2, <1>5
    <2>2. BuiltInAt(after)
        BY <2>1 DEF Sound, BuiltInAt, SameProviders
    <2>3. after.llm # "none"
        <3>1. cat.llms # <<>>
            <4>1. DOMAIN after.llms # {}
                BY <1>1, <1>5, CatalogFields
            <4> QED
                BY <2>1, <4>1 DEF SameProviders
        <3> QED
            BY <2>1, <3>1 DEF Sound, SameProviders
    <2>4. Agreeable(after, may, ok)
        <3> SUFFICES ASSUME NEW j \in DOMAIN after.llms
                     PROVE  /\ after.llms[j].consent # NoUrl => after.llms[j].consent \in may
                            /\ after.llms[j].enabled /\ after.llms[j].consent = after.llms[j].url
                               /\ after.llms[j].url # NoUrl => after.llms[j].url \in ok
            BY DEF Agreeable
        <3>1. CASE j = i
            <4>1. after.llms[j].enabled = FALSE
                BY <2>1, <3>1 DEF WrittenAs
            <4>2. after.llms[j].consent \in {view.confirmed, NoUrl}
                BY <2>1, <3>1 DEF WrittenAs
            <4> QED
                BY <4>1, <4>2
        <3>2. CASE j # i
            <4>1. j \in DOMAIN cat.llms /\ after.llms[j] = cat.llms[j]
                BY <2>1, <3>2 DEF SameProviders
            <4> QED
                BY <4>1 DEF Sound, Agreeable
        <3> QED
            BY <3>1, <3>2
    <2>5. \A t \in tests : TestAgreed(after, t, may, ok)
        BY <1>1, <1>3, <2>2, TestsKept DEF Sound
    <2>6. Sound(after, tests, may, ok)
        BY <2>2, <2>3, <2>4, <2>5 DEF Sound
    <2> QED
        BY <2>6 DEF after
<1> QED
    BY <1>4, <1>5

\* What a view confirms the user agreed to.
LEMMA ConfirmedAgreed ==
    ASSUME NEW cat \in Catalogs, NEW tests, NEW may, NEW ok, Sound(cat, tests, may, ok),
           View(cat).confirmed # NoUrl
    PROVE  View(cat).confirmed \in may
<1>1. /\ ShownIndex(cat) # 0
      /\ View(cat).confirmed = cat.llms[ShownIndex(cat)].consent
    BY ViewIs
<1>2. ShownIndex(cat) \in DOMAIN cat.llms
    BY <1>1, ShownIndexFacts
<1> QED
    BY <1>1, <1>2 DEF Sound, Agreeable

-----------------------------------------------------------------------------
(* The invariant is inductive: what the variables hold.                    *)

LEMMA ReloadedIs ==
    ASSUME NEW before \in Pages, NEW cat \in Catalogs
    PROVE  Reloaded(before, cat) \in Pages
<1> DEFINE preset == ShownPreset(cat)
           url == SavedUrl(cat, preset)
           on == View(cat).enabled /\ SavedReady(cat, preset) /\ View(cat).confirmed = url
<1>1. preset \in Presets
    BY ShownFacts
<1>2. url \in Urls
    BY <1>1, SavedFacts
<1>3. on \in BOOLEAN
    OBVIOUS
<1>4. Reloaded(before, cat) =
        [before EXCEPT !.provider = preset, !.draft = url, !.target = url,
                      !.testing = FALSE, !.enabled = on]
    BY DEF Reloaded
<1> HIDE DEF preset, url, on
<1> QED
    BY <1>1, <1>2, <1>3, <1>4 DEF Pages

\* What the handler of the UI thread holds.
LEMMA HandlerHolds ==
    ASSUME HandlerInv
    PROVE  /\ handler.at \in {"idle", "consenting", "turning off", "selecting"}
           /\ handler.at # "idle" => handler.read \in Catalogs /\ Valid(handler.read)
           /\ handler.at = "consenting" => Consenting(handler.read, handler.view)
           /\ handler.at = "turning off" => TurningOff(handler.read, handler.view)
           /\ handler.at = "selecting" => Selecting(handler.read, handler.catalog)
<1>1. CASE handler = NotBusy
    <2>1. handler.at = "idle"
        BY <1>1 DEF NotBusy
    <2> QED
        BY <2>1
<1>2. CASE handler # NotBusy
    BY <1>2 DEF HandlerInv
<1> QED
    BY <1>1, <1>2

LEMMA HeldView ==
    ASSUME NEW read \in Catalogs, page \in Pages, NEW view,
           Consenting(read, view) \/ TurningOff(read, view)
    PROVE  /\ view \in Views /\ view.url = View(read).url /\ view.enabled = FALSE
           /\ Consenting(read, view) =>
                 view.confirmed = SavedUrl(read, page.provider) /\ view.confirmed \in agreed
           /\ TurningOff(read, view) => view.confirmed = View(read).confirmed
<1>1. View(read) \in Views
    BY ViewIs
<1>2. page.provider \in Presets
    BY DEF Pages
<1>3. SavedUrl(read, page.provider) \in Urls
    BY <1>2, SavedFacts
<1>4. CASE Consenting(read, view)
    <2>1. view = [View(read) EXCEPT !.enabled = FALSE, !.confirmed = SavedUrl(read, page.provider)]
          /\ view.confirmed \in agreed
        BY <1>4 DEF Consenting
    <2>2. view \in Views /\ view.url = View(read).url /\ view.enabled = FALSE
          /\ view.confirmed = SavedUrl(read, page.provider)
        BY <1>1, <1>3, <2>1 DEF Views
    <2>3. TurningOff(read, view) => view.confirmed = View(read).confirmed
        BY <1>1 DEF TurningOff, Views
    <2> QED
        BY <2>1, <2>2, <2>3
<1>5. CASE TurningOff(read, view) /\ ~Consenting(read, view)
    <2>1. view = [View(read) EXCEPT !.enabled = FALSE]
        BY <1>5 DEF TurningOff
    <2>2. view \in Views /\ view.url = View(read).url /\ view.enabled = FALSE
          /\ view.confirmed = View(read).confirmed
        BY <1>1, <2>1 DEF Views
    <2> QED
        BY <1>5, <2>2
<1> QED
    BY <1>4, <1>5

LEMMA HeldChoice ==
    ASSUME NEW read \in Catalogs, NEW cat, Selecting(read, cat)
    PROVE  cat \in Catalogs
<1>1. ASSUME NEW preset \in Presets, SavedReady(read, preset), cat = SelectLlm(read, preset)
      PROVE  cat \in Catalogs
    BY <1>1, SelectLlmIs DEF SavedReady
<1>2. ASSUME NEW asr \in read.cloud, cat = [read EXCEPT !.asr = asr]
      PROVE  cat \in Catalogs
    BY <1>2 DEF Catalogs
<1> QED
    BY <1>1, <1>2 DEF Selecting

LEMMA SavesForms ==
    ASSUME FormsInv, NEW read, NEW cat \in Catalogs, Saves(read, cat)
    PROVE  /\ file' \in Catalogs /\ Valid(file)' /\ overwrote' \in BOOLEAN
           /\ mishaps' \in 0..MaxMishaps
BY DEF FormsInv, Saves, Works, Valid, ActiveIndex

LEMMA SaveFailsForms ==
    ASSUME FormsInv, NEW cat, SaveFails(cat)
    PROVE  /\ file' \in Catalogs /\ Valid(file)' /\ overwrote' \in BOOLEAN
           /\ mishaps' \in 0..MaxMishaps
<1>1. file' = file /\ overwrote' = overwrote
    BY DEF SaveFails
<1>2. Valid(file)'
    BY <1>1 DEF FormsInv, Valid, ActiveIndex
<1>3. mishaps' = mishaps \/ (mishaps < MaxMishaps /\ mishaps' = mishaps + 1)
    BY DEF SaveFails, Fails, Works
<1>4. mishaps' \in 0..MaxMishaps
    BY <1>3 DEF FormsInv
<1> QED
    BY <1>1, <1>2, <1>4 DEF FormsInv

LEMMA StartTestForms ==
    ASSUME FormsInv, NEW kind \in {"draft", "saved"}, NEW url \in Urls, StartTest(kind, url)
    PROVE  llmTests' \subseteq Tests
<1>1. page.provider \in Presets
    BY DEF FormsInv, Pages
<1> QED
    BY <1>1 DEF FormsInv, StartTest, Tests

LEMMA DraftUrlIs == ASSUME FormsInv PROVE DraftUrl \in Urls
BY UrlFacts DEF FormsInv, Pages, DraftUrl

\* What a step leaves alone keeps its form.
LEMMA SameFileForms ==
    ASSUME FormsInv, UNCHANGED file
    PROVE  file' \in Catalogs /\ Valid(file)'
BY DEF FormsInv, Valid, ActiveIndex

LEMMA SameHandlerForms ==
    ASSUME FormsInv, UNCHANGED <<handler, page>>, agreed \subseteq agreed'
    PROVE  HandlerInv'
<1>1. CASE handler = NotBusy
    BY <1>1 DEF HandlerInv
<1>2. CASE handler # NotBusy
    <2>1. HandlerInv
        BY DEF FormsInv
    <2>2. \A read, view : Consenting(read, view) => Consenting(read, view)'
        BY DEF Consenting
    <2>3. \A read, view : TurningOff(read, view) => TurningOff(read, view)'
        BY DEF TurningOff
    <2>4. \A read, cat : Selecting(read, cat) => Selecting(read, cat)'
        BY DEF Selecting
    <2>5. Consenting(handler.read, handler.view) => Consenting(handler.read, handler.view)'
        BY DEF Consenting
    <2>6. TurningOff(handler.read, handler.view) => TurningOff(handler.read, handler.view)'
        BY DEF TurningOff
    <2>7. Selecting(handler.read, handler.catalog) => Selecting(handler.read, handler.catalog)'
        BY DEF Selecting
    <2>8. Valid(handler.read) => Valid(handler.read)'
        BY DEF Valid, ActiveIndex
    <2> QED
        BY <1>2, <2>1, <2>5, <2>6, <2>7, <2>8 DEF HandlerInv
<1> QED
    BY <1>1, <1>2

LEMMA SameWriterForms ==
    ASSUME FormsInv, UNCHANGED writer
    PROVE  WriterInv'
<1>1. WriterInv
    BY DEF FormsInv
<1>2. Valid(writer.read) => Valid(writer.read)'
    BY DEF Valid, ActiveIndex
<1> QED
    BY <1>1, <1>2 DEF WriterInv

LEMMA IdleHandlerForms == ASSUME handler' = NotBusy PROVE HandlerInv'
BY DEF HandlerInv

LEMMA BoundFacts == MaxDecisions \in Nat /\ MaxMishaps \in Nat
OBVIOUS

LEMMA DecidesForms ==
    ASSUME FormsInv, decisions < MaxDecisions, decisions' = decisions + 1
    PROVE  decisions' \in 0..MaxDecisions
BY BoundFacts DEF FormsInv

\* The handlers of the page alone.
LEMMA PageForms ==
    ASSUME FormsInv,
           \/ \E preset \in Presets, url \in Addresses : OpenProvider(preset, url)
           \/ CloseProvider \/ Refuse
    PROVE  FormsInv'
<1>1. UNCHANGED <<file, handler, llmTests, writer, closures, agreed, worked,
                  overwrote, decisions, mishaps>> /\ handler = NotBusy
    BY DEF OpenProvider, CloseProvider, Refuse, AtPage
<1>2. page' \in Pages
    <2>1. ASSUME NEW preset \in Presets, NEW url \in Addresses, OpenProvider(preset, url)
          PROVE  page' \in Pages
        BY <2>1, UrlFacts DEF OpenProvider, FormsInv, Pages
    <2>2. CASE CloseProvider
        <3> DEFINE active == ShownPreset(file)
        <3>1. active \in Presets /\ SavedUrl(file, active) \in Urls
            BY ShownFacts, SavedFacts DEF FormsInv
        <3>2. page' = [page EXCEPT !.provider = active, !.draft = SavedUrl(file, active),
                                   !.modal = FALSE]
            BY <2>2 DEF CloseProvider
        <3> HIDE DEF active
        <3> QED
            BY <3>1, <3>2 DEF FormsInv, Pages
    <2>3. CASE Refuse
        BY <2>3 DEF Refuse, FormsInv, Pages
    <2> QED
        BY <2>1, <2>2, <2>3
<1>3. HandlerInv' /\ WriterInv'
    BY <1>1, IdleHandlerForms, SameWriterForms
<1>4. file' \in Catalogs /\ Valid(file)'
    BY <1>1, SameFileForms
<1> QED
    BY <1>1, <1>2, <1>3, <1>4 DEF FormsInv

LEMMA TryForms ==
    ASSUME FormsInv, TryDraft \/ RequestEnable \/ AgreeToDraft
    PROVE  FormsInv'
<1>1. /\ UNCHANGED <<file, handler, writer, closures, worked, overwrote, mishaps>>
      /\ handler = NotBusy
    BY DEF TryDraft, RequestEnable, AgreeToDraft, Decides, AtPage
<1>2. HandlerInv' /\ WriterInv' /\ file' \in Catalogs /\ Valid(file)'
    BY <1>1, IdleHandlerForms, SameWriterForms, SameFileForms
<1>3. decisions' \in 0..MaxDecisions
    <2>1. CASE UNCHANGED decisions
        BY <2>1 DEF FormsInv
    <2>2. CASE decisions < MaxDecisions /\ decisions' = decisions + 1
        BY <2>2, DecidesForms
    <2> QED
        BY <2>1, <2>2 DEF TryDraft, RequestEnable, AgreeToDraft, Decides
<1>4. DraftUrl \in Urls /\ page \in Pages /\ page.target \in Urls /\ page.provider \in Presets
    BY DraftUrlIs DEF FormsInv, Pages
<1>5. SavedUrl(file, page.provider) \in Urls
    BY <1>4, SavedFacts DEF FormsInv
<1>6. agreed' \subseteq Urls
    BY <1>4 DEF TryDraft, RequestEnable, AgreeToDraft, FormsInv
<1>7. page' \in Pages
    <2> DEFINE url == SavedUrl(file, page.provider)
               draft == DraftUrl
    <2>1. CASE TryDraft
        <3>1. \/ page' = [page EXCEPT !.target = draft, !.dialog = "draft"]
              \/ page' = [page EXCEPT !.target = draft, !.testing = TRUE]
            BY <2>1 DEF TryDraft
        <3> HIDE DEF draft
        <3>2. draft \in Urls
            BY <1>4 DEF draft
        <3> QED
            BY <3>1, <3>2, <1>4 DEF Pages
    <2>2. CASE RequestEnable
        <3>1. \/ page' = [page EXCEPT !.target = url, !.dialog = "saved"]
              \/ page' = [page EXCEPT !.target = url, !.testing = TRUE, !.enabled = FALSE]
            BY <2>2 DEF RequestEnable
        <3> HIDE DEF url
        <3>2. url \in Urls
            BY <1>5 DEF url
        <3> QED
            BY <3>1, <3>2, <1>4 DEF Pages
    <2>3. CASE AgreeToDraft
        <3>1. \/ page' = [page EXCEPT !.dialog = "none", !.testing = TRUE]
              \/ page' = [page EXCEPT !.dialog = "none"]
            BY <2>3 DEF AgreeToDraft
        <3> QED
            BY <3>1, <1>4 DEF Pages
    <2> QED
        BY <2>1, <2>2, <2>3
<1>8. llmTests' \subseteq Tests
    <2>1. \/ UNCHANGED llmTests
          \/ StartTest("draft", DraftUrl)
          \/ StartTest("saved", SavedUrl(file, page.provider))
        BY DEF TryDraft, RequestEnable, AgreeToDraft
    <2>2. CASE UNCHANGED llmTests
        BY <2>2 DEF FormsInv
    <2> QED
        BY <1>4, <1>5, <2>1, <2>2, StartTestForms
<1> QED
    BY <1>1, <1>2, <1>3, <1>6, <1>7, <1>8 DEF FormsInv

LEMMA LoadForms ==
    ASSUME FormsInv,
           \/ AgreeToSaved \/ TurnOff \/ SelectProvider
           \/ \E asr \in CloudAsr : SelectCloudAsr(asr)
    PROVE  FormsInv'
<1>1. /\ UNCHANGED <<file, llmTests, writer, closures, worked, overwrote, mishaps>>
      /\ handler = NotBusy
    BY DEF AgreeToSaved, TurnOff, SelectProvider, SelectCloudAsr, Decides, AtPage
<1>2. WriterInv' /\ file' \in Catalogs /\ Valid(file)'
    BY <1>1, SameWriterForms, SameFileForms
<1>3. decisions' \in 0..MaxDecisions
    <2>1. CASE UNCHANGED decisions
        BY <2>1 DEF FormsInv
    <2>2. CASE decisions < MaxDecisions /\ decisions' = decisions + 1
        BY <2>2, DecidesForms
    <2> QED
        BY <2>1, <2>2 DEF AgreeToSaved, TurnOff, SelectProvider, SelectCloudAsr, Decides
<1>4. page \in Pages /\ page.target \in Urls /\ page.provider \in Presets
      /\ file \in Catalogs /\ Valid(file) /\ llmTests \subseteq Tests
    BY DEF FormsInv, Pages
<1>5. agreed' \subseteq Urls /\ agreed \subseteq agreed'
    BY <1>4 DEF AgreeToSaved, TurnOff, SelectProvider, SelectCloudAsr, FormsInv
<1>6. page' \in Pages /\ page'.provider = page.provider
    <2>1. page' = page \/ page' = [page EXCEPT !.dialog = "none"]
        BY DEF AgreeToSaved, TurnOff, SelectProvider, SelectCloudAsr
    <2> QED
        BY <2>1, <1>4 DEF Pages
<1>8. HandlerInv'
    <2>1. CASE AgreeToSaved
        <3>1. CASE SavedUrl(file, page.provider) = page.target
            <4> DEFINE view == [View(file) EXCEPT !.enabled = FALSE,
                                                  !.confirmed = SavedUrl(file, page.provider)]
            <4>1. handler' = [at |-> "consenting", read |-> file, view |-> view]
                BY <2>1, <3>1 DEF AgreeToSaved
            <4>2. view.confirmed = SavedUrl(file, page.provider)
                <5>1. View(file) \in Views
                    BY <1>4, ViewIs
                <5> QED
                    BY <5>1 DEF Views
            <4>3. view.confirmed \in agreed'
                BY <2>1, <3>1, <4>2 DEF AgreeToSaved
            <4> HIDE DEF view
            <4>5. /\ handler'.at = "consenting" /\ handler'.read = file /\ handler'.view = view
                BY <4>1
            <4>6. Valid(handler.read)'
                BY <4>5, <1>4 DEF Valid, ActiveIndex
            <4>7. Consenting(handler.read, handler.view)'
                BY <4>3, <4>5, <1>6 DEF view, Consenting
            <4>8. handler'.read \in Catalogs
                BY <4>5, <1>4
            <4> QED
                BY <4>1, <4>5, <4>6, <4>7, <4>8 DEF HandlerInv
        <3>2. CASE SavedUrl(file, page.provider) # page.target
            BY <2>1, <3>2, IdleHandlerForms DEF AgreeToSaved
        <3> QED
            BY <3>1, <3>2
    <2>2. CASE TurnOff
        <3> DEFINE view == [View(file) EXCEPT !.enabled = FALSE]
        <3>1. handler' = [at |-> "turning off", read |-> file, view |-> view]
            BY <2>2 DEF TurnOff
        <3> HIDE DEF view
        <3>2. handler'.at = "turning off" /\ handler'.read = file /\ handler'.view = view
            BY <3>1
        <3>3. Valid(handler.read)'
            BY <3>2, <1>4 DEF Valid, ActiveIndex
        <3>4. TurningOff(handler.read, handler.view)'
            BY <3>2 DEF TurningOff, view
        <3>5. handler'.read \in Catalogs
            BY <3>2, <1>4
        <3> QED
            BY <3>1, <3>2, <3>3, <3>4, <3>5 DEF HandlerInv
    <2>3. ASSUME NEW merged, handler' = [at |-> "selecting", read |-> file, catalog |-> merged],
                 Selecting(file, merged)
          PROVE  HandlerInv'
        <3>1. handler'.at = "selecting" /\ handler'.read = file /\ handler'.catalog = merged
            BY <2>3
        <3>2. Valid(handler.read)'
            BY <3>1, <1>4 DEF Valid, ActiveIndex
        <3>3. Selecting(handler.read, handler.catalog)'
            BY <2>3, <3>1 DEF Selecting
        <3>4. handler'.read \in Catalogs
            BY <3>1, <1>4
        <3> QED
            BY <2>3, <3>1, <3>2, <3>3, <3>4 DEF HandlerInv
    <2>4. CASE SelectProvider
        <3>1. handler' = [at |-> "selecting", read |-> file,
                          catalog |-> SelectLlm(file, page.provider)]
            BY <2>4 DEF SelectProvider
        <3>2. Selecting(file, SelectLlm(file, page.provider))
            BY <2>4, <1>4 DEF SelectProvider, Selecting
        <3> QED
            BY <2>3, <3>1, <3>2
    <2>5. ASSUME NEW asr \in CloudAsr, SelectCloudAsr(asr)
          PROVE  HandlerInv'
        <3>1. handler' = [at |-> "selecting", read |-> file, catalog |-> [file EXCEPT !.asr = asr]]
            BY <2>5 DEF SelectCloudAsr
        <3>2. Selecting(file, [file EXCEPT !.asr = asr])
            BY <2>5 DEF SelectCloudAsr, Selecting
        <3> QED
            BY <2>3, <3>1, <3>2
    <2> QED
        BY <2>1, <2>2, <2>4, <2>5
<1> QED
    BY <1>1, <1>2, <1>3, <1>4, <1>5, <1>6, <1>8 DEF FormsInv

LEMMA SaveForms ==
    ASSUME FormsInv, ConsentSaved \/ TurnedOff \/ Selected
    PROVE  FormsInv'
<1>1. /\ UNCHANGED <<writer, closures, agreed, worked, decisions>>
      /\ handler.at # "idle" /\ handler' = NotBusy
    BY DEF ConsentSaved, TurnedOff, Selected
<1>2. HandlerInv' /\ WriterInv'
    BY <1>1, IdleHandlerForms, SameWriterForms
<1>3. page \in Pages /\ HandlerInv /\ llmTests \subseteq Tests
    BY DEF FormsInv
<1>4. handler.read \in Catalogs
    BY <1>1, <1>3, HandlerHolds
<1>5. handler.at \in {"consenting", "turning off"} => handler.view \in Views
    BY <1>3, <1>4, HandlerHolds, HeldView
<1>6. handler.at = "selecting" => handler.catalog \in Catalogs
    BY <1>3, <1>4, HandlerHolds, HeldChoice
<1>7. /\ file' \in Catalogs /\ Valid(file)' /\ overwrote' \in BOOLEAN
      /\ mishaps' \in 0..MaxMishaps
    <2>1. \E cat \in Catalogs : Saves(handler.read, cat) \/ SaveFails(cat)
        <3>1. CASE ConsentSaved \/ TurnedOff
            <4>1. Merge(file, handler.view) \in Catalogs
                BY <1>5, <3>1, MergeIs DEF ConsentSaved, TurnedOff, FormsInv
            <4> QED
                BY <3>1, <4>1 DEF ConsentSaved, TurnedOff
        <3>2. CASE Selected
            BY <1>6, <3>2 DEF Selected
        <3> QED
            BY <3>1, <3>2
    <2> QED
        BY <2>1, SavesForms, SaveFailsForms
<1>8. page' \in Pages
    <2>1. CASE ConsentSaved \/ TurnedOff
        <3>1. \/ page' = page
              \/ page' = [page EXCEPT !.testing = TRUE, !.enabled = FALSE]
              \/ page' = [page EXCEPT !.enabled = FALSE]
              \/ page' = [page EXCEPT !.enabled = TRUE]
            BY <2>1 DEF ConsentSaved, TurnedOff
        <3> QED
            BY <1>3, <3>1 DEF Pages
    <2>2. CASE Selected
        <3>1. page' = page \/ page' = Reloaded(page, file')
            BY <2>2 DEF Selected
        <3> QED
            BY <1>3, <1>7, <3>1, ReloadedIs
    <2> QED
        BY <2>1, <2>2
<1>9. llmTests' \subseteq Tests
    <2>1. CASE UNCHANGED llmTests
        BY <1>3, <2>1
    <2>2. CASE ConsentSaved /\ StartTest("saved", handler.view.confirmed)
        <3>1. handler.view \in Views
            BY <1>5, <2>2 DEF ConsentSaved
        <3>2. handler.view.confirmed \in Urls
            BY <3>1 DEF Views
        <3> QED
            BY <2>2, <3>2, StartTestForms
    <2> QED
        BY <2>1, <2>2 DEF ConsentSaved, TurnedOff, Selected
<1> QED
    BY <1>1, <1>2, <1>7, <1>8, <1>9 DEF FormsInv

LEMMA TestForms ==
    ASSUME FormsInv, NEW t \in llmTests, TestReads(t) \/ TestAnswers(t) \/ TestEnables(t)
    PROVE  FormsInv'
<1>1. UNCHANGED <<page, handler, writer, agreed, decisions>>
    BY DEF TestReads, TestAnswers, TestEnables
<1>2. t \in Tests /\ file \in Catalogs /\ Valid(file) /\ page \in Pages /\ agreed \subseteq Urls
      /\ t.provider \in Presets /\ t.url \in Urls
    BY DEF FormsInv, Tests
<1>3. HandlerInv' /\ WriterInv'
    BY <1>1, SameHandlerForms, SameWriterForms
<1>4. SavedUrl(file, t.provider) \in Urls
    BY <1>2, SavedFacts
<1>5. llmTests' \subseteq Tests
    <2>1. \/ llmTests' = llmTests \ {t}
          \/ llmTests' = (llmTests \ {t})
                \cup {[t EXCEPT !.url = SavedUrl(file, t.provider), !.at = "testing"]}
          \/ llmTests' = (llmTests \ {t}) \cup {[t EXCEPT !.at = "saving"]}
        BY DEF TestReads, TestAnswers, TestEnables, Becomes, Concludes
    <2>2. [t EXCEPT !.at = "saving"] \in Tests
        BY <1>2 DEF Tests
    <2>3. ASSUME NEW url \in Urls
          PROVE  [t EXCEPT !.url = url, !.at = "testing"] \in Tests
        BY <1>2 DEF Tests
    <2>4. [t EXCEPT !.url = SavedUrl(file, t.provider), !.at = "testing"] \in Tests
        BY <1>4, <2>3
    <2> QED
        BY <2>1, <2>2, <2>4 DEF FormsInv
<1>6. closures' \in Seq([reload : BOOLEAN])
    <2>1. \/ closures' = closures
          \/ closures' = Append(closures, [reload |-> FALSE \/ t.kind = "saved"])
          \/ closures' = Append(closures, [reload |-> TRUE \/ t.kind = "saved"])
        BY DEF TestReads, TestAnswers, TestEnables, Becomes, Concludes
    <2>2. ASSUME NEW on \in BOOLEAN
          PROVE  Append(closures, [reload |-> on]) \in Seq([reload : BOOLEAN])
        BY DEF FormsInv
    <2>3. (FALSE \/ t.kind = "saved") \in BOOLEAN /\ (TRUE \/ t.kind = "saved") \in BOOLEAN
        OBVIOUS
    <2>4. Append(closures, [reload |-> FALSE \/ t.kind = "saved"]) \in Seq([reload : BOOLEAN])
        BY <2>2, <2>3
    <2>5. Append(closures, [reload |-> TRUE \/ t.kind = "saved"]) \in Seq([reload : BOOLEAN])
        BY <2>2, <2>3
    <2> QED
        BY <2>1, <2>4, <2>5 DEF FormsInv
<1>7. worked' \subseteq Urls
    BY <1>2 DEF TestReads, TestAnswers, TestEnables, FormsInv
<1>8. /\ file' \in Catalogs /\ Valid(file)' /\ overwrote' \in BOOLEAN
      /\ mishaps' \in 0..MaxMishaps
    <2>1. CASE TestEnables(t)
        <3> DEFINE cat == EnableLlm(file, t.provider, t.url)
        <3>1. Saves(file, cat) \/ SaveFails(cat)
            BY <2>1 DEF TestEnables
        <3>2. Saves(file, cat) => file' = cat
            BY DEF Saves
        <3>3. cat \in Catalogs
            BY <1>2, EnableLlmIs DEF WrittenAt
        <3> HIDE DEF cat
        <3> QED
            BY <3>1, <3>3, SavesForms, SaveFailsForms
    <2>2. CASE UNCHANGED <<file, overwrote>> /\ (Works \/ Fails \/ UNCHANGED mishaps)
        <3>1. file' \in Catalogs /\ Valid(file)'
            BY <2>2, SameFileForms
        <3>2. mishaps' \in 0..MaxMishaps
            BY <2>2, BoundFacts DEF FormsInv, Works, Fails
        <3> QED
            BY <2>2, <3>1, <3>2 DEF FormsInv
    <2> QED
        BY <2>1, <2>2 DEF TestReads, TestAnswers
<1> QED
    BY <1>1, <1>2, <1>3, <1>5, <1>6, <1>7, <1>8 DEF FormsInv

LEMMA OtherForms ==
    ASSUME FormsInv,
           \/ ClosureRuns \/ WriterReads \/ WriterSaves
           \/ \E asr \in CloudAsr : ConfigureAsr(asr)
    PROVE  FormsInv'
<1>1. UNCHANGED <<llmTests, handler, agreed, worked>>
    BY DEF ClosureRuns, WriterReads, WriterSaves, ConfigureAsr
<1>2. page \in Pages /\ file \in Catalogs /\ Valid(file) /\ llmTests \subseteq Tests
      /\ closures \in Seq([reload : BOOLEAN])
    BY DEF FormsInv
<1>3. page' \in Pages
    <2>1. \/ page' = page \/ page' = Reloaded(page, file) \/ page' = [page EXCEPT !.testing = FALSE]
        BY DEF ClosureRuns, WriterReads, WriterSaves, ConfigureAsr
    <2>2. [page EXCEPT !.testing = FALSE] \in Pages
        BY <1>2 DEF Pages
    <2> QED
        BY <1>2, <2>1, <2>2, ReloadedIs
<1>4. HandlerInv'
    <2>1. UNCHANGED page \/ handler' = NotBusy
        BY DEF ClosureRuns, WriterReads, WriterSaves, ConfigureAsr
    <2> QED
        BY <1>1, <2>1, SameHandlerForms, IdleHandlerForms
<1>5. decisions' \in 0..MaxDecisions
    <2>1. CASE UNCHANGED decisions
        BY <2>1 DEF FormsInv
    <2>2. CASE decisions < MaxDecisions /\ decisions' = decisions + 1
        BY <2>2, DecidesForms
    <2> QED
        BY <2>1, <2>2 DEF ClosureRuns, WriterReads, WriterSaves, ConfigureAsr
<1>6. closures' \in Seq([reload : BOOLEAN])
    <2>1. CASE closures # <<>> /\ closures' = Tail(closures)
        BY <1>2, <2>1
    <2>2. CASE closures' = Append(closures, [reload |-> TRUE])
        BY <1>2, <2>2
    <2>3. CASE UNCHANGED closures
        BY <1>2, <2>3
    <2> QED
        BY <2>1, <2>2, <2>3 DEF ClosureRuns, WriterReads, WriterSaves, ConfigureAsr
<1>7. WriterInv /\ (writer.at = "writing" => writer.read \in Catalogs)
    <2>1. NotBusy.at = "idle"
        BY DEF NotBusy
    <2> QED
        BY <2>1 DEF FormsInv, WriterInv
<1>8. WriterInv'
    <2>1. CASE UNCHANGED writer
        BY <2>1, SameWriterForms
    <2>2. CASE writer' = NotBusy
        BY <2>2 DEF WriterInv
    <2>3. CASE writer' = [at |-> "writing", read |-> file]
        <3>1. writer'.at = "writing" /\ writer'.read = file
            BY <2>3
        <3>2. Valid(writer.read)'
            BY <1>2, <3>1 DEF Valid, ActiveIndex
        <3> QED
            BY <1>2, <2>3, <3>1, <3>2 DEF WriterInv
    <2> QED
        BY <2>1, <2>2, <2>3 DEF ClosureRuns, WriterReads, WriterSaves, ConfigureAsr
<1>9. /\ file' \in Catalogs /\ Valid(file)' /\ overwrote' \in BOOLEAN
      /\ mishaps' \in 0..MaxMishaps
    <2>1. CASE UNCHANGED <<file, overwrote, mishaps>>
        BY <2>1, SameFileForms DEF FormsInv
    <2>2. CASE WriterSaves
        <3> DEFINE cat == [writer.read EXCEPT !.asr = "local"]
        <3>1. cat \in Catalogs
            BY <1>7, <2>2 DEF WriterSaves, Catalogs
        <3>2. Saves(writer.read, cat)
            BY <2>2 DEF WriterSaves
        <3> HIDE DEF cat
        <3> QED
            BY <3>1, <3>2, SavesForms
    <2>3. ASSUME NEW asr \in CloudAsr, ConfigureAsr(asr)
          PROVE  file' \in Catalogs /\ Valid(file)' /\ UNCHANGED <<overwrote, mishaps>>
        <3>1. file' = [file EXCEPT !.cloud = @ \cup {asr}]
            BY <2>3 DEF ConfigureAsr
        <3>2. /\ file' \in Catalogs /\ file'.llms = file.llms /\ file'.llm = file.llm
              /\ file'.asr = file.asr /\ file.cloud \subseteq file'.cloud
            BY <1>2, <3>1 DEF Catalogs
        <3>3. Valid(file)'
            BY <1>2, <3>2 DEF Valid, ActiveIndex
        <3> QED
            BY <2>3, <3>2, <3>3 DEF ConfigureAsr
    <2> QED
        BY <2>1, <2>2, <2>3 DEF ClosureRuns, WriterReads, FormsInv
<1> QED
    BY <1>1, <1>2, <1>3, <1>4, <1>5, <1>6, <1>8, <1>9 DEF FormsInv

LEMMA StutterForms == ASSUME FormsInv, UNCHANGED providersVars PROVE FormsInv'
<1>1. HandlerInv' /\ WriterInv' /\ file' \in Catalogs /\ Valid(file)'
    BY SameHandlerForms, SameWriterForms, SameFileForms DEF providersVars
<1> QED
    BY <1>1 DEF FormsInv, providersVars

LEMMA InitForms == ProvidersInit => FormsInv
<1> SUFFICES ASSUME ProvidersInit
             PROVE  FormsInv
    OBVIOUS
<1>1. PICK url \in Addresses \ LocalAddresses, consents \in BOOLEAN, fresh \in BOOLEAN :
        /\ file = [asr |-> "volcengine", cloud |-> {"volcengine"},
                   llm |-> IF fresh THEN "none" ELSE "legacy",
                   llms |-> IF fresh THEN <<>> ELSE
                       <<[id |-> "legacy", url |-> url, ready |-> TRUE, enabled |-> TRUE,
                          consent |-> IF consents THEN url ELSE NoUrl]>>]
        /\ agreed = IF consents /\ ~fresh THEN {url} ELSE {}
    BY DEF ProvidersInit
<1> DEFINE entry == [id |-> "legacy", url |-> url, ready |-> TRUE, enabled |-> TRUE,
                     consent |-> IF consents THEN url ELSE NoUrl]
<1>2. entry \in Instance
    BY UrlFacts DEF Instance, Presets, Ids
<1>3. <<>> \in Seq(Instance) /\ <<entry>> \in Seq(Instance)
    BY <1>2
<1>4. entry.id = "legacy"
    OBVIOUS
<1> HIDE DEF entry
<1>5. /\ file.llms = IF fresh THEN <<>> ELSE <<entry>>
      /\ file.llm = IF fresh THEN "none" ELSE "legacy"
      /\ file.asr = "volcengine" /\ file.cloud = {"volcengine"}
    BY <1>1 DEF entry
<1>6. file \in Catalogs
    <2>1. file.llms \in Seq(Instance)
        BY <1>3, <1>5
    <2>2. file = [asr |-> file.asr, cloud |-> file.cloud, llm |-> file.llm, llms |-> file.llms]
        BY <1>1
    <2>3. /\ file.llm \in Ids /\ file.asr \in CloudAsr \cup {"none", "local"}
          /\ file.cloud \in SUBSET CloudAsr
        BY <1>5 DEF Ids, Presets, CloudAsr
    <2> QED
        BY <2>1, <2>2, <2>3 DEF Catalogs
<1>7. Valid(file)
    <2>1. \A i, j \in DOMAIN file.llms : i = j
        BY <1>5
    <2>2. file.asr \in file.cloud
        BY <1>5
    <2>3. file.llm # "none" => ActiveIndex(file) # 0
        <3>1. file.llm # "none" => 1 \in DOMAIN file.llms /\ file.llms[1].id = file.llm
            BY <1>4, <1>5
        <3> QED
            BY <1>6, <3>1, ActiveFacts
    <2> QED
        BY <2>1, <2>2, <2>3 DEF Valid
<1>8. page \in Pages
    <2> DEFINE first == [provider |-> "builtin", draft |-> NoUrl, target |-> NoUrl,
                         enabled |-> FALSE, testing |-> FALSE, modal |-> FALSE,
                         dialog |-> "none"]
    <2>1. first \in Pages
        BY UrlFacts DEF Pages, Presets
    <2>2. page = Reloaded(first, file)
        BY DEF ProvidersInit
    <2> HIDE DEF first
    <2> QED
        BY <1>6, <2>1, <2>2, ReloadedIs
<1>9. /\ llmTests = {} /\ closures = <<>> /\ worked = agreed /\ overwrote = FALSE
      /\ handler = NotBusy /\ writer = NotBusy /\ decisions = 0 /\ mishaps = 0
    BY DEF ProvidersInit
<1>10. agreed \subseteq Urls
    BY <1>1, UrlFacts
<1>11. HandlerInv /\ WriterInv
    BY <1>9 DEF HandlerInv, WriterInv
<1>12. closures \in Seq([reload : BOOLEAN]) /\ 0 \in 0..MaxDecisions /\ 0 \in 0..MaxMishaps
    BY <1>9, BoundFacts
<1> QED
    BY <1>6, <1>7, <1>8, <1>9, <1>10, <1>11, <1>12 DEF FormsInv

-----------------------------------------------------------------------------
(* The invariant is inductive: what was agreed to.                         *)

\* A save that overwrote nothing was of what the file held.
LEMMA SavesOver ==
    ASSUME FormsInv, NEW read, NEW cat, Saves(read, cat), ~overwrote'
    PROVE  ~overwrote /\ file = read /\ file' = cat
BY DEF Saves, FormsInv

LEMMA SameAgreed ==
    ASSUME ProvidersInv, UNCHANGED <<file, overwrote>>, llmTests' \subseteq llmTests,
           agreed \subseteq agreed', worked \subseteq worked'
    PROVE  AgreedInv'
<1> SUFFICES ASSUME ~overwrote'
             PROVE  Sound(file, llmTests, Permitted, worked)'
    BY DEF AgreedInv
<1>1. Sound(file, llmTests, Permitted, worked)
    BY DEF ProvidersInv, AgreedInv
<1>2. Permitted \subseteq Permitted'
    BY DEF Permitted
<1>3. Sound(file, llmTests', Permitted', worked')
    BY <1>1, <1>2, SoundMonotone
<1> QED
    BY <1>3

\* A test starts with an address the user agreed to.
LEMMA StartAgreed ==
    ASSUME ProvidersInv, UNCHANGED <<file, overwrote, worked>>, agreed \subseteq agreed',
           NEW kind, NEW url \in agreed' \cup LocalAddresses, StartTest(kind, url),
           page.provider = "builtin" => url = BuiltInUrl,
           kind = "saved" => url = SavedUrl(file, page.provider)
    PROVE  AgreedInv'
<1> SUFFICES ASSUME ~overwrote'
             PROVE  Sound(file, llmTests, Permitted, worked)'
    BY DEF AgreedInv
<1> DEFINE t == [kind |-> kind, provider |-> page.provider, url |-> url,
                 at |-> IF kind = "saved" THEN "reading" ELSE "testing"]
<1>1. Sound(file, llmTests, Permitted', worked)
    <2>1. Sound(file, llmTests, Permitted, worked) /\ Permitted \subseteq Permitted'
        BY DEF ProvidersInv, AgreedInv, Permitted
    <2> QED
        BY <2>1, SoundMonotone
<1>2. llmTests' \subseteq llmTests \cup {t}
    BY DEF StartTest
<1>3. url \in Permitted'
    BY DEF Permitted
<1>4. TestAgreed(file, t, Permitted', worked)
    BY <1>3 DEF TestAgreed
<1> HIDE DEF t
<1>5. Sound(file, llmTests', Permitted', worked)
    BY <1>1, <1>2, <1>4, SoundWith
<1> QED
    BY <1>5

\* No consent is asked for an address of this machine, or one agreed to.
LEMMA NotAsked ==
    ASSUME ProvidersInv, ~overwrote, NEW url, url # NoUrl, ~ConsentRequired(View(file), url)
    PROVE  url \in agreed \cup LocalAddresses
<1>1. url \in LocalAddresses \/ View(file).confirmed = url
    BY DEF ConsentRequired
<1>2. View(file).confirmed # NoUrl => View(file).confirmed \in Permitted
    BY ConfirmedAgreed DEF ProvidersInv, FormsInv, AgreedInv
<1> QED
    BY <1>1, <1>2 DEF Permitted

LEMMA TryAgreed ==
    ASSUME ProvidersInv, TryDraft \/ RequestEnable \/ AgreeToDraft
    PROVE  AgreedInv'
<1>1. UNCHANGED <<file, overwrote, worked>> /\ agreed \subseteq agreed'
    BY DEF TryDraft, RequestEnable, AgreeToDraft
<1>2. CASE overwrote
    BY <1>1, <1>2 DEF AgreedInv
<1>3. CASE UNCHANGED llmTests
    BY <1>1, <1>3, SameAgreed
<1>4. page.provider = "builtin" => DraftUrl = BuiltInUrl
    BY DEF DraftUrl
<1>5. page.provider = "builtin" /\ ~overwrote => SavedUrl(file, page.provider) = BuiltInUrl
    BY BuiltInFixed DEF ProvidersInv, FormsInv, AgreedInv, Sound
<1>6. ASSUME ~overwrote, TryDraft, StartTest("draft", DraftUrl),
             ~ConsentRequired(View(file), DraftUrl)
      PROVE  AgreedInv'
    <2>1. DraftUrl \in agreed \cup LocalAddresses
        BY <1>6, NotAsked DEF TryDraft
    <2>2. DraftUrl \in agreed' \cup LocalAddresses
        BY <1>1, <2>1
    <2> QED
        BY <1>1, <1>4, <1>6, <2>2, StartAgreed
<1>7. ASSUME ~overwrote, RequestEnable, StartTest("saved", SavedUrl(file, page.provider)),
             ~ConsentRequired(View(file), SavedUrl(file, page.provider))
      PROVE  AgreedInv'
    <2>1. SavedUrl(file, page.provider) # NoUrl
        <3>1. SavedReady(file, page.provider)
            BY <1>7 DEF RequestEnable
        <3> QED
            BY <3>1 DEF SavedReady, SavedUrl
    <2>2. SavedUrl(file, page.provider) \in agreed \cup LocalAddresses
        BY <1>7, <2>1, NotAsked
    <2>3. SavedUrl(file, page.provider) \in agreed' \cup LocalAddresses
        BY <1>1, <2>2
    <2> QED
        BY <1>1, <1>5, <1>7, <2>3, StartAgreed
<1>8. ASSUME AgreeToDraft, StartTest("draft", DraftUrl), DraftUrl = page.target
      PROVE  AgreedInv'
    <2>1. DraftUrl \in agreed' \cup LocalAddresses
        BY <1>8 DEF AgreeToDraft
    <2> QED
        BY <1>1, <1>4, <1>8, <2>1, StartAgreed
<1>9. CASE TryDraft
    BY <1>2, <1>3, <1>6, <1>9 DEF TryDraft
<1>10. CASE RequestEnable
    BY <1>2, <1>3, <1>7, <1>10 DEF RequestEnable
<1>11. CASE AgreeToDraft
    BY <1>3, <1>8, <1>11 DEF AgreeToDraft
<1> QED
    BY <1>9, <1>10, <1>11

LEMMA HandlerSavesAgreed ==
    ASSUME ProvidersInv, ConsentSaved \/ TurnedOff \/ Selected
    PROVE  AgreedInv'
<1> SUFFICES ASSUME ~overwrote'
             PROVE  Sound(file, llmTests, Permitted, worked)'
    BY DEF AgreedInv
<1>1. /\ UNCHANGED <<agreed, worked>> /\ Permitted' = Permitted
    BY DEF ConsentSaved, TurnedOff, Selected, Permitted
<1>2. FormsInv /\ page \in Pages /\ HandlerInv /\ llmTests \subseteq Tests /\ file \in Catalogs
      /\ Valid(file) /\ page.provider \in Presets
    BY DEF ProvidersInv, FormsInv, Pages
<1>3. ASSUME SaveFails(Merge(file, handler.view)) \/ SaveFails(handler.catalog),
             UNCHANGED llmTests
      PROVE  Sound(file, llmTests, Permitted, worked)'
    BY <1>1, <1>3, SameAgreed DEF SaveFails, AgreedInv
<1>4. ASSUME NEW cat, Saves(handler.read, cat)
      PROVE  ~overwrote /\ file = handler.read /\ file' = cat
             /\ Sound(file, llmTests, Permitted, worked)
    BY <1>2, <1>4, SavesOver DEF ProvidersInv, AgreedInv
<1>5. CASE (ConsentSaved \/ TurnedOff) /\ Saves(handler.read, Merge(file, handler.view))
    <2> DEFINE view == handler.view
               cat == Merge(file, view)
    <2>1. /\ file = handler.read /\ file' = cat /\ Sound(file, llmTests, Permitted, worked)
        BY <1>4, <1>5
    <2>2. /\ view \in Views /\ view.url = View(file).url /\ view.enabled = FALSE
          /\ ConsentSaved => view.confirmed = SavedUrl(file, page.provider)
                             /\ view.confirmed \in agreed
          /\ TurnedOff => view.confirmed = View(file).confirmed
        <3>1. /\ ConsentSaved => Consenting(file, view)
              /\ TurnedOff => TurningOff(file, view)
            BY <1>2, <2>1, HandlerHolds DEF ConsentSaved, TurnedOff
        <3> QED
            BY <1>2, <1>5, <3>1, HeldView
    <2>3. view.confirmed # NoUrl => view.confirmed \in Permitted
        BY <1>2, <1>5, <2>1, <2>2, ConfirmedAgreed DEF Permitted
    <2>4. Sound(cat, llmTests, Permitted, worked)
        BY <1>2, <2>1, <2>2, <2>3, MergeSound
    <2>5. CASE UNCHANGED llmTests
        BY <1>1, <2>1, <2>4, <2>5
    <2>6. CASE ConsentSaved /\ StartTest("saved", view.confirmed)
        <3> DEFINE t == [kind |-> "saved", provider |-> page.provider, url |-> view.confirmed,
                         at |-> "reading"]
        <3>1. llmTests' \subseteq llmTests \cup {t}
            BY <2>6 DEF StartTest
        <3>2. view.confirmed \in Permitted /\ view.confirmed = SavedUrl(file, page.provider)
            BY <2>2, <2>6 DEF Permitted
        <3>3. page.provider = "builtin" => BuiltInUrl \in Permitted
            BY <1>2, <2>1, <3>2, BuiltInFixed DEF Sound
        <3>4. LlmIndex(cat, page.provider) # 0 =>
                  SavedUrl(cat, page.provider) = SavedUrl(file, page.provider)
            BY <1>2, <2>1, <2>2, MergeFinds DEF Sound
        <3>5. TestAgreed(cat, t, Permitted, worked)
            <4> HIDE DEF cat, view
            <4> QED
                BY <3>2, <3>3, <3>4 DEF TestAgreed
        <3> HIDE DEF t, cat
        <3>6. Sound(cat, llmTests', Permitted, worked)
            BY <2>4, <3>1, <3>5, SoundWith
        <3> QED
            BY <1>1, <2>1, <3>6
    <2>7. UNCHANGED llmTests \/ (ConsentSaved /\ StartTest("saved", view.confirmed))
        BY <1>5 DEF ConsentSaved, TurnedOff
    <2> QED
        BY <2>5, <2>6, <2>7
<1>6. CASE Selected /\ Saves(handler.read, handler.catalog)
    <2>1. /\ file = handler.read /\ file' = handler.catalog
          /\ Sound(file, llmTests, Permitted, worked) /\ UNCHANGED llmTests
        BY <1>4, <1>6 DEF Selected
    <2>2. Selecting(file, file')
        BY <1>2, <1>6, <2>1, HandlerHolds DEF Selected
    <2>3. ASSUME NEW preset \in Presets, SavedReady(file, preset), file' = SelectLlm(file, preset)
          PROVE  Sound(file', llmTests, Permitted, worked)
        BY <1>2, <2>1, <2>3, SelectSound DEF SavedReady
    <2>4. ASSUME NEW asr \in file.cloud, file' = [file EXCEPT !.asr = asr]
          PROVE  Sound(file', llmTests, Permitted, worked)
        <3>1. file' \in Catalogs /\ file'.llms = file.llms /\ file'.llm = file.llm
            BY <1>2, <2>4 DEF Catalogs
        <3> QED
            BY <1>2, <2>1, <3>1, AsrSound
    <2>5. Sound(file', llmTests, Permitted, worked)
        BY <2>2, <2>3, <2>4 DEF Selecting
    <2> QED
        BY <1>1, <2>1, <2>5
<1>7. ASSUME ConsentSaved, SaveFails(Merge(file, handler.view))
      PROVE  UNCHANGED llmTests \/ Saves(handler.read, Merge(file, handler.view))
    BY <1>7 DEF ConsentSaved
<1>8. CASE ConsentSaved
    BY <1>3, <1>5, <1>8 DEF ConsentSaved
<1>9. CASE TurnedOff
    BY <1>3, <1>5, <1>9 DEF TurnedOff
<1>10. CASE Selected
    BY <1>3, <1>6, <1>10 DEF Selected
<1> QED
    BY <1>8, <1>9, <1>10

LEMMA TestAgrees ==
    ASSUME ProvidersInv, NEW t \in llmTests, TestReads(t) \/ TestAnswers(t) \/ TestEnables(t)
    PROVE  AgreedInv'
<1> SUFFICES ASSUME ~overwrote'
             PROVE  Sound(file, llmTests, Permitted, worked)'
    BY DEF AgreedInv
<1>1. UNCHANGED agreed /\ Permitted' = Permitted /\ worked \subseteq worked'
    BY DEF TestReads, TestAnswers, TestEnables, Permitted
<1>2. FormsInv /\ llmTests \subseteq Tests /\ file \in Catalogs
      /\ Valid(file) /\ t.provider \in Presets /\ t.url \in Urls /\ t \in Tests
    BY DEF ProvidersInv, FormsInv, Tests
<1>3. ~overwrote
    BY <1>2 DEF TestReads, TestAnswers, TestEnables, Saves, SaveFails, FormsInv
<1>4. Sound(file, llmTests, Permitted, worked) /\ TestAgreed(file, t, Permitted, worked)
    BY <1>3 DEF ProvidersInv, AgreedInv, Sound
<1>5. ASSUME UNCHANGED <<file, overwrote>>, llmTests' \subseteq llmTests
      PROVE  Sound(file, llmTests, Permitted, worked)'
    BY <1>1, <1>5, SameAgreed DEF AgreedInv
<1>6. ASSUME NEW v, Becomes(t, v), UNCHANGED file, TestAgreed(file, v, Permitted, worked')
      PROVE  Sound(file, llmTests, Permitted, worked)'
    <2>1. Sound(file, llmTests, Permitted, worked')
        BY <1>1, <1>4, SoundMonotone
    <2>2. llmTests' \subseteq llmTests \cup {v}
        BY <1>6 DEF Becomes
    <2>3. Sound(file, llmTests', Permitted, worked')
        BY <1>6, <2>1, <2>2, SoundWith
    <2> QED
        BY <1>1, <1>6, <2>3
<1>7. CASE TestReads(t)
    <2> DEFINE url == SavedUrl(file, t.provider)
               v == [t EXCEPT !.url = url, !.at = "testing"]
    <2>1. UNCHANGED <<file, overwrote, worked>> /\ t.at = "reading"
        BY <1>7 DEF TestReads
    <2>2. CASE ~SavedReady(file, t.provider)
        BY <1>5, <1>7, <2>1, <2>2 DEF TestReads, Concludes
    <2>3. CASE SavedReady(file, t.provider)
        <3>1. Becomes(t, v)
            BY <1>7, <2>3 DEF TestReads
        <3>2. url \in Permitted
            BY <1>4, <2>1, <2>3 DEF TestAgreed, SavedReady
        <3>3. t.provider = "builtin" => url = BuiltInUrl
            BY <1>2, <1>4, BuiltInFixed DEF Sound
        <3> HIDE DEF url
        <3>4. v.at = "testing" /\ v.url = url /\ v.provider = t.provider
            BY <1>2 DEF Tests
        <3> HIDE DEF v
        <3>5. TestAgreed(file, v, Permitted, worked')
            BY <3>2, <3>3, <3>4 DEF TestAgreed
        <3> QED
            BY <1>6, <2>1, <3>1, <3>5
    <2> QED
        BY <2>2, <2>3
<1>8. CASE TestAnswers(t)
    <2> DEFINE v == [t EXCEPT !.at = "saving"]
    <2>1. UNCHANGED <<file, overwrote>> /\ t.at = "testing"
        BY <1>8 DEF TestAnswers
    <2>2. CASE Concludes(t, FALSE)
        BY <1>5, <2>1, <2>2 DEF Concludes
    <2>3. CASE Becomes(t, v) /\ worked' = worked \cup {t.url}
        <3>1. v.at = "saving" /\ v.url = t.url /\ v.provider = t.provider
            BY <1>2 DEF Tests
        <3> HIDE DEF v
        <3>2. TestAgreed(file, v, Permitted, worked')
            BY <1>4, <2>1, <2>3, <3>1 DEF TestAgreed
        <3> QED
            BY <1>6, <2>1, <2>3, <3>2
    <2> QED
        BY <1>8, <2>2, <2>3 DEF TestAnswers
<1>9. CASE TestEnables(t)
    <2> DEFINE cat == EnableLlm(file, t.provider, t.url)
    <2>1. t.at = "saving" /\ UNCHANGED worked /\ llmTests' = llmTests \ {t}
          /\ (Saves(file, cat) \/ SaveFails(cat))
        BY <1>9 DEF TestEnables, Concludes
    <2>2. CASE SaveFails(cat)
        BY <1>5, <2>1, <2>2 DEF SaveFails
    <2>3. CASE Saves(file, cat)
        <3>1. t.url \in Permitted /\ t.url \in worked
              /\ (t.provider = "builtin" => t.url = BuiltInUrl)
            BY <1>4, <2>1 DEF TestAgreed
        <3>2. Valid(cat) /\ file' = cat
            BY <2>3 DEF Saves
        <3>3. Sound(cat, llmTests, Permitted, worked)
            BY <1>2, <1>4, <3>1, <3>2, EnableSound
        <3>4. Sound(cat, llmTests', Permitted, worked)
            BY <2>1, <3>3, SoundMonotone
        <3> QED
            BY <1>1, <2>1, <3>2, <3>4
    <2> QED
        BY <2>1, <2>2, <2>3
<1> QED
    BY <1>7, <1>8, <1>9

LEMMA AsrAgreed ==
    ASSUME ProvidersInv, WriterSaves \/ (\E asr \in CloudAsr : ConfigureAsr(asr))
    PROVE  AgreedInv'
<1> SUFFICES ASSUME ~overwrote'
             PROVE  Sound(file, llmTests, Permitted, worked)'
    BY DEF AgreedInv
<1>1. UNCHANGED <<agreed, worked, llmTests>> /\ Permitted' = Permitted
    BY DEF WriterSaves, ConfigureAsr, Permitted
<1>2. FormsInv /\ llmTests \subseteq Tests /\ file \in Catalogs
    BY DEF ProvidersInv, FormsInv
<1>3. ~overwrote /\ file' \in Catalogs /\ file'.llms = file.llms /\ file'.llm = file.llm
    <2>1. CASE WriterSaves
        <3>1. Saves(writer.read, [writer.read EXCEPT !.asr = "local"])
            BY <2>1 DEF WriterSaves
        <3>2. ~overwrote /\ file' = [file EXCEPT !.asr = "local"]
            BY <1>2, <3>1, SavesOver
        <3> QED
            BY <1>2, <3>2 DEF Catalogs
    <2>2. ASSUME NEW asr \in CloudAsr, ConfigureAsr(asr)
          PROVE  ~overwrote /\ file' \in Catalogs /\ file'.llms = file.llms
                 /\ file'.llm = file.llm
        BY <1>2, <2>2 DEF ConfigureAsr, Catalogs
    <2> QED
        BY <2>1, <2>2
<1>4. Sound(file, llmTests, Permitted, worked)
    BY <1>3 DEF ProvidersInv, AgreedInv
<1>5. Sound(file', llmTests, Permitted, worked)
    BY <1>2, <1>3, <1>4, AsrSound
<1> QED
    BY <1>1, <1>5

LEMMA InitProvidersInv == ProvidersInit => ProvidersInv
<1> SUFFICES ASSUME ProvidersInit
             PROVE  ProvidersInv
    OBVIOUS
<1>1. FormsInv
    BY InitForms
<1>2. PICK url \in Addresses \ LocalAddresses, consents \in BOOLEAN, fresh \in BOOLEAN :
        /\ file = [asr |-> "volcengine", cloud |-> {"volcengine"},
                   llm |-> IF fresh THEN "none" ELSE "legacy",
                   llms |-> IF fresh THEN <<>> ELSE
                       <<[id |-> "legacy", url |-> url, ready |-> TRUE, enabled |-> TRUE,
                          consent |-> IF consents THEN url ELSE NoUrl]>>]
        /\ agreed = IF consents /\ ~fresh THEN {url} ELSE {}
    BY DEF ProvidersInit
<1> DEFINE entry == [id |-> "legacy", url |-> url, ready |-> TRUE, enabled |-> TRUE,
                     consent |-> IF consents THEN url ELSE NoUrl]
<1>3. /\ file.llms = IF fresh THEN <<>> ELSE <<entry>>
      /\ file.llm = IF fresh THEN "none" ELSE "legacy"
    BY <1>2
<1>4. llmTests = {} /\ worked = agreed
    BY DEF ProvidersInit
<1>5. entry.id = "legacy" /\ entry.url = url /\ url # NoUrl
      /\ entry.consent = IF consents THEN url ELSE NoUrl
    BY UrlFacts
<1> HIDE DEF entry
<1>6. \A i \in DOMAIN file.llms : ~fresh /\ file.llms[i] = entry
    BY <1>3
<1>7. ~fresh /\ consents => agreed = {url}
    BY <1>2
<1>8. Agreeable(file, Permitted, worked)
    BY <1>4, <1>5, <1>6, <1>7 DEF Agreeable, Permitted
<1>9. BuiltInAt(file)
    BY <1>5, <1>6 DEF BuiltInAt
<1>10. file.llms # <<>> => file.llm # "none"
    BY <1>3
<1> QED
    BY <1>1, <1>4, <1>8, <1>9, <1>10 DEF ProvidersInv, AgreedInv, Sound

LEMMA NextProvidersInv == ProvidersInv /\ [ProvidersNext]_providersVars => ProvidersInv'
<1> SUFFICES ASSUME ProvidersInv, [ProvidersNext]_providersVars
             PROVE  ProvidersInv'
    OBVIOUS
<1>0. FormsInv
    BY DEF ProvidersInv
<1>1. CASE \/ \E preset \in Presets, url \in Addresses : OpenProvider(preset, url)
           \/ CloseProvider \/ Refuse
    <2>1. UNCHANGED <<file, overwrote, llmTests, agreed, worked>>
        BY <1>1 DEF OpenProvider, CloseProvider, Refuse
    <2> QED
        BY <1>0, <1>1, <2>1, PageForms, SameAgreed DEF ProvidersInv
<1>2. CASE TryDraft \/ RequestEnable \/ AgreeToDraft
    BY <1>0, <1>2, TryForms, TryAgreed DEF ProvidersInv
<1>3. CASE \/ AgreeToSaved \/ TurnOff \/ SelectProvider
           \/ \E asr \in CloudAsr : SelectCloudAsr(asr)
    <2>1. UNCHANGED <<file, overwrote, llmTests, worked>> /\ agreed \subseteq agreed'
        BY <1>3 DEF AgreeToSaved, TurnOff, SelectProvider, SelectCloudAsr
    <2> QED
        BY <1>0, <1>3, <2>1, LoadForms, SameAgreed DEF ProvidersInv
<1>4. CASE ConsentSaved \/ TurnedOff \/ Selected
    BY <1>0, <1>4, SaveForms, HandlerSavesAgreed DEF ProvidersInv
<1>5. CASE \E t \in llmTests : TestReads(t) \/ TestAnswers(t) \/ TestEnables(t)
    BY <1>0, <1>5, TestForms, TestAgrees DEF ProvidersInv
<1>6. CASE ClosureRuns \/ WriterReads
    <2>1. UNCHANGED <<file, overwrote, llmTests, agreed, worked>>
        BY <1>6 DEF ClosureRuns, WriterReads
    <2> QED
        BY <1>0, <1>6, <2>1, OtherForms, SameAgreed DEF ProvidersInv
<1>7. CASE WriterSaves \/ \E asr \in CloudAsr : ConfigureAsr(asr)
    BY <1>0, <1>7, OtherForms, AsrAgreed DEF ProvidersInv
<1>8. CASE UNCHANGED providersVars
    <2>1. UNCHANGED <<file, overwrote, llmTests, agreed, worked>>
        BY <1>8 DEF providersVars
    <2> QED
        BY <1>0, <1>8, <2>1, StutterForms, SameAgreed DEF ProvidersInv
<1> QED
    BY <1>1, <1>2, <1>3, <1>4, <1>5, <1>6, <1>7, <1>8 DEF ProvidersNext

LEMMA ProvidersAlways == ProvidersSpec => []ProvidersInv
BY InitProvidersInv, NextProvidersInv, PTL DEF ProvidersSpec

(* The variables of the providers file and the models page hold what the    *)
(* code's types allow, and every file saved is one that the next load       *)
(* accepts, whatever a handler, a test and the thread of a local model      *)
(* overwrote of each other (json_settings_store.rs, settings.rs).           *)
THEOREM ProvidersTypeCorrect == ProvidersSpec => []ProvidersTypeOK
<1>1. ProvidersInv => ProvidersTypeOK
    <2> SUFFICES ASSUME ProvidersInv
                 PROVE  ProvidersTypeOK
        OBVIOUS
    <2>1. FormsInv /\ HandlerInv /\ WriterInv
        BY DEF ProvidersInv, FormsInv
    <2>2. handler.at \in {"idle", "consenting", "turning off", "selecting"}
        BY <2>1, HandlerHolds
    <2>3. writer.at \in {"idle", "writing"}
        BY <2>1 DEF WriterInv, NotBusy
    <2> QED
        BY <2>1, <2>2, <2>3 DEF FormsInv, ProvidersTypeOK, Catalogs, Pages, Tests
<1> QED
    BY <1>1, ProvidersAlways, PTL

(* Text is sent only to an address of this machine or one the user agreed   *)
(* to in a dialog, and where a connection test succeeded, as long as no     *)
(* thread overwrote a change it had not read (settings_ui/llm_settings.rs,  *)
(* provider_configuration.rs, settings.rs).                                 *)
THEOREM SendsWhereAgreed == ProvidersSpec => []SendsOnlyWhereAgreed
<1>1. ProvidersInv => SendsOnlyWhereAgreed
    <2> SUFFICES ASSUME ProvidersInv, View(file).enabled, ~overwrote
                 PROVE  /\ View(file).url \in agreed \cup LocalAddresses
                        /\ View(file).url \in worked
        BY DEF SendsOnlyWhereAgreed
    <2> DEFINE i == ShownIndex(file)
    <2>1. file \in Catalogs /\ Sound(file, llmTests, Permitted, worked)
        BY DEF ProvidersInv, FormsInv, AgreedInv
    <2>2. /\ i # 0 /\ file.llms[i].enabled /\ file.llms[i].consent = file.llms[i].url
          /\ file.llms[i].consent # NoUrl /\ View(file).url = file.llms[i].url
        BY <2>1, ViewIs
    <2>3. i \in DOMAIN file.llms
        BY <2>1, <2>2, ShownIndexFacts
    <2> QED
        BY <2>1, <2>2, <2>3 DEF Sound, Agreeable, Permitted
<1> QED
    BY <1>1, ProvidersAlways, PTL

HIDE ProviderAssumption
=============================================================================
