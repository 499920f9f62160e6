----------------------------- MODULE MacShortcuts -----------------------------
(***************************************************************************)
(* The shortcuts of macOS: the event tap and its modifier state            *)
(* (macos_shortcut_monitor/event_tap.rs), the polling of the keyboard while *)
(* the application is not trusted (untrusted_poll.rs), the window's own     *)
(* events (local_capture.rs), the controller and its capture slot           *)
(* (macos_shortcut_monitor.rs) and the page that begins a capture           *)
(* (settings_actions/shortcut.rs).                                          *)
(*                                                                         *)
(* The tap sees every event of the keyboard and answers before anybody else *)
(* does: keep it or drop it.  The list of shortcuts, the pause and a capture *)
(* change while keys are down.                                              *)
(***************************************************************************)
EXTENDS Integers, Sequences, SequencesExt, FiniteSets

CONSTANTS
    Fn, RightCommand, LeftCommand,  \* modifiers
    Letter, Escape,                 \* other keys
    Chord,                          \* the shortcut of a Command and Letter
    NoKeys,
    MaxKeyEvents,       \* bound: events of the keyboard that the tap sees
    MaxPolledEvents,    \* bound: the same without the permission
    MaxConfigurations,  \* bound: edits of the list and pauses
    MaxMacCaptures      \* bound: captures begun

Modifiers == {Fn, RightCommand, LeftCommand}
Keys == {Letter, Escape}
MacShortcuts == Modifiers \cup {Chord}

ASSUME MacShortcutsAssumption ==
    /\ IsInjective(<<Fn, RightCommand, LeftCommand, Letter, Escape, Chord, NoKeys>>)
    /\ {MaxKeyEvents, MaxPolledEvents, MaxConfigurations, MaxMacCaptures} \subseteq Nat

VARIABLES
    bindings,    \* MacOsShortcutController.shortcuts
    slot,        \* MacOsShortcutController.capture: is a capture active
    captured,    \* what the capture's thread was sent, until its closure ran
    dictates,    \* shortcuts_enabled()
    records,     \* is_recording()
    tap,         \* the event tap runs; before that the keyboard is polled
    down, usedInChord, suppressed,  \* ModifierState
    previouslyDown, usedModifiers,  \* UntrustedShortcutDetector.observe
    armed, capturePrevious, order,  \* UntrustedShortcutDetector.observe_capture
    localDown,   \* LocalCaptureState.modifiers_down
    held,        \* the keys that are down
    tapSends,    \* what the tap sent for the last key: Cancel, Toggle, or nothing
    stroke,      \* history: of each modifier, its press under way or the last one
    keyEvents, configurations, macCaptures

macVars == <<bindings, slot, captured, dictates, records, tap, down, usedInChord, suppressed,
             previouslyDown, usedModifiers, armed, capturePrevious, order, localDown, held,
             tapSends, stroke, keyEvents, configurations, macCaptures>>

tapVars == <<down, usedInChord, suppressed>>
pollVars == <<previouslyDown, usedModifiers, armed, capturePrevious, order>>
pageVars == <<bindings, dictates, records, configurations, macCaptures>>

-----------------------------------------------------------------------------
\* What the rest of the system made of a press: the halves that went through, the
\* toggles and the requests for permission it caused; whether a key was pressed
\* meanwhile, and whether a capture, the list or the pause changed meanwhile.
NoStroke == [through |-> {}, acts |-> 0, keyed |-> FALSE, wavered |-> FALSE]

MacInit ==
    /\ bindings \in SUBSET MacShortcuts /\ slot = FALSE /\ captured = NoKeys
    /\ dictates \in BOOLEAN /\ records \in BOOLEAN /\ tap \in BOOLEAN
    /\ down = {} /\ usedInChord = {} /\ suppressed = {}
    /\ previouslyDown = {} /\ usedModifiers = {}
    /\ armed = FALSE /\ capturePrevious = {} /\ order = <<>>
    /\ localDown = {} /\ held = {} /\ tapSends = "nothing"
    /\ stroke = [m \in Modifiers |-> NoStroke]
    /\ keyEvents = 0 /\ configurations = 0 /\ macCaptures = 0

\* modifier_is_down: both Command keys have one flag.
FlagGroup(m) == IF m = Fn THEN {Fn} ELSE {RightCommand, LeftCommand}
FlagSet(m, keys) == FlagGroup(m) \cap keys # {}

\* matches_key_down
ChordPressed(k, keys) ==
    k = Letter /\ Chord \in bindings /\ FlagSet(RightCommand, keys) /\ ~FlagSet(Fn, keys)

ReservesFn == slot \/ (dictates /\ Fn \in bindings)

\* MacOsShortcut::physical and validate: the chord, or an error that is answered.
Physical(k, keys) ==
    IF k = Letter /\ FlagSet(RightCommand, keys) /\ ~FlagSet(Fn, keys)
    THEN Chord ELSE "refused"

\* finish_capture and cancel_capture take the sender: one answer for a capture.
AnswerCapture(what) == slot' = FALSE /\ captured' = what
NoCapture == UNCHANGED <<slot, captured>>

Wavers == stroke' = [m \in Modifiers |->
                        IF m \in held THEN [stroke[m] EXCEPT !.wavered = TRUE] ELSE stroke[m]]

-----------------------------------------------------------------------------
(* handle_modifier_event: the tap sees a modifier change.                   *)

ModifierGoesDown(m) ==
    /\ m \notin held
    /\ IF ~dictates /\ ~slot
       THEN /\ down' = down \ {m} /\ usedInChord' = usedInChord \ {m}
            /\ suppressed' = suppressed \ {m}
       ELSE /\ down' = down \cup {m} /\ usedInChord' = usedInChord \ {m}
            /\ suppressed' = IF m = Fn /\ ReservesFn THEN suppressed \cup {m}
                             ELSE suppressed \ {m}
    /\ stroke' = [stroke EXCEPT ![m] =
           [NoStroke EXCEPT !.through = IF m \in suppressed' THEN {} ELSE {"down"}]]
    /\ NoCapture

\* The other Command is held: its flag makes this release look like a press.
ReleaseLooksDown(m) ==
    /\ m \in held /\ FlagSet(m, held \ {m})
    /\ IF ~dictates /\ ~slot
       THEN /\ down' = down \ {m} /\ usedInChord' = usedInChord \ {m}
       ELSE /\ down' = down \cup {m} /\ usedInChord' = usedInChord \ {m}
    /\ suppressed' = suppressed \ {m}
    /\ stroke' = [stroke EXCEPT ![m].through = @ \cup {"up"}]
    /\ NoCapture

ModifierGoesUp(m) ==
    /\ m \in held /\ ~FlagSet(m, held \ {m})
    /\ down' = down \ {m} /\ usedInChord' = usedInChord \ {m}
    /\ suppressed' = suppressed \ {m}
    /\ LET alone == m \in down /\ m \notin usedInChord
           toggles == alone /\ ~slot /\ dictates /\ m \in bindings
           drops == m \in suppressed /\ m \in down /\ (~alone \/ slot \/ toggles) IN
       /\ stroke' = [x \in Modifiers |->
              IF x = m
              THEN [stroke[m] EXCEPT !.acts = IF toggles THEN @ + 1 ELSE @,
                                     !.through = IF drops THEN @ ELSE @ \cup {"up"}]
              ELSE [stroke[x] EXCEPT !.wavered = @ \/ (alone /\ slot /\ x \in held)]]
       /\ IF alone /\ slot THEN AnswerCapture(m) ELSE NoCapture

Flips(keys, k) == IF k \in keys THEN keys \ {k} ELSE keys \cup {k}

TapModifier ==
    /\ tap /\ keyEvents < MaxKeyEvents /\ keyEvents' = keyEvents + 1
    /\ \E m \in Modifiers :
          /\ ModifierGoesDown(m) \/ ReleaseLooksDown(m) \/ ModifierGoesUp(m)
          /\ held' = Flips(held, m)
    /\ UNCHANGED <<tapSends, pageVars, tap, pollVars, localDown>>

(* handle_event of a key that is no modifier: the Escape that cancels a     *)
(* recording, the key that ends a capture, a shortcut, or any other key.    *)

\* mark_active_modifiers_used
MarkUsed == usedInChord' = usedInChord \cup down

KeyGoes == [m \in Modifiers |-> IF m \in held THEN [stroke[m] EXCEPT !.keyed = TRUE]
                               ELSE stroke[m]]

\* A key that ends a capture does nothing else.
Sends(k) == IF slot THEN "nothing"
            ELSE IF k = Escape /\ records THEN "cancel"
            ELSE IF dictates /\ ChordPressed(k, held) THEN "toggle" ELSE "nothing"

\* Mutant of TapKey: a key pressed while shortcuts are off is not part of a chord.
TapKey_MarksWhenOn ==
    /\ tap /\ keyEvents < MaxKeyEvents /\ keyEvents' = keyEvents + 1
    /\ \E k \in Keys \ held :
          /\ held' = held \cup {k}
          /\ IF dictates THEN MarkUsed ELSE UNCHANGED usedInChord
          /\ stroke' = KeyGoes /\ tapSends' = Sends(k)
          /\ IF slot
             THEN AnswerCapture(IF k = Escape THEN "cancelled" ELSE Physical(k, held))
             ELSE NoCapture
    /\ UNCHANGED <<pageVars, tap, down, suppressed, pollVars, localDown>>

\* A repeat ends no capture and toggles nothing; it marks once more.
TapKey ==
    /\ tap /\ keyEvents < MaxKeyEvents /\ keyEvents' = keyEvents + 1
    /\ \E k \in Keys \ held :
          /\ held' = held \cup {k}
          /\ MarkUsed
          /\ stroke' = KeyGoes /\ tapSends' = Sends(k)
          /\ IF slot
             THEN AnswerCapture(IF k = Escape THEN "cancelled" ELSE Physical(k, held))
             ELSE NoCapture
    /\ UNCHANGED <<pageVars, tap, down, suppressed, pollVars, localDown>>

TapRepeats ==
    /\ tap /\ \E k \in Keys \cap held : TRUE
    /\ MarkUsed /\ stroke' = KeyGoes
    /\ UNCHANGED <<tapSends, pageVars, slot, captured, tap, down, suppressed, pollVars, localDown,
                   held, keyEvents>>

TapKeyUp ==
    /\ tap
    /\ \E k \in Keys \cap held : held' = held \ {k}
    /\ UNCHANGED <<tapSends, pageVars, slot, captured, tap, tapVars, pollVars, localDown, stroke,
                   keyEvents>>

-----------------------------------------------------------------------------
(* Without the permission: the keyboard's state is sampled, and the window  *)
(* sees the events of its own while it has the focus.                       *)

\* Keys change between two samples.  The window's monitor looks at the event:
\* a capture may end at a key, or at the release of a modifier it saw go down.
WindowEvent(k, keys) ==
    IF ~slot THEN localDown' = {} /\ NoCapture
    ELSE CASE k \in Keys /\ k \notin held ->
                   /\ localDown' = {}
                   /\ AnswerCapture(IF k = Escape THEN "cancelled" ELSE Physical(k, keys))
           [] k \in Modifiers /\ FlagSet(k, keys) ->
                   localDown' = localDown \cup {k} /\ NoCapture
           [] k \in Modifiers /\ ~FlagSet(k, keys) /\ k \in localDown ->
                   localDown' = {} /\ AnswerCapture(k)
           [] OTHER -> UNCHANGED localDown /\ NoCapture

FreeKey ==
    /\ ~tap /\ keyEvents < MaxPolledEvents /\ keyEvents' = keyEvents + 1
    /\ \E k \in Modifiers \cup Keys :
          /\ held' = Flips(held, k)
          /\ \/ WindowEvent(k, held')
             \/ UNCHANGED <<localDown, slot, captured>>   \* another program has the focus
          /\ stroke' = IF k \in Modifiers \ held THEN [stroke EXCEPT ![k] = NoStroke]
                       ELSE stroke
    /\ UNCHANGED <<tapSends, pageVars, tap, tapVars, pollVars>>

\* observe: which keys are looked at, which shortcut it asks permission for.
Looked == {m \in Modifiers \cap bindings : m \in held}
          \cup (IF Chord \in bindings THEN {Letter} \cap held ELSE {})
Sampled == IF \E m \in Modifiers \cap bindings : m \in held THEN held ELSE Looked
Triggering ==
    {m \in Modifiers \cap bindings :
        m \notin Sampled /\ m \in previouslyDown /\ m \notin usedModifiers}
    \cup {s \in {Chord} : ChordPressed(Letter, held) /\ Letter \in Sampled
                             /\ Letter \notin previouslyDown}

Sample ==
    /\ ~tap /\ ~slot
    /\ previouslyDown' = Sampled
    /\ LET bound == Modifiers \cap bindings
           released == {m \in bound : m \notin Sampled /\ m \in previouslyDown} IN
       usedModifiers' = (usedModifiers \ released)
                        \cup {m \in bound : m \in Sampled /\ Sampled # {m}}
    /\ stroke' = [m \in Modifiers |-> IF m \in Triggering /\ dictates
                                      THEN [stroke[m] EXCEPT !.acts = @ + 1] ELSE stroke[m]]
    /\ armed' = FALSE /\ capturePrevious' = {} /\ order' = <<>>
    /\ UNCHANGED <<tapSends, pageVars, slot, captured, tap, tapVars, localDown, held, keyEvents>>

\* observe_capture: armed once all keys are up; then a new key, or the first
\* modifier that went down and is up again.
SampleCapture ==
    /\ ~tap /\ slot
    /\ capturePrevious' = held
    /\ IF ~armed
       THEN armed' = (held = {}) /\ UNCHANGED order /\ NoCapture
       ELSE /\ UNCHANGED armed
            /\ \E pressed \in SetToSeqs((Modifiers \cap held) \ (capturePrevious \cup ToSet(order))) :
                  order' = order \o pressed
            /\ LET new == (Keys \cap held) \ capturePrevious
                   up == {i \in DOMAIN order' : order'[i] \in capturePrevious \ held} IN
               IF new # {}
               THEN \E k \in new :
                       AnswerCapture(IF k = Escape THEN "cancelled" ELSE Physical(k, held))
               ELSE IF up = {} THEN NoCapture
               ELSE \E i \in up : (\A j \in up : i <= j) /\ AnswerCapture(order'[i])
    /\ UNCHANGED <<tapSends, pageVars, tap, tapVars, previouslyDown, usedModifiers, localDown, held,
                   stroke, keyEvents>>

\* The permission was given: run_event_tap begins with a fresh ModifierState,
\* and the detector is dropped.
StartTap ==
    /\ ~tap /\ tap' = TRUE
    /\ previouslyDown' = {} /\ usedModifiers' = {}
    /\ armed' = FALSE /\ capturePrevious' = {} /\ order' = <<>>
    /\ Wavers
    /\ UNCHANGED <<tapSends, pageVars, slot, captured, tapVars, localDown, held, keyEvents>>

-----------------------------------------------------------------------------
(* The page, the tray and the dictation.                                    *)

BeginMacCapture ==
    /\ ~slot /\ captured = NoKeys
    /\ macCaptures < MaxMacCaptures /\ macCaptures' = macCaptures + 1
    /\ slot' = TRUE /\ Wavers
    /\ UNCHANGED <<tapSends, bindings, captured, dictates, records, configurations, tap, tapVars,
                   pollVars, localDown, held, keyEvents>>

\* apply_captured_shortcut: added, or put in the place of another one.
ApplyMacCapture ==
    /\ captured # NoKeys /\ captured' = NoKeys
    /\ IF captured \in MacShortcuts \ bindings
       THEN /\ \E replaced \in {{}} \cup {{s} : s \in bindings} :
                  bindings' = (bindings \ replaced) \cup {captured}
            /\ Wavers
       ELSE UNCHANGED <<bindings, stroke>>
    /\ UNCHANGED <<tapSends, slot, dictates, records, configurations, macCaptures, tap, tapVars,
                   pollVars, localDown, held, keyEvents>>

\* A shortcut removed, a change rolled back, a pause, a recording.
Configure ==
    /\ configurations < MaxConfigurations /\ configurations' = configurations + 1
    /\ \/ \E s \in bindings : bindings' = bindings \ {s} /\ UNCHANGED <<dictates, records>>
       \/ dictates' = ~dictates /\ UNCHANGED <<bindings, records>>
       \/ records' = ~records /\ UNCHANGED <<bindings, dictates>>
    /\ Wavers
    /\ UNCHANGED <<tapSends, slot, captured, macCaptures, tap, tapVars, pollVars, localDown, held,
                   keyEvents>>

MacNext ==
    \/ TapModifier \/ TapKey \/ TapRepeats \/ TapKeyUp
    \/ FreeKey \/ Sample \/ SampleCapture \/ StartTap
    \/ BeginMacCapture \/ ApplyMacCapture \/ Configure

MacSpec == MacInit /\ [][MacNext]_macVars

-----------------------------------------------------------------------------
MacTypeOK ==
    /\ bindings \subseteq MacShortcuts
    /\ captured \in MacShortcuts \cup {"refused", "cancelled", NoKeys}
    /\ slot => captured = NoKeys
    /\ down \cup suppressed \subseteq Modifiers /\ suppressed \subseteq {Fn}
    /\ held \subseteq Modifiers \cup Keys
    /\ IsInjective(order)
    /\ tapSends \in {"nothing", "cancel", "toggle"}

(* A modifier by itself toggles, or asks for the permission, at most once   *)
(* a press, and where the tap sees every key never when another key was     *)
(* pressed meanwhile, whatever was paused, captured or edited in between.   *)
(* The Fn it takes it takes as a whole: the program in front sees both      *)
(* halves or none, if nothing was paused, captured or edited meanwhile, and *)
(* an Fn that is let through does not toggle.                               *)
OnePressOneAct ==
    /\ \A m \in Modifiers :
          /\ stroke[m].acts <= 1
          /\ tap /\ stroke[m].keyed => stroke[m].acts = 0
    /\ tap /\ Fn \notin held /\ ~stroke[Fn].wavered =>
          /\ stroke[Fn].through \in {{}, {"down", "up"}}
          /\ stroke[Fn].acts > 0 => stroke[Fn].through = {}
=============================================================================
