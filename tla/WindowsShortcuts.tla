--------------------------- MODULE WindowsShortcuts ---------------------------
(***************************************************************************)
(* The shortcuts of Windows: the settings page (settings_actions/          *)
(* windows_shortcut.rs), the monitor thread with its registrations         *)
(* (windows_shortcut_monitor.rs, windows_shortcut_registry.rs), the        *)
(* keyboard hook of the lone Right Alt (windows_right_alt_hook.rs) and the *)
(* sampling of a new shortcut (windows_shortcut_capture.rs).               *)
(*                                                                         *)
(* The page waits for the monitor's answer, so a request and its answer    *)
(* are one step.  A shortcut has at most one registration at a time, which *)
(* is why the shortcut stands for its id.  Windows runs the hook only      *)
(* while the monitor thread looks for messages.                            *)
(***************************************************************************)
EXTENDS Integers, Sequences, SequencesExt, Functions, FiniteSets

CONSTANTS
    Combinations,   \* shortcuts of a modifier and a key
    RightAlt,       \* WindowsShortcut::default
    Legacy,         \* a stored value that is no shortcut of Windows
    NoUpdate,
    MaxUpdates,     \* bound: saves begun
    MaxCaptures,    \* bound: captures begun in one process
    MaxPresses,     \* bound: presses of Right Alt
    MaxSwitches     \* bound: changes of what is outside: pause, other programs

WinShortcuts == Combinations \cup {RightAlt}

ASSUME WindowsShortcutsAssumption ==
    /\ {RightAlt, Legacy} \cap Combinations = {} /\ RightAlt # Legacy
    /\ {"begins", "samples", "ended"} \cap WinShortcuts = {}   \* stages of a capture
    /\ {MaxUpdates, MaxCaptures, MaxPresses, MaxSwitches} \subseteq Nat

VARIABLES
    shortcutRow,    \* LocalSettings.dictation_shortcuts
    strayRow,       \* history: the row holds a list whose save was told as failed
    current,        \* ControllerState.shortcuts
    active,         \* RegisteredShortcuts.active
    registered,     \* what Windows holds for the process, the hook included
    staged,         \* RegisteredShortcuts.pending
    listed,         \* the list on the page
    updating,       \* the page's pending flag
    save,           \* the submitted change: its values, and how far it is
    taken,          \* shortcuts that other programs hold
    monitor,        \* the monitor thread
    captures,       \* capture threads and the closures they posted
    captureActive,  \* ControllerState.capture_active
    sawCapture,     \* capture_active as the monitor's turn read it
    altEnabled,     \* right_alt_enabled
    pressActive,    \* HookTarget.press_active
    altEvents,      \* presses told to the monitor and not yet drained
    shortcutsOn,    \* shortcuts_enabled(): not paused
    press,          \* the press of Right Alt under way, or the last one
    toggled,        \* history: toggles, of every press
    updates, presses, switches

shortcutVars == <<shortcutRow, strayRow, current, active, registered, staged, listed,
                  updating, save, taken, monitor, captures, captureActive, sawCapture, altEnabled,
                  pressActive, altEvents, shortcutsOn, press, toggled, updates,
                  presses, switches>>

listVars == <<shortcutRow, strayRow, current, active, registered, staged, listed, updating,
              save, updates>>
hookVars == <<altEnabled, pressActive, altEvents, press, toggled, presses>>
outsideVars == <<taken, shortcutsOn, switches>>

-----------------------------------------------------------------------------
NoSave == [next |-> <<>>, previous |-> <<>>, at |-> "none"]

\* The press: is the key down, which halves the foreground program saw, whether
\* the hook told the monitor, and (history) whether the hook changed its mind
\* about the key while it was down.
NoPress == [down |-> FALSE, seen |-> {}, told |-> FALSE, wavered |-> FALSE]

Lists == {l \in {<<>>} \cup {<<s>> : s \in WinShortcuts}
                \cup {<<s, t>> : s, t \in WinShortcuts} : IsInjective(l)}

\* from_storage_value and the fallback of windows_platform_adapters: what is no
\* shortcut of Windows is left out, and where nothing is left it is Right Alt.
Loaded(values) ==
    IF ToSet(values) \subseteq WinShortcuts THEN values
    ELSE IF ToSet(values) \cap WinShortcuts = {} THEN <<RightAlt>>
    ELSE SelectSeq(values, LAMBDA v : v \in WinShortcuts)

\* WindowsShortcutMonitor::start: all of the shortcuts, or no monitor.
Starts(values, others) == ToSet(Loaded(values)) \cap others = {}

ShortcutsInit ==
    /\ shortcutRow \in Lists \cup {<<Legacy>>} /\ strayRow = FALSE
    /\ current = Loaded(shortcutRow) /\ active = current /\ listed = current
    /\ registered = ToSet(current)
    /\ staged = NoUpdate /\ updating = FALSE /\ save = NoSave
    /\ taken \in SUBSET (Combinations \ ToSet(current))
    /\ monitor = "waits"
    /\ captures = {} /\ captureActive = FALSE /\ sawCapture = FALSE
    /\ shortcutsOn = TRUE
    /\ altEnabled = (RightAlt \in ToSet(current))
    /\ pressActive = FALSE /\ altEvents = 0 /\ press = NoPress /\ toggled = 0
    /\ updates = 0 /\ presses = 0 /\ switches = 0

Running == monitor \in {"waits", "looks"}

-----------------------------------------------------------------------------
(* The monitor thread.  One turn: a command or ten milliseconds, then the   *)
(* look at the capture, the messages with the hook's calls, and the drain.  *)

\* update_right_alt_enabled
Enables(bindings, capturing) ==
    /\ altEnabled' = (~capturing /\ shortcutsOn /\ RightAlt \in ToSet(bindings))
    /\ press' = [press EXCEPT !.wavered = @ \/ (press.down /\ altEnabled' # altEnabled)]

\* The turn goes on after a command or a timeout.
GoesOn(bindings) ==
    /\ monitor = "waits" /\ monitor' = "looks"
    /\ sawCapture' = captureActive
    /\ Enables(bindings, captureActive)

Turn ==
    /\ GoesOn(active)
    /\ UNCHANGED <<listVars, outsideVars, captures, captureActive, pressActive, altEvents,
                   toggled, presses>>

\* Events found when a capture was under way, or when the binding is gone, are
\* dropped.
Drain ==
    /\ monitor = "looks" /\ monitor' = "waits"
    /\ altEvents' = 0
    /\ toggled' = IF sawCapture \/ RightAlt \notin ToSet(active) THEN toggled
                  ELSE toggled + altEvents
    /\ UNCHANGED <<listVars, outsideVars, captures, captureActive, sawCapture, altEnabled,
                   pressActive, press, presses>>

\* RegisteredShortcuts::stage: additions are registered beside the old ones, all
\* of them or none.
Stages(next) == (ToSet(next) \ ToSet(active)) \cap taken = {}

Stage(next) ==
    /\ registered' = registered \cup ToSet(next)
    /\ active' = next /\ current' = next
    /\ staged' = [previous |-> active, next |-> next]

\* Mutant of Finish: a rollback leaves the controller's list.
Finish_ForgetsRollback(commit) ==
    /\ LET kept == IF commit THEN staged.next ELSE staged.previous
           other == IF commit THEN staged.previous ELSE staged.next IN
       /\ registered' = registered \ (ToSet(other) \ ToSet(kept))
       /\ active' = kept
       /\ current' = current
    /\ staged' = NoUpdate

\* RegisteredShortcuts::finish: what the other side alone holds is released.
Finish(commit) ==
    /\ LET kept == IF commit THEN staged.next ELSE staged.previous
           other == IF commit THEN staged.previous ELSE staged.next IN
       /\ registered' = registered \ (ToSet(other) \ ToSet(kept))
       /\ active' = kept
       /\ current' = IF commit THEN current ELSE staged.previous
    /\ staged' = NoUpdate

-----------------------------------------------------------------------------
(* The hook, keyboard_hook and classify_hook_event.                         *)

Hooked == RightAlt \in registered
HookMayRun == Hooked => monitor = "looks"

KeyDown ==
    /\ HookMayRun /\ ~press.down /\ presses < MaxPresses
    /\ presses' = presses + 1
    /\ LET takes == Hooked /\ altEnabled IN
       /\ pressActive' = (takes \/ pressActive)
       /\ press' = [NoPress EXCEPT !.down = TRUE, !.seen = IF takes THEN {} ELSE {"down"}]
    /\ UNCHANGED <<listVars, outsideVars, monitor, captures, captureActive, sawCapture,
                   altEnabled, altEvents, toggled>>

\* A key held down repeats.
KeyRepeats ==
    /\ HookMayRun /\ press.down
    /\ LET takes == Hooked /\ altEnabled IN
       /\ pressActive' = (takes \/ pressActive)
       /\ press' = [press EXCEPT !.seen = IF takes THEN @ ELSE @ \cup {"down"}]
    /\ UNCHANGED <<listVars, outsideVars, monitor, captures, captureActive, sawCapture,
                   altEnabled, altEvents, toggled, presses>>

\* Mutant of KeyUp: a press stays active after its end.
KeyUp_KeepsPressActive ==
    /\ HookMayRun /\ press.down
    /\ LET takes == Hooked /\ pressActive IN
       /\ pressActive' = pressActive
       /\ altEvents' = IF takes THEN altEvents + 1 ELSE altEvents
       /\ press' = [press EXCEPT !.down = FALSE, !.told = takes,
                                 !.seen = IF takes THEN @ ELSE @ \cup {"up"}]
    /\ UNCHANGED <<listVars, outsideVars, monitor, captures, captureActive, sawCapture,
                   altEnabled, toggled, presses>>

\* The second half follows the first, whatever happened in between.
KeyUp ==
    /\ HookMayRun /\ press.down
    /\ LET takes == Hooked /\ pressActive IN
       /\ pressActive' = FALSE
       /\ altEvents' = IF takes THEN altEvents + 1 ELSE altEvents
       /\ press' = [press EXCEPT !.down = FALSE, !.told = takes,
                                 !.seen = IF takes THEN @ ELSE @ \cup {"up"}]
    /\ UNCHANGED <<listVars, outsideVars, monitor, captures, captureActive, sawCapture,
                   altEnabled, toggled, presses>>

-----------------------------------------------------------------------------
(* The page.  persist_shortcuts waits for the monitor, which is between two *)
(* turns; a hook that goes takes its press_active with it.                  *)

\* The change is taken by the queue of settings, or the queue is full: then the
\* page rolls back before it does anything else.
Submits(next) ==
    /\ Stage(next) /\ updating' = TRUE /\ listed' = next
    /\ \E at \in {"queued", "refused"} :
          save' = [next |-> next, previous |-> current, at |-> at]

PageIdle == Running /\ save.at # "refused"

Persist(next) ==
    IF updating
    THEN UNCHANGED <<listVars, monitor, sawCapture, hookVars>>
    ELSE /\ updates < MaxUpdates /\ updates' = updates + 1
         /\ \/ /\ Stages(next) /\ Submits(next)
            \/ /\ ~Stages(next)
               /\ UNCHANGED <<current, active, registered, staged, listed, updating, save>>
         /\ GoesOn(active')
         /\ pressActive' = (pressActive /\ RightAlt \in registered')
         /\ UNCHANGED <<shortcutRow, strayRow, altEvents, toggled, presses>>

RemoveShortcut ==
    /\ PageIdle
    /\ \E i \in DOMAIN listed :
          /\ i \in DOMAIN current
          /\ Persist(RemoveAt(current, i))
    /\ UNCHANGED <<outsideVars, captures, captureActive>>

\* The settings worker's save.  It fails before the row is written, or after it:
\* save_settings tells the failure of the cleanup of the history as its own.
SaveShortcuts ==
    /\ save.at = "queued"
    /\ \E outcome \in {"saved", "failed", "unreported"} :
          /\ save' = [save EXCEPT !.at = IF outcome = "saved" THEN "saved" ELSE "failed"]
          /\ shortcutRow' = IF outcome = "failed" THEN shortcutRow ELSE save.next
          /\ strayRow' = IF outcome = "failed" THEN strayRow ELSE outcome = "unreported"
    /\ UNCHANGED <<current, active, registered, staged, listed, updating, updates, outsideVars,
                   monitor, captures, captureActive, sawCapture, hookVars>>

\* The completion, on the page's thread.
CompleteSave ==
    /\ Running /\ save.at \in {"saved", "failed", "refused"}
    /\ updating' = FALSE /\ save' = NoSave
    /\ Finish(save.at = "saved")
    /\ listed' = IF save.at = "saved" THEN listed ELSE save.previous
    /\ GoesOn(active')
    /\ pressActive' = (pressActive /\ RightAlt \in registered')
    /\ UNCHANGED <<shortcutRow, strayRow, updates, altEvents, toggled, presses, outsideVars,
                   captures, captureActive>>

-----------------------------------------------------------------------------
(* capture_shortcut: one at a time, on a thread of its own.  A click that   *)
(* adds has the index zero.                                                 *)

BeginCapture ==
    /\ PageIdle /\ ~updating /\ Cardinality(captures) < MaxCaptures
    /\ \E target \in {0} \cup DOMAIN listed :
          captures' = captures \cup {[target |-> target, at |-> "begins",
                                      number |-> Cardinality(captures)]}
    /\ UNCHANGED <<listVars, outsideVars, monitor, captureActive, sawCapture, hookVars>>

Becomes(c, at) == captures' = (captures \ {c}) \cup {[c EXCEPT !.at = at]}

\* A second capture answers CaptureActive.
CaptureStarts ==
    /\ \E c \in captures :
          /\ c.at = "begins"
          /\ Becomes(c, IF captureActive THEN "ended" ELSE "samples")
    /\ captureActive' = TRUE
    /\ UNCHANGED <<listVars, outsideVars, monitor, sawCapture, hookVars>>

\* A shortcut, an Escape, or a combination that is not allowed.
CaptureEnds ==
    /\ \E c \in captures :
          /\ c.at = "samples"
          /\ \/ Becomes(c, "ended")
             \/ \E s \in WinShortcuts : Becomes(c, s)
    /\ captureActive' = FALSE
    /\ UNCHANGED <<listVars, outsideVars, monitor, sawCapture, hookVars>>

\* apply_captured_shortcut, with the index of the click on the list of now.
ApplyCaptured ==
    /\ PageIdle
    /\ \E c \in captures :
          /\ c.at \in WinShortcuts
          /\ Becomes(c, "ended")
          /\ LET unique == \A i \in DOMAIN current : i = c.target \/ current[i] # c.at IN
             \/ /\ unique /\ c.target = 0 /\ Persist(Append(current, c.at))
             \/ /\ unique /\ c.target \in DOMAIN current
                /\ Persist([current EXCEPT ![c.target] = c.at])
             \/ /\ ~unique \/ c.target \notin {0} \cup DOMAIN current
                /\ UNCHANGED <<listVars, monitor, sawCapture, hookVars>>
    /\ UNCHANGED <<outsideVars, captureActive>>

-----------------------------------------------------------------------------
(* Outside: the pause, other programs, the end of the process and the next  *)
(* start.  The settings queue is worked off before the process ends; its     *)
(* completions are not run.                                                  *)

Switch ==
    /\ switches < MaxSwitches /\ switches' = switches + 1
    /\ \/ shortcutsOn' = ~shortcutsOn /\ UNCHANGED taken
       \/ /\ \E s \in Combinations \ registered :
                taken' = IF s \in taken THEN taken \ {s} ELSE taken \cup {s}
          /\ UNCHANGED shortcutsOn
    /\ UNCHANGED <<listVars, monitor, captures, captureActive, sawCapture, hookVars>>

\* WindowsShortcutMonitor::shutdown and RegisteredShortcuts::shutdown.
QuitMonitor ==
    /\ monitor = "waits" /\ save.at \notin {"queued", "refused"}
    /\ monitor' = "gone"
    /\ registered' = {} /\ active' = <<>> /\ staged' = NoUpdate
    /\ save' = NoSave /\ updating' = FALSE
    /\ captures' = {} /\ captureActive' = FALSE /\ sawCapture' = FALSE
    /\ altEnabled' = FALSE /\ pressActive' = FALSE /\ altEvents' = 0
    /\ press' = [press EXCEPT !.wavered = TRUE]
    /\ UNCHANGED <<shortcutRow, strayRow, current, listed, updates, outsideVars, toggled,
                   presses>>

\* A shortcut that another program holds keeps the application from starting.
StartMonitor ==
    /\ monitor = "gone"
    /\ Starts(shortcutRow, taken)
    /\ monitor' = "waits"
    /\ current' = Loaded(shortcutRow) /\ active' = current' /\ listed' = current'
    /\ registered' = ToSet(current')
    /\ Enables(current', FALSE)
    /\ strayRow' = FALSE
    /\ UNCHANGED <<shortcutRow, staged, updating, save, updates, outsideVars, captures,
                   captureActive, sawCapture, pressActive, altEvents, toggled, presses>>

ShortcutsNext ==
    \/ Turn \/ Drain
    \/ KeyDown \/ KeyRepeats \/ KeyUp
    \/ RemoveShortcut \/ SaveShortcuts \/ CompleteSave
    \/ BeginCapture \/ CaptureStarts \/ CaptureEnds \/ ApplyCaptured
    \/ Switch \/ QuitMonitor \/ StartMonitor

ShortcutsSpec == ShortcutsInit /\ [][ShortcutsNext]_shortcutVars

-----------------------------------------------------------------------------
ShortcutsTypeOK ==
    /\ registered \subseteq WinShortcuts /\ taken \subseteq Combinations
    /\ registered \cap taken = {}
    /\ monitor \in {"waits", "looks", "gone"}
    /\ staged # NoUpdate => updating /\ staged.next = active
    /\ altEnabled => RightAlt \in ToSet(active)
    /\ captureActive = (\E c \in captures : c.at = "samples")

(* The list on the page, the list the monitor acts on, what Windows holds   *)
(* for the process and the list of the next start are one list whenever no  *)
(* update is under way, whichever update failed at which point; and while   *)
(* one is, the bindings it takes away are still held, so that no other      *)
(* program can get them before the save is known.  The list of the next     *)
(* start is another one while the row keeps a list whose save was told as   *)
(* failed, which the page and the registrations took back (strayRow).       *)
(* (docs/architecture.md:273-278)                                           *)
ShortcutsAgree ==
    Running =>
        /\ ToSet(active) \subseteq registered
        /\ IF updating
           THEN ToSet(save.previous) \subseteq registered
           ELSE /\ active = current /\ listed = current
                /\ registered = ToSet(current)
                /\ strayRow \/ Loaded(shortcutRow) = current

(* A press of Right Alt is either the hook's, which tells the monitor once  *)
(* and lets neither half through, or the foreground program's, which sees   *)
(* both halves and toggles nothing: unless the binding, the pause or a      *)
(* capture changed while the key was down.  (docs/architecture.md:269-273)   *)
PressIsWhole ==
    /\ ~press.down /\ ~press.wavered /\ presses > 0 =>
          /\ press.told = (press.seen = {})
          /\ press.seen \in {{}, {"down", "up"}}
    /\ toggled + altEvents <= presses
=============================================================================
