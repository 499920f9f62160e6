----------------------------- MODULE MCPlatforms -----------------------------
(***************************************************************************)
(* The adapters of the platforms: the deliveries of macOS and of Windows   *)
(* on two dictations, and the shortcuts of both.  They share no variable:  *)
(* a behaviour is one of one adapter, chosen in the initial state, while   *)
(* the others stay in one initial state of theirs.                         *)
(***************************************************************************)
EXTENDS MCTextDelivery, WindowsDelivery, WindowsShortcuts, MacShortcuts

CONSTANTS c1, c2,                       \* controls
          k1, k2,                       \* what the user copies
          combination, alt, legacy,     \* shortcuts of Windows
          fn, right, left, letter, escape, chord

VARIABLE adapter

Adapters == {"macDelivery", "windowsDelivery", "windowsShortcuts", "macShortcuts"}

PlatformInit ==
    /\ Init /\ WindowsInit /\ ShortcutsInit /\ MacInit
    /\ adapter \in Adapters
    /\ adapter # "windowsDelivery" => wBoard = k1 /\ focus = c1
    /\ shortcutRow \in {<<alt>>, <<combination, alt>>, <<legacy>>}
    /\ adapter # "windowsShortcuts" => shortcutRow = <<alt>> /\ taken = {}
    \* A list with a modifier alone, and one with a chord.
    /\ bindings \in {{fn}, {right, chord}} /\ ~records
    /\ adapter # "macShortcuts" => bindings = {fn} /\ ~dictates /\ ~tap

PlatformNext ==
    \/ /\ adapter = "macDelivery" /\ Next
       /\ UNCHANGED <<windowsVars, shortcutVars, macVars, adapter>>
    \/ /\ adapter = "windowsDelivery" /\ WindowsNext
       /\ UNCHANGED <<vars, shortcutVars, macVars, adapter>>
    \/ /\ adapter = "windowsShortcuts" /\ ShortcutsNext
       /\ UNCHANGED <<vars, windowsVars, macVars, adapter>>
    \/ /\ adapter = "macShortcuts" /\ MacNext
       /\ UNCHANGED <<vars, windowsVars, shortcutVars, adapter>>

PlatformSpec ==
    PlatformInit /\ [][PlatformNext]_<<vars, windowsVars, shortcutVars, macVars, adapter>>

(* The variables of the adapter that runs hold what the code's types allow; *)
(* the delivery thread of Windows has a dictation exactly between a command *)
(* and its answer, and no program holds a shortcut that the other holds.    *)
PlatformTypeOK ==
    CASE adapter = "macDelivery" -> TypeOK
      [] adapter = "windowsDelivery" -> WindowsTypeOK
      [] adapter = "windowsShortcuts" -> ShortcutsTypeOK
      [] adapter = "macShortcuts" -> MacTypeOK
=============================================================================
