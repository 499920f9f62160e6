----------------------------- MODULE MCDictation ----------------------------
(* DictationRuntime on two sessions.                                       *)
EXTENDS DictationRuntime

CONSTANTS s1, s2

(* DictationSessionId::generate returns s1 first: the behaviours in which  *)
(* s2 comes first are these with the names swapped.                        *)
InOrder == s2 \in used => s1 \in used
(* For the liveness run: one retained recording is enough to reach an undo *)
(* and the timer of its window.                                            *)
OneRetained == generation <= 1
(* There, too: every save of the pause flag is refused and rolled back.    *)
SavesRefused == saves = <<>>
(* There, too: once the event loop has ended, nothing is promised any more.*)
LoopRuns == loopAlive
=============================================================================
