------------------------ MODULE MCDictationCompletion -----------------------
(* DictationCompletion on two dictations.                                  *)
EXTENDS DictationCompletion

CONSTANTS d1, d2

(* d1 begins first: the other behaviours are these with the names swapped. *)
InOrder == worker[d2] # "new" => worker[d1] # "new"
=============================================================================
