---------------------------- MODULE MCRecognition ----------------------------
(***************************************************************************)
(* What ends under fairness, on one instance: the deliveries of            *)
(* MCTextDelivery, and a recognition of each engine.  The two share no     *)
(* variable: a behaviour is one of either module, chosen in the initial    *)
(* state, while the other stays in an initial state in which none of its   *)
(* fair actions is enabled.                                                *)
(***************************************************************************)
EXTENDS MCTextDelivery, SpeechRecognition

VARIABLE part \* the module that runs

\* Nothing said in the second, in the first and third, or in the two units
\* around a boundary of a batch and of a segment.
Pauses == {{}, {2}, {1, 3}, {3, 4}}

\* No word said twice, or one on both sides of the first seam of Qwen3.
Echoes == {{}, {2, 4}}

BothInit ==
    /\ Init /\ RecognitionInit
    /\ part \in {"delivery", "recognition"}
    /\ part = "delivery" => engine = "openAi" /\ quiet = {} /\ source = "live"

BothNext ==
    \/ part = "delivery" /\ Next /\ UNCHANGED <<recognitionVars, part>>
    \/ part = "recognition" /\ RecognitionNext /\ UNCHANGED <<vars, part>>

BothSpec ==
    /\ BothInit /\ [][BothNext]_<<vars, recognitionVars, part>>
    /\ Fairness /\ RecognitionFairness
=============================================================================
