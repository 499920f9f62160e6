--------------------------- MODULE MCModelDownload ---------------------------
\* Two models and one slot: a second request has to wait, and every race
\* between a click, a thread and a closure of one model is within reach.
EXTENDS ModelDownload, TLC

CONSTANTS whisper, qwen3
TwoModels == {whisper, qwen3}
=============================================================================
