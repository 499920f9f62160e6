SPECIFICATION Spec
CONSTANTS
    whisper = whisper
    qwen3 = qwen3
    Models = {whisper, qwen3}
    NoModel = NoModel
    MaxActive = 1
    Retries = 1
    MaxClicks = 4
    MaxFaults = 1
    MaxRestarts = 1
INVARIANT QueuedCardIsQueued
CHECK_DEADLOCK FALSE
