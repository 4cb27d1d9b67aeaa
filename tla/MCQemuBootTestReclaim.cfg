\* ChildReclaimedOnEveryReturn: expected to be violated (see PROJECT.json findings).
CONSTANTS
    Transcripts <- MCTranscripts
    Timeout = 1
    ReadSize = 4
SPECIFICATION Spec
CHECK_DEADLOCK FALSE
INVARIANT ChildReclaimedOnEveryReturn
