\* The readline() variant of one boot test.  Timeout = 1 tick is enough
\* for the timeout path to be taken both before and after output arrived;
\* ReadSize = 4 lets one read-ahead hold the end of one line and the whole
\* next one.
CONSTANTS
    Transcripts <- MCTranscripts
    Timeout = 1
    ReadSize = 4
SPECIFICATION Spec
\* The run ends when run_qemu_test has returned.
CHECK_DEADLOCK FALSE
PROPERTY DoRunRefinement
