\* One target: every interleaving of the emulator's writes and exit with
\* the monitoring loop, for the transcripts of MCTranscripts.
CONSTANTS
    Transcripts <- MCTranscripts
    Timeout = 1
    ReadSize = 4
SPECIFICATION Spec
\* The run ends when run_qemu_test has returned.
CHECK_DEADLOCK FALSE
INVARIANT TypeOK
PROPERTY RunRefinement
PROPERTY MonitorTerminates
INVARIANT LogIsTranscript

