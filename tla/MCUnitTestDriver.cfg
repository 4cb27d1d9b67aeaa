CONSTANTS
    BootOut <- MCBootOut
    Reply <- MCReply
    ShellMark = "A"
    HelloMark = "H"
    Timeout1 = 2
    Timeout2 = 1
SPECIFICATION Spec
\* The script ends: once it has exited nothing more happens.
CHECK_DEADLOCK FALSE
INVARIANT TypeOK
INVARIANT ReadTextAccounted
INVARIANT ShutdownReapsChild
PROPERTY DriverTerminates
