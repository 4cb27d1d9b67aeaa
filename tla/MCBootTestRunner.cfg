\* Two architectures and up to two --arch options cover: the default list,
\* one architecture, two different ones, and the same one twice.
CONSTANTS
    arm = arm
    x86 = x86
    Archs = {arm, x86}
    ArchOrder <- MCArchOrder
    Outputs <- MCOutputs
    MaxArgs = 2
SPECIFICATION Spec
\* The run ends when main returns its exit code.
CHECK_DEADLOCK FALSE
INVARIANT RunnerTypeOK
