\* Two toolchains and two invocations: the first leaves a directory the
\* second looks at.
CONSTANTS
    gcc = gcc
    clang = clang
    Sel <- MCSel
    MaxRuns = 2
SPECIFICATION Spec
\* The second invocation exits and no further one is started.
CHECK_DEADLOCK FALSE
INVARIANT SkipOnlyIfInstalled
