\* The indicator lists of do-qemu-boot-tests.py against the specification.
CONSTANTS
    FailureList <- do_failure_indicators
    MaxLineLen = 4
    MaxPageLen = 6
    HostOS = "Linux"
    HostCPU = "x86_64"
    IntOf <- MCIntOf
SPECIFICATION Spec
INVARIANT ScanAgreesWithSpec
