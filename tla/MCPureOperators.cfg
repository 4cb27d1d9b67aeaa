\* The indicator lists of run-qemu-boot-tests.py, the checksum patchers
\* and the toolchain selection against their reference definitions.
CONSTANTS
    FailureList <- failure_indicators
    MaxLineLen = 4
    MaxPageLen = 6
    HostOS = "Linux"
    HostCPU = "x86_64"
    IntOf <- MCIntOf
SPECIFICATION Spec
INVARIANT ScanAgreesWithSpec
INVARIANT LpcChecksumValid
INVARIANT ZynqHeaderValid
INVARIANT SelectionIsRequested
INVARIANT ListingParsedAsLinked
