# TLA+ models of the LK host-side Python tools

This directory holds TLA+ models of the Python tools under `src/`. Most of the
effort goes to the two scripts that drive an emulator process: the boot-test
harness and `unittest.py`. The checksum patchers and the toolchain selection
are modelled as operators. That component is
the boot-test harness `src/scripts/run-qemu-boot-tests.py` and its older
blocking twin `src/scripts/do-qemu-boot-tests.py`. The harness starts an
emulator per architecture and watches its console for a success or failure
phrase. It stops the emulator and reports an exit code.

## Inventory of the repository

| Part | Source | Status |
|---|---|---|
| Pattern matcher: indicator lists and per-line scan | run-qemu 86-94, 143-160; do-qemu 86-94, 121-136 | modelled: `PatternMatcher` |
| Output monitor, select variant | run-qemu 50-203 | modelled: `QemuBootTest` |
| Process lifecycle: poll, terminate, sleep, kill | run-qemu 115-117, 174-182; do-qemu 141-145 | modelled in `QemuBootTest`, `DoQemuBootTest`, `ChildProcess` |
| Result logger | run-qemu 184-196 | modelled in `QemuBootTest` |
| Orchestrator and summary | run-qemu 205-294 | modelled: `BootTestRunner` |
| Output monitor, readline variant | do-qemu 50-151 | modelled: `DoQemuBootTest` |
| Orchestrator of the readline variant | do-qemu 153-222 | not modelled (see below) |
| Architecture registry | 12-48 of both scripts | constants `Archs`, `ArchOrder` |
| `unittest.py`: `main`, `wait_for_output`, `shutdown_little_kernel` | src/scripts/unittest.py | modelled: `UnitTestDriver` |
| `fetch-toolchains.py`: sort and latest/all/exact selection | fetch-toolchains 86-104, 145-155 | modelled: `ToolchainSelect` |
| `fetch-toolchains.py`: download loop, threads, install directory | fetch-toolchains 116-142 | modelled: `FetchToolchains` |
| `fetch-toolchains.py`: HTML listing parser | fetch-toolchains 145-149, 174-217 | modelled: `ListingParser` |
| `lpccheck.py` (vector-table checksum) | src/platform/lpc15xx | modelled: `Checksums` |
| `mkbootheader.py` (Zynq boot header) | src/platform/zynq | modelled: `Checksums` |
| `bin2h.py`, `nettool.py`, `expand.py` | src/tools, src/lib | not modelled: formatting and file I/O |

### How the harness parts interact

`main` checks that the root directory looks like LK. `run_all_tests` then calls
`run_qemu_test` once per requested architecture, one after another, and stores
each boolean in the `results` dict. `print_summary` turns the dict into the exit
code.

Inside `run_qemu_test`, the harness and the emulator are two processes that
interleave:

- The emulator writes into a pipe and may exit at any time.
- The harness loops: it checks the deadline, calls `poll()`, calls `select()`
  with a 1-second slice, reads a chunk, splits off complete lines and scans each
  line.
- When it leaves the loop, it flushes the partial tail line, runs the
  `terminate`/`sleep(1)`/`kill` sequence, and writes the log.

`unittest.py` is a second driver of the same kind. It starts QEMU with stdin
and stdout piped, waits for the shell line, types a command, waits for the
UEFI app's greeting, and always shuts QEMU down in a `finally`.

## Modules

- **`PatternMatcher`**: pure operators.
  - Data abstraction: a line is a short sequence of characters. Each indicator
    phrase is reduced to two upper-case letters, one for each of its words
    (`SUCCESS!…` is `<<"S","U">>`). Lower-case letters let a line spell an
    indicator in another case.
  - `Matches` is `indicator.lower() in line.lower()`, built from a lower-casing
    table and `SubSeqs`.
  - `ScanLineWith` is the success-then-failure scan of one line. `Verdict` is
    `test_passed and not test_failed`.
  - `do_failure_indicators` is the list of do-qemu as Python parses it. The
    missing comma joins two of its literals into one.
- **`Checksums`**: `lpccheck.py` and `mkbootheader.py` as operators on 32-bit
  words.
  - TLC's integers are 32-bit signed. So a word is kept exactly as the pair of
    its 16-bit halves, and every sum carries from the low half to the high one.
    Nothing is narrowed.
  - `LpcSum`/`Packable`/`Negated`/`LpcPatch`: `struct.unpack('i')` (the high
    half read as signed), the exact sum, its negation, and `struct.pack('i')`,
    which fails outside the int32 range.
  - `HeaderFields`/`ZynqChecksum`/`ZynqHeader`: the header words in the order
    the script appends them, `~sum & 0xffffffff` and the three `range()` fill
    loops.
- **`ToolchainSelect`**: `RemoteToolchain.__lt__` (`ListLess` is Python's `<`
  on int lists), the sort, the `--prefix` filter, and the latest/all/exact
  selection. A prefix is a rank that stands for its string.
- **`ListingParser`**: `RemoteToolchainHTMLParser` and the `RemoteToolchain`
  constructor. `HTMLParser.feed` calls the handlers in document order, so a
  page is the sequence of those calls, and `Feed` folds `HandleStartTag`,
  `HandleEndTag` and `HandleData` over it. After an exception nothing more
  runs, as in `feed()`.
  - Data abstraction: a text is whether it ends in `.tar.xz`, plus its dash
    tokens, each a sequence of dot segments. `IntOf` is what `int()` makes of
    a numeral segment; any other segment raises `ValueError`.
- **`MCPureOperators`**: the state is one input, chosen by `Init`: a console
  line, an LPC image, a Zynq file size, a toolchain listing with a request,
  or a listing page.
  Each operator is checked against a reference written independently:
  - the scan against spec.md 4.3/4.4 (explicit offset search; Failed when a
    line carries both kinds);
  - the LPC patch against the boot ROM's unsigned sum;
  - the Zynq checksum against a bitwise NOT (XOR) of the sum of words
    0x20-0x44, as the Zynq TRM 6.3.2 defines it;
  - the selection against Python's list order as the language reference
    defines it.
- **`UnitTestDriver`**: `unittest.py` step by step.
  - The driver: `Launch`, `WaitLoop`, `PollEmpty`, `ReadData` (the read and
    the first-newline split), `SendCommand`, and the shutdown steps
    `ShutdownPoll`, `ShutdownWrite`, `ShutdownWait` and `ShutdownFinally`.
  - The emulator: `EmuWrite` writes `BootOut` one character at a time, and
    `Reply` only after the command. `EmuExit` has code zero or non-zero.
  - The clock: `Tick`. `mark` is where the current `wait_for_output` call
    started reading. `failed` is an exception on its way out.
- **`ChildProcess`**: pure operators shared by both monitors and `UnitTestDriver`.
  - `Encode`: a transcript as the characters written, one newline per line.
  - `Reap`: `poll()` reaping a zombie.
  - `NewlineAt`: the position of the first newline.
  - `CompleteLines`: the newline-terminated lines of a text.
  - `EmuOf`: the emulator state as the abstract run sees it.
- **`BootTestRun`**: the abstract specification of one `run_qemu_test` call,
  from spec.md 4.3 and 4.5.
  - The emulator produces output, and the harness consumes a growing prefix of
    it.
  - The harness consumes no more once that prefix holds a complete line with an
    indicator.
  - It returns `FirstSignalVerdict` of the complete lines it read. It returns
    only after the emulator is down.
  - It may also refuse (no script), or abort with an exception (`ending =
    "error"`) and return False.
- **`QemuBootTest`**: `run_qemu_test` of run-qemu-boot-tests.py, with one action
  per step of the code.
  - Variables: `pc` is the position in the function. `buffer`, `output_lines`,
    `test_passed`, `test_failed` and `elapsed` are the locals. `child` is the
    process table entry (`none`/`running`/`zombie`/`reaped`). `pipe` holds what
    was written but not yet read. `log` is the log file.
  - Harness actions: `Launch` (52-83), `TimeoutExpired` (110-113), `PollChild`
    (116-117), `SelectWait`, `SelectEof`, `SelectData` (120-131), `EmitLine`
    and `EmitDone` (134-163), `Cleanup` (165-180), `KillAfterGrace` (181-182),
    `WriteLogAndReturn` (184-198) and `Raise` (200-203).
  - Emulator actions: `EmuWrite` (one character) and `EmuExit`.
  - `Abstract` is the refinement mapping to `BootTestRun`. The characters
    consumed are `written - Len(pipe)`; the harness buffer counts as consumed.
- **`DoQemuBootTest`**: `run_qemu_test` of do-qemu-boot-tests.py.
  - `readline()` is modelled by what the text reader does. It moves chunks of
    at most `ReadSize` characters from the pipe into a read-ahead buffer `rbuf`
    until that buffer holds a newline. At end of file it returns whatever is
    buffered.
  - Time passes only while `readline()` is blocked (`Tick`).
- **`BootTestRunner`**: `main`, `run_all_tests` and `print_summary`, composed
  with `BootTestRun`.
  - The abstract run's variables are declared here. They are reset for every
    architecture, and `RunStep` takes the abstract run's steps.
  - This composition is sound because `QemuBootTest` is checked to refine
    `BootTestRun`.
  - The argument lists are those argparse can produce: `None` (all keys) or
    one or more of the `choices`.
- **`FetchToolchains`**: the download half of fetch-toolchains.py, over
  successive invocations that share the install directory.
  - State: `disk` maps each selected toolchain to what `install_dir/<name>`
    holds (absent, partial, complete) and survives every invocation;
    `thread` is the download thread of each toolchain in this invocation;
    `said` is what line 130 or 135 printed.
  - Actions: `Begin`, `ListingFails` and `ListOnly` (lines 29-114, the
    selection itself being `ToolchainSelect`), `Skip` and `StartDownload`
    (127-137), `LoopDone`, `DownloadFails` (119-122), `Extracting`,
    `Extract` and `ExtractFails` (123-124: `extractall` creates the top
    directory first), `Join` (139-142), and `Crash`, the process being
    killed: its threads die, the directory keeps what was written.
- **`MCQemuBootTest`, `MCDoQemuBootTest`, `MCBootTestRunner`,
  `MCUnitTestDriver`, `MCFetchToolchains`**: model values
  for the runs.

## Runs

| Run | Cfg | Expect | What it shows |
|---|---|---|---|
| `pure_operators` | MCPureOperators.cfg | pass | `ScanAgreesWithSpec`; `LpcChecksumValid`; `ZynqHeaderValid`; `SelectionIsRequested`; `ListingParsedAsLinked`. |
| `pattern_matcher_do` | MCPureOperatorsDo.cfg | violation | do-qemu's list misses a panic line: the missing comma at do-qemu:92. |
| `boot_test` | MCQemuBootTest.cfg | pass | `TypeOK`; `RunRefinement`; `LogIsTranscript`; `MonitorTerminates`. |
| `lost_signal` | MCQemuBootTestLostSignal.cfg | violation | A success line written just before exit is never read (run-qemu:116): Failed instead of Passed. |
| `child_left_behind` | MCQemuBootTestReclaim.cfg | violation | spec.md 4.5: the emulator is reclaimed on every way out. The except clause (run-qemu:200) returns with it running, and `kill()` without `wait()` (run-qemu:182) returns with a zombie. |
| `do_boot_test` | MCDoQemuBootTest.cfg | pass | `DoVerdictOfFirstSignalLine`. |
| `do_partial_line` | MCDoQemuBootTestPartial.cfg | violation | At end of file an unterminated last line is scanned and decides the verdict (do-qemu:112), against spec.md 4.3. |
| `runner` | MCBootTestRunner.cfg | pass | `RunnerTypeOK`. |
| `unittest` | MCUnitTestDriver.cfg | pass | `TypeOK`; `ReadTextAccounted`; `ShutdownReapsChild`; `DriverTerminates`. |
| `unittest_missed_line` | MCUnitTestDriverMissedLine.cfg | violation | "starting app shell" arrives in the same read as the line before it and is never checked (unittest:22); the assertion of line 85 says it was not seen. |
| `fetch_partial_install` | MCFetchToolchainsPartial.cfg | violation | A thread whose `extractall` raises (main still exits 0), or a killed process, leaves a partial directory; the next invocation without `--force` prints "already installed; skipping" for it (fetch-toolchains:129). |
| `runner_duplicate_arch` | MCBootTestRunnerDuplicate.cfg | violation | `--arch x --arch x`: the second result overwrites the first (run-qemu:220), so a failed run can end in exit 0. |

What the passing properties of `boot_test` say:

- `RunRefinement`: the harness implements `BootTestRun`, whatever the chunk
  boundaries and interleavings.
- `LogIsTranscript`: the log file is exactly the console text read.
- `MonitorTerminates`: every call returns.

What `do_boot_test`'s `DoVerdictOfFirstSignalLine` says: when
`run_qemu_test` returns normally (after a timeout, at end of file or on a
signal), its value is the verdict of the first line read that carries an
indicator of the script's own lists, and False when no line did. The flags
`test_passed` and `test_failed` accumulate over the iterations and are read
only after the cleanup, so this holds only because the `break` of lines
135-136 leaves the loop at the first such line. Whatever the read-ahead chunks,
a later line never changes the verdict.

The `runner` run checks `RunnerTypeOK` over every argument list and every
outcome of the runs and of writing `summary.txt`. What the runner gets wrong
(a repeated `--arch`) is the violation run `runner_duplicate_arch`.

TLC prints one counterexample per run. For `child_left_behind` it prints the
exception path, which is the shorter one. With `Raise` taken out of `Next`,
the same property fails on the kill-without-wait path (`how = "timeout"`,
`child = "zombie"`).

What `pure_operators` says:

- `LpcChecksumValid`: whenever `lpccheck.py` patches an image, the eight words
  add up to zero modulo 2^32 and no other word changes. This holds whatever
  the signs and overflow of the seven words read. The images reach both edges
  of the int32 range and go past them, where `struct.pack` refuses.
- `ZynqHeaderValid`: the checksum word is the NOT of the sum of words
  0x20-0x44 modulo 2^32, both length fields hold the file size, and the
  source offset at 0x30 equals the header's own length.
- `SelectionIsRequested`: `latest` yields one newest toolchain per wanted
  prefix in prefix order; `all` and an exact version yield every matching
  toolchain once, sorted.
- `ListingParsedAsLinked`: on a well-formed page, the parser finds exactly
  the host tarballs whose text sits directly in a hyperlink, in page order.
  The reference follows HTML nesting, where an end tag closes the innermost
  element and a void element closes at once. The parser's stack instead pops
  whatever is on top. A linked host tarball with a non-numeric version stops
  the parse with `ValueError`. The pages are restricted to those with no void
  element inside a link. On `<a><img></a>` followed by a host tarball name
  outside any link, the stale `a` makes the parser take that text. This is
  recorded as a hazard (fetch-toolchains:201).

What `unittest` says:

- `ReadTextAccounted`: inside `wait_for_output`, `output` followed by
  `cur_line` is exactly the text read since the call began.
- `ShutdownReapsChild`: QEMU is reaped when the script exits, on every path
  (assertion, `BrokenPipeError` on either write, `TimeoutExpired`, early
  return on a non-zero code).
- `DriverTerminates`: the script always ends, even against a silent emulator
  or a hung-up pipe.

Each property of a passing run has a mutant in PROJECT.json: a plausible bug in
the mapped code that the property catches. The mutants are:

- `select()` without a timeout breaks `MonitorTerminates`.
- Dropping the inner `break` breaks `RunRefinement`.
- Dropping the tail flush breaks `LogIsTranscript`.
- Leaving the loop on a failure line only, and reading on after a success,
  breaks `DoVerdictOfFirstSignalLine`: a success line followed by a failure
  line then returns False.
- Counting failures instead of reporting them breaks `RunnerTypeOK`.
- Seeking to word 9 breaks `LpcChecksumValid`.
- Negating the sum (as `lpccheck.py` does) instead of complementing it breaks
  `ZynqHeaderValid`.
- Keeping the first entry of each prefix breaks `SelectionIsRequested`.
- Taking text anywhere inside a link (`"a" in self._tags`) breaks
  `ListingParsedAsLinked`.
- A second wait timed from the first call's start breaks `TypeOK` of
  `UnitTestDriver`.
- A `cur_line` that keeps the split newline breaks `ReadTextAccounted`.
- `kill()` without `wait()` breaks `ShutdownReapsChild`.
- A loop that ignores the deadline breaks `DriverTerminates`.

### Bounds

- **`Timeout = 1`**: the deadline can fire before any output, in the middle of
  a line, or after a complete line.
- **`ReadSize = 4`**: chunks can split a line or an indicator, and can hold the
  end of one line together with the whole next one. That is what the inner
  `break` and the read-ahead are about.
- **Transcripts**, with a line of 1 to 4 characters:
  - a plain line, then a success line;
  - a success line, then a failure line;
  - a failure line, then a success line;
  - one line carrying both indicators;
  - only plain text.

  These cover first-signal-wins in both orders, the tie-break, and no signal at
  all. The emulator may stop after any character, so every partial line is also
  reached.
- **Orchestrator**: two architectures and up to two `--arch` options. This
  covers the default list, one architecture, two different ones, and the same
  one twice.
- **Pattern matcher**: every line of up to 4 characters. An indicator is 2
  letters, so a line can hold one indicator at any offset, two adjacent ones,
  or a mixed-case spelling.

- **`unittest.py`**:
  - `BootOut` is `x⏎A⏎]` (a line, the shell line, then the prompt without a
    newline). `Reply` is `H⏎]`.
  - `Timeout1 = 2` and `Timeout2 = 1` ticks: enough for a read before and
    after each tick, and for a deadline that passes with text in `cur_line`.
  - The emulator may exit after any character, with either code.
- **Checksums**: 5^7 vector tables over the words 0, 1, 2^31-1, 2^31 and
  2^32-1. Five file sizes, two of which make the header sum wrap.
- **Downloads**: two selected toolchains and two invocations. One can be
  skipped while the other is downloaded, and the second invocation sees what
  the first left behind. The initial directory is any mix of absent and
  complete installs.
- **Selection**: every listing of up to three toolchains over two prefixes
  and the versions 1, 1.9, 1.10 and 2. Three `--prefix` sets and three
  `--version` modes.
- **Listing pages**: every well-formed page of up to 6 handler calls over
  `<a>`, `<p>`, the void `<img>`, and four texts. The texts are a host
  tarball (version `7.05`), one with a word in its version, one for another
  host, and plain text. That covers a link nested in another element,
  elements nested in a link, text between links, void elements beside links,
  and a second link after a failing one.

### Fairness

- **Harness**: weak fairness on all harness actions. It is a process the
  operating system keeps scheduling.
- **Exceptions**: `Raise` gets no fairness. They may happen, but nothing forces
  them.
- **Emulator**: gets no fairness. It may stall forever, also in the middle of a
  line, and may ignore SIGTERM. That is what a hung kernel does.
- **Clock**: in the readline variant, `Tick` is weakly fair, because real time
  passes while `readline()` blocks. Even so, the call can block forever in
  `readline()`: the defect the TODO of do-qemu lines 109-110 names. The model
  reaches it, but no run checks it, since the code already records it.
- **Downloads**: no fairness; `fetch_partial_install` is a safety run.
- **`unittest.py`**: weak fairness on the driver's actions and on `Tick`. The
  emulator gets none. That is enough for `DriverTerminates`, because both
  waits end at their deadline.

## Not modelled, and why

- **Printing and formatting**: console output, `flush()`, the summary text and
  the f-string layout. No property is about the wording.
- **`decode(errors='replace')`** on a chunk that splits a multi-byte character.
  The indicators are ASCII, so no verdict can change. Listed as a hazard.
- **Wall-clock jumps of `time.time()`**: time is monotone slices in the model.
  Listed as a hazard.
- **The readline variant's orchestrator (do-qemu 153-222)**: it is the
  orchestrator already modelled, minus `log_dir`.
- **The unknown-architecture `continue` (run-qemu 213-215)**: argparse
  `choices` make it unreachable from `main`.
- **HTML tokenizing inside `html.parser`**: the model starts from the
  handler calls. Comments, character references and split text nodes are left
  out; the default `convert_charrefs=True` delivers each text node in one call.
- **fetch-toolchains downloads**: the download threads write disjoint directories, so their order is modelled
  but no property is about it; what is kept is what each leaves on disk.
- **`mkbootheader.py`'s copy loop (77-84)** and the argument checks of both
  patchers: plain file I/O.
- **`unittest.py`'s `/proc` status print (39-47)**: output only.
- **`CPython` reaping a dropped `Popen` object's zombie at the next `Popen()`
  call**: this is why at most one zombie remains between runs. The model stops
  at the return of `run_qemu_test`.

## Open questions the model shows but does not judge

These are recorded as hazards in PROJECT.json.

- `unittest.py`'s `main` returns normally whether or not "Hello World!" was
  seen (line 92), so the script can exit 0 when the UEFI app never ran.
- A QEMU that exited with code 0 fails `shutdown_little_kernel` with
  `BrokenPipeError` (line 36, `if ret:`).
- SIGINT (line 51) only ever reaches a process that has already exited.

No comment or test states the intended behaviour, so there is nothing to check
these against.
