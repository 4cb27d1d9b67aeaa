---------------------------- MODULE QemuBootTest ----------------------------
(***************************************************************************)
(* One boot test of one architecture: QEMUTestRunner.run_qemu_test of     *)
(* src/scripts/run-qemu-boot-tests.py (lines 50-203), together with the   *)
(* emulator it launches.                                                   *)
(*                                                                         *)
(* Two processes interleave.  The emulator (the launch script and QEMU)   *)
(* writes its console output one character at a time into the pipe and   *)
(* may exit at any moment; it is not fair: it may stall forever, also in *)
(* the middle of a line.  The harness runs the monitoring loop: the      *)
(* timeout check, poll(), select() with a one-second slice, a read of at *)
(* most ReadSize characters, the reassembly of complete lines and their  *)
(* scan for indicators; then the flush of the trailing partial line, the *)
(* terminate / sleep(1) / kill sequence, and the optional log file.       *)
(*                                                                         *)
(* Time is counted in select() slices: select() is the loop's only       *)
(* suspension point, the rest of an iteration takes no measurable time.  *)
(***************************************************************************)
EXTENDS Naturals, Sequences, SequencesExt, PatternMatcher, ChildProcess

CONSTANTS
    Transcripts,   (* the console outputs the emulator may produce: each  *)
                   (* a sequence of lines, each line a character sequence *)
    Timeout,       (* arch_config['timeout'] in select() slices           *)
    ReadSize       (* the size argument of os.read (4096)                 *)

ASSUME /\ Timeout \in Nat
       /\ ReadSize \in Nat \ {0}

VARIABLES
    out,            (* the emulator's whole output, fixed at launch        *)
    written,        (* how many characters of out it has written          *)
    pipe,           (* written and not yet read: the stdout pipe           *)
    child,          (* "none", "running", "zombie" (exited, not reaped),   *)
                    (* "reaped"                                           *)
    pc,             (* where run_qemu_test is                              *)
    buffer,         (* the `buffer` string of the loop                     *)
    output_lines,   (* the `output_lines` list                             *)
    test_passed,
    test_failed,
    elapsed,        (* time.time() - start_time, in select() slices        *)
    how,            (* how the monitoring loop was left (history)          *)
    result,         (* the return value of run_qemu_test, once pc = "done"  *)
    log,            (* the log file <log_dir>/<arch>.log                   *)
    script_exists,  (* script_path.exists()                                *)
    log_dir         (* whether a log_dir was given                         *)

emulator == <<out, written, pipe>>
vars == <<out, written, pipe, child, pc, buffer, output_lines, test_passed,
          test_failed, elapsed, how, result, log, script_exists, log_dir>>

-----------------------------------------------------------------------------
(* Helpers for the Python operations the loop performs.                   *)

(* str.rstrip('\n') *)
RECURSIVE rstrip(_)
rstrip(s) == IF s # <<>> /\ Last(s) = NL THEN rstrip(Front(s)) ELSE s

(* "\n".join(lines) *)
join(lines) ==
    IF lines = <<>> THEN <<>>
    ELSE FlattenSeq([i \in 1..Len(lines) |->
                        IF i = 1 THEN lines[i] ELSE <<NL>> \o lines[i]])

(* The inner `break` of lines 159-160 left out: the scan goes on with  *)
(* the next line of the buffer after a signal.                           *)
StopsScanNever(passed, failed) == FALSE

(* Lines 159-160: the first line that sets a flag ends the scan. *)
StopsScan(passed, failed) == passed \/ failed

(* Lines 166-169 with the flush left out: a partial last line is lost. *)
TailLinesDropped(lines, buf) == lines

(* Lines 166-169: a non-empty buffer is appended, trailing newlines      *)
(* stripped, as one last entry.                                           *)
TailLines(lines, buf) ==
    IF buf # <<>> /\ rstrip(buf) # <<>> THEN Append(lines, rstrip(buf))
    ELSE lines

-----------------------------------------------------------------------------
Init ==
    /\ out \in {Encode(t) : t \in Transcripts}
    /\ written = 0
    /\ pipe = <<>>
    /\ child = "none"
    /\ pc = "launch"
    /\ buffer = <<>>
    /\ output_lines = <<>>
    /\ test_passed = FALSE
    /\ test_failed = FALSE
    /\ elapsed = 0
    /\ how = "none"
    /\ result = FALSE
    /\ log = [state |-> "none", text |-> <<>>]
    /\ script_exists \in BOOLEAN
    /\ log_dir \in BOOLEAN

(* ---- the emulator ---- *)

(* QEMU prints the next character of its console output. *)
EmuWrite ==
    /\ child = "running"
    /\ written < Len(out)
    /\ pipe' = Append(pipe, out[written + 1])
    /\ written' = written + 1
    /\ UNCHANGED <<out, child, pc, buffer, output_lines, test_passed,
                   test_failed, elapsed, how, result, log, script_exists, log_dir>>

(* The launch script exits: on its own, or on the SIGTERM sent by        *)
(* terminate().  Its end of the pipe closes.                             *)
EmuExit ==
    /\ child = "running"
    /\ child' = "zombie"
    /\ UNCHANGED <<out, written, pipe, pc, buffer, output_lines, test_passed,
                   test_failed, elapsed, how, result, log, script_exists, log_dir>>

(* ---- the harness: run_qemu_test ---- *)

(* Lines 52-83: a missing script returns False before anything is        *)
(* started; otherwise Popen starts the child, or raises (e.g. the script *)
(* is not executable) into the except clause of line 200.               *)
Launch ==
    /\ pc = "launch"
    /\ \/ /\ ~script_exists
          /\ result' = FALSE /\ pc' = "done" /\ how' = "noscript"
          /\ UNCHANGED child
       \/ /\ script_exists
          /\ child' = "running" /\ pc' = "loop"
          /\ UNCHANGED <<result, how>>
       \/ /\ script_exists
          /\ result' = FALSE /\ pc' = "done" /\ how' = "exception"
          /\ UNCHANGED child
    /\ UNCHANGED <<out, written, pipe, buffer, output_lines, test_passed,
                   test_failed, elapsed, log, script_exists, log_dir>>

(* Lines 110-113: past the timeout, terminate() (a SIGTERM the child may *)
(* ignore) and leave the loop.                                            *)
TimeoutExpired ==
    /\ pc = "loop"
    /\ elapsed > Timeout
    /\ pc' = "tail" /\ how' = "timeout"
    /\ UNCHANGED <<out, written, pipe, child, buffer, output_lines, test_passed,
                   test_failed, elapsed, result, log, script_exists, log_dir>>

(* The same step with the deadline test of line 110 left out. *)
PollChildNoDeadline ==
    /\ pc = "loop"
    /\ child' = Reap(child)
    /\ IF HasExited(child') /\ buffer = <<>>
       THEN pc' = "tail" /\ how' = "exited"
       ELSE pc' = "select" /\ UNCHANGED how
    /\ UNCHANGED <<out, written, pipe, buffer, output_lines, test_passed,
                   test_failed, elapsed, result, log, script_exists, log_dir>>

(* Lines 116-117: poll() (which reaps an exited child); if the child has *)
(* exited and the buffer is empty, leave the loop, else go on to select. *)
PollChild ==
    /\ pc = "loop"
    /\ elapsed <= Timeout
    /\ child' = Reap(child)
    /\ IF HasExited(child') /\ buffer = <<>>
       THEN pc' = "tail" /\ how' = "exited"
       ELSE pc' = "select" /\ UNCHANGED how
    /\ UNCHANGED <<out, written, pipe, buffer, output_lines, test_passed,
                   test_failed, elapsed, result, log, script_exists, log_dir>>

(* select([fd], [], [], 1) finds the fd readable: data in the pipe, or   *)
(* end of file once the child's end of the pipe is closed.               *)
SelectReady == pipe # <<>> \/ child # "running"

(* select() without its timeout argument: it never returns empty. *)
SelectWaitBlocking == FALSE

(* Lines 120-121 and 134-136 with an empty rlist: the whole one-second   *)
(* slice passes; the buffer holds no complete line, so nothing is        *)
(* emitted.                                                               *)
SelectWait ==
    /\ pc = "select"
    /\ ~SelectReady
    /\ elapsed' = elapsed + 1
    /\ pc' = "loop"
    /\ UNCHANGED <<out, written, pipe, child, buffer, output_lines, test_passed,
                   test_failed, how, result, log, script_exists, log_dir>>

(* Lines 122-129 at end of file: read() returns '', poll() is not None,  *)
(* leave the loop.                                                        *)
SelectEof ==
    /\ pc = "select"
    /\ pipe = <<>>
    /\ child # "running"
    /\ child' = Reap(child)
    /\ pc' = "tail" /\ how' = "eof"
    /\ UNCHANGED <<out, written, pipe, buffer, output_lines, test_passed,
                   test_failed, elapsed, result, log, script_exists, log_dir>>

(* Lines 122-131 with data: os.read returns what the pipe holds, at most *)
(* ReadSize characters, and the chunk is appended to the buffer.         *)
SelectData ==
    /\ pc = "select"
    /\ pipe # <<>>
    /\ LET n == IF Len(pipe) < ReadSize THEN Len(pipe) ELSE ReadSize
       IN  /\ buffer' = buffer \o SubSeq(pipe, 1, n)
           /\ pipe' = SubSeq(pipe, n + 1, Len(pipe))
    /\ pc' = "emit"
    /\ UNCHANGED <<out, written, child, output_lines, test_passed, test_failed,
                   elapsed, how, result, log, script_exists, log_dir>>

(* One iteration of lines 134-160: split the line before the first      *)
(* newline off the buffer (buffer.split('\n', 1)), append it to         *)
(* output_lines, scan it for success then failure indicators.           *)
EmitLine ==
    /\ pc = "emit"
    /\ NewlineAt(buffer) # 0
    /\ LET i     == NewlineAt(buffer)
           line  == SubSeq(buffer, 1, i - 1)
           flags == ScanLine(line)
       IN  /\ buffer' = SubSeq(buffer, i + 1, Len(buffer))
           /\ output_lines' = Append(output_lines, line)
           /\ test_passed' = (test_passed \/ flags.passed)
           /\ test_failed' = (test_failed \/ flags.failed)
           /\ IF StopsScan(test_passed', test_failed')
              THEN pc' = "tail" /\ how' = "signal"
              ELSE UNCHANGED <<pc, how>>
    /\ UNCHANGED <<out, written, pipe, child, elapsed, result, log,
                   script_exists, log_dir>>

(* Lines 135-136 and 162-163: no newline left in the buffer; leave the  *)
(* loop if a flag is set, else go round again.                           *)
EmitDone ==
    /\ pc = "emit"
    /\ NewlineAt(buffer) = 0
    /\ IF test_passed \/ test_failed
       THEN pc' = "tail" /\ how' = "signal"
       ELSE pc' = "loop" /\ UNCHANGED how
    /\ UNCHANGED <<out, written, pipe, child, buffer, output_lines, test_passed,
                   test_failed, elapsed, result, log, script_exists, log_dir>>

(* Lines 200-203: an exception inside the try block (os.read or select  *)
(* raising OSError, a print to a closed stdout raising BrokenPipeError) *)
(* is caught, printed, and run_qemu_test returns False at once: the     *)
(* cleanup of lines 174-182 is skipped.                                  *)
Raise ==
    /\ pc \in {"loop", "select", "emit", "tail"}
    /\ result' = FALSE /\ pc' = "done" /\ how' = "exception"
    /\ UNCHANGED <<out, written, pipe, child, buffer, output_lines, test_passed,
                   test_failed, elapsed, log, script_exists, log_dir>>

(* Lines 165-179: flush the trailing partial line, then poll(); a child *)
(* still running is sent terminate() and the harness sleeps one second. *)
Cleanup ==
    /\ pc = "tail"
    /\ output_lines' = TailLines(output_lines, buffer)
    /\ child' = Reap(child)
    /\ pc' = IF child' = "running" THEN "sleep" ELSE "log"
    /\ UNCHANGED <<out, written, pipe, buffer, test_passed, test_failed,
                   elapsed, how, result, log, script_exists, log_dir>>

(* The same step without the kill() of line 182. *)
KillAfterGraceNoKill ==
    /\ pc = "sleep"
    /\ child' = Reap(child)
    /\ pc' = "log"
    /\ UNCHANGED <<out, written, pipe, buffer, output_lines, test_passed,
                   test_failed, elapsed, how, result, log, script_exists, log_dir>>

(* Lines 181-182: after the sleep, poll() again and kill() a child that *)
(* is still running.  Nothing waits for the killed child: it stays a    *)
(* zombie until some later poll or Popen reaps it.                       *)
KillAfterGrace ==
    /\ pc = "sleep"
    /\ child' = IF Reap(child) = "running" THEN "zombie" ELSE Reap(child)
    /\ pc' = "log"
    /\ UNCHANGED <<out, written, pipe, buffer, output_lines, test_passed,
                   test_failed, elapsed, how, result, log, script_exists, log_dir>>

(* Lines 185-198: with a log_dir, write "\n".join(output_lines) to the  *)
(* log file; a failing write is reported and ignored.  Return           *)
(* test_passed and not test_failed.                                      *)
WriteLogAndReturn ==
    /\ pc = "log"
    /\ \/ ~log_dir /\ UNCHANGED log
       \/ log_dir /\ log' = [state |-> "written", text |-> join(output_lines)]
       \/ log_dir /\ log' = [state |-> "failed", text |-> <<>>]
    /\ result' = Verdict([passed |-> test_passed, failed |-> test_failed])
    /\ pc' = "done"
    /\ UNCHANGED <<out, written, pipe, child, buffer, output_lines, test_passed,
                   test_failed, elapsed, how, script_exists, log_dir>>

(* The harness steps the operating system schedules: all but Raise. *)
Harness ==
    \/ Launch \/ TimeoutExpired \/ PollChild \/ SelectWait \/ SelectEof
    \/ SelectData \/ EmitLine \/ EmitDone \/ Cleanup \/ KillAfterGrace \/ WriteLogAndReturn

Next == Harness \/ Raise \/ EmuWrite \/ EmuExit

(* The harness is a process the OS keeps scheduling; the emulator gets  *)
(* no fairness: it may stall forever.                                    *)
Fairness == WF_vars(Harness)

Spec == Init /\ [][Next]_vars /\ Fairness

-----------------------------------------------------------------------------
Returned == pc = "done" /\ how # "exception"

(* The refinement mapping to BootTestRun: the emulator is "up" while the *)
(* child runs; the harness has read what was written and is no longer in *)
(* the pipe; the call is "running" from Popen to its return.             *)
PhaseOf(p) == IF p = "launch" THEN "idle" ELSE IF p = "done" THEN "returned" ELSE "running"

EndingOf(p, h) ==
    IF p # "done" THEN "none" ELSE IF h = "exception" THEN "error" ELSE "normal"

Abstract == INSTANCE BootTestRun WITH
    Outputs  <- {Encode(t) : t \in Transcripts},
    output   <- out,
    produced <- written,
    read     <- written - Len(pipe),
    emu      <- EmuOf(child),
    phase    <- PhaseOf(pc),
    verdict  <- result,
    ending   <- EndingOf(pc, how)

-----------------------------------------------------------------------------
TypeOK ==
    /\ written \in 0..Len(out)
    /\ pipe = SubSeq(out, written - Len(pipe) + 1, written)
    /\ child \in {"none", "running", "zombie", "reaped"}
    /\ pc \in {"launch", "loop", "select", "emit", "tail", "sleep", "log", "done"}
    /\ buffer \in Seq(STRING) /\ output_lines \in Seq(Seq(STRING))
    /\ test_passed \in BOOLEAN /\ test_failed \in BOOLEAN
    /\ elapsed \in 0..(Timeout + 1)
    /\ how \in {"none", "noscript", "timeout", "exited", "eof", "signal", "exception"}
    /\ result \in BOOLEAN
    /\ log.state \in {"none", "written", "failed"}

(* run_qemu_test keeps the promise of BootTestRun: it reads no further  *)
(* than the first complete line with an indicator, returns that line's  *)
(* verdict (Failed when it carries both kinds, False when no line has   *)
(* one), whatever the chunk boundaries, the way the loop is left or the *)
(* fate of the log file, and on a normal return the emulator is no      *)
(* longer running, even one that ignores SIGTERM.                        *)
RunRefinement == Abstract!RunSpec

(* The log file holds exactly the console text the harness read, line  *)
(* by line and in order, partial last line included, up to trailing     *)
(* newlines: chunk boundaries, the early exit on a signal and the tail  *)
(* flush lose and duplicate nothing.                                    *)
LogIsTranscript ==
    log.state = "written"
        => rstrip(log.text) = rstrip(SubSeq(out, 1, written - Len(pipe)))

(* Every run_qemu_test call returns: a stalled emulator, one that stops *)
(* in the middle of a line, or one that ignores SIGTERM never hangs the *)
(* harness, because select() is bounded and the timeout is re-checked.  *)
MonitorTerminates == <>(pc = "done")

-----------------------------------------------------------------------------
(* Statements of spec.md the code does not meet (checked as violations). *)

(* spec.md 8: a success indicator written before any failure indicator  *)
(* makes the run Passed.  When the emulator exits, everything it wrote  *)
(* before exiting decides the verdict.                                  *)
SignalNotLost ==
    (pc = "done" /\ how \in {"exited", "eof"})
        => result = Abstract!FirstSignalVerdict(
                        Abstract!CompleteLines(SubSeq(out, 1, written)))

(* spec.md 4.5: on every way out of run_qemu_test, exceptions raised   *)
(* while monitoring included, the emulator is terminated and reclaimed: *)
(* the harness never returns while its child runs or is a zombie.       *)
ChildReclaimedOnEveryReturn == pc = "done" => child \in {"none", "reaped"}
=============================================================================
