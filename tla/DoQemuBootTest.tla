--------------------------- MODULE DoQemuBootTest ---------------------------
(***************************************************************************)
(* One boot test in the older script src/scripts/do-qemu-boot-tests.py:   *)
(* QEMUTestRunner.run_qemu_test (lines 50-151), with the emulator it      *)
(* launches.  Unlike run-qemu-boot-tests.py it reads the pipe with the    *)
(* blocking stdout.readline() of a text-mode file object, and keeps no    *)
(* log file.                                                               *)
(*                                                                         *)
(* readline() is modelled by what the io stack does: while the read-ahead *)
(* buffer `rbuf` holds no newline it moves at most ReadSize characters of *)
(* the pipe into it, blocking while the pipe is empty and its writer      *)
(* alive; at end of file it returns what the buffer holds, possibly the   *)
(* empty string.  Time passes only while readline() blocks (Tick): the    *)
(* rest of an iteration takes no measurable time.                         *)
(***************************************************************************)
EXTENDS Naturals, Sequences, SequencesExt, PatternMatcher, ChildProcess

CONSTANTS
    Transcripts,   (* the console outputs the emulator may produce        *)
    Timeout,       (* arch_config['timeout'], in ticks                    *)
    ReadSize       (* the chunk the buffered reader takes from the pipe   *)

ASSUME /\ Timeout \in Nat
       /\ ReadSize \in Nat \ {0}

VARIABLES
    out, written, pipe, child,   (* the emulator, as in QemuBootTest       *)
    pc,             (* "launch", "loop", "read", "tail", "sleep", "done"   *)
    rbuf,           (* the text reader's read-ahead buffer                 *)
    output_lines,
    test_passed,
    test_failed,
    elapsed,        (* time.time() - start_time, in ticks                  *)
    how,            (* how the loop was left (history)                     *)
    result,         (* the return value, once pc = "done"                  *)
    script_exists   (* script_path.exists()                                *)

vars == <<out, written, pipe, child, pc, rbuf, output_lines, test_passed,
          test_failed, elapsed, how, result, script_exists>>

harness == <<pc, rbuf, output_lines, test_passed, test_failed, elapsed, how,
             result, script_exists>>

Init ==
    /\ out \in {Encode(t) : t \in Transcripts}
    /\ written = 0 /\ pipe = <<>> /\ child = "none"
    /\ pc = "launch" /\ rbuf = <<>> /\ output_lines = <<>>
    /\ test_passed = FALSE /\ test_failed = FALSE
    /\ elapsed = 0 /\ how = "none" /\ result = FALSE
    /\ script_exists \in BOOLEAN

(* ---- the emulator ---- *)

EmuWrite ==
    /\ child = "running"
    /\ written < Len(out)
    /\ pipe' = Append(pipe, out[written + 1])
    /\ written' = written + 1
    /\ UNCHANGED <<out, child>> /\ UNCHANGED harness

EmuExit ==
    /\ child = "running"
    /\ child' = "zombie"
    /\ UNCHANGED <<out, written, pipe>> /\ UNCHANGED harness

(* ---- the harness ---- *)

(* Lines 54-83: a missing script returns False; Popen starts the child  *)
(* or raises into the except clause of line 149.  (stdout is never None *)
(* with stdout=PIPE, so the early return of lines 81-83 is unreachable.) *)
Launch ==
    /\ pc = "launch"
    /\ \/ ~script_exists /\ pc' = "done" /\ how' = "noscript" /\ UNCHANGED child
       \/ script_exists /\ child' = "running" /\ pc' = "loop" /\ UNCHANGED how
       \/ script_exists /\ pc' = "done" /\ how' = "exception" /\ UNCHANGED child
    /\ UNCHANGED <<out, written, pipe, rbuf, output_lines, test_passed,
                   test_failed, elapsed, result, script_exists>>

(* Lines 103-106 and 111: past the timeout, terminate() and leave the    *)
(* loop; otherwise call readline().                                      *)
CheckTimeout ==
    /\ pc = "loop"
    /\ IF elapsed > Timeout
       THEN pc' = "tail" /\ how' = "timeout"
       ELSE pc' = "read" /\ UNCHANGED how
    /\ UNCHANGED <<out, written, pipe, child, rbuf, output_lines, test_passed,
                   test_failed, elapsed, result, script_exists>>

(* Inside readline(): no newline buffered, the pipe has data: the reader *)
(* takes at most ReadSize characters of it.                              *)
FillBuffer ==
    /\ pc = "read"
    /\ NewlineAt(rbuf) = 0
    /\ pipe # <<>>
    /\ LET n == IF Len(pipe) < ReadSize THEN Len(pipe) ELSE ReadSize
       IN  /\ rbuf' = rbuf \o SubSeq(pipe, 1, n)
           /\ pipe' = SubSeq(pipe, n + 1, Len(pipe))
    /\ UNCHANGED <<out, written, child, pc, output_lines, test_passed,
                   test_failed, elapsed, how, result, script_exists>>

(* readline() blocked on an empty pipe whose writer is alive: a tick of *)
(* the clock passes (bounded: past Timeout + 1 it no longer matters).    *)
Tick ==
    /\ pc = "read"
    /\ NewlineAt(rbuf) = 0 /\ pipe = <<>> /\ child = "running"
    /\ elapsed <= Timeout
    /\ elapsed' = elapsed + 1
    /\ UNCHANGED <<out, written, pipe, child, pc, rbuf, output_lines,
                   test_passed, test_failed, how, result, script_exists>>

(* readline() returns: up to and including the first newline, or at end *)
(* of file whatever is buffered.                                          *)
LineReady == NewlineAt(rbuf) # 0 \/ (pipe = <<>> /\ child # "running")

ReturnedLine ==
    IF NewlineAt(rbuf) # 0 THEN SubSeq(rbuf, 1, NewlineAt(rbuf)) ELSE rbuf

(* Leaving the loop on a failure line only, reading on after a success. *)
DoStopsScanFailureOnly(passed, failed) == failed

(* Lines 135-136. *)
DoStopsScan(passed, failed) == passed \/ failed

(* Lines 111-136 once readline() returns.  The empty string at end of    *)
(* file with poll() not None leaves the loop (112-113); a line has its   *)
(* newline removed (116), is appended and scanned with the script's own *)
(* indicator lists; a flag set leaves the loop.                          *)
ReadLine ==
    /\ pc = "read"
    /\ LineReady
    /\ LET line  == ReturnedLine
           text  == IF line # <<>> /\ Last(line) = NL THEN Front(line) ELSE line
           flags == ScanLineWith(do_failure_indicators, text)
       IN  /\ rbuf' = SubSeq(rbuf, Len(line) + 1, Len(rbuf))
           /\ IF line = <<>>
              THEN /\ child' = Reap(child)
                   /\ pc' = "tail" /\ how' = "eof"
                   /\ UNCHANGED <<output_lines, test_passed, test_failed>>
              ELSE /\ output_lines' = Append(output_lines, text)
                   /\ test_passed' = (test_passed \/ flags.passed)
                   /\ test_failed' = (test_failed \/ flags.failed)
                   /\ IF DoStopsScan(test_passed', test_failed')
                      THEN pc' = "tail" /\ how' = "signal"
                      ELSE pc' = "loop" /\ UNCHANGED how
                   /\ UNCHANGED child
    /\ UNCHANGED <<out, written, pipe, elapsed, result, script_exists>>

(* Lines 149-151: an exception in the try block returns False at once;  *)
(* the child is left as it is.                                           *)
Raise ==
    /\ pc \in {"loop", "read", "tail"}
    /\ pc' = "done" /\ how' = "exception" /\ result' = FALSE
    /\ UNCHANGED <<out, written, pipe, child, rbuf, output_lines, test_passed,
                   test_failed, elapsed, script_exists>>

(* Lines 141-143: poll(); a running child gets terminate() and sleep(1); *)
(* otherwise return test_passed and not test_failed (147).               *)
Cleanup ==
    /\ pc = "tail"
    /\ child' = Reap(child)
    /\ IF child' = "running"
       THEN pc' = "sleep" /\ UNCHANGED result
       ELSE /\ pc' = "done"
            /\ result' = Verdict([passed |-> test_passed, failed |-> test_failed])
    /\ UNCHANGED <<out, written, pipe, rbuf, output_lines, test_passed,
                   test_failed, elapsed, how, script_exists>>

(* Lines 144-147: poll() again, kill() a child still running (nothing   *)
(* waits for it), and return.                                            *)
KillAndReturn ==
    /\ pc = "sleep"
    /\ child' = IF Reap(child) = "running" THEN "zombie" ELSE Reap(child)
    /\ pc' = "done"
    /\ result' = Verdict([passed |-> test_passed, failed |-> test_failed])
    /\ UNCHANGED <<out, written, pipe, rbuf, output_lines, test_passed,
                   test_failed, elapsed, how, script_exists>>

Harness ==
    \/ Launch \/ CheckTimeout \/ FillBuffer \/ ReadLine \/ Cleanup \/ KillAndReturn

Next == Harness \/ Tick \/ Raise \/ EmuWrite \/ EmuExit

(* The harness is scheduled fairly and the clock runs; the emulator may  *)
(* stall forever.                                                         *)
Fairness == WF_vars(Harness) /\ WF_vars(Tick)

Spec == Init /\ [][Next]_vars /\ Fairness

-----------------------------------------------------------------------------
EndingOf(p, h) ==
    IF p # "done" THEN "none" ELSE IF h = "exception" THEN "error" ELSE "normal"

Abstract == INSTANCE BootTestRun WITH
    Outputs  <- {Encode(t) : t \in Transcripts},
    output   <- out,
    produced <- written,
    read     <- written - Len(pipe),
    emu      <- EmuOf(child),
    phase    <- IF pc = "launch" THEN "idle" ELSE IF pc = "done" THEN "returned" ELSE "running",
    verdict  <- result,
    ending   <- EndingOf(pc, how)

(* The verdict of the first line, in the order read, that carries an     *)
(* indicator of the script's own lists; FALSE when no line does.         *)
DoFirstSignalVerdict(ls) ==
    LET i == SelectInSeq(ls, LAMBDA l : IsSignal(ScanLineWith(do_failure_indicators, l)))
    IN  i # 0 /\ Verdict(ScanLineWith(do_failure_indicators, ls[i]))

(* When run_qemu_test returns normally (after a timeout, end of file or  *)
(* a signal), its value is decided by the first line with an indicator: *)
(* the loop of lines 101-136 must stop at that line, so that neither a  *)
(* later line nor the flags of an earlier one change it; and a run that *)
(* saw no indicator (timeout, end of file) returns False.  The flags     *)
(* accumulate over the iterations and are read after the cleanup of     *)
(* lines 141-147, several steps after the line that set them.            *)
DoVerdictOfFirstSignalLine ==
    pc = "done" /\ how \in {"timeout", "eof", "signal"}
        => result = DoFirstSignalVerdict(output_lines)

-----------------------------------------------------------------------------
(* Statements of spec.md the code does not meet (checked as violations). *)

(* spec.md 4.3: only completed lines go to the Pattern Matcher, so the  *)
(* readline() loop should keep the promise of BootTestRun: the verdict  *)
(* of the first complete line with an indicator (for lines without the  *)
(* panic and crash phrases, whose indicator list differs), and no       *)
(* emulator left running on a normal return.                            *)
DoRunRefinement == Abstract!RunSpec
=============================================================================
