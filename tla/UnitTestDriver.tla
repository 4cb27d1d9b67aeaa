--------------------------- MODULE UnitTestDriver ---------------------------
(***************************************************************************)
(* src/scripts/unittest.py: main (lines 60-96) starts QEMU with stdin and *)
(* stdout piped, waits up to 5 s for "starting app shell", types          *)
(* "uefi_load virtio0", waits up to 0.5 s for "Hello World!", and always   *)
(* ends in shutdown_little_kernel (33-57).  wait_for_output (11-30) polls  *)
(* the non-blocking pipe and reads everything available at once.          *)
(*                                                                         *)
(* The emulator is a second process: it writes BootOut one character at a *)
(* step, writes Reply only once the command was typed, and may exit at    *)
(* any time with code zero or non-zero.  Time is a clock of ticks.        *)
(***************************************************************************)
EXTENDS Naturals, Sequences, SequencesExt, PatternMatcher, ChildProcess

CONSTANTS
    BootOut,     (* the kernel's console up to and after the shell prompt *)
    Reply,       (* what the UEFI app prints after "uefi_load"            *)
    ShellMark,   (* a character standing for "starting app shell"         *)
    HelloMark,   (* a character standing for "Hello World!"               *)
    Timeout1,    (* ticks of the 5 s wait                                 *)
    Timeout2     (* ticks of the 0.5 s wait                               *)

VARIABLES
    written,     (* characters of out the emulator has written            *)
    pipe,        (* written, not yet read                                 *)
    child,       (* "none", "running", "zombie", "reaped"                 *)
    code,        (* the emulator's exit code: "none", "zero", "nonzero"   *)
    cmd_sent,    (* "uefi_load virtio0" reached QEMU's stdin              *)
    pc,
    phase,       (* which wait_for_output call: 1 or 2                    *)
    output,      (* wait_for_output's list of lines                       *)
    cur_line,
    elapsed,     (* ticks since the current call started                  *)
    mark,        (* characters read before the current call started       *)
    met,         (* condition_met of the last call                        *)
    failed,      (* an exception is propagating (assert, BrokenPipeError) *)
    status       (* how the script ends: "none", "ok", "fail"             *)

vars == <<written, pipe, child, code, cmd_sent, pc, phase, output, cur_line,
          elapsed, mark, met, failed, status>>

out == BootOut \o Reply

(* The characters wait_for_output has read so far. *)
Consumed == SubSeq(out, 1, written - Len(pipe))

Predicate(p, l) == IF p = 1 THEN ShellMark \in Range(l) ELSE HelloMark \in Range(l)

Deadline(p) == IF p = 1 THEN Timeout1 ELSE Timeout2

Init ==
    /\ written = 0 /\ pipe = <<>> /\ child = "none" /\ code = "none"
    /\ cmd_sent = FALSE /\ pc = "launch" /\ phase = 1
    /\ output = <<>> /\ cur_line = <<>> /\ elapsed = 0 /\ mark = 0
    /\ met = FALSE /\ failed = FALSE /\ status = "none"

(* The emulator prints; the reply to the command only after it came.  *)
EmuWrite ==
    /\ child = "running"
    /\ written < Len(out)
    /\ written < Len(BootOut) \/ cmd_sent
    /\ written' = written + 1
    /\ pipe' = Append(pipe, out[written + 1])
    /\ UNCHANGED <<child, code>>
    /\ UNCHANGED <<cmd_sent, pc, phase, output, cur_line, elapsed, mark, met, failed, status>>

(* The emulator exits: powered off, crashed or killed by a signal. *)
EmuExit ==
    /\ child = "running"
    /\ child' = "zombie"
    /\ code' \in {"zero", "nonzero"}
    /\ UNCHANGED <<written, pipe>>
    /\ UNCHANGED <<cmd_sent, pc, phase, output, cur_line, elapsed, mark, met, failed, status>>

(* Real time passes while the driver is in wait_for_output's loop. *)
Tick ==
    /\ pc \in {"wait", "poll"}
    /\ elapsed < Deadline(phase)
    /\ elapsed' = elapsed + 1
    /\ UNCHANGED <<written, pipe, child, code, cmd_sent, pc, phase, output,
                   cur_line, mark, met, failed, status>>

(* Lines 63-82: Popen, which raises before the try when qemu is missing, *)
(* then set_blocking and the first call of wait_for_output (12-17).       *)
Launch ==
    /\ pc = "launch"
    /\ \/ child' = "running" /\ pc' = "wait" /\ UNCHANGED status
       \/ pc' = "exit" /\ status' = "fail" /\ UNCHANGED child
    /\ UNCHANGED <<written, pipe, code, cmd_sent, phase, output, cur_line,
                   elapsed, mark, met, failed>>

(* wait_for_output returns; line 85 asserts the first condition, and  *)
(* main returns after the second whatever it was (lines 91-96).       *)
Return(m) ==
    /\ met' = m
    /\ IF phase = 1 /\ m THEN pc' = "cmd" ELSE pc' = "sd_poll"
    /\ failed' = (phase = 1 /\ ~m)

(* A loop that never looks at the clock. *)
WaitLoopForever ==
    /\ pc = "wait"
    /\ pc' = "poll" /\ UNCHANGED <<met, failed>>
    /\ UNCHANGED <<written, pipe, child, code, cmd_sent, phase, output,
                   cur_line, elapsed, mark, status>>

(* Line 18: the loop condition. *)
WaitLoop ==
    /\ pc = "wait"
    /\ IF elapsed < Deadline(phase)
       THEN pc' = "poll" /\ UNCHANGED <<met, failed>>
       ELSE Return(FALSE)
    /\ UNCHANGED <<written, pipe, child, code, cmd_sent, phase, output,
                   cur_line, elapsed, mark, status>>

(* Line 19: poll() returns nothing once its timeout has run out. *)
PollEmpty ==
    /\ pc = "poll"
    /\ pipe = <<>> /\ child = "running"
    /\ elapsed >= Deadline(phase)
    /\ pc' = "wait"
    /\ UNCHANGED <<written, pipe, child, code, cmd_sent, phase, output,
                   cur_line, elapsed, mark, met, failed, status>>

(* A cur_line that keeps the newline it was split at. *)
RestKeepsNewline(data) == SubSeq(data, NewlineAt(data), Len(data))

(* Line 24: what follows the first newline of the data. *)
Rest(data) == SubSeq(data, NewlineAt(data) + 1, Len(data))

(* Lines 19-28: poll() reports the pipe readable (data, or end of file   *)
(* once the emulator is gone) and read() takes all that is there.  Only *)
(* the first newline splits a line off; the rest goes to cur_line.      *)
ReadData ==
    /\ pc = "poll"
    /\ pipe # <<>> \/ child # "running"
    /\ pipe' = <<>>
    /\ LET data  == pipe
           entry == cur_line \o SubSeq(data, 1, NewlineAt(data))
       IN  IF NewlineAt(data) # 0
           THEN /\ output' = Append(output, entry)
                /\ cur_line' = Rest(data)
                /\ IF Predicate(phase, entry)
                   THEN Return(TRUE)
                   ELSE pc' = "wait" /\ UNCHANGED <<met, failed>>
           ELSE /\ cur_line' = cur_line \o data
                /\ pc' = "wait" /\ UNCHANGED <<output, met, failed>>
    /\ UNCHANGED <<written, child, code, cmd_sent, phase, elapsed, mark, status>>

(* The second wait measured from the first one's start. *)
SendCommandKeepsClock ==
    /\ pc = "cmd"
    /\ IF child = "running"
       THEN /\ cmd_sent' = TRUE /\ phase' = 2 /\ pc' = "wait"
            /\ output' = <<>> /\ cur_line' = <<>>
            /\ mark' = Len(Consumed)
            /\ UNCHANGED <<failed, elapsed>>
       ELSE /\ failed' = TRUE /\ pc' = "sd_poll"
            /\ UNCHANGED <<cmd_sent, phase, output, cur_line, elapsed, mark>>
    /\ UNCHANGED <<written, pipe, child, code, met, status>>

(* Lines 87-90: type the command (BrokenPipeError once QEMU is gone),   *)
(* then the second wait_for_output starts from an empty output.         *)
SendCommand ==
    /\ pc = "cmd"
    /\ IF child = "running"
       THEN /\ cmd_sent' = TRUE /\ phase' = 2 /\ pc' = "wait"
            /\ output' = <<>> /\ cur_line' = <<>> /\ elapsed' = 0
            /\ mark' = Len(Consumed)
            /\ UNCHANGED failed
       ELSE /\ failed' = TRUE /\ pc' = "sd_poll"
            /\ UNCHANGED <<cmd_sent, phase, output, cur_line, elapsed, mark>>
    /\ UNCHANGED <<written, pipe, child, code, met, status>>

(* Lines 35-38: poll() reaps an exited QEMU; `if ret:` returns only on a *)
(* non-zero code, so one that exited with 0 goes on to poweroff.        *)
ShutdownPoll ==
    /\ pc = "sd_poll"
    /\ child' = Reap(child)
    /\ pc' = IF HasExited(child) /\ code = "nonzero" THEN "sd_finally" ELSE "sd_write"
    /\ UNCHANGED <<written, pipe, code, cmd_sent, phase, output, cur_line,
                   elapsed, mark, met, failed, status>>

(* Lines 39-49: the /proc status print, then "poweroff" to stdin; a     *)
(* BrokenPipeError is not caught by the except and propagates.          *)
ShutdownWrite ==
    /\ pc = "sd_write"
    /\ IF child = "running"
       THEN pc' = "sd_wait" /\ UNCHANGED failed
       ELSE pc' = "sd_finally" /\ failed' = TRUE
    /\ UNCHANGED <<written, pipe, child, code, cmd_sent, phase, output,
                   cur_line, elapsed, mark, met, status>>

(* Lines 50-54: wait(0.3) reaps a QEMU that powered off, then SIGINT and *)
(* wait(1) find it gone; one still running raises TimeoutExpired, which *)
(* skips straight to the finally.                                        *)
ShutdownWait ==
    /\ pc = "sd_wait"
    /\ child' = Reap(child)
    /\ pc' = "sd_finally"
    /\ UNCHANGED <<written, pipe, code, cmd_sent, phase, output, cur_line,
                   elapsed, mark, met, failed, status>>

(* kill() without the wait() after it. *)
FinallyNoWait(c) == IF c = "running" THEN "zombie" ELSE c

(* Lines 55-57: kill() and wait() reap QEMU whatever happened before; *)
(* the script then exits, with a traceback if an exception propagates. *)
Finally(c) == "reaped"

ShutdownFinally ==
    /\ pc = "sd_finally"
    /\ child' = Finally(child)
    /\ pc' = "exit"
    /\ status' = IF failed THEN "fail" ELSE "ok"
    /\ UNCHANGED <<written, pipe, code, cmd_sent, phase, output, cur_line,
                   elapsed, mark, met, failed>>

Driver == \/ Launch \/ WaitLoop \/ PollEmpty \/ ReadData \/ SendCommand
          \/ ShutdownPoll \/ ShutdownWrite \/ ShutdownWait \/ ShutdownFinally

Next == Driver \/ Tick \/ EmuWrite \/ EmuExit

(* The driver is a process the OS keeps scheduling and the clock runs;  *)
(* the emulator may stall or never exit.                                 *)
Spec == Init /\ [][Next]_vars /\ WF_vars(Driver) /\ WF_vars(Tick)
-----------------------------------------------------------------------------
TypeOK ==
    /\ written \in 0..Len(out) /\ Len(pipe) <= written
    /\ child \in {"none", "running", "zombie", "reaped"}
    /\ code \in {"none", "zero", "nonzero"}
    /\ pc \in {"launch", "wait", "poll", "cmd", "sd_poll", "sd_write",
              "sd_wait", "sd_finally", "exit"}
    /\ phase \in {1, 2} /\ elapsed \in 0..Deadline(phase)
    /\ mark <= written - Len(pipe)
    /\ status \in {"none", "ok", "fail"}

(* Inside wait_for_output the lines in output followed by cur_line are  *)
(* exactly the text read since the call started, however read() chunked *)
(* it: the slicing at the first newline (lines 23-24) loses nothing and *)
(* repeats nothing.                                                      *)
ReadTextAccounted ==
    pc \in {"wait", "poll"} =>
        FlattenSeq(output) \o cur_line = SubSeq(Consumed, mark + 1, Len(Consumed))

(* Whatever the emulator does and whichever exception is raised (the    *)
(* assert, BrokenPipeError on either write, TimeoutExpired), QEMU has    *)
(* been reaped by the time the script exits: the finally of lines 55-57. *)
ShutdownReapsChild ==
    pc = "exit" /\ child # "none" => child = "reaped"

(* The script always ends, even against an emulator that stalls or     *)
(* exits: both waits are bounded by their deadlines (line 18).          *)
DriverTerminates == <>(pc = "exit")

-----------------------------------------------------------------------------
(* The assertion of line 85 fails with "Did not see 'starting app       *)
(* shell'" only when no complete line read in the first wait holds the  *)
(* phrase.                                                               *)
AssertionMessageTrue ==
    (pc = "sd_poll" /\ phase = 1 /\ ~met) =>
        ~\E j \in 1..Len(CompleteLines(Consumed)) :
            Predicate(1, CompleteLines(Consumed)[j])
=============================================================================
