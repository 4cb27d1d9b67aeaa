---------------------------- MODULE ChildProcess ----------------------------
(***************************************************************************)
(* What both boot-test scripts know of the emulator process they start   *)
(* with subprocess.Popen: the characters it writes to the stdout pipe,   *)
(* and the process-table states poll(), terminate() and kill() move it   *)
(* through.  Pure operators, shared by the monitors and the unittest driver. *)
(***************************************************************************)
EXTENDS Naturals, Sequences, SequencesExt, PatternMatcher

(* The characters the emulator writes for a transcript: every line ends  *)
(* with a newline; stopping early leaves a partial last line.            *)
Encode(t) == FlattenSeq([i \in 1..Len(t) |-> t[i] \o <<NL>>])

(* Popen.poll(): a waitpid(WNOHANG) that reaps an exited child; it is    *)
(* "not None" once the child has exited.  States: "none" (not started),  *)
(* "running", "zombie" (exited, not reaped), "reaped".                   *)
Reap(c) == IF c = "zombie" THEN "reaped" ELSE c

HasExited(c) == c \in {"zombie", "reaped"}

(* Position of the first newline of s; 0 when there is none. *)
NewlineAt(s) == SelectInSeq(s, LAMBDA c : c = NL)

(* The complete lines of a character sequence, newlines removed. *)
RECURSIVE CompleteLines(_)
CompleteLines(s) ==
    IF NewlineAt(s) = 0 THEN <<>>
    ELSE <<SubSeq(s, 1, NewlineAt(s) - 1)>>
            \o CompleteLines(SubSeq(s, NewlineAt(s) + 1, Len(s)))

(* The emulator as BootTestRun sees it. *)
EmuOf(c) == IF c = "running" THEN "up" ELSE IF c = "none" THEN "none" ELSE "down"
=============================================================================
