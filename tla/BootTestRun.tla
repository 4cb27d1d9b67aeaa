---------------------------- MODULE BootTestRun ----------------------------
(***************************************************************************)
(* What one run_qemu_test call promises its caller, without the loop:     *)
(* the emulator produces console output; the harness reads a growing     *)
(* prefix of it, and reads no further once that prefix holds a complete  *)
(* line with an indicator; it returns the verdict of the first such line *)
(* (False when there is none), and the emulator is no longer running     *)
(* when it returns normally.  The harness may also                     *)
(* give up early and return False: a missing script, or an exception (Abort), which leaves *)
(* the emulator as it is; ending tells the two kinds of return apart.    *)
(*                                                                         *)
(* QemuBootTest implements this specification (MCQemuBootTest checks     *)
(* RunRefinement); BootTestRunner composes runs of it.                    *)
(***************************************************************************)
EXTENDS Naturals, Sequences, SequencesExt, PatternMatcher, ChildProcess

CONSTANT Outputs      (* the character sequences the emulator may print *)

VARIABLES
    output,     (* what this emulator prints if left running            *)
    produced,   (* how much of it has been printed                      *)
    read,       (* how much of it the harness has read                  *)
    emu,        (* "none" (never started), "up", "down"                 *)
    phase,      (* "idle", "running", "returned"                        *)
    verdict,    (* the return value, once phase = "returned"            *)
    ending      (* "none"; "normal" return, or "error" (an exception)   *)

runVars == <<output, produced, read, emu, phase, verdict, ending>>

Seen == CompleteLines(SubSeq(output, 1, read))

SignalSeen == \E i \in 1..Len(Seen) : IsSignal(ScanLine(Seen[i]))

(* The verdict of the first line of ls with an indicator; FALSE if none. *)
FirstSignalVerdict(ls) ==
    LET i == SelectInSeq(ls, LAMBDA l : IsSignal(ScanLine(l)))
    IN  i # 0 /\ Verdict(ScanLine(ls[i]))

RunInit ==
    /\ output \in Outputs
    /\ produced = 0 /\ read = 0
    /\ emu = "none" /\ phase = "idle" /\ verdict = FALSE /\ ending = "none"

Produce ==
    /\ emu = "up" /\ produced < Len(output)
    /\ produced' = produced + 1
    /\ UNCHANGED <<output, read, emu, phase, verdict, ending>>

EmulatorStops ==
    /\ emu = "up"
    /\ emu' = "down"
    /\ UNCHANGED <<output, produced, read, phase, verdict, ending>>

Start ==
    /\ phase = "idle"
    /\ phase' = "running" /\ emu' = "up"
    /\ UNCHANGED <<output, produced, read, verdict, ending>>

Refuse ==
    /\ phase = "idle"
    /\ phase' = "returned" /\ verdict' = FALSE /\ ending' = "normal"
    /\ UNCHANGED <<output, produced, read, emu>>

Consume ==
    /\ phase = "running" /\ ~SignalSeen
    /\ read' \in (read + 1)..produced
    /\ UNCHANGED <<output, produced, emu, phase, verdict, ending>>

Return ==
    /\ phase = "running" /\ emu # "up"
    /\ phase' = "returned" /\ verdict' = FirstSignalVerdict(Seen)
    /\ ending' = "normal"
    /\ UNCHANGED <<output, produced, read, emu>>

Abort ==
    /\ phase \in {"idle", "running"}
    /\ phase' = "returned" /\ verdict' = FALSE /\ ending' = "error"
    /\ UNCHANGED <<output, produced, read, emu>>

RunNext ==
    \/ Produce \/ EmulatorStops \/ Start \/ Refuse \/ Consume \/ Return \/ Abort

RunSpec == RunInit /\ [][RunNext]_runVars
=============================================================================
