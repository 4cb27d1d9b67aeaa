--------------------------- MODULE BootTestRunner ---------------------------
(***************************************************************************)
(* The orchestrator of src/scripts/run-qemu-boot-tests.py: main (lines   *)
(* 269-294), QEMUTestRunner.run_all_tests (205-222) and print_summary    *)
(* (224-267), composed with the boot tests it runs one after another.    *)
(*                                                                         *)
(* Each run_qemu_test call is the abstract BootTestRun, which             *)
(* QemuBootTest is checked to implement (MCQemuBootTest, RunRefinement): *)
(* its variables are declared here and reset for every architecture, and *)
(* its steps interleave with nothing else, since the runs are strictly   *)
(* sequential.                                                            *)
(***************************************************************************)
EXTENDS Naturals, Sequences, SequencesExt, FiniteSets, PatternMatcher

CONSTANTS
    Archs,       (* architecture names: the keys of self.architectures   *)
    ArchOrder,   (* those keys in dictionary order                        *)
    Outputs,     (* console outputs an emulator may produce               *)
    MaxArgs      (* most --arch options on one command line               *)

ASSUME /\ ArchOrder \in Seq(Archs)
       /\ MaxArgs \in Nat \ {0}

VARIABLES
    selected,    (* args.arch resolved: the list run_all_tests iterates   *)
    i,           (* the loop's position in selected                       *)
    results,     (* the results dict: arch -> bool                        *)
    history,     (* every (arch, verdict) returned, in order (history)    *)
    pc,          (* "root", "loop", "run", "done"                         *)
    exit_code,
    summary,     (* summary.txt: "none", "written", "failed"              *)
    root_ok,     (* lk_root holds a makefile or Makefile                  *)
    log_dir,     (* --log-dir given                                       *)
    output, produced, read, emu, phase, verdict, ending   (* current run *)

runVars == <<output, produced, read, emu, phase, verdict, ending>>
runnerVars == <<selected, i, results, history, pc, exit_code, summary,
                root_ok, log_dir>>
vars == <<runnerVars, runVars>>

Run == INSTANCE BootTestRun

(* What argparse can hand to run_all_tests: None (no --arch, lines      *)
(* 207-208 take every key) or a list of one to MaxArgs choices; the     *)
(* `choices` of line 271 keep unknown names out, so the `continue` of   *)
(* lines 213-215 is never taken from main.                              *)
ArgLists == {ArchOrder} \cup (BoundedSeq(Archs, MaxArgs) \ {<<>>})

Init ==
    /\ selected \in ArgLists
    /\ i = 1
    /\ results = [a \in {} |-> FALSE]
    /\ history = <<>>
    /\ pc = "root"
    /\ exit_code = 0
    /\ summary = "none"
    /\ root_ok \in BOOLEAN
    /\ log_dir \in BOOLEAN
    /\ Run!RunInit

(* Lines 283-286: refuse to run outside an LK root. *)
CheckRoot ==
    /\ pc = "root"
    /\ IF root_ok THEN pc' = "loop" /\ UNCHANGED exit_code
                  ELSE pc' = "done" /\ exit_code' = 1
    /\ UNCHANGED <<selected, i, results, history, summary, root_ok, log_dir>>
    /\ UNCHANGED runVars

(* Lines 212-220: the next architecture's run_qemu_test starts. *)
NextArch ==
    /\ pc = "loop"
    /\ i <= Len(selected)
    /\ pc' = "run"
    /\ UNCHANGED <<selected, i, results, history, exit_code, summary,
                   root_ok, log_dir>>
    /\ UNCHANGED runVars

(* A step of the running boot test. *)
RunStep ==
    /\ pc = "run"
    /\ Run!RunNext
    /\ UNCHANGED runnerVars

(* results[arch] = ...: a second value under a key replaces the first. *)
Store(d, k, v) == [a \in DOMAIN d \cup {k} |-> IF a = k THEN v ELSE d[a]]

(* Line 220: run_qemu_test has returned; its value goes into results    *)
(* and the next architecture gets a fresh emulator.                     *)
Record ==
    /\ pc = "run"
    /\ phase = "returned"
    /\ results' = Store(results, selected[i], verdict)
    /\ history' = Append(history, <<selected[i], verdict>>)
    /\ i' = i + 1
    /\ pc' = "loop"
    /\ output' \in Outputs
    /\ produced' = 0 /\ read' = 0 /\ emu' = "none" /\ phase' = "idle"
    /\ verdict' = FALSE /\ ending' = "none"
    /\ UNCHANGED <<selected, exit_code, summary, root_ok, log_dir>>

(* An exit code that counts the failed architectures. *)
ExitCodeFailures(res) ==
    Cardinality(DOMAIN res) - Cardinality({a \in DOMAIN res : res[a]})

(* print_summary, lines 231-253: exit code 0 when the count of True     *)
(* values equals len(results).                                           *)
ExitCodeOf(res) ==
    IF Cardinality({a \in DOMAIN res : res[a]}) = Cardinality(DOMAIN res)
    THEN 0 ELSE 1

(* Lines 222 and 224-267: the loop is done; print the summary, write    *)
(* summary.txt when there is a log_dir (a failing write is only         *)
(* reported), and return the exit code to sys.exit.                     *)
Summarize ==
    /\ pc = "loop"
    /\ i > Len(selected)
    /\ exit_code' = ExitCodeOf(results)
    /\ \/ ~log_dir /\ UNCHANGED summary
       \/ log_dir /\ summary' \in {"written", "failed"}
    /\ pc' = "done"
    /\ UNCHANGED <<selected, i, results, history, root_ok, log_dir>>
    /\ UNCHANGED runVars

Next == CheckRoot \/ NextArch \/ RunStep \/ Record \/ Summarize

Spec == Init /\ [][Next]_vars

-----------------------------------------------------------------------------
RunnerTypeOK ==
    /\ i \in 1..(Len(selected) + 1)
    /\ DOMAIN results \subseteq Archs
    /\ \A a \in DOMAIN results : results[a] \in BOOLEAN
    /\ pc \in {"root", "loop", "run", "done"}
    /\ exit_code \in {0, 1}
    /\ summary \in {"none", "written", "failed"}

-----------------------------------------------------------------------------
(* spec.md 4.7 and 6: exit code 0 only if every requested target passed: *)
(* no run whose test failed may end in a successful exit.               *)
ExitZeroOnlyIfEveryRunPassed ==
    (pc = "done" /\ exit_code = 0) =>
        \A j \in 1..Len(history) : history[j][2]
=============================================================================
