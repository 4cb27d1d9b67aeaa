-------------------------- MODULE FetchToolchains --------------------------
(***************************************************************************)
(* The download half of src/scripts/fetch-toolchains.py, over successive *)
(* invocations that share the install directory.  main walks the         *)
(* selected toolchains (the order ToolchainSelect computes), skips one    *)
(* whose directory exists unless --force is given, and starts a thread    *)
(* per other one; each thread fetches the tarball and extracts it into    *)
(* the install directory.  main joins the threads and returns 0.          *)
(*                                                                         *)
(* What a directory holds is abstracted to absent, partial (extraction    *)
(* began and has not finished) or complete.  The process may be killed    *)
(* at any point of an invocation (Ctrl-C twice, a reboot): the directory *)
(* keeps what was written, everything else is lost.                       *)
(***************************************************************************)
EXTENDS Naturals, Sequences, SequencesExt

CONSTANTS
    Sel,        \* the toolchains selected by lines 88-104, in order
    MaxRuns     \* bound on the invocations of the script

Names == ToSet(Sel)

VARIABLES
    disk,       \* Names -> what install_dir/<name> holds; survives every run
    runs,       \* invocations so far
    pc,         \* "idle" before the first run, "loop", "join", "exited"
    code,       \* how the last invocation ended
    force,      \* args.force of the current invocation
    i,          \* index of the loop of line 127
    thread,     \* Names -> state of the download thread of this invocation
    said        \* Names -> what line 130 or 135 printed in this invocation

vars == <<disk, runs, pc, code, force, i, thread, said>>

NoThreads == [t \in Names |-> "none"]

(* The install directory before the first invocation: every toolchain    *)
(* absent or completely installed; partial ones only arise below.        *)
Init ==
    /\ disk \in [Names -> {"absent", "complete"}]
    /\ runs = 0 /\ pc = "idle" /\ code = "none" /\ force = FALSE /\ i = 1
    /\ thread = NoThreads /\ said = NoThreads

(* A new invocation after the previous one exited or was killed. *)
Starting ==
    /\ pc \in {"idle", "exited"} /\ runs < MaxRuns
    /\ runs' = runs + 1
    /\ thread' = NoThreads /\ said' = NoThreads /\ i' = 1

(* Lines 29-85: parse the arguments, fetch and parse the listing, and    *)
(* reach the download loop with --force or without it.                   *)
Begin ==
    /\ Starting
    /\ \E f \in BOOLEAN : force' = f
    /\ pc' = "loop"
    /\ UNCHANGED <<disk, code>>

(* Lines 79-82: the listing page answers with another status: exit 1. *)
ListingFails ==
    /\ Starting
    /\ pc' = "exited" /\ code' = "exit 1"
    /\ UNCHANGED <<disk, force>>

(* Lines 106-114: nothing matches, or --list: print and exit 0. *)
ListOnly ==
    /\ Starting
    /\ pc' = "exited" /\ code' = "exit 0"
    /\ UNCHANGED <<disk, force>>

(* Lines 128-134: the directory exists and --force is absent. *)
Skip ==
    /\ pc = "loop" /\ i <= Len(Sel)
    /\ disk[Sel[i]] # "absent" /\ ~force
    /\ said' = [said EXCEPT ![Sel[i]] = "skipped"]
    /\ i' = i + 1
    /\ UNCHANGED <<disk, runs, pc, code, force, thread>>

(* Lines 128-137: otherwise a thread is started for the toolchain. *)
StartDownload ==
    /\ pc = "loop" /\ i <= Len(Sel)
    /\ disk[Sel[i]] = "absent" \/ force
    /\ said' = [said EXCEPT ![Sel[i]] = "downloading"]
    /\ thread' = [thread EXCEPT ![Sel[i]] = "fetching"]
    /\ i' = i + 1
    /\ UNCHANGED <<disk, runs, pc, code, force>>

LoopDone ==
    /\ pc = "loop" /\ i > Len(Sel)
    /\ pc' = "join"
    /\ UNCHANGED <<disk, runs, code, force, i, thread, said>>

(* Lines 119-122: urlopen or read raises, or the status is not 200: the *)
(* thread ends and nothing is written.                                   *)
DownloadFails(t) ==
    /\ thread[t] = "fetching"
    /\ thread' = [thread EXCEPT ![t] = "failed"]
    /\ UNCHANGED <<disk, runs, pc, code, force, i, said>>

(* Line 124: extractall creates install_dir/<name>, the tarball's top    *)
(* directory, then writes its members into it.                          *)
Extracting(t) ==
    /\ thread[t] = "fetching"
    /\ thread' = [thread EXCEPT ![t] = "extracting"]
    /\ disk' = [disk EXCEPT ![t] = "partial"]
    /\ UNCHANGED <<runs, pc, code, force, i, said>>

(* Lines 123-124: the last member is written and the thread returns. *)
Extract(t) ==
    /\ thread[t] = "extracting"
    /\ thread' = [thread EXCEPT ![t] = "ok"]
    /\ disk' = [disk EXCEPT ![t] = "complete"]
    /\ UNCHANGED <<runs, pc, code, force, i, said>>

(* Lines 123-124: a corrupt stream, a full disk or a member the "data"   *)
(* filter refuses raises in the thread; what was written stays.          *)
ExtractFails(t) ==
    /\ thread[t] = "extracting"
    /\ thread' = [thread EXCEPT ![t] = "failed"]
    /\ UNCHANGED <<disk, runs, pc, code, force, i, said>>

(* Lines 139-142: every thread has ended; main returns 0 whatever they   *)
(* did.                                                                  *)
Join ==
    /\ pc = "join"
    /\ \A t \in Names : thread[t] \in {"none", "ok", "failed"}
    /\ pc' = "exited" /\ code' = "exit 0"
    /\ UNCHANGED <<disk, runs, force, i, thread, said>>

(* The process is killed: its threads die with it, the disk stays. *)
Crash ==
    /\ pc \in {"loop", "join"}
    /\ pc' = "exited" /\ code' = "killed"
    /\ thread' = NoThreads
    /\ UNCHANGED <<disk, runs, force, i, said>>

Next ==
    \/ Begin \/ ListingFails \/ ListOnly \/ Skip \/ StartDownload \/ LoopDone
    \/ \E t \in Names : DownloadFails(t) \/ Extracting(t) \/ Extract(t)
                        \/ ExtractFails(t)
    \/ Join \/ Crash

Spec == Init /\ [][Next]_vars

(* Every variable holds a value of its kind. *)
TypeOK ==
    /\ disk \in [Names -> {"absent", "partial", "complete"}]
    /\ runs \in 0..MaxRuns /\ pc \in {"idle", "loop", "join", "exited"}
    /\ code \in {"none", "exit 0", "exit 1", "killed"} /\ force \in BOOLEAN
    /\ i \in 1..Len(Sel) + 1
    /\ thread \in [Names -> {"none", "fetching", "extracting", "ok", "failed"}]
    /\ said \in [Names -> {"none", "skipped", "downloading"}]

(* Lines 129-133 print "<name> already installed; skipping..." for every *)
(* toolchain whose directory exists: the message, and --force's help     *)
(* ("overwrite past installed versions"), say that a toolchain is        *)
(* skipped only when it is installed.                                    *)
SkipOnlyIfInstalled ==
    \A t \in Names : said[t] = "skipped" => disk[t] = "complete"
=============================================================================
