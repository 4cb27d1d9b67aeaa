--------------------------- MODULE PatternMatcher ---------------------------
(***************************************************************************)
(* The indicator scan that run_qemu_test applies to every completed       *)
(* console line (src/scripts/run-qemu-boot-tests.py:86-157, and its older *)
(* twin src/scripts/do-qemu-boot-tests.py:86-133).                        *)
(*                                                                         *)
(* Data abstraction: a line is a sequence of characters over a small      *)
(* alphabet.  Each indicator phrase is abstracted to two upper-case       *)
(* letters that stand for its words; the lower-case letters let a line    *)
(* spell an indicator in another case, and "x" is any other text.         *)
(* Matching is what the code does: indicator.lower() in line.lower().     *)
(***************************************************************************)
EXTENDS Naturals, Sequences, SequencesExt

NL == "\n"

(* str.lower() on the alphabet of the model. *)
UpperToLower == [S |-> "s", U |-> "u", F |-> "f", A |-> "a",
                 P |-> "p", C |-> "c", R |-> "r"]

LowerChar(c) == IF c \in DOMAIN UpperToLower THEN UpperToLower[c] ELSE c

lower(s) == [i \in DOMAIN s |-> LowerChar(s[i])]

(* indicator.lower() in line.lower(): case-insensitive substring test. *)
MatchesCaseSensitive(indicator, line) == indicator \in SubSeqs(line)

Matches(indicator, line) == lower(indicator) \in SubSeqs(lower(line))

(* The phrases, one letter per word:                                      *)
(*   "SUCCESS! All test cases passed"   -> <<"S","U">>                    *)
(*   "FAILURE! Some test cases failed"  -> <<"F","A">>                    *)
(*   "panic (caller"                    -> <<"P","A">>                    *)
(*   "CRASH: starting debug shell"      -> <<"C","R">>                    *)
SuccessPhrase == <<"S", "U">>
FailurePhrase == <<"F", "A">>
PanicPhrase   == <<"P", "A">>
CrashPhrase   == <<"C", "R">>

success_indicators == <<SuccessPhrase>>

(* run-qemu-boot-tests.py:90-94: three separate failure indicators. *)
failure_indicators == <<FailurePhrase, PanicPhrase, CrashPhrase>>

(* do-qemu-boot-tests.py:90-94: the comma after "panic (caller" is        *)
(* missing, so Python joins the two adjacent literals into the single     *)
(* indicator "panic (callerCRASH: starting debug shell".                  *)
do_failure_indicators == <<FailurePhrase, PanicPhrase \o CrashPhrase>>

(* The `for indicator in ...: if ...: flag = True; break` loops: the flag *)
(* is set when some indicator of the list matches; which one is only      *)
(* printed.                                                               *)
AnyMatches(indicators, line) ==
    \E i \in 1..Len(indicators) : Matches(indicators[i], line)

(* Lines 143-157 for one line, in the code's order: success first, then  *)
(* failure, both always evaluated.  The flags were FALSE before the line, *)
(* since the caller leaves the scan as soon as one is set.                *)
ScanLineWith(failures, line) ==
    [passed |-> AnyMatches(success_indicators, line),
     failed |-> AnyMatches(failures, line)]

ScanLine(line) == ScanLineWith(failure_indicators, line)

(* The verdict the caller derives from the flags (line 198). *)
Verdict(flags) == flags.passed /\ ~flags.failed

IsSignal(flags) == flags.passed \/ flags.failed
=============================================================================
