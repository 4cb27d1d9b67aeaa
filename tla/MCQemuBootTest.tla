--------------------------- MODULE MCQemuBootTest ---------------------------
(***************************************************************************)
(* Model values for QemuBootTest.  A line is a short character sequence  *)
(* (see PatternMatcher): plain text, a success line in mixed case, a     *)
(* failure line, a line carrying both indicators.  The transcripts are   *)
(* chosen so that a success precedes a failure, a failure precedes a     *)
(* success, one line carries both, and no line signals at all.           *)
(***************************************************************************)
EXTENDS QemuBootTest

Plain   == <<"x">>
Success == <<"s", "U">>
Failure == <<"F", "a">>
Both    == <<"S", "u", "F", "A">>

MCTranscripts ==
    { <<Plain, Success>>, <<Success, Failure>>, <<Failure, Success>>,
      <<Both>>, <<Plain>> }
=============================================================================
