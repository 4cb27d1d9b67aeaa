-------------------------- MODULE MCDoQemuBootTest --------------------------
(***************************************************************************)
(* Model values for DoQemuBootTest: the transcripts of MCQemuBootTest (a *)
(* success before a failure, a failure before a success, both on one     *)
(* line, no signal at all).                                               *)
(***************************************************************************)
EXTENDS DoQemuBootTest

Plain   == <<"x">>
Success == <<"s", "U">>
Failure == <<"F", "a">>
Both    == <<"S", "u", "F", "A">>

MCTranscripts ==
    { <<Plain, Success>>, <<Success, Failure>>, <<Failure, Success>>,
      <<Both>>, <<Plain>> }
=============================================================================
