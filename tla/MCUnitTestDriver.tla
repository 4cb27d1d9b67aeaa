-------------------------- MODULE MCUnitTestDriver --------------------------
(***************************************************************************)
(* Model values for UnitTestDriver.  "A" stands for a line holding        *)
(* "starting app shell", "H" for one holding "Hello World!", "]" for the *)
(* shell prompt LK leaves without a newline, "x" for any other text.     *)
(***************************************************************************)
EXTENDS UnitTestDriver

MCBootOut == <<"x", NL, "A", NL, "]">>
MCReply   == <<"H", NL, "]">>
=============================================================================
