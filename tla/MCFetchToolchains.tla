------------------------- MODULE MCFetchToolchains -------------------------
(***************************************************************************)
(* Model values for FetchToolchains: two selected toolchains, so that one *)
(* can be skipped while the other is downloaded, and two invocations, so  *)
(* that the second sees what the first left in the install directory.    *)
(***************************************************************************)
EXTENDS FetchToolchains

CONSTANTS gcc, clang

MCSel == <<gcc, clang>>
=============================================================================
