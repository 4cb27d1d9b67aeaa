-------------------------- MODULE ToolchainSelect --------------------------
(***************************************************************************)
(* The selection of src/scripts/fetch-toolchains.py: after the listing   *)
(* at BASE_URL is parsed, main sorts the toolchains, keeps the requested *)
(* prefixes, and then either the latest version of each prefix, every    *)
(* version, or one exact version (lines 88-104).  A toolchain is a       *)
(* record of its prefix (a rank standing for the string, so that < on   *)
(* ranks is < on the strings) and its version as a list of int tokens.  *)
(***************************************************************************)
EXTENDS Naturals, Sequences, SequencesExt, TLC

(* Python's < on two lists of ints: the first differing token decides;  *)
(* a proper prefix is smaller.                                           *)
RECURSIVE ListLess(_, _)
ListLess(u, v) ==
    IF v = <<>> THEN FALSE
    ELSE IF u = <<>> THEN TRUE
    ELSE IF Head(u) # Head(v) THEN Head(u) < Head(v)
    ELSE ListLess(Tail(u), Tail(v))

(* RemoteToolchain.__lt__, lines 152-155. *)
ToolchainLess(a, b) ==
    \/ a.prefix < b.prefix
    \/ a.prefix = b.prefix /\ ListLess(a.version, b.version)

(* The first entry of every run of equal prefixes instead of the last. *)
FirstOfEach(ts) ==
    LET idx == SelectSeq([k \in 1..Len(ts) |-> k],
                         LAMBDA k : k = 1 \/ ts[k].prefix # ts[k - 1].prefix)
    IN  [k \in 1..Len(idx) |-> ts[idx[k]]]

(* Lines 94-102: the entries at the indices i that are last, or whose  *)
(* successor has another prefix: the last entry of each prefix run.    *)
LatestOfEach(ts) ==
    LET idx == SelectSeq([k \in 1..Len(ts) |-> k],
                         LAMBDA k : k = Len(ts) \/ ts[k].prefix # ts[k + 1].prefix)
    IN  [k \in 1..Len(idx) |-> ts[idx[k]]]

(* Lines 88-104.  prefixes is the set given with --prefix; an empty    *)
(* one stands for None or [], which `if args.prefix:` treats alike.    *)
(* --version is "latest", "all" (mode), or any other string, compared   *)
(* for equality with RemoteToolchain.version (lines 161-163): mode       *)
(* "exact" and that version as its token list.                           *)
Select(ts, prefixes, mode, version) ==
    LET sorted   == SortSeq(ts, ToolchainLess)
        filtered == IF prefixes = {} THEN sorted
                    ELSE SelectSeq(sorted, LAMBDA t : t.prefix \in prefixes)
    IN  CASE mode = "latest" -> LatestOfEach(filtered)
          [] mode = "all"    -> filtered
          [] OTHER              -> SelectSeq(filtered, LAMBDA t : t.version = version)
=============================================================================
