-------------------------- MODULE MCPureOperators ---------------------------
(***************************************************************************)
(* Checks the pure operators against reference definitions over bounded *)
(* inputs.  The state is one input, chosen by Init and never changed:    *)
(*   a console line for the indicator scan of PatternMatcher, checked     *)
(*     against spec.md 4.3/4.4; FailureList selects the list of          *)
(*     run-qemu-boot-tests.py or of do-qemu-boot-tests.py;                *)
(*   an image for lpccheck.py, a file size for mkbootheader.py;          *)
(*   a listing and --prefix set for fetch-toolchains.py's selection;     *)
(*   a listing page for fetch-toolchains.py's HTML parser.               *)
(***************************************************************************)
EXTENDS PatternMatcher, Checksums, ToolchainSelect, ListingParser, Bitwise

CONSTANTS
    FailureList,   (* the failure indicator list under check            *)
    MaxLineLen,    (* longest line enumerated                           *)
    MaxPageLen     (* most handler calls of a listing page enumerated   *)

(* Both cases of the indicator letters, so that case-insensitivity is    *)
(* exercised, and "x" for any other text.                                *)
Alphabet == {"S", "s", "U", "u", "F", "a", "P", "c", "R", "x"}

(* Words, as 16-bit halves: 0, 1, 2^31 - 1, 2^31 (-2^31 when read      *)
(* signed) and 2^32 - 1 (-1).  Seven of them reach both edges of the     *)
(* int32 range and pass them; words 8 and 9 hold a marker.              *)
ImageWords == { <<0, 0>>, <<0, 1>>, <<32767, HalfMax>>, <<32768, 0>>,
                <<HalfMax, HalfMax>> }
Images == { vt \o << <<0, 7>>, <<0, 7>> >> : vt \in [1..7 -> ImageWords] }

(* Input sizes small, and large enough that the header sum wraps. *)
FileSizes == { <<0, 0>>, <<0, 1>>, <<0, 4096>>, <<32768, 0>>, <<HalfMax, HalfMax>> }

(* Two prefixes, versions whose order differs between int tokens and   *)
(* text ("1.10" after "1.9") and where one is a prefix of another.     *)
Toolchains == [prefix : {1, 2}, version : {<<1>>, <<1, 9>>, <<1, 10>>, <<2>>}]

(* The version asked for with an exact --version. *)
Exact == <<1, 10>>

(* Listing texts: a tarball of the host (version "7.05", which int()     *)
(* reads as 7.5), one whose version has a word segment ("7.rc"), one of another host, and text that names no        *)
(* tarball.  <img> is a void element: HTMLParser reports no end tag.    *)
Texts == { [tar |-> TRUE,  tokens |-> <<<<"gcc">>, <<"arm">>, <<"7", "05">>, <<HostOS>>, <<HostCPU>>>>],
           [tar |-> TRUE,  tokens |-> <<<<"gcc">>, <<"arm">>, <<"7", "rc">>, <<HostOS>>, <<HostCPU>>>>],
           [tar |-> TRUE,  tokens |-> <<<<"gcc">>, <<"arm">>, <<"7", "05">>, <<"Darwin">>, <<HostCPU>>>>],
           [tar |-> FALSE, tokens |-> <<<<"x">>>>] }
MCIntOf == "7" :> 7 @@ "05" :> 5

Voids == {"img"}
Events == [ev : {"start"}, tag : {"a", "p", "img"}] \cup [ev : {"end"}, tag : {"a", "p"}]
          \cup [ev : {"data"}, text : Texts]

(* The elements open before the i-th handler call, as HTML nests them:  *)
(* a void element closes at once, an end tag closes the innermost one.  *)
RECURSIVE OpenBefore(_, _)
OpenBefore(page, i) ==
    IF i = 1 THEN <<>>
    ELSE LET s == OpenBefore(page, i - 1)
             e == page[i - 1]
         IN  CASE e.ev = "start" /\ e.tag \notin Voids -> Append(s, e.tag)
               [] e.ev = "end" /\ s # <<>>            -> Front(s)
               [] OTHER                               -> s

(* Every end tag closes the innermost open element; none is left open. *)
WellFormed(page) ==
    /\ \A i \in 1..Len(page) :
          page[i].ev = "end" =>
             OpenBefore(page, i) # <<>> /\ Last(OpenBefore(page, i)) = page[i].tag
    /\ OpenBefore(page, Len(page) + 1) = <<>>

(* No void element inside a hyperlink: the icon links of some server   *)
(* listings, <a href=...><img></a>, are outside what the parser handles *)
(* (a hazard of PROJECT.json).                                           *)
NoVoidInAnchor(page) ==
    \A i \in 1..Len(page) :
        page[i].ev = "start" /\ page[i].tag \in Voids =>
            "a" \notin ToSet(OpenBefore(page, i))

Pages == {page \in BoundedSeq(Events, MaxPageLen) : WellFormed(page)}

Inputs ==
    [kind : {"line"}, v : BoundedSeq(Alphabet, MaxLineLen)]
    \cup [kind : {"lpc"}, v : Images]
    \cup [kind : {"zynq"}, v : FileSizes]
    \cup [kind : {"select"}, v : BoundedSeq(Toolchains, 3), p : {{}, {1}, {1, 2}},
                 mode : {"latest", "all", "exact"}]
    \cup [kind : {"page"}, v : Pages]

VARIABLE input

Init == input \in Inputs

(* The input is a value: nothing happens to it once chosen. *)
Next == UNCHANGED input

Spec == Init /\ [][Next]_input

-----------------------------------------------------------------------------
(* Reference definition, written from the specification rather than the *)
(* code: a phrase occurs in a line when, at some offset, every character *)
(* agrees with it once both are case-folded.                              *)
OccursIn(phrase, l) ==
    \E k \in 0..(Len(l) - Len(phrase)) :
        \A j \in 1..Len(phrase) : LowerChar(l[k + j]) = LowerChar(phrase[j])

(* spec.md 4.4: the failure phrases are "some test cases failed", the    *)
(* panic banner and "starting debug shell"; 4.3: on a line that matches   *)
(* both a success and a failure indicator, the run is Failed.            *)
SpecFailurePhrases == {FailurePhrase, PanicPhrase, CrashPhrase}

SpecClass(l) ==
    IF \E p \in SpecFailurePhrases : OccursIn(p, l) THEN "Failure"
    ELSE IF OccursIn(SuccessPhrase, l) THEN "Success"
    ELSE "None"

CodeClass(l) ==
    LET flags == ScanLineWith(FailureList, l)
    IN  IF ~IsSignal(flags) THEN "None"
        ELSE IF Verdict(flags) THEN "Success" ELSE "Failure"

(* For every console line, the scan of lines 143-159 (success indicators *)
(* then failure indicators, verdict passed-and-not-failed) yields the    *)
(* class the specification prescribes: case-insensitive containment, and *)
(* Failed when one line carries both a success and a failure phrase.     *)
ScanAgreesWithSpec ==
    input.kind = "line" => CodeClass(input.v) = SpecClass(input.v)

-----------------------------------------------------------------------------
(* The LPC boot ROM's criterion, on unsigned words: words 0-7 add up to *)
(* zero modulo 2^32.  Whenever lpccheck.py patches an image it meets    *)
(* that criterion and leaves every other word alone, whatever the signs *)
(* and overflow of the seven words it read.                              *)
LpcChecksumValid ==
    input.kind = "lpc" /\ LpcPatch(input.v) # <<>> =>
        LET out == LpcPatch(input.v) IN
        /\ SumMod32(SubSeq(out, 1, 8)) = <<0, 0>>
        /\ \A k \in (1..9) \ {8} : out[k] = input.v[k]

(* The Zynq header mkbootheader.py writes is one the boot ROM accepts   *)
(* (TRM section 6.3.2): the word at 0x48 is the bitwise NOT of the sum  *)
(* of the words 0x20-0x44 taken modulo 2^32, both length fields hold   *)
(* the file size, and the source offset at 0x30 is exactly the header  *)
(* length, where the copied image starts.                                *)
ZynqHeaderValid ==
    input.kind = "zynq" =>
        LET h   == ZynqHeader(input.v)
            sum == SumMod32([k \in 1..10 |-> WordAt(h, 32 + 4 * (k - 1))])
        IN  /\ WordAt(h, 72) = << sum[1] ^^ HalfMax, sum[2] ^^ HalfMax >>
            /\ WordAt(h, 52) = input.v /\ WordAt(h, 64) = input.v
            /\ WordAt(h, 48) = <<0, 4 * Len(h)>>

(* Python's list order as the language reference defines it. *)
RefListLess(u, v) ==
    \/ /\ Len(u) < Len(v)
       /\ u = SubSeq(v, 1, Len(u))
    \/ \E k \in 1..Len(u) :
          /\ k <= Len(v) /\ u[k] < v[k]
          /\ SubSeq(u, 1, k - 1) = SubSeq(v, 1, k - 1)

(* fetch-toolchains.py selects what was asked for.  With --version     *)
(* latest: for each wanted prefix present in the listing, in ascending   *)
(* prefix order, one toolchain of that prefix with no newer version      *)
(* listed.  With "all" or an exact version: every listed toolchain of a *)
(* wanted prefix (and that version), each once, in sorted order.        *)
SelectionIsRequested ==
    input.kind = "select" =>
        LET sel    == Select(input.v, input.p, input.mode, Exact)
            asked  == {u \in Range(input.v) :
                          /\ input.p = {} \/ u.prefix \in input.p
                          /\ input.mode # "exact" \/ u.version = Exact}
            wanted == {u.prefix : u \in asked}
        IN  /\ \A k \in 2..Len(sel) : ~ToolchainLess(sel[k], sel[k - 1])
            /\ IF input.mode = "latest"
               THEN /\ Len(sel) = Cardinality(wanted)
                    /\ \A k \in 1..Len(sel) :
                          /\ sel[k].prefix \in wanted
                          /\ k > 1 => sel[k - 1].prefix < sel[k].prefix
                          /\ ~\E u \in Range(input.v) :
                                u.prefix = sel[k].prefix
                                /\ RefListLess(sel[k].version, u.version)
               ELSE Range(sel) = asked
                    /\ Len(sel) = Len(SelectSeq(input.v, LAMBDA u : u \in asked))

-----------------------------------------------------------------------------
(* The texts the comment of lines 174-178 says are toolchains: a text    *)
(* whose innermost open element is a hyperlink, naming a tarball of      *)
(* prefix-prefix-version-os-cpu for the host.                            *)
LinkedTarballs(page) ==
    LET ks == SelectSeq([k \in 1..Len(page) |-> k],
                 LAMBDA k : /\ page[k].ev = "data" /\ page[k].text.tar
                            /\ OpenBefore(page, k) # <<>>
                            /\ Last(OpenBefore(page, k)) = "a"
                            /\ Len(page[k].text.tokens) = 5
                            /\ page[k].text.tokens[4] = <<HostOS>>
                            /\ page[k].text.tokens[5] = <<HostCPU>>)
    IN  [j \in 1..Len(ks) |-> page[ks[j]].text.tokens]

(* fetch-toolchains.py finds exactly the host's tarballs linked from a   *)
(* well-formed listing, in page order, whatever the nesting around the   *)
(* links: the parser's tag stack (lines 197-205) must agree with HTML's  *)
(* nesting although handle_endtag never looks at the tag it closes.  A  *)
(* linked host tarball whose version is not all digits stops the parse  *)
(* with ValueError (line 148).                                           *)
ListingParsedAsLinked ==
    input.kind = "page" /\ NoVoidInAnchor(input.v) =>
        LET out   == Feed(input.v)
            links == LinkedTarballs(input.v)
        IN  IF \E k \in 1..Len(links) : ~IntTokens(links[k][3])
            THEN out.error = "ValueError"
            ELSE /\ out.error = "none"
                 /\ out.toolchains =
                       [k \in 1..Len(links) |->
                           [prefix |-> <<links[k][1], links[k][2]>>, version |-> [j \in 1..Len(links[k][3]) |-> IntOf[links[k][3][j]]]]]
=============================================================================
