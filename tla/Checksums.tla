----------------------------- MODULE Checksums -----------------------------
(***************************************************************************)
(* The two checksum patchers of the platform directories, as operators   *)
(* on sequences of 32-bit words:                                          *)
(*   src/platform/lpc15xx/lpccheck.py: the vector-table checksum, the     *)
(*     negated sum of words 0-6 stored as word 7;                         *)
(*   src/platform/zynq/mkbootheader.py: the Zynq boot ROM header, whose   *)
(*     word at 0x48 is the complemented sum of the words before it.      *)
(* TLC's integers are 32-bit signed, so a word is kept exactly as the    *)
(* pair <<hi, lo>> of its 16-bit halves, and sums carry from lo to hi.   *)
(***************************************************************************)
EXTENDS Integers, Sequences, SequencesExt

H == 65536
HalfMax == H - 1

SumOf(s) == FoldLeft(+, 0, s)

Highs(ws) == [k \in 1..Len(ws) |-> ws[k][1]]
Lows(ws)  == [k \in 1..Len(ws) |-> ws[k][2]]

(* The sum of unsigned words modulo 2^32. *)
SumMod32(ws) ==
    << (SumOf(Highs(ws)) + SumOf(Lows(ws)) \div H) % H, SumOf(Lows(ws)) % H >>

(* struct.unpack('i') reads the high half as signed. *)
Signed16(h) == IF h >= 32768 THEN h - H ELSE h

(* lpccheck.py lines 12-16: the exact sum of the seven signed words, as *)
(* <<q, r>> with sum = q * 2^16 + r and 0 <= r < 2^16.                  *)
LpcSum(img) ==
    LET q == SumOf([k \in 1..7 |-> Signed16(img[k][1])])
        r == SumOf([k \in 1..7 |-> img[k][2]])
    IN  << q + r \div H, r % H >>

(* Line 20: struct.pack('i', s) with s = -sum (line 17) succeeds when   *)
(* -2^31 <= s <= 2^31 - 1, and writes s modulo 2^32.                   *)
Packable(sum) ==
    /\ sum[1] > -32768 \/ (sum[1] = -32768 /\ sum[2] >= 1)
    /\ sum[1] < 32768 \/ (sum[1] = 32768 /\ sum[2] = 0)

Negated(sum) ==
    IF sum[2] = 0 THEN << (-sum[1]) % H, 0 >>
    ELSE << (-sum[1] - 1) % H, H - sum[2] >>

(* Writing the checksum one word too far: seek(8*4). *)
LpcPatchAt9(img) ==
    IF Packable(LpcSum(img)) THEN [img EXCEPT ![9] = Negated(LpcSum(img))]
    ELSE <<>>

(* Lines 12-20: seek to byte 28 and pack s there; struct.error (the     *)
(* empty sequence here) leaves the file as it was.                      *)
LpcPatch(img) ==
    IF Packable(LpcSum(img)) THEN [img EXCEPT ![8] = Negated(LpcSum(img))]
    ELSE <<>>

-----------------------------------------------------------------------------
(* Python's range(a, b, 4) appends this many words. *)
RangeCount(a, b) == IF b > a THEN (b - a + 3) \div 4 ELSE 0

Words(n, v) == [k \in 1..n |-> v]

(* Lines 16-53: the vector table and the fields 0x20-0x44 in order;    *)
(* 0xaa995566 width detection, 0x584c4e58 "XLNX", 0x8c0 source offset. *)
HeaderFields(finsize) ==
    Words(8, <<0, 0>>) \o
    << <<43673, 21862>>, <<22604, 20056>>, <<0, 0>>, <<0, 0>>, <<0, 2240>>,
       finsize, <<0, 0>>, <<0, 0>>, finsize, <<0, 0>> >>

(* sum = -sum, the negation lpccheck.py uses, instead of ~sum. *)
ZynqChecksumNegated(ws) == Negated(<<SumMod32(ws)[1], SumMod32(ws)[2]>>)

(* Lines 55-60: ~sum & 0xffffffff is 2^32 - 1 - (sum mod 2^32). *)
ZynqChecksum(ws) == << HalfMax - SumMod32(ws)[1], HalfMax - SumMod32(ws)[2] >>

(* Lines 62-74: the checksum, the user-defined words up to 0xa0, the    *)
(* register-init pairs (all ones) up to 0x8a0, reserved words up to     *)
(* 0x8c0: the header written before the input file is copied.          *)
ZynqHeader(finsize) ==
    HeaderFields(finsize) \o << ZynqChecksum(HeaderFields(finsize)) >>
    \o Words(RangeCount(76, 160), <<0, 0>>)                (* 0x4c-0xa0   *)
    \o Words(RangeCount(160, 2208), <<HalfMax, HalfMax>>)  (* 0xa0-0x8a0  *)
    \o Words(RangeCount(2208, 2240), <<0, 0>>)             (* 0x8a0-0x8c0 *)

(* The word at byte offset off of a header. *)
WordAt(h, off) == h[off \div 4 + 1]
=============================================================================
