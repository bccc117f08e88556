-------------------------------- MODULE Gbf --------------------------------
(***************************************************************************)
(* The GBF80 block-float codec of gbf.h as operators.  gbf_encode packs    *)
(* each group of up to 8 floats into 80 bits: one shared 8-bit exponent    *)
(* (the group's largest) and, per float, an 8-bit mantissa shifted right   *)
(* by its distance to that exponent, and a sign.  gbf_decode unpacks it.   *)
(*                                                                         *)
(* A float is kept as the fields of MemxGbfFloat32Map that the codec       *)
(* reads: sign, exp, the 7-bit man, and zero15, bit 15 of the `zero`       *)
(* field.  Bits 0..14 are dropped: the bf16 rounding clears them and they  *)
(* cannot carry into bit 16.  Buffers are functions from C offsets 0..n-1. *)
(***************************************************************************)
EXTENDS Naturals, Sequences, FiniteSets, FiniteSetsExt

Float32 == [sign : 0..1, exp : 0..255, man : 0..127, zero15 : 0..1]

FloatZero == [sign |-> 0, exp |-> 0, man |-> 0, zero15 |-> 0]

CONSTANT Undef   \* a byte of uninitialised memory, and what is decoded from it

Bit(x, i) == (x \div 2^i) % 2

(* getbits32/getbits64: bits lo..hi of the little-endian bytes of a group. *)
RECURSIVE getbits(_, _, _)
getbits(bytes, hi, lo) ==
    IF hi < lo THEN 0
    ELSE Bit(bytes[lo \div 8], lo % 8) + 2 * getbits(bytes, hi, lo + 1)

Top16(f) == f.sign * 2^15 + f.exp * 2^7 + f.man

FromTop16(t) ==
    [sign |-> t \div 2^15, exp |-> (t \div 2^7) % 256, man |-> t % 128, zero15 |-> 0]

(* Mutant: bf16 conversion truncates, without the += 0x8000. *)
Bf16Truncate(f) == FromTop16(Top16(f))

(* `+= 0x8000; &= 0xffff0000` on the uint32: round to bf16, carrying into *)
(* exp and sign, and wrapping 0xffff8000 and above to 0.                   *)
Bf16Round(f) == FromTop16((Top16(f) + f.zero15) % 2^16)

(* `x >> k` on an int.  k >= 32 is undefined; the build either shifts by  *)
(* k mod 32 (scalar SHR/LSR mask the count) or yields 0 (vector shifts).   *)
Builds == {"masked", "zero"}

Shr(x, k) == IF k > 8 THEN 0 ELSE x \div 2^k    \* x < 2^8 throughout

ShiftRight(x, k, ub) ==
    IF k < 32 THEN Shr(x, k)
    ELSE IF ub = "masked" THEN Shr(x, k % 32) ELSE 0

(* _SET_MANTISSA_SHIFT_WITH_ROUNDING: the mantissa with its hidden 1,      *)
(* shifted right by s, plus the last bit shifted out, stored in a uchar.   *)
ShiftWithRounding(f, s, ub) ==
    IF s = 0
    THEN IF f.man = 127 THEN 128 + f.man ELSE (128 + f.man + f.zero15) % 256
    ELSE (ShiftRight(128 + f.man, s, ub) + (ShiftRight(f.man, s - 1, ub) % 2)) % 256

(* The exponent loop: the largest exp among the group's n floats. *)
GroupExp(grp, n) ==
    LET F[i \in 0..n] == IF i = 0 THEN 0
                         ELSE IF grp[i - 1].exp > F[i - 1] THEN grp[i - 1].exp ELSE F[i - 1]
    IN  F[n]

(* MemxGbfGbf80Map: the widths of its bit-fields, in declaration order. *)
Gbf80Widths == <<8, 1, 8, 1, 8, 1, 5, 3, 1, 8, 1, 8, 1, 8, 1, 1, 7, 1, 8>>

(* Where the compiler puts each unsigned-int bit-field: after the previous *)
(* one, unless it would straddle a 32-bit unit, then at the next unit.    *)
RECURSIVE Offsets(_, _)
Offsets(ws, pos) ==
    IF ws = <<>> THEN <<>>
    ELSE LET at == IF (pos % 32) + Head(ws) > 32 THEN (pos \div 32 + 1) * 32 ELSE pos
         IN  <<at>> \o Offsets(Tail(ws), at + Head(ws))

Gbf80Offsets == Offsets(Gbf80Widths, 0)

(* The value the encoder stores in field j (1..19), man_3 and man_7 split. *)
Gbf80Field(man, sign, exp, j) ==
    CASE j \in {1, 3, 5}       -> man[(j - 1) \div 2]
      [] j \in {2, 4, 6}       -> sign[(j - 2) \div 2]
      [] j = 7                 -> man[3] % 32
      [] j = 8                 -> (man[3] \div 32) % 8
      [] j = 9                 -> sign[3]
      [] j \in {10, 12, 14}    -> man[(j - 2) \div 2]
      [] j \in {11, 13, 15}    -> sign[(j - 3) \div 2]
      [] j = 16                -> man[7] % 2
      [] j = 17                -> (man[7] \div 2) % 128
      [] j = 18                -> sign[7]
      [] j = 19                -> exp

(* The fields that hold bits of byte k of a group. *)
FieldsOfByte ==
    [k \in 0..9 |-> {j \in DOMAIN Gbf80Widths :
                        Gbf80Offsets[j] < 8 * k + 8 /\ Gbf80Offsets[j] + Gbf80Widths[j] > 8 * k}]

(* Mutant: a field's bits are not masked to the byte they fall in. *)
PackByteUnmasked(man, sign, exp, k) ==
    LET Piece(j) ==
          LET o  == Gbf80Offsets[j]
              lo == IF o > 8 * k THEN o ELSE 8 * k
          IN  (Gbf80Field(man, sign, exp, j) \div 2^(lo - o)) * 2^(lo - 8 * k)
    IN  MapThenSumSet(Piece, FieldsOfByte[k])

(* Byte k of a group whose fields hold man, sign and exp: the bits of each *)
(* field that fall in the byte, in place.                                  *)
PackByte(man, sign, exp, k) ==
    LET Piece(j) ==
          LET o  == Gbf80Offsets[j]
              lo == IF o > 8 * k THEN o ELSE 8 * k
              hi == IF o + Gbf80Widths[j] < 8 * k + 8 THEN o + Gbf80Widths[j] ELSE 8 * k + 8
          IN  ((Gbf80Field(man, sign, exp, j) \div 2^(lo - o)) % 2^(hi - lo)) * 2^(lo - 8 * k)
    IN  MapThenSumSet(Piece, FieldsOfByte[k])

(* One pass of gbf_encode's loop: the n (1..8) floats of a group, already *)
(* rounded, to the group's 10 bytes.                                       *)
EncodeGroup(grp, n, ub) ==
    LET exp  == GroupExp(grp, n)
        man  == [i \in 0..7 |-> IF i < n
                                THEN ShiftWithRounding(grp[i], exp - grp[i].exp, ub)
                                ELSE 0]
        sign == [i \in 0..7 |-> IF i < n /\ man[i] # 0 THEN grp[i].sign ELSE 0]
    IN  [k \in 0..9 |-> PackByte(man, sign, exp, k)]

NumGroups(n) == (n + 7) \div 8

(* f, a function on 0..n-1, built once as a tuple: TLC then evaluates     *)
(* each element once rather than at every application.  Equal to f.      *)
Tabulated(f, n) ==
    LET t == [i \in 1..n |-> f[i - 1]] \o <<>>
    IN  [i \in 0..(n - 1) |-> t[i + 1]]

(* gbf_encode(flt, gbf, n): the rounded floats it leaves in flt, and the  *)
(* bytes it writes to gbf.                                                 *)
gbf_encode_flt(flt, n) == [i \in 0..(n - 1) |-> Bf16Round(flt[i])]

gbf_encode_gbf(flt, n, ub) ==
    LET r == gbf_encode_flt(flt, n)
        G == [g \in 0..(NumGroups(n) - 1) |->
                LET len == IF n - 8 * g < 8 THEN n - 8 * g ELSE 8
                IN  EncodeGroup([i \in 0..7 |-> IF i < len THEN r[8 * g + i] ELSE FloatZero],
                                len, ub)]
        T == Tabulated(G, NumGroups(n))
    IN  [o \in 0..(10 * NumGroups(n) - 1) |-> T[o \div 10][o % 10]]

(* lzcount: leading zeros of a uint32 (LZCNT, __builtin_clz, or the table *)
(* walk; the three agree).                                                 *)
lzcount(a) ==
    IF a = 0 THEN 32 ELSE 31 - (CHOOSE k \in 0..31 : 2^k <= a /\ a < 2^(k + 1))

saturated_subtract8(a, b) ==
    LET res == (a - b) % 256 IN IF res <= a THEN res ELSE 0

(* Mutant: the exponent is renormalised but the mantissa is not shifted. *)
DecodeElemUnshifted(t, exp, sign) ==
    LET d == (lzcount(t) - 24) % 256
        e == IF d < 8 THEN saturated_subtract8(exp, d) ELSE 0
    IN  [sign |-> sign, exp |-> e, man |-> t % 128, zero15 |-> 0]

(* One element of gbf_decode: renormalise the 8-bit mantissa t under the  *)
(* shared exponent; t = 0 forces exp 0.                                    *)
DecodeElem(t, exp, sign) ==
    LET d == (lzcount(t) - 24) % 256
        e == IF d < 8 THEN saturated_subtract8(exp, d) ELSE 0
    IN  [sign |-> sign, exp |-> e, man |-> (t * 2^d) % 128, zero15 |-> 0]

(* Slot i of a group's 10 bytes, at the offsets gbf_decode reads: bits    *)
(* 9i..9i+7 and 9i+8 of the low 64 bits, slot 7 across bytes 7 and 8,    *)
(* the exponent in bits 8..15 of the top 16.                               *)
DecodeSlot(bytes, i) ==
    IF \E k \in 0..9 : bytes[k] = Undef THEN Undef
    ELSE LET exp  == getbits(bytes, 79, 72)
             t    == IF i < 7 THEN getbits(bytes, 9 * i + 7, 9 * i)
                     ELSE Bit(bytes[7], 7) + 2 * (bytes[8] % 128)
             sign == IF i < 7 THEN getbits(bytes, 9 * i + 8, 9 * i + 8)
                     ELSE getbits(bytes, 71, 71)
         IN  DecodeElem(t, exp, sign)

(* gbf_decode(gbf, flt, n): the full groups of 8, then the remainder;    *)
(* both read each slot the same way.                                       *)
gbf_decode(gbf, n) ==
    [i \in 0..(n - 1) |-> DecodeSlot([k \in 0..9 |-> gbf[10 * (i \div 8) + k]], i % 8)]
=============================================================================
