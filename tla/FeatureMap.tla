------------------------------ MODULE FeatureMap ------------------------------
(***************************************************************************)
(* A FeatureMap<float> of featureMap.cpp: built for a port of the dfp with *)
(* a format and a shape, it holds the user-format copy fmap_data and the   *)
(* device-format copy formatted_data.  set_data copies the application's   *)
(* frame in (transposing it from channel-first if asked) and converts it;  *)
(* get_data converts the device copy back and copies it out.  The model    *)
(* follows one object through one such round trip.                         *)
(***************************************************************************)
EXTENDS Naturals, Sequences, FiniteSets, Gbf

CONSTANTS
    Formats,   \* the MX_data_format values a port may carry
    Shapes,    \* port shapes [h, w, z, c] (dim_h, dim_w, dim_z, num_ch)
    Values(_),      \* the floats an application writes into a map of a shape
    ConvertThreads  \* fmap_convert_threads_ (set_parallel_fmap_convert)

VARIABLES
    state,           \* "none", "constructed", "thrown", "set", "got"
    fmt, shape,      \* the object's format and shape
    build,           \* what this binary does with an oversized shift
    fmap_data,       \* [0..size-1 -> Float32 \cup {Undef}], HWC order
    formatted_data,  \* [0..formatted size-1 -> byte \cup {Undef}]
    sent, cfSet,     \* the frame given to set_data, and its channel order
    got, cfGet       \* the frame get_data returned, and its channel order

vars == <<state, fmt, shape, build, fmap_data, formatted_data, sent, cfSet, got, cfGet>>

GbfFormats == {"GBF80", "GBF80_ROW"}

Size(sh) == sh.h * sh.w * sh.z * sh.c

(* calc_convert_size_and_new: bytes of the device copy.  FP32 and RGB888   *)
(* alias fmap_data and allocate nothing.                                   *)
GbfWords(sh) == sh.c \div 8 + (IF sh.c % 8 # 0 THEN 1 ELSE 0)
RowBytes(sh) == ((sh.w * sh.z * GbfWords(sh) * 10 + 3) \div 4) * 4
FormattedSize(f, sh) ==
    CASE f = "BF16"      -> 2 * Size(sh) + (IF Size(sh) % 2 = 1 THEN 2 ELSE 0)
      [] f = "GBF80"     -> sh.h * sh.w * sh.z * GbfWords(sh) * 10
      [] f = "GBF80_ROW" -> sh.h * RowBytes(sh)
      [] OTHER           -> 0

(* Element (h, w, d, c) in channel-last (HWC) and channel-first (CHW) order. *)
Coords(sh) == (0..(sh.h - 1)) \X (0..(sh.w - 1)) \X (0..(sh.z - 1)) \X (0..(sh.c - 1))
HwcIdx(sh, x) == ((x[1] * sh.w + x[2]) * sh.z + x[3]) * sh.c + x[4]
ChwIdx(sh, x) == x[4] * sh.h * sh.w * sh.z + (x[1] * sh.w + x[2]) * sh.z + x[3]
Idx(sh, cf, x) == IF cf THEN ChwIdx(sh, x) ELSE HwcIdx(sh, x)

(* The element at index o of an HWC or a CHW buffer. *)
HwcCoord(sh, o) ==
    <<o \div (sh.w * sh.z * sh.c), (o \div (sh.z * sh.c)) % sh.w, (o \div sh.c) % sh.z, o % sh.c>>
ChwCoord(sh, o) ==
    LET r == o % (sh.h * sh.w * sh.z)
    IN  <<r \div (sh.w * sh.z), (r \div sh.z) % sh.w, r % sh.z, o \div (sh.h * sh.w * sh.z)>>

(* transpose_chw_hwc and transpose_hwc_chw: out[to(x)] = in[from(x)]. *)
transpose_chw_hwc(sh, in) == [o \in 0..(Size(sh) - 1) |-> in[ChwIdx(sh, HwcCoord(sh, o))]]
transpose_hwc_chw(sh, in) == [o \in 0..(Size(sh) - 1) |-> in[HwcIdx(sh, ChwCoord(sh, o))]]

(* The pixels (h, w, d), in the order convert_data numbers them. *)
Pixels(sh) == 0..(sh.h * sh.w * sh.z - 1)
PixelBytes(sh) == GbfWords(sh) * 10

Slice(buf, base, n) == [i \in 0..(n - 1) |-> buf[base + i]]

(* convert_data: BF16 keeps the top two bytes of each float plus 0x8000;   *)
(* GBF80 and GBF80_ROW run gbf_encode on each pixel's num_ch floats, at    *)
(* pixel i * (words * 10), rounding fmap_data in place.                    *)
ConvertedFmap(f, sh, fm) ==
    IF f \in GbfFormats
    THEN [o \in 0..(Size(sh) - 1) |->
            gbf_encode_flt(Slice(fm, (o \div sh.c) * sh.c, sh.c), sh.c)[o % sh.c]]
    ELSE fm

ConvertedBytes(f, sh, fm, dev, ub) ==
    CASE f = "BF16" ->
            [o \in DOMAIN dev |->
                IF o >= 2 * Size(sh) THEN dev[o]
                ELSE LET v == (Top16(fm[o \div 2]) + fm[o \div 2].zero15) % 2^16
                     IN  IF o % 2 = 0 THEN v % 256 ELSE v \div 256]
      [] f \in GbfFormats ->
            LET P == PixelBytes(sh)
                enc == [p \in Pixels(sh) |->
                          gbf_encode_gbf(Slice(fm, p * sh.c, sh.c), sh.c, ub)]
                T == Tabulated(enc, Cardinality(Pixels(sh)))
            IN  [o \in DOMAIN dev |-> IF o < Cardinality(Pixels(sh)) * P
                                      THEN T[o \div P][o % P] ELSE dev[o]]
      [] OTHER -> dev

(* unconvert_data reads pixel p at p * (words * 10) for GBF80, and for     *)
(* GBF80_ROW at its row's start, rows padded to 4 bytes, plus its place in *)
(* the row.                                                                *)
DecodeBase(f, sh, p) ==
    IF f = "GBF80" THEN p * PixelBytes(sh)
    ELSE (p \div (sh.w * sh.z)) * RowBytes(sh) + (p % (sh.w * sh.z)) * PixelBytes(sh)

(* unconvert_data: BF16 wipes fmap_data and puts each 2-byte value in the  *)
(* top half of its float; the GBF formats run gbf_decode on each pixel.    *)
Unconverted(f, sh, fm, dev) ==
    CASE f = "BF16" ->
            [i \in DOMAIN fm |->
                IF dev[2 * i] = Undef \/ dev[2 * i + 1] = Undef THEN Undef
                ELSE FromTop16(dev[2 * i] + 256 * dev[2 * i + 1])]
      [] f \in GbfFormats ->
            LET dec == [p \in Pixels(sh) |->
                          gbf_decode(Slice(dev, DecodeBase(f, sh, p), PixelBytes(sh)), sh.c)]
            IN  [i \in DOMAIN fm |-> dec[i \div sh.c][i % sh.c]]
      [] OTHER -> fm

------------------------------------------------------------------------------

TypeOK ==
    /\ state \in {"none", "constructed", "thrown", "set", "got"}
    /\ build \in Builds
    /\ \A i \in DOMAIN fmap_data : fmap_data[i] = Undef \/ fmap_data[i] \in Float32
    /\ \A o \in DOMAIN formatted_data :
          formatted_data[o] = Undef \/ formatted_data[o] \in 0..255
    /\ state \in {"set", "got"} => sent \in [0..(Size(shape) - 1) -> Values(shape)]
    /\ state = "got" => \A i \in DOMAIN got : got[i] = Undef \/ got[i] \in Float32

Init ==
    /\ state = "none"
    /\ build \in Builds
    /\ fmt = "none" /\ shape = "none"
    /\ fmap_data = <<>> /\ formatted_data = <<>>
    /\ sent = <<>> /\ got = <<>> /\ cfSet = FALSE /\ cfGet = FALSE

(* The constructor: the format checks for a float map, then               *)
(* calc_convert_size_and_new.  Both buffers start uninitialised.           *)
Construct ==
    /\ state = "none"
    /\ \E f \in Formats, sh \in Shapes :
          /\ fmt' = f /\ shape' = sh
          /\ IF f \in {"RGB565", "YUV422", "RGB888"} \/ (f \in GbfFormats /\ sh.c = 0)
             THEN /\ state' = "thrown"
                  /\ UNCHANGED <<fmap_data, formatted_data>>
             ELSE /\ state' = "constructed"
                  /\ fmap_data' = [i \in 0..(Size(sh) - 1) |-> Undef]
                  /\ formatted_data' = [o \in 0..(FormattedSize(f, sh) - 1) |-> Undef]
    /\ UNCHANGED <<build, sent, cfSet, got, cfGet>>

(* set_data(in, channel_first) on a dfp port's map: copy or transpose the *)
(* frame into fmap_data, then convert_data.                                *)
SetData ==
    /\ state = "constructed"
    /\ \E in \in [0..(Size(shape) - 1) -> Values(shape)], cf \in BOOLEAN :
          LET fm == IF cf THEN transpose_chw_hwc(shape, in) ELSE in
          IN  /\ fmap_data' = ConvertedFmap(fmt, shape, fm)
              /\ formatted_data' = ConvertedBytes(fmt, shape, fm, formatted_data, build)
              /\ sent' = in /\ cfSet' = cf
    /\ state' = "set"
    /\ UNCHANGED <<fmt, shape, build, got, cfGet>>

(* The OpenMP region of get_data runs unconvert_data on every thread.    *)
(* For BF16 each thread memsets all of fmap_data (221) and then fills its *)
(* static chunk of the omp for (223-227), with no barrier in between: a    *)
(* thread that reaches its memset late wipes elements of other threads'   *)
(* chunks that were already filled. The implicit barrier of the omp for    *)
(* comes before the copy out. So the outcome of this data race, taken per *)
(* whole element, is that elements outside the late thread's own chunk may *)
(* be left as 0.0.                                                         *)
Chunk(n, t) ==
    LET cs == (n + ConvertThreads - 1) \div ConvertThreads
    IN  {i \in 0..(n - 1) : i \div cs = t}
WipedByMemset(f, sh) ==
    IF f = "BF16" /\ ConvertThreads > 1
    THEN UNION {SUBSET ((0..(Size(sh) - 1)) \ Chunk(Size(sh), t)) : t \in 0..(ConvertThreads - 1)}
    ELSE {{}}

(* get_data(out, channel_first): unconvert_data on every thread, then copy *)
(* or transpose fmap_data out (310-330).                                   *)
GetData ==
    /\ state = "set"
    /\ \E cf \in BOOLEAN, wiped \in WipedByMemset(fmt, shape) :
          LET un == Unconverted(fmt, shape, fmap_data, formatted_data)
              fm == [i \in DOMAIN un |-> IF i \in wiped THEN FloatZero ELSE un[i]]
          IN  /\ fmap_data' = fm
              /\ got' = IF cf THEN transpose_hwc_chw(shape, fm) ELSE fm
              /\ cfGet' = cf
    /\ state' = "got"
    /\ UNCHANGED <<fmt, shape, build, formatted_data, sent, cfSet>>

Next == Construct \/ SetData \/ GetData

Spec == Init /\ [][Next]_vars

------------------------------------------------------------------------------
(* Reading the round trip.  Element x as the application sent it, rounded *)
(* to bf16, and as get_data returned it, each in its own channel order.    *)
Rounded(x) == Bf16Round(sent[Idx(shape, cfSet, x)])
Got(x) == got[Idx(shape, cfGet, x)]

(* The shared exponent of x's GBF group: same pixel, channels 8k..8k+7. *)
GroupOf(x) == {y \in Coords(shape) : y[1] = x[1] /\ y[2] = x[2] /\ y[3] = x[3]
                                       /\ y[4] \div 8 = x[4] \div 8}
GroupExpOf(x) ==
    CHOOSE e \in {Rounded(y).exp : y \in GroupOf(x)} :
        \A y \in GroupOf(x) : Rounded(y).exp <= e

(* f is the value m * 2^(exp - 134) of a GBF element, or 0. *)
Denotes(f, m, exp, sign) ==
    /\ f # Undef
    /\ IF m = 0 THEN f.exp = 0 /\ f.man = 0
       ELSE /\ f.sign = sign /\ f.exp <= exp /\ exp - f.exp <= 7
            /\ 128 + f.man = m * 2^(exp - f.exp)

(* The element of slot i as the MemxGbfGbf80Map declaration lays it out. *)
FieldVal(bytes, k) == getbits(bytes, Gbf80Offsets[k] + Gbf80Widths[k] - 1, Gbf80Offsets[k])
StoredMan(bytes, i) ==
    CASE i = 3 -> FieldVal(bytes, 7) + 32 * FieldVal(bytes, 8)
      [] i = 7 -> FieldVal(bytes, 16) + 2 * FieldVal(bytes, 17)
      [] i < 3 -> FieldVal(bytes, 2 * i + 1)
      [] OTHER -> FieldVal(bytes, 2 * i + 2)
StoredSign(bytes, i) ==
    CASE i < 3 -> FieldVal(bytes, 2 * i + 2)
      [] i = 3 -> FieldVal(bytes, 9)
      [] i = 7 -> FieldVal(bytes, 18)
      [] OTHER -> FieldVal(bytes, 2 * i + 3)

(* The nearest multiple of 2^(exp - 134) to a bf16 value, halves up. *)
Nearest(v, exp) ==
    IF v.exp = 0 /\ v.man = 0 THEN 0
    ELSE LET s == exp - v.exp
         IN  IF s > 20 THEN 0 ELSE ((128 + v.man) * 2 + 2^s) \div 2^(s + 1)

(* get_data after set_data returns every value exactly for FP32, as its  *)
(* bf16 rounding for BF16, and, for the GBF formats, returns exactly the *)
(* bf16 rounding of each value that holds its group's largest exponent:  *)
(* whatever the channel orders, the encoder's packing, the bit offsets   *)
(* the decoder reads and the pixel addresses must all agree for it.      *)
RoundTripKeepsLargest ==
    state = "got" =>
      \A x \in Coords(shape) :
         CASE fmt = "FP32" -> Got(x) = sent[Idx(shape, cfSet, x)]
           [] fmt = "BF16" -> Got(x) = Rounded(x)
           [] OTHER        -> Rounded(x).exp = GroupExpOf(x) => Got(x) = Rounded(x)

(* unconvert_data turns each GBF element of the device copy into the     *)
(* float it stands for: the mantissa and sign of the slot's fields as    *)
(* MemxGbfGbf80Map declares them, under the stored exponent, for groups  *)
(* whose exponent is at least 8 (below that the result is subnormal).    *)
DecodedAsStored ==
    state = "got" /\ fmt \in GbfFormats =>
      \A p \in Pixels(shape), j \in 0..(shape.c - 1) :
         LET bytes == Slice(formatted_data, DecodeBase(fmt, shape, p) + 10 * (j \div 8), 10)
             exp   == FieldVal(bytes, 19)
         IN  (\A k \in 0..9 : bytes[k] # Undef) /\ exp >= 8 =>
                Denotes(fmap_data[p * shape.c + j], StoredMan(bytes, j % 8), exp,
                        StoredSign(bytes, j % 8))

(* The GBF formats' contract: get_data after set_data returns each value *)
(* as the multiple of its group's quantum 2^(E - 134) nearest to its bf16 *)
(* rounding (E the group's largest exponent, here at least 10), and in   *)
(* the element's own place.                                              *)
RoundTripToNearest ==
    state = "got" /\ fmt \in GbfFormats =>
      \A x \in Coords(shape) :
         GroupExpOf(x) >= 10 =>
            Denotes(Got(x), Nearest(Rounded(x), GroupExpOf(x)), GroupExpOf(x), Rounded(x).sign)

(* get_data after set_data as the spec's data buffers promise it, for     *)
(* whatever fmap_convert_threads_ the caller set: the GBF formats as in    *)
(* RoundTripToNearest, and BF16 as each value's bf16 rounding, in the      *)
(* element's own place, even when several OpenMP threads run               *)
(* unconvert_data.                                                         *)
GetDataAsSpecified ==
    /\ RoundTripToNearest
    /\ state = "got" /\ fmt = "BF16" => \A x \in Coords(shape) : Got(x) = Rounded(x)

==============================================================================
