------------------------------- MODULE MxPack -------------------------------
(***************************************************************************)
(* The mxpack decoder of mxpack.cpp as operators.  The dfp v6 metadata is  *)
(* an mxpack dict: a uint32 count of entries, each a 64-byte key, a dtype  *)
(* byte and the value; a list is an element dtype, a uint32 count and the  *)
(* elements.  Integers are little-endian.  The buffer is a sequence of     *)
(* bytes; an offset i of the C code is the element i + 1.                  *)
(*                                                                         *)
(* A decoded value is a record: dt its dtype; x a scalar; s the bytes of a *)
(* string; for a list, et the element dtype and el the elements; for a     *)
(* dict, keys the 64-byte keys and el the values, in order.  Each call     *)
(* returns [n |-> bytes consumed, v |-> value], n = 0 meaning failure, as  *)
(* the code's size_t results do.                                           *)
(***************************************************************************)
EXTENDS Naturals, Sequences, SequencesExt

DICT == 1
LIST == 2
BIN == 3
UINT8 == 16
INT8 == 17
UINT16 == 32
INT16 == 33
UINT32 == 48
INT32 == 49
UINT64 == 64
INT64 == 65
FP32 == 80
ASCII == 96
UTF8 == 97
BOOL == 112
NUMPY == 162

ScalarTypes == {BOOL, UINT8, INT8, UINT16, INT16, UINT32, INT32, FP32, UINT64, INT64}

(* The bytes one element of a scalar dtype takes. *)
Width(dt) ==
    CASE dt \in {BOOL, UINT8, INT8}    -> 1
      [] dt \in {UINT16, INT16}        -> 2
      [] dt \in {FP32, UINT32, INT32}  -> 4
      [] dt \in {UINT64, INT64}        -> 8

(* The bytes of a string's length field: uint64 for BIN/UTF8, uint32 for *)
(* ASCII.                                                                 *)
LenWidth(dt) == IF dt = ASCII THEN 4 ELSE 8

Value(dt, et, x, s, el, keys) == [dt |-> dt, et |-> et, x |-> x, s |-> s, el |-> el, keys |-> keys]
NoValue == Value(0, 0, 0, <<>>, <<>>, <<>>)

Byte(b, i) == b[i + 1]

(* memcpy of a w-byte little-endian integer at offset i. *)
RECURSIVE LE(_, _, _)
LE(b, i, w) == IF w = 0 THEN 0 ELSE Byte(b, i) + 256 * LE(b, i + 1, w - 1)

Bytes(b, i, len) == SubSeq(b, i + 1, i + len)

Res(n, v) == [n |-> n, v |-> v]
Failed == Res(0, NoValue)

RECURSIVE mxpack_process_dict(_, _), mxpack_decode_dict_entry(_, _),
          mxpack_process_list(_, _, _, _), ListItem(_, _, _), Items(_, _, _, _),
          Entries(_, _, _)

(* One element of a list of strings, dicts or lists at offset i: the body *)
(* of one iteration of mxpack_process_list's loop; 0 when it failed.      *)
ListItem(b, i, dt) ==
    CASE dt \in {BIN, UTF8, ASCII} ->
            LET len == LE(b, i, LenWidth(dt))
            IN  Res(LenWidth(dt) + len,
                    Value(dt, 0, 0, Bytes(b, i + LenWidth(dt), len), <<>>, <<>>))
      [] dt = DICT -> mxpack_process_dict(b, i)
      [] OTHER ->
            LET r == mxpack_process_list(b, i + 5, Byte(b, i), LE(b, i + 1, 4))
            IN  IF r.n = 0 THEN Failed ELSE Res(5 + r.n, r.v)

(* The loop over k elements of dtype dt from offset i: stops at the first *)
(* that returns 0.                                                         *)
Items(b, i, dt, k) ==
    IF k = 0 THEN [ok |-> TRUE, n |-> 0, el |-> <<>>]
    ELSE LET r == ListItem(b, i, dt)
             rest == Items(b, i + r.n, dt, k - 1)
         IN  IF r.n = 0 \/ ~rest.ok THEN [ok |-> FALSE, n |-> 0, el |-> <<>>]
             ELSE [ok |-> TRUE, n |-> r.n + rest.n, el |-> <<r.v>> \o rest.el]

(* mxpack_process_list(l, b) for l->dtype = dt, l->num_elem = num: the    *)
(* bytes of the elements.  An empty list consumes 0 bytes, which its      *)
(* callers read as failure.                                                *)
mxpack_process_list(b, i, dt, num) ==
    IF num = 0 THEN Res(0, Value(LIST, dt, 0, <<>>, <<>>, <<>>))
    ELSE CASE dt \in ScalarTypes ->
                 Res(num * Width(dt),
                     Value(LIST, dt, 0, <<>>,
                           [m \in 1..num |->
                               Value(dt, 0, LE(b, i + (m - 1) * Width(dt), Width(dt)),
                                     <<>>, <<>>, <<>>)],
                           <<>>))
           [] dt \in {BIN, UTF8, ASCII, DICT, LIST, NUMPY} ->
                 LET r == Items(b, i, dt, num)
                 IN  IF r.ok THEN Res(r.n, Value(LIST, dt, 0, <<>>, r.el, <<>>)) ELSE Failed
           [] OTHER -> Failed

(* mxpack_decode_dict_entry: the key (its last byte forced to 0), the     *)
(* dtype, and the value; a dict or list value that returned 0 fails, an   *)
(* empty list value is handled before mxpack_process_list.                *)
mxpack_decode_dict_entry(b, i) ==
    LET key == Bytes(b, i, 63) \o <<0>>
        dt  == Byte(b, i + 64)
        j   == i + 65
        Entry(n, v) == Res(n, [key |-> key, v |-> v])
    IN  CASE dt \in ScalarTypes ->
                Entry(65 + Width(dt), Value(dt, 0, LE(b, j, Width(dt)), <<>>, <<>>, <<>>))
          [] dt \in {BIN, UTF8, ASCII} ->
                LET len == LE(b, j, LenWidth(dt))
                IN  Entry(65 + LenWidth(dt) + len,
                          Value(dt, 0, 0, Bytes(b, j + LenWidth(dt), len), <<>>, <<>>))
          [] dt = DICT ->
                LET r == mxpack_process_dict(b, j)
                IN  IF r.n = 0 THEN Failed ELSE Entry(65 + r.n, r.v)
          [] dt \in {LIST, NUMPY} ->
                LET et  == Byte(b, j)
                    num == LE(b, j + 1, 4)
                    r   == mxpack_process_list(b, j + 5, et, num)
                IN  IF num = 0 THEN Entry(70, Value(dt, et, 0, <<>>, <<>>, <<>>))
                    ELSE IF r.n = 0 THEN Failed
                    ELSE Entry(70 + r.n, [r.v EXCEPT !.dt = dt])
          [] OTHER -> Failed

(* The loop of mxpack_process_dict over k entries from offset i. *)
Entries(b, i, k) ==
    IF k = 0 THEN [ok |-> TRUE, n |-> 0, keys |-> <<>>, el |-> <<>>]
    ELSE LET r == mxpack_decode_dict_entry(b, i)
             rest == Entries(b, i + r.n, k - 1)
         IN  IF r.n = 0 \/ ~rest.ok THEN [ok |-> FALSE, n |-> 0, keys |-> <<>>, el |-> <<>>]
             ELSE [ok |-> TRUE, n |-> r.n + rest.n,
                   keys |-> <<r.v.key>> \o rest.keys, el |-> <<r.v.v>> \o rest.el]

(* mxpack_process_dict: num_keys, then the entries. *)
mxpack_process_dict(b, i) ==
    LET r == Entries(b, i + 4, LE(b, i, 4))
    IN  IF r.ok THEN Res(4 + r.n, Value(DICT, 0, 0, <<>>, r.el, r.keys)) ELSE Failed

(* strncmp(a, b, 64) = 0: equal up to and including the first NUL. *)
KeyEq(a, c) == \A j \in 1..64 : (\A m \in 1..(j - 1) : a[m] # 0) => a[j] = c[j]

(* mxpack_get_keyval: the value of the first entry whose key matches, or *)
(* NULL.                                                                  *)
mxpack_get_keyval(d, k) ==
    IF \E m \in DOMAIN d.keys : KeyEq(d.keys[m], k)
    THEN d.el[CHOOSE m \in DOMAIN d.keys : KeyEq(d.keys[m], k)
                                          /\ \A p \in 1..(m - 1) : ~KeyEq(d.keys[p], k)]
    ELSE NoValue
------------------------------------------------------------------------------
(* Reference: the bytes of a value in the layout the decoder reads (the    *)
(* writer, mxpack_save_dict, is declared in mxpack.h but not in this       *)
(* repository).  A value inside a list is written as its element: scalars *)
(* and strings without a dtype byte, a nested list with its own element    *)
(* dtype and count.                                                        *)
RECURSIVE ToLE(_, _)
ToLE(x, w) == IF w = 0 THEN <<>> ELSE <<x % 256>> \o ToLE(x \div 256, w - 1)

RECURSIVE Body(_)
Body(v) ==
    CASE v.dt \in ScalarTypes -> ToLE(v.x, Width(v.dt))
      [] v.dt \in {BIN, UTF8, ASCII} -> ToLE(Len(v.s), LenWidth(v.dt)) \o v.s
      [] v.dt = DICT ->
            ToLE(Len(v.keys), 4)
            \o FlattenSeq([m \in DOMAIN v.keys |-> v.keys[m] \o <<v.el[m].dt>> \o Body(v.el[m])])
      [] OTHER -> <<v.et>> \o ToLE(Len(v.el), 4) \o FlattenSeq([m \in DOMAIN v.el |-> Body(v.el[m])])
=============================================================================
