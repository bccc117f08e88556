--------------------------- MODULE MC_FeatureMap ---------------------------
(* Instantiation of FeatureMap for TLC.  A float is [sign, exp, man,       *)
(* zero15]; exp 127 is 1.0's binade.                                        *)
EXTENDS FeatureMap

Fl(s, e, m, r) == [sign |-> s, exp |-> e, man |-> m, zero15 |-> r]

(* One pixel of 9 channels (a full group and a remainder of one), and a   *)
(* 1x1 map of depth 2 and 3 channels, whose rows need no padding.         *)
MCShapes == {[h |-> 1, w |-> 1, z |-> 1, c |-> 9], [h |-> 1, w |-> 1, z |-> 2, c |-> 3]}

(* 1.99..., which rounds up into the next binade (2.0), and -1.0234*2^-6, *)
(* 7 binades below it; the smaller map also gets 0.0, whose distance to   *)
(* the group's exponent is the oversized shift.                            *)
MCValues(sh) ==
    {Fl(0, 127, 127, 1), Fl(1, 121, 3, 0)}
    \cup (IF sh.c = 9 THEN {} ELSE {Fl(0, 0, 0, 0)})

(* Two pixels in a column, one channel each: a 10-byte pixel in a row     *)
(* padded to 12; and one pixel of two channels.                            *)
MCShapesRow == {[h |-> 2, w |-> 1, z |-> 1, c |-> 1], [h |-> 1, w |-> 1, z |-> 1, c |-> 2]}

(* 0.0, 2.0, 1.0, and 1.5 * 2^-8: 8 binades below 1.0.                    *)
MCValuesNearest(sh) == {Fl(0, 0, 0, 0), Fl(0, 128, 0, 0), Fl(0, 127, 0, 0), Fl(0, 119, 64, 0)}
============================================================================
