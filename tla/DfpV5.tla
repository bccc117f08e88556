------------------------------- MODULE DfpV5 -------------------------------
(***************************************************************************)
(* The v5 branch of DfpObject::__load_dfp_bytes (dfp.cpp): a fixed binary  *)
(* layout read at a running offset, and the dispatch on the 8-byte version *)
(* header between it and the v6 reader of Dfp.  The v5 reader produces the *)
(* same DfpMeta and port records as the v6 one.  A float of the layout     *)
(* (range shift and scale) is kept as its four bytes read as a uint32.     *)
(***************************************************************************)
EXTENDS Dfp

(* std::string of a NUL-terminated copy: the bytes up to the first NUL. *)
CStr(s) ==
    LET nul == {k \in DOMAIN s : s[k] = 0}
    IN  IF nul = {} THEN s ELSE SubSeq(s, 1, Min(nul) - 1)

(* The gen_and_towers switch: the low nibble names the generation. *)
GenName == (4 :> "Cascade+") @@ (3 :> "Cascade") @@ (2 :> "Barton")

(* The header after the 8-byte version: data length (skipped), the dated  *)
(* string, the model-name block (skipped), the compiler version, the      *)
(* compiler arguments (skipped), generation, chip count, two bytes of     *)
(* frequency (skipped) and the port counts.  off is where the ports begin. *)
V5Header(b) ==
    LET dl == Byte(b, 16)
        a  == 17 + dl                   \* modelinfoleng
        c  == a + 4 + LE(b, a, 4)       \* compilerverleng
        g0 == c + 1 + Byte(b, c)        \* argsleng
        gt == g0 + 4 + LE(b, g0, 4)     \* gen_and_towers
    IN  [compile_time |-> CStr(Bytes(b, 17, dl)),
         compiler_version |-> CStr(Bytes(b, c + 1, Byte(b, c))),
         gen |-> Byte(b, gt) % 16, num_chips |-> Byte(b, gt + 1),
         nin |-> Byte(b, gt + 4), nout |-> Byte(b, gt + 5), off |-> gt + 6]

(* An active port at offset i (its index_and_status byte): port_set,       *)
(* mpu_id, model_index, the layer name, the format, for an inport the      *)
(* range enable, shift and scale, the dims (three uint16 and a uint32),    *)
(* and for an outport the HPOC block: when enabled, three skipped uint16,  *)
(* the expanded channel count and the dummy channel list.  n is the bytes  *)
(* the port takes.                                                         *)
V5Port(b, i, out) ==
    LET ln   == LE(b, i + 4, 2)
        f    == i + 6 + ln
        d    == IF out THEN f + 1 ELSE f + 10
        dims == <<LE(b, d, 2), LE(b, d + 2, 2), LE(b, d + 4, 2), LE(b, d + 6, 4)>>
        h    == d + 10
        en   == IF out THEN Byte(b, h) ELSE 0
        hl   == LE(b, h + 11, 2)
        hp   == IF en = 1
                THEN [ok |-> TRUE, en |-> 1, dim_c |-> LE(b, h + 7, 4),
                      chans |-> [z \in 1..hl |-> LE(b, h + 13 + 2 * (z - 1), 2)]]
                ELSE [ok |-> TRUE, en |-> en, dim_c |-> 0, chans |-> <<>>]
    IN  [n   |-> (IF ~out THEN h ELSE IF en = 1 THEN h + 13 + 2 * hl ELSE h + 1) - i,
         cfg |-> [port |-> Byte(b, i) % 128, active |-> 1,
                  port_set |-> Byte(b, i + 1), mpu_id |-> Byte(b, i + 2),
                  model_index |-> Byte(b, i + 3), format |-> Byte(b, f),
                  layer_name |-> CStr(Bytes(b, i + 6, ln)),
                  range_convert |-> IF out THEN <<0, 1>> ELSE <<LE(b, f + 2, 4), LE(b, f + 6, 4)>>,
                  dims |-> dims, total_size |-> dims[1] * dims[2] * dims[3] * dims[4],
                  hpoc |-> hp]]

(* One pass of the v5 inport or outport loop at acc.off: bit 7 of the      *)
(* index_and_status byte marks an active port, bits 0..6 its number; an    *)
(* inactive port is one byte.                                              *)
V5PortStep(b, acc, out) ==
    LET s == Byte(b, acc.off)
    IN  IF s \div 128 = 0
        THEN [acc EXCEPT !.ports = @ \o <<[port |-> s % 128, active |-> 0]>>, !.off = @ + 1]
        ELSE LET p == V5Port(b, acc.off, out)
             IN  [acc EXCEPT !.ports = @ \o <<p.cfg>>,
                             !.mp = AddPort(@, p.cfg.model_index, p.cfg.port),
                             !.used = @ + 1, !.off = @ + p.n]

(* A loop of n ports from offset off; it cannot fail. *)
V5PortLoop(b, off, n, out) ==
    LET F[j \in 0..n] ==
            IF j = 0 THEN [ok |-> TRUE, ports |-> <<>>, mp |-> <<>>, used |-> 0, off |-> off]
            ELSE V5PortStep(b, F[j - 1], out)
    IN  F[n]

(* The v5 branch: an unknown generation throws; num_models is the number  *)
(* of model indices the inports name, and it must equal the number the     *)
(* outports name.                                                          *)
LoadDfpV5(b) ==
    LET hd   == V5Header(b)
        ins  == V5PortLoop(b, hd.off, hd.nin, FALSE)
        outs == V5PortLoop(b, ins.off, hd.nout, TRUE)
    IN  IF hd.gen \notin DOMAIN GenName THEN Throw
        ELSE IF Len(ins.mp) # Len(outs.mp) THEN Throw
        ELSE [status |-> "ok",
              meta |-> [num_models |-> Len(ins.mp),
                        compile_time |-> hd.compile_time,
                        compiler_version |-> hd.compiler_version,
                        mxa_gen |-> GenName[hd.gen],
                        use_multigroup_lb |-> 0, num_chips |-> hd.num_chips,
                        num_inports |-> hd.nin, num_outports |-> hd.nout,
                        iports |-> ins.ports, oports |-> outs.ports,
                        num_used_inports |-> ins.used, num_used_outports |-> outs.used,
                        model_inports |-> ins.mp, model_outports |-> outs.mp]]

(* __load_dfp_bytes: the 8-byte header selects the v6 or the v5 reader;    *)
(* any other value is an invalid or ancient file and throws.               *)
LoadDfp(b, heap) ==
    CASE LE(b, 0, 8) = 6 -> LoadDfpV6(b, heap)
      [] LE(b, 0, 8) = 5 -> LoadDfpV5(b)
      [] OTHER           -> Throw
------------------------------------------------------------------------------
(* Reference: a v5 container as the compiler lays it out, from the package *)
(* descriptions of Dfp's reference writer.  The data length, model-name    *)
(* block and argument list hold placeholder bytes the reader skips; the    *)
(* generation byte carries a tower count in its high nibble.               *)
V5Str(s) == <<Len(s)>> \o s

V5Dims(d) == ToLE(d[1], 2) \o ToLE(d[2], 2) \o ToLE(d[3], 2) \o ToLE(d[4], 4)

V5Hpoc(h) ==
    IF h.en = 0 THEN <<0>>
    ELSE <<1>> \o ToLE(1, 6) \o ToLE(h.c, 4) \o ToLE(Len(h.chans), 2)
         \o FlattenSeq([z \in DOMAIN h.chans |-> ToLE(h.chans[z], 2)])

V5PortBytes(p, out) ==
    IF p.active = 0 THEN <<p.port>>
    ELSE <<128 + p.port, 0, 0, p.model>> \o ToLE(1, 2) \o <<76>> \o <<0>>
         \o (IF out THEN <<>> ELSE <<0>> \o ToLE(0, 4) \o ToLE(0, 4))
         \o V5Dims(p.shape.dims) \o (IF out THEN V5Hpoc(p.hpoc) ELSE <<>>)

ContainerV5(pkg) ==
    ToLE(5, 8) \o ToLE(0, 8) \o V5Str(<<84>>)
    \o ToLE(1, 4) \o <<77>>
    \o V5Str(<<86>>) \o ToLE(0, 4) \o <<16 + 4, 4, 0, 0>>
    \o <<Len(pkg.ins), Len(pkg.outs)>>
    \o FlattenSeq([k \in DOMAIN pkg.ins |-> V5PortBytes(pkg.ins[k], FALSE)])
    \o FlattenSeq([k \in DOMAIN pkg.outs |-> V5PortBytes(pkg.outs[k], TRUE)])
==============================================================================
