-------------------------------- MODULE Dfp --------------------------------
(***************************************************************************)
(* DfpObject::__load_dfp_bytes of dfp.cpp for a v6 container, as an       *)
(* operator: the 8-byte version, the dtype of the metadata, the mxpack     *)
(* dict (MxPack), and the reading of the dict into DfpMeta and the        *)
(* PortInfo arrays.  A key is named by a string of the compiler; here each *)
(* name is a one-byte code, NUL padded to the 64 bytes of a key.           *)
(*                                                                         *)
(* The loader dereferences every lookup it needs without a NULL check; the *)
(* containers modelled carry every key it reads, so those paths are not    *)
(* taken.                                                                  *)
(***************************************************************************)
EXTENDS MxPack

CONSTANT Junk   \* a heap byte that is not NUL

KeyCode ==
    [models |-> 1, compile_timestamp |-> 2, compiler_version |-> 3,
     use_multigroup_loadbalance |-> 4, sim_meta |-> 5, intgen |-> 6,
     num_mpus |-> 7, num_inports |-> 8, num_outports |-> 9,
     inport_info |-> 10, outport_info |-> 11, port |-> 12, active |-> 13,
     port_set |-> 14, mpu_id |-> 15, model_index |-> 16,
     packing_format |-> 17, as_int |-> 18, layer_name |-> 19,
     range_convert |-> 20, enabled |-> 21, shift |-> 22, scale |-> 23,
     mxa_shape |-> 24, hpoc |-> 25, shape |-> 26, channels |-> 27]

Key(name) == <<KeyCode[name]>> \o [k \in 1..63 |-> 0]

(* mxpack_get_list_item_ptr: element idx, or NULL past the end or for an  *)
(* unknown element dtype.                                                   *)
mxpack_get_list_item_ptr(l, idx) ==
    IF idx >= Len(l.el) \/ l.et \notin ScalarTypes \cup {DICT, LIST, NUMPY, BIN, UTF8, ASCII}
    THEN NoValue
    ELSE l.el[idx + 1]

Get(d, name) == mxpack_get_keyval(d, Key(name))
At(d, name) == Get(d, name).x             \* *((uintN_t*) mxpack_get_keyval(d, name))
Item(l, k) == mxpack_get_list_item_ptr(l, k).x

(* std::string(temps->s): the string's bytes carry no NUL, so the copy     *)
(* runs on into the heap bytes after them, up to the first NUL.            *)
CString(s, heap) == s \o heap

(* The mxa_shape switch: uint8 and uint16 dims as they are, uint32 dims h, *)
(* w, z narrowed to PortInfo's uint16 and c kept; any other dtype throws.  *)
PortShape(l) ==
    IF l.et \in {UINT8, UINT16}
    THEN [ok |-> TRUE, h |-> Item(l, 0), w |-> Item(l, 1), z |-> Item(l, 2), c |-> Item(l, 3)]
    ELSE IF l.et = UINT32
    THEN [ok |-> TRUE, h |-> Item(l, 0) % 2^16, w |-> Item(l, 1) % 2^16,
          z |-> Item(l, 2) % 2^16, c |-> Item(l, 3)]
    ELSE [ok |-> FALSE]

(* total_size: the product of the dims, in an int.  The shapes modelled   *)
(* keep it far below 2^31; a larger product wraps in the code.             *)
TotalSize(sh) == sh.h * sh.w * sh.z * sh.c

(* meta.model_inports / model_outports: grown with empty lists up to the  *)
(* port's model_index, then the port appended to that model's list.      *)
AddPort(mp, m, p) ==
    LET grown == IF Len(mp) > m THEN mp ELSE mp \o [k \in 1..(m + 1 - Len(mp)) |-> <<>>]
    IN  [grown EXCEPT ![m + 1] = @ \o <<p>>]

(* The HPOC block of an active outport: the expanded channel count, then  *)
(* the dummy channel list (uint16_t), whose dtype is checked per element. *)
Hpoc(pd) ==
    LET hd  == Get(pd, "hpoc")
        sh  == Get(hd, "shape")
        ch  == Get(hd, "channels")
        len == Len(ch.el) % 2^16
    IN  IF At(hd, "enabled") = 0 THEN [ok |-> TRUE, en |-> 0, dim_c |-> 0, chans |-> <<>>]
        ELSE IF sh.et \notin {UINT8, UINT16, UINT32} THEN [ok |-> FALSE]
        ELSE IF len > 0 /\ ch.et \notin {UINT8, UINT16, UINT32} THEN [ok |-> FALSE]
        ELSE [ok |-> TRUE, en |-> 1, dim_c |-> Item(sh, 3),
              chans |-> [z \in 1..len |-> Item(ch, z - 1) % 2^16]]

(* One pass of the inport loop (out = FALSE) or of the outport loop (out = *)
(* TRUE) over port i of the info list: a NULL item or a bad shape throws;  *)
(* an inactive port is recorded and skipped; an active one is read and     *)
(* added to its model's port list.                                         *)
PortStep(pinfol, i, out, acc) ==
    LET pd  == mxpack_get_list_item_ptr(pinfol, i)
        sh  == PortShape(Get(pd, "mxa_shape"))
        hp  == Hpoc(pd)
        rc  == Get(pd, "range_convert")
        cfg == [port |-> At(pd, "port"), active |-> 1,
                port_set |-> At(pd, "port_set"), mpu_id |-> At(pd, "mpu_id"),
                model_index |-> At(pd, "model_index"),
                format |-> At(Get(pd, "packing_format"), "as_int"),
                layer_name |-> Get(pd, "layer_name").s,
                range_convert |-> IF out \/ At(rc, "enabled") = 0 THEN <<0, 1>>
                                  ELSE <<At(rc, "shift"), At(rc, "scale")>>,
                dims |-> <<sh.h, sh.w, sh.z, sh.c>>, total_size |-> TotalSize(sh),
                hpoc |-> IF out THEN hp ELSE [ok |-> TRUE, en |-> 0, dim_c |-> 0, chans |-> <<>>]]
    IN  IF pd = NoValue THEN [acc EXCEPT !.ok = FALSE]
        ELSE IF At(pd, "active") = 0
        THEN [acc EXCEPT !.ports = @ \o <<[port |-> At(pd, "port"), active |-> 0]>>]
        ELSE IF ~sh.ok \/ (out /\ ~hp.ok) THEN [acc EXCEPT !.ok = FALSE]
        ELSE [acc EXCEPT !.ports = @ \o <<cfg>>,
                         !.mp = AddPort(@, cfg.model_index, cfg.port),
                         !.used = @ + 1]

NoPorts == [ok |-> TRUE, ports |-> <<>>, mp |-> <<>>, used |-> 0]

(* The loop over ports 0..n-1: stops at the first throw. *)
PortLoop(pinfol, n, out) ==
    LET F[i \in 0..n] ==
            IF i = 0 THEN NoPorts
            ELSE IF ~F[i - 1].ok THEN F[i - 1]
            ELSE PortStep(pinfol, i - 1, out, F[i - 1])
    IN  F[n]

Throw == [status |-> "throw"]

(* The reading of the decoded metadata dict d into DfpMeta and the port   *)
(* arrays, with heap the bytes that follow each string std::string copies. *)
(* The checks come in the code's order; a failing one throws.              *)
ReadMeta(d, heap) ==
    LET sm   == Get(d, "sim_meta")
        lb   == Get(d, "use_multigroup_loadbalance")
        nin  == At(d, "num_inports")
        nout == At(d, "num_outports")
        pin  == Get(d, "inport_info")
        pout == Get(d, "outport_info")
        ins  == PortLoop(pin, nin, FALSE)
        outs == PortLoop(pout, nout, TRUE)
    IN  IF At(sm, "intgen") # 4 THEN Throw
        ELSE IF Len(pin.el) # nin \/ ~ins.ok THEN Throw
        ELSE IF Len(pout.el) # nout \/ ~outs.ok THEN Throw
        ELSE IF Len(ins.mp) # Len(outs.mp) THEN Throw
        ELSE [status |-> "ok",
              meta |-> [num_models |-> Len(Get(d, "models").el),
                        compile_time |-> CString(Get(d, "compile_timestamp").s, heap),
                        compiler_version |-> CString(Get(d, "compiler_version").s, heap),
                        mxa_gen |-> "Cascade+",
                        use_multigroup_lb |-> IF lb = NoValue THEN 0 ELSE lb.x,
                        num_chips |-> At(sm, "num_mpus"),
                        num_inports |-> nin, num_outports |-> nout,
                        iports |-> ins.ports, oports |-> outs.ports,
                        num_used_inports |-> ins.used, num_used_outports |-> outs.used,
                        model_inports |-> ins.mp, model_outports |-> outs.mp]]

(* The result r of mxpack_process_dict: 0 bytes throws. *)
ReadDict(r, heap) == IF r.n = 0 THEN Throw ELSE ReadMeta(r.v, heap)

(* __load_dfp_bytes for a container whose 8-byte header is 6: the dtype    *)
(* byte must be a dict, then the dict is decoded and read.                 *)
LoadDfpV6(b, heap) ==
    IF Byte(b, 8) # DICT THEN Throw ELSE ReadDict(mxpack_process_dict(b, 9), heap)

(* DfpObject::input_port / output_port: the PortInfo at array index port,  *)
(* or NULL out of range.  The index is the port number a model's port list *)
(* holds, while the loader filled the array in info-list order.            *)
input_port(meta, port) ==
    IF port < 0 \/ port >= meta.num_inports THEN NoValue ELSE meta.iports[port + 1]
output_port(meta, port) ==
    IF port < 0 \/ port >= meta.num_outports THEN NoValue ELSE meta.oports[port + 1]

(* The MxModel constructor's model_info for model m: through input_port    *)
(* and output_port, the shape and feature-map size of each of the model's  *)
(* ports in order.                                                         *)
ModelPortInfo(meta, m) ==
    LET ins  == meta.model_inports[m + 1]
        outs == meta.model_outports[m + 1]
    IN  [in_shapes  |-> [k \in DOMAIN ins |-> input_port(meta, ins[k]).dims],
         in_sizes   |-> [k \in DOMAIN ins |-> input_port(meta, ins[k]).total_size],
         out_shapes |-> [k \in DOMAIN outs |-> output_port(meta, outs[k]).dims],
         out_sizes  |-> [k \in DOMAIN outs |-> output_port(meta, outs[k]).total_size]]

------------------------------------------------------------------------------
(* Reference: a v6 container as the compiler lays it out, from a package   *)
(* description: models, the optional load-balance flag, the inports and    *)
(* outports (port, active, model, shape [et, dims], and for an outport     *)
(* hpoc [en, c, chans]), and an optional entry under a key the loader does *)
(* not read.  String contents are one-byte stand-ins.                      *)
Sc(dt, x) == Value(dt, 0, x, <<>>, <<>>, <<>>)
St(s) == Value(ASCII, 0, 0, s, <<>>, <<>>)
Ls(et, el) == Value(LIST, et, 0, <<>>, el, <<>>)
DictOf(names, vals) == Value(DICT, 0, 0, <<>>, vals, [k \in DOMAIN names |-> Key(names[k])])
U8(x) == Sc(UINT8, x)
U16s(xs) == Ls(UINT16, [k \in DOMAIN xs |-> Sc(UINT16, xs[k])])

OtherKey == <<KeyCode.channels + 1>> \o [k \in 1..63 |-> 0]

HpocDict(h) ==
    IF h.en = 0 THEN DictOf(<<"enabled">>, <<U8(0)>>)
    ELSE DictOf(<<"enabled", "shape", "channels">>, <<U8(1), U16s(<<1, 1, 1, h.c>>), U16s(h.chans)>>)

PortDict(p, out) ==
    IF p.active = 0 THEN DictOf(<<"port", "active">>, <<U8(p.port), U8(0)>>)
    ELSE DictOf(<<"port", "active", "port_set", "mpu_id", "model_index", "packing_format",
                  "layer_name", IF out THEN "hpoc" ELSE "range_convert", "mxa_shape">>,
                <<U8(p.port), U8(1), U8(0), U8(0), U8(p.model), DictOf(<<"as_int">>, <<U8(0)>>),
                  St(<<76>>), IF out THEN HpocDict(p.hpoc) ELSE DictOf(<<"enabled">>, <<U8(0)>>),
                  Ls(p.shape.et, [k \in 1..4 |-> Sc(p.shape.et, p.shape.dims[k])])>>)

MetaDict(pkg) ==
    LET base == DictOf(<<"models", "compile_timestamp", "compiler_version", "sim_meta",
                         "num_inports", "num_outports", "inport_info", "outport_info">>,
                       <<Ls(ASCII, [m \in 1..pkg.models |-> St(<<77>>)]), St(<<84>>), St(<<86>>),
                         DictOf(<<"intgen", "num_mpus">>, <<U8(4), U8(4)>>),
                         U8(Len(pkg.ins)), U8(Len(pkg.outs)),
                         Ls(DICT, [k \in DOMAIN pkg.ins |-> PortDict(pkg.ins[k], FALSE)]),
                         Ls(DICT, [k \in DOMAIN pkg.outs |-> PortDict(pkg.outs[k], TRUE)])>>)
    IN  IF pkg.extra = NoValue THEN base
        ELSE [base EXCEPT !.keys = @ \o <<OtherKey>>, !.el = @ \o <<pkg.extra>>]

Container(pkg) == ToLE(6, 8) \o <<DICT>> \o Body(MetaDict(pkg))
==============================================================================
