------------------------------- MODULE MC_Dfp -------------------------------
(* The containers TLC feeds the loader, in the v6 and the v5 layout: one  *)
(* or two models, one or two ports each way (one inport possibly           *)
(* inactive), shapes in uint8 and in uint32, HPOC off or on with an empty  *)
(* or one-element dummy channel list, and an extra metadata entry or none; *)
(* and the heap bytes after a string.                                      *)
EXTENDS DfpV5

VARIABLES
    ver,    \* the container layout, 5 or 6
    pkg,    \* the package description the container was written from
    heap    \* what follows a string's bytes in memory: a NUL, or Junk

S8  == [et |-> UINT8, dims |-> <<2, 2, 1, 3>>]
S32 == [et |-> UINT32, dims |-> <<1, 70000, 1, 2>>]    \* a 1-D map 70000 wide

HpocOff == [en |-> 0]
InP(port, m, sh) == [port |-> port, active |-> 1, model |-> m, shape |-> sh]
OutP(port, m, h) == [port |-> port, active |-> 1, model |-> m, shape |-> S8, hpoc |-> h]
Inactive(port) == [port |-> port, active |-> 0]

InListsU8 ==
    {<<InP(0, 0, S8)>>, <<InP(0, 0, S8), InP(1, 1, S8)>>, <<InP(0, 0, S8), Inactive(1)>>}
InLists == InListsU8 \cup {<<InP(0, 0, S32)>>}
OutLists ==
    {<<OutP(0, 0, HpocOff)>>,
     <<OutP(0, 0, [en |-> 1, c |-> 4, chans |-> <<>>])>>,
     <<OutP(0, 0, [en |-> 1, c |-> 4, chans |-> <<3>>])>>,
     <<OutP(0, 0, HpocOff), OutP(1, 1, HpocOff)>>}
(* None; a list of one uint8; a list holding an empty list. *)
ExtrasFlat == {NoValue, Ls(UINT8, <<U8(5)>>)}
Extras == ExtrasFlat \cup {Ls(LIST, <<Ls(UINT8, <<>>)>>)}

AllPackages ==
    [models : 1..2, ins : InLists, outs : OutLists, extra : Extras]
Packages == AllPackages
HeapsNul == {<<>>}
Heaps == HeapsNul \cup {<<Junk>>}

(* The ports of model m in the order written: what init_mx_models         *)
(* (DeviceManager.cpp:480-483) and MxModel (MxModel.cpp:31-32) read.       *)
PortsOf(ports, m) ==
    LET OfModel(p) == p.active = 1 /\ p.model = m
        sel == SelectSeq(ports, OfModel)
    IN  [k \in DOMAIN sel |-> sel[k].port]

(* Every model the package declares has an active inport and outport, and *)
(* every active port names a declared model.                               *)
Declared(pk) ==
    \A m \in 0..(pk.models - 1) : PortsOf(pk.ins, m) # <<>> /\ PortsOf(pk.outs, m) # <<>>
    /\ \A p \in Range(pk.ins) \cup Range(pk.outs) : p.active = 1 => p.model < pk.models

(* Only the packages whose ports name exactly their models. HeapsNul,    *)
(* ExtrasFlat, InListsU8 and PackagesDeclared each leave out the trigger  *)
(* of one defect, for substituting into the cfg to see the others one at  *)
(* a time.                                                                 *)
PackagesDeclared == {pk \in AllPackages : Declared(pk)}

(* The v5 layout has uint16 h, w and z and no extra entries, and its      *)
(* strings are NUL terminated, so the heap after them is never read. It    *)
(* has no model count either: the model-name block is a length and bytes   *)
(* the loader skips (dfp.cpp:784-788), and the count is that of the model  *)
(* indices the ports name (950, 1062). A v5 container can only describe a  *)
(* package whose ports name exactly its models.                            *)
V5Writable(pk, hp) ==
    /\ Declared(pk)
    /\ \A k \in DOMAIN pk.ins : pk.ins[k].active = 1 => pk.ins[k].shape.et # UINT32
    /\ pk.extra = NoValue
    /\ hp = <<>>

Written(v, pk) == IF v = 5 THEN ContainerV5(pk) ELSE Container(pk)

vars == <<ver, pkg, heap>>
Init == /\ ver \in {5, 6}
        /\ pkg \in Packages
        /\ heap \in Heaps
        /\ ver = 5 => V5Writable(pkg, heap)
Next == UNCHANGED vars
Spec == Init /\ [][Next]_vars

(* The written shapes of model m's active ports, in order. *)
ShapesOf(ports, m) ==
    LET OfModel(p) == p.active = 1 /\ p.model = m
        sel == SelectSeq(ports, OfModel)
    IN  [k \in DOMAIN sel |-> sel[k].shape.dims]

Product(d) == d[1] * d[2] * d[3] * d[4]

(* Opening a package (spec "Open package", dfp.cpp:431-1096): a v5 or v6  *)
(* container written from a package whose models all have ports loads as  *)
(* written: the model count, each model's inports and outports in order,   *)
(* the shape and size of each as MxModel reads them through input_port and *)
(* output_port (MxModel.cpp:49-77), the HPOC dummy channels, the compile   *)
(* timestamp and the generation; any other package fails with an           *)
(* exception (InvalidPackage) instead of being accepted with port lists    *)
(* init_mx_models would index past.                                        *)
DfpLoadsAsWritten ==
    \A o \in {LoadDfp(Written(ver, pkg), heap)} :
        IF ~Declared(pkg) THEN o.status = "throw"
        ELSE /\ o.status = "ok"
             /\ o.meta.num_models = pkg.models
             /\ o.meta.model_inports = [m \in 1..pkg.models |-> PortsOf(pkg.ins, m - 1)]
             /\ o.meta.model_outports = [m \in 1..pkg.models |-> PortsOf(pkg.outs, m - 1)]
             /\ o.meta.compile_time = <<84>>
             /\ o.meta.mxa_gen = "Cascade+"
             /\ \A m \in 0..(pkg.models - 1) :
                    LET mi == ModelPortInfo(o.meta, m)
                    IN  /\ mi.in_shapes = ShapesOf(pkg.ins, m)
                        /\ mi.out_shapes = ShapesOf(pkg.outs, m)
                        /\ mi.in_sizes = [k \in DOMAIN mi.in_shapes |-> Product(mi.in_shapes[k])]
             /\ \A k \in DOMAIN pkg.outs :
                    pkg.outs[k].hpoc.en = 1 => o.meta.oports[k].hpoc.chans = pkg.outs[k].hpoc.chans
============================================================================
