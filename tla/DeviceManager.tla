--------------------------- MODULE DeviceManager ---------------------------
(***************************************************************************)
(* The device/context allocator (src/mx_accl/src/DeviceManager.cpp) as    *)
(* driven by the MxAccl facade (MxAccl.cpp): several accelerator objects   *)
(* (in one process or several) each construct a DeviceManager, connect one *)
(* dfp to a list of devices, and are destroyed; a new object may then be   *)
(* constructed in their place.  They share the driver's device locks and   *)
(* hardware contexts, which are the only state the driver keeps.  An      *)
(* MxAccl object also connects streams and pre/post models to its models *)
(* and starts and stops them, which its destructor relies on.             *)
(*                                                                         *)
(* Devices not in Devices exist but are held by other programs throughout, *)
(* so the discovery loop skips them.                                       *)
(***************************************************************************)
EXTENDS Integers, Sequences, FiniteSets, FiniteSetsExt

CONSTANTS
    Procs,        \* accelerator objects (one MxAccl with its DeviceManager each)
    Facade,       \* Facade[p]: "MxAccl" or "MxAcclMT", the class of object p
    Devices,      \* device ids 0..all_devices_count-1 that are not held elsewhere
    Chips,        \* Chips[d]: memx_get_total_chip_count of device d
    Dfps,         \* dfp metadata a connect_dfp may bring: [chips, mg]
    DeviceLists,  \* device_ids_to_use arguments a caller may pass
    CtxCeiling,   \* the driver's context id range 0..CtxCeiling-1 (32)
    MaxObjects,   \* bound: objects constructed in turn in each slot of Procs
    MaxFaults,    \* bound: failing driver calls (config, open, download) in a behaviour
    Models,       \* model indices 0..num_models-1 of every dfp (MxAccl::models)
    PreModels,    \* models a caller may call connect_pre_model on
    PostModels,   \* models a caller may call connect_post_model on
    MaxStarts,    \* bound: MxAccl::start calls on one object
    NoOwner,      \* model value: a free lock or a closed context
    Leaked        \* model value: held by an object that no longer exists

ASSUME /\ Facade \in [Procs -> {"MxAccl", "MxAcclMT"}]
       /\ Devices \subseteq Nat /\ Chips \in [Devices -> {2, 4, 8}]
       /\ Dfps \subseteq [chips : {2, 4, 8}, mg : BOOLEAN]
       /\ \A l \in DeviceLists : l \in Seq(Nat) /\ Len(l) > 0
       /\ CtxCeiling \in Nat /\ MaxFaults \in Nat /\ MaxObjects \in Nat \ {0}
       /\ Models \subseteq Nat /\ PreModels \subseteq Models
       /\ PostModels \subseteq Models /\ MaxStarts \in Nat

(* memx_config_mpu_group configurations.                                   *)
Configs == {"FOUR", "EIGHT", "TWO"}
NoDevice == -1
Errors == {"none", "InvalidPackage", "Unavailable", "LockFailed", "Refused",
           "ChipMismatch", "ConfigFailed", "ContextExhausted", "OpenFailed",
           "GroupCountFailed", "DownloadFailed"}
PCs == {"new", "discover", "discover_unlock", "idle", "setup", "attach",
        "ready", "failed", "gone", "aborted"}

VARIABLES
    lock,       \* driver: the object holding each device's lock (memx_trylock)
    ctxOwner,   \* driver: the object that opened each context id (memx_open)
    faults,     \* driver calls that failed so far
    born,       \* objects constructed so far in each slot
    pc,         \* where each object is: constructor, connect_dfp phase, destroyed
    scanned,    \* devices get_available_devices has tried
    holding,    \* device locked by the discovery loop, about to be unlocked
    avail,      \* keys of available_mxa_device_map
    devOpen,    \* devices with is_device_open set
    openDevs,   \* open_devices
    config,     \* available_mxa_device_map[d].current_config
    attached,   \* available_mxa_device_map[d].contexts_ids_attached
    dfpCtx,     \* dfp_mxa_map[tag].context_ids_vector
    dfp,        \* the dfp being connected
    list,       \* device_ids_to_use
    idx,        \* loop index of setup_mxa and attach_dfp_to_device (1-based)
    actx,       \* context loop index inside attach_dfp_to_device
    setupOk,    \* setup_status
    err,        \* the exception connect_dfp ended with
    run,        \* MxAccl::run
    streams,    \* streams[p][m]: model m has a stream connected (num_streams_ > 0)
    preSet,     \* preSet[p][m]: connect_pre_model was called (pre_model_path set)
    mrun,       \* mrun[p][m]: model m's model_run
    handles,    \* handles[p][m]: model m's pre_model vector, "live" or "freed"
    postSet,    \* postSet[p][m]: connect_post_model was called (post_model_path_ set)
    posts,      \* posts[p][m]: model m's post_model vector
    pools,      \* pools[p][m]: input pools model_start created and no model_stop stopped
    starts      \* MxAccl::start calls on the object so far

allocVars == <<lock, ctxOwner, faults, born, pc, scanned, holding, avail,
               devOpen, openDevs, config, attached, dfpCtx, dfp, list, idx,
               actx, setupOk, err>>
facadeVars == <<run, streams, preSet, mrun, handles, postSet, posts, pools, starts>>
vars == <<allocVars, facadeVars>>
objVars == <<scanned, holding, avail, devOpen, openDevs, config, attached,
             dfpCtx, dfp, list, idx, actx, setupOk, err>>

CtxIds == 0..(CtxCeiling - 1)

(* The context ids reserved for a device: two per device id.               *)
ContextId(d, i) == d * 2 + i

(* Mutant: the context loop runs i <= number_of_contexts.                  *)
NumContextsInclusive(cfg, mg) == IF cfg = "FOUR" THEN 2 ELSE IF mg THEN 3 ELSE 2

(* Contexts opened per device: one under ONE_GROUP_FOUR, otherwise two if *)
(* the dfp uses multi-group load balancing.                                *)
NumContexts(cfg, mg) == IF cfg = "FOUR" THEN 1 ELSE IF mg THEN 2 ELSE 1

(* configure_device: the MPU group configuration chosen, or "mismatch"     *)
(* when it throws the chip exception.                                     *)
GroupConfig(dfpChips, devChips) ==
    CASE dfpChips > devChips                  -> "mismatch"
      [] dfpChips = 8 /\ devChips = 8         -> "EIGHT"
      [] dfpChips = 4                         -> "FOUR"
      [] dfpChips = 2                         -> "TWO"
      [] OTHER                                -> "mismatch"

FaultChoices == IF faults < MaxFaults THEN BOOLEAN ELSE {FALSE}

(* The models of a fresh MxAccl: no streams, no pre or post model, not    *)
(* running.                                                               *)
FacadeInit ==
    /\ run = [p \in Procs |-> FALSE]
    /\ streams = [p \in Procs |-> [m \in Models |-> FALSE]]
    /\ preSet = [p \in Procs |-> [m \in Models |-> FALSE]]
    /\ mrun = [p \in Procs |-> [m \in Models |-> FALSE]]
    /\ handles = [p \in Procs |-> [m \in Models |-> <<>>]]
    /\ postSet = [p \in Procs |-> [m \in Models |-> FALSE]]
    /\ posts = [p \in Procs |-> [m \in Models |-> <<>>]]
    /\ pools = [p \in Procs |-> [m \in Models |-> 0]]
    /\ starts = [p \in Procs |-> 0]

Init ==
    /\ lock = [d \in Devices |-> NoOwner]
    /\ ctxOwner = [c \in CtxIds |-> NoOwner]
    /\ faults = 0
    /\ born = [p \in Procs |-> 0]
    /\ pc = [p \in Procs |-> "new"]
    /\ scanned = [p \in Procs |-> {}]
    /\ holding = [p \in Procs |-> NoDevice]
    /\ avail = [p \in Procs |-> {}]
    /\ devOpen = [p \in Procs |-> {}]
    /\ openDevs = [p \in Procs |-> <<>>]
    /\ config = [p \in Procs |-> [d \in Devices |-> "FOUR"]]
    /\ attached = [p \in Procs |-> [d \in Devices |-> {}]]
    /\ dfpCtx = [p \in Procs |-> <<>>]
    /\ dfp = [p \in Procs |-> CHOOSE k \in Dfps : TRUE]
    /\ list = [p \in Procs |-> CHOOSE l \in DeviceLists : TRUE]
    /\ idx = [p \in Procs |-> 1]
    /\ actx = [p \in Procs |-> 0]
    /\ setupOk = [p \in Procs |-> FALSE]
    /\ err = [p \in Procs |-> "none"]
    /\ FacadeInit


(* The state of a freshly constructed object: MxAccl() and DeviceManager(). *)
Fresh(p) ==
    /\ scanned' = [scanned EXCEPT ![p] = {}]
    /\ holding' = [holding EXCEPT ![p] = NoDevice]
    /\ avail' = [avail EXCEPT ![p] = {}]
    /\ devOpen' = [devOpen EXCEPT ![p] = {}]
    /\ openDevs' = [openDevs EXCEPT ![p] = <<>>]
    /\ attached' = [attached EXCEPT ![p] = [d \in Devices |-> {}]]
    /\ dfpCtx' = [dfpCtx EXCEPT ![p] = <<>>]
    /\ setupOk' = [setupOk EXCEPT ![p] = FALSE]
    /\ err' = [err EXCEPT ![p] = "none"]
    /\ UNCHANGED <<config, dfp, list, idx, actx>>

(* What the destroyed object left held stays held, by nobody alive.       *)
Orphan(p, owner) == IF owner = p THEN Leaked ELSE owner

(* A new accelerator object is constructed, first or after the last one   *)
(* was destroyed; its constructor starts get_available_devices.           *)
Construct(p) ==
    /\ pc[p] \in {"new", "gone"}
    /\ born[p] < MaxObjects
    /\ born' = [born EXCEPT ![p] = @ + 1]
    /\ pc' = [pc EXCEPT ![p] = "discover"]
    /\ Fresh(p)
    /\ lock' = [d \in Devices |-> Orphan(p, lock[d])]
    /\ ctxOwner' = [c \in CtxIds |-> Orphan(p, ctxOwner[c])]
    /\ UNCHANGED faults

(* One iteration of the discovery loop, in ascending device id: a device  *)
(* whose memx_trylock fails is skipped; otherwise it enters the map with  *)
(* is_device_open false, no contexts and ONE_GROUP_FOUR, still locked.    *)
DiscoverTry(p) ==
    /\ pc[p] = "discover"
    /\ UNCHANGED born
    /\ scanned[p] # Devices
    /\ LET d == Min(Devices \ scanned[p]) IN
       IF lock[d] = NoOwner
       THEN /\ lock' = [lock EXCEPT ![d] = p]
            /\ holding' = [holding EXCEPT ![p] = d]
            /\ avail' = [avail EXCEPT ![p] = @ \cup {d}]
            /\ devOpen' = [devOpen EXCEPT ![p] = @ \ {d}]
            /\ attached' = [attached EXCEPT ![p][d] = {}]
            /\ config' = [config EXCEPT ![p][d] = "FOUR"]
            /\ pc' = [pc EXCEPT ![p] = "discover_unlock"]
            /\ UNCHANGED scanned
       ELSE /\ scanned' = [scanned EXCEPT ![p] = @ \cup {d}]
            /\ UNCHANGED <<lock, holding, avail, devOpen, attached, config, pc>>
    /\ UNCHANGED <<ctxOwner, faults, openDevs, dfpCtx, dfp, list, idx, actx,
                   setupOk, err>>

(* memx_unlock(d) at the end of a successful discovery iteration.          *)
DiscoverUnlock(p) ==
    /\ pc[p] = "discover_unlock"
    /\ UNCHANGED born
    /\ lock' = [lock EXCEPT ![holding[p]] = NoOwner]
    /\ scanned' = [scanned EXCEPT ![p] = @ \cup {holding[p]}]
    /\ holding' = [holding EXCEPT ![p] = NoDevice]
    /\ pc' = [pc EXCEPT ![p] = "discover"]
    /\ UNCHANGED <<ctxOwner, faults, avail, devOpen, openDevs, config, attached,
                   dfpCtx, dfp, list, idx, actx, setupOk, err>>

(* The loop has tried every device: the constructor returns.               *)
DiscoverDone(p) ==
    /\ pc[p] = "discover"
    /\ UNCHANGED born
    /\ scanned[p] = Devices
    /\ pc' = [pc EXCEPT ![p] = "idle"]
    /\ UNCHANGED <<lock, ctxOwner, faults>> /\ UNCHANGED objVars

(* opendfp: the dfp's metadata (chip count, multi-group flag) is read    *)
(* into dfp_mxa_map.                                                      *)
OpenDfp(p, k) == dfp' = [dfp EXCEPT ![p] = k]

(* connect_dfp ends with the exception e: the object stays as it is.        *)
Throw(p, e) ==
    /\ err' = [err EXCEPT ![p] = e]
    /\ pc' = [pc EXCEPT ![p] = "failed"]

(* connect_dfp with a non-empty device list: the dfp is opened; when the  *)
(* parse failed (get_dfp_validity false) it throws, otherwise setup_mxa   *)
(* begins.  A second connect_dfp on the same object throws before         *)
(* changing anything, so an object connects once.                         *)
ConnectDfp(p) ==
    /\ pc[p] = "idle"
    /\ UNCHANGED born
    /\ \E l \in DeviceLists, k \in Dfps :
          /\ list' = [list EXCEPT ![p] = l]
          /\ OpenDfp(p, k)
    /\ idx' = [idx EXCEPT ![p] = 1]
    /\ \/ /\ pc' = [pc EXCEPT ![p] = "setup"]
          /\ UNCHANGED err
       \/ Throw(p, "InvalidPackage")
    /\ UNCHANGED <<lock, ctxOwner, faults, scanned, holding, avail, devOpen,
                   openDevs, config, attached, dfpCtx, actx, setupOk>>

(* connect_device(d): memx_trylock (a failure throws, the lock not held);  *)
(* a device of more than four chips is refused to a dfp of four or fewer: *)
(* it is unlocked and false returned, and setup_mxa throws.  Otherwise     *)
(* configure_device either unlocks and throws the chip exception or       *)
(* applies the group configuration, whose status may fail; in both of the *)
(* latter cases the device is pushed on open_devices, marked open and     *)
(* stays locked, and a false status makes setup_mxa throw.                *)
ConnectDevice(p, d) ==
    LET g == GroupConfig(dfp[p].chips, Chips[d]) IN
    \/ /\ lock[d] # NoOwner
       /\ Throw(p, "LockFailed")
       /\ UNCHANGED <<lock, faults, devOpen, openDevs, config, idx>>
    \/ /\ lock[d] = NoOwner
       /\ Chips[d] > 4 /\ dfp[p].chips <= 4
       /\ Throw(p, "Refused")
       /\ UNCHANGED <<lock, faults, devOpen, openDevs, config, idx>>
    \/ /\ lock[d] = NoOwner
       /\ ~(Chips[d] > 4 /\ dfp[p].chips <= 4)
       /\ g = "mismatch"
       /\ Throw(p, "ChipMismatch")
       /\ UNCHANGED <<lock, faults, devOpen, openDevs, config, idx>>
    \/ /\ lock[d] = NoOwner
       /\ ~(Chips[d] > 4 /\ dfp[p].chips <= 4)
       /\ g # "mismatch"
       /\ lock' = [lock EXCEPT ![d] = p]
       /\ config' = [config EXCEPT ![p][d] = g]
       /\ openDevs' = [openDevs EXCEPT ![p] = Append(@, d)]
       /\ devOpen' = [devOpen EXCEPT ![p] = @ \cup {d}]
       /\ \E fail \in FaultChoices :
             IF fail
             THEN /\ faults' = faults + 1
                  /\ Throw(p, "ConfigFailed")
                  /\ UNCHANGED idx
             ELSE /\ idx' = [idx EXCEPT ![p] = @ + 1]
                  /\ UNCHANGED <<faults, pc, err>>

(* One iteration of setup_mxa: device d = list[idx] must be in the map and *)
(* not yet open, else the not-available exception; then connect_device.   *)
SetupStep(p) ==
    /\ pc[p] = "setup"
    /\ UNCHANGED born
    /\ idx[p] <= Len(list[p])
    /\ LET d == list[p][idx[p]] IN
       \/ /\ ~(d \in avail[p] /\ d \notin devOpen[p])
          /\ Throw(p, "Unavailable")
          /\ UNCHANGED <<lock, faults, devOpen, openDevs, config, idx>>
       \/ /\ d \in avail[p] /\ d \notin devOpen[p]
          /\ ConnectDevice(p, d)
    /\ UNCHANGED <<ctxOwner, scanned, holding, avail, attached, dfpCtx, dfp,
                   list, actx, setupOk>>

(* setup_mxa returns true and connect_dfp stores it in setup_status, then  *)
(* calls attach_dfp_to_device.                                             *)
SetupDone(p) ==
    /\ pc[p] = "setup"
    /\ UNCHANGED born
    /\ idx[p] > Len(list[p])
    /\ setupOk' = [setupOk EXCEPT ![p] = TRUE]
    /\ idx' = [idx EXCEPT ![p] = 1]
    /\ actx' = [actx EXCEPT ![p] = 0]
    /\ pc' = [pc EXCEPT ![p] = "attach"]
    /\ UNCHANGED <<lock, ctxOwner, faults, scanned, holding, avail, devOpen,
                   openDevs, config, attached, dfpCtx, dfp, list, err>>

(* Mutant: the context is recorded for the dfp but not for the device.   *)
RecordContextDfpOnly(p, d, id) ==
    /\ dfpCtx' = [dfpCtx EXCEPT ![p] = Append(@, id)]
    /\ UNCHANGED attached

(* attach_dfp_to_device records an opened context on both sides: the dfp's *)
(* context_ids_vector and the device's contexts_ids_attached.              *)
RecordContext(p, d, id) ==
    /\ dfpCtx' = [dfpCtx EXCEPT ![p] = Append(@, id)]
    /\ attached' = [attached EXCEPT ![p][d] = @ \cup {id}]

(* One context of attach_dfp_to_device for device d = open_devices[idx]:  *)
(* the id is device_id*2+i; an id of 32 or more throws, a failing memx_open *)
(* (the driver refuses an id already open) throws, otherwise the context  *)
(* is recorded.                                                            *)
AttachContext(p) ==
    /\ pc[p] = "attach"
    /\ UNCHANGED born
    /\ idx[p] <= Len(list[p])
    /\ LET d == openDevs[p][idx[p]]
           id == ContextId(d, actx[p])
       IN
       /\ actx[p] < NumContexts(config[p][d], dfp[p].mg)
       /\ \/ /\ id >= CtxCeiling
             /\ Throw(p, "ContextExhausted")
             /\ UNCHANGED <<ctxOwner, faults, dfpCtx, attached, actx>>
          \/ /\ id < CtxCeiling
             /\ ctxOwner[id] = NoOwner
             /\ ctxOwner' = [ctxOwner EXCEPT ![id] = p]
             /\ RecordContext(p, d, id)
             /\ actx' = [actx EXCEPT ![p] = @ + 1]
             /\ UNCHANGED <<faults, pc, err>>
          \/ /\ id < CtxCeiling
             /\ ctxOwner[id] # NoOwner \/ faults < MaxFaults
             /\ faults' = IF ctxOwner[id] = NoOwner THEN faults + 1 ELSE faults
             /\ Throw(p, "OpenFailed")
             /\ UNCHANGED <<ctxOwner, dfpCtx, attached, actx>>
    /\ UNCHANGED <<lock, scanned, holding, avail, devOpen, openDevs, config,
                   dfp, list, idx, setupOk>>

(* The device's contexts are open: memx_operation_get_mpu_group_count,    *)
(* whose failing status throws, and the next device of the loop over      *)
(* required_devices.                                                       *)
AttachNextDevice(p) ==
    /\ pc[p] = "attach"
    /\ UNCHANGED born
    /\ idx[p] <= Len(list[p])
    /\ LET d == openDevs[p][idx[p]] IN
       actx[p] = NumContexts(config[p][d], dfp[p].mg)
    /\ \E fail \in FaultChoices :
          IF fail
          THEN /\ faults' = faults + 1
               /\ Throw(p, "GroupCountFailed")
               /\ UNCHANGED <<idx, actx>>
          ELSE /\ idx' = [idx EXCEPT ![p] = @ + 1]
               /\ actx' = [actx EXCEPT ![p] = 0]
               /\ UNCHANGED <<faults, pc, err>>
    /\ UNCHANGED <<lock, ctxOwner, scanned, holding, avail, devOpen,
                   openDevs, config, attached, dfpCtx, dfp, list, setupOk>>

(* download_dfp_to_device over context_ids_vector, then init_mx_models:    *)
(* any failing download or stream enable throws DownloadFailed.            *)
Download(p) ==
    /\ pc[p] = "attach"
    /\ UNCHANGED born
    /\ idx[p] > Len(list[p])
    /\ \E fail \in FaultChoices :
          IF fail
          THEN /\ faults' = faults + 1
               /\ Throw(p, "DownloadFailed")
          ELSE /\ pc' = [pc EXCEPT ![p] = "ready"]
               /\ UNCHANGED <<faults, err>>
    /\ UNCHANGED <<lock, ctxOwner, scanned, holding, avail, devOpen, openDevs,
                   config, attached, dfpCtx, dfp, list, idx, actx, setupOk>>

-----------------------------------------------------------------------------
(* The MxAccl facade over the models init_mx_models created: each model   *)
(* keeps its own model_run, streams and pre_model vector (MxModel.cpp);    *)
(* one stream per model is enough to reach every branch.                  *)
FacadeReady(p) == pc[p] = "ready" /\ Facade[p] = "MxAccl"

(* MxAccl::connect_stream -> MxModel::connect_stream: a model already      *)
(* running throws logic_error; otherwise the stream is registered.        *)
ConnectStream(p, m) ==
    /\ FacadeReady(p)
    /\ ~mrun[p][m] /\ ~streams[p][m]
    /\ streams' = [streams EXCEPT ![p][m] = TRUE]
    /\ UNCHANGED allocVars
    /\ UNCHANGED <<run, preSet, mrun, handles, postSet, posts, pools, starts>>

(* MxAccl::connect_pre_model -> model_set_pre: sets pre_model_path with no *)
(* check of model_run (a second call changes nothing modelled here).      *)
ConnectPreModel(p, m) ==
    /\ FacadeReady(p)
    /\ ~preSet[p][m]
    /\ preSet' = [preSet EXCEPT ![p][m] = TRUE]
    /\ UNCHANGED allocVars
    /\ UNCHANGED <<run, streams, mrun, handles, postSet, posts, pools, starts>>

(* MxAccl::connect_post_model -> model_set_post: sets post_model_path_     *)
(* first, with no check of model_run; its throw for a dynamic output with *)
(* no size list comes after that, so the path is set either way.          *)
ConnectPostModel(p, m) ==
    /\ FacadeReady(p)
    /\ ~postSet[p][m]
    /\ postSet' = [postSet EXCEPT ![p][m] = TRUE]
    /\ UNCHANGED allocVars
    /\ UNCHANGED <<run, streams, preSet, mrun, handles, posts, pools, starts>>

(* create_and_append_in_fm for one stream: with pre_model_path set it     *)
(* pushes a new adapter onto pre_model (and its pre featuremaps).         *)
AppendInFm(h, pre) == IF pre THEN Append(h, "live") ELSE h

(* create_and_append_out_fm for one stream: with post_model_path_ set it  *)
(* pushes a new adapter onto post_model (and its post featuremaps).       *)
AppendOutFm(h, post) == IF post THEN Append(h, "live") ELSE h

(* model_start on every model with a stream, running or not: with a pre   *)
(* model its own loop pushes one adapter per stream onto pre_model (the   *)
(* check of pre_model[n] reads the oldest entry), then each stream's      *)
(* create_and_append_in_fm and create_and_append_out_fm run.  A new      *)
(* input_pool replaces the pointer to any earlier one; model_run is set.  *)
StartedAt(p) ==
    LET S == {m \in Models : streams[p][m]} IN
    [mrun |-> [m \in Models |-> mrun[p][m] \/ m \in S],
     handles |-> [m \in Models |->
                    IF m \in S
                    THEN AppendInFm(AppendInFm(handles[p][m], preSet[p][m]), preSet[p][m])
                    ELSE handles[p][m]],
     posts |-> [m \in Models |->
                  IF m \in S THEN AppendOutFm(posts[p][m], postSet[p][m]) ELSE posts[p][m]],
     pools |-> [m \in Models |-> IF m \in S THEN pools[p][m] + 1 ELSE pools[p][m]]]

(* MxAccl::get_num_streams: the streams of all models, one per model with *)
(* a stream here.                                                          *)
NumStreams(p) == Cardinality({m \in Models : streams[p][m]})

(* MxAccl::start: with no stream on any model it throws logic_error;      *)
(* otherwise run is set and the models with a stream are started.         *)
Start(p) ==
    /\ FacadeReady(p)
    /\ starts[p] < MaxStarts
    /\ NumStreams(p) # 0
    /\ run' = [run EXCEPT ![p] = TRUE]
    /\ starts' = [starts EXCEPT ![p] = @ + 1]
    /\ LET s == StartedAt(p) IN
       /\ mrun' = [mrun EXCEPT ![p] = s.mrun]
       /\ handles' = [handles EXCEPT ![p] = s.handles]
       /\ posts' = [posts EXCEPT ![p] = s.posts]
       /\ pools' = [pools EXCEPT ![p] = s.pools]
    /\ UNCHANGED allocVars
    /\ UNCHANGED <<streams, preSet, postSet>>

(* model_stop on the models in done: the current input_pool stopped and   *)
(* deleted, model_run cleared, and pre_model[0] and post_model[0] deleted *)
(* (j < num_streams_; the vectors themselves are not cleared); ok: the    *)
(* loop of stop() completed.                                              *)
StoppedAt(p, done, ok) ==
    [ok |-> ok,
     mrun |-> [m \in Models |-> IF m \in done THEN FALSE ELSE mrun[p][m]],
     handles |-> [m \in Models |->
                    IF m \in done /\ preSet[p][m]
                    THEN [handles[p][m] EXCEPT ![1] = "freed"]
                    ELSE handles[p][m]],
     posts |-> [m \in Models |->
                  IF m \in done /\ postSet[p][m]
                  THEN [posts[p][m] EXCEPT ![1] = "freed"]
                  ELSE posts[p][m]],
     pools |-> [m \in Models |-> IF m \in done THEN pools[p][m] - 1 ELSE pools[p][m]]]

(* Mutant: the stop loop runs i < num_models - 1 and misses the last model. *)
StopModelsSkipLast(p) ==
    LET S   == {m \in Models : streams[p][m]}
        bad == {m \in S : ~mrun[p][m]}
        done == IF bad = {} THEN {m \in S : m < Max(Models)} ELSE {m \in S : m < Min(bad)}
    IN  StoppedAt(p, done, bad = {})

(* The loop of MxAccl::stop: model_stop on every model with a stream in    *)
(* index order; the first that is not running throws logic_error and     *)
(* ends the loop.                                                           *)
StopModels(p) ==
    LET S   == {m \in Models : streams[p][m]}
        bad == {m \in S : ~mrun[p][m]}
        done == IF bad = {} THEN S ELSE {m \in S : m < Min(bad)}
    IN  StoppedAt(p, done, bad = {})

(* The models' state after the stop loop s.                               *)
StopApplied(p, s) ==
    /\ mrun' = [mrun EXCEPT ![p] = s.mrun]
    /\ handles' = [handles EXCEPT ![p] = s.handles]
    /\ posts' = [posts EXCEPT ![p] = s.posts]
    /\ pools' = [pools EXCEPT ![p] = s.pools]

(* MxAccl::stop when run is set: the loop, then run cleared; when the loop *)
(* throws, run stays set.  With run clear stop does nothing.              *)
Stop(p) ==
    /\ FacadeReady(p)
    /\ run[p]
    /\ StopApplied(p, StopModels(p))
    /\ run' = [run EXCEPT ![p] = ~StopModels(p).ok]
    /\ UNCHANGED allocVars
    /\ UNCHANGED <<streams, preSet, postSet, starts>>

(* ~MxAccl with run set calls stop(); when its loop throws, the exception  *)
(* leaves the (noexcept) destructor and std::terminate ends the process:  *)
(* nothing after it runs, so the devices are never closed.                *)
DestroyAborts(p) ==
    /\ pc[p] = "ready"
    /\ run[p]
    /\ ~StopModels(p).ok
    /\ StopApplied(p, StopModels(p))
    /\ pc' = [pc EXCEPT ![p] = "aborted"]
    /\ UNCHANGED <<lock, ctxOwner, faults, born, scanned, holding, avail,
                   devOpen, openDevs, config, attached, dfpCtx, dfp, list, idx,
                   actx, setupOk, err, run, streams, preSet, postSet, starts>>

(* Mutant: the close loop stops one device short.                        *)
CloseSetSkipLast(p) == {openDevs[p][i] : i \in 1..(Len(openDevs[p]) - 1)}

(* The devices close_all_devices walks: every entry of open_devices.       *)
CloseSet(p) == {openDevs[p][i] : i \in 1..Len(openDevs[p])}

(* Whether the destructor tears the allocator down: ~MxAccl only when both *)
(* dfp_valid and setup_status are set, ~MxAcclMT always.                    *)
TearsDown(p) == Facade[p] = "MxAcclMT" \/ setupOk[p]

(* connect_dfp threw after setup_mxa returned true (in attach or         *)
(* download), before init_mx_models filled models: setup_status is set    *)
(* and models is empty.                                                    *)
ModelsMissing(p) == pc[p] = "failed" /\ setupOk[p]

(* The destructor (~MxAccl and ~MxAcclMT alike) with dfp_valid and         *)
(* setup_status set deletes models[i] for i < num_models: on the empty     *)
(* vector models[0] reads through its null data pointer, and the process *)
(* dies (SIGSEGV, or the assertion of a checked build) before             *)
(* cleanup__all_dfps and close_all_devices run.                            *)
DestroyCrashes(p) ==
    /\ ModelsMissing(p)
    /\ pc' = [pc EXCEPT ![p] = "aborted"]
    /\ UNCHANGED <<lock, ctxOwner, faults, born, scanned, holding, avail,
                   devOpen, openDevs, config, attached, dfpCtx, dfp, list, idx,
                   actx, setupOk, err>>
    /\ UNCHANGED facadeVars

(* The destructor's part for the models: stop() if run is set, here when   *)
(* its loop completes, then every model deleted, which needs the models   *)
(* init_mx_models created.                                                 *)
ModelsDeleted(p) ==
    /\ ~ModelsMissing(p)
    /\ run[p] => StopModels(p).ok
    /\ run' = [run EXCEPT ![p] = FALSE]
    /\ streams' = [streams EXCEPT ![p] = [m \in Models |-> FALSE]]
    /\ preSet' = [preSet EXCEPT ![p] = [m \in Models |-> FALSE]]
    /\ postSet' = [postSet EXCEPT ![p] = [m \in Models |-> FALSE]]
    /\ mrun' = [mrun EXCEPT ![p] = [m \in Models |-> FALSE]]
    /\ handles' = [handles EXCEPT ![p] = [m \in Models |-> <<>>]]
    /\ posts' = [posts EXCEPT ![p] = [m \in Models |-> <<>>]]
    /\ pools' = [pools EXCEPT ![p] = [m \in Models |-> 0]]
    /\ starts' = [starts EXCEPT ![p] = 0]

(* The destructor: the models deleted, then cleanup__all_dfps and          *)
(* close_all_devices close every context in contexts_ids_attached of      *)
(* every open device and unlock it.                                       *)
Destroy(p) ==
    /\ pc[p] \in {"idle", "ready", "failed"}
    /\ UNCHANGED born
    /\ ModelsDeleted(p)
    /\ IF TearsDown(p)
       THEN LET closed == UNION {attached[p][d] : d \in CloseSet(p)} IN
            /\ ctxOwner' = [c \in CtxIds |-> IF c \in closed THEN NoOwner ELSE ctxOwner[c]]
            /\ lock' = [d \in Devices |-> IF d \in CloseSet(p) THEN NoOwner ELSE lock[d]]
            /\ openDevs' = [openDevs EXCEPT ![p] = <<>>]
            /\ attached' = [attached EXCEPT ![p] = [d \in Devices |-> {}]]
            /\ dfpCtx' = [dfpCtx EXCEPT ![p] = <<>>]
            /\ avail' = [avail EXCEPT ![p] = {}]
       ELSE UNCHANGED <<ctxOwner, lock, openDevs, attached, dfpCtx, avail>>
    /\ pc' = [pc EXCEPT ![p] = "gone"]
    /\ UNCHANGED <<faults, scanned, holding, devOpen, config, dfp, list, idx,
                   actx, setupOk, err>>

(* The destructor when a driver call of close_all_devices fails: the walk *)
(* has closed and unlocked the devices before open_devices[k] and closed  *)
(* the first cut contexts of open_devices[k]; then memx_close of the next *)
(* context fails, or with every context closed memx_unlock fails, and     *)
(* the runtime_error leaves the destructor: std::terminate.  The failed   *)
(* context stays open and the device locked.                              *)
DestroyCloseFails(p) ==
    /\ pc[p] \in {"idle", "ready", "failed"}
    /\ TearsDown(p)
    /\ faults < MaxFaults
    /\ ModelsDeleted(p)
    /\ \E k \in 1..Len(openDevs[p]) :
       LET d == openDevs[p][k]
           done == {openDevs[p][i] : i \in 1..(k - 1)}
       IN  \E cut \in 0..Cardinality(attached[p][d]) :
           LET closed == UNION {attached[p][e] : e \in done}
                         \cup {c \in attached[p][d] : c < ContextId(d, cut)}
           IN  /\ ctxOwner' = [c \in CtxIds |-> IF c \in closed THEN NoOwner ELSE ctxOwner[c]]
               /\ lock' = [e \in Devices |-> IF e \in done THEN NoOwner ELSE lock[e]]
    /\ dfpCtx' = [dfpCtx EXCEPT ![p] = <<>>]
    /\ faults' = faults + 1
    /\ pc' = [pc EXCEPT ![p] = "aborted"]
    /\ UNCHANGED <<born, scanned, holding, avail, devOpen, openDevs, config,
                   attached, dfp, list, idx, actx, setupOk, err>>

Proc(p) ==
    \/ /\ \/ Construct(p) \/ DiscoverTry(p) \/ DiscoverUnlock(p)
          \/ DiscoverDone(p) \/ ConnectDfp(p) \/ SetupStep(p) \/ SetupDone(p)
          \/ AttachContext(p) \/ AttachNextDevice(p) \/ Download(p)
       /\ UNCHANGED facadeVars
    \/ Destroy(p) \/ DestroyAborts(p) \/ DestroyCloseFails(p) \/ DestroyCrashes(p)
    \/ Start(p) \/ Stop(p)
    \/ \E m \in Models : ConnectStream(p, m)
    \/ \E m \in PreModels : ConnectPreModel(p, m)
    \/ \E m \in PostModels : ConnectPostModel(p, m)

(* Every object has been destroyed and no more are constructed, or its     *)
(* process was terminated: the program has ended.                          *)
Terminated ==
    /\ \A p \in Procs : (pc[p] = "gone" /\ born[p] = MaxObjects) \/ pc[p] = "aborted"
    /\ UNCHANGED vars

Next == (\E p \in Procs : Proc(p)) \/ Terminated

Spec == Init /\ [][Next]_vars

-----------------------------------------------------------------------------
(* The devices whose lock p holds and the contexts p has open.             *)
LocksOf(p) == {d \in Devices : lock[d] = p}
ContextsOf(p) == {c \in CtxIds : ctxOwner[c] = p}
OpenContexts == {c \in CtxIds : ctxOwner[c] # NoOwner}

(* Every variable keeps the shape the code's fields have.                  *)
TypeOK ==
    /\ lock \in [Devices -> Procs \cup {NoOwner, Leaked}]
    /\ ctxOwner \in [CtxIds -> Procs \cup {NoOwner, Leaked}]
    /\ faults \in 0..MaxFaults
    /\ born \in [Procs -> 0..MaxObjects]
    /\ pc \in [Procs -> PCs]
    /\ \A p \in Procs :
          /\ scanned[p] \cup avail[p] \cup devOpen[p] \subseteq Devices
          /\ holding[p] \in Devices \cup {NoDevice}
          /\ openDevs[p] \in Seq(Devices)
          /\ config[p] \in [Devices -> Configs]
          /\ attached[p] \in [Devices -> SUBSET CtxIds]
          /\ dfpCtx[p] \in Seq(CtxIds)
          /\ dfp[p] \in Dfps /\ list[p] \in DeviceLists
          /\ actx[p] \in 0..2 /\ err[p] \in Errors
    /\ run \in [Procs -> BOOLEAN] /\ starts \in [Procs -> 0..MaxStarts]
    /\ streams \in [Procs -> [Models -> BOOLEAN]]
    /\ preSet \in [Procs -> [Models -> BOOLEAN]]
    /\ mrun \in [Procs -> [Models -> BOOLEAN]]
    /\ handles \in [Procs -> [Models -> Seq({"live", "freed"})]]
    /\ postSet \in [Procs -> [Models -> BOOLEAN]]
    /\ posts \in [Procs -> [Models -> Seq({"live", "freed"})]]
    /\ pools \in [Procs -> [Models -> 0..MaxStarts]]

(* A context the driver has open belongs to the object that holds the lock *)
(* of its device (id div 2): close_all_devices closes every context        *)
(* attach_dfp_to_device opened before it unlocks the device, whichever    *)
(* step of connect_dfp failed.                                            *)
OpenContextOnOwnedDevice ==
    \A c \in OpenContexts : lock[c \div 2] = ctxOwner[c]

(* When a destructor has returned after close_all_devices (~MxAcclMT      *)
(* always, ~MxAccl only after setup_mxa returned true), the object leaves  *)
(* no device locked and no context open: after a connect_dfp that          *)
(* succeeded and a stop, or after a setup_mxa that threw with devices      *)
(* already locked and configured on open_devices.  (After an attach or    *)
(* download failure neither destructor gets that far: DestroyCrashes.)    *)
ReleasedOnTeardown ==
    \A p \in Procs :
       pc[p] = "gone" /\ (Facade[p] = "MxAcclMT" \/ setupOk[p])
          => LocksOf(p) = {} /\ ContextsOf(p) = {}

(* spec 4.1: a failure on any device of the list aborts the admission and *)
(* commits nothing, so a connect_dfp that threw inside setup_mxa holds no  *)
(* device lock.                                                            *)
AdmissionRollsBack ==
    \A p \in Procs : pc[p] = "failed" /\ ~setupOk[p] => LocksOf(p) = {}

(* A destroyed accelerator object holds no device lock and no context, so *)
(* the devices can be locked again by the next object.                    *)
NoLockLeak ==
    \A p \in Procs : pc[p] = "gone" => LocksOf(p) = {} /\ ContextsOf(p) = {}

(* spec 4.1 and 8: admission fails with ChipMismatch only when the device *)
(* has fewer chips than the dfp requires.                                  *)
AdmissionFailsOnlyOnShortfall ==
    \A p \in Procs :
       err[p] \in {"ChipMismatch", "Refused"}
          => Chips[list[p][idx[p]]] < dfp[p].chips

(* spec 8: attach fails with ContextExhausted only on the attempt that     *)
(* would cross the ceiling of CtxCeiling open contexts, not before.       *)
CeilingOnlyWhenFull ==
    \A p \in Procs :
       err[p] = "ContextExhausted" => Cardinality(OpenContexts) >= CtxCeiling

(* spec 4.1 and 8: connect_dfp fails only for the spec's reasons and as    *)
(* the spec says: a rejected admission holds no lock, ChipMismatch means a *)
(* shortfall of chips, and ContextExhausted means the ceiling was reached. *)
AdmissionAsSpecified ==
    AdmissionRollsBack /\ AdmissionFailsOnlyOnShortfall /\ CeilingOnlyWhenFull

(* A model's send and receive threads run only while the facade's run     *)
(* flag is set and every context of its dfp is still open by the object:  *)
(* MxAccl::stop clears run only once model_stop completed on every model   *)
(* with a stream, and ~MxAccl closes the contexts only after that stop.   *)
RunningModelsHoldContexts ==
    \A p \in Procs, m \in Models :
       mrun[p][m] =>
          /\ run[p]
          /\ {dfpCtx[p][i] : i \in DOMAIN dfpCtx[p]} \subseteq ContextsOf(p)

(* spec 4.1, 4.3 and 7: the facade's teardown forces every running model  *)
(* to STOPPED and then cleans up, from any state, and teardown is safe     *)
(* even if attachment partially failed, so the destructor always returns.  *)
(* It must not end in std::terminate because stop() threw on a model with  *)
(* a stream that was not running, nor crash deleting the models of a       *)
(* connect_dfp whose attach or download threw.                             *)
TeardownCompletes == \A p \in Procs : pc[p] # "aborted"

(* spec 4.3 and 7: Start allocates the plugin adapters a run uses and Stop *)
(* frees them, and a stop and restart is the remedy the spec names, so a   *)
(* running model runs its stream on a live pre_model[0] and a live        *)
(* post_model[0] (the adapters _pre_copy and the post step index).        *)
AdaptersLiveWhileRunning ==
    \A p \in Procs, m \in Models :
       mrun[p][m] =>
          /\ preSet[p][m] => handles[p][m] # <<>> /\ handles[p][m][1] = "live"
          /\ postSet[p][m] => posts[p][m] # <<>> /\ posts[p][m][1] = "live"

(* spec 4.3 (Start is CONFIGURED -> RUNNING, AlreadyRunning otherwise;      *)
(* Stop stops the input pool and frees every plugin adapter allocated at  *)
(* start): a model that is not running has no input pool left running and *)
(* no live pre or post adapter, whatever sequence of MxAccl::start and     *)
(* stop calls led there.                                                   *)
StopReleasesStartResources ==
    \A p \in Procs, m \in Models :
       ~mrun[p][m] =>
          /\ pools[p][m] = 0
          /\ \A i \in DOMAIN handles[p][m] : handles[p][m][i] = "freed"
          /\ \A i \in DOMAIN posts[p][m] : posts[p][m][i] = "freed"

(* spec 4.1, 4.3 and 7, over an object's whole life: connect_dfp admits or *)
(* refuses as the spec says, start/stop/restart keep the models' adapters *)
(* live and release what a start allocated, the destructor returns, and   *)
(* the destroyed object leaves no device locked and no context open.       *)
DeviceLifecycleAsSpecified ==
    /\ AdmissionAsSpecified /\ NoLockLeak
    /\ TeardownCompletes /\ AdaptersLiveWhileRunning
    /\ StopReleasesStartResources

====
