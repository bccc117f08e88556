# TLA+ models of MxAccl

These modules model the MemryX accelerator runtime under `src/mx_accl`: the
threads, queues, flags and condition variables that move frames between user
callbacks and the MXA contexts, the device allocator, and the conversion of a
frame between the application's floats and the device's formats (bf16 and the
GBF80 block-float codec), and the loading of a compiled-model container (dfp) through the mxpack decoder. They are checked with TLC. `PROJECT.json` lists each component, each TLC run, the mutants that show
each property can fail, the source lines every definition models, the
findings, and the hazards of the code.

## The system

| Part | Source | What it does |
|---|---|---|
| `MxAccl` | `src/MxAccl.cpp` | Facade for callback mode: `connect_dfp`, `connect_stream`, `start`, `wait`, `stop` over one or more models |
| `MxAcclMT` | `src/MxAcclMT.cpp` | Facade for manual mode: `send_input` / `receive_output` from user threads |
| `DeviceManager` | `src/DeviceManager.cpp` | Discovers, locks and configures devices, opens contexts (`device_id*2+i`), downloads the dfp, closes everything |
| `MxModel<T>` | `src/MxModel.cpp` | One model: the per-stream FeatureMaps, the send thread, the receive thread, the input and output thread pools (auto mode), and the manual send/receive path |
| `thread_pool` | `include/.../thread_pool.hpp` | Fixed workers over a bounded `sync_queue`. Continuous tasks are re-queued while `execute()` returns true; one-shot tasks run once |
| `FeatureMap` | `src/utils/featureMap.cpp` | Per-stream, per-port buffers with the `in_ready` / `out_ready` hand-over flags; `set_data` / `get_data` convert a frame to and from the port's device format |
| gbf | `include/.../utils/gbf.h` | `gbf_encode` / `gbf_decode`: groups of 8 floats as 80 bits, one shared exponent and 8-bit mantissas |
| mxpack | `src/utils/mxpack.cpp` | Decodes the dfp v6 metadata: a binary dict of typed values, lists and nested dicts |
| dfp | `src/dfp.cpp` | `DfpObject`: loads a compiled-model container (v6: mxpack metadata; v5: a fixed binary layout) into `DfpMeta` and the port arrays that `DeviceManager` and `MxModel` read |
| prepost / path | `src/utils/*`, `src/prepost.cpp` | Pre/post adapters (plugins loaded by file extension) that `model_start` creates per stream and `model_stop` deletes; path helpers |
| MXA driver | outside the repository | `memx_stream_ifmap` / `memx_stream_ofmap` per context and port |

The flow of one frame in auto mode: input pool worker → the stream's input callback writes the
input FeatureMap, clears `in_ready` and pushes the stream on `stream_queue` →
send thread → `memx_stream_ifmap` on every port of the context under the rotation cursor. On
success the send thread sets `in_ready`, pushes `<stream, context>` on the pair queue and
notifies the receive thread → receive thread waits for `out_ready` of the stream, then
`memx_stream_ofmap` → clears `out_ready` and submits a one-shot `outputTask` →
output pool worker → the output callback, then `out_ready` is set again. `model_stop` stops the
input pool, clears `model_run`, joins the send thread, clears `model_recv_run`, joins the
receive thread, waits until every `out_ready` is set, stops the output pool, and flushes
the contexts.

## Modules

### `MxModelAuto` (`MC_MxModelAuto` for TLC)

This module models callback mode of one `MxModel` from `model_start` to the return of `model_stop`.

* **State.** There is one variable per field or queue of the code: `modelRun`,
  `recvRun`, `inReady`, `outReady`, `sq` (`stream_queue`), `pairq`
  (`pair_stream_context_queue`), `taskFlag` / `recvFlag` (the two
  condition-variable flags), `cursor` (`context_send_current_index`), and `iq`,
  `iworker`, `istop`, `idone`, `oq`, `oworker`, `ostop` for the two pools. `hin`
  and `hout` are the driver's per-context FIFOs. `spc`, `rpc` and `ctl` are the
  program counters of the send thread, the receive thread and the caller.
* **History variables.** `produced`, `sent`, `delivered`, `dropped` and
  `flushed` record what happened, for the properties to state.
* **Data.** A frame is `<<stream, k>>`. A result is the function from input
  ports to the frame that port consumed, so a result mixed from two frames is
  visible.
* **Actions.** There is one action per step of each thread:
  * input pool: `InCheck`, `InPop`, `InExec` (the whole `inputTask` plus the
    worker's re-push or retirement);
  * send thread: `SendLoop`, `SendCheck`, `SendBlock`, `SendAttempt` (one pass
    of the retry loop over all ports);
  * driver: `HwCompute`;
  * receive thread: `RecvLoop`, `RecvCheck`, `RecvBlock`, `RecvOutWait`,
    `RecvRead`;
  * output pool: `OutCheck`, `OutPop`, `OutExec`;
  * caller: `Wait`, `WaitReturn`, `StopBegin`, `StopInJoin`, `StopSendJoin`,
    `StopRecvJoin`, `StopOutDrain`, `StopOutJoin`, `Stopped`.
* **Condition variables.** A predicate wait is a check step (`SendCheck`,
  `RecvCheck`) followed by blocking. With `NotifyRace = TRUE`, the thread sits
  in `block` between the two, still holding the mutex. A notify made under the
  mutex (`InExec`, `SendAttempt`) cannot happen then. A notify made without it
  (`StopInJoin`, `StopSendJoin`, the send thread's exit) uses `Wake`, which only
  wakes a thread already `waiting`, so it can be lost.
* **Constants.** The constants are the code's own parameters: streams,
  contexts, input ports, requested workers, cores and models. The bounds are
  `MaxFrames` (frames per input callback) and `SendFailures` (failed port sends
  in one behaviour).
* **Uninitialised flag.** `model_recv_flag` is never initialised in the code,
  so `Init` lets it start TRUE or FALSE.

### `DeviceManager` (`MC_DeviceManager` for TLC)

This module models device admission and teardown as several accelerator
objects see it. Each object in `Procs` is an `MxAccl` or an `MxAcclMT`, given by
`Facade`. Each owns a `DeviceManager`, and they share the driver's device locks
and contexts. A slot of `Procs` holds up to `MaxObjects` objects, one after
another, so a later object sees what an earlier one left behind.

* **Driver state.** `lock[d]` is the object holding `memx_trylock(d)`, and
  `ctxOwner[c]` is the object that opened context `c`. When an object is
  destroyed, what it still holds passes to `Leaked`: a lock whose owner no longer
  exists.
* **Allocator state.** These variables are `DeviceManager`'s fields: `avail`
  (the keys of `available_mxa_device_map`), `devOpen` (`is_device_open`),
  `openDevs` (`open_devices`), `config` (`current_config`), `attached`
  (`contexts_ids_attached`) and `dfpCtx` (`context_ids_vector`). `setupOk` is
  `setup_status`, and `err` is the exception `connect_dfp` ended with.
* **Actions.** There is one action per loop iteration of the code:
  * `Construct`: the constructors;
  * `DiscoverTry` and `DiscoverUnlock`: `get_available_devices`, one device
    at a time;
  * `ConnectDfp`: `connect_dfp`, with the dfp metadata chosen from `Dfps`.
    `get_dfp_validity` may reject the dfp, which throws `InvalidPackage`;
  * `SetupStep`: one device of `setup_mxa`, with `ConnectDevice` and
    `GroupConfig` for `connect_device` and `configure_device`;
  * `SetupDone`;
  * `AttachContext` and `AttachNextDevice`: `attach_dfp_to_device`, one
    context at a time, with ids `device_id*2+i` and the 32-id ceiling.
    A failing `memx_get_mpu_group_count` throws `GroupCountFailed`, which
    uses up a fault of the budget;
  * `Download`;
  * `Destroy`: the destructor, `cleanup__all_dfps` and `close_all_devices`.
    It runs only when `TearsDown`, which is always for `MxAcclMT` and needs
    `setup_status` for `MxAccl`;
  * `DestroyCloseFails`: the same destructor when a `memx_close` or
    `memx_unlock` of `close_all_devices` fails (a fault of the `MaxFaults`
    budget). The walk has closed and unlocked the devices before the
    failing one and closed some of its contexts. The `runtime_error`
    leaves the destructor (`std::terminate`), so the rest stays locked and
    open and the object is `"aborted"`;
  * `DestroyCrashes`: the destructor after `attach_dfp_to_device` or
    `download_dfp_to_device` threw (`ModelsMissing`). `setup_status` is
    set, but `init_mx_models` never ran, so `models` is empty. Both
    destructors still loop to `get_dfp_num_models` and `delete models[i]`
    (MxAccl.cpp:174-180, MxAcclMT.cpp:108-113). On an empty vector that
    reads through a null data pointer. The process dies with a SIGSEGV, or
    an assertion in a checked build, before `close_all_devices`, so the
    object is `"aborted"` with its locks and contexts as they were.
    `Destroy` and `DestroyCloseFails` need `~ModelsMissing`.
* **The `MxAccl` facade over its models.** Once `connect_dfp` has created
  the models (`FacadeReady`), the object's `run` flag and, for each model in
  `Models`, `streams` (a stream is connected), `preSet` and `postSet`
  (`connect_pre_model` / `connect_post_model` was called), `mrun`
  (`model_run`), `handles` and `posts` (the `pre_model` and `post_model`
  vectors, each entry `"live"` or `"freed"`) and `pools` (input pools
  `model_start` created that no `model_stop` stopped) follow the code:
  * `ConnectStream`, `ConnectPreModel` and `ConnectPostModel`:
    `MxModel::connect_stream`, which throws on a running model, and
    `model_set_pre` / `model_set_post`, which do not check (`model_set_post`
    sets the path before its one throw, so the path is set either way);
  * `Start`: `MxAccl::start`, with `StartedAt` for `model_start` on every
    model with a stream, running or not. Per stream it appends two pre
    adapters, one from its own loop and one from `create_and_append_in_fm`
    (`AppendInFm`), and one post adapter (`AppendOutFm`). It also makes one
    more input pool;
  * `Stop`: `MxAccl::stop`, with `StopModels`: `model_stop` in index order,
    where the first model with a stream that is not running throws and ends
    the loop with `run` still set, and `StoppedAt` for what `model_stop`
    clears and frees: the newest pool, `pre_model[0]` and `post_model[0]`,
    left in their vectors;
  * `Destroy` runs `stop()` first when `run` is set and deletes the models
    (`ModelsDeleted`). When that loop throws, `DestroyAborts` takes the
    object to `"aborted"` instead, because an exception leaving the
    destructor is `std::terminate`.
  `wait()` changes no state (its completion is `WaitReturns` of
  `MxModelAuto`). One stream per model reaches every branch, because the
  loops only ask whether a model has one. The threads and pools of a running
  model are `MxModelAuto`'s business.
* **Driver failures.** A failed `memx_config_mpu_group`, `memx_open` or
  `memx_download_model` is a nondeterministic choice, at most `MaxFaults` per
  behaviour. Opening a context id that is already open fails too.
* **Devices.** `Devices = {0, 16}`: device 0 has 4 chips, and device 16 (8
  chips) is the first id whose contexts fall past 32. The ids in between exist
  but are held by other programs, so discovery skips them.

### `MxModelManual` (`MC_MxModelManual` for TLC)

This module models manual mode of one model as `MxAcclMT` drives it. Each stream
in `Streams` has a caller thread that sends (`send_input` →
`model_manual_send`) and one that receives (`receive_output` →
`model_manual_receive`), up to `MaxFrames` frames each. The receive thread runs
`model_manual_recv_fun`, and `~MxModel` calls `model_manual_stop`.

* **State.** `run` is `model_manual_run`, `inDone` is `model_manual_in_done`,
  `cursor` is `context_send_current_index`, and `pairq` is
  `pair_stream_context_queue`. `smap` holds the keys of `stream_id_map_`.
  `outReady[s]` and `outBuf[s]` are stream `s`'s `out_ready` flag and its output
  FeatureMap. `hw[c]` is the driver FIFO of context `c`. `rpc`, `spc[s]` and
  `rxpc[s]` are the program counters of the three kinds of thread.
* **Notifications.** A notify wakes only a thread that is already waiting
  (`Wake`). Several places test a condition and then wait, and the notify that
  would wake them is not made under the waiter's mutex: 938/941, 990/997 and
  the `manual_init_cv` wait. There the model splits the step at the point where
  the notify can fall in between (`*_block`, `rx_lock`), under `NotifyRace`.
* **Options.**
  * `StartRace`: `model_manual_start` spawns the thread (455) before it sets
    `model_manual_run` (458).
  * `Spurious`: the two predicate-less waits may return spuriously.
  * `Overloads`: the `connect_dfp` overloads the program may call. `"path"`
    starts the receive thread, and `"bytes"` does not (MxAcclMT.cpp:83-90).
  * `Timed`: the streams whose receiver passes a timeout > 0. Their waits are
    predicate waits that may expire at any point.
* **Stop.** `StopBegin` runs once every caller has returned: `~MxModel` runs
  after the user's threads are done. `StopJoin` joins and flushes the contexts
  into `flushed`.
* **Not modelled.** Several ports per frame (one port stands for all), the
  FeatureMap conversions, and pre/post inference are left out. So are driver
  errors, which throw out of a thread and terminate the process.

### `PipelineChannel`, and the refinement

`PipelineChannel` is the abstract specification of what one model promises
its streams (spec 3 and 8). Each stream is a FIFO channel from the input
callback to the output callback.
* **State.** `produced[s]` counts the frames produced. `delivered[s]` is the
  sequence of frames handed to the output callback. `phase` is `open`, then
  `stopping` once `model_stop` is called, then `stopped` once it has returned.
* **Actions.** `Produce(s)` is allowed until stop returns, because work already
  under way may still finish. `Deliver(s)` hands over the oldest undelivered
  frame. `Stop` begins a stop, and `Stopped` is allowed only when the channel
  is empty.
* **Fairness.** `Spec` adds weak fairness on delivery and on the return of a
  stop.

`MxModelAuto` instantiates it as `Pipeline` with a refinement mapping. It keeps
`produced` unchanged. It maps each delivered result to the frame its ports
agree on, or to no frame if they disagree (`ResultItem`). It maps `ctl` to the
phase (`PipelinePhase`). `ImplementsPipeline == Pipeline!SafetySpec` is checked
in `auto_race_safety`: every step of the threads, pools and contexts, lost
notifications included, is a channel step or leaves the channel unchanged.
`ImplementsPipelineLive == Pipeline!Spec` is checked in `auto_liveness`.

### `Gbf`

This module holds `gbf.h` as operators, with no state. A float is the record
of `MemxGbfFloat32Map` fields the codec reads: `sign`, `exp`, the 7-bit `man`,
and `zero15` (bit 15, the rounding bit). The lower 15 bits are dropped: the
bf16 rounding clears them and they cannot carry past bit 15.
* **Encoding.** `Bf16Round` is the `+= 0x8000; &= 0xffff0000` on the uint32,
  carry and wrap included. `GroupExp` is the exponent loop. `ShiftWithRounding`
  is `_SET_MANTISSA_SHIFT_WITH_ROUNDING`. A shift of 32 or more is undefined
  in C++. `ShiftRight` takes the build as a parameter (`Builds`): scalar
  shifts mask the count mod 32, vector shifts give 0. `EncodeGroup` stores the
  19 bit-fields of `MemxGbfGbf80Map` (`Gbf80Field`), with `man_3` and `man_7`
  split as declared. `Offsets` places them the way the compiler does: a field
  that would straddle a 32-bit unit starts at the next one. `PackByte` builds
  each byte from the fields that overlap it.
* **Decoding.** `DecodeSlot` reads slot i at the bit positions `gbf_decode`
  hard-codes (`getbits`): bits 9i..9i+7 and 9i+8, slot 7 across bytes 7 and 8,
  and the exponent in bits 72..79. `DecodeElem` renormalises the mantissa with
  `lzcount` and `saturated_subtract8`, and forces exponent 0 for mantissa 0.
  The full groups and the remainder read slots the same way.
* **Evaluation.** `Tabulated` is the identity. It makes TLC evaluate an
  encoded group once rather than once per byte.

### `FeatureMap` (`MC_FeatureMap` for TLC)

This module models one `FeatureMap<float>` of a dfp port through one round trip.
* **State.** `fmap_data` is the HWC float buffer. `formatted_data` holds the
  device bytes, with `Undef` for a byte never written (`new uint8_t[]`).
  `sent` and `got` are the application's frames, and `cfSet` and `cfGet` their
  channel orders. `build` is the binary's answer to the oversized shift,
  chosen in `Init`.
* **Actions.**
  * `Construct` is the constructor. It throws for RGB565, YUV422, RGB888, and
    for a GBF format with 0 channels. Otherwise it sizes the device buffer as
    `calc_convert_size_and_new` does.
  * `SetData` is `set_data`. It runs `transpose_chw_hwc` or the copy, then
    `convert_data`. `convert_data` writes bf16 pairs, or `gbf_encode` per
    pixel at `i * pixel_size`, and it rounds `fmap_data` in place.
  * `GetData` is `get_data`. It runs `unconvert_data`: for GBF80 each pixel at
    `i * pixel_size`, and for GBF80_ROW each row padded to 4 bytes. Then it
    runs `transpose_hwc_chw` or the copy. With `ConvertThreads`
    (`fmap_convert_threads_`) above 1, every OpenMP thread runs
    `unconvert_data`. Its BF16 branch memsets all of `fmap_data` (221)
    before the `omp for` fills the thread's static chunk, with no barrier in
    between. So a late thread's memset can zero elements outside its own
    chunk that another thread has already filled (`Chunk`,
    `WipedByMemset`).

### `MxPack`

This module holds the mxpack decoder of `mxpack.cpp` as operators, with no
state. The buffer is a sequence of bytes. A decoded value is a record: its
dtype, and a scalar, the bytes of a string, the elements of a list (with their
dtype) or the keys and values of a dict. Each operator returns the bytes it
consumed and the value; 0 bytes is failure, as the code's `size_t` results
are.
* `mxpack_process_dict` reads `num_keys` and loops over the entries
  (`Entries`), stopping at the first that returns 0.
* `mxpack_decode_dict_entry` reads the 64-byte key with byte 63 forced to NUL,
  the dtype and the value. A dict or a non-empty list that returns 0 fails;
  an empty list is handled before `mxpack_process_list` is called.
* `mxpack_process_list` returns 0 for an empty list. Scalars are read as one
  block (`Width`), strings, dicts and nested lists one element at a time
  (`ListItem`, `Items`).
* `mxpack_get_keyval` is the first entry whose key equals the name under
  `strncmp(..., 64)` (`KeyEq`), or NULL (`NoValue`).
* `Body` is a reference writer: the layout the decoder reads. The writer of
  the library, `mxpack_save_dict`, is declared in `mxpack.h` but not part of
  the repository.

### `Dfp` (`MC_Dfp` for TLC)

This module holds `DfpObject::__load_dfp_bytes` for a v6 container as
operators over the bytes, on top of `MxPack`. Key names are one-byte codes
(`KeyCode`), NUL padded to 64 bytes.
* `LoadDfpV6` checks that the byte after the 8-byte version is a dict, and
  `ReadDict` throws when `mxpack_process_dict` returns 0.
* `ReadMeta` reads the dict in the code's order and throws where the code
  throws: a generation other than 4, an info list whose length is not the
  port count, a failed port, and `model_inports` and `model_outports` of
  different lengths. `num_models` is the length of the `models` list.
* `PortLoop` and `PortStep` are the inport and outport loops. A NULL list
  item throws. An inactive port is recorded and skipped. An active port reads
  its fields, its shape (`PortShape`: uint32 h, w and z cast to uint16, any
  other dtype throws), and for an outport its HPOC block (`Hpoc`). It is then
  appended to its model's list, which is grown with empty lists up to its
  `model_index` (`AddPort`).
* `CString` is `std::string(temps->s)` on a string buffer without a NUL: the
  bytes run on into the heap.
* The loader dereferences every lookup without a NULL check. The containers
  modelled carry every key it reads, so the model has no crash outcome.
* `input_port` and `output_port` return the `PortInfo` at an array index,
  or NULL out of range. `ModelPortInfo` is the MxModel constructor's loop
  (MxModel.cpp:49-77): each of a model's ports is looked up through them by
  the port number its list holds, and its shape and size are read. The
  array is filled in info-list order, so the lookup is right only while
  every port number equals its position, as in the packages modelled.
* `Container` is a reference writer: the container the compiler would emit
  for a package description.

`DfpV5` extends `Dfp` with the v5 branch of the same function, and with
`LoadDfp`, the dispatch on the 8-byte header (6 goes to `LoadDfpV6`, 5 to
`LoadDfpV5`, anything else throws).
* `V5Header` reads the header at its running offset. It copies the date and
  the compiler version through NUL-terminated buffers (`CStr`). It skips the
  data length, the model-name block and the compiler arguments. It maps the
  low nibble of `gen_and_towers` through `GenName`; any other value throws.
* `V5Port` reads an active port: the fields, the layer name, the format,
  for an inport the range fields, the dims (three uint16 and a uint32), and
  for an outport the HPOC block. It returns how many bytes the port took.
* `V5PortStep` and `V5PortLoop` are the loops. Bit 7 of the status byte
  marks an active port, and an inactive port is one byte.
* `LoadDfpV5` takes `num_models` from the model indices the inports name.
  It throws only when the outports name a different number.
* `ContainerV5` is the reference writer for the v5 layout. Its model-name
  block is one opaque name, which the loader skips. The layout has no field
  for the model count.

`MC_Dfp` takes packages of one or two models. The inport lists are one port
in a uint8 shape; one port in a uint32 shape 70000 wide; two ports of models
0 and 1; and an active and an inactive port. The outport lists are one port
with HPOC off, with HPOC on and an empty or a one-element dummy channel list,
and two ports of models 0 and 1. The extra metadata entry is none, a list of
one uint8, or a list holding an empty list. The heap after a string starts
with a NUL or with another byte. `ver` chooses the layout. A package is
written as v5 only where that layout can hold it: no uint32 shape, no extra
entry, and the heap unused because v5 strings are NUL terminated. The package's
ports must also name exactly its models (`Declared`): v5 derives the model
count from the ports, so no v5 container describes any other package. That
gives 192 v6 and 7 v5 initial states, each v6
container of 2,000 to 3,500 bytes and each v5 one of 100 to 200.

## Runs

| Run | cfg | Expect | What it shows |
|---|---|---|---|
| `auto_safety` | `MxModelAuto_safety.cfg` | pass | Two streams, two contexts, 2 frames each, 1 failed send, one worker per pool, stop at any point. Results arrive whole, in order and exactly once (`ResultsInOrder`). No output task is lost to the bounded queue (`OutputQueueNeverOverflows`). A returned `model_stop` left nothing undelivered and the flush found nothing (`DrainOnStop`). No FeatureMap is written while another thread uses it (`BuffersExclusive`). |
| `auto_race_safety` | `MxModelAuto_race_safety.cfg` | pass | The same data-path properties hold when notifications can be lost, and the pipeline refines `PipelineChannel` (`ImplementsPipeline`). Deadlock is not checked here, because lost wakeups really do hang threads. |
| `auto_liveness` | `MxModelAuto_liveness.cfg` | pass | Without lost wakeups, the pipeline refines `PipelineChannel` with its fairness (`ImplementsPipelineLive`): every produced frame is delivered. `model_wait` returns, and `model_stop` returns. |
| `auto_contract` | `MxModelAuto_contract.cfg` | violation | The model's contract to its callers fails (`ModelContract`: `[]ResultsInOrder /\ NoCallerHangs`). On one core, the automatic worker count is 0 (MxModel.cpp:295), and `model_wait` never returns. `model_stop` stores `model_run=false` and notifies without `input_task_mutex` (MxModel.cpp:495-496), so the send thread can miss the wakeup and `model_stop` never returns. With two input ports, a failure on the first port is hidden by the second port's status (MxModel.cpp:752). A result built from two different frames then reaches the output callback. Or, when the failed port's data never arrives, the context never computes: the receive thread blocks in `memx_stream_ofmap` (811), and `model_stop` never returns. |
| `dm_safety` | `DeviceManager_safety.cfg` | pass | An `MxAccl` and an `MxAcclMT` object, each built once, race for devices 0 and 16 with one failing driver call, which may be a failing group-count query or a failing close or unlock in the destructor. Meanwhile the `MxAccl` object connects streams, a pre and a post model to two models, starts up to twice, stops and is destroyed. Every open context is on a device its owner holds (`OpenContextOnOwnedDevice`). When a destructor returns after `close_all_devices`, the object leaves nothing locked or open (`ReleasedOnTeardown`). That covers a normal teardown and a teardown after `setup_mxa` threw with devices already locked and configured. After an attach or download failure, the destructor never gets that far (`DestroyCrashes`, see `dm_lifecycle`). A model runs only while `run` is set and every context of its dfp is still open (`RunningModelsHoldContexts`), including after a `stop()` whose loop threw. |
| `dm_lifecycle` | `DeviceManager_lifecycle.cfg` | violation | Over an object's life, `connect_dfp` breaks the spec's admission rules, or the destroyed object leaves a device locked (`DeviceLifecycleAsSpecified`), even with no driver fault. A 4-chip dfp on `<<0, 16>>` locks device 0; device 16 is refused and device 0 stays locked, although spec 4.1 says admission is all or nothing (DeviceManager.cpp:331). That refusal of an 8-chip device to a 4-chip dfp (DeviceManager.cpp:289) is not the spec's chip shortfall. Device 16's first context id is 32, so it is refused with no context open (DeviceManager.cpp:371), while the spec's ceiling counts open contexts. After the refusal, `~MxAccl` skips `close_all_devices`, because `setup_status` is still false (MxAccl.cpp:174), and the lock outlives the object; `~MxAcclMT` does not leak. When the ceiling is hit in `attach_dfp_to_device` instead (device list `<<16>>`), `setup_status` is already true but `init_mx_models` never ran. Both destructors then delete `models[0]` of the empty vector (MxAccl.cpp:179, MxAcclMT.cpp:112) and crash before `close_all_devices`, while spec 4.1 and 7 say teardown is safe even if attachment partially failed. Four facade defects break it too. First, a stream connected to model 1 after `start()` is accepted, but `stop()` then throws on model 1 (MxAccl.cpp:140). From `~MxAccl` this terminates the process before any device is closed, while spec 4.3 makes teardown force STOPPED from any state. Second, `model_stop` frees `pre_model[0]` and `post_model[0]` but never clears the vectors (MxModel.cpp:558, 593), so a restart runs on the freed adapters. Setting a pre or post model on a running model leaves the streams indexing an empty vector. Third, every start leaks the second pre adapter that `create_and_append_in_fm` pushes (MxModel.cpp:89). Fourth, a second `start()` is accepted on running models: `model_stop` then stops only the newer input pool (MxAccl.cpp:107), while spec 4.3 makes that `AlreadyRunning`. |
| `manual_safety` | `MxModelManual_safety.cfg` | pass | Two streams, two contexts, 2 frames each, one timed receiver, with the start race, lost notifications and spurious wakeups all possible. A receive never returns another stream's frame (`ResultsStayInStream`). |
| `manual_liveness` | `MxModelManual_liveness.cfg` | pass | Without those races, each stream receives exactly its frames in order (`ReceivedInOrder`), and every receiver gets all its frames unless the model is stopped first (`EveryFrameReceived`). |
| `manual_hang` | `MxModelManual_hang.cfg` | violation | With either `connect_dfp` overload, the races and spurious wakeups possible and untimed receivers, a receive returns another frame than its stream's next, or a receive or `model_manual_stop` waits forever (`ReceiveContract`). A spurious return from the wait at 941 overwrites a result the caller has not copied out yet, so a frame is skipped and a stale one is returned. The bytes overload (MxAcclMT.cpp:83-90) never calls `model_manual_start`. The thread created at 455 can test `model_manual_run` before 458 sets it, and exit. The receive thread's notify (959) can fall between the receiver's test at 990 and its wait at 997. And `model_manual_stop`'s notify at 608 can come before the receive thread reaches the predicate-less wait at 941, so the join at 610 hangs; that needs no narrow window. |
| `featuremap_roundtrip` | `FeatureMap_roundtrip.cfg` | pass | Every format of the enum, both builds, both channel orders on each side. `get_data` after `set_data` returns FP32 exactly, BF16 as the bf16 rounding, and for GBF the bf16 rounding of every element that holds its group's largest exponent (`RoundTripKeepsLargest`). Every element `unconvert_data` produces is the value its slot's bit-fields, as `MemxGbfGbf80Map` declares them, stand for (`DecodedAsStored`). |
| `featuremap_nearest` | `FeatureMap_nearest.cfg` | violation | A round trip does not return what it should (`GetDataAsSpecified`): a GBF value should come back as the multiple of its group's quantum nearest to it (`RoundTripToNearest`), and a BF16 value as its bf16 rounding, with two convert threads here. A 0.0 grouped with 2.0 is shifted by 128, which x86 takes mod 32, and it comes back as 2.0 (gbf.h:85). A value 8 binades below its group's maximum loses the rounding bit and comes back as 0. In a GBF80_ROW map whose rows need padding, every row after the first is decoded from bytes `set_data` never wrote (featureMap.cpp:208 against 247-266). With two convert threads, a BF16 element converted by one thread is zeroed by the other thread's late memset (featureMap.cpp:221). The tests set 2 and 5 threads (mxaccl_user_tests.cpp:405-406). With one thread, BF16 round-trips exactly. |
| `dfp_contract` | `Dfp_contract.cfg` | violation | Loading a v6 or v5 container does not return the package it was written from, or does not reject one whose models lack ports (`DfpLoadsAsWritten`). All four defects are in the v6 path. The timestamp and version are copied with `std::string` from buffers that have no NUL (dfp.cpp:478, 482). A list holding an empty list anywhere in the metadata makes `mxpack_process_list` return 0 (mxpack.cpp:86-88), which the list-of-lists loop reads as failure (185-187), so the loader throws. A package declaring more models than its ports name, or ports naming a model it does not declare, is accepted: v6 never checks `num_models` against the port lists (751-756), and `init_mx_models` then indexes past them. A uint32 dim of 70000 loads as 4464 (578-580), and MxModel builds the feature map with that shape through `input_port`. Every v5 container loads as written. |

The violation runs with a liveness property set `CHECK_DEADLOCK FALSE`. The hang
is the behaviour under study, and TLC then reports it as the property's
counterexample.

`auto_contract`, `dm_lifecycle`, `manual_hang`, `featuremap_nearest` and `dfp_contract` each check one property that
several defects of the code break, and TLC reports the shortest
counterexample. To see a particular one, set the other options of the cfg to
their safe value. For `manual_hang`, TLC reports a hang of `model_manual_stop`;
checking `[]ReceivedInOrder` alone reports the spurious overwrite. With `Overloads = {"path"}` and
`StartRace = FALSE`, TLC reports stop's notify of `model_manual_cv` (606) falling
between the receive thread's predicate test and its block at 965. With
`NotifyRace = FALSE` as well, it reports the stop hang at 941. Checking
`EveryFrameReceived` alone with `NotifyRace = TRUE` reports the lost notify at
997. For `auto_contract`, TLC reports the zero-worker wait hang. `Cores = 4`,
`NumInPorts = 1` and no failed send leave the stop race. `Cores = 4`, one
worker per pool and `NotifyRace = FALSE` leave the port failure:
`ResultsInOrder` alone reports the mixed result, and `StopCompletes` alone the
receive thread blocked on the context that never computes. For `dm_lifecycle`,
checking `NoLockLeak` alone reports the leak, and `AdmissionAsSpecified` alone
the admission rules. `TeardownCompletes` alone reports the destructor's
`std::terminate`, and `AdaptersLiveWhileRunning` alone reports a post model
set on a running model, or with `PreModels = {}` and `PostModels = {}` the
restart after stop. `StopReleasesStartResources` alone reports the input pool
left by two starts and one stop. With `MaxStarts = 1` it reports the leaked
pre adapter. For `featuremap_nearest`, TLC reports the 0.0 first.
Values without 0.0 and `Formats = {"GBF80"}` give the lost rounding bit.
Values of 1.0 alone with `Formats = {"GBF80_ROW"}` give the row layout.
`Formats = {"BF16"}` gives the convert-thread race. With `ConvertThreads = 1`,
the property then holds.
For `dfp_contract`, every initial state is a counterexample or not on its
own, so which defect TLC reports depends on the order it generates them in;
with the shipped cfg it is usually the heap garbage. `MC_Dfp` names a
narrower input set for each trigger, and a cfg that substitutes three of them
shows the fourth defect alone:

| Defect shown | Substitutions in the cfg |
|---|---|
| heap garbage after the timestamp | `Extras <- ExtrasFlat`, `InLists <- InListsU8`, `Packages <- PackagesDeclared` |
| empty nested list rejected | `Heaps <- HeapsNul`, `InLists <- InListsU8`, `Packages <- PackagesDeclared` |
| uint32 dim narrowed to uint16 | `Heaps <- HeapsNul`, `Extras <- ExtrasFlat`, `Packages <- PackagesDeclared` |
| model count never reconciled | `Heaps <- HeapsNul`, `Extras <- ExtrasFlat`, `InLists <- InListsU8` |

With all four substitutions, the property holds on the remaining 21 initial
states, 14 v6 and 7 v5.

The spec's "at most one frame in flight per stream" does not hold in auto mode:
`in_ready` is released when the send succeeds (MxModel.cpp:760), and a second
frame of the stream can be sent before the first result is consumed. The
project does not check it as a property. `BuffersExclusive` in `auto_safety`
shows that the early release never lets a buffer be written while in use.

**Bounds.** Two streams over two contexts are enough for frames of different streams to
interleave on one context, and for one stream's frames to rotate across contexts. Two
frames per stream give a second frame that can overtake the first. One failed send
exercises the retry path. Larger bounds grow the state space past the five-minute budget
(three streams, or two output workers together with a failure). The liveness run
keeps one frame per stream for the same reason.

For `DeviceManager`, two objects are enough for one to hold a lock another
needs. That covers both a failed trylock and a device omitted at discovery. Two
objects per slot show a leaked lock to its successor. Lists of one or two
devices and three dfp kinds (2 chips with multi-group, 4, 8) reach every branch
of `configure_device` and `connect_device`, and every error `connect_dfp` can
end with. These are unavailable, lock failed, refused, chip mismatch, config
failed, context exhausted, open failed and download failed. A finite program
ends when every object is destroyed or its process terminated (`Terminated`),
so deadlock is checked. Two models (`Models = {0, 1}`) give the `stop()` loop
a model before and after the one that throws. In `dm_safety` each slot builds one object (`MaxObjects = 1`). There is a
pre model on model 1 only (`PreModels = {1}`) and a post model on model 0
only (`PostModels = {0}`). These bounds keep the run within its time budget.
All three device lists stay, so device 16's ids past the ceiling
(`ContextExhausted`) are reached, both after device 0 and as a device the
other object holds. Two starts per object (`MaxStarts = 2`) let a restart
follow a stop whose loop threw. `dm_lifecycle` has no faults, builds two
objects per slot and has pre and post models on both models. So it reaches
the leaked lock of a predecessor, the double start, and the destructor crash
after the ceiling throws in `attach_dfp_to_device`.

For `MxModelManual`, two streams over two contexts let one stream's frames
rotate while the other's share a context. Two frames per stream give a second
frame whose pair can overtake, or be overwritten before, the first. One timed
and one untimed receiver reach both kinds of wait. Deadlock is not checked in
any manual run, because a lost wakeup really does leave threads blocked.

For `FeatureMap`, a 9-channel pixel has a full group and a remainder of one,
two groups per pixel, and slots 3 and 7, whose mantissas are split across
fields. A 1x1x2x3 map has two pixels, so the two transposes differ from the
copy. Its values include 0.0 next to 1.99 (which rounds up into the next
binade), and a negative value 7 binades lower, so shifts 0, 7 and 128 all
occur. The 9-channel pixel gets only the two non-zero values, which keeps the
run under a minute. The rows of both shapes need no padding: a padded
GBF80_ROW map breaks the round trip (`featuremap_nearest`). One round trip per
object ends every behaviour, so deadlock is not checked.

**Fairness.** Each pool worker, the send thread, the receive thread and each
context are weakly fair: the OS schedules every runnable thread, and the driver
processes queued frames. The caller is not obliged to call `wait` or `stop`. Once it
is inside `model_stop` or `model_wait` its steps are fair. Blocking is an action
being disabled, so a thread waiting on a condition variable is not forced to run.
In `MxModelManual`, every receive-thread and caller step is weakly fair, and so
is the join. A timed wait expires eventually. A spurious wakeup is never
forced, and the destructor is not obliged to run.

**Mutants.** Each property of a passing run has a mutant, listed in
`PROJECT.json`, and TLC finds the property violated under that mutant. The
mutants are:
* the cursor without the modulo;
* the context recorded after the cursor advanced;
* an output queue one slot short;
* send or receive loops that exit without draining;
* `set_in_ready(false)` omitted;
* `stop` without the notify;
* a finished continuous task re-queued instead of counted;
* the context loop run once too often;
* a context recorded for the dfp but not for its device;
* `close_all_devices` stopping one device short;
* `MxAccl::stop`'s loop ending one model early;
* `model_stop` not waiting for the output tasks (breaks the refinement);
* in manual mode, the cursor without the modulo, the pair recorded with the
  advanced cursor, the receive thread not waiting for the unconsumed result,
  and `set_out_ready(true)` omitted after a receive;
* in the codec, bf16 conversion by truncation, a bit-field not masked to its
  byte, and a decoded mantissa not shifted back under its exponent.

## Not modelled yet, and the plan

1. **`DeviceManager`, what is still open.** Several parts are not modelled:
   * `set_power_mode` only writes clock settings;
   * the CASCADE branch of `configure_device` (DeviceManager.cpp:236-239)
     unlocks the device and throws, the same shape as the chip-count
     mismatch that is modelled. It is left out because every dfp in `Dfps`
     is Cascade+;
   * `init_mx_models` is data only.
   After a failing `memx_close` or `memx_unlock` (`DestroyCloseFails`), the
   process terminates. The model keeps the dead object's locks and contexts
   as the walk left them. What the driver releases for a dead process lies
   outside the repository.
2. **`MxAccl` / `MxAcclMT` facades.** `DeviceManager` models:
   * their constructors, `connect_dfp` and destructors;
   * `MxAccl`'s `connect_stream`, `connect_pre_model`, `connect_post_model`,
     `start` and `stop` over several models.
   `MxModelManual` models `send_input` / `receive_output` and whether
   `connect_dfp` starts the receive thread. Still open:
   * the worker-count and shape accessors, which set or read fields the
     model threads use;
   * `start()` and `connect_stream` on an object whose `connect_dfp` threw
     after `dfp_valid` was set. They index an empty `models` vector, which is
     undefined behaviour.
   * the pre-model handle that `mx_create_prepost` returns null for, which
     `model_set_pre` dereferences before `model_start` could report it.

The dfp file constructors (`fopen`/`fread`, and a cleanup that never runs
because every parse error throws), the
dfp accessors no code in src/ calls (`get_input_shape_fmt`,
`all_indata_shapes`, the `get_all_*` copies), the mxpack free and print functions, mxTypes, path, the pre/post adapters' loading and inference (their lifecycle is in `DeviceManager`) and
acclBench are conversions of data with no concurrency or protocol state. They
are left to unit tests. The decoder and the loader are modelled on buffers laid out by the
reference writers only: it trusts every length and count it reads, and its
reads past the end of a truncated buffer are a memory-safety question
outside the model. `FeatureMap<uint8_t>`, the non-dfp `set_data_len` / `get_data_len`
copies, and the OpenMP threads of `set_data` are not modelled. With
`fmap_convert_threads > 1` and `channel_first` false, each thread of
`set_data` copies the whole frame while another rounds it in place: a data
race inside one buffer, below the model's granularity of whole floats. (The
threads of `get_data` are modelled through the outcome of their BF16 memset
race.) The second constructor, the copy constructor and `operator=`
(featureMap.cpp:45-135) are not modelled, because no modelled path copies a
map. Their `memcpy` of `featureMap_size` bytes rather than
`featureMap_size*sizeof(T)` copies only a quarter of a float map. The
ofmap error path is not modelled. A failed `memx_stream_ofmap` throws out of the receive thread (MxModel.cpp:814), which is `std::terminate` in one step, so there is no interleaving for a model to explore. Spec 7 instead wants the fault to end only that thread's loop. In manual mode, the data race on `stream_id_map_` (MxModel.cpp:872) is undefined behaviour, and the map is modelled as an atomic set. The timeout units (seconds at 978, milliseconds at 989) are abstracted away with time.
