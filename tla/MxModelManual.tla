--------------------------- MODULE MxModelManual ---------------------------
(***************************************************************************)
(* Manual (caller-driven) mode of one MxModel (src/mx_accl/src/MxModel.cpp) *)
(* as MxAcclMT drives it: model_manual_start spawns the receive thread,    *)
(* one caller thread per stream calls model_manual_send, another calls     *)
(* model_manual_receive, and the destructor calls model_manual_stop.       *)
(* The driver is one FIFO per context from memx_stream_ifmap to           *)
(* memx_stream_ofmap.                                                       *)
(***************************************************************************)
EXTENDS Integers, Sequences, FiniteSets

CONSTANTS
    Streams,          \* stream ids the callers use
    NumContexts,      \* contexts attached to the model (open_contexts)
    MaxFrames,        \* bound: frames each sender sends, and each receiver asks for
    Timed,            \* streams whose receiver passes a timeout > 0
    Overloads,        \* the MxAcclMT::connect_dfp overloads the program may call:
                      \* "path" starts the receive thread, "bytes" does not
    StartRace,        \* the receive thread may test model_manual_run before it is set
    NotifyRace,       \* an unlocked notify may fall between a test and its wait
    Spurious          \* a wait without predicate may wake spuriously

ASSUME /\ NumContexts \in Nat \ {0} /\ MaxFrames \in Nat \ {0}
       /\ Timed \subseteq Streams
       /\ Overloads \subseteq {"path", "bytes"} /\ Overloads # {}
       /\ {StartRace, NotifyRace, Spurious} \subseteq BOOLEAN

Contexts == 0..(NumContexts - 1)
Frame == Streams \X (1..MaxFrames)
NoFrame == <<"none", 0>>

VARIABLES
    ctl,      \* the facade: starting, spawned, running, joining, stopped
    run,      \* model_manual_run
    inDone,   \* model_manual_in_done
    cursor,   \* context_send_current_index
    pairq,    \* pair_stream_context_queue
    hw,       \* hw[c]: results waiting in context c
    smap,     \* keys of stream_id_map_ (streams whose FeatureMaps exist)
    outReady, \* out_featuremaps_[s][0]->out_ready
    outBuf,   \* the frame whose result sits in out_featuremaps_[s]
    spc,      \* sender of each stream
    sent,     \* frames each sender has sent
    rxpc,     \* receiver of each stream
    got,      \* results each receiver has returned, in order
    rpc,      \* the receive thread model_manual_recv_fun
    rcur,     \* the pair the receive thread popped
    flushed   \* results model_manual_stop's flush found

vars == <<ctl, run, inDone, cursor, pairq, hw, smap, outReady, outBuf, spc,
          sent, rxpc, got, rpc, rcur, flushed>>

(* A notify reaches a thread only once it is waiting.                      *)
Wake(pc, from, to) == IF pc = from THEN to ELSE pc

Init ==
    /\ \E o \in Overloads : ctl = IF o = "path" THEN "starting" ELSE "running"
    /\ run = FALSE
    /\ inDone = FALSE
    /\ cursor = 0
    /\ pairq = <<>>
    /\ hw = [c \in Contexts |-> <<>>]
    /\ smap = {}
    /\ outReady = [s \in Streams |-> TRUE]
    /\ outBuf = [s \in Streams |-> NoFrame]
    /\ spc = [s \in Streams |-> "idle"]
    /\ sent = [s \in Streams |-> 0]
    /\ rxpc = [s \in Streams |-> "idle"]
    /\ got = [s \in Streams |-> <<>>]
    /\ rpc = "none"
    /\ rcur = <<"none", 0>>
    /\ flushed = {}

-----------------------------------------------------------------------------
(* model_manual_start: the receive thread is created (line 455) before     *)
(* model_manual_run is set (line 458).                                     *)
ManualSpawn ==
    /\ ctl = "starting"
    /\ rpc' = "loop"
    /\ IF StartRace
       THEN ctl' = "spawned" /\ UNCHANGED run
       ELSE ctl' = "running" /\ run' = TRUE
    /\ UNCHANGED <<inDone, cursor, pairq, hw, smap, outReady, outBuf, spc, sent,
                   rxpc, got, rcur, flushed>>

ManualRun ==
    /\ ctl = "spawned"
    /\ run' = TRUE
    /\ ctl' = "running"
    /\ UNCHANGED <<inDone, cursor, pairq, hw, smap, outReady, outBuf, spc, sent,
                   rxpc, got, rpc, rcur, flushed>>

(* Mutant: the cursor advances without the modulo.                        *)
NextCursorNoWrap == cursor + 1

(* context_send_current_index advances round-robin.                       *)
NextCursor == (cursor + 1) % NumContexts

(* model_manual_send, first part: the first send of a stream creates its  *)
(* FeatureMaps under fm_create_mutex, publishes it in stream_id_map_ and   *)
(* notifies manual_init_cv without holding manual_init_mutex.              *)
(* notify_all wakes the receivers of every stream, but each waits with a   *)
(* predicate on its own stream id (979, 984): a receiver of another stream *)
(* re-tests it, finds it false and waits again, a step that changes no     *)
(* state, so only stream s's receiver moves.                               *)
SendLookup(s) ==
    /\ ctl = "running"
    /\ spc[s] = "idle"
    /\ sent[s] < MaxFrames
    /\ IF s \notin smap
       THEN /\ smap' = smap \cup {s}
            /\ rxpc' = [rxpc EXCEPT ![s] = Wake(@, "lk_waiting", "lookup")]
       ELSE UNCHANGED <<smap, rxpc>>
    /\ spc' = [spc EXCEPT ![s] = "ifmap"]
    /\ UNCHANGED <<ctl, run, inDone, cursor, pairq, hw, outReady, outBuf, sent,
                   got, rpc, rcur, flushed>>

(* Mutant: the pair records the context after the cursor has advanced.  *)
PairForAdvanced(s, c) == <<s, NextCursor>>

(* The pair queued for the receive thread: the stream and the context its *)
(* frame went to.                                                         *)
PairFor(s, c) == <<s, c>>

(* Under manual_mutex_in: memx_stream_ifmap of the frame to the context    *)
(* under the cursor, the cursor advances, <stream, context> is queued.    *)
SendIfmap(s) ==
    /\ spc[s] = "ifmap"
    /\ LET f == <<s, sent[s] + 1>> IN
       /\ hw' = [hw EXCEPT ![cursor] = Append(@, f)]
       /\ pairq' = Append(pairq, PairFor(s, cursor))
    /\ cursor' = NextCursor
    /\ sent' = [sent EXCEPT ![s] = @ + 1]
    /\ spc' = [spc EXCEPT ![s] = "flag"]
    /\ UNCHANGED <<ctl, run, inDone, smap, outReady, outBuf, rxpc, got, rpc,
                   rcur, flushed>>

(* model_manual_in_done is set under manual_mutex, then model_manual_cv is *)
(* notified; the send returns.                                             *)
SendFlag(s) ==
    /\ spc[s] = "flag"
    /\ rpc # "in_block"
    /\ inDone' = TRUE
    /\ rpc' = Wake(rpc, "in_waiting", "in_check")
    /\ spc' = [spc EXCEPT ![s] = "idle"]
    /\ UNCHANGED <<ctl, run, cursor, pairq, hw, smap, outReady, outBuf, sent,
                   rxpc, got, rcur, flushed>>

(* The loop test of model_manual_recv_fun: while model_manual_run or the    *)
(* pair queue is non-empty, pop a pair, or else wait for a send.          *)
RecvLoop ==
    /\ rpc = "loop"
    /\ IF run \/ pairq # <<>>
       THEN IF pairq # <<>>
            THEN /\ rcur' = Head(pairq)
                 /\ pairq' = Tail(pairq)
                 /\ rpc' = "check"
            ELSE rpc' = "in_check" /\ UNCHANGED <<rcur, pairq>>
       ELSE rpc' = "exit" /\ UNCHANGED <<rcur, pairq>>
    /\ UNCHANGED <<ctl, run, inDone, cursor, hw, smap, outReady, outBuf, spc,
                   sent, rxpc, got, flushed>>

(* The predicate wait on model_manual_cv (in_done || !run), then          *)
(* in_done = false.  With NotifyRace the thread can sit between its false *)
(* predicate and the block, still holding manual_mutex.                   *)
RecvInCheck ==
    /\ rpc = "in_check"
    /\ IF inDone \/ ~run
       THEN inDone' = FALSE /\ rpc' = "loop"
       ELSE /\ rpc' = IF NotifyRace THEN "in_block" ELSE "in_waiting"
            /\ UNCHANGED inDone
    /\ UNCHANGED <<ctl, run, cursor, pairq, hw, smap, outReady, outBuf, spc,
                   sent, rxpc, got, rcur, flushed>>

RecvInBlock ==
    /\ rpc = "in_block"
    /\ rpc' = "in_waiting"
    /\ UNCHANGED <<ctl, run, inDone, cursor, pairq, hw, smap, outReady, outBuf,
                   spc, sent, rxpc, got, rcur, flushed>>

(* Mutant: the receive thread does not wait for the previous result to be *)
(* consumed.                                                               *)
ResultPendingIgnored(s) == FALSE

(* The previous result of stream s has not been received yet (out_ready   *)
(* false).                                                                *)
ResultPending(s) == ~outReady[s]

(* Line 938: if the stream's previous result is unconsumed, wait on        *)
(* manual_recv_cv without a predicate.                                     *)
RecvCheck ==
    /\ rpc = "check"
    /\ rpc' = IF ResultPending(rcur[1])
              THEN IF NotifyRace THEN "out_block" ELSE "out_waiting"
              ELSE "run_check"
    /\ UNCHANGED <<ctl, run, inDone, cursor, pairq, hw, smap, outReady, outBuf,
                   spc, sent, rxpc, got, rcur, flushed>>

RecvOutBlock ==
    /\ rpc = "out_block"
    /\ rpc' = "out_waiting"
    /\ UNCHANGED <<ctl, run, inDone, cursor, pairq, hw, smap, outReady, outBuf,
                   spc, sent, rxpc, got, rcur, flushed>>

(* The wait at line 941 has no predicate: it may return spuriously.        *)
RecvSpurious ==
    /\ Spurious
    /\ rpc = "out_waiting"
    /\ rpc' = "run_check"
    /\ UNCHANGED <<ctl, run, inDone, cursor, pairq, hw, smap, outReady, outBuf,
                   spc, sent, rxpc, got, rcur, flushed>>

(* Lines 943-960: return if stopped; otherwise memx_stream_ofmap reads the *)
(* context's next result into the stream's output FeatureMap, out_ready is *)
(* cleared, and manual_recv_task_cv is notified under its mutex.           *)
RecvRead ==
    /\ rpc = "run_check"
    /\ IF ~run
       THEN rpc' = "exit" /\ UNCHANGED <<hw, outBuf, outReady, rxpc>>
       ELSE LET s == rcur[1]
                c == rcur[2]
            IN /\ hw[c] # <<>>
               /\ outBuf' = [outBuf EXCEPT ![s] = Head(hw[c])]
               /\ hw' = [hw EXCEPT ![c] = Tail(@)]
               /\ outReady' = [outReady EXCEPT ![s] = FALSE]
               /\ rxpc' = [rxpc EXCEPT ![s] = Wake(@, "rx_waiting", "read")]
               /\ rpc' = "loop"
    /\ UNCHANGED <<ctl, run, inDone, cursor, pairq, smap, spc, sent, got, rcur,
                   flushed>>

(* Every variable but the receivers' program counters.                     *)
rxOthers == <<ctl, run, inDone, cursor, pairq, hw, smap, outReady, outBuf,
              spc, sent, got, rpc, rcur, flushed>>

(* The caller of stream s calls model_manual_receive for its next result. *)
RxCall(s) ==
    /\ ctl = "running"
    /\ rxpc[s] = "idle"
    /\ Len(got[s]) < MaxFrames
    /\ rxpc' = [rxpc EXCEPT ![s] = "lookup"]
    /\ UNCHANGED rxOthers

(* Lines 975-986: until the stream is in stream_id_map_, a predicate wait  *)
(* on manual_init_cv; the sender's notify does not take manual_init_mutex, *)
(* so with NotifyRace it can fall between the test and the block.         *)
RxLookup(s) ==
    /\ rxpc[s] = "lookup"
    /\ rxpc' = [rxpc EXCEPT ![s] = IF s \in smap THEN "data"
                                   ELSE IF NotifyRace THEN "lk_block" ELSE "lk_waiting"]
    /\ UNCHANGED rxOthers

RxLkBlock(s) ==
    /\ rxpc[s] = "lk_block"
    /\ rxpc' = [rxpc EXCEPT ![s] = "lk_waiting"]
    /\ UNCHANGED rxOthers

(* wait_until of a timed receive expires: it returns false (a timeout)    *)
(* unless the predicate has become true.                                  *)
RxLkTimeout(s) ==
    /\ s \in Timed
    /\ rxpc[s] = "lk_waiting"
    /\ rxpc' = [rxpc EXCEPT ![s] = IF s \in smap THEN "lookup" ELSE "idle"]
    /\ UNCHANGED rxOthers

(* Line 990: if no result is ready (out_ready true), a timed receive does  *)
(* a predicate wait_for; an untimed one locks and waits without predicate *)
(* (line 997), and with NotifyRace the receive thread's notify can fall   *)
(* between the test and the lock.                                          *)
RxData(s) ==
    /\ rxpc[s] = "data"
    /\ rxpc' = [rxpc EXCEPT ![s] =
                  IF ~outReady[s] THEN "read"
                  ELSE IF s \in Timed THEN "timed_wait"
                  ELSE IF NotifyRace THEN "rx_lock" ELSE "rx_waiting"]
    /\ UNCHANGED rxOthers

RxLockWait(s) ==
    /\ rxpc[s] = "rx_lock"
    /\ rxpc' = [rxpc EXCEPT ![s] = "rx_waiting"]
    /\ UNCHANGED rxOthers

(* wait_for returns once out_ready is false ...                           *)
RxTimedWake(s) ==
    /\ rxpc[s] = "timed_wait"
    /\ ~outReady[s]
    /\ rxpc' = [rxpc EXCEPT ![s] = "read"]
    /\ UNCHANGED rxOthers

(* ... or expires while it is still true, and the receive returns false.  *)
RxTimedOut(s) ==
    /\ rxpc[s] = "timed_wait"
    /\ outReady[s]
    /\ rxpc' = [rxpc EXCEPT ![s] = "idle"]
    /\ UNCHANGED rxOthers

(* The wait at line 997 has no predicate: it may return spuriously.        *)
RxSpurious(s) ==
    /\ Spurious
    /\ rxpc[s] = "rx_waiting"
    /\ rxpc' = [rxpc EXCEPT ![s] = "read"]
    /\ UNCHANGED rxOthers

(* Mutant: set_out_ready(true) is left out.                                *)
ConsumeMissing(s) == UNCHANGED outReady

(* The result has been copied out: set_out_ready(true).                    *)
Consume(s) == outReady' = [outReady EXCEPT ![s] = TRUE]

(* Lines 1008-1015: the result is copied to the caller, out_ready is set   *)
(* and manual_recv_cv notified without its mutex; the receive returns.    *)
RxRead(s) ==
    /\ rxpc[s] = "read"
    /\ got' = [got EXCEPT ![s] = Append(@, outBuf[s])]
    /\ Consume(s)
    /\ rpc' = IF rcur[1] = s THEN Wake(rpc, "out_waiting", "run_check") ELSE rpc
    /\ rxpc' = [rxpc EXCEPT ![s] = "idle"]
    /\ UNCHANGED <<ctl, run, inDone, cursor, pairq, hw, smap, outBuf, spc, sent,
                   rcur, flushed>>

(* model_manual_stop from ~MxModel, once every caller has returned: clear  *)
(* model_manual_run and notify model_manual_cv and every stream's          *)
(* manual_recv_cv, all without their mutexes.                             *)
StopBegin ==
    /\ ctl = "running"
    /\ run
    /\ \A s \in Streams : spc[s] = "idle" /\ rxpc[s] = "idle"
    /\ run' = FALSE
    /\ rpc' = Wake(Wake(rpc, "in_waiting", "in_check"), "out_waiting", "run_check")
    /\ ctl' = "joining"
    /\ UNCHANGED <<inDone, cursor, pairq, hw, smap, outReady, outBuf, spc, sent,
                   rxpc, got, rcur, flushed>>

(* The receive thread is joined, then every context is flushed with        *)
(* memx_stream_ofmap until it reports no data.                            *)
StopJoin ==
    /\ ctl = "joining"
    /\ rpc = "exit"
    /\ flushed' = UNION {{hw[c][i] : i \in 1..Len(hw[c])} : c \in Contexts}
    /\ hw' = [c \in Contexts |-> <<>>]
    /\ ctl' = "stopped"
    /\ UNCHANGED <<run, inDone, cursor, pairq, smap, outReady, outBuf, spc, sent,
                   rxpc, got, rpc, rcur>>

(* The model has been stopped: the program ends.                           *)
Terminated == ctl = "stopped" /\ UNCHANGED vars

RecvThread ==
    \/ RecvLoop \/ RecvInCheck \/ RecvInBlock \/ RecvCheck \/ RecvOutBlock
    \/ RecvSpurious \/ RecvRead

Sender(s) == SendLookup(s) \/ SendIfmap(s) \/ SendFlag(s)

Receiver(s) ==
    \/ RxCall(s) \/ RxLookup(s) \/ RxLkBlock(s) \/ RxLkTimeout(s) \/ RxData(s)
    \/ RxLockWait(s) \/ RxTimedWake(s) \/ RxTimedOut(s) \/ RxSpurious(s) \/ RxRead(s)

Next ==
    \/ ManualSpawn \/ ManualRun \/ StopBegin \/ StopJoin \/ Terminated
    \/ RecvThread
    \/ \E s \in Streams : Sender(s) \/ Receiver(s)

(* Every thread the OS runs makes progress; the callers keep sending and   *)
(* receiving until MaxFrames; a timed wait does expire.  A spurious wakeup *)
(* is never forced, and the destructor (StopBegin) is not obliged to run.  *)
Fairness ==
    /\ WF_vars(ManualSpawn) /\ WF_vars(ManualRun) /\ WF_vars(StopJoin)
    /\ WF_vars(RecvLoop) /\ WF_vars(RecvInCheck) /\ WF_vars(RecvInBlock)
    /\ WF_vars(RecvCheck) /\ WF_vars(RecvOutBlock) /\ WF_vars(RecvRead)
    /\ \A s \in Streams :
          /\ WF_vars(Sender(s))
          /\ WF_vars(RxCall(s)) /\ WF_vars(RxLookup(s)) /\ WF_vars(RxLkBlock(s))
          /\ WF_vars(RxLkTimeout(s)) /\ WF_vars(RxData(s)) /\ WF_vars(RxLockWait(s))
          /\ WF_vars(RxTimedWake(s)) /\ WF_vars(RxTimedOut(s)) /\ WF_vars(RxRead(s))

Spec == Init /\ [][Next]_vars /\ Fairness

-----------------------------------------------------------------------------
(* Every variable keeps the shape of the code's fields.                    *)
TypeOK ==
    /\ ctl \in {"starting", "spawned", "running", "joining", "stopped"}
    /\ run \in BOOLEAN /\ inDone \in BOOLEAN
    /\ cursor \in Contexts
    /\ pairq \in Seq(Streams \X Contexts)
    /\ hw \in [Contexts -> Seq(Frame)]
    /\ smap \subseteq Streams
    /\ outReady \in [Streams -> BOOLEAN]
    /\ outBuf \in [Streams -> Frame \cup {NoFrame}]
    /\ sent \in [Streams -> 0..MaxFrames]
    /\ got \in [Streams -> Seq(Frame \cup {NoFrame})]
    /\ flushed \subseteq Frame

(* Spec 3.3: a result model_manual_receive returns for a stream is never  *)
(* another stream's: the receive thread reads the context each pair names, *)
(* so the pair queue and the contexts' FIFOs must stay in step across the  *)
(* rotation, spurious wakeups and lost notifications included.            *)
ResultsStayInStream ==
    \A s \in Streams : \A i \in 1..Len(got[s]) : got[s][i][1] \in {s, NoFrame[1]}

(* Spec 3.3 and 8: the results model_manual_receive returns for a stream  *)
(* are that stream's frames in the order model_manual_send sent them, none *)
(* skipped or repeated, although the receive thread and the caller hand   *)
(* the output FeatureMap back and forth through out_ready.                *)
ReceivedInOrder ==
    \A s \in Streams : got[s] = [i \in 1..Len(got[s]) |-> <<s, i>>]

(* Spec 4.4: a caller that keeps calling model_manual_receive gets every   *)
(* frame of its stream that was sent, unless the model is stopped first.  *)
EveryFrameReceived ==
    \A s \in Streams : <>(Len(got[s]) = MaxFrames \/ ctl \in {"joining", "stopped"})

(* Spec 3.5: model_manual_stop returns: the receive thread it joins exits. *)
StopCompletes == (ctl = "joining") ~> (ctl = "stopped")

(* Spec 3.5 and 4.4: no caller of the model hangs: every receiver gets its *)
(* frames unless the model is stopped first, and model_manual_stop        *)
(* returns, whichever connect_dfp overload started the model.             *)
NoCallerHangs == EveryFrameReceived /\ StopCompletes

(* Spec 3.3, 3.5 and 4.4, the contract of model_manual_receive and        *)
(* model_manual_stop together: every receive returns its stream's next    *)
(* frame, no caller waits forever, whichever overload started the model.  *)
(* It is []ReceivedInOrder /\ NoCallerHangs, written as one formula.      *)
ReceiveContract == ~(<>~ReceivedInOrder \/ ~NoCallerHangs)

====
