---------------------------- MODULE MxModelAuto ----------------------------
(***************************************************************************)
(* The callback-driven ("auto") pipeline of one MxModel<T>                 *)
(* (src/mx_accl/src/MxModel.cpp) between model_start and the end of        *)
(* model_stop, with its two thread pools (thread_pool.hpp), the in_ready / *)
(* out_ready flags of the FeatureMaps (featureMap.cpp) and the hardware    *)
(* contexts the frames go through.                                         *)
(*                                                                         *)
(* Actors: the input pool workers running the continuous inputTask of each *)
(* stream, the single send thread (model_send_fun), the single receive     *)
(* thread (model_recv_fun), the output pool workers running the one-shot   *)
(* outputTask, the hardware contexts, and the caller's thread (wait/stop). *)
(*                                                                         *)
(* A frame is the pair <<stream, k>>: the k-th frame the input callback of *)
(* that stream wrote.  The driver is an opaque FIFO per context and port:  *)
(* the context computes once every input port holds data, and its result   *)
(* carries what it consumed on each port, so a result built from two       *)
(* different frames is visible.                                            *)
(***************************************************************************)
EXTENDS Integers, Sequences, FiniteSets, FiniteSetsExt

CONSTANTS
    NumStreams,     \* streams connected with connect_stream (num_streams_)
    NumContexts,    \* contexts the package was attached to (number_of_contexts)
    NumInPorts,     \* input ports of the model (in_ports_.size())
    ReqInWorkers,   \* set_num_workers(input_workers, _), 0 = automatic
    ReqOutWorkers,  \* set_num_workers(_, output_workers), 0 = automatic
    Cores,          \* std::thread::hardware_concurrency()
    NumModels,      \* meta_.num_models
    MaxFrames,      \* bound: frames an input callback produces before it returns false
    SendFailures,   \* bound: failing memx_stream_ifmap port sends in a behaviour
    NotifyRace      \* TRUE: a predicate wait may miss a notify issued without the mutex

ASSUME /\ NumStreams \in Nat \ {0}
       /\ NumContexts \in Nat \ {0}
       /\ NumInPorts \in Nat \ {0}
       /\ ReqInWorkers \in Nat /\ ReqOutWorkers \in Nat
       /\ Cores \in Nat /\ NumModels \in Nat \ {0}
       /\ MaxFrames \in Nat /\ SendFailures \in Nat
       /\ NotifyRace \in BOOLEAN

Streams   == 1..NumStreams
Contexts  == 1..NumContexts
InPorts   == 1..NumInPorts

(* model_start, MxModel.cpp:292-309: the default worker count and the      *)
(* clamp to the number of streams.                                         *)
DefaultWorkers == Min({NumStreams, Cores \div (2 * NumModels)})
PoolWorkers(req) ==
    LET n == IF ReqInWorkers = 0 \/ ReqOutWorkers = 0 THEN DefaultWorkers ELSE req
    IN  Min({n, NumStreams})
InputWorkers  == 1..PoolWorkers(ReqInWorkers)
OutputWorkers == 1..PoolWorkers(ReqOutWorkers)

Idle    == 0    \* a pool worker at the head of its loop, about to test m_stop
Polling == -2   \* a pool worker that saw m_stop false and is in m_task_queue.pop
Exited  == -1   \* a pool worker whose thread returned (m_stop seen)

Frame(s, k) == <<s, k>>
(* What a context returns for one computation: the frame it took per port. *)
WholeFrame(s, k) == [p \in InPorts |-> Frame(s, k)]
NoData == WholeFrame(0, 0)

VARIABLES
    ctl,         \* the caller's thread: running, waiting, waited, or a stop phase
    modelRun,    \* model_run
    recvRun,     \* model_recv_run
    inReady,     \* in_featuremaps_[s][0]->in_ready
    outReady,    \* out_featuremaps_[s][0]->out_ready
    produced,    \* frames the input callback of s has written (its send_flag was true)
    sent,        \* frames of s whose send the send thread saw succeed
    inBuf,       \* the frame held by the input FeatureMaps of s
    outBuf,      \* the result held by the output FeatureMaps of s
    delivered,   \* results the output callback of s was called with, in order
    iq,          \* input_pool->m_task_queue: one continuous task per stream
    iworker,     \* input pool workers: Idle, Exited, or the stream of the task run
    istop,       \* input_pool->m_stop
    idone,       \* input_pool->m_done_count
    sq,          \* stream_queue
    taskFlag,    \* input_task_flag
    spc,         \* send thread program counter
    scur,        \* stream popped by the send thread
    cursor,      \* context_send_current_index (0-based)
    sendFails,   \* port sends that failed so far
    hin,         \* per context and input port: frames written by memx_stream_ifmap
    hout,        \* per context: results waiting for memx_stream_ofmap
    pairq,       \* pair_stream_context_queue
    recvFlag,    \* model_recv_flag
    rpc,         \* receive thread program counter
    rcur,        \* <<stream, context>> popped by the receive thread
    oq,          \* output_pool->m_task_queue: one-shot tasks, by stream
    oworker,     \* output pool workers
    ostop,       \* output_pool->m_stop
    dropped,     \* output tasks lost because submitTask's push timed out
    flushed      \* results found by the flush at the end of model_stop

vars == <<ctl, modelRun, recvRun, inReady, outReady, produced, sent, inBuf,
          outBuf, delivered, iq, iworker, istop, idone, sq, taskFlag, spc,
          scur, cursor, sendFails, hin, hout, pairq, recvFlag, rpc, rcur, oq,
          oworker, ostop, dropped, flushed>>

CtlStates == {"running", "waiting", "waited", "in_join", "send_join",
              "recv_join", "out_drain", "out_join", "stopped"}
SendPCs == {"loop", "check", "block", "waiting", "send", "exited"}
RecvPCs == {"loop", "check", "block", "waiting", "outwait", "read", "exited"}

-----------------------------------------------------------------------------
(* A notify_one on a condition variable wakes its only waiter, if it is   *)
(* already blocked; otherwise the notification is lost.                    *)
Wake(pc) == IF pc = "waiting" THEN "check" ELSE pc

(* Mutation points of the code, each with the mutant checked against it.  *)
NextCursorNoWrap == cursor + 1
(* context_send_current_index = (index + 1) % number_of_contexts.          *)
NextCursor == (cursor + 1) % NumContexts

PairForAdvanced(s, c) == <<s, NextCursor + 1>>
(* The entry pushed on pair_stream_context_queue names the context the     *)
(* frame was written to (context_to_send), not the advanced index.         *)
PairFor(s, c) == <<s, c>>

OutQueueCapacityOffByOne == NumStreams - 1
(* The output pool's task queue is created with max_jobs = num_streams.    *)
OutQueueCapacity == NumStreams

SendMayExitNoDrain == ~modelRun
(* The send loop runs while model_run or stream_queue is non-empty.        *)
SendMayExit == sq = <<>> /\ ~modelRun

RecvMayExitNoDrain == ~recvRun
(* The receive loop runs while model_recv_run or the pair queue is         *)
(* non-empty.                                                              *)
RecvMayExit == pairq = <<>> /\ ~recvRun

ClearInReadyMissing(s) == inReady
(* set_in_ready(false) after the input callback returned.                  *)
ClearInReady(s) == [inReady EXCEPT ![s] = FALSE]

RetireRepush(s) == iq' = Append(iq, s) /\ UNCHANGED idone
(* A continuous task whose execute() returned false is deleted and         *)
(* counted in m_done_count.                                                *)
Retire(s) == idone' = idone + 1 /\ UNCHANGED iq

(* State right after model_start (MxModel.cpp:259-317): fresh FeatureMaps *)
(* with both flags true, both threads spawned, one continuous task per     *)
(* stream submitted in stream order.                                       *)
Init ==
    /\ ctl = "running"
    /\ modelRun = TRUE /\ recvRun = TRUE
    /\ inReady = [s \in Streams |-> TRUE]
    /\ outReady = [s \in Streams |-> TRUE]
    /\ produced = [s \in Streams |-> 0]
    /\ sent = [s \in Streams |-> 0]
    /\ inBuf = [s \in Streams |-> Frame(s, 0)]
    /\ outBuf = [s \in Streams |-> NoData]
    /\ delivered = [s \in Streams |-> <<>>]
    /\ iq = [i \in 1..NumStreams |-> i]
    /\ iworker = [w \in InputWorkers |-> Idle]
    /\ istop = FALSE /\ idone = 0
    /\ sq = <<>> /\ taskFlag = TRUE
    /\ spc = "loop" /\ scur = 1 /\ cursor = 0 /\ sendFails = 0
    /\ hin = [c \in Contexts |-> [p \in InPorts |-> <<>>]]
    /\ hout = [c \in Contexts |-> <<>>]
    /\ pairq = <<>>
    /\ recvFlag \in BOOLEAN   \* model_recv_flag is never initialised (MxModel.h:180)
    /\ rpc = "loop" /\ rcur = <<1, 1>>
    /\ oq = <<>> /\ oworker = [w \in OutputWorkers |-> Idle]
    /\ ostop = FALSE /\ dropped = 0 /\ flushed = 0

-----------------------------------------------------------------------------
(* Input pool (thread_pool::workerTarget, continuous discipline).          *)

(* Loop head: m_stop is tested once per iteration; true ends the thread.   *)
InCheck(w) ==
    /\ iworker[w] = Idle
    /\ iworker' = [iworker EXCEPT ![w] = IF istop THEN Exited ELSE Polling]
    /\ UNCHANGED <<ctl, modelRun, recvRun, inReady, outReady, produced, sent,
                   inBuf, outBuf, delivered, iq, istop, idone, sq, taskFlag,
                   spc, scur, cursor, sendFails, hin, hout, pairq, recvFlag,
                   rpc, rcur, oq, oworker, ostop, dropped, flushed>>

(* m_task_queue.pop(m_timeout): takes the head task, or times out on an    *)
(* empty queue and goes back to the loop head.  m_stop may have been set   *)
(* since the test: the task is taken and run all the same.                 *)
InPop(w) ==
    /\ iworker[w] = Polling
    /\ IF iq # <<>>
       THEN iworker' = [iworker EXCEPT ![w] = Head(iq)] /\ iq' = Tail(iq)
       ELSE iworker' = [iworker EXCEPT ![w] = Idle] /\ UNCHANGED iq
    /\ UNCHANGED <<ctl, modelRun, recvRun, inReady, outReady, produced, sent,
                   inBuf, outBuf, delivered, istop, idone, sq, taskFlag, spc,
                   scur, cursor, sendFails, hin, hout, pairq, recvFlag, rpc,
                   rcur, oq, oworker, ostop, dropped, flushed>>

(* execute() of inputTask(s) and what the worker does with its result.    *)
(* Ready buffer: the callback writes frame k+1 (send_flag TRUE) or returns *)
(* FALSE; in_ready is cleared either way; a FALSE retires the task         *)
(* (m_done_count++), a TRUE queues s for the send thread and notifies it   *)
(* under input_task_mutex, which the send thread holds between its         *)
(* predicate check and its wait ("block").  Busy buffer: the bounded       *)
(* wait_until on input_thread_cv returns and the task is pushed back.      *)
InExec(w) ==
    LET s == iworker[w] IN
    /\ s \in Streams
    /\ iworker' = [iworker EXCEPT ![w] = Idle]
    /\ \/ /\ inReady[s]
          /\ \E sendFlag \in IF produced[s] < MaxFrames THEN BOOLEAN ELSE {FALSE}:
               /\ inReady' = ClearInReady(s)
               /\ IF sendFlag
                  THEN /\ spc # "block"
                       /\ produced' = [produced EXCEPT ![s] = @ + 1]
                       /\ inBuf' = [inBuf EXCEPT ![s] = Frame(s, produced[s] + 1)]
                       /\ sq' = Append(sq, s)
                       /\ taskFlag' = TRUE
                       /\ spc' = Wake(spc)
                       /\ iq' = Append(iq, s)
                       /\ UNCHANGED idone
                  ELSE /\ Retire(s)
                       /\ UNCHANGED <<produced, inBuf, sq, taskFlag, spc>>
       \/ /\ ~inReady[s]
          /\ iq' = Append(iq, s)
          /\ UNCHANGED <<inReady, produced, inBuf, sq, taskFlag, spc, idone>>
    /\ UNCHANGED <<ctl, modelRun, recvRun, outReady, sent, outBuf, delivered,
                   istop, scur, cursor, sendFails, hin, hout, pairq, recvFlag,
                   rpc, rcur, oq, oworker, ostop, dropped, flushed>>


-----------------------------------------------------------------------------
(* Send thread (model_send_fun, MxModel.cpp:735-784).                      *)

(* Loop head: pop a stream, or go to wait on input_task_cv, or leave the   *)
(* loop once model_run is false and stream_queue is empty, notifying the   *)
(* receive thread without holding its mutex.                               *)
SendLoop ==
    /\ spc = "loop"
    /\ \/ /\ sq # <<>>
          /\ scur' = Head(sq) /\ sq' = Tail(sq) /\ spc' = "send"
          /\ UNCHANGED rpc
       \/ /\ sq = <<>> /\ modelRun
          /\ spc' = "check"
          /\ UNCHANGED <<scur, sq, rpc>>
       \/ /\ SendMayExit
          /\ spc' = "exited" /\ rpc' = Wake(rpc)
          /\ UNCHANGED <<scur, sq>>
    /\ UNCHANGED <<ctl, modelRun, recvRun, inReady, outReady, produced, sent,
                   inBuf, outBuf, delivered, iq, iworker, istop, idone,
                   taskFlag, cursor, sendFails, hin, hout, pairq, recvFlag,
                   rcur, oq, oworker, ostop, dropped, flushed>>

(* input_task_cv.wait(lock, pred) with the mutex held: a true predicate    *)
(* clears input_task_flag and returns; a false one blocks.  Under          *)
(* NotifyRace the thread still holds the mutex after the check ("block")   *)
(* and a notify issued without the mutex can fall in between.             *)
SendCheck ==
    /\ spc = "check"
    /\ IF taskFlag \/ ~modelRun
       THEN taskFlag' = FALSE /\ spc' = "loop"
       ELSE UNCHANGED taskFlag /\ spc' = IF NotifyRace THEN "block" ELSE "waiting"
    /\ UNCHANGED <<ctl, modelRun, recvRun, inReady, outReady, produced, sent,
                   inBuf, outBuf, delivered, iq, iworker, istop, idone, sq,
                   scur, cursor, sendFails, hin, hout, pairq, recvFlag, rpc,
                   rcur, oq, oworker, ostop, dropped, flushed>>

SendBlock ==
    /\ spc = "block"
    /\ spc' = "waiting"
    /\ UNCHANGED <<ctl, modelRun, recvRun, inReady, outReady, produced, sent,
                   inBuf, outBuf, delivered, iq, iworker, istop, idone, sq,
                   taskFlag, scur, cursor, sendFails, hin, hout, pairq,
                   recvFlag, rpc, rcur, oq, oworker, ostop, dropped, flushed>>

(* One pass of the retry loop: every input port of the frame is written to *)
(* the context under the rotation cursor, the cursor advances, and only    *)
(* the status of the LAST port decides success (send_status is overwritten *)
(* per port).  Success releases the input buffer (in_ready), queues        *)
(* <<stream, context>> for the receive thread and notifies it under        *)
(* model_recv_mutex; failure retries on the next context.                  *)
SendAttempt ==
    LET c == cursor + 1 IN
    /\ spc = "send"
    /\ \E failed \in SUBSET InPorts :
         /\ Cardinality(failed) <= SendFailures - sendFails
         /\ hin' = [hin EXCEPT ![c] = [p \in InPorts |->
                       IF p \in failed THEN hin[c][p] ELSE Append(hin[c][p], inBuf[scur])]]
         /\ sendFails' = sendFails + Cardinality(failed)
         /\ cursor' = NextCursor
         /\ IF NumInPorts \notin failed
            THEN /\ rpc # "block"
                 /\ inReady' = [inReady EXCEPT ![scur] = TRUE]
                 /\ sent' = [sent EXCEPT ![scur] = @ + 1]
                 /\ pairq' = Append(pairq, PairFor(scur, c))
                 /\ recvFlag' = TRUE
                 /\ rpc' = Wake(rpc)
                 /\ spc' = "loop"
            ELSE UNCHANGED <<inReady, sent, pairq, recvFlag, rpc, spc>>
    /\ UNCHANGED <<ctl, modelRun, recvRun, outReady, produced, inBuf, outBuf,
                   delivered, iq, iworker, istop, idone, sq, taskFlag, scur,
                   hout, rcur, oq, oworker, ostop, dropped, flushed>>

-----------------------------------------------------------------------------
(* A hardware context computes once every input port holds data.           *)
HwCompute(c) ==
    /\ \A p \in InPorts : hin[c][p] # <<>>
    /\ hout' = [hout EXCEPT ![c] = Append(@, [p \in InPorts |-> Head(hin[c][p])])]
    /\ hin' = [hin EXCEPT ![c] = [p \in InPorts |-> Tail(hin[c][p])]]
    /\ UNCHANGED <<ctl, modelRun, recvRun, inReady, outReady, produced, sent,
                   inBuf, outBuf, delivered, iq, iworker, istop, idone, sq,
                   taskFlag, spc, scur, cursor, sendFails, pairq, recvFlag, rpc,
                   rcur, oq, oworker, ostop, dropped, flushed>>

-----------------------------------------------------------------------------
(* Receive thread (model_recv_fun, MxModel.cpp:786-830).                   *)

RecvLoop ==
    /\ rpc = "loop"
    /\ \/ /\ pairq # <<>>
          /\ rcur' = Head(pairq) /\ pairq' = Tail(pairq) /\ rpc' = "outwait"
       \/ /\ pairq = <<>> /\ recvRun
          /\ rpc' = "check" /\ UNCHANGED <<rcur, pairq>>
       \/ /\ RecvMayExit
          /\ rpc' = "exited" /\ UNCHANGED <<rcur, pairq>>
    /\ UNCHANGED <<ctl, modelRun, recvRun, inReady, outReady, produced, sent,
                   inBuf, outBuf, delivered, iq, iworker, istop, idone, sq,
                   taskFlag, spc, scur, cursor, sendFails, hin, hout, recvFlag,
                   oq, oworker, ostop, dropped, flushed>>

(* model_recv_cv.wait(lock, pred): the predicate tests model_run, not      *)
(* model_recv_run.                                                         *)
RecvCheck ==
    /\ rpc = "check"
    /\ IF recvFlag \/ ~modelRun
       THEN recvFlag' = FALSE /\ rpc' = "loop"
       ELSE UNCHANGED recvFlag /\ rpc' = IF NotifyRace THEN "block" ELSE "waiting"
    /\ UNCHANGED <<ctl, modelRun, recvRun, inReady, outReady, produced, sent,
                   inBuf, outBuf, delivered, iq, iworker, istop, idone, sq,
                   taskFlag, spc, scur, cursor, sendFails, hin, hout, pairq,
                   rcur, oq, oworker, ostop, dropped, flushed>>

RecvBlock ==
    /\ rpc = "block"
    /\ rpc' = "waiting"
    /\ UNCHANGED <<ctl, modelRun, recvRun, inReady, outReady, produced, sent,
                   inBuf, outBuf, delivered, iq, iworker, istop, idone, sq,
                   taskFlag, spc, scur, cursor, sendFails, hin, hout, pairq,
                   recvFlag, rcur, oq, oworker, ostop, dropped, flushed>>

(* Wait on out_task_cv until the previous result of the stream was         *)
(* consumed; outputTask sets out_ready under the same mutex.               *)
RecvOutWait ==
    /\ rpc = "outwait"
    /\ outReady[rcur[1]]
    /\ rpc' = "read"
    /\ UNCHANGED <<ctl, modelRun, recvRun, inReady, outReady, produced, sent,
                   inBuf, outBuf, delivered, iq, iworker, istop, idone, sq,
                   taskFlag, spc, scur, cursor, sendFails, hin, hout, pairq,
                   recvFlag, rcur, oq, oworker, ostop, dropped, flushed>>

(* memx_stream_ofmap with timeout 0 blocks until the context has a result; *)
(* out_ready is cleared and a one-shot outputTask is submitted.  The       *)
(* task queue holds NumStreams tasks; a push that times out on a full      *)
(* queue is ignored by submitTask and the task is lost.                    *)
RecvRead ==
    LET s == rcur[1]
        c == rcur[2]
    IN
    /\ rpc = "read"
    /\ hout[c] # <<>>
    /\ outBuf' = [outBuf EXCEPT ![s] = Head(hout[c])]
    /\ hout' = [hout EXCEPT ![c] = Tail(@)]
    /\ outReady' = [outReady EXCEPT ![s] = FALSE]
    /\ IF Len(oq) < OutQueueCapacity
       THEN oq' = Append(oq, s) /\ UNCHANGED dropped
       ELSE dropped' = dropped + 1 /\ UNCHANGED oq
    /\ rpc' = "loop"
    /\ UNCHANGED <<ctl, modelRun, recvRun, inReady, produced, sent, inBuf,
                   delivered, iq, iworker, istop, idone, sq, taskFlag, spc,
                   scur, cursor, sendFails, hin, pairq, recvFlag, rcur,
                   oworker, ostop, flushed>>

-----------------------------------------------------------------------------
(* Output pool (thread_pool::workerTarget, one-shot discipline).           *)

OutCheck(w) ==
    /\ oworker[w] = Idle
    /\ oworker' = [oworker EXCEPT ![w] = IF ostop THEN Exited ELSE Polling]
    /\ UNCHANGED <<ctl, modelRun, recvRun, inReady, outReady, produced, sent,
                   inBuf, outBuf, delivered, iq, iworker, istop, idone, sq,
                   taskFlag, spc, scur, cursor, sendFails, hin, hout, pairq,
                   recvFlag, rpc, rcur, oq, ostop, dropped, flushed>>

OutPop(w) ==
    /\ oworker[w] = Polling
    /\ IF oq # <<>>
       THEN oworker' = [oworker EXCEPT ![w] = Head(oq)] /\ oq' = Tail(oq)
       ELSE oworker' = [oworker EXCEPT ![w] = Idle] /\ UNCHANGED oq
    /\ UNCHANGED <<ctl, modelRun, recvRun, inReady, outReady, produced, sent,
                   inBuf, outBuf, delivered, iq, iworker, istop, idone, sq,
                   taskFlag, spc, scur, cursor, sendFails, hin, hout, pairq,
                   recvFlag, rpc, rcur, ostop, dropped, flushed>>

(* outputTask (MxModel.cpp:422-441): the output callback reads the result  *)
(* in the output FeatureMaps, then out_ready is set under out_task_mutex.  *)
OutExec(w) ==
    LET s == oworker[w] IN
    /\ s \in Streams
    /\ delivered' = [delivered EXCEPT ![s] = Append(@, outBuf[s])]
    /\ outReady' = [outReady EXCEPT ![s] = TRUE]
    /\ oworker' = [oworker EXCEPT ![w] = Idle]
    /\ UNCHANGED <<ctl, modelRun, recvRun, inReady, produced, sent, inBuf,
                   outBuf, iq, iworker, istop, idone, sq, taskFlag, spc, scur,
                   cursor, sendFails, hin, hout, pairq, recvFlag, rpc, rcur,
                   oq, ostop, dropped, flushed>>

-----------------------------------------------------------------------------
(* The caller's thread: model_wait and the phases of model_stop.           *)

CtlVars == <<ctl, modelRun, recvRun, istop, idone, iq, spc, rpc, ostop, hout,
             flushed>>
DataVars == <<inReady, outReady, produced, sent, inBuf, outBuf, delivered,
              iworker, sq, taskFlag, scur, cursor, sendFails, hin, pairq,
              recvFlag, rcur, oq, oworker, dropped>>

(* model_wait -> input_pool->wait(): blocks until m_done_count equals      *)
(* m_task_count, which is NumStreams once model_start has returned.        *)
Wait ==
    /\ ctl = "running"
    /\ ctl' = "waiting"
    /\ UNCHANGED <<modelRun, recvRun, istop, idone, iq, spc, rpc, ostop, hout,
                   flushed>>
    /\ UNCHANGED DataVars

WaitReturn ==
    /\ ctl = "waiting" /\ idone = NumStreams
    /\ ctl' = "waited"
    /\ UNCHANGED <<modelRun, recvRun, istop, idone, iq, spc, rpc, ostop, hout,
                   flushed>>
    /\ UNCHANGED DataVars

(* model_stop, first call: input_pool->stop() sets m_stop and joins.       *)
StopBegin ==
    /\ ctl \in {"running", "waited"}
    /\ istop' = TRUE
    /\ ctl' = "in_join"
    /\ UNCHANGED <<modelRun, recvRun, idone, iq, spc, rpc, ostop, hout, flushed>>
    /\ UNCHANGED DataVars

StopInJoinNoNotify ==
    /\ ctl = "in_join"
    /\ \A w \in InputWorkers : iworker[w] = Exited
    /\ idone' = idone + Len(iq)
    /\ iq' = <<>>
    /\ modelRun' = FALSE
    /\ ctl' = "send_join"
    /\ UNCHANGED <<recvRun, istop, rpc, spc, ostop, hout, flushed>>
    /\ UNCHANGED DataVars

(* All input workers joined: the queued continuous tasks are deleted and   *)
(* counted done; then model_run is cleared and input_task_cv notified,     *)
(* both without input_task_mutex.                                         *)
StopInJoin ==
    /\ ctl = "in_join"
    /\ \A w \in InputWorkers : iworker[w] = Exited
    /\ idone' = idone + Len(iq)
    /\ iq' = <<>>
    /\ modelRun' = FALSE
    /\ spc' = Wake(spc)
    /\ ctl' = "send_join"
    /\ UNCHANGED <<recvRun, istop, rpc, ostop, hout, flushed>>
    /\ UNCHANGED DataVars

(* Send thread joined: model_recv_run is cleared and model_recv_cv         *)
(* notified, without model_recv_mutex.                                     *)
StopSendJoin ==
    /\ ctl = "send_join" /\ spc = "exited"
    /\ recvRun' = FALSE
    /\ rpc' = Wake(rpc)
    /\ ctl' = "recv_join"
    /\ UNCHANGED <<modelRun, istop, idone, iq, spc, ostop, hout, flushed>>
    /\ UNCHANGED DataVars

StopRecvJoin ==
    /\ ctl = "recv_join" /\ rpc = "exited"
    /\ ctl' = "out_drain"
    /\ UNCHANGED <<modelRun, recvRun, istop, idone, iq, spc, rpc, ostop, hout,
                   flushed>>
    /\ UNCHANGED DataVars

(* Mutant: model_stop does not wait for the output tasks.                 *)
OutputsConsumedNoWait == TRUE

(* Every output FeatureMap has been consumed (out_ready set).              *)
OutputsConsumed == \A s \in Streams : outReady[s]

(* Sleep until every output FeatureMap is consumed, then                   *)
(* output_pool->stop().                                                    *)
StopOutDrain ==
    /\ ctl = "out_drain"
    /\ OutputsConsumed
    /\ ostop' = TRUE
    /\ ctl' = "out_join"
    /\ UNCHANGED <<modelRun, recvRun, istop, idone, iq, spc, rpc, hout, flushed>>
    /\ UNCHANGED DataVars

(* Output workers joined: every context is read with memx_stream_ofmap     *)
(* until it reports no data (the "sanity" flush), then the FeatureMaps     *)
(* are freed.                                                              *)
StopOutJoin ==
    /\ ctl = "out_join"
    /\ \A w \in OutputWorkers : oworker[w] = Exited
    /\ flushed' = flushed + MapThenSumSet(LAMBDA c : Len(hout[c]), Contexts)
    /\ hout' = [c \in Contexts |-> <<>>]
    /\ ctl' = "stopped"
    /\ UNCHANGED <<modelRun, recvRun, istop, idone, iq, spc, rpc, ostop>>
    /\ UNCHANGED DataVars

(* model_stop has returned: nothing of the pipeline runs any more.         *)
Stopped ==
    /\ ctl = "stopped"
    /\ UNCHANGED vars

-----------------------------------------------------------------------------
Threads ==
    \/ \E w \in InputWorkers : InCheck(w) \/ InPop(w) \/ InExec(w)
    \/ SendLoop \/ SendCheck \/ SendBlock \/ SendAttempt
    \/ RecvLoop \/ RecvCheck \/ RecvBlock \/ RecvOutWait \/ RecvRead
    \/ \E w \in OutputWorkers : OutCheck(w) \/ OutPop(w) \/ OutExec(w)
    \/ \E c \in Contexts : HwCompute(c)

Caller ==
    \/ Wait \/ WaitReturn \/ StopBegin \/ StopInJoin \/ StopSendJoin
    \/ StopRecvJoin \/ StopOutDrain \/ StopOutJoin

Next == Threads \/ Caller \/ Stopped

(* Every thread the pipeline created is scheduled by the OS; a blocked     *)
(* thread is modelled by its action being disabled.  The caller may never  *)
(* call wait or stop, but once inside them it keeps running.               *)
Fairness ==
    /\ \A w \in InputWorkers : WF_vars(InCheck(w) \/ InPop(w) \/ InExec(w))
    /\ \A w \in OutputWorkers : WF_vars(OutCheck(w) \/ OutPop(w) \/ OutExec(w))
    /\ WF_vars(SendLoop \/ SendCheck \/ SendBlock \/ SendAttempt)
    /\ WF_vars(RecvLoop \/ RecvCheck \/ RecvBlock \/ RecvOutWait \/ RecvRead)
    /\ \A c \in Contexts : WF_vars(HwCompute(c))
    /\ WF_vars(WaitReturn \/ StopInJoin \/ StopSendJoin \/ StopRecvJoin
               \/ StopOutDrain \/ StopOutJoin)

Spec == Init /\ [][Next]_vars /\ Fairness

-----------------------------------------------------------------------------
(* Properties.                                                             *)

Results == [InPorts -> ({0} \cup Streams) \X (0..MaxFrames)]
Pairs == Streams \X Contexts

(* Every variable stays in the range the code's fields can take: program  *)
(* counters, flags, bounded queues and the worker slots of both pools.     *)
TypeOK ==
    /\ ctl \in CtlStates /\ spc \in SendPCs /\ rpc \in RecvPCs
    /\ modelRun \in BOOLEAN /\ recvRun \in BOOLEAN
    /\ inReady \in [Streams -> BOOLEAN] /\ outReady \in [Streams -> BOOLEAN]
    /\ produced \in [Streams -> 0..MaxFrames] /\ sent \in [Streams -> 0..MaxFrames]
    /\ inBuf \in [Streams -> Streams \X (0..MaxFrames)]
    /\ outBuf \in [Streams -> Results]
    /\ delivered \in [Streams -> Seq(Results)]
    /\ iq \in Seq(Streams) /\ Len(iq) <= NumStreams
    /\ iworker \in [InputWorkers -> Streams \cup {Idle, Polling, Exited}]
    /\ oworker \in [OutputWorkers -> Streams \cup {Idle, Polling, Exited}]
    /\ oq \in Seq(Streams) /\ Len(oq) <= NumStreams
    /\ sq \in Seq(Streams) /\ pairq \in Seq(Pairs)
    /\ idone \in 0..NumStreams /\ scur \in Streams /\ rcur \in Pairs
    /\ cursor \in 0..(NumContexts - 1) /\ sendFails \in 0..SendFailures
    /\ hin \in [Contexts -> [InPorts -> Seq(Streams \X (0..MaxFrames))]]
    /\ hout \in [Contexts -> Seq(Results)]
    /\ taskFlag \in BOOLEAN /\ recvFlag \in BOOLEAN
    /\ istop \in BOOLEAN /\ ostop \in BOOLEAN
    /\ dropped \in Nat /\ flushed \in Nat

(* The output callback of every stream is called with the results of that *)
(* stream's own frames, each computed from one whole frame, each exactly   *)
(* once and in the order the input callback produced them: the send        *)
(* thread's context rotation, the per-context hardware FIFOs, the          *)
(* receive thread's out_ready wait and the output pool together must keep  *)
(* this.                                                                   *)
ResultsInOrder ==
    \A s \in Streams :
        delivered[s] = [i \in 1..Len(delivered[s]) |-> WholeFrame(s, i)]

(* No output task is ever lost to a full output-pool queue: the queue      *)
(* holds NumStreams tasks and submitTask ignores a failed push, so the     *)
(* receive thread's wait on out_ready must admit at most one pending       *)
(* output task per stream.                                                 *)
OutputQueueNeverOverflows == dropped = 0

(* When model_stop returns, every frame an input callback produced has     *)
(* reached its output callback, and the final flush of the contexts found  *)
(* nothing: the send and receive loops drain their queues before exiting.  *)
DrainOnStop ==
    ctl = "stopped" =>
        /\ \A s \in Streams : Len(delivered[s]) = produced[s]
        /\ flushed = 0

(* No FeatureMap is written by one thread while another uses it: while the *)
(* send thread is sending stream s its input buffer is not released to    *)
(* the input callback (in_ready false), and while the receive thread is    *)
(* about to overwrite the output buffer of s no output task of s is queued *)
(* or running.                                                             *)
BuffersExclusive ==
    /\ spc = "send" => ~inReady[scur]
    /\ rpc = "read" =>
          /\ \A i \in 1..Len(oq) : oq[i] # rcur[1]
          /\ \A w \in OutputWorkers : oworker[w] # rcur[1]

(* model_stop, once called, returns: every thread it joins exits.          *)
StopCompletes == (ctl = "in_join") ~> (ctl = "stopped")

(* model_wait returns once every input callback has returned false.        *)
WaitReturns == (ctl = "waiting") ~> (ctl = "waited")

(* No caller of the model hangs: model_wait and model_stop, once called,   *)
(* return, whatever worker counts the constructor chose and however the    *)
(* threads interleave with the notifications.                             *)
NoCallerHangs == WaitReturns /\ StopCompletes

(* Spec 3 and 8, the contract of a model to its callers together: every   *)
(* result reaching an output callback is one whole frame of its stream, in *)
(* order and once, and model_wait and model_stop return.  It is            *)
(* []ResultsInOrder /\ NoCallerHangs, written as one formula.             *)
ModelContract == ~(<>~ResultsInOrder \/ ~NoCallerHangs)

-----------------------------------------------------------------------------
(* Refinement mapping onto PipelineChannel, the promise of one model.     *)
(* A result delivered to an output callback is the frame its ports agree  *)
(* on; a result assembled from different frames is no frame at all.       *)
ResultItem(r) == IF \A p \in InPorts : r[p] = r[1] THEN r[1] ELSE <<0, 0>>

(* The channel is open until model_stop is called, stopping while          *)
(* model_stop runs, and stopped once it has returned.                     *)
PipelinePhase ==
    CASE ctl \in {"running", "waiting", "waited"} -> "open"
      [] ctl = "stopped"                        -> "stopped"
      [] OTHER                                  -> "stopping"

Pipeline == INSTANCE PipelineChannel WITH
    delivered <- [s \in Streams |->
                    [i \in 1..Len(delivered[s]) |-> ResultItem(delivered[s][i])]],
    phase <- PipelinePhase

(* Spec 3 and 8, as a refinement: every step of the threads, pools and     *)
(* contexts is a step of the per-stream FIFO channel or leaves it alone:   *)
(* a frame is delivered only after it was produced, whole, once and in     *)
(* order; nothing is produced after model_stop returned; model_stop        *)
(* returns only with the channel empty.                                    *)
ImplementsPipeline == Pipeline!SafetySpec

(* The same refinement with the channel's fairness: every produced frame   *)
(* is delivered and a called model_stop returns.                           *)
ImplementsPipelineLive == Pipeline!Spec

=============================================================================
