-------------------------- MODULE PipelineChannel --------------------------
(***************************************************************************)
(* What one model promises its streams, whatever threads carry the frames *)
(* (spec 3 and 8): each stream is a FIFO channel from its input callback  *)
(* to its output callback.  Every frame produced is delivered whole, once *)
(* and in order; model_stop closes the channel to new work, and returns   *)
(* only once everything produced has been delivered.                      *)
(***************************************************************************)
EXTENDS Naturals, Sequences

CONSTANTS
    Streams,    \* the connected streams
    MaxFrames   \* bound: frames each input callback produces

VARIABLES
    produced,   \* frames the input callback of each stream has produced
    delivered,  \* frames handed to the output callback of each stream, in order
    phase       \* "open", "stopping" (model_stop called), "stopped" (it returned)

vars == <<produced, delivered, phase>>

(* The k-th frame of stream s. *)
Item(s, k) == <<s, k>>

TypeOK ==
    /\ produced \in [Streams -> 0..MaxFrames]
    /\ delivered \in [Streams -> Seq(Streams \X (1..MaxFrames))]
    /\ phase \in {"open", "stopping", "stopped"}

Init ==
    /\ produced = [s \in Streams |-> 0]
    /\ delivered = [s \in Streams |-> <<>>]
    /\ phase = "open"

(* The input callback produces its next frame; work already under way when *)
(* stop is called may still produce.                                       *)
Produce(s) ==
    /\ phase # "stopped"
    /\ produced[s] < MaxFrames
    /\ produced' = [produced EXCEPT ![s] = @ + 1]
    /\ UNCHANGED <<delivered, phase>>

(* The oldest undelivered frame of s reaches its output callback. *)
Deliver(s) ==
    /\ Len(delivered[s]) < produced[s]
    /\ delivered' = [delivered EXCEPT ![s] = Append(@, Item(s, Len(@) + 1))]
    /\ UNCHANGED <<produced, phase>>

Stop ==
    /\ phase = "open"
    /\ phase' = "stopping"
    /\ UNCHANGED <<produced, delivered>>

(* model_stop returns once the channel is empty. *)
Stopped ==
    /\ phase = "stopping"
    /\ \A s \in Streams : Len(delivered[s]) = produced[s]
    /\ phase' = "stopped"
    /\ UNCHANGED <<produced, delivered>>

Next == Stop \/ Stopped \/ \E s \in Streams : Produce(s) \/ Deliver(s)

SafetySpec == Init /\ [][Next]_vars

(* A produced frame is eventually delivered, and a stop that was called   *)
(* eventually returns; producing and calling stop are up to the caller.   *)
Spec == SafetySpec /\ (\A s \in Streams : WF_vars(Deliver(s))) /\ WF_vars(Stopped)

=============================================================================
