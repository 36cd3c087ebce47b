---------------------------- MODULE CheckpointLog ----------------------------
(***************************************************************************)
(* What the capture runtime promises about connector checkpoints (spec     *)
(* sections 3 I6, 4.5 StartCommit, 8.1 and 8.2), stated without sessions,  *)
(* accumulators or write batches.                                          *)
(*                                                                         *)
(*  - uncommitted: the Checkpoint frames the connector has sent that are   *)
(*    not yet durable, in the order they were sent;                        *)
(*  - durable: the store's connector state and runtime checkpoint.         *)
(*                                                                         *)
(* A commit makes a non-empty prefix of the uncommitted frames durable,    *)
(* together with one runtime checkpoint, in one step: the durable state is *)
(* the fold of exactly those frames onto the previous durable state.  A    *)
(* session that ends or fails forgets its uncommitted frames; the next     *)
(* connector resumes from the durable state.                               *)
(***************************************************************************)
EXTENDS JsonState

CONSTANTS RCs,   \* runtime checkpoints a client may send
          NoRC   \* no runtime checkpoint has been written yet

VARIABLES durable, uncommitted

Init ==
    /\ durable = [state |-> EmptyDoc, rc |-> NoRC]
    /\ uncommitted = <<>>

Receive(fr) ==
    /\ uncommitted' = Append(uncommitted, fr)
    /\ UNCHANGED durable

Commit(n, rc) ==
    /\ n \in 1..Len(uncommitted)
    /\ durable' = [state |-> FoldFrames(durable.state, SubSeq(uncommitted, 1, n)),
                   rc    |-> rc]
    /\ uncommitted' = SubSeq(uncommitted, n + 1, Len(uncommitted))

Abandon ==
    /\ uncommitted' = <<>>
    /\ UNCHANGED durable

Next ==
    \/ \E fr \in Frame : Receive(fr)
    \/ \E n \in 1..Len(uncommitted), rc \in RCs : Commit(n, rc)
    \/ Abandon

Spec == Init /\ [][Next]_<<durable, uncommitted>>

=============================================================================
