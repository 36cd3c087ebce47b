-------------------------- MODULE MCCaptureConnector --------------------------
(***************************************************************************)
(* Model-checking instance of CaptureConnector: two bindings of one        *)
(* collection and a source of four records; the cursor is the only         *)
(* connector-state field.                                                  *)
(***************************************************************************)
EXTENDS CaptureConnector

MCSharedCollection == [b \in 0..1 |-> "events"]

MCInitialJson == [f \in Fields |-> Absent]

\* Three records of key 1 in binding 0, then one of binding 1: enough for a
\* transaction to commit two records past its checkpoint, of two different
\* (binding, key) pairs, and for both bindings' shapes to widen.
MCSource == <<<<0, 1>>, <<0, 1>>, <<0, 1>>, <<1, 1>>>>

\* The state without the inferred shapes, which no property here reads.
MCViewNoShapes ==
    <<store, phase, sessions, connectorOpen, openedRC, acc,
      [nxt EXCEPT !.updated = {}], [txn EXCEPT !.updated = {}],
      drainQ, wb, stats, lastCheckpoints, acked, committedCk,
      connectorEof, restartElapsed, lastPoll, emitted, frames,
      accFrames, txnFrames, accCaptures, txnCaptures, resumeState, pos, view>>

=============================================================================
