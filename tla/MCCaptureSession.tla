--------------------------- MODULE MCCaptureSession ---------------------------
(***************************************************************************)
(* Model-checking instance of CaptureSession: constant values that TLC     *)
(* cannot take directly from a .cfg file.                                  *)
(***************************************************************************)
EXTENDS CaptureSession

\* Two bindings capturing into the same collection, so that stats of
\* different bindings are summed under one collection_name.
MCSharedCollection == [b \in 0..1 |-> "events"]

\* One binding.
MCOneCollection == [b \in 0..0 |-> "events"]

\* The client opens with an empty state, {}.
MCInitialJson == [f \in Fields |-> Absent]

\* The client opens with a state that sets one field, as a task whose
\* initial connector state is configured does.
MCInitialJsonOneField ==
    LET f0 == CHOOSE f \in Fields : TRUE
    IN [f \in Fields |-> IF f = f0 THEN CHOOSE x \in FieldVals : TRUE ELSE Absent]


\* The state without the inferred shapes.  Shapes never influence any other
\* variable, so runs whose properties do not mention them explore the
\* session without telling apart states that differ only in shapes.
MCViewNoShapes ==
    <<store, phase, sessions, connectorOpen, openedRC, acc,
      [nxt EXCEPT !.updated = {}], [txn EXCEPT !.updated = {}],
      drainQ, wb, stats, lastCheckpoints, acked, committedCk,
      connectorEof, restartElapsed, lastPoll, emitted, frames,
      accFrames, txnFrames, accCaptures, txnCaptures, resumeState>>

=============================================================================
