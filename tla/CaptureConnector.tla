--------------------------- MODULE CaptureConnector ---------------------------
(***************************************************************************)
(* The capture session composed with a connector and with the client's     *)
(* committed view of the captured collections.                            *)
(*                                                                         *)
(* The connector reads an append-only source: the records Source[1],       *)
(* Source[2], ... in order.  It sends each as a Captured frame and, after  *)
(* any record, a Checkpoint whose merge-patch sets CursorField to the      *)
(* position of the last record it sent.  When a session opens it resumes   *)
(* after the cursor of the state it is opened with (Open.state_json, which *)
(* recv_client_open loads from the store).  The connector is not part of   *)
(* this repository: this is the contract spec 2 and 7 give it, and a       *)
(* record's value is its position, so that a committed value tells which   *)
(* record it came from.                                                    *)
(*                                                                         *)
(* The client commits the documents it was sent in a transaction together  *)
(* with the runtime checkpoint it hands to StartCommit; view is what its   *)
(* committed transactions hold, per (binding, key), reduced last-write-wins *)
(* as the session's combiner is.                                           *)
(***************************************************************************)
EXTENDS CaptureSession

CONSTANTS Source,       \* the source records: a sequence of (binding, key)
          CursorField   \* the connector-state field holding the cursor

ASSUME /\ Source \in Seq(Bindings \X Keys)
       /\ CursorField \in Fields
       /\ 1..Len(Source) \subseteq DocVals \cap FieldVals

VARIABLES pos,   \* the connector's position: the last record it sent
          view   \* the client's committed documents per (binding, key)

compVars == <<vars, pos, view>>

\* The record at position i, whose document value is i.
Record(i) == [index |-> Source[i][1], key |-> Source[i][2], val |-> i]

\* The source position a connector state records.
CursorOf(d) == IF d[CursorField] = Absent THEN 0 ELSE d[CursorField]

\* The checkpoint a connector sends after record i.
CursorFrame(i) == [merge |-> TRUE,
                   patch |-> [f \in Fields |-> IF f = CursorField THEN i ELSE Absent]]

\* The documents of the records 1..j reduced per (binding, key).
PrefixView(j) ==
    [bk \in Bindings \X Keys |->
        LET is == {i \in 1..j : Source[i] = bk}
        IN IF is = {} THEN None ELSE Max(is)]

\* The connector is opened: it resumes after the cursor it was opened with.
ConnectorOpened ==
    /\ RecvConnectorOpened
    /\ pos' = CursorOf(connectorOpen)
    /\ UNCHANGED view

\* The connector sends its next record.
ConnectorSends ==
    /\ pos < Len(Source)
    /\ LET r == Record(pos + 1) IN RecvConnectorCaptured(r.index, r.key, r.val)
    /\ pos' = pos + 1
    /\ UNCHANGED view

\* The connector checkpoints the position of the last record it sent.
ConnectorCheckpoints ==
    /\ pos > 0
    /\ RecvConnectorCheckpoint(CursorFrame(pos))
    /\ UNCHANGED <<pos, view>>

\* StartCommit: the client's transaction, holding the documents it was sent,
\* commits with the runtime checkpoint that the runtime writes with the
\* connector state.
ClientCommits(rc) ==
    /\ RecvClientStartCommit(rc)
    /\ view' = [bk \in Bindings \X Keys |->
                  LET es == {e \in emitted : <<e.index, e.key>> = bk}
                  IN IF es = {} THEN view[bk] ELSE (CHOOSE e \in es : TRUE).val]
    /\ UNCHANGED pos

\* Every other step of the session, which neither the connector's position
\* nor the client's view takes part in.
SessionStep ==
    /\ \/ \E req \in ClientRequests, resp \in ConnectorReplies : RecvUnary(req, resp)
       \/ RecvClientOpen \/ RecvClientOpenFailed \/ RecvConnectorOpenedFailed
       \/ RecvConnectorCapturedInvalid \/ RecvConnectorCheckpointInvalid
       \/ ConnectorEof \/ RestartElapses
       \/ RecvClientPoll \/ DrainCaptured \/ DrainState \/ SendClientFinalCheckpoint
       \/ RecvClientStartCommitFailed \/ SendClientStartedCommit \/ RecvClientAcknowledge
       \/ ClientClose \/ SessionFails \/ NewSession \/ Done
    /\ UNCHANGED <<pos, view>>

ComposedInit ==
    /\ Init
    /\ pos = 0
    /\ view = [bk \in Bindings \X Keys |-> None]

ComposedNext ==
    \/ SessionStep
    \/ ConnectorOpened \/ ConnectorSends \/ ConnectorCheckpoints
    \/ \E rc \in RCs : ClientCommits(rc)

ComposedSpec == ComposedInit /\ [][ComposedNext]_compVars

-----------------------------------------------------------------------------
(* Properties *)

(***************************************************************************)
(* No record is lost across failures and restarts (at-least-once): every   *)
(* document the durable connector cursor has passed is in the client's     *)
(* committed view, or a later document of the same key is.  It is about    *)
(* the buffer swap on Ready (send_client_poll_result), which commits the    *)
(* documents of a checkpoint in the same transaction as the checkpoint,    *)
(* the atomic commit of recv_client_start_commit, and the resume from the  *)
(* store in recv_client_open.                                              *)
(***************************************************************************)
NoLostRecords ==
    LET c == CursorOf(store.state)
    IN \A bk \in Bindings \X Keys :
           PrefixView(c)[bk] # None =>
               view[bk] # None /\ view[bk] >= PrefixView(c)[bk]

(***************************************************************************)
(* The client's committed view is always the reduction of some prefix of   *)
(* the source at or past the durable cursor: a restart never makes a key   *)
(* go back to an older document while another key keeps a newer one.      *)
(* send_client_poll_result reports Ready on any checkpoint, so a           *)
(* transaction also commits the documents captured after its last          *)
(* checkpoint; a connector that resumes from that checkpoint sends them,   *)
(* and older ones, again.  Checked as a violation.                         *)
(***************************************************************************)
PrefixConsistent ==
    \E j \in CursorOf(store.state)..Len(Source) : view = PrefixView(j)

=============================================================================
