---------------------------- MODULE CaptureSession ----------------------------
(***************************************************************************)
(* The capture session of crates/runtime/src/capture/protocol.rs, driven   *)
(* by the session loop of spec 4.5 and 5 (the loop itself, serve.rs, is    *)
(* not under src/ and is modelled from the spec).                          *)
(*                                                                         *)
(* One session at a time runs against a durable CheckpointStore.  The      *)
(* connector sends Captured and Checkpoint frames into the accumulating    *)
(* buffer at any time while the client polls, drains the other buffer,    *)
(* commits and acknowledges.  A session may fail at any suspension point   *)
(* and ends when the client closes it; the supervisor then opens a new    *)
(* session that resumes from the store.                                    *)
(*                                                                         *)
(* Documents are abstracted to a binding index, a key from Keys and a      *)
(* value from DocVals; the binding reducer is last-write-wins.  Connector  *)
(* state is a flat object (module JsonState).                              *)
(***************************************************************************)
EXTENDS Integers, FiniteSets, JsonState

CONSTANTS NB,            \* number of bindings; index NB is the state slot
          Keys,          \* extracted primary keys (positive integers)
          DocVals,       \* document values
          Collections,   \* collection names
          CollectionOf,  \* binding index -> collection_name
          RCs,           \* runtime checkpoints a client may send
          NoRC,          \* no runtime checkpoint has been written yet
          None,          \* no document under a key
          NoState,       \* no connector-state update in a buffer
          InitialJson,   \* Open.state_json sent by the client
          ExplicitAcks,  \* task.explicit_acknowledgements
          AllowReset,    \* the connector may send merge_patch = false
          MaxFrames,     \* bound: connector frames per session
          MaxSessions    \* bound: sessions opened by the supervisor

Bindings == 0..(NB - 1)

ASSUME /\ NB \in Nat \ {0}
       /\ Keys \subseteq Nat \ {0}
       /\ CollectionOf \in [Bindings -> Collections]
       /\ InitialJson \in Doc
       /\ ExplicitAcks \in BOOLEAN /\ AllowReset \in BOOLEAN
       /\ MaxFrames \in Nat /\ MaxSessions \in Nat \ {0}

Phases == {"Init", "Opening", "Idle", "Draining", "AwaitCommit",
           "Committed", "AwaitAck", "Ended", "Failed"}

\* Phases in which a connector is open and its frames are read.
ConnectorPhases == {"Idle", "Draining", "AwaitCommit", "Committed", "AwaitAck"}

PollResults == {"Ready", "Restart", "CoolOff", "NotReady"}

VARIABLES
    store,            \* CheckpointStore: [state, rc] at the two reserved keys
    phase,            \* where the session loop is
    sessions,         \* sessions opened so far
    connectorOpen,    \* Open.state_json the connector was opened with
    openedRC,         \* Opened.runtime_checkpoint sent to the client
    acc,              \* accumulating buffer: [docs, slot]
    nxt,              \* Transaction of the accumulating buffer
    txn,              \* Transaction of the buffer being drained/committed
    drainQ,           \* drained entries still to send, in drain order
    wb,               \* WriteBatch merge at CONNECTOR_STATE_KEY, or NoState
    stats,            \* stats of the final checkpoint sent to the client
    lastCheckpoints,  \* last_checkpoints, to acknowledge to the connector
    connectorEof,     \* the connector closed its response stream
    restartElapsed,   \* task.restart has elapsed
    lastPoll,         \* last PollResult sent to the client
    emitted,          \* Captured frames sent to the client this transaction
    frames,           \* connector frames read this session (bounded)
    acked,            \* checkpoints acknowledged to the connector this session
    committedCk,      \* checkpoints made durable this session
    accFrames,        \* Checkpoint frames in the accumulating buffer
    txnFrames,        \* Checkpoint frames in the draining buffer
    accCaptures,      \* Captured frames in the accumulating buffer
    txnCaptures,      \* Captured frames in the draining buffer
    resumeState,      \* the connector's state as of its last durable commit
    shapes,           \* inferred shape of each binding
    logged,           \* inferred schema last logged for each binding
    carried           \* ghost: the shapes a session started with

storeVars   == <<store>>
sessionVars == <<phase, sessions, connectorOpen, openedRC>>
bufferVars  == <<acc, nxt, txn, drainQ, wb, stats, emitted>>
ackVars     == <<lastCheckpoints, acked, committedCk>>
connVars    == <<connectorEof, restartElapsed, lastPoll, frames>>
ghostVars   == <<accFrames, txnFrames, accCaptures, txnCaptures, resumeState>>
shapeVars   == <<shapes, logged, carried>>
vars == <<storeVars, sessionVars, bufferVars, ackVars, connVars, ghostVars,
          shapeVars>>

-----------------------------------------------------------------------------
(* Buffers and transactions *)

EmptyAcc == [docs |-> [bk \in Bindings \X Keys |-> None], slot |-> NoState]

\* Mutant: a fresh transaction forgets the EOF already read.
MutFreshTxnNoEof(eof) ==
    [checkpoints |-> 0, eof |-> FALSE, updated |-> {},
     docsIn |-> [b \in Bindings |-> 0], docsOut |-> [b \in Bindings |-> 0]]

\* Transaction::new, with no updated_inferences.  The connector's EOF is a property of the stream, so a
\* fresh transaction starts out knowing about an EOF already read.
FreshTxn(eof) ==
    [checkpoints |-> 0, eof |-> eof, updated |-> {},
     docsIn |-> [b \in Bindings |-> 0], docsOut |-> [b \in Bindings |-> 0]]

\* The combine reducer of a binding, abstracted to last-write-wins.
Reduce(l, r) == r

Entry == [index : Bindings, key : Keys, val : DocVals]
         \cup [index : {NB}, key : {0}, val : Patch]

EntryLess(x, y) == x.index < y.index \/ (x.index = y.index /\ x.key < y.key)

\* Accumulator::into_drain: every combined document in ascending
\* (binding index, packed key) order; the state slot NB sorts last.
DrainOrder(a) ==
    SetToSortSeq(
        {[index |-> bk[1], key |-> bk[2], val |-> a.docs[bk]] :
            bk \in {x \in Bindings \X Keys : a.docs[x] # None}}
        \cup (IF a.slot = NoState THEN {}
              ELSE {[index |-> NB, key |-> 0, val |-> a.slot]}),
        EntryLess)

-----------------------------------------------------------------------------
(* Unary RPCs: recv_unary *)

UnaryResponse == [Spec |-> "Spec", Discover |-> "Discovered",
                  Validate |-> "Validated", Apply |-> "Applied"]
ClientRequests  == DOMAIN UnaryResponse \cup {"Acknowledge"}
ConnectorReplies == Range(UnaryResponse) \cup {"Opened"}

RecvUnary(req, resp) ==
    /\ phase = "Init"
    /\ phase' = IF req \in DOMAIN UnaryResponse /\ resp = UnaryResponse[req]
                THEN "Ended" ELSE "Failed"
    /\ UNCHANGED <<shapeVars, storeVars, sessions, connectorOpen, openedRC, bufferVars,
                   ackVars, connVars, ghostVars>>

-----------------------------------------------------------------------------
(* Open handshake *)

\* Mutant: Open.state_json is passed to the connector as the client sent it.
MutRecvClientOpenIgnoresStore ==
    /\ phase = "Init"
    /\ phase' = "Opening"
    /\ connectorOpen' = InitialJson
    /\ UNCHANGED <<shapeVars, storeVars, sessions, openedRC, bufferVars, ackVars,
                   connVars, ghostVars>>

\* recv_client_first_open + recv_client_open: open the store and replace
\* Open.state_json by the persisted state merge-patched onto it.
RecvClientOpen ==
    /\ phase = "Init"
    /\ phase' = "Opening"
    /\ connectorOpen' = ApplyPatch(InitialJson, store.state)
    /\ UNCHANGED <<shapeVars, storeVars, sessions, openedRC, bufferVars, ackVars,
                   connVars, ghostVars>>

\* The Open lacks open or capture, its state_json does not parse, or the
\* store cannot be opened.
RecvClientOpenFailed ==
    /\ phase = "Init"
    /\ phase' = "Failed"
    /\ UNCHANGED <<shapeVars, storeVars, sessions, connectorOpen, openedRC, bufferVars,
                   ackVars, connVars, ghostVars>>

\* recv_connector_opened: allocate the task, both accumulators and the
\* transactions, and attach the persisted runtime checkpoint to Opened.
RecvConnectorOpened ==
    /\ phase = "Opening"
    /\ phase' = "Idle"
    /\ openedRC' = store.rc
    /\ acc' = EmptyAcc
    /\ nxt' = FreshTxn(FALSE)
    /\ txn' = FreshTxn(FALSE)
    /\ UNCHANGED <<shapeVars, storeVars, sessions, connectorOpen, drainQ, wb, stats,
                   emitted, ackVars, connVars, ghostVars>>

\* The connector answers Open with EOF or another response.
RecvConnectorOpenedFailed ==
    /\ phase = "Opening"
    /\ phase' = "Failed"
    /\ UNCHANGED <<shapeVars, storeVars, sessions, connectorOpen, openedRC, bufferVars,
                   ackVars, connVars, ghostVars>>

-----------------------------------------------------------------------------
(* Connector frames, read into the accumulating buffer *)

CanReadConnector ==
    /\ phase \in ConnectorPhases
    /\ ~connectorEof
    /\ frames < MaxFrames

\* Mutant: the combined document keeps the first capture of a key.
MutRecvConnectorCapturedKeepFirst(b, k, v) ==
    /\ CanReadConnector
    /\ acc' = [acc EXCEPT !.docs[<<b, k>>] = IF @ = None THEN v ELSE @]
    /\ nxt' = [nxt EXCEPT !.docsIn[b] = @ + 1]
    /\ frames' = frames + 1
    /\ accCaptures' = Append(accCaptures, [index |-> b, key |-> k, val |-> v])
    /\ UNCHANGED <<shapeVars, storeVars, sessionVars, txn, drainQ, wb, stats, emitted,
                   ackVars, connectorEof, restartElapsed, lastPoll,
                   accFrames, txnFrames, txnCaptures, resumeState>>

\* Mutant: the binding index is not checked against task.bindings, so a
\* document captured at index NB is added to the connector-state slot.
MutRecvConnectorCapturedNoIndexCheck(b, k, v) ==
    /\ CanReadConnector
    /\ IF b \in Bindings
       THEN /\ acc' = [acc EXCEPT !.docs[<<b, k>>] = IF @ = None THEN v ELSE Reduce(@, v)]
            /\ nxt' = [nxt EXCEPT !.docsIn[b] = @ + 1]
       ELSE /\ \E doc \in Patch :
                 acc' = [acc EXCEPT !.slot = CombinePatch(IF @ = NoState THEN EmptyPatch
                                                          ELSE @, doc)]
            /\ UNCHANGED nxt
    /\ frames' = frames + 1
    /\ accCaptures' = Append(accCaptures, [index |-> b, key |-> k, val |-> v])
    /\ UNCHANGED <<shapeVars, storeVars, sessionVars, txn, drainQ, wb, stats, emitted,
                   ackVars, connectorEof, restartElapsed, lastPoll,
                   accFrames, txnFrames, txnCaptures, resumeState>>

\* Mutant: while a buffer drains, a document goes into the draining
\* accumulator, whose drain has begun and which is reset when it ends.
MutRecvConnectorCapturedIntoDraining(b, k, v) ==
    /\ CanReadConnector
    /\ b \in Bindings
    /\ acc' = IF phase = "Draining" THEN acc
              ELSE [acc EXCEPT !.docs[<<b, k>>] = IF @ = None THEN v ELSE Reduce(@, v)]
    /\ nxt' = [nxt EXCEPT !.docsIn[b] = @ + 1]
    /\ frames' = frames + 1
    /\ accCaptures' = Append(accCaptures, [index |-> b, key |-> k, val |-> v])
    /\ UNCHANGED <<shapeVars, storeVars, sessionVars, txn, drainQ, wb, stats, emitted,
                   ackVars, connectorEof, restartElapsed, lastPoll,
                   accFrames, txnFrames, txnCaptures, resumeState>>

\* recv_connector_captured: task.bindings.get(binding) finds the binding
\* (index NB, the state slot, is not one), the document is added to the
\* accumulating buffer and counted in stats.
RecvConnectorCaptured(b, k, v) ==
    /\ CanReadConnector
    /\ b \in Bindings
    /\ acc' = [acc EXCEPT !.docs[<<b, k>>] =
                   IF @ = None THEN v ELSE Reduce(@, v)]
    /\ nxt' = [nxt EXCEPT !.docsIn[b] = @ + 1]
    /\ frames' = frames + 1
    /\ accCaptures' = Append(accCaptures, [index |-> b, key |-> k, val |-> v])
    /\ UNCHANGED <<shapeVars, storeVars, sessionVars, txn, drainQ, wb, stats, emitted,
                   ackVars, connectorEof, restartElapsed, lastPoll,
                   accFrames, txnFrames, txnCaptures, resumeState>>

\* recv_connector_captured: the document does not parse, or its binding
\* index is out of range ("invalid captured binding").
RecvConnectorCapturedInvalid ==
    /\ CanReadConnector
    /\ phase' = "Failed"
    /\ frames' = frames + 1
    /\ UNCHANGED <<shapeVars, storeVars, sessions, connectorOpen, openedRC, bufferVars,
                   ackVars, connectorEof, restartElapsed, lastPoll, ghostVars>>

\* Mutant: every checkpoint replaces the state slot instead of combining.
MutRecvConnectorCheckpointReplace(fr) ==
    /\ CanReadConnector
    /\ fr.merge \/ AllowReset
    /\ acc' = [acc EXCEPT !.slot = CombinePatch(EmptyPatch, fr.patch)]
    /\ nxt' = [nxt EXCEPT !.checkpoints = @ + 1]
    /\ frames' = frames + 1
    /\ accFrames' = Append(accFrames, fr)
    /\ UNCHANGED <<shapeVars, storeVars, sessionVars, txn, drainQ, wb, stats, emitted,
                   ackVars, connectorEof, restartElapsed, lastPoll,
                   txnFrames, accCaptures, txnCaptures, resumeState>>

\* recv_connector_checkpoint: without merge_patch a null is added to the
\* state slot first, which makes the update a full replacement.
RecvConnectorCheckpoint(fr) ==
    /\ CanReadConnector
    /\ fr.merge \/ AllowReset
    /\ LET base == IF fr.merge /\ acc.slot # NoState THEN acc.slot ELSE EmptyPatch
       IN  acc' = [acc EXCEPT !.slot = CombinePatch(base, fr.patch)]
    /\ nxt' = [nxt EXCEPT !.checkpoints = @ + 1]
    /\ frames' = frames + 1
    /\ accFrames' = Append(accFrames, fr)
    /\ UNCHANGED <<shapeVars, storeVars, sessionVars, txn, drainQ, wb, stats, emitted,
                   ackVars, connectorEof, restartElapsed, lastPoll,
                   txnFrames, accCaptures, txnCaptures, resumeState>>

\* recv_connector_checkpoint: a Checkpoint without state, or updated_json
\* that does not parse.
RecvConnectorCheckpointInvalid ==
    /\ CanReadConnector
    /\ phase' = "Failed"
    /\ frames' = frames + 1
    /\ UNCHANGED <<shapeVars, storeVars, sessions, connectorOpen, openedRC, bufferVars,
                   ackVars, connectorEof, restartElapsed, lastPoll, ghostVars>>

\* The connector closes its response stream.
ConnectorEof ==
    /\ phase \in ConnectorPhases
    /\ ~connectorEof
    /\ connectorEof' = TRUE
    /\ nxt' = [nxt EXCEPT !.eof = TRUE]
    /\ UNCHANGED <<shapeVars, storeVars, sessionVars, acc, txn, drainQ, wb, stats, emitted,
                   ackVars, restartElapsed, lastPoll, frames, ghostVars>>

\* Wall-clock time passes the task.restart deadline.
RestartElapses ==
    /\ phase \in ConnectorPhases
    /\ ~restartElapsed
    /\ restartElapsed' = TRUE
    /\ UNCHANGED <<shapeVars, storeVars, sessionVars, bufferVars, ackVars, connectorEof,
                   lastPoll, frames, ghostVars>>

-----------------------------------------------------------------------------
(* Poll, drain and final checkpoint *)

\* Mutant: EOF is tested before pending checkpoints.
MutPollResultEofFirst(t, elapsed) ==
    IF t.eof /\ elapsed THEN "Restart"
    ELSE IF t.eof THEN "CoolOff"
    ELSE IF t.checkpoints # 0 THEN "Ready"
    ELSE "NotReady"

PollResultOf(t, elapsed) ==
    IF t.checkpoints # 0 THEN "Ready"
    ELSE IF t.eof /\ elapsed THEN "Restart"
    ELSE IF t.eof THEN "CoolOff"
    ELSE "NotReady"

\* The client polls: send_client_poll_result.  On Ready the session swaps
\* the buffers and starts draining the one that was accumulating.
RecvClientPoll ==
    /\ phase = "Idle"
    /\ LET result == PollResultOf(nxt, restartElapsed)
       IN /\ lastPoll' = result
          /\ IF result = "Ready"
             THEN /\ phase' = "Draining"
                  /\ drainQ' = DrainOrder(acc)
                  /\ acc' = EmptyAcc
                  /\ txn' = nxt
                  /\ nxt' = FreshTxn(connectorEof)
                  /\ wb' = NoState
                  /\ emitted' = {}
                  /\ txnFrames' = accFrames
                  /\ accFrames' = <<>>
                  /\ txnCaptures' = accCaptures
                  /\ accCaptures' = <<>>
             ELSE UNCHANGED <<shapeVars, phase, acc, txn, nxt, drainQ, wb, emitted, ghostVars>>
    /\ UNCHANGED <<shapeVars, storeVars, sessions, connectorOpen, openedRC, stats, resumeState,
                   ackVars, connectorEof, restartElapsed, frames>>

\* Shape::widen_owned with the complexity limit: the values a binding's
\* documents have shown; it changed when the value is new.
Widen(shape, v) == shape \cup {v}

\* Mutant: a widened shape is not recorded in updated_inferences.
MutDrainCapturedNoInference ==
    /\ phase = "Draining"
    /\ drainQ # <<>>
    /\ Head(drainQ).index # NB
    /\ LET e == Head(drainQ)
       IN /\ emitted' = emitted \cup {e}
          /\ txn' = [txn EXCEPT !.docsOut[e.index] = @ + 1]
          /\ shapes' = [shapes EXCEPT ![e.index] = Widen(@, e.val)]
    /\ drainQ' = Tail(drainQ)
    /\ UNCHANGED <<logged, carried, storeVars, sessionVars, acc, nxt, wb, stats, ackVars,
                   connVars, ghostVars>>

\* send_client_captured_or_checkpoint for a document of a binding: count
\* it, and widen the binding's shape, noting the binding in
\* updated_inferences when the shape changed.
DrainCaptured ==
    /\ phase = "Draining"
    /\ drainQ # <<>>
    /\ Head(drainQ).index # NB
    /\ LET e == Head(drainQ)
           w == Widen(shapes[e.index], e.val)
       IN /\ emitted' = emitted \cup {e}
          /\ txn' = [txn EXCEPT !.docsOut[e.index] = @ + 1,
                                !.updated = IF w # shapes[e.index] THEN @ \cup {e.index}
                                            ELSE @]
          /\ shapes' = [shapes EXCEPT ![e.index] = w]
    /\ drainQ' = Tail(drainQ)
    /\ UNCHANGED <<logged, carried, storeVars, sessionVars, acc, nxt, wb, stats, ackVars,
                   connVars, ghostVars>>

\* Mutant: the whole drained entry, not its document, goes into the batch.
MutDrainStateWholeEntry ==
    /\ phase = "Draining"
    /\ drainQ # <<>>
    /\ Head(drainQ).index = NB
    /\ wb' = Head(drainQ)
    /\ drainQ' = Tail(drainQ)
    /\ UNCHANGED <<shapeVars, storeVars, sessionVars, acc, nxt, txn, stats, emitted,
                   ackVars, connVars, ghostVars>>

\* send_client_captured_or_checkpoint for the state slot: merge the
\* combined update at CONNECTOR_STATE_KEY and send it with merge_patch.
DrainState ==
    /\ phase = "Draining"
    /\ drainQ # <<>>
    /\ Head(drainQ).index = NB
    /\ wb' = Head(drainQ).val
    /\ drainQ' = Tail(drainQ)
    /\ UNCHANGED <<shapeVars, storeVars, sessionVars, acc, nxt, txn, stats, emitted,
                   ackVars, connVars, ghostVars>>

\* Mutant: outgoing stats are aggregated from the incoming counters.
MutSendClientFinalCheckpointInAsOut ==
    /\ phase = "Draining"
    /\ drainQ = <<>>
    /\ phase' = "AwaitCommit"
    /\ stats' = [c \in Collections |->
                   LET bs == {b \in Bindings : CollectionOf[b] = c}
                   IN [right |-> SumFunctionOnSet(txn.docsIn, bs),
                       out   |-> SumFunctionOnSet(txn.docsIn, bs)]]
    /\ UNCHANGED <<shapeVars, storeVars, sessions, connectorOpen, openedRC, acc, nxt, txn,
                   drainQ, wb, emitted, ackVars, connVars, ghostVars>>

\* send_client_final_checkpoint: stats summed per collection_name.
SendClientFinalCheckpoint ==
    /\ phase = "Draining"
    /\ drainQ = <<>>
    /\ phase' = "AwaitCommit"
    /\ stats' = [c \in Collections |->
                   LET bs == {b \in Bindings : CollectionOf[b] = c}
                   IN [right |-> SumFunctionOnSet(txn.docsIn, bs),
                       out   |-> SumFunctionOnSet(txn.docsOut, bs)]]
    /\ UNCHANGED <<shapeVars, storeVars, sessions, connectorOpen, openedRC, acc, nxt, txn,
                   drainQ, wb, emitted, ackVars, connVars, ghostVars>>

-----------------------------------------------------------------------------
(* Commit and acknowledgement *)

\* The schemas logged for the transaction's updated_inferences.
LogInferences(t) == [b \in Bindings |-> IF b \in t.updated THEN shapes[b] ELSE logged[b]]

\* recv_client_start_commit: put the runtime checkpoint into the batch, log
\* the inferred schemas that changed, and write the batch atomically.
RecvClientStartCommit(rc) ==
    /\ phase = "AwaitCommit"
    /\ phase' = "Committed"
    /\ logged' = LogInferences(txn)
    /\ store' = [state |-> IF wb = NoState THEN store.state
                           ELSE ApplyPatch(store.state, wb),
                 rc    |-> rc]
    /\ committedCk' = committedCk + txn.checkpoints
    /\ txnFrames' = <<>>
    /\ resumeState' = FoldFrames(resumeState, txnFrames)
    /\ UNCHANGED <<shapes, carried, sessions, connectorOpen, openedRC, bufferVars,
                   lastCheckpoints, acked, connVars,
                   accFrames, accCaptures, txnCaptures>>

\* recv_client_start_commit: the client's stream ends, the request lacks a
\* runtime_checkpoint, or the RocksDB write fails after the schemas were
\* logged.  Nothing is written.
RecvClientStartCommitFailed ==
    /\ phase = "AwaitCommit"
    /\ phase' = "Failed"
    /\ logged' \in {logged, LogInferences(txn)}
    /\ UNCHANGED <<shapes, carried, storeVars, sessions, connectorOpen, openedRC, bufferVars,
                   ackVars, connVars, ghostVars>>

\* send_client_started_commit, after which the loop remembers the
\* transaction's checkpoints for the next acknowledgement.
SendClientStartedCommit ==
    /\ phase = "Committed"
    /\ phase' = "AwaitAck"
    /\ lastCheckpoints' = txn.checkpoints
    /\ UNCHANGED <<shapeVars, storeVars, sessions, connectorOpen, openedRC, bufferVars,
                   acked, committedCk, connVars, ghostVars>>

\* The client acknowledges the commit: send_connector_acknowledge.
RecvClientAcknowledge ==
    /\ phase = "AwaitAck"
    /\ phase' = "Idle"
    /\ IF lastCheckpoints # 0 /\ ExplicitAcks
       THEN /\ acked' = acked + lastCheckpoints
            /\ lastCheckpoints' = 0
       ELSE UNCHANGED <<shapeVars, acked, lastCheckpoints>>
    /\ UNCHANGED <<shapeVars, storeVars, sessions, connectorOpen, openedRC, bufferVars,
                   committedCk, connVars, ghostVars>>

-----------------------------------------------------------------------------
(* Session end, failure and restart *)

\* The client ends the session after a Restart or CoolOff poll result.
ClientClose ==
    /\ phase = "Idle"
    /\ lastPoll \in {"Restart", "CoolOff"}
    /\ phase' = "Ended"
    /\ UNCHANGED <<shapeVars, storeVars, sessions, connectorOpen, openedRC, bufferVars,
                   ackVars, connVars, ghostVars>>

\* Either stream ends unexpectedly, or an I/O error or cancellation hits a
\* suspension point: the session releases everything it holds.
SessionFails ==
    /\ phase \in ConnectorPhases \cup {"Opening"}
    /\ phase' = "Failed"
    /\ UNCHANGED <<shapeVars, storeVars, sessions, connectorOpen, openedRC, bufferVars,
                   ackVars, connVars, ghostVars>>

\* The supervisor establishes a fresh session; only the store and the
\* inferred shapes, which the caller keeps by state_key (spec 4.4), survive.
NewSession ==
    /\ phase \in {"Ended", "Failed"}
    /\ sessions < MaxSessions
    /\ phase' = "Init"
    /\ sessions' = sessions + 1
    /\ acc' = EmptyAcc
    /\ nxt' = FreshTxn(FALSE)
    /\ txn' = FreshTxn(FALSE)
    /\ drainQ' = <<>>
    /\ wb' = NoState
    /\ stats' = [c \in Collections |-> [right |-> 0, out |-> 0]]
    /\ emitted' = {}
    /\ lastCheckpoints' = 0
    /\ acked' = 0
    /\ committedCk' = 0
    /\ connectorEof' = FALSE
    /\ restartElapsed' = FALSE
    /\ lastPoll' = "NotReady"
    /\ frames' = 0
    /\ accFrames' = <<>>
    /\ txnFrames' = <<>>
    /\ accCaptures' = <<>>
    /\ txnCaptures' = <<>>
    /\ carried' = shapes
    /\ UNCHANGED <<shapes, logged, resumeState, storeVars, connectorOpen, openedRC>>

\* The last session has ended and the supervisor opens no more.
Done ==
    /\ phase \in {"Ended", "Failed"}
    /\ sessions = MaxSessions
    /\ UNCHANGED vars

-----------------------------------------------------------------------------

Init ==
    /\ store = [state |-> EmptyDoc, rc |-> NoRC]
    /\ phase = "Init"
    /\ sessions = 1
    /\ connectorOpen = EmptyDoc
    /\ openedRC = NoRC
    /\ acc = EmptyAcc
    /\ nxt = FreshTxn(FALSE)
    /\ txn = FreshTxn(FALSE)
    /\ drainQ = <<>>
    /\ wb = NoState
    /\ stats = [c \in Collections |-> [right |-> 0, out |-> 0]]
    /\ emitted = {}
    /\ lastCheckpoints = 0
    /\ acked = 0
    /\ committedCk = 0
    /\ connectorEof = FALSE
    /\ restartElapsed = FALSE
    /\ lastPoll = "NotReady"
    /\ frames = 0
    /\ accFrames = <<>>
    /\ txnFrames = <<>>
    /\ accCaptures = <<>>
    /\ txnCaptures = <<>>
    /\ resumeState = InitialJson
    /\ shapes = [b \in Bindings |-> {}]
    /\ logged = [b \in Bindings |-> {}]
    /\ carried = [b \in Bindings |-> {}]

Next ==
    \/ \E req \in ClientRequests, resp \in ConnectorReplies : RecvUnary(req, resp)
    \/ RecvClientOpen \/ RecvClientOpenFailed
    \/ RecvConnectorOpened \/ RecvConnectorOpenedFailed
    \/ \E b \in 0..NB, k \in Keys, v \in DocVals : RecvConnectorCaptured(b, k, v)
    \/ RecvConnectorCapturedInvalid
    \/ \E fr \in Frame : RecvConnectorCheckpoint(fr)
    \/ RecvConnectorCheckpointInvalid
    \/ ConnectorEof \/ RestartElapses
    \/ RecvClientPoll \/ DrainCaptured \/ DrainState \/ SendClientFinalCheckpoint
    \/ \E rc \in RCs : RecvClientStartCommit(rc)
    \/ RecvClientStartCommitFailed
    \/ SendClientStartedCommit \/ RecvClientAcknowledge
    \/ ClientClose \/ SessionFails \/ NewSession \/ Done

(***************************************************************************)
(* Fairness.  The session loop never stops on its own between receiving a *)
(* frame and answering it, so its own steps are weakly fair.  The client  *)
(* is the Flow consumer, which keeps polling, commits every transaction    *)
(* it is handed, acknowledges every commit and closes a session that      *)
(* reported Restart or CoolOff; those steps are weakly fair too.  The     *)
(* connector, failures and new sessions are not.                           *)
(***************************************************************************)
Fairness ==
    /\ WF_vars(RecvClientPoll)
    /\ WF_vars(DrainCaptured) /\ WF_vars(DrainState)
    /\ WF_vars(SendClientFinalCheckpoint)
    /\ WF_vars(\E rc \in RCs : RecvClientStartCommit(rc))
    /\ WF_vars(SendClientStartedCommit)
    /\ WF_vars(RecvClientAcknowledge)
    /\ WF_vars(ClientClose)

Spec == Init /\ [][Next]_vars /\ Fairness


-----------------------------------------------------------------------------
(* Properties *)

TypeOK ==
    /\ store \in [state : Doc, rc : RCs \cup {NoRC}]
    /\ phase \in Phases
    /\ sessions \in 1..MaxSessions
    /\ acc \in [docs : [Bindings \X Keys -> DocVals \cup {None}],
                slot : Patch \cup {NoState}]
    /\ nxt \in [checkpoints : Nat, eof : BOOLEAN, updated : SUBSET Bindings,
                docsIn : [Bindings -> Nat], docsOut : [Bindings -> Nat]]
    /\ drainQ \in Seq(Entry)
    /\ wb \in Patch \cup {NoState}
    /\ lastCheckpoints \in Nat
    /\ lastPoll \in PollResults
    /\ frames \in 0..MaxFrames
    /\ \A f \in {shapes, logged, carried} : f \in [Bindings -> SUBSET DocVals]

\* The value the binding reducer folds the captures of one key down to.
LastCapture(caps, b, k) ==
    caps[Max({i \in DOMAIN caps : caps[i].index = b /\ caps[i].key = k})].val

CommittingPhases == {"AwaitCommit", "Committed", "AwaitAck"}

(***************************************************************************)
(* Key stability (spec 8.4): once a transaction is drained, the client has *)
(* received exactly one Captured frame for every (binding, key) the        *)
(* connector captured into that buffer, carrying the reduction of all of   *)
(* them, and nothing captured into the other buffer while it drained.      *)
(* About recv_connector_captured, the buffer swap on Ready and             *)
(* send_client_captured_or_checkpoint.                                     *)
(***************************************************************************)
KeyStability ==
    phase \in CommittingPhases =>
        emitted = {[index |-> c.index, key |-> c.key,
                    val |-> LastCapture(txnCaptures, c.index, c.key)] :
                       c \in Range(txnCaptures)}

(***************************************************************************)
(* Stats conservation (spec 8.3): the final stats checkpoint counts, per   *)
(* collection, every document the connector captured in the transaction   *)
(* as incoming and every distinct key sent to the client as outgoing,      *)
(* summing the bindings that share a collection.  About the stats updates  *)
(* of recv_connector_captured and send_client_captured_or_checkpoint and   *)
(* their aggregation in send_client_final_checkpoint.                      *)
(***************************************************************************)
StatsConservation ==
    phase \in CommittingPhases =>
        \A c \in Collections :
            LET caps == {i \in DOMAIN txnCaptures :
                            CollectionOf[txnCaptures[i].index] = c}
            IN /\ stats[c].right = Cardinality(caps)
               /\ stats[c].out = Cardinality({<<txnCaptures[i].index,
                                                 txnCaptures[i].key>> : i \in caps})

(***************************************************************************)
(* Inferred schemas are logged before the commit that makes their          *)
(* documents durable (recv_client_start_commit logs updated_inferences    *)
(* before writing the batch): once a transaction has committed, every     *)
(* value a drained document added to a binding's shape in this session is  *)
(* in the schema logged for it, and no logged schema is wider than the     *)
(* shape.  Shapes widen during drain (send_client_captured_or_checkpoint), *)
(* several steps before the commit, while the next transaction fills.     *)
(***************************************************************************)
InferredSchemasLogged ==
    /\ \A b \in Bindings : logged[b] \subseteq shapes[b]
    /\ \A b \in Bindings : {e.val : e \in {c \in emitted : c.index = b}} \subseteq shapes[b]
    /\ phase \in {"Committed", "AwaitAck"} =>
           \A b \in Bindings : shapes[b] \ carried[b] \subseteq logged[b]

(***************************************************************************)
(* Every document of a committed transaction has its value in the schema  *)
(* logged for its binding, across sessions too.  Shapes outlive a failed   *)
(* session (spec 4.4), but updated_inferences only names bindings whose    *)
(* shape changed in the committing transaction, so a widening by a         *)
(* transaction that failed before its commit is never logged when the      *)
(* next session commits the same documents.  Checked as a violation.      *)
(***************************************************************************)
CommittedShapesLogged ==
    phase \in {"Committed", "AwaitAck"} => \A e \in emitted : e.val \in logged[e.index]

(***************************************************************************)
(* Crash recovery (recv_client_open, load_connector_state, spec 4.2 and    *)
(* 7): whatever step a session failed at, the next connector is opened     *)
(* with exactly the state the previous connectors had reported as of the  *)
(* last durable commit, the fold of the committed Checkpoint frames onto   *)
(* the state the first connector was opened with.  Neither uncommitted     *)
(* frames nor a failed write may show through.                             *)
(***************************************************************************)
ResumeFromLastCommit == phase = "Opening" => connectorOpen = resumeState

(***************************************************************************)
(* Round trip and atomicity (spec 8.1, 8.2, I6): the store refines         *)
(* CheckpointLog.  Its connector state is always the fold of the           *)
(* Checkpoint frames of the committed transactions, in the order the       *)
(* connector sent them, and it changes only together with the runtime      *)
(* checkpoint of the same StartCommit.  About recv_connector_checkpoint,   *)
(* the state-slot branch of send_client_captured_or_checkpoint and         *)
(* recv_client_start_commit.                                               *)
(***************************************************************************)
CL == INSTANCE CheckpointLog WITH durable <- store,
                                  uncommitted <- txnFrames \o accFrames

CheckpointRefinement == CL!Spec

\* Checkpoint frames received in this session.
ReceivedCk == committedCk + Len(txnFrames) + Len(accFrames)

(***************************************************************************)
(* Every Checkpoint the connector sends is eventually made durable, unless *)
(* the session fails first.  About the poll result (Ready whenever         *)
(* checkpoints are pending) and the drain/commit cycle that follows it.    *)
(***************************************************************************)
CheckpointsCommitted ==
    \A s \in 1..MaxSessions, n \in 1..MaxFrames :
        (sessions = s /\ ReceivedCk >= n)
            ~> (sessions # s \/ phase = "Failed" \/ committedCk >= n)

(***************************************************************************)
(* After the connector closes its stream the session eventually ends: all *)
(* pending checkpoints are committed and a later poll reports Restart or  *)
(* CoolOff.  About send_client_poll_result and the EOF the next           *)
(* transaction inherits from the swapped one.                              *)
(***************************************************************************)
EofEndsSession ==
    \A s \in 1..MaxSessions :
        (sessions = s /\ connectorEof)
            ~> (sessions # s \/ phase \in {"Ended", "Failed"})

=============================================================================
