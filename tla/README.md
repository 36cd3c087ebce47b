# TLA+ models of the Flow capture runtime

These modules model the capture session protocol of
`src/crates/runtime/src/capture/protocol.rs` with its shape inference, the
checkpoint store it writes, the JSON type bitset of `src/json/schema/types.rs`,
the resolution and application of publications in
`src/crates/agent/src/publications/specs.rs`, and the field selection of
`src/crates/materialization/src/selection_ui.rs`. TLC checks the
properties those parts must keep. The rest of this file covers:

- the inventory of the system;
- the plan, in the order the modules are built;
- how each module matches the code;
- what each run shows, with its bounds and fairness;
- what is left out, and why.

## 1. Inventory

| Part | Source | State | Operations | Modelled by |
|---|---|---|---|---|
| Capture session (C5) | `capture/protocol.rs` | session phase; the open connector state; the two accumulators (one accumulating, one draining); the current and next `Transaction`; the write batch; stats; `last_checkpoints` | one handler per client or connector message: `recv_unary`, `recv_client_open`, `recv_connector_opened`, `recv_connector_captured`, `recv_connector_checkpoint`, `send_client_poll_result`, `send_client_captured_or_checkpoint`, `send_client_final_checkpoint`, `recv_client_start_commit`, `send_client_started_commit`, `send_connector_acknowledge` | `CaptureSession` |
| Combine accumulator (C3) | `crates/doc` (not under src/) | map (binding, key) → combined doc; the connector-state slot | add, swap, drain in key order | `CaptureSession` (spec-modelled) |
| Checkpoint store (C2) | `runtime/src/rocksdb.rs` (not under src/) | connector state and runtime checkpoint | load, atomic `WriteBatch`, merge operator | `JsonState`, `CheckpointLog`, the `store` variable |
| Connector and client (environment) | not in this repository (spec 2, 7) | the connector's source position; the client's committed documents | send a record, checkpoint the cursor, resume from the opened state; commit with StartCommit | `CaptureConnector` (spec-modelled) |
| Shape inference (C4) | `protocol.rs:188-194`, `284-297` | per-binding shape; the schema last logged | widen on drain, `updated_inferences`, log before the commit write | `CaptureSession` (`shapes`, `logged`) |
| Type set (C1) | `json/schema/types.rs` | a u32 bitset | `|`, `&`, `!`, `for_value`, `for_type_name`, `iter`, `overlaps`, `is_single_scalar_type` | `TypeSet` |
| Publications | `agent/src/publications/specs.rs` | draft, live and publication spec rows; row locks; each transaction's uncommitted writes | resolve with row locks, validate, record errors, apply | `Publications`, `MCPublications` |
| Field selection UI | `materialization/src/selection_ui.rs` | selected projections | pre-select, toggle, accept, abort, validate, sort | `FieldSelection` |
| Derive config types | `src/specs/derive.rs` | none | none | not modelled (plain data types) |
| JSON format tests | `json/tests/draft2019_format_tests.rs` | none | none | not modelled (generated tests) |

How the parts interact: a client (the runtime shuffler or a test) drives a
session with unary requests, and the connector streams frames back.

- `Captured` frames go into the accumulating buffer.
- `Checkpoint` frames combine into that buffer's connector-state slot.
- A `Poll` that finds the next transaction ready swaps the two buffers.
- The drained buffer streams documents, then its state update into the write
  batch, then final stats.
- `StartCommit` writes the batch and the runtime checkpoint in one RocksDB
  write.
- After `StartedCommit` the client's `Acknowledge` tells the connector how
  many checkpoints are now durable.
- A new session loads the stored state and opens the connector with it.

The hard behaviours:

- The two buffers interleave: the next transaction fills while the previous
  one drains and commits.
- A failure or restart can happen between any two steps.
- The connector can reach EOF while a transaction is still pending.
- The restart deadline can race that EOF.
- Acknowledgements are counted per transaction.
- Shapes widen at drain but are logged only at the next commit.

The publications part is independent of the capture runtime. Several
publications run `resolve_specifications`, validation and
`apply_updates_for_row` in concurrent read-committed Postgres transactions,
while users edit drafts. Their row locks, waits and Postgres' deadlock
detector decide the interleaving. The selection UI is a single-user
sequential function: the user toggles pre-selected fields, then accepts or
cancels.

## 2. Plan

Modules, in build order:

1. `JsonState`: flat JSON documents, RFC 7396 merge patches, and Checkpoint
   frames. It holds the semantics of the store's merge operator and of the
   state-slot reducer.
2. `CheckpointLog`: the abstract promise about connector checkpoints. Frames
   are received, and a prefix of them commits atomically together with a
   runtime checkpoint, or is abandoned.
3. `CaptureSession`: the whole session protocol, one action per handler,
   plus the store. It is composed with the abstract log by
   `CL == INSTANCE CheckpointLog WITH durable <- store, uncommitted <- txnFrames \o accFrames`.
   The ghost sequences hold the frames received into the draining and the
   accumulating buffer.
4. `MCCaptureSession`: the constant definitions for the cfgs.
5. `TypeSet`: the bitset, with a reference set semantics beside it.
6. `Publications` and `MCPublications`: concurrent publications, one action
   per statement row, with the Postgres behaviour they rely on.
7. `PublicationsSerial`: the abstract promise of publishing. Each
   publication is one atomic step against the committed tables. It publishes
   some of its draft's specs, all valid, or records the invalid ones as
   errors. `Publications` refines it by
   `Serial == INSTANCE PublicationsSerial WITH history <- ...`. The mapping
   keeps the tables and reduces `publication_specs` rows to
   (name, publication, type).
8. `FieldSelection`: `DefaultPreSelector` and `interactive_select_projections`.
9. `CaptureConnector` and `MCCaptureConnector`: `CaptureSession` composed
   with a connector that reads an append-only source and checkpoints its
   cursor, and with the client's committed view of the documents. It
   extends `CaptureSession` and restricts the connector's frames to those
   such a connector sends.


## 3. Correspondence

`CaptureSession` variables:

- `store`: the RocksDB contents.
- `phase`: the session's position in the protocol.
- `acc` and `nxt`: the draining and the accumulating `Accumulator`. Each is a
  map (binding, key) → document plus the state slot.
- `txn`: the draining `Transaction`. It holds `checkpoints`, `stats` and
  `connector_eof`.
- `drainQ`: what remains of the drain, in `DrainOrder`.
- `wb`: the staged state merge of the write batch.
- `lastCheckpoints`: the driver's count for the next `Acknowledge`.
- `emitted` and `frames`: the client's view of what was drained.
- `acked` and `committedCk`: the connector's acknowledged count and the count
  made durable.
- The ghosts `accFrames`, `txnFrames`, `accCaptures` and `txnCaptures` record
  what each buffer received.
- The ghost `resumeState` is the connector's own view of its state as of the
  last durable commit. It starts as `Open.state_json`, and each
  `StartCommit` folds the committed frames onto it.

`RecvConnectorCaptured` is enumerated over binding indices `0..NB`. Its guard
`b \in Bindings` is the `task.bindings.get(binding)` check. The index `NB`,
the accumulator's state slot, is never accepted, so such a frame can only
fail the session (`RecvConnectorCapturedInvalid`).

Each handler is one action, and PROJECT.json "map" gives the exact lines of
each. An error return (bad binding index, missing state, a failed write)
becomes a `...Failed` or `...Invalid` action. That action moves the session
to `Failed` without touching the store.

Shape inference: `shapes[b]` is the set of document values binding `b`
has shown. `Widen` is the union, and the shape "changed" when the value is
new. `DrainCaptured` widens it and adds `b` to `txn.updated` when it changed
(lines 188-194). `RecvClientStartCommit` sets `logged[b]` to the shape of
each binding in `txn.updated` (`LogInferences`, lines 288-297) in the same
step as the write. The failed variant may or may not have logged, because
the log comes before the write. Shapes survive a new session (spec 4.4). The
ghost `carried` holds the shapes a session started with.

The session loop, the supervisor and connector EOF are not under src/. They
are the actions `ConnectorEof`, `RestartElapses`, `ClientClose`,
`SessionFails` and `NewSession`, modelled from spec sections 5 and 7.

`CaptureConnector` adds two variables. `pos` is the connector's position
in `Source`, the last record it sent. `view` holds, per (binding, key), the
documents the client's committed transactions hold. A record's value is its
position, so a committed value says which record it came from. The
connector's actions conjoin the session's handlers:

- `ConnectorOpened` is `RecvConnectorOpened`, with the connector resuming
  after the cursor of the state it was opened with.
- `ConnectorSends` is `RecvConnectorCaptured` of the next record.
- `ConnectorCheckpoints` is `RecvConnectorCheckpoint` of a merge-patch that
  sets the cursor to `pos`.
- `ClientCommits` is `RecvClientStartCommit`. The client's transaction
  commits the documents drained to it, together with the runtime checkpoint.
- `SessionStep` is every other action, which leaves `pos` and `view` alone.

`Publications` variables:

- committed tables: `draftT` (draft_specs), `liveT` (live_specs), `pubT`
  (publication_specs, in commit order) and `errT` (draft_errors);
- each transaction's uncommitted writes: `liveW`, `draftW` and `pubW`;
- row locks: `dlock` and `llock`;
- per transaction: `pc`, the rows its statement still has to visit (`todo`),
  the row it waits on (`waitOn`), and the `SpecRow`s the join returned
  (`rows`).

Each statement runs row by row, so another transaction can interleave between
rows, as Postgres allows.

- `InsertRow` is the insert statement: `for update of draft_specs`, then
  `on conflict do nothing`.
- `SelectRow` is the join: `for update of draft_specs, live_specs`. It re-reads
  the latest row versions and drops rows deleted meanwhile.
- `Validate` applies `validate_transition` and `extend_catalog` to the rows.
  When there are errors the transaction rolls back and `insert_errors` records
  them.
- `ApplyRow` is `apply_updates_for_row`. A missing row fails the transaction.
- `Wait` blocks a statement on a lock.
- `DeadlockAbort` is Postgres' detector. It fires on a cycle of
  `TransitiveClosure(WaitsFor)`.
- `Begin` and `Commit` are the driver, which is not under src/.
- `UserEdit` is a user's edit of a draft row.

Specs are flat documents (`JsonState`). `jsonb_merge_patch` is `ApplyPatch`,
and `jsonb_merge_diff` is `MergeDiff`.

`FieldSelection`:

- `projections` is the collection's projection list, every list the bounds
  allow.
- `selected` holds the skim items selected. Init selects those for which
  `should_select` holds (`FromFields`).
- `Toggle`, `UIError`, `Abort` and `Accept` are the user's moves.
- `Accept` takes the selected items in any order skim returns them, checks
  `validate_projected_fields` (`CoversKeys`), and sorts with `KeysFirst`.

## 4. Runs

| Run | Cfg | Expect | What it shows |
|---|---|---|---|
| `docs_and_stats` | `MCCaptureSession_docs.cfg` | pass | `KeyStability`: each (binding, key) is drained once, with the last value the connector sent in that transaction. `StatsConservation`: per collection, `right` counts captured docs and `out` counts drained docs. |
| `checkpoint_refinement` | `MCCaptureSession_state.cfg` | pass | With merge-patch frames, the store refines `CheckpointLog` across failures and new sessions. `ResumeFromLastCommit`: whatever step a session failed at, the next connector is opened with exactly the state reported as of the last durable commit. |
| `resume_initial_state` | `MCCaptureSession_resume.cfg` | violation | `ResumeFromLastCommit` with an `Open.state_json` that sets a field. A field the connector deleted comes back after a restart. This is the third finding. |
| `progress` | `MCCaptureSession_live.cfg` | pass | `CheckpointsCommitted`: every received checkpoint is committed unless the session fails. `EofEndsSession`: a connector EOF ends the session. |
| `reset_replaces_state` | `MCCaptureSession_reset.cfg` | violation | A `merge_patch=false` checkpoint leaves fields of earlier commits in the store. This is the finding below. |
| `typeset` | `MCTypeSet.cfg` | pass | Every operation and query of `types::Set` matches set semantics. |
| `shapes_across_sessions` | `MCCaptureSession_shapes_lost.cfg` | violation | `CommittedShapesLogged`: a widening by a transaction that failed before commit is never logged once the next session commits the same documents. This is the second finding. |
| `publications` | `MCPublications.cfg` | pass | `LiveMatchesHistory`: each live spec and its `last_pub_id` equal the fold of its publication_specs `spec_min_patch`es, and each `spec_rev_patch` restores the previous revision. `KeyAndPartitionsNeverChange`: no committed collection's key or partitioned projections ever change. `NoMustExistFailure`: no `must_exist` delete or update fails. `SerialPublications`: the interleaved statements implement `PublicationsSerial`, so every commit and every rejection is one atomic step against the committed tables. |
| `publications_finish` | `MCPublications_live.cfg` | pass | `PublicationsFinish`: every started publication commits, is rejected or is aborted by the deadlock detector. |
| `connector_at_least_once` | `MCCaptureConnector.cfg` | pass | `NoLostRecords`: across failures and a restart, every record the durable cursor has passed is in the client's committed view, or a later record of its key is. `InferredSchemasLogged`: no logged schema is wider than the shape, every drained value is in its shape, and after a commit every widening made in this session is logged. Records re-sent after a restart are drained against shapes the failed session already widened. |
| `connector_view_regresses` | `MCCaptureConnector_prefix.cfg` | violation | `PrefixConsistent`: the committed view can become a mix that no prefix of the source gives. This is the fourth finding. |
| `field_selection` | `MCFieldSelection.cfg` | pass | `PreselectionDeduplicatesByPointer`: exactly one field per key or user pointer is pre-selected, and user-provided fields win. Accepting the UI as it opens therefore always passes validation. |

Bounds:

- Two bindings that share one collection. This makes the per-collection
  stats sum over two bindings.
- Two keys and two values, so a key is overwritten within a transaction.
- Up to 3 or 4 frames (`MaxFrames`), so two transactions overlap and a
  transaction holds more than one checkpoint.
- Two sessions (`MaxSessions`), so a failure is followed by a resume from the
  store.
- Two state fields, so a reset that should delete one field can be seen.

- Connector: two bindings of one collection and a source of four records,
  three of one key of binding 0 and one of binding 1. Six frames per
  session and two sessions let a transaction commit two records past its
  checkpoint and the next session re-send them. Every new record widens a
  shape, and a session can fail between drain and commit.
- Publications: two publications with distinct drafts, two names and one
  user edit. Name `x` is a live collection that one draft updates and the
  other deletes. Name `y` is created by one draft and, in the liveness cfg,
  updated by the other. This gives conflicting inserts, a delete racing an
  update, and lock-order cycles.
- Field selection: up to three projections over one key pointer and one
  other pointer. This gives duplicate pointers and user-provided key
  projections.

`MCCaptureSession_docs.cfg`, `MCCaptureSession_state.cfg` and
`MCCaptureConnector_prefix.cfg` use
`VIEW MCViewNoShapes`. Their properties do not mention `shapes`, `logged`,
`carried` or `updated`, and no action reads these variables to decide
anything else. Leaving them out of the fingerprint does not change what the
properties see.

Each mutant listed in PROJECT.json breaks its property under these bounds,
which shows the bounds reach the cases that matter. `TypeSet` uses a 16-bit
word, because TLC integers are 32-bit signed. The unused high bits exist at
any width of 8 or more, so the mask hazard stays in scope.

Fairness: weak fairness on the handlers the session loop always runs when
they are enabled: poll, drain, final checkpoint, start and started commit,
acknowledge, and close on Restart/CoolOff. The connector's own frames,
failures and new sessions get no fairness, because the code cannot force
them. The liveness properties therefore say "unless the session fails".

In `Publications`, the following get weak fairness:

- every statement of an open transaction, because Postgres executes it;
- the driver's next step;
- the deadlock detector.

`Begin` and user edits get none. `FieldSelection` has no liveness: the user
may leave the UI open forever.

## 5. Finding

`send_client_captured_or_checkpoint` writes the drained state with
`wb.merge` (protocol.rs:165) and reports `merge_patch: true` (line 168).
A reset checkpoint is only a null followed by the new document in the
accumulator slot (lines 371-374). Once merged into the store, a field
persisted by an earlier commit survives. Spec scenario S3 says the state
becomes exactly the new document. This result depends on the merge operator,
which is modelled from spec 4.2.

A second finding, a spec gap: `shapes_across_sessions` shows the code
widening a shape at drain (protocol.rs:188). It marks `updated_inferences`
only when the widen changed the shape. Spec 4.4 keeps shapes across
restarts. So when a transaction fails after its drain, the next session
commits the same documents and never logs their schema. Neither the spec nor
the comment at lines 284-287 says whether that is intended. The result assumes,
as spec 4.4 says, that the shapes `recv_connector_opened` takes out of
`shapes_by_key` (line 83) are handed back when a session fails. The loop
that would do so is not under src/.

A third finding, also a spec gap, comes from `resume_initial_state`.
`recv_client_open` (protocol.rs:50) opens the connector with the persisted
state merge-patched onto `Open.state_json`. The persisted state is a
document, which cannot hold a deletion. So a field of the initial state that
the connector deleted with a merge-patch null reappears on every restart.
Spec 8.1 does not say what a resumed connector should see. Like the first
finding, this result assumes the merge operator of spec 4.2, whose code is
not under src/.

A fourth finding, a spec gap, comes from `connector_view_regresses`.
`send_client_poll_result` (protocol.rs:105) reports `Ready` whenever the
transaction holds a checkpoint, and the swap drains the whole buffer. So a
transaction also commits the documents captured after its last checkpoint,
while the store keeps that checkpoint's cursor. After a failure, a connector
resuming from that cursor sends those documents again, preceded by older
ones. TLC's trace: records k1=1, checkpoint 1, k1=2, k1=3 and a record of
binding 1 commit with cursor 1; the session fails; the next session sends
k1=2 and checkpoints 2. The client's committed view then holds k1=2 beside
the binding-1 record 4, which no prefix of the source gives. No record is
lost (`NoLostRecords` holds). The spec promises resumption from the
persisted state but does not say whether a transaction may commit documents
past its last checkpoint, or what a reader sees when they are sent again.

## 6. Not modelled

- No property checks the acknowledgement count. `last_checkpoints` is set
  from the committed transaction by the session loop (serve.rs), not by
  code under src/, and `send_connector_acknowledge` only reads and resets
  it. `SendClientStartedCommit` and `RecvClientAcknowledge` remain actions.
- No property checks the key-first order of an accepted selection. The
  model's `KeysFirst` is `sort_by_key`, which is stable, so such a property
  would only restate it.

- Document contents, serialization, and the temporary directory of the
  connector.
- The shape complexity limit and JSON Schema output. A shape is a set of
  values, so the limit never clamps.
- In publications, two parts are left out: the computation of `reads_from`,
  `writes_to` and the connector image, and `split_tag`. They compute string
  data that no property distinguishes. The partitions check of
  `validate_transition` is modelled by a spec field `part` in
  `PartitionFields`, standing for the set of projections marked
  `partition: true` (`Absent` is no partition).
- The selection UI's rendering, search, preview and header text.
- `derive.rs` and the generated format tests, which have no behaviour.
- The u32 overflow of `txn.checkpoints`, which needs 2^32 frames.
- The merge-patch associativity law of spec 4.2 on its own. The store's
  merge operator is outside src/; how the code uses it, a combined state
  update merged onto the store, is checked by `CheckpointRefinement`.
- The connector itself, which is not in this repository. `CaptureConnector`
  models one well-behaved connector; connectors that checkpoint something
  other than a cursor are not modelled.
