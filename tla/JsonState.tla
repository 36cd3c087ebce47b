----------------------------- MODULE JsonState -----------------------------
(***************************************************************************)
(* Connector-state documents and JSON merge-patches, abstracted to flat    *)
(* objects over a small set of top-level Fields.                           *)
(*                                                                         *)
(* A document maps every field to a value or to Absent.  A patch may also  *)
(* map a field to Null, which under merge-patch deletes it.  These are the *)
(* semantics of the CheckpointStore merge operator registered for          *)
(* CONNECTOR_STATE_KEY, of load_connector_state, and of the combine        *)
(* reducer of the connector-state slot (spec 4.2, 4.3).  That code lives   *)
(* outside src/ (crates/runtime/src/rocksdb.rs, crates/doc), so these      *)
(* operators are modelled from the spec.                                   *)
(***************************************************************************)
EXTENDS SequencesExt

CONSTANTS Fields,     \* top-level properties of the connector state
          FieldVals,  \* values a property may hold
          Absent,     \* the property is not present
          Null        \* the JSON null of a merge-patch: delete the property

ASSUME /\ Fields # {}
       /\ FieldVals # {}
       /\ {Absent, Null} \cap FieldVals = {}

Doc   == [Fields -> FieldVals \cup {Absent}]
Patch == [Fields -> FieldVals \cup {Absent, Null}]

\* The empty object {}.
EmptyDoc   == [f \in Fields |-> Absent]
EmptyPatch == EmptyDoc

\* RFC 7396 merge-patch of a flat object patch onto a document.
ApplyPatch(d, p) ==
    [f \in Fields |-> CASE p[f] = Absent -> d[f]
                        [] p[f] = Null   -> Absent
                        [] OTHER         -> p[f]]

\* Composition of two patches into one: the later patch wins on every
\* field it mentions, and its Null deletions are kept so that they still
\* apply to the document the composed patch is eventually merged onto.
\* This is the reduction that makes the store's merge operator satisfy
\* the associativity law of spec 4.2.
CombinePatch(acc, p) ==
    [f \in Fields |-> IF p[f] = Absent THEN acc[f] ELSE p[f]]

(***************************************************************************)
(* The meaning of a connector Checkpoint frame {updated_json, merge_patch}: *)
(* with merge_patch the new state is the old one patched, without it the   *)
(* new state is updated_json itself (spec 4.5, scenario S3).               *)
(***************************************************************************)
Frame == [patch : Patch, merge : BOOLEAN]

ApplyFrame(d, fr) ==
    IF fr.merge THEN ApplyPatch(d, fr.patch) ELSE ApplyPatch(EmptyDoc, fr.patch)

\* The state a connector has reported after a sequence of frames.
FoldFrames(d, frames) == FoldLeft(ApplyFrame, d, frames)

=============================================================================
