--------------------------- MODULE FieldSelection ---------------------------
(***************************************************************************)
(* Interactive selection of the projections a materialization binding      *)
(* writes (src/crates/materialization/src/selection_ui.rs).                *)
(*                                                                         *)
(* The collection's projections are chosen in Init from every list the     *)
(* bounds allow.  DefaultPreSelector::from_fields picks the fields shown   *)
(* selected when the UI opens; the user then toggles fields and accepts or *)
(* cancels.  The accepted items are validated and reordered so that key    *)
(* projections come first.  Rendering, search and preview are left out.    *)
(***************************************************************************)
EXTENDS Integers, SequencesExt

CONSTANTS FieldNames,      \* names of projected fields
          Ptrs,            \* JSON pointers of the collection's documents
          KeyPtrs,         \* the collection's key_ptrs
          MaxProjections   \* bound: projections of the collection

ASSUME KeyPtrs \subseteq Ptrs /\ MaxProjections \in Nat \ {0}

\* A Projection: is_primary_key holds exactly for the key's pointers.
Projection == {p \in [field : FieldNames, ptr : Ptrs, user : BOOLEAN, key : BOOLEAN] :
                 p.key = (p.ptr \in KeyPtrs)}

\* A CollectionSpec's projections: at least one (the UI expects so), field
\* names distinct, and every key pointer projected.
CollectionProjections ==
    {s \in BoundedSeq(Projection, MaxProjections) :
        /\ Len(s) > 0
        /\ \A i, j \in DOMAIN s : s[i].field = s[j].field => i = j
        /\ \A k \in KeyPtrs : \E i \in DOMAIN s : s[i].ptr = k}

EmptyMap == [l \in {} |-> l]

\* Mutant: key projections overwrite user-provided ones at their pointer.
MutFromFieldsKeyOverwrites(ps) ==
    LET byUser == FoldLeft(LAMBDA m, p : IF p.user THEN (p.ptr :> p) @@ m ELSE m,
                           EmptyMap, ps)
        byKey  == FoldLeft(LAMBDA m, p : IF p.key THEN (p.ptr :> p) @@ m ELSE m,
                           byUser, ps)
    IN {byKey[l].field : l \in DOMAIN byKey}

\* DefaultPreSelector::from_fields: by location, user-provided projections
\* first (a later one replacing an earlier one at the same pointer, as
\* HashMap::insert does), then key projections at pointers not yet present;
\* the result is the set of their field names.
FromFields(ps) ==
    LET byUser == FoldLeft(LAMBDA m, p : IF p.user THEN (p.ptr :> p) @@ m ELSE m,
                           EmptyMap, ps)
        byKey  == FoldLeft(LAMBDA m, p :
                              IF p.key /\ p.ptr \notin DOMAIN m THEN m @@ (p.ptr :> p) ELSE m,
                           byUser, ps)
    IN {byKey[l].field : l \in DOMAIN byKey}

\* validate_projected_fields (not under src/; from the doc comment of
\* interactive_select_projections): every key component is selected.
CoversKeys(sel) == \A k \in KeyPtrs : \E i \in DOMAIN sel : sel[i].ptr = k

\* results.sort_by_key(|p| !p.is_primary_key): a stable sort on a boolean,
\* false (key projections) first.
KeysFirst(sel) ==
    SelectSeq(sel, LAMBDA p : p.key) \o SelectSeq(sel, LAMBDA p : ~p.key)

VARIABLES projections, selected, outcome,
          chosen,  \* the projections skim returned, in its order
          result

vars == <<projections, selected, outcome, chosen, result>>

\* The UI opens with the pre-selected fields selected.
Init ==
    /\ projections \in CollectionProjections
    /\ selected = {i \in DOMAIN projections : projections[i].field \in FromFields(projections)}
    /\ outcome = "open"
    /\ chosen = <<>> /\ result = <<>>

\* Tab, space or right-click toggles an item.
Toggle(i) ==
    /\ outcome = "open" /\ i \in DOMAIN projections
    /\ selected' = IF i \in selected THEN selected \ {i} ELSE selected \cup {i}
    /\ UNCHANGED <<projections, outcome, chosen, result>>

\* Skim::run_with returns None: an i/o error.
UIError ==
    /\ outcome = "open"
    /\ outcome' = "ioError"
    /\ UNCHANGED <<projections, selected, chosen, result>>

\* Escape: output.is_abort gives ActionAborted.
Abort ==
    /\ outcome = "open"
    /\ outcome' = "actionAborted"
    /\ UNCHANGED <<projections, selected, chosen, result>>

\* Enter: the selected items come back in an order skim chooses; they are
\* validated, then key projections are moved to the front.
Accept(order) ==
    /\ outcome = "open"
    /\ LET sel == [j \in DOMAIN order |-> projections[order[j]]] IN
       /\ chosen' = sel
       /\ IF CoversKeys(sel)
          THEN outcome' = "ok" /\ result' = KeysFirst(sel)
          ELSE outcome' = "missingCollectionKeys" /\ UNCHANGED result
    /\ UNCHANGED <<projections, selected>>

Next ==
    \/ \E i \in 1..MaxProjections : Toggle(i)
    \/ UIError \/ Abort
    \/ \E order \in SetToSeqs(selected) : Accept(order)

Spec == Init /\ [][Next]_vars

-----------------------------------------------------------------------------
(* Properties *)

(***************************************************************************)
(* The pre-selection is what the doc comment of DefaultPreSelector         *)
(* promises: exactly one field for each pointer that is a key pointer or  *)
(* has a user-provided projection, a user-provided one wherever there is  *)
(* one, and nothing else.  So accepting the UI as it opens always passes  *)
(* validation.                                                             *)
(***************************************************************************)
PreselectionDeduplicatesByPointer ==
    LET ps == projections
        pre == {i \in DOMAIN ps : ps[i].field \in FromFields(ps)}
        wanted == {l \in Ptrs : \E i \in DOMAIN ps : ps[i].ptr = l /\ (ps[i].user \/ ps[i].key)}
    IN /\ {ps[i].ptr : i \in pre} = wanted
       /\ \A i, j \in pre : ps[i].ptr = ps[j].ptr => i = j
       /\ \A i \in pre : ps[i].user \/ (ps[i].key /\ ~\E j \in DOMAIN ps : ps[j].ptr = ps[i].ptr /\ ps[j].user)
       /\ CoversKeys([j \in 1..Cardinality(pre) |-> ps[SetToSeq(pre)[j]]])

=============================================================================
