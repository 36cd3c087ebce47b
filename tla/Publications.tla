---------------------------- MODULE Publications ----------------------------
(***************************************************************************)
(* Publication of drafts into live specifications                          *)
(* (src/crates/agent/src/publications/specs.rs), run by concurrent         *)
(* Postgres transactions at read-committed isolation.                      *)
(*                                                                         *)
(* Tables: draft_specs (draftT), live_specs (liveT), publication_specs     *)
(* (pubT) and draft_errors (errT) hold committed rows.  A transaction's   *)
(* own uncommitted writes are kept apart (liveW, draftW, pubW) and become  *)
(* visible to others only at commit.  Row locks (dlock, llock) are taken  *)
(* one row at a time by each statement, in an order Postgres chooses; a   *)
(* statement blocked on a row records it in waitOn.  Postgres' deadlock   *)
(* detector aborts a transaction on a cycle of waits.                      *)
(*                                                                         *)
(* The publication driver (begin, validate, apply each row, commit) is not *)
(* under src/; it runs the statements of specs.rs in the order the         *)
(* comments there describe.  Specs are flat JSON objects (JsonState); a   *)
(* draft patch that is JSON null deletes the spec.                         *)
(***************************************************************************)
EXTENDS Integers, FiniteSets, Relation, JsonState

CONSTANTS Pubs,        \* publications, each in its own transaction
          Drafts,
          DraftOf,     \* the draft each publication publishes
          Names,       \* catalog names
          Types,       \* catalog_spec_type values
          Collection,  \* the member of Types for collections
          KeyFields,   \* fields a collection must have and may not change
          PartitionFields, \* fields standing for its partitioned projections
          InitDraft,   \* initial draft_specs
          InitLive,    \* initial live_specs
          NoRow, NoSpec, None, Untouched,
          MaxEdits     \* bound: user edits of draft_specs

DraftRow == [type : Types, patch : Patch \cup {Null}]
LiveRow  == [type : Types, spec : Doc \cup {NoSpec}, pub : Pubs \cup {None}]
DraftKeys == Drafts \X Names

ASSUME /\ DraftOf \in [Pubs -> Drafts]
       /\ Collection \in Types /\ KeyFields \cup PartitionFields \subseteq Fields
       /\ InitDraft \in [DraftKeys -> DraftRow \cup {NoRow}]
       /\ InitLive \in [Names -> LiveRow \cup {NoRow}]

Done == {"committed", "rejected", "aborted", "failed"}

VARIABLES draftT, liveT, pubT, errT,   \* committed tables
          liveW, draftW, pubW,         \* each transaction's own writes
          dlock, llock,                \* row locks on draft_specs, live_specs
          pc, todo, waitOn, rows,      \* each transaction's progress
          edits

tables == <<draftT, liveT, pubT, errT>>
writes == <<liveW, draftW, pubW>>
locks  == <<dlock, llock>>
txns   == <<pc, todo, waitOn, rows>>
vars   == <<tables, writes, locks, txns, edits>>

(***************************************************************************)
(* What a transaction sees: committed rows overlaid with its own writes.   *)
(***************************************************************************)
LiveView(p, n)  == IF liveW[p][n] # Untouched THEN liveW[p][n] ELSE liveT[n]
DraftView(p, n) == IF n \in draftW[p] THEN NoRow ELSE draftT[<<DraftOf[p], n>>]

\* jsonb_merge_patch(live_specs.spec, draft_specs.spec_patch): a null patch
\* deletes, a null live spec (a row just inserted for locking) is {}.
DraftSpec(live, patch) ==
    IF patch = Null THEN NoSpec
    ELSE ApplyPatch(IF live = NoSpec THEN EmptyDoc ELSE live, patch)

\* jsonb_merge_diff(a, b): the patch that takes b to a.
MergeDiff(a, b) ==
    IF a = NoSpec THEN Null
    ELSE LET base == IF b = NoSpec THEN EmptyDoc ELSE b
         IN [f \in Fields |-> CASE a[f] = base[f] -> Absent
                                [] a[f] = Absent  -> Null
                                [] OTHER          -> a[f]]

\* Mutant: spec_min_patch and spec_rev_patch diffed in the wrong order.
MutSpecRowSwappedDiff(dr, lr) ==
    LET after == DraftSpec(lr.spec, dr.patch)
    IN [draftType |-> dr.type, draftSpec |-> after,
        liveType |-> lr.type, liveSpec |-> lr.spec,
        minPatch |-> MergeDiff(lr.spec, after),
        revPatch |-> MergeDiff(after, lr.spec)]

\* One row of the join of resolve_specifications.
SpecRow(dr, lr) ==
    LET after == DraftSpec(lr.spec, dr.patch)
    IN [draftType |-> dr.type, draftSpec |-> after,
        liveType |-> lr.type, liveSpec |-> lr.spec,
        minPatch |-> MergeDiff(after, lr.spec),
        revPatch |-> MergeDiff(lr.spec, after)]

\* Mutant: "on conflict do nothing" does not wait for an uncommitted row.
MutInsertBlockersNoConflictWait(p, n) == {dlock[<<DraftOf[p], n>>]} \ {p, None}

\* Transactions other than p holding a lock the insert statement needs on
\* row n: the draft row it locks "for update", and a live_specs row another
\* transaction has inserted, updated or deleted but not committed, on whose
\* outcome "on conflict (catalog_name) do nothing" must wait.
InsertBlockers(p, n) ==
    ({dlock[<<DraftOf[p], n>>]} \cup {q \in Pubs : liveW[q][n] # Untouched})
        \ {p, None}

\* Mutant: the join locks only draft_specs ("for update of draft_specs").
MutSelectBlockersNoLiveLock(p, n) == {dlock[<<DraftOf[p], n>>]} \ {p, None}

\* "for update of draft_specs, live_specs" of the join.
SelectBlockers(p, n) == {dlock[<<DraftOf[p], n>>], llock[n]} \ {p, None}

Blockers(p, n) ==
    IF pc[p] = "inserting" THEN InsertBlockers(p, n) ELSE SelectBlockers(p, n)

WaitsFor == [e \in Pubs \X Pubs |->
                waitOn[e[1]] # None /\ e[2] \in Blockers(e[1], waitOn[e[1]])]

Release(p) ==
    /\ dlock' = [k \in DraftKeys |-> IF dlock[k] = p THEN None ELSE dlock[k]]
    /\ llock' = [n \in Names |-> IF llock[n] = p THEN None ELSE llock[n]]

Discard(p) ==
    /\ liveW' = [liveW EXCEPT ![p] = [n \in Names |-> Untouched]]
    /\ draftW' = [draftW EXCEPT ![p] = {}]
    /\ pubW' = [pubW EXCEPT ![p] = <<>>]

-----------------------------------------------------------------------------
Init ==
    /\ draftT = InitDraft /\ liveT = InitLive /\ pubT = <<>> /\ errT = {}
    /\ liveW = [p \in Pubs |-> [n \in Names |-> Untouched]]
    /\ draftW = [p \in Pubs |-> {}]
    /\ pubW = [p \in Pubs |-> <<>>]
    /\ dlock = [k \in DraftKeys |-> None]
    /\ llock = [n \in Names |-> None]
    /\ pc = [p \in Pubs |-> "idle"]
    /\ todo = [p \in Pubs |-> {}]
    /\ waitOn = [p \in Pubs |-> None]
    /\ rows = [p \in Pubs |-> [n \in {} |-> NoRow]]
    /\ edits = 0

\* The driver begins the transaction; the insert statement's sub-select
\* reads the draft's rows.
Begin(p) ==
    /\ pc[p] = "idle"
    /\ pc' = [pc EXCEPT ![p] = "inserting"]
    /\ todo' = [todo EXCEPT ![p] = {n \in Names : DraftView(p, n) # NoRow}]
    /\ UNCHANGED <<tables, writes, locks, waitOn, rows, edits>>

\* A statement reaches row n while another transaction holds it: it waits.
Wait(p, n) ==
    /\ pc[p] \in {"inserting", "selecting"}
    /\ n \in todo[p] /\ waitOn[p] = None
    /\ Blockers(p, n) # {}
    /\ waitOn' = [waitOn EXCEPT ![p] = n]
    /\ UNCHANGED <<tables, writes, locks, pc, todo, rows, edits>>

\* Row n of "insert into live_specs ... for update of draft_specs on
\* conflict (catalog_name) do nothing": lock the draft row, and create a
\* live_specs row (spec null, last_pub_id this publication) when none
\* exists.  A draft row deleted while waiting is skipped.
InsertRow(p, n) ==
    /\ pc[p] = "inserting"
    /\ n \in todo[p] /\ waitOn[p] \in {None, n}
    /\ InsertBlockers(p, n) = {}
    /\ todo' = [todo EXCEPT ![p] = @ \ {n}]
    /\ waitOn' = [waitOn EXCEPT ![p] = None]
    /\ IF DraftView(p, n) = NoRow
       THEN UNCHANGED <<locks, liveW>>
       ELSE /\ dlock' = [dlock EXCEPT ![<<DraftOf[p], n>>] = p]
            /\ IF LiveView(p, n) = NoRow
               THEN /\ liveW' = [liveW EXCEPT ![p][n] =
                          [type |-> DraftView(p, n).type, spec |-> NoSpec, pub |-> p]]
                    /\ llock' = [llock EXCEPT ![n] = p]
               ELSE UNCHANGED <<liveW, llock>>
    /\ UNCHANGED <<tables, draftW, pubW, pc, rows, edits>>

\* The join statement starts: its snapshot holds the draft's rows that
\* have a live_specs row, committed or this transaction's own.
StartSelect(p) ==
    /\ pc[p] = "inserting" /\ todo[p] = {}
    /\ pc' = [pc EXCEPT ![p] = "selecting"]
    /\ todo' = [todo EXCEPT ![p] =
                   {n \in Names : DraftView(p, n) # NoRow /\ LiveView(p, n) # NoRow}]
    /\ UNCHANGED <<tables, writes, locks, waitOn, rows, edits>>

\* Row n of the join "for update of draft_specs, live_specs": lock both
\* rows and read the latest versions; a row deleted meanwhile drops out of
\* the result and its draft spec is left behind.
SelectRow(p, n) ==
    /\ pc[p] = "selecting"
    /\ n \in todo[p] /\ waitOn[p] \in {None, n}
    /\ SelectBlockers(p, n) = {}
    /\ todo' = [todo EXCEPT ![p] = @ \ {n}]
    /\ waitOn' = [waitOn EXCEPT ![p] = None]
    /\ IF DraftView(p, n) # NoRow /\ LiveView(p, n) # NoRow
       THEN /\ dlock' = [dlock EXCEPT ![<<DraftOf[p], n>>] = p]
            /\ llock' = [llock EXCEPT ![n] = p]
            /\ rows' = [rows EXCEPT ![p] = rows[p] @@
                           (n :> SpecRow(DraftView(p, n), LiveView(p, n)))]
       ELSE UNCHANGED <<locks, rows>>
    /\ UNCHANGED <<tables, writes, pc, edits>>

\* extend_catalog: a spec that does not parse as its type.  A collection
\* spec must carry its key.
Parses(type, spec) == type = Collection => \A f \in KeyFields : spec[f] # Absent

\* A collection in both the draft and the live catalog whose fields F differ.
Changed(r, F) ==
    /\ r.draftType = Collection /\ r.liveType = Collection
    /\ r.draftSpec # NoSpec /\ r.liveSpec # NoSpec
    /\ \E f \in F : r.draftSpec[f] # r.liveSpec[f]

\* Mutant: validate_transition checks the partitions but not the key.
MutTransitionErrorsNoKeyCheck(R) ==
    {n \in DOMAIN R :
        LET r == R[n] IN
        \/ r.draftType # r.liveType
        \/ r.draftSpec # NoSpec /\ ~Parses(r.draftType, r.draftSpec)
        \/ r.liveSpec # NoSpec /\ ~Parses(r.liveType, r.liveSpec)
        \/ Changed(r, PartitionFields)}

\* validate_transition: the catalog type changed, or a collection in both
\* catalogs changed its key or its partitioned projections; with
\* extend_catalog's errors on both the draft and the live catalog.
TransitionErrors(R) ==
    {n \in DOMAIN R :
        LET r == R[n] IN
        \/ r.draftType # r.liveType
        \/ r.draftSpec # NoSpec /\ ~Parses(r.draftType, r.draftSpec)
        \/ r.liveSpec # NoSpec /\ ~Parses(r.liveType, r.liveSpec)
        \/ Changed(r, KeyFields)
        \/ Changed(r, PartitionFields)}

\* The driver validates the resolved rows: with errors it rolls back and
\* records them with insert_errors; otherwise it applies every row.
Validate(p) ==
    /\ pc[p] = "selecting" /\ todo[p] = {}
    /\ LET errs == TransitionErrors(rows[p]) IN
       IF errs # {}
       THEN /\ pc' = [pc EXCEPT ![p] = "rejected"]
            /\ errT' = errT \cup {<<DraftOf[p], n>> : n \in errs}
            /\ Discard(p) /\ Release(p)
            /\ UNCHANGED todo
       ELSE /\ pc' = [pc EXCEPT ![p] = "applying"]
            /\ todo' = [todo EXCEPT ![p] = DOMAIN rows[p]]
            /\ UNCHANGED <<errT, writes, locks>>
    /\ UNCHANGED <<draftT, liveT, pubT, waitOn, rows, edits>>

\* Mutant: the update binds draft_id where last_pub_id takes pub_id.
MutApplyRowDraftIdAsPubId(p, n) ==
    /\ pc[p] = "applying" /\ n \in todo[p]
    /\ LET r == rows[p][n] IN
       IF DraftView(p, n) = NoRow \/ LiveView(p, n) = NoRow
       THEN /\ pc' = [pc EXCEPT ![p] = "failed"]
            /\ Discard(p) /\ Release(p)
            /\ UNCHANGED todo
       ELSE /\ todo' = [todo EXCEPT ![p] = @ \ {n}]
            /\ draftW' = [draftW EXCEPT ![p] = @ \cup {n}]
            /\ pubW' = [pubW EXCEPT ![p] = Append(@,
                          [name |-> n, pub |-> p, type |-> r.draftType,
                           minPatch |-> r.minPatch, revPatch |-> r.revPatch])]
            /\ liveW' = [liveW EXCEPT ![p][n] =
                          IF r.draftSpec = NoSpec THEN NoRow
                          ELSE [LiveView(p, n) EXCEPT !.spec = r.draftSpec, !.pub = DraftOf[p]]]
            /\ UNCHANGED <<pc, locks>>
    /\ UNCHANGED <<tables, waitOn, rows, edits>>

\* apply_updates_for_row: delete the draft row (must exist), record the
\* publication_specs row, then delete the live row for a deletion or update
\* its spec and last_pub_id (must exist).  A missing row fails the
\* transaction.
ApplyRow(p, n) ==
    /\ pc[p] = "applying" /\ n \in todo[p]
    /\ LET r == rows[p][n] IN
       IF DraftView(p, n) = NoRow \/ LiveView(p, n) = NoRow
       THEN /\ pc' = [pc EXCEPT ![p] = "failed"]
            /\ Discard(p) /\ Release(p)
            /\ UNCHANGED todo
       ELSE /\ todo' = [todo EXCEPT ![p] = @ \ {n}]
            /\ draftW' = [draftW EXCEPT ![p] = @ \cup {n}]
            /\ pubW' = [pubW EXCEPT ![p] = Append(@,
                          [name |-> n, pub |-> p, type |-> r.draftType,
                           minPatch |-> r.minPatch, revPatch |-> r.revPatch])]
            /\ liveW' = [liveW EXCEPT ![p][n] =
                          IF r.draftSpec = NoSpec THEN NoRow
                          ELSE [LiveView(p, n) EXCEPT !.spec = r.draftSpec, !.pub = p]]
            /\ UNCHANGED <<pc, locks>>
    /\ UNCHANGED <<tables, waitOn, rows, edits>>

\* Mutant: commit releases the draft_specs locks but not live_specs locks.
MutCommitKeepsLiveLocks(p) ==
    /\ pc[p] = "applying" /\ todo[p] = {}
    /\ liveT' = [n \in Names |-> LiveView(p, n)]
    /\ draftT' = [k \in DraftKeys |->
                    IF k[1] = DraftOf[p] /\ k[2] \in draftW[p] THEN NoRow ELSE draftT[k]]
    /\ pubT' = pubT \o pubW[p]
    /\ pc' = [pc EXCEPT ![p] = "committed"]
    /\ Discard(p)
    /\ dlock' = [k \in DraftKeys |-> IF dlock[k] = p THEN None ELSE dlock[k]]
    /\ UNCHANGED <<errT, llock, todo, waitOn, rows, edits>>

\* The driver commits: the transaction's writes become the committed rows
\* and its locks are released.
Commit(p) ==
    /\ pc[p] = "applying" /\ todo[p] = {}
    /\ liveT' = [n \in Names |-> LiveView(p, n)]
    /\ draftT' = [k \in DraftKeys |->
                    IF k[1] = DraftOf[p] /\ k[2] \in draftW[p] THEN NoRow ELSE draftT[k]]
    /\ pubT' = pubT \o pubW[p]
    /\ pc' = [pc EXCEPT ![p] = "committed"]
    /\ Discard(p) /\ Release(p)
    /\ UNCHANGED <<errT, todo, waitOn, rows, edits>>

\* Postgres' deadlock detector aborts a transaction on a cycle of waits.
DeadlockAbort(p) ==
    /\ TransitiveClosure(WaitsFor, Pubs)[p, p]
    /\ pc' = [pc EXCEPT ![p] = "aborted"]
    /\ waitOn' = [waitOn EXCEPT ![p] = None]
    /\ Discard(p) /\ Release(p)
    /\ UNCHANGED <<tables, todo, rows, edits>>

\* A user edits or removes a draft spec, in a statement of its own that
\* waits for any publication holding the row.
UserEdit(k, r) ==
    /\ edits < MaxEdits /\ dlock[k] = None
    /\ draftT[k] # r
    /\ draftT' = [draftT EXCEPT ![k] = r]
    /\ edits' = edits + 1
    /\ UNCHANGED <<liveT, pubT, errT, writes, locks, txns>>

\* Every publication has finished.
Finished ==
    /\ \A p \in Pubs : pc[p] \in Done
    /\ UNCHANGED vars

Next ==
    \/ \E p \in Pubs :
          \/ Begin(p) \/ StartSelect(p) \/ Validate(p) \/ Commit(p)
          \/ DeadlockAbort(p)
          \/ \E n \in Names : Wait(p, n) \/ InsertRow(p, n) \/ SelectRow(p, n)
                              \/ ApplyRow(p, n)
    \/ \E k \in DraftKeys, r \in DraftRow \cup {NoRow} : UserEdit(k, r)
    \/ Finished

\* Postgres runs every statement of an open transaction and its deadlock
\* detector; whether a publication starts, and user edits, are not forced.
Fairness ==
    \A p \in Pubs :
        /\ WF_vars(StartSelect(p) \/ Validate(p) \/ Commit(p))
        /\ WF_vars(DeadlockAbort(p))
        /\ \A n \in Names : WF_vars(Wait(p, n) \/ InsertRow(p, n) \/ SelectRow(p, n)
                                     \/ ApplyRow(p, n))

Spec == Init /\ [][Next]_vars /\ Fairness

-----------------------------------------------------------------------------
(* Properties *)

TypeOK ==
    /\ draftT \in [DraftKeys -> DraftRow \cup {NoRow}]
    /\ liveT \in [Names -> LiveRow \cup {NoRow}]
    /\ liveW \in [Pubs -> [Names -> LiveRow \cup {NoRow, Untouched}]]
    /\ draftW \in [Pubs -> SUBSET Names]
    /\ dlock \in [DraftKeys -> Pubs \cup {None}]
    /\ llock \in [Names -> Pubs \cup {None}]
    /\ pc \in [Pubs -> {"idle", "inserting", "selecting", "applying"} \cup Done]
    /\ waitOn \in [Pubs -> Names \cup {None}]
    /\ \A p \in Pubs : DOMAIN rows[p] \subseteq Names

\* The publication_specs rows of a name, in commit order, and the specs
\* they take it through, starting from its initial live spec.
Entries(n) == SelectSeq(pubT, LAMBDA e : e.name = n)
InitSpec(n) == IF InitLive[n] = NoRow THEN NoSpec ELSE InitLive[n].spec
PatchSpec(s, patch) ==
    IF patch = Null THEN NoSpec
    ELSE ApplyPatch(IF s = NoSpec THEN EmptyDoc ELSE s, patch)
Revisions(n) ==
    FoldLeft(LAMBDA acc, e : Append(acc, PatchSpec(acc[Len(acc)], e.minPatch)),
             <<InitSpec(n)>>, Entries(n))

(***************************************************************************)
(* No update is lost: for every name, replaying the spec_min_patch of its  *)
(* publication_specs rows in commit order gives the live spec, whose       *)
(* last_pub_id is the last of those publications, and each spec_rev_patch *)
(* takes a revision back to the one before it.  It holds only if the join *)
(* of resolve_specifications reads each live spec under a lock that is     *)
(* held until the update of apply_updates_for_row commits.                 *)
(***************************************************************************)
LiveMatchesHistory ==
    \A n \in Names :
        LET R == Revisions(n)  E == Entries(n) IN
        /\ IF liveT[n] = NoRow THEN R[Len(R)] = NoSpec ELSE liveT[n].spec = R[Len(R)]
        /\ Len(E) > 0 /\ liveT[n] # NoRow => liveT[n].pub = E[Len(E)].pub
        /\ \A i \in 1..Len(E) : PatchSpec(R[i + 1], E[i].revPatch) = R[i]

(***************************************************************************)
(* An established collection's key and partitions never change: between  *)
(* two consecutive revisions of a collection that both exist, the key and  *)
(* partition fields agree.  validate_transition checks the draft against the live spec it   *)
(* read; two publications that create the same name at once must still   *)
(* be ordered so that the second one validates against the first.         *)
(***************************************************************************)
KeyAndPartitionsNeverChange ==
    \A n \in Names :
        LET R == Revisions(n)  E == Entries(n) IN
        \A i \in 1..Len(E) :
            /\ E[i].type = Collection /\ R[i] # NoSpec /\ R[i + 1] # NoSpec
            => \A f \in KeyFields \cup PartitionFields : R[i][f] = R[i + 1][f]

(***************************************************************************)
(* The "must_exist" deletes and updates of apply_updates_for_row never     *)
(* fail: every row the join returned stays locked, so neither a user nor   *)
(* another publication of the same draft can remove it before the apply.   *)
(***************************************************************************)
NoMustExistFailure == \A p \in Pubs : pc[p] # "failed"

(***************************************************************************)
(* Every publication that starts ends: committed, rejected by validation,  *)
(* or aborted by Postgres' deadlock detector.  Two publications lock rows  *)
(* in an order neither controls, so they can wait on each other.           *)
(***************************************************************************)
PublicationsFinish == \A p \in Pubs : pc[p] # "idle" ~> pc[p] \in Done

(***************************************************************************)
(* Publications are serializable (PublicationsSerial): every committed     *)
(* publication and every rejection looks like one atomic step against the *)
(* committed tables of the moment it commits or is rejected, although its  *)
(* statements ran row by row under read committed, interleaved with other *)
(* publications and user edits.  It holds only if the rows the join read  *)
(* stay locked from the read until the commit, and if the insert of       *)
(* resolve_specifications orders two publications creating the same name. *)
(***************************************************************************)
Serial == INSTANCE PublicationsSerial
              WITH history <- [i \in DOMAIN pubT |->
                                  [name |-> pubT[i].name, pub |-> pubT[i].pub,
                                   type |-> pubT[i].type]]

SerialPublications == Serial!Spec

=============================================================================
