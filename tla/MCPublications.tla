--------------------------- MODULE MCPublications ---------------------------
(***************************************************************************)
(* Constants for checking Publications: two drafts published at once,     *)
(* touching an established collection x and a name y that neither has    *)
(* published yet.  Specs have a key field, a partitioned projection part  *)
(* and one other field.                                                    *)
(***************************************************************************)
EXTENDS Publications

CONSTANTS p1, p2, d1, d2, x, y, key, v, part, collection, capture

MCDraftOf == [p \in Pubs |-> IF p = p1 THEN d1 ELSE d2]

Spec1(kv, vv) == (key :> kv) @@ (v :> vv) @@ (part :> Absent)

\* x is live with key 1 and no partitions.
MCInitLive ==
    (x :> [type |-> collection, spec |-> Spec1(1, 1), pub |-> None])
    @@ (y :> NoRow)

\* Both x and y are live.
MCInitLiveBoth == [n \in Names |->
                     [type |-> collection, spec |-> Spec1(1, 1), pub |-> None]]

\* d1 changes v of x and creates y with key 1; d2 deletes x and creates y
\* with key 2.
MCInitDraft ==
    [k \in DraftKeys |->
        CASE k = <<d1, x>> -> [type |-> collection, patch |-> Spec1(Absent, 2)]
          [] k = <<d1, y>> -> [type |-> collection, patch |-> Spec1(1, Absent)]
          [] k = <<d2, x>> -> [type |-> collection, patch |-> Null]
          [] k = <<d2, y>> -> [type |-> collection, patch |-> Spec1(2, 1)]]

=============================================================================
