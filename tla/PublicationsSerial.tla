------------------------- MODULE PublicationsSerial -------------------------
(***************************************************************************)
(* What publishing promises, stated without transactions or locks: each    *)
(* publication takes effect in one step, against the committed tables of  *)
(* that moment.  It publishes some of its draft's specs (those its         *)
(* statements found; a draft spec added meanwhile may be left behind) and  *)
(* either all of them become live, each recorded once in the history, or   *)
(* none does and the invalid ones are recorded as errors.  Users edit     *)
(* drafts between publications.                                            *)
(*                                                                         *)
(* The history keeps name, publication and type of each publication_specs  *)
(* row; the patches it stores are checked by LiveMatchesHistory.          *)
(***************************************************************************)
EXTENDS JsonState, SequencesExt

CONSTANTS Pubs, Drafts, DraftOf, Names, Types, Collection, KeyFields, PartitionFields,
          InitDraft, InitLive, NoRow, NoSpec

VARIABLES draftT, liveT, history, errT

\* A draft patch applied to a spec: null deletes, a missing spec is {}.
Patched(s, patch) ==
    IF patch = Null THEN NoSpec ELSE ApplyPatch(IF s = NoSpec THEN EmptyDoc ELSE s, patch)

\* A spec that its type accepts: a collection carries its key.
WellFormed(type, s) == type = Collection => \A f \in KeyFields : s[f] # Absent

\* The live row a draft spec is published over: the committed one, or a
\* new row of the draft's type without a spec.
Base(dr, n) == IF liveT[n] = NoRow THEN [type |-> dr.type, spec |-> NoSpec] ELSE liveT[n]

\* A catalog change is allowed when the type stays, both specs are well
\* formed, and a collection that exists before and after keeps its key
\* and its partitions.
Allowed(dr, n) ==
    LET old == Base(dr, n).spec  new == Patched(old, dr.patch) IN
    /\ dr.type = Base(dr, n).type
    /\ new # NoSpec => WellFormed(dr.type, new)
    /\ old # NoSpec => WellFormed(Base(dr, n).type, old)
    /\ dr.type = Collection /\ old # NoSpec /\ new # NoSpec =>
           \A f \in KeyFields \cup PartitionFields : old[f] = new[f]

\* The names a publication of p may take: some of its draft's specs.
Found(p) == SUBSET {n \in Names : draftT[<<DraftOf[p], n>>] # NoRow}

Publish(p, S) ==
    LET D(n) == draftT[<<DraftOf[p], n>>] IN
    /\ \A n \in S : Allowed(D(n), n)
    /\ liveT' = [n \in Names |->
                    IF n \notin S THEN liveT[n]
                    ELSE LET new == Patched(Base(D(n), n).spec, D(n).patch)
                         IN IF new = NoSpec THEN NoRow
                            ELSE [type |-> Base(D(n), n).type, spec |-> new, pub |-> p]]
    /\ draftT' = [k \in DOMAIN draftT |->
                    IF k[1] = DraftOf[p] /\ k[2] \in S THEN NoRow ELSE draftT[k]]
    /\ \E order \in SetToSeqs(S) :
          history' = history \o [i \in DOMAIN order |->
                                    [name |-> order[i], pub |-> p, type |-> D(order[i]).type]]
    /\ UNCHANGED errT

Reject(p, S) ==
    LET D(n) == draftT[<<DraftOf[p], n>>]
        bad == {n \in S : ~Allowed(D(n), n)}
    IN /\ bad # {}
       /\ errT' = errT \cup {<<DraftOf[p], n>> : n \in bad}
       /\ UNCHANGED <<draftT, liveT, history>>

Edit(k, r) ==
    /\ draftT' = [draftT EXCEPT ![k] = r]
    /\ UNCHANGED <<liveT, history, errT>>

Init ==
    /\ draftT = InitDraft /\ liveT = InitLive
    /\ history = <<>> /\ errT = {}

Next ==
    \/ \E p \in Pubs : \E S \in Found(p) : Publish(p, S) \/ Reject(p, S)
    \/ \E k \in Drafts \X Names, r \in [type : Types, patch : Patch \cup {Null}] \cup {NoRow} :
           Edit(k, r)

Spec == Init /\ [][Next]_<<draftT, liveT, history, errT>>

=============================================================================
