------------------------------ MODULE TypeSet ------------------------------
(***************************************************************************)
(* json::schema::types::Set (src/json/schema/types.rs): a set of the seven *)
(* JSON types packed into the low bits of a u32.                           *)
(*                                                                         *)
(* The state machine builds a Set by the operations the code offers (|, &, *)
(* !, for_value, for_type_name) and keeps beside it the set of type names  *)
(* it stands for, so that each operation and query is checked against      *)
(* plain set semantics over every Set reachable this way.                  *)
(***************************************************************************)
EXTENDS Integers, FiniteSets, Bitwise, SequencesExt

CONSTANT Width   \* bits of the machine word holding a Set (u32)

ASSUME Width \in 8..30

WordMax == 2^Width - 1

INVALID == 0
ARRAY   == 1
BOOLEAN_ == 2
INTEGER == 4
NULL    == 8
NUMBER  == 16
OBJECT  == 32
STRING_  == 64
ANY == ARRAY | BOOLEAN_ | INTEGER | NULL | NUMBER | OBJECT | STRING_

\* const ALL, in the order Iter visits it, with the canonical names.
ALL == <<ARRAY, BOOLEAN_, INTEGER, NULL, NUMBER, OBJECT, STRING_>>
NameOf == [t \in Range(ALL) |->
             CASE t = ARRAY    -> "array"
               [] t = BOOLEAN_ -> "boolean"
               [] t = INTEGER  -> "integer"
               [] t = NULL     -> "null"
               [] t = NUMBER   -> "number"
               [] t = OBJECT   -> "object"
               [] t = STRING_   -> "string"]
TypeNames == Range(NameOf)

BitOr(x, y)  == x | y
BitAnd(x, y) == x & y
\* Mutant: the complement is not masked to ANY.
MutBitNotUnmasked(x) == WordMax - x

\* Not: complement the whole word, then mask off the unused bits.
BitNot(x)    == (WordMax - x) & ANY

Overlaps(x, y) == BitAnd(x, y) # INVALID

\* Iter: the names of the members, in the order of ALL.
Iter(x) == [i \in 1..Len(SelectSeq(ALL, LAMBDA t : Overlaps(x, t))) |->
               NameOf[SelectSeq(ALL, LAMBDA t : Overlaps(x, t))[i]]]

ForTypeName(n) == CHOOSE t \in Range(ALL) : NameOf[t] = n

\* for_value, over the shapes a serde_json::Value can take.
ValueKinds == {"Array", "Bool", "Null", "Float", "Signed", "Unsigned",
               "Object", "String"}
ForValue(v) ==
    CASE v = "Array"  -> ARRAY
      [] v = "Bool"   -> BOOLEAN_
      [] v = "Null"   -> NULL
      [] v = "Float"  -> NUMBER
      [] v \in {"Signed", "Unsigned"} -> BitOr(NUMBER, INTEGER)
      [] v = "Object" -> OBJECT
      [] v = "String" -> STRING_

\* Mutant: null is not removed before the test.
MutIsSingleScalarTypeWithNull(x) ==
    x \in {INTEGER, BOOLEAN_, STRING_, NUMBER}

IsSingleScalarType(x) ==
    BitAnd(x, BitNot(NULL)) \in {INTEGER, BOOLEAN_, STRING_, NUMBER}

-----------------------------------------------------------------------------
(* Reference semantics *)

\* The type names a word stands for, read bit by bit.
Decode(x) == {NameOf[t] : t \in {u \in Range(ALL) : (x \div u) % 2 = 1}}

RefForValue(v) ==
    CASE v = "Array" -> {"array"} [] v = "Bool" -> {"boolean"}
      [] v = "Null" -> {"null"} [] v = "Float" -> {"number"}
      [] v \in {"Signed", "Unsigned"} -> {"number", "integer"}
      [] v = "Object" -> {"object"} [] v = "String" -> {"string"}

VARIABLES bits, ref

Init == bits = INVALID /\ ref = {}

\* s | for_type_name(n)
OrName(n) ==
    /\ bits' = BitOr(bits, ForTypeName(n))
    /\ ref' = ref \cup {n}

\* s | for_value(v)
OrValue(v) ==
    /\ bits' = BitOr(bits, ForValue(v))
    /\ ref' = ref \cup RefForValue(v)

\* s & for_type_name(n)
AndName(n) ==
    /\ bits' = BitAnd(bits, ForTypeName(n))
    /\ ref' = ref \cap {n}

\* !s
Complement ==
    /\ bits' = BitNot(bits)
    /\ ref' = TypeNames \ ref

Next ==
    \/ \E n \in TypeNames : OrName(n) \/ AndName(n)
    \/ \E v \in ValueKinds : OrValue(v)
    \/ Complement

Spec == Init /\ [][Next]_<<bits, ref>>

-----------------------------------------------------------------------------
(* Properties *)

(***************************************************************************)
(* Every Set built by |, &, ! and for_value stands for exactly the set of  *)
(* types the same operations on sets of names give, and never carries a   *)
(* bit outside ANY: the mask in Not keeps the unused high bits of the u32 *)
(* complement from leaking into later unions and comparisons.             *)
(***************************************************************************)
MatchesSetSemantics ==
    /\ bits \in 0..ANY
    /\ Decode(bits) = ref

(***************************************************************************)
(* Queries agree with set semantics: overlaps is non-empty intersection    *)
(* with every single type, iter lists each member once in the canonical   *)
(* order of ALL and is inverted by for_type_name, and                      *)
(* is_single_scalar_type holds exactly when the set without null is one   *)
(* of integer, boolean, string, number.                                    *)
(***************************************************************************)
QueriesMatchSetSemantics ==
    /\ \A t \in Range(ALL) : Overlaps(bits, t) = (NameOf[t] \in ref)
    /\ ToSet(Iter(bits)) = ref
    /\ Len(Iter(bits)) = Cardinality(ref)
    /\ \A i \in 1..Len(Iter(bits)) - 1 :
           \E p, q \in 1..Len(ALL) :
               p < q /\ NameOf[ALL[p]] = Iter(bits)[i]
                     /\ NameOf[ALL[q]] = Iter(bits)[i + 1]
    /\ \A i \in 1..Len(Iter(bits)) : Iter(ForTypeName(Iter(bits)[i])) = <<Iter(bits)[i]>>
    /\ IsSingleScalarType(bits) =
           (\E n \in {"integer", "boolean", "string", "number"} : ref \ {"null"} = {n})

=============================================================================
