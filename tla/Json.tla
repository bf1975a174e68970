-------------------------------- MODULE Json --------------------------------
(***************************************************************************)
(* JSON values as serde_json gives them to the program, and its two ways   *)
(* of reading them: the accessors of Value, which take what has the right  *)
(* type and overlook the rest, and the derived Deserialize, which refuses  *)
(* a whole value for one field of the wrong type.                          *)
(***************************************************************************)
EXTENDS Integers, Sequences, Functions

(* The values.  The fields of an object are a function from their names.   *)
Str(s) == [str |-> s]
Num(n) == [num |-> n]
Flag(b) == [bool |-> b]
Arr(s) == [items |-> s]
Obj(f) == [fields |-> f]
Null == [null |-> TRUE]
Malformed == [malformed |-> TRUE]   \* a text that is not JSON

IsStr(v) == DOMAIN v = {"str"}
IsNum(v) == DOMAIN v = {"num"} /\ v.num \in Int
IsFlag(v) == DOMAIN v = {"bool"}
IsArr(v) == DOMAIN v = {"items"}
IsObj(v) == DOMAIN v = {"fields"}
IsNull(v) == DOMAIN v = {"null"}

IsUsize(v) == IsNum(v) /\ v.num >= 0
IsU8(v) == IsNum(v) /\ v.num \in 0..255
IsListOf(v, P(_)) == IsArr(v) /\ \A i \in DOMAIN v.items : P(v.items[i])
IsStrings(v) == IsListOf(v, IsStr)
IsOneOf(v, words) == IsStr(v) /\ v.str \in words
IsNullOr(v, P(_)) == IsNull(v) \/ P(v)

---------------------------------------------------------------------------
(* The accessors of Value.  What has another type is as good as absent.    *)
Has(v, key, P(_)) == IsObj(v) /\ key \in DOMAIN v.fields /\ P(v.fields[key])

StringArrayArg(v, key) ==
  IF Has(v, key, IsArr)
    THEN LET items == v.fields[key].items
         IN {items[i].str : i \in {j \in DOMAIN items : IsStr(items[j])}}
    ELSE {}

UsizeArgOrZero(v, key) == IF Has(v, key, IsUsize) THEN v.fields[key].num ELSE 0

---------------------------------------------------------------------------
(* The derived Deserialize of a struct.  It takes an object, or an array   *)
(* that holds the fields in their order; fields it does not know are       *)
(* overlooked.                                                             *)
IsStruct(v, keys) == IsObj(v) \/ (IsArr(v) /\ Len(v.items) = Len(keys))

StructFields(v, keys) ==
  IF IsObj(v) THEN v.fields
              ELSE [k \in Range(keys) |-> v.items[CHOOSE i \in DOMAIN keys : keys[i] = k]]

Needs(fields, key, P(_)) == key \in DOMAIN fields /\ P(fields[key])
May(fields, key, P(_)) == key \in DOMAIN fields => P(fields[key])
=============================================================================
