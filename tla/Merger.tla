------------------------------- MODULE Merger -------------------------------
(***************************************************************************)
(* utils/merger: how a message of a player is merged into the document of  *)
(* a table. A JSON value is a record whose kind says what else it has:     *)
(* fields by key, or items in order, or a value that is neither object nor *)
(* array. Merge is recursive, as in the code; the laws after it are not.   *)
(***************************************************************************)
EXTENDS Integers, SequencesExt

Plain(v)  == [kind |-> "plain", value |-> v]
Array(s)  == [kind |-> "array", items |-> s]
Object(f) == [kind |-> "object", fields |-> f]

(* What the decoder refuses, the empty buffer of a nil encounterData too;  *)
(* and what a merge that ended with an error leaves.                       *)
NotJSON == [kind |-> "not JSON"]
Failed  == [kind |-> "failed"]

IsObject(v) == v.kind = "object"
IsArray(v)  == v.kind = "array"

RECURSIVE mergeObjects(_, _)

(* fields: those of the patch's object. An object only merges with one.    *)
mergeValue(fields, key, value) ==
  IF key \notin DOMAIN fields THEN value
  ELSE LET patch == fields[key] IN
    CASE IsObject(value) /\ ~IsObject(patch) -> Failed
      [] IsObject(patch) /\ (IsObject(value) \/ IsArray(value)) -> mergeObjects(value, patch)
      [] OTHER -> patch

(* A patch reaches the items of an array by their positions.               *)
mergeObjects(data, patch) ==
  CASE IsObject(patch) /\ IsArray(data) ->
         LET ret == [i \in DOMAIN data.items |->
                       mergeValue(patch.fields, ToString(i - 1), data.items[i])]
         IN IF \E i \in DOMAIN ret : ret[i] = Failed THEN Failed ELSE Array(ret)
    [] IsObject(patch) /\ IsObject(data) ->
         LET ret == [k \in DOMAIN data.fields |->
                       mergeValue(patch.fields, k, data.fields[k])]
         IN IF \E k \in DOMAIN ret : ret[k] = Failed THEN Failed
            ELSE Object(ret @@ patch.fields)
    [] OTHER -> data

Merge(data, patch) ==
  IF NotJSON \in {data, patch} THEN Failed ELSE mergeObjects(data, patch)

-----------------------------------------------------------------------------
(* What Merge promises, path by path. A path is a sequence of keys.        *)

Absent == [kind |-> "absent"]

Child(v, k) ==
  CASE IsObject(v) -> IF k \in DOMAIN v.fields THEN v.fields[k] ELSE Absent
    [] IsArray(v)  -> LET is == {i \in DOMAIN v.items : ToString(i - 1) = k}
                      IN IF is = {} THEN Absent ELSE v.items[CHOOSE i \in is : TRUE]
    [] OTHER       -> Absent

At(v, path) == FoldLeft(Child, v, path)

(* Every object the patch has on the way is laid over a value that has     *)
(* parts in the data.                                                      *)
Laid(data, patch, path) ==
  \A n \in 0..(Len(path) - 1) :
    LET way == SubSeq(path, 1, n)
    IN IsObject(At(patch, way)) /\ (IsObject(At(data, way)) \/ IsArray(At(data, way)))

(* Something that is no object is laid over an object.                     *)
Conflict(data, patch, path) ==
  /\ Laid(data, patch, path)
  /\ IsObject(At(data, path)) /\ ~IsObject(At(patch, path)) /\ At(patch, path) # Absent

(* The value at a path is the data's where the patch has none, else the    *)
(* patch's; but an array gains no items, and two values with parts merge.  *)
Overlaid(data, patch, path) ==
  LET merged == At(Merge(data, patch), path)
      old    == At(data, path)
      new    == At(patch, path)
  IN CASE new = Absent -> merged = old
       [] new # Absent /\ old = Absent ->
            merged = IF IsArray(At(data, Front(path))) THEN Absent ELSE new
       [] IsObject(new) /\ (IsObject(old) \/ IsArray(old)) -> merged.kind = old.kind
       [] OTHER -> merged = new

(* Rule 1 of the comment on Merge: the fields that are there stay.         *)
Kept(data, patch, path) ==
  (\A n \in 0..(Len(path) - 1) : IsObject(At(data, SubSeq(path, 1, n)))) =>
    (At(Merge(data, patch), path) = Absent => At(data, path) = Absent)

(* A message delivered twice changes nothing the second time.              *)
Again(data, patch) ==
  LET merged == Merge(data, patch) IN Merge(merged, patch) = merged
=============================================================================
