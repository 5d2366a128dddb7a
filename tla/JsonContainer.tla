---------------------------- MODULE JsonContainer ---------------------------
(* Json::Value: the std::map inside arrays and objects.  A value is the    *)
(* pair of its type_ and its value_; the map of an array or object is a    *)
(* function on the keys it holds, an index or the bytes of a name, so an   *)
(* array may have holes.  Who owns the memory of a string, comments and    *)
(* source offsets are left out.                                            *)
EXTENDS Integers, Sequences, FiniteSetsExt, Functions

Null == << "null", 0 >>
EmptyArray == << "array", << >> >>
EmptyObject == << "object", << >> >>

type_(v) == v[1]
value_(v) == v[2]

isContainer(v) == type_(v) \in {"array", "object"}

(* The result, or the exception of JSON_ASSERT_MESSAGE and                 *)
(* JSON_FAIL_MESSAGE.                                                      *)
Gives(x) == [threw |-> FALSE, v |-> x]
Throws(x) == [threw |-> TRUE, v |-> x]

-----------------------------------------------------------------------------
(* Arrays.  A read of an index the map does not hold gives null; the       *)
(* operator[] that may assign puts a null there.                           *)

Put(map, k, x) == [j \in DOMAIN map \cup {k} |-> IF j = k THEN x ELSE map[j]]
Without(map, S) == Restrict(map, DOMAIN map \ S)

size(v) ==
    CASE type_(v) = "array"  -> IF DOMAIN value_(v) = {} THEN 0
                                ELSE Max(DOMAIN value_(v)) + 1
      [] type_(v) = "object" -> Cardinality(DOMAIN value_(v))
      [] OTHER -> 0

getIndex(v, i) ==
    IF type_(v) = "array" /\ i \in DOMAIN value_(v) THEN value_(v)[i] ELSE Null

OrElse(v, empty) == IF type_(v) = "null" THEN empty ELSE v

resolveIndex(v, i) ==
    IF type_(v) \notin {"null", "array"} THEN Throws(v)
    ELSE LET a == OrElse(v, EmptyArray)
         IN  Gives(IF i \in DOMAIN value_(a) THEN a
                   ELSE << "array", Put(value_(a), i, Null) >>)

setIndex(v, i, x) ==
    LET r == resolveIndex(v, i)
    IN  IF r.threw THEN r ELSE Gives(<< "array", Put(value_(r.v), i, x) >>)

append(v, x) == setIndex(v, size(v), x)

clear(v) ==
    CASE type_(v) = "null" -> Gives(v)
      [] isContainer(v)    -> Gives(<< type_(v), << >> >>)
      [] OTHER             -> Throws(v)

(* The last JSON_ASSERT comes after the erasing.                           *)
resize(v, newSize) ==
    LET a == OrElse(v, EmptyArray)
        oldSize == size(a)
        erased == << "array", Without(value_(a), newSize .. oldSize - 1) >>
    IN  IF type_(v) \notin {"null", "array"} THEN Throws(v)
        ELSE CASE newSize = 0 -> clear(a)
               [] newSize > oldSize -> resolveIndex(a, newSize - 1)
               [] OTHER -> [threw |-> size(erased) # newSize, v |-> erased]

(* Mutant: the shift stops one item early.                                 *)
removeIndex_Bug(v, i) ==
    IF type_(v) # "array" \/ i \notin DOMAIN value_(v) THEN v
    ELSE LET shifted == i .. size(v) - 3
             kept == {j \in DOMAIN value_(v) : j < size(v) - 1}
         IN  << "array", [j \in kept \cup shifted |->
                              IF j \in shifted THEN getIndex(v, j + 1)
                                               ELSE value_(v)[j]] >>

(* The items after the removed one move down, the holes among them as      *)
(* nulls.                                                                  *)
removeIndex(v, i) ==
    IF type_(v) # "array" \/ i \notin DOMAIN value_(v) THEN v
    ELSE LET oldSize == size(v)
             shifted == i .. oldSize - 2
             kept == {j \in DOMAIN value_(v) : j < i}
         IN  << "array", [j \in kept \cup shifted |->
                              IF j < i THEN value_(v)[j]
                                       ELSE getIndex(v, j + 1)] >>

-----------------------------------------------------------------------------
(* Objects.                                                                *)

resolveReference(v, name) ==
    IF type_(v) \notin {"null", "object"} THEN Throws(v)
    ELSE LET o == OrElse(v, EmptyObject)
         IN  Gives(IF name \in DOMAIN value_(o) THEN o
                   ELSE << "object", Put(value_(o), name, Null) >>)

setMember(v, name, x) ==
    LET r == resolveReference(v, name)
    IN  IF r.threw THEN r ELSE Gives(<< "object", Put(value_(r.v), name, x) >>)

getMember(v, name) ==
    IF type_(v) = "object" /\ name \in DOMAIN value_(v)
    THEN value_(v)[name] ELSE Null

(* The string up to its first NUL: what a callee given c_str() sees.       *)
c_str(s) ==
    LET nul == {i \in 1 .. Len(s) : s[i] = 0}
    IN  IF nul = {} THEN s
        ELSE SubSeq(s, 1, (CHOOSE i \in nul : \A j \in nul : i <= j) - 1)

(* removeMember of a C string: the name ends at its first NUL.             *)
removeMember(v, name) ==
    IF type_(v) \notin {"null", "object"} THEN Throws(v)
    ELSE Gives(IF type_(v) = "null" THEN v
               ELSE << "object", Without(value_(v), {c_str(name)}) >>)
-----------------------------------------------------------------------------
(* What the operations on arrays promise, for indices below maxUInt, where *)
(* size() does not wrap.                                                   *)

(* An array as the list of its size() elements, holes read as nulls.       *)
List(v) == [i \in 1 .. size(v) |-> getIndex(v, i - 1)]
IsArray(v) == type_(v) \in {"null", "array"}
Hole(v, i) == i < size(v) /\ i \notin DOMAIN value_(v)

(* v becomes w: append puts x at the end of the list;                      *)
Appended(v, x, w) == List(w) = Append(List(v), x)

(* resize cuts the list or fills it up with nulls, but throws when it      *)
(* would end in a hole;                                                    *)
Resized(list, n) ==
    [i \in 1 .. n |-> IF i <= Len(list) THEN list[i] ELSE Null]
ResizedTo(v, n, thrown, w) ==
    IF n > 0 /\ Hole(v, n - 1) THEN thrown
    ELSE ~thrown /\ List(w) = Resized(List(v), n)

(* removeIndex takes an element out, but a hole cannot be removed, and     *)
(* with the last element go the holes before it.                           *)
Removed(list, i) ==
    SubSeq(list, 1, i) \o SubSeq(list, i + 2, Len(list))
RemovedAt(v, i, w) ==
    LET list == List(v)
    IN  IF i >= Len(list) \/ Hole(v, i) THEN w = v
        ELSE IF i = Len(list) - 1 /\ i > 0 /\ Hole(v, i - 1)
        THEN \E n \in 0 .. i - 1 : List(w) = SubSeq(list, 1, n)
        ELSE List(w) = Removed(list, i)
=============================================================================
