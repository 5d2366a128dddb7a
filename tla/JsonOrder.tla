----------------------------- MODULE JsonOrder ------------------------------
(* The order of Json::Value: the order of the keys inside a value, and     *)
(* operator< and operator== between values.                                *)
EXTENDS JsonValue
LOCAL INSTANCE SequencesExt

(* CZString: indexes by number, names byte by byte, the prefix first.      *)
NameLess(a, b) ==
    \E n \in 0 .. Len(a) :
        /\ n <= Len(b) /\ SubSeq(a, 1, n) = SubSeq(b, 1, n)
        /\ n < Len(b)
        /\ n = Len(a) \/ (n < Len(a) /\ a[n + 1] < b[n + 1])

KeyLess(v, a, b) == IF type_(v) = "array" THEN a < b ELSE NameLess(a, b)

(* The order the map is walked in.                                         *)
Keys(v) == SetToSortSeq(DOMAIN value_(v), LAMBDA a, b : KeyLess(v, a, b))

getMemberNames(v) == IF type_(v) = "null" THEN << >> ELSE Keys(v)

-----------------------------------------------------------------------------
(* Values.                                                                 *)

Rank(v) == CHOOSE i \in 1 .. Len(Types) : Types[i] = type_(v)

RECURSIVE Less(_, _), Equal(_, _)

(* std::map's <: the first pair of which either side is the less decides.  *)
MapLess(v, w) ==
    LET a == Keys(v)
        b == Keys(w)
        PairLess(x, i, y, j) ==
            \/ KeyLess(v, i, j)
            \/ i = j /\ Less(value_(x)[i], value_(y)[j])
    IN  \E n \in 1 .. Len(a) :
            /\ PairLess(v, a[n], w, b[n])
            /\ \A m \in 1 .. n - 1 : /\ ~PairLess(v, a[m], w, b[m])
                                     /\ ~PairLess(w, b[m], v, a[m])

Less(v, w) ==
    IF type_(v) # type_(w) THEN Rank(v) < Rank(w)
    ELSE CASE isDouble(v) ->
                  value_(v) < value_(w) /\ NaN \notin {value_(v), value_(w)}
           [] type_(v) = "bool"   -> ~value_(v) /\ value_(w)
           [] type_(v) = "string" -> NameLess(value_(v), value_(w))
           [] isContainer(v) ->
                  LET n == Cardinality(DOMAIN value_(v))
                      m == Cardinality(DOMAIN value_(w))
                  IN  n < m \/ (n = m /\ MapLess(v, w))
           [] OTHER -> FALSE

Equal(v, w) ==
    /\ type_(v) = type_(w)
    /\ IF isContainer(v)
       THEN /\ DOMAIN value_(v) = DOMAIN value_(w)
            /\ \A k \in DOMAIN value_(v) : Equal(value_(v)[k], value_(w)[k])
       ELSE value_(v) = value_(w) /\ (type_(v) = "real" => value_(v) # NaN)

compare(v, w) == IF Less(v, w) THEN -1 ELSE IF Less(w, v) THEN 1 ELSE 0
=============================================================================
