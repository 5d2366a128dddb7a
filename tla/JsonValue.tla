----------------------------- MODULE JsonValue ------------------------------
(* Json::Value: a value of one of eight types, and its conversions.        *)
EXTENDS JsonText, JsonContainer

Types == << "null", "int", "uint", "real", "string", "bool", "array", "object" >>

isDouble(v) == type_(v) \in {"int", "uint", "real"}

-----------------------------------------------------------------------------
(* Ranges.  value_ of a real counts halves.  The double next to            *)
(* maxLargestInt is one more than it, and that next to maxLargestUInt too: *)
(* 2^63 - 1 and 2^64 - 1 are no doubles.                                   *)

DoubleMaxInt64 == MaxLargestInt + 1
DoubleMaxUInt64 == MaxLargestUInt + 1

InRange(double, min, max) == double >= 2 * min /\ double <= 2 * max
IsIntegral(double) == double % 2 = 0
Truncated(double) == IF double >= 0 THEN double \div 2 ELSE -((-double) \div 2)

isInt(v) ==
    CASE type_(v) = "int"  -> value_(v) >= MinInt /\ value_(v) <= MaxInt
      [] type_(v) = "uint" -> value_(v) <= MaxInt
      [] type_(v) = "real" -> /\ InRange(value_(v), MinInt, MaxInt)
                              /\ IsIntegral(value_(v))
      [] OTHER -> FALSE

isUInt(v) ==
    CASE type_(v) = "int"  -> value_(v) >= 0 /\ value_(v) <= MaxUInt
      [] type_(v) = "uint" -> value_(v) <= MaxUInt
      [] type_(v) = "real" -> /\ InRange(value_(v), 0, MaxUInt)
                              /\ IsIntegral(value_(v))
      [] OTHER -> FALSE

(* Mutant: isInt64 with the limit itself.                                  *)
isInt64_Bug(v) ==
    CASE type_(v) = "int"  -> TRUE
      [] type_(v) = "uint" -> value_(v) <= MaxLargestInt
      [] type_(v) = "real" -> /\ InRange(value_(v), MinLargestInt, DoubleMaxInt64)
                              /\ IsIntegral(value_(v))
      [] OTHER -> FALSE

isInt64(v) ==
    CASE type_(v) = "int"  -> TRUE
      [] type_(v) = "uint" -> value_(v) <= MaxLargestInt
      [] type_(v) = "real" -> /\ value_(v) >= 2 * MinLargestInt
                              /\ value_(v) < 2 * DoubleMaxInt64
                              /\ IsIntegral(value_(v))
      [] OTHER -> FALSE

isUInt64(v) ==
    CASE type_(v) = "int"  -> value_(v) >= 0
      [] type_(v) = "uint" -> TRUE
      [] type_(v) = "real" -> /\ value_(v) >= 0
                              /\ value_(v) < 2 * DoubleMaxUInt64
                              /\ IsIntegral(value_(v))
      [] OTHER -> FALSE

isIntegral(v) ==
    CASE type_(v) \in {"int", "uint"} -> TRUE
      [] type_(v) = "real" -> /\ value_(v) >= 2 * MinLargestInt
                              /\ value_(v) < 2 * DoubleMaxUInt64
                              /\ IsIntegral(value_(v))
      [] OTHER -> FALSE

-----------------------------------------------------------------------------
(* Conversions.                                                            *)

GivesIf(holds, x) == IF holds THEN Gives(x) ELSE Throws(x)

(* What asInt, asUInt, asInt64 and asUInt64 share: they differ in the test *)
(* of each of the three kinds of number.                                   *)
AsNumber(v, intFits, uintFits, realFits) ==
    CASE type_(v) = "int"  -> GivesIf(intFits, value_(v))
      [] type_(v) = "uint" -> GivesIf(uintFits, value_(v))
      [] type_(v) = "real" -> GivesIf(realFits, Truncated(value_(v)))
      [] type_(v) = "null" -> Gives(0)
      [] type_(v) = "bool" -> Gives(IF value_(v) THEN 1 ELSE 0)
      [] OTHER -> Throws(0)

asInt(v) == AsNumber(v, isInt(v), isInt(v), InRange(value_(v), MinInt, MaxInt))
asUInt(v) == AsNumber(v, isUInt(v), isUInt(v), InRange(value_(v), 0, MaxUInt))
asInt64(v) ==
    AsNumber(v, TRUE, isInt64(v),
             InRange(value_(v), MinLargestInt, DoubleMaxInt64))
asUInt64(v) ==
    AsNumber(v, isUInt64(v), TRUE, InRange(value_(v), 0, DoubleMaxUInt64))

(* An integer becomes the next double: the largest two are rounded up.     *)
Rounded(n) == IF n \in {MaxLargestInt, MaxLargestUInt} THEN n + 1 ELSE n

asDouble(v) ==
    CASE type_(v) \in {"int", "uint"} -> Gives(2 * Rounded(value_(v)))
      [] type_(v) = "real" -> Gives(value_(v))
      [] type_(v) = "null" -> Gives(0)
      [] type_(v) = "bool" -> Gives(IF value_(v) THEN 2 ELSE 0)
      [] OTHER -> Throws(0)

asBool(v) ==
    CASE type_(v) = "bool" -> Gives(value_(v))
      [] type_(v) = "null" -> Gives(FALSE)
      [] isDouble(v)       -> Gives(value_(v) # 0)
      [] OTHER -> Throws(FALSE)

(* Only whether there is a text and whether it is empty.                   *)
asString(v) ==
    CASE type_(v) = "null"   -> Gives(<< >>)
      [] type_(v) = "string" -> Gives(value_(v))
      [] type_(v) = "bool" \/ isDouble(v) -> Gives(<< "text" >>)
      [] OTHER -> Throws(<< >>)

isConvertibleTo(v, other) ==
    LET t == type_(v)
        plain == {"null", "bool"}
    IN  CASE other = "null" ->
                 \/ isDouble(v) /\ asDouble(v).v = 0
                 \/ t = "bool" /\ value_(v) = FALSE
                 \/ t = "string" /\ asString(v).v = << >>
                 \/ isContainer(v) /\ DOMAIN value_(v) = {}
                 \/ t = "null"
          [] other = "int" ->
                 \/ isInt(v) \/ t \in plain
                 \/ t = "real" /\ InRange(value_(v), MinInt, MaxInt)
          [] other = "uint" ->
                 \/ isUInt(v) \/ t \in plain
                 \/ t = "real" /\ InRange(value_(v), 0, MaxUInt)
          [] other \in {"real", "bool"} -> isDouble(v) \/ t \in plain
          [] other = "string" -> isDouble(v) \/ t \in plain \cup {"string"}
          [] OTHER -> t \in {other, "null"}

-----------------------------------------------------------------------------
(* What the conversions promise.                                           *)

(* The values conversions are about: what value_ can hold of each type.    *)
IsNumber(v) ==
    \/ v \in {"int"} \X (MinLargestInt .. MaxLargestInt)
    \/ v \in {"uint"} \X (0 .. MaxLargestUInt)
    \/ v \in {"real"} \X Int

IsValue(v) ==
    \/ v = Null \/ IsNumber(v)
    \/ v \in {"bool"} \X BOOLEAN
    \/ \E x : v = << "string", x >> \/ v = << "array", x >> \/ v = << "object", x >>

Fits(as, min, max) == ~as.threw => as.v \in min .. max
Halves(v) == IF type_(v) = "real" THEN value_(v) ELSE 2 * value_(v)
Exact(v, is, as, min, max) ==
    is => ~as.threw /\ 2 * as.v = Halves(v) /\ Fits(as, min, max)

(* isConvertibleTo tells which conversion throws, a value that is an       *)
(* integer of some width converts to it exactly, and a result has the      *)
(* width of its type - but that of a double which is maxInt64 or maxUInt64 *)
(* rounded up (Value::asInt to isIntegral).                                *)
Agrees(v) ==
    /\ isConvertibleTo(v, "int") = ~asInt(v).threw
    /\ isConvertibleTo(v, "uint") = ~asUInt(v).threw
    /\ isConvertibleTo(v, "real") = ~asDouble(v).threw
    /\ isConvertibleTo(v, "bool") = ~asBool(v).threw
    /\ isConvertibleTo(v, "string") = ~asString(v).threw
    /\ isConvertibleTo(v, "null") /\ ~isContainer(v)
           => asBool(v).threw \/ ~asBool(v).v
    /\ Exact(v, isInt(v), asInt(v), MinInt, MaxInt)
    /\ Exact(v, isUInt(v), asUInt(v), 0, MaxUInt)
    /\ Exact(v, isInt64(v), asInt64(v), MinLargestInt, MaxLargestInt)
    /\ Exact(v, isUInt64(v), asUInt64(v), 0, MaxLargestUInt)
    /\ isIntegral(v) = (isInt64(v) \/ isUInt64(v))
    /\ Fits(asInt(v), MinInt, MaxInt)
    /\ Fits(asUInt(v), 0, MaxUInt)
    /\ \/ v = << "real", 2 * DoubleMaxInt64 >>
       \/ Fits(asInt64(v), MinLargestInt, MaxLargestInt)
    /\ \/ v = << "real", 2 * DoubleMaxUInt64 >>
       \/ Fits(asUInt64(v), 0, MaxLargestUInt)

=============================================================================
