----------------------------- MODULE JsonWriter -----------------------------
(* The three writers a value is printed by: FastWriter, StyledWriter       *)
(* (test_json) and BuiltStyledStreamWriter (Value::toStyledString).  Each  *)
(* gives the tokens of its document; blanks, line ends, indentation and    *)
(* comments are left out, but not the decision between an array on one     *)
(* line and on many, for which the styled writers write the elements into  *)
(* childValues_ first: that buffer and the flag that diverts pushValue     *)
(* into it belong to the writer, not to the array.                         *)
EXTENDS JsonOrder
LOCAL INSTANCE SequencesExt

CONSTANT RightMargin        \* rightMargin_: 74 columns in the build

Tok(kind) == << << kind, << >> >> >>
StringToken(s) == << << "string", valueToQuotedStringN(s) >> >>

(* valueToString and valueToQuotedStringN on what is no container.         *)
ScalarText(v) ==
    CASE type_(v) = "null"   -> Tok("null")
      [] type_(v) = "bool"   -> Tok(IF value_(v) THEN "true" ELSE "false")
      [] type_(v) = "string" -> StringToken(value_(v))
      [] type_(v) \in {"int", "uint"} ->
             << << "number", valueToString(value_(v)) >> >>
      [] OTHER -> IF value_(v) = NaN THEN Tok("null")
                  ELSE << << "number", doubleToString(value_(v)) >> >>

(* The columns of a text written without blanks, one for each token.       *)
Columns(text) == Len(text)

Comma(first) == IF first THEN << >> ELSE Tok(",")

-----------------------------------------------------------------------------
(* FastWriter.                                                             *)

RECURSIVE FastText(_)
FastText(v) ==
    CASE type_(v) = "array" ->
             Tok("[") \o
             FlattenSeq([i \in 1 .. size(v) |->
                 Comma(i = 1) \o FastText(getIndex(v, i - 1))]) \o
             Tok("]")
      [] type_(v) = "object" ->
             LET members == getMemberNames(v)
             IN  Tok("{") \o
                 FlattenSeq([i \in 1 .. Len(members) |->
                     Comma(i = 1) \o StringToken(members[i]) \o Tok(":") \o
                     FastText(value_(v)[members[i]])]) \o
                 Tok("}")
      [] OTHER -> ScalarText(v)

-----------------------------------------------------------------------------
(* A styled writer at work: its document_, childValues_ and                *)
(* addChildValues_.                                                        *)

NewWriter == [document |-> << >>, childValues |-> << >>, add |-> FALSE]

Write(w, text) == [w EXCEPT !.document = @ \o text]

pushValue(w, text) ==
    IF w.add THEN [w EXCEPT !.childValues = Append(@, text)]
             ELSE Write(w, text)

RECURSIVE StyledValue(_, _)

(* Element by element, each with the writer the one before left.           *)
WriteElements(w, v) ==
    LET after[i \in 0 .. size(v)] ==
            IF i = 0 THEN w ELSE StyledValue(after[i - 1], getIndex(v, i - 1))
    IN  after[size(v)]

(* Mutant: addChildValues_ is not reset.                                   *)
isMultineArray_Bug(w, v) ==
    LET nested == \E i \in 0 .. size(v) - 1 :
                      isContainer(getIndex(v, i)) /\ size(getIndex(v, i)) > 0
    IN  IF nested \/ size(v) * 3 >= RightMargin
        THEN [multi |-> TRUE, w |-> [w EXCEPT !.childValues = << >>]]
        ELSE [multi |-> FALSE,
              w |-> WriteElements([w EXCEPT !.childValues = << >>,
                                            !.add = TRUE], v)]

(* isMultineArray: the answer and the writer it leaves.                    *)
isMultineArray(w, v) ==
    LET long == size(v) * 3 >= RightMargin
        nested == \E i \in 0 .. size(v) - 1 :
                      isContainer(getIndex(v, i)) /\ size(getIndex(v, i)) > 0
        tried == WriteElements([w EXCEPT !.childValues = << >>, !.add = TRUE], v)
        lineLength == 4 + (size(v) - 1) * 2
                        + Columns(FlattenSeq(tried.childValues))
    IN  IF long \/ nested
        THEN [multi |-> TRUE, w |-> [w EXCEPT !.childValues = << >>]]
        ELSE [multi |-> lineLength >= RightMargin,
              w |-> [tried EXCEPT !.add = FALSE]]

(* writeArrayValue.                                                        *)
StyledArray(w, v) ==
    LET m == isMultineArray(w, v)
        hasChildValue == m.w.childValues # << >>
        after[i \in 0 .. size(v)] ==
            IF i = 0 THEN Write(m.w, Tok("["))
            ELSE LET x == Write(after[i - 1], Comma(i = 1))
                 IN  IF ~m.multi \/ hasChildValue
                     THEN Write(x, x.childValues[i])
                     ELSE StyledValue(x, getIndex(v, i - 1))
    IN  IF size(v) = 0 THEN pushValue(w, Tok("[") \o Tok("]"))
        ELSE Write(after[size(v)], Tok("]"))

(* writeValue on an object.  StyledWriter gives a name to                  *)
(* valueToQuotedString as a C string.                                      *)
StyledObject(w, v) ==
    LET members == getMemberNames(v)
        after[i \in 0 .. Len(members)] ==
            IF i = 0 THEN Write(w, Tok("{"))
            ELSE StyledValue(
                     Write(after[i - 1], Comma(i = 1) \o
                           StringToken(c_str(members[i])) \o Tok(":")),
                     value_(v)[members[i]])
    IN  IF members = << >> THEN pushValue(w, Tok("{") \o Tok("}"))
        ELSE Write(after[Len(members)], Tok("}"))

StyledValue(w, v) ==
    CASE type_(v) = "array"  -> StyledArray(w, v)
      [] type_(v) = "object" -> StyledObject(w, v)
      [] OTHER -> pushValue(w, ScalarText(v))

StyledText(v) == StyledValue(NewWriter, v).document

-----------------------------------------------------------------------------
(* BuiltStyledStreamWriter with the settings of StreamWriterBuilder: all   *)
(* comments, so every array goes on many lines and childValues_ stays      *)
(* empty.                                                                  *)

RECURSIVE BuiltText(_)
BuiltText(v) ==
    LET members == getMemberNames(v)
    IN  CASE type_(v) = "array" /\ size(v) > 0 ->
                 Tok("[") \o BuiltText(getIndex(v, 0)) \o
                 FlattenSeq([i \in 1 .. size(v) - 1 |->
                     Tok(",") \o BuiltText(getIndex(v, i))]) \o
                 Tok("]")
          [] type_(v) = "object" /\ members # << >> ->
                 Tok("{") \o
                 FlattenSeq([i \in 1 .. Len(members) |->
                     Comma(i = 1) \o StringToken(members[i]) \o Tok(":") \o
                     BuiltText(value_(v)[members[i]])]) \o
                 Tok("}")
          [] type_(v) = "array"  -> Tok("[") \o Tok("]")
          [] type_(v) = "object" -> Tok("{") \o Tok("}")
          [] OTHER -> ScalarText(v)
=============================================================================
