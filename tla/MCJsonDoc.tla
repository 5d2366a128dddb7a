----------------------------- MODULE MCJsonDoc -----------------------------
(* An instance of JsonDoc for TLC.  Int has 4 bits and LargestInt 8.       *)
EXTENDS JsonDoc
LOCAL INSTANCE SequencesExt

Utf8(cps) == FlattenSeq([i \in 1 .. Len(cps) |-> codePointToUTF8(cps[i])])

Ints == {-128, -9, -8, -1, 7, 8, 127}
UInts == {0, 7, 8, 15, 16, 127, 128, 255}
Reals == {0, 1, 14, 15, -17, 30, 31, -256, 255, 256, 510, 512, 514,
          NaN, Infinity, -Infinity}

(* Quote, line end, control, DEL, NUL, and the ends of what is encoded in  *)
(* one, two, three and four bytes and comes back as it was; and two        *)
(* strings that do not.                                                    *)
Strings == {<< >>, << 97, 34 >>, << 10, 31, 127 >>, << 0 >>,
            << 128, 2047 >>, << 2048, 55295 >>, << 65536, 262143 >>,
            << 44032, 128512, 97 >>,
            << 57344 >>, << 262144 >>}

MCLeaves ==
    {<< "int", n >> : n \in Ints} \cup {<< "uint", n >> : n \in UInts} \cup
    {<< "real", n >> : n \in Reals} \cup
    {<< "string", Utf8(s) >> : s \in Strings} \cup
    {<< "bool", b >> : b \in BOOLEAN}

One == << "int", 1 >>
MCParts ==
    {One, << "real", NaN >>, EmptyArray, << "array", [i \in {0} |-> One] >>,
     << "array", [i \in {1} |-> << "bool", TRUE >>] >>,
     << "object", [n \in {<< >>} |-> One] >>}

A == << 97 >>
MCNames == {<< >>, A, << 97, 0 >>}
MCIndexes == {0, 1, 3}

Plain(s) == [i \in 1 .. Len(s) |-> Unit("raw", s[i])]
MCAlphabet ==
    {Mark(k) : k \in {"{", "}", "[", "]", ",", ":", "comment", "null"}} \cup
    {<< "string", << >> >>, << "string", Plain(A) >>,
     << "string", << BadEscape >> >>, Mark("error")}

(* Nothing, and a member of an object. *)
MCStarts ==
    {<< >>, << Mark("{"), << "string", Plain(A) >>, Mark(":"), Mark("null") >>}
=============================================================================
