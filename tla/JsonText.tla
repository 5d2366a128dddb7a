------------------------------ MODULE JsonText ------------------------------
(* How JsonCpp (src/tdebug/jsoncpp.cpp, the JSON library of the debug      *)
(* menu) turns strings and numbers into JSON text and back.  Only          *)
(* operators: the reader's machine is JsonReader, the writers are          *)
(* JsonWriter.                                                             *)
(*                                                                         *)
(* A string is the sequence of its bytes.  The text between its quotes is  *)
(* a sequence of units: a byte written as it is, a two-character escape,   *)
(* \uXXXX, or an escape that is none.  A numeral is its sign and its       *)
(* digits, or the double it reads as.  A double is counted in halves,      *)
(* which is exact for every value the models use; the printing of its 17   *)
(* digits and their rounding are left out, and so is the locale.           *)
EXTENDS Integers, Sequences

CONSTANTS
    MaxInt,             \* the bounds of Int, UInt, LargestInt, LargestUInt:
    MaxUInt,            \* 2^31 - 1, 2^32 - 1, 2^63 - 1 and 2^64 - 1 in the
    MaxLargestInt,      \* build, smaller powers of two in the runs
    MaxLargestUInt

ASSUME WidthAssumption ==
    /\ {MaxInt, MaxUInt, MaxLargestInt, MaxLargestUInt} \subseteq Nat \ {0}
    /\ MaxUInt = 2 * MaxInt + 1
    /\ MaxLargestUInt = 2 * MaxLargestInt + 1
    /\ MaxUInt < MaxLargestInt

MinInt == -MaxInt - 1
MinLargestInt == -MaxLargestInt - 1

(* The doubles that are no number of halves: beyond every bound above and  *)
(* every other double of the runs.                                         *)
Infinity == 4000 * MaxLargestUInt
NaN == 2 * Infinity
MaxDouble == Infinity - 1

-----------------------------------------------------------------------------
(* UTF-8.  A shift is a product, a mask a remainder.                       *)

Bits(x, width, shift) == (x \div 2^shift) % 2^width
Trail(cp, shift) == 128 + Bits(cp, 6, shift)

codePointToUTF8(cp) ==
    CASE cp <= 127 -> << cp >>
      [] cp \in 128 .. 2047 -> << 192 + Bits(cp, 5, 6), Trail(cp, 0) >>
      [] cp \in 2048 .. 65535 ->
             << 224 + Bits(cp, 4, 12), Trail(cp, 6), Trail(cp, 0) >>
      [] cp \in 65536 .. 1114111 ->
             << 240 + Bits(cp, 3, 18), Trail(cp, 12), Trail(cp, 6),
                Trail(cp, 0) >>
      [] OTHER -> << >>

REPLACEMENT_CHARACTER == 65533

(* The length a first byte announces.  A byte of 16#F8 or more announces   *)
(* nothing; so does a sequence the string is too short for.                *)
Announced(s, i) ==
    LET n == CASE s[i] < 128 -> 1
               [] s[i] \in 128 .. 223 -> 2
               [] s[i] \in 224 .. 239 -> 3
               [] s[i] \in 240 .. 247 -> 4
               [] OTHER -> 0
    IN  IF i + n - 1 <= Len(s) THEN n ELSE 0

(* The code point that starts at byte i of s and the byte the writer's     *)
(* loop goes on with.  Three bytes that make 16#DFFF or more are taken for *)
(* a surrogate (the code asks twice for a lower bound), and the plane of   *)
(* four bytes is shifted by 24 instead of 18.                              *)
utf8ToCodepoint(s, i) ==
    LET low(k) == s[i + k] % 64
        n == Announced(s, i)
        calculated ==
            CASE n = 1 -> s[i]
              [] n = 2 -> (s[i] % 32) * 64 + low(1)
              [] n = 3 -> (s[i] % 16) * 4096 + low(1) * 64 + low(2)
              [] n = 4 -> (s[i] % 8) * 16777216 + low(1) * 4096
                              + low(2) * 64 + low(3)
              [] OTHER -> REPLACEMENT_CHARACTER
        valid ==
            CASE n = 2 -> calculated >= 128
              [] n = 3 -> /\ ~(calculated >= 55296 /\ calculated >= 57343)
                          /\ calculated >= 2048
              [] n = 4 -> calculated >= 65536
              [] OTHER -> TRUE
    IN  [cp   |-> IF valid THEN calculated ELSE REPLACEMENT_CHARACTER,
         next |-> i + (IF n = 0 THEN 1 ELSE n)]

toHex16Bit(x) == x % 65536

-----------------------------------------------------------------------------
(* Strings.                                                                *)

(* Quote, backslash, backspace, form feed, newline, return and tab.        *)
ShortEscaped == {34, 92, 8, 12, 10, 13, 9}

Unit(kind, n) == << kind, n >>
BadEscape == Unit("bad", 0)     \* \x, a \u without four digits, a last \

EscapeOf(cp) ==
    IF cp < 128 /\ cp >= 32 THEN << Unit("raw", cp) >>
    ELSE IF cp < 65536      THEN << Unit("u", toHex16Bit(cp)) >>
    ELSE << Unit("u", toHex16Bit((cp - 65536) \div 1024 + 55296)),
            Unit("u", toHex16Bit(((cp - 65536) % 1024) + 56320)) >>

(* valueToQuotedStringN.  Every non-empty string takes the loop: a plain   *)
(* ASCII byte asks for quoting by isAnyCharRequiredQuoting's < 0x80, and   *)
(* any other byte is a negative char on the platform of the build.         *)
valueToQuotedStringN(s) ==
    LET from[i \in 1 .. Len(s) + 1] ==
            IF i > Len(s) THEN << >>
            ELSE IF s[i] \in ShortEscaped
            THEN << Unit("short", s[i]) >> \o from[i + 1]
            ELSE LET c == utf8ToCodepoint(s, i)
                 IN  EscapeOf(c.cp) \o from[c.next]
    IN  from[1]

Decoded(s) == [ok |-> TRUE, s |-> s]
Undecoded == [ok |-> FALSE, s |-> << >>]
Before(bytes, rest) == IF rest.ok THEN Decoded(bytes \o rest.s) ELSE rest

IsHigh(n) == n >= 55296 /\ n <= 56319
Paired(high, low) == 65536 + (high % 1024) * 1024 + (low % 1024)

(* decodeString, with decodeUnicodeCodePoint: a high surrogate takes       *)
(* whatever \uXXXX comes next for its other half.                          *)
decodeString(text) ==
    LET from[i \in 1 .. Len(text) + 1] ==
            IF i > Len(text) THEN Decoded(<< >>)
            ELSE LET kind == text[i][1]
                     n == text[i][2]
                 IN  CASE kind \in {"raw", "short"} ->
                              Before(<< n >>, from[i + 1])
                       [] kind = "u" /\ ~IsHigh(n) ->
                              Before(codePointToUTF8(n), from[i + 1])
                       [] kind = "u" /\ IsHigh(n) ->
                              IF i < Len(text) /\ text[i + 1][1] = "u"
                              THEN Before(codePointToUTF8(
                                              Paired(n, text[i + 1][2])),
                                          from[i + 2])
                              ELSE Undecoded
                       [] OTHER -> Undecoded
    IN  from[1]

-----------------------------------------------------------------------------
(* Numbers.                                                                *)

Integral(neg, digits) == << "integral", neg, digits >>
Floating(double) == << "floating", double >>

(* uintToString: the digits from the last to the first.                    *)
uintToString(value) ==
    LET digits[v \in 0 .. value] ==
            IF v < 10 THEN << v >>
            ELSE digits[v \div 10] \o << v % 10 >>
    IN  digits[value]

valueToString(n) ==
    IF n < 0 THEN Integral(TRUE, uintToString(-n))
             ELSE Integral(FALSE, uintToString(n))

(* The text of a double always reads as a double: where %g prints neither  *)
(* point nor exponent, .0 is added.  A NaN is written null (JsonWriter).   *)
doubleToString(double) == Floating(double)

(* decodeDouble: a numeral no double can hold fails to be read.            *)
decodeDouble(double) ==
    IF double \in -MaxDouble .. MaxDouble
    THEN [ok |-> TRUE, v |-> << "real", double >>]
    ELSE [ok |-> FALSE, v |-> << "null", 0 >>]

ValueOf(digits) ==
    LET value[i \in 0 .. Len(digits)] ==
            IF i = 0 THEN 0 ELSE value[i - 1] * 10 + digits[i]
    IN  value[Len(digits)]

(* decodeNumber.  -1 stands for the jump to decodeDouble out of the loop.  *)
decodeNumber(numeral) ==
    IF numeral[1] = "floating" THEN decodeDouble(numeral[2])
    ELSE
    LET isNegative == numeral[2]
        digits == numeral[3]
        maxIntegerValue == IF isNegative THEN MaxLargestInt + 1
                                         ELSE MaxLargestUInt
        threshold == maxIntegerValue \div 10
        TooLarge(soFar, i) ==
            /\ soFar >= threshold
            /\ \/ soFar > threshold
               \/ i # Len(digits)
               \/ digits[i] > maxIntegerValue % 10
        value[i \in 0 .. Len(digits)] ==
            IF i = 0 THEN 0
            ELSE IF value[i - 1] = -1 \/ TooLarge(value[i - 1], i) THEN -1
            ELSE value[i - 1] * 10 + digits[i]
        v == value[Len(digits)]
    IN  CASE v = -1 -> decodeDouble((IF isNegative THEN -2 ELSE 2)
                                        * ValueOf(digits))
          [] v # -1 /\ isNegative -> [ok |-> TRUE, v |-> << "int", -v >>]
          [] v # -1 /\ ~isNegative /\ v <= MaxInt ->
                 [ok |-> TRUE, v |-> << "int", v >>]
          [] OTHER -> [ok |-> TRUE, v |-> << "uint", v >>]
=============================================================================
