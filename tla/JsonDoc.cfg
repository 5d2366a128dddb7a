\* test_json with small values, and documents of a few tokens.
CONSTANTS
    MaxInt = 7
    MaxUInt = 15
    MaxLargestInt = 127
    MaxLargestUInt = 255
    StackLimit = 3
    RightMargin = 9
    Leaves <- MCLeaves
    Parts <- MCParts
    Names <- MCNames
    Indexes <- MCIndexes
    OpBound = 3
    Alphabet <- MCAlphabet
    Starts <- MCStarts
    TokenBound = 6
    ErrorBound = 4
SPECIFICATION Spec
INVARIANTS
    ReadsJson
    RoundTrip
    ConversionsAgree
PROPERTY
    ArrayIsAList
\* The program is over when the document has been read.
CHECK_DEADLOCK FALSE
