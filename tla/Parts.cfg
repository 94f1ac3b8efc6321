\* unsigned int has three bits, arrays start with two slots, a buffer with one
\* byte, a second has four ticks.  A fault ends the behaviour: deadlock is not
\* checked
SPECIFICATION Spec
CONSTANTS
    None = None
    Failed = Failed
    UIntRange = 8
    d1 = d1
    d2 = d2
    d3 = d3
    d4 = d4
    d5 = d5
    Data = {d1, d2, d3, d4, d5}
    Rank <- MCRank
    HeapDefault = 2
    VectorDefault = 2
    BufferDefault = 1
    Bytes = {0, 1}
    Lost = Lost
    MaxWrite = 3
    Word = 2
    MaxPool = 11
    MaxExtra = 1
    Second = 4
    Unit = 2
    MaxTime = 9
    short = short
    long = long
    number = number
    list = list
    other = other
    OptionCount = 3
    Accepts <- MCAccepts
    OptionOf <- MCOptionOf
    Tokens <- MCTokens
    Text = Text
    Dash = Dash
    MaxArgs = 4
    MaxAgain = 2
    Lines <- MCLines
    HandleKeys <- MCHandleKeys
    MaxHandles = 2
    MaxLines = 3
    MaxLinesAgain = 1
    Processes = {p1, p2, p3}
    Depth = 2
    MaxLog = 4
INVARIANTS
    StaysInside
    VectorSearches
    TakeAllTakes
    FreeListSound
    OptionsAgree
    ParserAgrees
    ValuesAlive
    DefaultsOnce
    LogKept
PROPERTIES
    HeapServes
    BufferStreams
    ClockAgrees
CHECK_DEADLOCK FALSE
