\* the file of a configuration is read again and again, and may have vanished;
\* a fault ends the behaviour: deadlock is not checked
SPECIFICATION Spec
CONSTANTS
    None = None
    Failed = Failed
    UIntRange = 8
    d1 = d1
    d2 = d2
    d3 = d3
    d4 = d4
    d5 = d5
    Data = {d1, d2, d3, d4, d5}
    Rank <- MCRank
    HeapDefault = 2
    VectorDefault = 2
    BufferDefault = 2
    Bytes = {0}
    Lost = Lost
    MaxWrite = 3
    Word = 2
    MaxPool = 4
    MaxExtra = 1
    Second = 4
    Unit = 2
    MaxTime = 9
    short = short
    long = long
    number = number
    list = list
    other = other
    OptionCount = 3
    Accepts <- MCAccepts
    OptionOf <- MCOptionOf
    Tokens <- MCTokens
    Text = Text
    Dash = Dash
    MaxArgs = 1
    MaxAgain = 1
    Lines <- MCLines
    HandleKeys <- MCHandleKeys
    MaxHandles = 2
    MaxLines = 1
    MaxLinesAgain = 1
    Processes = {p1}
    Depth = 2
    MaxLog = 4
INVARIANT
    TextFreedOnce
CHECK_DEADLOCK FALSE
