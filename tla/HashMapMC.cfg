\* a table that starts with eight slots, grows to sixteen and shrinks to four
SPECIFICATION Spec
CONSTANTS
    e1 = e1
    e2 = e2
    e3 = e3
    e4 = e4
    e5 = e5
    Vacant = Vacant
    Removed = Removed
    None = None
    Entries <- MCEntries
    Key <- MCKey
    Hash <- MCHash
    MinSize = 4
    Lower = 20
    Upper = 40
    Rehashes = {0, 3}
    Allocations = {0, 1, 9}
INVARIANTS
    TypeOK
    SizeCounts
    Reachable
PROPERTIES
    ImplementsMultiMap
