\* any node may be taken
SPECIFICATION Spec
CONSTANTS
    NodeCount = 7
    Null = Null
    Nodes <- MCNodes
    KeyOf <- MCKeyOf
    InnerTakes = TRUE
INVARIANTS
    RetrievesMembers
