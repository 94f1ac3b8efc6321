\* nodes are inserted in any order and taken while they have at most one child
SPECIFICATION Spec
CONSTANTS
    NodeCount = 9
    Null = Null
    Nodes <- MCNodes
    KeyOf <- MCKeyOf
    InnerTakes = FALSE
INVARIANTS
    CountsMembers
    RetrievesMembers
    Balanced
    PostorderVisitsAll
    CallsReturn
PROPERTIES
    ImplementsOrderedSet
