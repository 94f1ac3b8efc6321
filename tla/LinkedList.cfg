\* two lists, a queue and a stack that share three links
SPECIFICATION Spec
CONSTANTS
    Links = {l1, l2, l3}
    Lists = {a, b}
    Queues = {q}
    Stacks = {s}
INVARIANTS
    RingsClosed
PROPERTIES
    ImplementsDeques
