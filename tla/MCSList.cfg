CONSTANTS
    Lists = {l1, l2, l3}
    Temp = temp
    Nodes = {n1, n2, n3, n4}
    Values = {a, b}
    Null = Null
    NoValue = NoValue
    MaxInit = 2
SPECIFICATION Spec
SYMMETRY Symmetry
INVARIANTS Structure ReadersAgree
PROPERTY ImplementsSequence LoopsAdvance
