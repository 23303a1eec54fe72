SPECIFICATION Spec
CONSTANTS
    Values = {0, 1}
    Zero = 0
    Null = Null
    Add <- MCAdd
    Columns = {c1, c2}
    Buffers = {object, chunk}
    MaxRows = 3
SYMMETRY MCSymmetry
INVARIANTS
    ReadsAgree
    OneEntryWritten
PROPERTY
    ImplementsTable
