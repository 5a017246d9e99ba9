SPECIFICATION Spec
CHECK_DEADLOCK FALSE
CONSTANTS
    A = A
    B = B
    record = record
    marks = marks
    Book = {A, B}
    Surface = {record, marks}
    Key <- ThreeKeys
    Batch = {b1, b2}
    Outcome = {"writes", "same", "absent"}
    Cap = 3
    MaxEdits = 1
INVARIANT TicketsServeTheirOwn
PROPERTY BatchesClose
