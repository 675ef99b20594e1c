SPECIFICATION Spec
CONSTANTS
    Item = {a, b}
    NoItem = none
    MaxItemCount = 4
    MaxBatch = 4
INVARIANTS
    NoOverlap
PROPERTY
    FifoSpec
