SPECIFICATION MCSpec
CONSTANTS
    Parts = {"registers", "arithmetic"}
    Byte = 4
    Operands <- MCOperands
    Statuses <- MCStatuses
    Nib = 4
    Radix = 3
    Numbers <- MCNumbers
CONSTRAINT Few
INVARIANTS
    ModesAgree
    PullsUndoPushes
    AddersAreArithmetic
