CONSTANTS
    c1 = c1
    c2 = c2
    Calls <- MCCalls
    Methods <- MCAllMethods
    MaxLedger <- MCMaxLedger
SPECIFICATION Spec
SYMMETRY MCSymmetry
INVARIANTS
    TypeOK
    EarliestLedgerSound
