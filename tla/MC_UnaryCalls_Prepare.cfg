CONSTANTS
    c1 = c1
    c2 = c2
    Calls <- MCCalls
    Methods <- MCPrepare
    MaxLedger <- MCMaxLedger
SPECIFICATION Spec
INVARIANT
    RepliedAtMostOnce
