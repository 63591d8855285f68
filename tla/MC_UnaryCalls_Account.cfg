CONSTANTS
    c1 = c1
    c2 = c2
    Calls <- MCCalls
    Methods <- MCAccount
    MaxLedger <- MCMaxLedger
SPECIFICATION FairSpec
PROPERTY
    EveryCallAnswered
