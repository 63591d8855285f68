CONSTANTS
    c1 = c1
    c2 = c2
    Calls <- MCCalls
    Methods <- MCAnsweringMethods
    MaxLedger <- MCMaxLedger
SPECIFICATION FairSpec
INVARIANT
    RepliedAtMostOnce
PROPERTY
    EveryCallAnswered
    AnsweredOnlyWhenDone
