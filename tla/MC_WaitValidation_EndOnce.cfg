CONSTANTS
    s1 = s1
    s2 = s2
    Streams <- MCStreams
    MaxLedger <- MCMaxLedger

SPECIFICATION Spec

INVARIANT
    EndedOnce
