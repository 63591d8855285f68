------------------------- MODULE MC_WaitValidation -------------------------
(* Two concurrent WaitValidation calls over a network that validates up to *)
(* four ledgers: enough for a call to hear ledgers, be cancelled between   *)
(* two of them, miss one validated while the websocket was down, and for   *)
(* the other call to open before, between and after these events.         *)
EXTENDS WaitValidation

CONSTANTS s1, s2

MCStreams == {s1, s2}

MCMaxLedger == 4

=============================================================================
