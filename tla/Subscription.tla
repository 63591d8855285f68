---------------------------- MODULE Subscription ----------------------------
(***************************************************************************)
(* What waitValidation promises (spec 4.5 and 9), independently of how     *)
(* ripple-lib-server implements it: each stream goes Idle -> Subscribed -> *)
(* Closed. While Subscribed, every announced ledger is either pushed to    *)
(* it (live stream) or tears it down (cancelled stream); the transport's   *)
(* close signal tears a cancelled stream down as well. The Unsubscribing   *)
(* state of the spec lasts no longer than the step that removes the        *)
(* listener and ends the stream, so it is not a state here.                *)
(*                                                                         *)
(* Validate models the ledger-validated event source: a ledger may be      *)
(* validated without being announced (the spec leaves a disconnection of   *)
(* LedgerClient undefined).                                                *)
(***************************************************************************)
EXTENDS Naturals, Sequences

CONSTANTS Streams, MaxLedger

VARIABLES
    validated,  \* last validated ledger version
    announced,  \* versions announced by a ledger-validated event
    state,      \* state[s] \in {"Idle", "Subscribed", "Closed"}
    cancelled,  \* cancelled[s]: the client has cancelled stream s
    pushed      \* pushed[s]: the ledger versions pushed to stream s

vars == <<validated, announced, state, cancelled, pushed>>

Init ==
    /\ validated = 0
    /\ announced = {}
    /\ state = [s \in Streams |-> "Idle"]
    /\ cancelled = [s \in Streams |-> FALSE]
    /\ pushed = [s \in Streams |-> <<>>]

(* Idle -> Subscribed: the stream is opened and registers its listener.    *)
Subscribe(s) ==
    /\ state[s] = "Idle"
    /\ state' = [state EXCEPT ![s] = "Subscribed"]
    /\ UNCHANGED <<validated, announced, cancelled, pushed>>

(* Ledger v is announced: each Subscribed stream either tears down (if it  *)
(* is cancelled) or is pushed v.                                           *)
Announce(v) ==
    /\ state' = [s \in Streams |->
                   IF state[s] = "Subscribed" /\ cancelled[s] THEN "Closed"
                   ELSE state[s]]
    /\ pushed' = [s \in Streams |->
                    IF state[s] = "Subscribed" /\ ~cancelled[s]
                    THEN Append(pushed[s], v) ELSE pushed[s]]

(* The next ledger is validated, and announced or not.                     *)
Validate ==
    /\ validated < MaxLedger
    /\ validated' = validated + 1
    /\ \/ /\ announced' = announced \cup {validated + 1}
          /\ Announce(validated + 1)
       \/ UNCHANGED <<announced, state, pushed>>
    /\ UNCHANGED cancelled

(* The client cancels stream s, in whatever state it is.                   *)
Cancel(s) ==
    /\ ~cancelled[s]
    /\ cancelled' = [cancelled EXCEPT ![s] = TRUE]
    /\ UNCHANGED <<validated, announced, state, pushed>>

(* The transport's close signal tears a cancelled stream down.             *)
TransportClose(s) ==
    /\ state[s] = "Subscribed"
    /\ cancelled[s]
    /\ state' = [state EXCEPT ![s] = "Closed"]
    /\ UNCHANGED <<validated, announced, cancelled, pushed>>

Next ==
    \/ Validate
    \/ \E s \in Streams : Subscribe(s) \/ Cancel(s) \/ TransportClose(s)

Spec == Init /\ [][Next]_vars

=============================================================================
