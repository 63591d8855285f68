# TLA+ models of ripple-lib-server

This directory holds TLA+ specifications, TLC configurations and TLAPS proofs for
`src/web/ripple-lib-server`. That is the gRPC gateway that exposes ripple-lib's
account, address and transaction operations to the wallet. It is the only part
of `src/` with concurrency.

## 1. The system

One Node.js process (`server.ts`) creates a single `RippleAPI` object on one
websocket to rippled, starts `connect()`, and registers three gRPC services on
it:

| service | handlers | source |
|---|---|---|
| RippleTransactionAPI | prepareTransaction, signTransaction, submitTransaction, waitValidation (server stream), getTransaction, combineTransaction | `rippleapi/service_transaction.ts` |
| RippleAccountAPI | getAccountInfo | `rippleapi/service_account.ts` |
| RippleAddressAPI | generateAddress, generateXAddress, isValidAddress | `rippleapi/service_address.ts` |

All handlers share the `RippleAPI` object: its connection state, its cached
ledger version, and its `'ledger'` event emitter.

Everything runs on the Node.js event loop:
- a handler, an event listener, or the continuation of an `await`/`.then`
  runs to completion without interruption;
- `EventEmitter.emit` runs every listener synchronously, in the same tick.

So the models make each such piece of code one atomic action. The concurrency
comes from what happens between these steps:
- other calls' handlers run;
- the websocket drops (`'disconnected'` only logs, `server.ts:22`) and ripple-lib
  reconnects;
- the network validates ledgers, announced as `'ledger'` only while connected;
- clients cancel streams (`call.cancelled`), and the transport may emit `'close'`.

### Inventory

State that matters:
- `connected`: `rippleAPI.isConnected()`.
- ripple-lib's cached latest ledger version: what `getLedgerVersion` returns.
- The listeners registered on `'ledger'`.
- Per stream: `call.cancelled`, the `'close'` handler, the writes made, and the
  `call.end()` calls made.
- Per unary call: the pending promise chain and the callback invocations.

Hard behaviours:
- a cancel racing a ledger event;
- `'close'` never firing (FIXME at `service_transaction.ts:204`);
- ledgers validated while disconnected, which are never announced;
- two awaits in `_submitTransaction`, with ledgers closing between them;
- promise chains without `.catch`;
- a `.catch` that itself throws;
- an error callback without `return`.

Parts that are not modelled:
- the generated `pb/` code;
- `errors.ts`, which is only a type;
- the erc20-token CLI, a one-shot script with no concurrency;
- the request/response translators, which are data conversion (see PROJECT.json
  "components").

## 2. Modules

| module | models | state | actions |
|---|---|---|---|
| `WaitValidation` | `waitValidation` (176-210) and the shared `'ledger'` event / connection (`server.ts`) | `connected`, `validated`, `listeners[s]`, `opened`, `cancelled`, `closeFired`, `ends[s]`, `sent[s]`; history: `announced`, `openedAt`, `cancelledAt` | `Connect`, `Disconnect`, `Open(s)`, `LedgerClosed` (emit to every registered `LedgerHandler`), `LedgerClosedOffline`, `Cancel(s)`, `Close(s)` |
| `WaitValidation_proofs` | TLAPS proofs about `WaitValidation` | | |
| `UnaryCalls_proofs` | TLAPS proofs about `UnaryCalls` | | |
| `Subscription` | the spec's subscription state machine (spec 4.5, 9), not code | `validated`, `announced`, `state[s]` (Idle / Subscribed / Closed), `cancelled`, `pushed[s]` | `Subscribe(s)`, `Validate` (announced or not), `Cancel(s)`, `TransportClose(s)` |
| `WaitValidationRefinement_proofs` | TLAPS proof that `WaitValidation` refines `Subscription` | | |
| `PrepareTranslation_proofs` | TLAPS proofs about `PrepareTranslation` | | |
| `PrepareTranslation` | the instruction filter of `_prepareTransaction` (54-92) and the encoding of its result (123-130) | `request` (the client's Instructions), `paramInst` (the options given to ripple-lib), `response` | `Send`, `Translate`, `Respond` |
| `UnaryCalls` | every unary handler of the three services, over the shared connection | `connected`, `validated`, `known` (ripple-lib's cache), per call `method`, `phase`, `replies`, `lv`, `earliest`, `inPool`, `txIn`, `complete`, `filled` | `Handle(c)`: the five handler actions; `Settle(c)`: the nine continuations; `LedgerClosed` / `LedgerClosedOffline` (the network may validate submitted blobs) |
| `MC_WaitValidation`, `MC_UnaryCalls`, `MC_PrepareTranslation` | TLC instances: model-value calls, bounds, symmetry | | |

How the state of `WaitValidation` corresponds to the code:
- `listeners[s]` is the number of registrations of stream s's `ledgerHandler`
  on the emitter. `RemoveListener` is the idempotent `removeListener`.
- `ends[s]` counts `call.end()` calls; `sent[s]` is the sequence of
  `call.write` payloads.
- `LedgerHandler(s, v)` is the body of `ledgerHandler`:
  - if the call is cancelled, `end` and `removeListener`;
  - otherwise `write`.

  `Emit(v)` applies it to every stream with a registration, in one step, as
  `emit` does.
- `Close(s)` is the `'close'` handler. The transport emits `'close'` at most
  once, after a cancellation or the end of the call, and possibly never
  (`Close` has no fairness).

How `UnaryCalls` corresponds to the code:
- `replies[c]` counts invocations of the gRPC callback.
- `phase[c]` tracks where the promise chain is: `idle`, `await`, then
  `ledger` / `submit` / `reply` for the two awaits of `_submitTransaction`, then
  `done`.
- A rejection with no `.catch` moves the call to `done` without a reply.
- `complete[c]` abstracts the prepare request's instructions: fee, sequence
  and maxLedgerVersion are all set, so ripple-lib prepares offline.

How `PrepareTranslation` corresponds to the code:
- A client's Instructions is a partial record: the fields it set, with their
  values. `Decode` is what the server's getters return: proto3 scalars have no
  presence (`transaction_pb.d.ts` has no `has` method for them), so a field set
  to 0 or `""` reads like an unset one.
- `FilterInstructions` is the six `if (instructions?.getX())` statements; with
  no Instructions, optional chaining gives `undefined` and nothing is copied.
- `Json(v)` is `JSON.stringify`: text that parses back to `v`. ripple-lib's
  `txJSON` is already `Json(Tx)`, and the handler answers with `Json` of it.

`WaitValidation` is related to `Subscription` by the mapping `SubState`:
- a stream is Idle until its handler has run;
- it is Subscribed while its `ledgerHandler` is registered;
- it is Closed once the listener is removed.

`pushed` is `sent`. `Connect`, `Disconnect`, and a `'close'` that finds the
listener gone are stuttering steps of `Subscription`.

ripple-lib is an external collaborator. The models keep only the parts of its
behaviour that the code's control flow depends on:
- `'ledger'` is emitted only while connected;
- requests reject when not connected;
- `getLedgerVersion` answers from a cache that is refreshed on every ledger and
  on reconnection;
- `combine` returns `{signedTransaction, id}`;
- `NotConnectedError` has no `data`.

## 3. Runs

| run | cfg | expect | what it shows |
|---|---|---|---|
| waitvalidation | `MC_WaitValidation.cfg` | pass | 2 streams, ledgers 1..4, connection flapping (207,830 states). Each live stream is sent exactly the announced ledgers between its opening and its cancellation, in order (`DeliveredExactly`). A cancelled stream's listener is gone by the first announced ledger after the cancel (`ReleasedByNextEvent`). A listener is registered exactly while the stream is open and not ended, so none leaks or is removed early (`ListenerReleased`). |
| waitvalidation_end_once | `MC_WaitValidation_EndOnce.cfg` | violation | `EndedOnce` fails: the cancel branch of `ledgerHandler` ends the call, then `'close'` ends it again (`service_transaction.ts:183` and `:207`). |
| unary_earliest | `MC_UnaryCalls.cfg` | pass | All 9 methods, 2 calls, ledgers 1..3, symmetry over calls. `earliestLedgerVersion` is never above the ledger that validates the blob. |
| unary_answered | `MC_UnaryCalls_Answered.cfg` | pass | sign, the address calls, combine and getTransaction, under fairness. Each is answered (`EveryCallAnswered`) exactly once (`RepliedAtMostOnce`), and only by the step that ends its promise chain (`AnsweredOnlyWhenDone`, an action property). |
| prepare_double_reply | `MC_UnaryCalls_Prepare.cfg` | violation | A disconnected prepare with complete instructions calls back twice. |
| submit_unanswered | `MC_UnaryCalls_Submit.cfg` | violation | A submit that meets a disconnection is never answered. |
| account_unanswered | `MC_UnaryCalls_Account.cfg` | violation | A getAccountInfo while disconnected is never answered: the `.catch` throws on `error.data`. |
| waitvalidation_refinement | `MC_WaitValidation_Refinement.cfg` | pass | Same instance as waitvalidation: every step is a step of `Subscription` (`SubscriptionSpec`). |
| prepare_translation | `MC_PrepareTranslation.cfg` | pass | Every Instructions record with numeric fields from {0, 7} and fees from {"", "12"}, or none (2,191 states). The options handed to ripple-lib hold only fields the client set, with the client's values (`ForwardsOnlySetValues`). |
| prepare_zero_dropped | `MC_PrepareTranslation_EverySet.cfg` | violation | An instruction set to 0 is not forwarded (`ForwardsEverySetField`), against spec 3, 8 and the open question of 9. |

Each property of a passing run has a mutant in PROJECT.json: a plausible bug in
the mapped code that TLC catches. Examples:
- `ledgerHandler` without its cancel check;
- a `'close'` handler that keeps the listener;
- `earliestLedgerVersion` read when the answer arrives;
- `getTransaction` without `.catch`;
- a filter that copies `maxLedgerVersion` from the offset getter;
- a query handler that calls back on a dropped connection and goes on waiting.

**Bounds.**
- Two streams or calls are enough for every interference the code allows: one
  listener list and one connection are shared. A third call adds no new
  interleaving of a different kind.
- Four ledgers (three for UnaryCalls) let a stream:
  - be opened before, between and after ledgers;
  - miss a ledger while disconnected;
  - hear one after reconnecting;
  - be cancelled between two.

  In UnaryCalls, they let a ledger close between `getLedgerVersion` and
  `submit`, and the blob be validated before the answer arrives.
- In `PrepareTranslation`, one zero and one non-zero value per field type
  reach every truthiness outcome of every field. The filter treats the fields
  independently, so more values add no case.
- The theorems below lift the `WaitValidation` results to every number of
  streams and ledgers.

**Deadlock.** `MC_PrepareTranslation` turns the deadlock check off: it models one
call, and a call that has answered has nothing more to do.

**Fairness.**
- `WaitValidation` has none. Its properties are safety properties, and
  `'close'` may really never come.
- `UnaryCalls.FairSpec` assumes two things, for each call:
  - gRPC eventually runs the handler of every call it receives;
  - every pending ripple-lib request eventually settles. ripple-lib puts a
    timeout on every request, and a dropped connection rejects the request.

  Nothing is assumed about the network or the connection.

## 4. Proofs

### `WaitValidation_proofs`

Checked by `tlapm` for every set `Streams` and every `MaxLedger \in Nat`:

- `TypeCorrect`: `Spec => []TypeOK`.
- `InvariantHolds`: `Spec => []IInv`.
- `ListenerReleasedHolds`, `DeliveredExactlyHolds` and `ReleasedByNextEventHolds`
  follow from it.

`IInv` is `TypeOK /\ CallFacts /\ ListenerReleased /\ DeliveredExactly /\
ReleasedByNextEvent`. The three properties are not inductive alone; `CallFacts`
adds four facts:
1. Every announced version is at most `validated`. This makes a new ledger
   greater than everything already sent, so `Append` keeps `sent` ascending.
2. A stream not yet opened has ended nothing and been sent nothing.
3. Only a cancelled stream has been ended. This is what makes
   `ListenerReleased` survive `LedgerHandler`.
4. `openedAt` and `cancelledAt` are not in the future.

The step proof has one case per action. Under each case, for an arbitrary
stream `t`, it proves `CallInvNext(t)`, the invariant's conjuncts about `t` in
the next state. The `LedgerClosed` case splits three ways:
- the stream is registered and cancelled;
- the stream is registered and live;
- the stream is not registered.

It rests on lemmas about `Append` (`RangeAppend`, `SortedAppend`) and on three
set lemmas (`SetGrow`, `SetWiden`, `SetNone`). The set lemmas describe how the
set of versions a stream is owed changes when a ledger is validated.

### `UnaryCalls_proofs`

Checked by `tlapm` for every set `Calls`, every `Methods` and every
`MaxLedger \in Nat`:

- `TypeCorrect`: `Spec => []TypeOK`.
- `InvariantHolds`: `Spec => []IInv`.
- `EarliestLedgerSoundHolds`: `Spec => []EarliestLedgerSound`.
- `RepliedAtMostOnceHolds` (see below).

`EarliestLedgerSound` is not inductive: a ledger that validates a pooled
blob must close after the blob's `getLedgerVersion` read. `IInv` adds
`known <= validated` (ripple-lib's cached version never runs ahead of the
network) and, for each call, `CallOK(c)`:
- only a submit is ever in the phases `ledger`, `submit` and `reply`, and only
  a submit in `reply` or `done` has its blob in the pool;
- a submit about to send has read a version no later than `validated`; so does
  a pooled blob not yet validated;
- a blob not in the pool is not validated, and a validated blob's ledger is
  above the version read;
- an answered submit is `done`, with `earliest = lv + 1`.

The step proof has one case each for the connection actions and the ledger
actions. For a ledger, the pooled blobs it validates get `validated + 1`, which
is above their `lv`. The per-call actions are handled by one lemma,
`CallStepOf`: they change only the state of their own call. `CallFrame` then
carries `CallOK` over for every other call, and each action is proved for its
own call.

`RepliedAtMostOnceHolds` proves `Spec => []RepliedAtMostOnce` under the
hypothesis `"prepareTransaction" \notin Methods`. The proof uses the inductive
`ReplyInv`: a call whose chain is not done has not been called back, and none
has been called back twice. Every action that calls back also moves its call
to `done`, except `PrepareHandler`. Its error callback has no `return`, which
is why prepare is excluded; the run prepare_double_reply shows the second
callback.

`AnsweredOnlyWhenDoneHolds` proves the action property `Spec =>
AnsweredOnlyWhenDone` under the same hypothesis. The lemma `AnswerStep` shows
that a step which changes a call's callback count is an action of that call
(by `CallStepOf`, every other call's state stays put). That action moves the
call from a phase that was not `done` to `done`. Only `TypeOK` is needed, so
`TypeCorrect` and PTL finish the theorem. `PrepareHandler` again is the
exception.

### `WaitValidationRefinement_proofs`

`Refinement`: `Spec => SubscriptionSpec`, for every `Streams` and `MaxLedger`.

The proof uses `InvariantHolds` and `RefStep`: from a state of `IInv`, every
step of `Next` is a step of `Subscription`'s `Next` under `SubState`, or leaves
the mapped state unchanged. The invariant gives what the mapping needs
(`OneListener`):
- a registered stream has exactly one listener, so a single `removeListener`
  closes it;
- a registered stream is open and not ended, so `'close'` on it is guarded by
  `cancelled`: it is `TransportClose`;
- an unopened stream has no listener, so `Open` is `Subscribe`.

`RefLedgerClosed` shows that one `emit` is one announcement: per stream, a
cancelled subscriber is closed, a live one is pushed the version, and the rest
are untouched.

### `PrepareTranslation_proofs`

These hold for every `NumberValues \subseteq Nat` containing 0 and every
`StringValues` containing `""` (`PrepareTranslationAssumption`: the proto3
defaults are values a getter returns). `SentinelsAssumption` says that the
model values `None` and `Undefined` are not Instructions records or answers.
This is what JavaScript's `undefined` is.

- `TypeCorrect`: `Spec => []TypeOK`.
- `ForwardsOnlySetValuesHolds`: `Spec => []ForwardsOnlySetValues`.

`ForwardsOnlySetValues` is not inductive on its own. `Send` may replace a
request while no options exist, and nothing in the property ties the options
to the request. The strengthening `PInv` (checked by TLC first, 2,191 states)
adds that once options exist, a request exists and the options are
`FilterInstructions(Decode(request))`.

The work is in lemmas about the operators:
- `RecordShape` and `DecodeFull`: decoding an Instructions record gives a full
  record, with the client's value where a field was set and the proto3 default
  elsewhere.
- `DecodeDefined`: a decoded request is never `undefined`.
- `FilterType`: the filter of a decoded request is a record of instructions.
- `FilterForwards`: every field the filter keeps was set by the client, with
  the same value. A field left out decodes to its default, which is falsy, so
  the filter drops it.

### What stays with TLC

- `EveryCallAnswered`: liveness under fairness. tlapm does not reason about
  `WF` and `ENABLED`.
- The bounded violation runs. They show a counterexample, not a theorem.
- `RepliedAtMostOnce` and `AnsweredOnlyWhenDone` with prepareTransaction
  among the methods. The first fails there, as prepare_double_reply shows. The
  second fails at the first step of `PrepareHandler` on a dropped connection.
- Nothing in these models is defined recursively, so no induction over data
  is left unproved.

## 5. Not modelled

- The `pb/` stubs: generated code.
- `errors.ts`: a type.
- The erc20-token CLI: one argument check and one awaited web3 call per run,
  with no shared state.
- The contents of requests and responses: JSON, amounts, addresses, secrets.
- The enum table of `_prepareTransaction`: it lives in `./enum`, which is not in
  the repository. `xrpToDrops`: a decimal conversion inside ripple-lib. The
  instruction filter itself is modelled (`PrepareTranslation`).
- A synchronous throw inside a handler (for example `sign` with a bad secret)
  and the process-level effect of an unhandled rejection. Depending on the Node
  version, the effect is a warning or an exit.
- ripple-lib's reconnect policy. The models let `Connect` happen whenever the
  websocket is down. The code only logs a failed first `connect()`
  (`server.ts:32`), and ripple-lib retries only a connection that was once up.
  This is listed as a hazard with no property.

## 6. Divergences read directly from the code

These two are visible in a single line each. A model would only restate that
line, so no run checks them.
- `isResCombineTransaction` (`service_transaction.ts:275-276`) requires
  `txJSON`, but ripple-lib's `combine` returns `{signedTransaction, id}`. Every
  combine is therefore answered with empty fields. `CombineHandler` keeps this
  as `filled`.
- `_prepareTransaction` returns `txJSON`, which is already JSON text, and the
  handler passes it through `JSON.stringify` again (`:124`). Spec 4.4 says the
  descriptor must not be encoded twice. `Respond` keeps this as
  `Json(Json(Tx))`.
