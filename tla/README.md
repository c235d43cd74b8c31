# A formal model of Chainbills

TLA+ models of the parts of Chainbills where money, order and delivery can go
wrong, checked with TLC on small instances and proved with TLAPS where a proof
is within reach. Every definition is a reading of the source, not of the
documentation; `PROJECT.json` names the lines each one stands for.

## 1. The system

Hosts create *payables* on one chain; anybody pays into them, in allowed tokens
and amounts or freely; hosts withdraw, less a fee. Payers may be on another
chain, for which the chains tell one another of their payables and move USDC
with Circle's CCTP. A relayer carries the messages and keeps a Firestore copy
of the receipts; a server adds to it what hosts describe, and a page reads and
signs for its user. A second contract keeps the same books on CosmWasm chains.

| Component | State it keeps | Operations | Talks to |
| --- | --- | --- | --- |
| EVM ledger: `Chainbills` (proxy), `CbPayables`, `CbTransactions`, `CbUtils`, `CbState` | config, token details, users, payables, balances, id lists, chain stats, consumed messages | create, close, reopen, update, pay, withdraw, redeem; owner settings, pause | tokens, host and fee collector (external calls in the middle of a withdrawal) |
| EVM payable synchronisation (`CbPayables` 315-570, `CbPayloadMessages`) | update counter, nonces applied per payable and source, copies of foreign payables, protocol per peer | broadcast with every host call, publish, receive by Wormhole, by Circle (directly or by hand), by the admin | Wormhole core, Circle MessageTransmitter, which calls back |
| EVM cross-chain payments (`CbTransactions` 383-497) | matching tokens, consumed VAAs | `payForeignWithCircle`, `receiveForeignPaymentWithCircle` | Circle TokenMessenger and MessageTransmitter, Wormhole |
| EVM getters (`CbGetters`) | none | paginated reads | the ledger's state |
| Relayer | in memory: block range, job in progress; in Firestore: cursors, jobs, receipts | poll, index, queue, fetch, submit, mark; notify hosts; backfill, a second process | RPC nodes, Wormhole and Circle APIs, Firestore, FCM |
| Server | none of its own (Firestore: two documents a payable, tokens a wallet) | store a description, store a notification token, check a signature, look a payable up | Firestore, RPC nodes, FCM |
| Frontend: session | the wallet's account, `currentUser`, a saved signature | follow the wallet, ask it to sign, sign out | wallet, RPC nodes |
| Frontend: checkout | the amount chosen, `isPaying`, a payment in progress | choose, approve, pay here or abroad, wait, show the receipt | wallet, contracts |
| Frontend: tables | page, saved page, rows, a cache of receipts | page, change tab or rows, refresh on focus | getters, the cache |
| Solana program | accounts for payables, users, stats | as the EVM ledger, and an owner's withdrawal | SPL token program, Wormhole |
| CosmWasm contract | token details, payables, balances, counters, a vector of ids for each counter, records by id | create, close, reopen, update, pay, withdraw; the owner sets caps and withdraws | bank and Cw20 contracts, by messages |
| Scripts | none | deploy, register chains and tokens | the contracts |

What is hard about them, and what makes each correct:

- **Ledger.** One pool of tokens for all payables, so one wrong balance is paid
  with another payable's money. `_actualizeWithdrawal` calls the host and the fee
  collector *before* it deducts. Five call paths number activities in shared
  sequences. Owners change fees between payment and withdrawal. *Correct when* the
  pool covers all balances at every moment, a payout that has begun can finish,
  totals, counters and ids agree, and a withdrawal is as good as atomic.
- **Synchronisation.** Updates carry only what changed, nonces are counted per
  chain and not per payable, and two networks and an admin deliver in any order.
  *Correct when* a nonce names one update, none is applied twice or after a newer
  one, copies are wrong only by what they missed, and the newest update lands.
- **Cross-chain payments.** Burn and payload travel by different networks, and
  anybody may hand in either. *Correct when* credits are what was paid, once, with
  the money there, on terms the host set, and every payment arrives.
- **Relayer.** It may die between any two awaits and any await may throw.
  *Correct when* the saved cursor is never ahead of the jobs, no job is doubled,
  attempts are bounded, and every job ends.
- **CosmWasm ledger.** Five helpers count, list and save for three kinds of owners, one
  after the other, and `pay` counts two activities before it lists either. The owner
  takes from the pool the payables share. *Correct when* every counter has its list of
  distinct ids, and the pool is what is owed but for what the owner took.
- **Server and relayer's documents.** Two writers (three, with a backfill) of the same two
  documents, without a lock, each write able to fail. *Correct when* merging loses
  nothing and only hosts describe; a token is removed only when it is dead.
- **Checkout.** Wallet, `currentUser` and form change under a payment that waits at every step.
  *Correct when* a payment is the one its payer confirmed, once, and the page says
  truly what became of it.
- **Tables.** Loads and fetches of the counts overlap and nothing cancels one, so the counts can go
  back; lists grow, a cache fills holes. *Correct when* the rows are always one page of one list and the
  page is one there is, and the newest load, once shown, is of this page.

## 2. Modules

| Module | Models | Lines of code |
| --- | --- | --- |
| `CbLedger` | the ledger of one EVM chain | `CbTransactions`, `CbPayables` 14-313, `CbUtils`, `Chainbills` |
| `CwLedger` | the CosmWasm contract | `cosmwasm/src`: `contract.rs`, `state.rs`, `interfaces/` |
| `Escrow` | abstract: what both ledgers promise about money, every call atomic | - |
| `PayableSync` | broadcasting and receiving payable updates between chains | `CbPayables` 315-570, `CbPayloadMessages`, `Chainbills` 75-204 |
| `ForeignPayments` | payments between chains | `CbTransactions` 57-92, 383-497, `Chainbills` 206-239 |
| `Relayer` | watchers, job store, processor, submitters, process | `relayer/src` |
| `RelayQueue` | abstract: what the job queue promises | - |
| `Documents` | a payable's two documents, written by server and relayers | server `create-payable`, `get-payable`, `validate-*`; relayer `indexer.ts`, `backfill.ts` |
| `Notices` | the tokens of a host's devices, saved by the server, used and removed by relayers | server `save-notification-token`; relayer `notify/host.ts` |
| `Session` | wallet and `currentUser` | frontend `stores/auth.ts` |
| `Checkout` | a page that pays; extends `Session` | frontend `PayView.vue`, `stores/payment.ts`, `stores/evm.ts` |
| `Paging` | a table of activities with its cache | frontend `PayableDetailView.vue`, `stores/payment.ts`, `withdrawal.ts`, `cache.ts`, `pagination.ts`; `CbGetters` |
| `Ledgers`, `Web` | compositions: both ledgers; documents, notices, checkout and table | - |
| `MCLedger`, `MCSync`, `MCForeign`, `MCRelayer`, `MCWeb` | the small instances TLC checks | - |
| `Sums` | lemmas about sums over finite sets, which are folds | - |
| `CbLedgerProofs`, `CbLedgerCounts`, `CwLedgerProofs`, `PayableSyncProofs`, `ForeignPaymentsProofs`, `RelayerProofs`, `WebProofs` | theorems | - |

The models of the EVM contracts are three views of the same contracts: each
keeps the state its own properties need and shares no variable with the others.
`ForeignPayments` summarises `PayableSync` as "a copy is brought up to date at
some time" and takes peers to be registered; `CbLedger` takes a
payment from another chain as an input, with Circle's transmitter beside it, to which anybody may hand the burn
(`RedeemDirectly`, as in `ForeignPayments`); `Relayer`
takes a contract to refuse what `PayableSync` says it refuses. `Documents` and `Notices` are
the relayer's writes that `Relayer` abstracts to receipts; `Checkout` knows of the
contract what `CbLedger` and `ForeignPayments` ask of a payment.

Components that share no state share a run: `Ledgers` and `Web` hold several and a
variable `part`, chosen at the start, says which of them a behaviour is about; the variables of
the others stand still. A behaviour of the composition is one of each of its
parts (`EachLedgerAlone`, `EachPartAlone`), so what is proved of a part holds in what is run.

### From code to model

**Transactions.** A contract call is one step that commits; a call that reverts
is no step. A withdrawal is three steps (`PayHost`, `PayCollector`,
`SettleWithdrawal`) with a frame on the stack `calls`, because each external call
lets other code run. `NonReentrant` is `calls = <<>>`: with that conjunct removed
TLC re-enters and `TypeOK` and `PayoutCompletes` fail. In `PayableSync` the only call that the
contract makes into code that calls back is `receivePayableUpdateViaCircle`, whose
`frame` is the lock. (Synchronisation happens in the same transaction as the host
call that causes it.)

**CosmWasm.** The contract saves its state and returns its transfers as messages, and
the chain undoes all of it when one message fails: a call is one step whose guard includes that
its transfers succeed (`Movable`: the token is moved by the bank or by its contract, as
configured; `Sendable`: the bank sends no zero). A `mut` struct loaded, changed and saved is one
entry of `counts`; `ids` and `records` are the vectors and maps beside it, and the lists are
named by their owner and kind. `NoWallet` is the host of a payable there is not.

**Ids.** `_createId` hashes chain, time, entity, type and a count; ids are modelled
as the pairs they hash, without the time, so a collision in the model is a
collision that only the clock prevents. Payables are numbered by their
`chainCount`.

**Inputs.** Calls range over small sets of wallets, tokens and amounts. `Pay`
is sent with no native currency or with as much as the amount; with an ERC-20 it
is not refused and stays in the contract, as the code has it.

**Networks.** Signed VAAs, Circle messages and burns are sets that only grow;
receiving takes any element any number of times and in any order. The receiver's
replay records are in the model (`consumed`, `usedCircle`, `redeemed`).

**The relayer.** An action is what runs between two awaits that matter. `Process`
handles one event for one destination; `Poll` reads a range, whose work is a set
(`todo`) that `Process` goes through in the order of the loops of `processBlockRange`
(`Before`: kind of event, block, place in the log, receipt before job; only the order of
the destinations of a broadcast is left open). `SaveLastIndexedBlock`
and `SaveFails` are the two outcomes of the write that ends a range; `TickFails` is any
other exception. `Crash` clears what lives in memory. The processor works on the
snapshot of its query, a set of jobs with the attempts as read then (`batch`), the oldest
first (`Current`).

**The web.** Each `await` that another step can come between is a step of its own: a
request is checked, writes one document, then the other; the two writes of `indexPayable`
go out together and land in any order. A description stands for the wallet whose
signature came with it. In `Checkout` a click is a record in `flows` whose `step` names what
it waits for and whose `tx` is what became of its last transaction, which goes on when the
page has given up or is gone. `allowance` and `payments` are the chain's. In `Paging` a load of the table
and a fetch of the payable are both a record in `reads`; any number are under way, and each `Show` or `Fetched`
sets what the page has, whatever came later. A withdrawal's fetch is one of them; when it fails the page is
opened anew, which is another behaviour.

**History variables.** `given`, `owner_took`, `cw_earned`, `cw_collected`, `shown`, `newest`,
`upToDate`, `astray`, `earned`, `collected` (what the token contracts recorded),
`history`, `broadcasts` and the field `of` of an update (what the home chain's
record was), `offered` (the lists a payable ever asked for). No guard reads them.

**Mutants.** Definitions marked *mutant* are used by no action. Each is a
plausible mistake in the definition beside it; with it in that one's place the named
property fails under the same configuration.

## 3. Runs

| Run | Bounds | Shows |
| --- | --- | --- |
| `ledger` | EVM: 2 wallets, 1 payable, 2 tokens, amounts 1 and 2, lists {any, exactly 2 of one token}, 1 inbound payment, whose burn may be redeemed without it, 4 activities beyond the initializations of users, a first fee of 200 %, later 50 % (300 % is asked for and refused), capped at 2, a collector that may be unset. CosmWasm: 2 wallets, 2 payables, a coin and a Cw20, amounts 1 and 3, lists {any, exactly 3 of the Cw20}, 6 activities, fees of 75 % capped at 1, 1 unit taken by the owner and 1 given by strangers | the EVM ledger is solvent, its totals and counters agree, its hosts can withdraw all they have but under the two settings that forbid it, a payout begun can finish and does; the CosmWasm ledger's lists match its counters and its money adds up; both implement `Escrow` |
| `sync_relay` | 2 chains, 2 payables of one, 3 updates, both networks, manual relays, pauses | copies are exact when nothing was missed, name their home; the newest VAA lands |
| `sync_owner` | 1 payable, 2 updates, home chain ready or bare, set up step by step; 3 admin snapshots, one ahead of the home chain, one naming the wrong chain | nonces identify updates; each is applied at most once, in order, by one network |
| `relayer` | the 3 configured chains, 1 transaction with 2 events, ranges of 2 blocks, 2 attempts, crashes and failures anywhere | the cursor covers the jobs; one job per destination; the jobs implement `RelayQueue`; every job ends; once failures stop every event has its job |
| `foreign_payments` | 1 payable, 2 payments, 3 tokens (one with equal addresses, one with two), amounts 1-3 against a payload of at most 2, lists that change, tokens unmatched | credits are as paid, redeemed together with their own burn, backed, on terms once set; payments that can arrive do |
| `web` | `Documents`: 1 payable, 2 wallets, any headers, 2 requests, 2 indexers, 2 failures. `Notices`: 2 hosts, 2 devices, 2 posts, 2 notifiers. `Checkout`: 2 clicks, 2 updates at a time, 2 changes of wallet or reloads, 2 addresses, a wallet on either chain or on a foreign one. `Paging`: 2 payments and later 3, a withdrawal at some time, pages of 1 or 2 rows, any cache, 2 loads or fetches at a time | only hosts describe and no write is lost; live tokens survive; payments are as confirmed and reported truly; no allowance beyond one click's; rows are a page of the list, the newest load's are this page |
| `sync_publish` | violation | a published snapshot does not say a payable is closed |
| `sync_manual_relay` | violation | the manual Circle relay always reverts |
| `sync_domain_zero` | violation | a peer of Circle domain 0 gets no updates |
| `foreign_tokens` | violation | a payment in a token with two addresses never arrives |
| `relayer_receipts` | violation | a receipt that failed is never written |
| `web_unknown_chain` | violation | a payable of a chain the server cannot read is never found |

### Why the bounds are enough

*Ledgers.* Two payables and two tokens are the least in which one payable could be paid
with another's money and one token's bookkeeping hit another's. The CosmWasm instance has
both; the EVM instance has one payable, because with its nested calls two are beyond a
run of minutes, and two payables of the EVM ledger are covered by the proofs of section 5.
Four activities beyond the initializations of users (`Room`) hold creation, payment and a withdrawal
or an update by two wallets; the initialization is itself an activity, numbered by the call it happens in.
`FeePercentage` is 200 in the contract: of amounts
small enough to enumerate it is always zero, so the instance has 7500, with
which a fee can be zero, the percentage or the cap.
*Synchronisation.* Two payables interleave their nonces on one
counter; three updates allow one to be missed, one to be overtaken and one to be
the newest. *Payments.* Two payments are needed to mix up payload and burn.
*Relayer.* Three chains give a job of each protocol; two events of one transaction are the
case in which the second finds the first's job; two attempts are needed for a
retry; `MAX_ATTEMPTS` is 5 and a range is 500 blocks in the code, and only their being
bounded and passed is used; that the cursor covers the jobs for many ranges is proved.
*Web.* Two of each writer, so that one can use what another has changed; two failures, so that a
retry can fail; a list that grows longer than a page, so that there is a last page that is not full; two reads,
so that an older load or an older answer with the counts ends last. One price
(`Prices`) is what two clicks leave room for, so that "the dearest of them" in `AllowanceIsBounded` is the price
itself in the run; the theorem is for any prices. The table is opened on its payments (`MCWeb`); from there
both tabs, every page and every cache are reached, and the theorem is for every first state.
`relayer.cfg` has one transaction; the theorems about cursor and jobs are for any.

The bounds are `MaxPayables`, `MaxActivities`, `MaxCwPayables`, `MaxCwActivities`, `MaxStray`,
`MaxUpdates`, `MaxPayments`, `MaxFailures`, `MaxChanges`, `MaxLength` (each stops calls at
a count) and the finite `Txs`, `Requests`, `Indexers`, `TokenPosts`, `Notifiers`, `Updates`, `Clicks` and `Reads`.
`CHECK_DEADLOCK` is left on except in the two `web` runs: a page whose
flows have ended and whose user does nothing more really stops; in every other model
some call is always possible (an owner can pause). `web` uses symmetry over clicks, over
updates and over reads, which no property or definition tells apart; it checks no liveness.

### Fairness

- `CbLedger`: weak fairness of `PayCollector` and `SettleWithdrawal`. The EVM runs a transaction to its
  end. No caller is fair.
- `PayableSync`: a pause ends and a transaction begun ends (weak); each VAA is
  submitted again and again, by the relayer or by anybody (strong, because a pause
  may come and go in between). Nothing is assumed of Circle messages in `FairSpec`;
  `ManualSpec` assumes they are relayed by hand for ever, to show that it does not help.
- `ForeignPayments`: each payment is redeemed if it can be infinitely often (strong). That the
  destination is not paused for ever and the burn not spent are hypotheses of the properties.
- `Documents`: `DocsFairness` - a request in progress is worked on (weak), and the frontend posts what
  its user created (strong: it can only while a request slot is free). Used by the run in
  which even so a payable is not found. The other web models have no fairness: a
  user need do nothing, and any call may stay unanswered.
- `CwLedger`: none; a call is one step.
- `Relayer`: `ProcessorFairness` - the process is restarted (weak), and since a crash or
  an outage may cut any run short, starting a run, taking a job and giving it up are
  strongly fair; a job in progress ends because every fetch has a timeout
  (`waitForAttestation` 60 x 3 s, `getVaa` 180 s). `WatcherFairness` - the loop goes on. `EventsGetJobs`
  holds once the process stays up and the job store answers (`Settles`); success of a
  submission is never assumed.

## 4. What the code does otherwise

Shown by the violation runs (details and quotes in `PROJECT.json`):

1. `publishPayableDetails` broadcasts a creation, without `isClosed`.
2. `receivePayableUpdateViaCircle` and the callback it depends on take the same lock;
   the relayer's `PAYABLE_UPDATE_VIA_CCTP` job uses it.
3. Circle domain 0 (Ethereum, Sepolia) cannot be registered and is skipped.
4. `payForeignWithCircle` swaps the payable's and the payer's token in the payload.
5. The cursor passes events whose receipts failed.
6. The server reads payables of two of the chains only and refuses to describe those of the others;
   the page that posts the description ignores the refusal, and the look-up throws for ever.

Seen while reading, without a run of their own: `initialize` takes a percentage that
`setWithdrawalFeePercentage` refuses, and `setFeeCollectorAddress` takes `address(0)`,
with which ERC-20 withdrawals revert; the run has both, and `HostsCanWithdraw` names them as the only
settings under which a payout fails. The tables show whichever load ends last; a late answer may take the counts
back, so that the table is on a page its own paginator does not offer; and a tab chosen before `onMounted` is
through loads nothing (`PayableDetailView.vue:31-37`, `86-95`, `148-171`).
A chain's own Circle domain has to be registered for `_checkCircleMessage`,
which no script does, so that only a chain of domain 0 receives payments
(`OwnDomainKnown`). `unregisterMatchingTokenForForeignChain` does not stop payments to
payables without a list. A job counts as DONE once its transaction is sent. Two updates in one transaction
get one job. `CbPayables.sol:532` speaks of payload version 2 and the code sends 1. Watchers
that throw end the process, where `index.ts:5-6` says the others go on. `backfill.ts` runs the same watchers
in a second process, against a check-then-create on the job store. A job is keyed by its transaction and
`cctp.ts:58` takes the first message of a transaction. `indexer.ts:161-163` strips leading
zeros of addresses.

*CosmWasm.* A coin cannot be sent in the amount zero, so a withdrawal whose fee rounds to zero (below 50 units, or
with a cap of zero) fails (`Sendable`). `update_max_withdrawal_fees` sets the kind of the token anew:
with the flag wrong, the token can neither be paid nor withdrawn until it is set right (`Movable`).
`owner_withdraw` has no limit but what the contract owns.

*Frontend.* A read that fails between `isPaying = true` and the first `try` leaves `isPaying` set
(`evm.ts:302`, `324`, `355`, `368`; the step `stuck`). A signature saved for one wallet is used for another
(`auth.ts:100-106`), and `refreshUser` can sign a user in again who has just left (`auth.ts:117-120`).
`UserActivityView` uses one saved page for all its tabs (48, 62-63). `DashboardView.vue:100` numbers
its rows in reverse. `notifications.ts:34` reads its storage key after an `await`.

*Solana.* `Payable::space_new` (`state/payable.rs:58`) forgets the length prefixes of two vectors, 8
bytes, so that no payable can be created; `PayableForeign::space` does the same (`state/payable_foreign.rs:18`).
`context/update_payable.rs:40` and `147` take the host, whose counters the handlers add to, without `mut`; `withdraw.rs:254-271` computes new
balances of lamports and drops them.

## 5. Proofs

For every value of the constants under the named assumptions of the modules:

| Theorem | Module | Says |
| --- | --- | --- |
| `TypeCorrect` | `CbLedgerProofs` | types, and at most one withdrawal under way |
| `AlwaysSolvent` | `CbLedgerProofs` | balances never exceed what is held and in flight |
| `TotalsNeverDrift` | `CbLedgerProofs` | balances are what was received less what was withdrawn, and fees recorded are fees sent |
| `PayoutsCanFinish` | `CbLedgerProofs` | a payout begun has its funds and its balance |
| `HostsCanAlwaysWithdraw` | `CbLedgerProofs` | a host can withdraw any part of its balance whenever the contract is not paused, unless an ERC-20's fees would go to `address(0)` or a first percentage above 100 % still stands under a cap above the amount; given nothing about the settings |
| `LedgerImplementsEscrow` | `CbLedgerProofs` | the ledger, with withdrawals in three steps, refines the atomic `Escrow` |
| `IdsAlwaysMatchCounters` | `CbLedgerCounts` | no activity id is issued twice; counts are the number of ids they number |
| `CountersAlwaysAgree` | `CbLedgerCounts` | the chain's counters are the sums of its users' and of its payables'; users are numbered without a gap; a cross-chain payment counts once and uses up a burn of its own |
| `CwTypeCorrect` | `CwLedgerProofs` | types: no amount goes below zero |
| `CwListsAlwaysMatch` | `CwLedgerProofs` | every counter has its list of distinct ids, every id its record at that place |
| `CwMoneyAlwaysAddsUp` | `CwLedgerProofs` | holdings are balances and gifts less what the owner took; totals agree |
| `CwLedgerImplementsEscrow` | `CwLedgerProofs` | the CosmWasm ledger refines the same `Escrow` |
| `LedgersTypeCorrect` | `CwLedgerProofs` | types of both ledgers, as they are run together |
| `TypeCorrect` | `PayableSyncProofs` | types |
| `NoncesAlwaysIdentifyUpdates` | `PayableSyncProofs` | a nonce names one update of a payable |
| `UpdatesAppliedOnceInOrder` | `PayableSyncProofs` | nonces applied only grow |
| `OneProtocolAppliesEachUpdate` | `PayableSyncProofs` | one network applies each update |
| `InOrderCopiesAreExact` | `PayableSyncProofs` | a chain that missed no update has the payable's record, given `NoAdmin`: no admin writes copies |
| `CopiesAlwaysNameTheirHome` | `PayableSyncProofs` | a copy names its home, is counted once, is not newer than its home, given `NoAdmin` |
| `TypeCorrect` | `ForeignPaymentsProofs` | types; a credit for each payload consumed |
| `AlwaysCreditedAsPaid` | `ForeignPaymentsProofs` | no payable is credited more of a payment than was paid |
| `AlwaysRedeemedTogether` | `ForeignPaymentsProofs` | a payload is consumed with its own burn |
| `TermsAlwaysKept` | `ForeignPaymentsProofs` | what is credited was on a list of the host, given `MintingIsMutual` and `NoCrossedTokens` |
| `AlwaysBacked` | `ForeignPaymentsProofs` | what payables were credited across chains is not more than Circle minted, given the same |
| `TypeCorrect` | `RelayerProofs` | types; cursors and ranges within the chain |
| `CursorAlwaysCoversJobs` | `RelayerProofs` | the saved cursor passes no event without a job |
| `AlwaysOneJob` | `RelayerProofs` | one job for a transaction and a destination |
| `RelayerImplementsQueue` | `RelayerProofs` | the jobs refine `RelayQueue` |
| `OnlyHostsDescribe` | `WebProofs` | documents name their payable's host and chain and what the host signed |
| `MergesLoseNothing` | `WebProofs` | what one writer added survives the others |
| `TokensAlwaysSurvive` | `WebProofs` | a token is forgotten only once it is dead |
| `OutcomesAreTrue` | `WebProofs` | the page tells the truth about a payment it followed to its end |
| `PaymentsAreAsConfirmed` | `WebProofs` | a click pays once, what its payer confirmed, by the right route |
| `AllowancesAreBounded` | `WebProofs` | no more is allowed than one click asked for |
| `RowsAlwaysMatch` | `WebProofs` | rows are always one page of one list; the page is one there is; the rows of the newest load are that page |
| `WebTypeCorrect` | `WebProofs` | types of the four, as they are run together |

*The ledger.* `TypeOK` is inductive, given that the fee of an amount is a number and
that a payout's guards hold when it begins. Solvency is not: the sum of all balances
cannot be written as a fold the provers can unfold, so it is said with a *running
total*, a function `s` with `s[0] = 0` that adds the balances up payable by payable
(`RunningTotal`). The inductive invariant says that such an `s` exists whose end is
covered by what is held, plus what the withdrawal under way has sent (`InFlight`), and
that this withdrawal's amount is within its payable's balance and its fee within the
funds. A credit or a deduction at payable `p` shifts `s` from `p` on; the lemmas about
shifting are stated once and used by every action. Without the part about the
withdrawal under way the last step, which deducts, could not be shown to keep the
sum; without the sum, the fee could not be shown to be there.

*The CosmWasm ledger.* `CwMoneyAddsUp` is a running total like that of the EVM ledger, and inductive
but for one thing: that what leaves is there follows from the guard on the holdings, and that a
balance never exceeds a total from the sums. The lists need more. `CwListsMatchCounts` says that an
id has its record; that saving another record does not replace it needs that ids are not
issued twice. The invariant (`CwBooksInv`) therefore says that every id saved is among those `Issued` so far, and
an id is issued when the counter it is made from has reached its number. Each
call is then taken apart into entries, one list after the other, each under an id that is
fresh at that moment (`OneMoreEntry`); the entry of the user activity of `pay`, whose place is
not the counter's but the one before (`BeforeLast`), is the one that is different. For the refinement,
`vault` is the holdings without what the owner took and strangers gave, and a payable is new in `Escrow`
because hosts are there exactly for the numbers up to the counter (`Numbered`).

*The synchronisation.* `NoncesIdentifyUpdates` needs that no broadcast has a nonce above
its chain's counter (`NoncesCounted`). The other two need that what was applied is an
increasing sequence ending in the stored nonce (`InOrder`) and that every message used
up at a network occurs in it (`OneNetwork`): an update that one network brought occurs in the
history, so its nonce is at most the last, so it is not newer when the other network brings it.
That a copy is exact compares two chains, and is not inductive: an update carries only the field it
changes. The invariant (`Told`) therefore says of what a home sent that two consecutive updates of a
payable differ only in what the second carries, that the first is the creation of an open payable and
that the last tells what the record is now. A chain that applied an update and all before it had
applied the one just before it last; its copy was what that one tells, and becomes what the new one
tells. Both theorems about copies assume that no admin writes any, as their run does:
`adminSyncForeignPayable` stores whatever it is given.

*The refinement of the ledger.* Between transactions the mapping to `Escrow` is the
identity (`IdleMapping`). While a withdrawal is under way the mapped state is the one after
it, so that `PayHost` is the abstract payout and the two steps that follow are stutters
(`PayHostMapping`). What the steps need beyond `TypeOK` is that a payable has a host exactly
when it is among the first `payablesCount` (`HostsMatch`), so that creating one maps to
creating one that was not there. A burn that somebody redeems at Circle's transmitter is the abstract `Gift`: money
nobody is owed, also when it comes in the middle of a payout (`RedeemEscrow`). Every guard of an abstract payout comes from a concrete
one: that the fee does not exceed the amount is the check of `_actualizeWithdrawal`.

*The ids of the ledger.* That the number of ids is the number of activities only follows if the next
id is fresh. The invariant (`IdsInv`) says that the ids issued to a user are those numbered up to its
count (`Issued`) and that no payable's id is numbered above its count, so that the next of each is not
there yet. It needs that users who were never initialized have no activities, that hosts are
initialized, and that a withdrawal under way is of a payable that exists: the calls check it, or it
follows from who may call. One activity more of a user and one more of a payable are two lemmas, and
every call is made of them.

*Sums.* The counters of all users and what a chain was credited are sums over a finite set,
`SumFunctionOnSet` of the community modules, a fold and therefore a recursive function. The
library's induction cannot be used with the installed provers, so `Sums` argues with minimal counterexamples: a
set of numbers that is not empty has a least one (`LeastNumber`, from the library's theorem
that `<` is well founded on `Nat`) and a set of finite sets has a smallest (`SmallestSubset`).
The equation of the fold then has a solution on every finite set and only one (`AdderExists`,
`AddsUnique`), and what the proofs use of it follows: an empty sum is 0, one more element adds its
term, a term that grows by `k` makes the sum grow by `k`, sums of naturals are naturals.

*The counters of the ledger.* `CountersAgree` is nearly inductive. What a call does to the counters is at
most one more of one user's numbers and one more of one payable's, with the chain's beside them, so
there is one lemma for each (`UserGrows`, `PayableGrows`) and every call is made of them. That the numbers of users are
exactly those up to `usersCount` needs that a wallet initialized just now had none. That a
cross-chain payment counts once needs that a VAA identifies its message (`VaasIdentifyMessages`:
`CbTransactions` keeps the hash of what Wormhole signed) and that the burns used up are those of the messages
consumed: each such burn is used up, and no two messages share one. Nothing is said the other way round,
because a burn may be redeemed without its message (`RedeemDirectly`), which leaves the message unredeemable
and the counters alone. The sum over users needs finitely many of them (`UsersAreFinite`: an
address has 20 bytes).

*Payments between chains.* `CreditedAsPaid` compares two cardinalities and no step
preserves it by itself. The invariant follows a payment through its records: a nonce is
one payment of its chain (`PaymentsNumbered`), a payload tells of one payment and has its
nonce for itself (`PayloadsTold`), and the credits of a chain and the payloads consumed there
correspond one to one (`Matched`), each credit saying what its payload says. The two
correspondences together inject equal credits into equal payments. `TermsKept` goes with the payload,
too: one that can be redeemed at all is for something on the list the payer's chain knew
(`PayloadsAsked`). The payload swaps a token's two addresses, so only a token that has one address on
both chains passes the check at the payable's chain; this is where it matters that minting is mutual
and that no two tokens have each other's addresses, which TLC checks of its instance
(`MCTokensAreMutual`). `Backed` compares a sum with a balance: the step that credits a payment
mints its burn, and what has to be shown is that amount and token are the same. The amount is,
because a burn and a payload of one nonce tell of one payment (`BurnsTold`); the token is what Circle
makes of the payload's (`PayloadsSwapped`), for which the two assumptions are needed again. A burn
redeemed without its payload only adds to what is held.

*The relayer.* For the cursor, the invariant extends what is claimed of saved blocks to
the block a watcher has in memory, and says of the range in progress that what has no job
yet is still in `todo` (`InProgress`); a failed range therefore loses nothing, and a saved one
has nothing left. For the queue, it says that the snapshot still tells the truth when it is used
(`Fresh`): an entry's job is open and has the attempts read with the query, one more while it is
in progress. That holds because one loop uses one snapshot and puts each entry
away with the job, and because watchers only append jobs. `AbstractQueue` is then shown to
change at one key with each mark (`QueueSet`), where `OneJobPerDestination` makes the job of a
key unique.

*The web.* `DescriptionsByHost` is inductive with what a request past its check has established
(its headers name the payable's host and chain), and `NothingIsLost` follows from it: a merge can
only replace a field by what it says already. `TokensSurvive` needs that a token about to be
removed is dead, and that dead tokens stay dead. The invariant of `Checkout` (`Clicked`) says of each
flow, by where it is, what was shown, sent and paid for it, whether or not the page is still there.

*The table.* Nothing orders the answers, so the counts may go back and the rows may be those of an
older click. What holds however they come is that the rows are one page of one list: the invariant
(`PagingInv`) says it of every load (`Sound`), and lists only grow, so a page that was one stays one (`PagesStay`).
That the table is on a page the list has (`PageIsThere`) is said of the list on the chain, because a late
answer may take the page's own counts below it. For the load that began last, the invariant says that
while it waits for ids it was asked for the page the table is on, and while it waits for receipts its ids
are that page (`IsOfThisPage`). This holds because every change of tab, page, rows or counts begins a load, but before `onMounted`
is through: then the watches are not there, which `astray` records, until the tab or the page is next
chosen. Lists growing meanwhile do no harm: a page that was read whole stays, and one that was
cut short reached as far as the list did, and so at least as far as any counts the page may have read by then.
The rest is what
a load puts together from the cache and the bulk call: the receipts asked for come back in order, and
the n-th goes to the n-th hole, so that the result is the list of ids again, whatever the cache
had (`AllPlaced`, over the recursive function `Picked`, whose existence and
values follow from `LeastNumber`).

*Only model-checked:* all liveness properties: the provers have no fairness and no `ENABLED`.
(`PayoutCompletes`, `PaymentsArrive`, `JobsEnd`, `EventsGetJobs`,
`NewestUpdateLands`.) Every invariant and every other action property of a
passing run is a theorem.

## 6. Not modelled

Timestamps; gas; the contents of receipts and notifications; Wormhole's message fee; the
upgrade mechanism and roles (OpenZeppelin's); list lengths over 255; signature
verification and the layout of messages, taken to be what the code reads them as; ERC-20 and Cw20
tokens that charge on transfer or call back; the scripts that deploy; the relayer's gas check.

*Solana.* No payable can come into being at this commit (section 4), so a model whose
states are the program's would hold no payment and no withdrawal.

*Relayer.* Two processes that create the same job (`watchers.ts:176`): `Relayer` has one process. A mark that
takes effect although its call throws is taken as one that did not (`JobFails`). `store.ts`, `processor.ts`, the submitters and the
resolvers import `../chains/index.js`, which is not in the repository at this commit; the fields they read of it are
taken to be those of `relayer/src/chains.ts`.

*Server.* Two texts of one host: a description stands for the wallet that signed it, so which of them stays
is not told apart.

*Frontend.* Payments in native currency, which need no approval; the choice made for the payer when there
is just one (`PayView.vue:141-149`); creating payables and withdrawing; Solana wallets; the
remaining views, which show what they read.

*Share of the code.* More than two thirds of the lines of the implementation are generated: ABIs
and IDLs, the same ones in the frontend, the server and the relayer (`abis.ts`, `idl.ts`). They
describe interfaces and have no behaviour. What is modelled is most of `CbTransactions`, `CbPayables`,
`CbUtils`, the CosmWasm contract and the relayer, both handlers that write in the server, and
the stores and views of the frontend that pay and page. `components` in `PROJECT.json` says for each part what is left out.

## 7. Plan

Done, in this order:

1. `CbLedger` with solvency, ids, reentrancy; `Escrow`; proofs of types and money.
2. `PayableSync` with both networks and owners, and proofs of order, uniqueness and exact copies.
3. `Relayer` and `RelayQueue`, with crashes; proofs of safety and of the refinement.
4. `ForeignPayments`; proofs of `CreditedAsPaid`, `RedeemedTogether` and `TermsKept`.
5. `CbLedger` implements `Escrow`; `HostsCanWithdraw`.
6. `CwLedger` with its lists, as a second implementation of `Escrow`; proofs of both.
7. The web side: `Documents`, `Notices`, `Session`, `Checkout`, `Paging`, and their proofs.
8. Sums; proofs of `CountersAgree`, `Backed`, `RowsMatchTheList` and of the types of the compositions.

Left:

9. A relayer of two processes (backfill, replicas) against one job store.
10. The matched-token maps under re-matching, and lists of 256 entries.
11. Native-currency payments and withdrawals from the page.
12. The Solana ledger, once its accounts have room for a payable.
