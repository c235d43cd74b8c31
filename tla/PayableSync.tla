----------------------------- MODULE PayableSync -----------------------------
(***************************************************************************)
(* How chains learn of each other's payables.  The chain a payable lives   *)
(* on broadcasts every creation, closing, reopening and change of its      *)
(* allowed tokens and amounts (CbPayables._broadcastPayableUpdate): one    *)
(* Wormhole VAA for everyone and one Circle message per CCTP chain.  Both  *)
(* networks are external: a message, once sent, can be relayed by anybody, *)
(* at any time, in any order, any number of times, or never.  The other    *)
(* chains keep a copy of the payable (foreignPayables), which payers there *)
(* are checked against.                                                    *)
(***************************************************************************)
EXTENDS Integers, Sequences, FiniteSets

CONSTANTS
  Chains,          \* CAIP-2 chain ids
  NoChain,         \* bytes32(0)
  NoCall,
  Payables,        \* payable ids; _createId hashes the chain id into them
  HomeOf,          \* the chain each payable lives on
  CircleDomain,    \* the domain number Circle gave each chain
  AllowedLists,    \* contents of allowedTokensAndAmounts
  AnyPayment,      \* the empty list: every token and amount is accepted
  InitialConfigs,  \* the owners' settings when the run starts
  OwnerProtocols,  \* what the owners may set a peer's protocol to
  Snapshots,       \* what the admins may sync by hand
  MaxUpdates       \* bound on the broadcasts of a chain

Protocols == {"NONE", "WORMHOLE", "CCTP"}

\* The actionType of a payload.
Create == 1
Close == 2
Reopen == 3
UpdateAllowed == 4
CarriesAllowed == {Create, UpdateAllowed}
CarriesClosed == {Close, Reopen}

Configs ==
  [wormhole: BOOLEAN, circle: BOOLEAN, contracts: SUBSET Chains,
   domains: SUBSET Chains, wormholeIds: SUBSET Chains,
   protocol: [Chains -> Protocols]]

\* A payable at home, and the PayableForeign kept of it elsewhere.
HomeRecords == [exists: BOOLEAN, isClosed: BOOLEAN, allowed: AllowedLists]
Copies == [chainId: Chains \cup {NoChain}, isClosed: BOOLEAN, allowed: AllowedLists]

\* A decoded PayablePayload; of is what it was sent about (history).
Updates ==
  [payable: Payables, nonce: Nat, actionType: 1..4, isClosed: BOOLEAN,
   allowed: AllowedLists, of: HomeRecords]

\* What an admin of any chain may submit to adminSyncForeignPayable.
AdminSyncs ==
  [payable: Payables, chain: Chains, nonce: Nat, actionType: 1..4,
   isClosed: BOOLEAN, allowed: AllowedLists]

\* The key of payableUpdateNonces.
Sources == Payables \X Chains

ASSUME ChainsAssumption == NoChain \notin Chains
ASSUME HomeAssumption == HomeOf \in [Payables -> Chains]
ASSUME CallAssumption == NoCall \notin Updates
ASSUME DomainAssumption == CircleDomain \in [Chains -> Nat]
ASSUME AllowedAssumption == AnyPayment \in AllowedLists
ASSUME ConfigAssumption ==
  /\ InitialConfigs \subseteq [Chains -> Configs]
  /\ OwnerProtocols \subseteq Protocols
ASSUME SnapshotsAssumption == Snapshots \subseteq AdminSyncs
ASSUME BoundAssumption == MaxUpdates \in Nat

VARIABLES
  config,          \* Config, the registrations and chainDataMessagingProtocol
  paused,
  frame,           \* the Circle message whose manual relay is executing
  payables,        \* the records at home
  updateCounter,   \* _payableUpdateCounter
  broadcasts,      \* every update ever broadcast (history)
  vaas,            \* the VAAs guardians signed
  circleMessages,  \* the messages Circle attests
  nonces,          \* payableUpdateNonces
  foreignPayables,
  foreignPayablesCount,
  consumed,        \* hasConsumedWormholeMessage
  usedCircle,      \* nonces used up at Circle's MessageTransmitter
  history          \* the nonces applied for a payable, in order (history)

homeVars == <<payables, updateCounter, broadcasts, vaas, circleMessages>>
copyVars == <<nonces, foreignPayables, foreignPayablesCount, history>>
replayVars == <<consumed, usedCircle>>
vars == <<config, paused, frame, homeVars, copyVars, replayVars>>

NoHome == [exists |-> FALSE, isClosed |-> FALSE, allowed |-> AnyPayment]
NoCopy == [chainId |-> NoChain, isClosed |-> FALSE, allowed |-> AnyPayment]

Init ==
  /\ config \in InitialConfigs
  /\ paused = [c \in Chains |-> FALSE]
  /\ frame = [c \in Chains |-> NoCall]
  /\ payables = [p \in Payables |-> NoHome]
  /\ updateCounter = [c \in Chains |-> 0]
  /\ broadcasts = {}
  /\ vaas = {}
  /\ circleMessages = {}
  /\ nonces = [c \in Chains |-> [s \in Sources |-> 0]]
  /\ foreignPayables = [c \in Chains |-> [p \in Payables |-> NoCopy]]
  /\ foreignPayablesCount = [c \in Chains |-> 0]
  /\ consumed = [c \in Chains |-> {}]
  /\ usedCircle = [c \in Chains |-> {}]
  /\ history = [c \in Chains |-> [s \in Sources |-> <<>>]]

\* nonReentrant.  It is also why transactions of a chain do not interleave:
\* only the message being relayed runs while frame is set.
NonReentrant(c) == frame[c] = NoCall
WhenNotPaused(c) == ~ paused[c]
Entered(c) == NonReentrant(c) /\ WhenNotPaused(c)

-----------------------------------------------------------------------------
(* Owner calls of one chain c about a peer d (Chainbills.sol).             *)

Pause(c) ==
  /\ NonReentrant(c)
  /\ WhenNotPaused(c)
  /\ paused' = [paused EXCEPT ![c] = TRUE]
  /\ UNCHANGED <<config, frame, homeVars, copyVars, replayVars>>

Unpause(c) ==
  /\ NonReentrant(c)
  /\ paused[c]
  /\ paused' = [paused EXCEPT ![c] = FALSE]
  /\ UNCHANGED <<config, frame, homeVars, copyVars, replayVars>>

Configure(c, settings) ==
  /\ NonReentrant(c)
  /\ config' = [config EXCEPT ![c] = settings]
  /\ UNCHANGED <<paused, frame, homeVars, copyVars, replayVars>>

SetupWormholeAndCircle(c) ==
  Configure(c, [config[c] EXCEPT !.wormhole = TRUE, !.circle = TRUE])

\* Takes the local domain as an argument and refuses 0.
SetupCctpOnly(c) ==
  /\ CircleDomain[c] # 0
  /\ Configure(c, [config[c] EXCEPT !.circle = TRUE])

SetChainDataMessagingProtocol(c, d, protocol) ==
  Configure(c, [config[c] EXCEPT !.protocol = [config[c].protocol EXCEPT ![d] = protocol]])

\* 0 is refused, though it is the domain of Ethereum and of Sepolia.
RegisterChainCircleDomain(c, d) ==
  /\ CircleDomain[d] # 0
  /\ Configure(c, [config[c] EXCEPT !.domains = config[c].domains \cup {d}])

RegisterChainWormholeId(c, d) ==
  Configure(c, [config[c] EXCEPT !.wormholeIds = config[c].wormholeIds \cup {d}])

RegisterForeignContract(c, d) ==
  Configure(c, [config[c] EXCEPT !.contracts = config[c].contracts \cup {d}])

-----------------------------------------------------------------------------
(* The home chain.                                                         *)

\* Encoding and decoding: the list travels with a creation and with a change
\* of the list, isClosed with a closing and a reopening; the rest is dropped.
Encode(payload) ==
  [payload EXCEPT
     !.allowed = IF payload.actionType \in CarriesAllowed THEN payload.allowed ELSE AnyPayment,
     !.isClosed = payload.actionType \in CarriesClosed /\ payload.isClosed]

\* The chains that get a Circle message of their own.
CctpTargets(c) ==
  {d \in config[c].contracts :
     /\ config[c].circle
     /\ config[c].protocol[d] = "CCTP"
     /\ d \in config[c].domains}

\* Mutant: the counter runs down.
PreviousNonce(c) == updateCounter[c] - 1

NextNonce(c) == updateCounter[c] + 1

Payload(p, actionType, record) ==
  Encode([payable |-> p, nonce |-> NextNonce(HomeOf[p]), actionType |-> actionType,
          isClosed |-> record.isClosed, allowed |-> record.allowed, of |-> record])

\* Mutant: the nonce is counted where the VAA is published.
BroadcastCountedByWormhole(c, update) ==
  /\ updateCounter[c] < MaxUpdates
  /\ updateCounter' = IF config[c].wormhole THEN [updateCounter EXCEPT ![c] = NextNonce(c)] ELSE updateCounter
  /\ broadcasts' = broadcasts \cup {update}
  /\ vaas' = IF config[c].wormhole THEN vaas \cup {update} ELSE vaas
  /\ circleMessages' =
       circleMessages \cup {[to |-> d, update |-> update] : d \in CctpTargets(c)}

BroadcastPayableUpdate(c, update) ==
  /\ updateCounter[c] < MaxUpdates
  /\ updateCounter' = [updateCounter EXCEPT ![c] = NextNonce(c)]
  /\ broadcasts' = broadcasts \cup {update}
  /\ vaas' = IF config[c].wormhole THEN vaas \cup {update} ELSE vaas
  /\ circleMessages' =
       circleMessages \cup {[to |-> d, update |-> update] : d \in CctpTargets(c)}

\* What every host call does once its checks passed: store, then broadcast.
ChangeAtHome(p, actionType, record) ==
  /\ payables' = [payables EXCEPT ![p] = record]
  /\ BroadcastPayableUpdate(HomeOf[p], Payload(p, actionType, record))
  /\ UNCHANGED <<config, paused, frame, copyVars, replayVars>>

CreatePayable(p, list) ==
  /\ Entered(HomeOf[p])
  /\ ~ payables[p].exists
  /\ ChangeAtHome(p, Create, [exists |-> TRUE, isClosed |-> FALSE, allowed |-> list])

ClosePayable(p) ==
  /\ Entered(HomeOf[p])
  /\ payables[p].exists
  /\ ~ payables[p].isClosed
  /\ ChangeAtHome(p, Close, [payables[p] EXCEPT !.isClosed = TRUE])

ReopenPayable(p) ==
  /\ Entered(HomeOf[p])
  /\ payables[p].exists
  /\ payables[p].isClosed
  /\ ChangeAtHome(p, Reopen, [payables[p] EXCEPT !.isClosed = FALSE])

UpdatePayableAllowedTokensAndAmounts(p, list) ==
  /\ Entered(HomeOf[p])
  /\ payables[p].exists
  /\ ChangeAtHome(p, UpdateAllowed, [payables[p] EXCEPT !.allowed = list])

\* Anyone may call it, and it is not whenNotPaused.  It broadcasts the current
\* record as a creation.
PublishPayableDetails(p) ==
  /\ NonReentrant(HomeOf[p])
  /\ payables[p].exists
  /\ ChangeAtHome(p, Create, payables[p])

-----------------------------------------------------------------------------
(* The other chains.                                                       *)

\* Mutants: equal nonces pass; only the next nonce passes.
IsNotOlder(nonce, last) == nonce >= last
IsNext(nonce, last) == nonce = last + 1

\* Reject if not strictly newer than what was applied, by whatever protocol.
IsNewer(nonce, last) == nonce > last

\* Mutant: every decoded field is stored, sent or not.
ApplyWholePayload(copy, update, source) ==
  [chainId |-> IF copy.chainId = NoChain THEN source ELSE copy.chainId,
   allowed |-> IF update.actionType \in CarriesAllowed THEN update.allowed ELSE copy.allowed,
   isClosed |-> update.isClosed]

ApplyPayload(copy, update, source) ==
  [chainId |-> IF copy.chainId = NoChain THEN source ELSE copy.chainId,
   allowed |-> IF update.actionType \in CarriesAllowed THEN update.allowed ELSE copy.allowed,
   isClosed |-> IF update.actionType \in CarriesClosed THEN update.isClosed ELSE copy.isClosed]

\* Mutant: counted at every update.
CountEveryUpdate(count, copy) == count + 1

\* A payable is counted when it is first heard of.
CountForeign(count, copy) == IF copy.chainId = NoChain THEN count + 1 ELSE count

\* Mutant: the last nonce is looked up under the receiving chain.
FreshOnThisChain(d, update, source) ==
  IsNewer(update.nonce, nonces[d][update.payable, d])

Fresh(d, update, source) ==
  IsNewer(update.nonce, nonces[d][update.payable, source])

ApplyPayablePayloadUpdate(d, update, source) ==
  LET p == update.payable
      copy == foreignPayables[d][p]
  IN
  /\ Fresh(d, update, source)
  /\ nonces' = [nonces EXCEPT ![d] = [nonces[d] EXCEPT ![<<p, source>>] = update.nonce]]
  /\ foreignPayables' =
       [foreignPayables EXCEPT ![d] =
          [foreignPayables[d] EXCEPT ![p] = ApplyPayload(copy, update, source)]]
  /\ foreignPayablesCount' =
       [foreignPayablesCount EXCEPT ![d] = CountForeign(foreignPayablesCount[d], copy)]
  /\ history' =
       [history EXCEPT ![d] =
          [history[d] EXCEPT ![<<p, source>>] = Append(history[d][p, source], update.nonce)]]

\* _parseAndCheckWormholeMessage: a configured core contract, a registered
\* emitter, a message not consumed before.
TrustsVaa(d, update) ==
  /\ config[d].wormhole
  /\ HomeOf[update.payable] \in config[d].wormholeIds
  /\ HomeOf[update.payable] \in config[d].contracts
  /\ update \notin consumed[d]

ReceivePayableUpdateViaWormhole(d, update) ==
  /\ Entered(d)
  /\ TrustsVaa(d, update)
  /\ ApplyPayablePayloadUpdate(d, update, HomeOf[update.payable])
  /\ consumed' = [consumed EXCEPT ![d] = consumed[d] \cup {update}]
  /\ UNCHANGED <<config, paused, frame, homeVars, usedCircle>>

\* Everything handleReceiveMessage demands of a call by the MessageTransmitter.
HandlerAccepts(d, update) ==
  /\ Entered(d)
  /\ config[d].circle
  /\ HomeOf[update.payable] \in config[d].domains
  /\ HomeOf[update.payable] \in config[d].contracts
  /\ Fresh(d, update, HomeOf[update.payable])

\* The MessageTransmitter (external) marks its nonce and calls the contract;
\* if the contract reverts, so does the transmitter.
HandleReceiveMessage(d, update) ==
  /\ ApplyPayablePayloadUpdate(d, update, HomeOf[update.payable])
  /\ usedCircle' = [usedCircle EXCEPT ![d] = usedCircle[d] \cup {update}]
  /\ UNCHANGED consumed

Attested(d, update) ==
  /\ [to |-> d, update |-> update] \in circleMessages
  /\ update \notin usedCircle[d]

\* Somebody calls Circle's MessageTransmitter directly.
RelayCircleMessage(d, update) ==
  /\ Attested(d, update)
  /\ HandlerAccepts(d, update)
  /\ HandleReceiveMessage(d, update)
  /\ UNCHANGED <<config, paused, frame, homeVars>>

\* Somebody, as the relayer does, calls receivePayableUpdateViaCircle, which
\* holds the reentrancy lock while it calls the MessageTransmitter.
ReceivePayableUpdateViaCircle(d, update) ==
  /\ Entered(d)
  /\ Attested(d, update)
  /\ frame' = [frame EXCEPT ![d] = update]
  /\ UNCHANGED <<config, paused, homeVars, copyVars, replayVars>>

\* The MessageTransmitter calls back into the contract; if handleReceiveMessage
\* refuses, the whole transaction reverts.
CircleCallsBack(d) ==
  /\ frame[d] # NoCall
  /\ frame' = [frame EXCEPT ![d] = NoCall]
  /\ IF HandlerAccepts(d, frame[d])
     THEN HandleReceiveMessage(d, frame[d])
     ELSE UNCHANGED <<copyVars, replayVars>>
  /\ UNCHANGED <<config, paused, homeVars>>

AdminSyncForeignPayable(d, sync) ==
  /\ Entered(d)
  /\ ApplyPayablePayloadUpdate(d, sync, sync.chain)
  /\ UNCHANGED <<config, paused, frame, homeVars, replayVars>>

-----------------------------------------------------------------------------

OwnerCalls(c) ==
  \/ Pause(c)
  \/ Unpause(c)
  \/ SetupWormholeAndCircle(c)
  \/ SetupCctpOnly(c)
  \/ \E d \in Chains \ {c} :
       \/ \E protocol \in OwnerProtocols : SetChainDataMessagingProtocol(c, d, protocol)
       \/ RegisterChainCircleDomain(c, d)
       \/ RegisterChainWormholeId(c, d)
       \/ RegisterForeignContract(c, d)

HostCalls(p) ==
  \/ \E list \in AllowedLists :
       \/ CreatePayable(p, list)
       \/ UpdatePayableAllowedTokensAndAmounts(p, list)
  \/ ClosePayable(p)
  \/ ReopenPayable(p)
  \/ PublishPayableDetails(p)

RelayCalls(d) ==
  \/ \E update \in vaas : ReceivePayableUpdateViaWormhole(d, update)
  \/ \E message \in circleMessages :
       \/ RelayCircleMessage(d, message.update)
       \/ ReceivePayableUpdateViaCircle(d, message.update)
  \/ CircleCallsBack(d)
  \/ \E sync \in Snapshots : AdminSyncForeignPayable(d, sync)

Next ==
  \/ \E c \in Chains : OwnerCalls(c) \/ RelayCalls(c)
  \/ \E p \in Payables : HostCalls(p)

Spec == Init /\ [][Next]_vars

-----------------------------------------------------------------------------
(* Fairness.  A signed VAA and a Circle message stay available for ever and *)
(* relaying them is permissionless, so somebody (the relayer, or whoever    *)
(* replays its failed jobs) keeps submitting each one.  Delivery is strong  *)
(* because an owner may pause and unpause in between.  Nothing is assumed   *)
(* of hosts, admins and owners but that a pause ends, and a transaction     *)
(* that has begun ends.                                                     *)

NonceRange == 1..MaxUpdates

DeliverVaa(d, p, n) ==
  \E update \in vaas :
    /\ update.payable = p
    /\ update.nonce = n
    /\ ReceivePayableUpdateViaWormhole(d, update)

RelayManually(d, p, n) ==
  \E message \in circleMessages :
    /\ message.update.payable = p
    /\ message.update.nonce = n
    /\ ReceivePayableUpdateViaCircle(d, message.update)

Abroad(p) == Chains \ {HomeOf[p]}

ChainFairness ==
  \A d \in Chains : WF_vars(Unpause(d)) /\ WF_vars(CircleCallsBack(d))

VaaFairness ==
  \A p \in Payables, n \in NonceRange :
    \A d \in Abroad(p) : SF_vars(DeliverVaa(d, p, n))

ManualFairness ==
  \A p \in Payables, n \in NonceRange :
    \A d \in Abroad(p) : SF_vars(RelayManually(d, p, n))

\* VAAs get delivered; of Circle's messages nothing is assumed.
FairSpec == Spec /\ ChainFairness /\ VaaFairness
\* Circle's messages get relayed as the relayer does it, and no other way.
ManualSpec == Spec /\ ChainFairness /\ ManualFairness

-----------------------------------------------------------------------------
(* Properties.                                                             *)

\* Every variable has its type; a manual relay in progress relays a message
\* that was really sent.
TypeOK ==
  /\ config \in [Chains -> Configs]
  /\ paused \in [Chains -> BOOLEAN]
  /\ frame \in [Chains -> Updates \cup {NoCall}]
  /\ payables \in [Payables -> HomeRecords]
  /\ updateCounter \in [Chains -> Nat]
  /\ broadcasts \in SUBSET Updates
  /\ vaas \in SUBSET broadcasts
  /\ circleMessages \in SUBSET [to: Chains, update: broadcasts]
  /\ nonces \in [Chains -> [Sources -> Nat]]
  /\ foreignPayables \in [Chains -> [Payables -> Copies]]
  /\ foreignPayablesCount \in [Chains -> Nat]
  /\ consumed \in [Chains -> SUBSET broadcasts]
  /\ usedCircle \in [Chains -> SUBSET broadcasts]
  /\ history \in [Chains -> [Sources -> Seq(Nat)]]
  /\ \A d \in Chains : frame[d] # NoCall => frame[d] \in broadcasts

\* The nonces applied for a payable only ever grow, whichever of Wormhole,
\* Circle and the admin brought them (payableUpdateNonces, CbState.sol:101-105),
\* so no update is applied twice and none after a newer one.
AppliedOnceInOrder ==
  \A d \in Chains, s \in Sources :
    LET applied == history[d][s] IN
    /\ \A i, j \in DOMAIN applied : i < j => applied[i] < applied[j]
    /\ nonces[d][s] = IF applied = <<>> THEN 0 ELSE applied[Len(applied)]

\* An update that both networks carry takes effect through one of them only,
\* and a message used up at a network did take effect (ARCHITECTURE.md:328).
OneProtocolPerUpdate ==
  \A d \in Chains :
    /\ consumed[d] \cap usedCircle[d] = {}
    /\ \A update \in consumed[d] \cup usedCircle[d] :
         \E i \in DOMAIN history[d][update.payable, HomeOf[update.payable]] :
           history[d][update.payable, HomeOf[update.payable]][i] = update.nonce

\* No two updates of a payable share a nonce, also on chains that gain or lack
\* Wormhole: otherwise the second would be refused as stale everywhere.
NoncesIdentifyUpdates ==
  \A u, v \in broadcasts : u.payable = v.payable /\ u.nonce = v.nonce => u = v

Applied(d, p) ==
  {history[d][p, HomeOf[p]][i] : i \in DOMAIN history[d][p, HomeOf[p]]}

\* A chain that missed none of a payable's updates up to the one it applied
\* last has exactly the record the payable had at home then.
InOrderCopyIsExact ==
  \A d \in Chains, p \in Payables :
    \A update \in broadcasts :
      ( /\ update.payable = p
        /\ update.nonce = nonces[d][p, HomeOf[p]]
        /\ \A u \in broadcasts :
             u.payable = p /\ u.nonce <= update.nonce => u.nonce \in Applied(d, p) )
      => /\ foreignPayables[d][p].isClosed = update.of.isClosed
         /\ foreignPayables[d][p].allowed = update.of.allowed

\* A copy names the chain the payable lives on, is never newer than what that
\* chain broadcast, and is counted once (CbPayables.sol:491-495).
CopiesNameTheirHome ==
  \A d \in Chains :
    LET known == {p \in Payables : foreignPayables[d][p].chainId # NoChain} IN
    /\ foreignPayablesCount[d] = Cardinality(known)
    /\ \A p \in Payables :
         /\ p \in known <=> nonces[d][p, HomeOf[p]] > 0
         /\ p \in known => foreignPayables[d][p].chainId = HomeOf[p]
         /\ nonces[d][p, HomeOf[p]] <= updateCounter[HomeOf[p]]

\* Every broadcast goes out to every registered chain, by the protocol that is
\* set for it (ARCHITECTURE.md:328).
SentBy(protocol, d, update, signed, attested) ==
  CASE protocol = "WORMHOLE" -> update \in signed
    [] protocol = "CCTP" -> [to |-> d, update |-> update] \in attested

BroadcastReachesEveryChain ==
  [][\A update \in broadcasts' \ broadcasts :
       LET c == HomeOf[update.payable] IN
       \A d \in config[c].contracts :
         config[c].protocol[d] # "NONE"
           => SentBy(config[c].protocol[d], d, update, vaas', circleMessages')]_vars

\* Every VAA is applied, or something newer is, on every chain that trusts its
\* home, though each payable sees gaps in the chain-wide nonces.
NewestUpdateLands ==
  \A p \in Payables, n \in NonceRange : \A d \in Abroad(p) :
    (/\ \E update \in vaas : update.payable = p /\ update.nonce = n
     /\ config[d].wormhole
     /\ HomeOf[p] \in config[d].wormholeIds \cap config[d].contracts)
      ~> (nonces[d][p, HomeOf[p]] >= n)

\* publishPayableDetails is to "Broadcast current payable state" (CbPayables.sol:342):
\* a chain whose newest applied update is a snapshot has the state it was taken of.
SnapshotIsCurrent ==
  \A d \in Chains, p \in Payables, update \in broadcasts :
    (/\ update.payable = p
     /\ update.actionType = Create
     /\ nonces[d][p, HomeOf[p]] = update.nonce)
      => /\ foreignPayables[d][p].isClosed = update.of.isClosed
         /\ foreignPayables[d][p].allowed = update.of.allowed

\* "Anyone can call" receivePayableUpdateViaCircle to have an attested update
\* applied (CbPayables.sol:385-391): if somebody keeps doing so, it lands.
ManualRelayLands ==
  \A p \in Payables, n \in NonceRange : \A d \in Abroad(p) :
    (\E message \in circleMessages :
       message.to = d /\ message.update.payable = p /\ message.update.nonce = n)
      ~> (nonces[d][p, HomeOf[p]] >= n)

-----------------------------------------------------------------------------
=============================================================================
