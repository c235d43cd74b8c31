-------------------------- MODULE PayableSyncProofs --------------------------
(***************************************************************************)
(* What holds of PayableSync for any chains, payables, configurations and  *)
(* admin snapshots: the types, that a nonce names one update of a payable, *)
(* that updates are applied in the order of their nonces, and that each is *)
(* applied through one network only.  The last two rest on the first, and  *)
(* the very last on the one before it: an update that one network brought  *)
(* is in the history, so its nonce is not newer when the other brings it.  *)
(*                                                                         *)
(* Where no admin writes copies (NoAdmin), also: a copy names its home, and *)
(* one that missed nothing is exact.  The updates a home sent tell its     *)
(* record change by change (Told), so that the update applied last and the *)
(* one before it differ in what it carries.                                *)
(***************************************************************************)
EXTENDS PayableSync, SequenceTheorems, FiniteSetTheorems, TLAPS

-----------------------------------------------------------------------------
(* Types.                                                                  *)

LEMMA InitTypeOK == Init => TypeOK
<1> SUFFICES ASSUME Init PROVE TypeOK
  OBVIOUS
<1>1. config \in [Chains -> Configs]
  BY ConfigAssumption DEF Init
<1>2. NoHome \in HomeRecords /\ NoCopy \in Copies
  BY AllowedAssumption DEF NoHome, NoCopy, HomeRecords, Copies
<1>3. [s \in Sources |-> <<>>] \in [Sources -> Seq(Nat)]
  OBVIOUS
<1> QED
  BY <1>1, <1>2, <1>3 DEF Init, TypeOK

\* An owner's setting is a configuration whenever the new settings are one.
LEMMA ConfigureTypeOK ==
  ASSUME TypeOK, NEW c \in Chains, NEW settings \in Configs, Configure(c, settings)
  PROVE  TypeOK'
BY DEF Configure, TypeOK, homeVars, copyVars, replayVars

LEMMA OwnerTypeOK ==
  ASSUME TypeOK, NEW c \in Chains, OwnerCalls(c)
  PROVE  TypeOK'
<1>1. config[c] \in Configs
  BY DEF TypeOK
<1>2. CASE Pause(c)
  BY <1>2 DEF Pause, TypeOK, homeVars, copyVars, replayVars
<1>3. CASE Unpause(c)
  BY <1>3 DEF Unpause, TypeOK, homeVars, copyVars, replayVars
<1>4. CASE SetupWormholeAndCircle(c)
  <2>1. [config[c] EXCEPT !.wormhole = TRUE, !.circle = TRUE] \in Configs
    BY <1>1 DEF Configs
  <2> QED
    BY <2>1, <1>4, ConfigureTypeOK DEF SetupWormholeAndCircle
<1>5. CASE SetupCctpOnly(c)
  <2>1. [config[c] EXCEPT !.circle = TRUE] \in Configs
    BY <1>1 DEF Configs
  <2> QED
    BY <2>1, <1>5, ConfigureTypeOK DEF SetupCctpOnly
<1>6. ASSUME NEW d \in Chains, NEW protocol \in OwnerProtocols,
             SetChainDataMessagingProtocol(c, d, protocol)
      PROVE  TypeOK'
  <2>1. protocol \in Protocols
    BY ConfigAssumption
  <2>2. [config[c].protocol EXCEPT ![d] = protocol] \in [Chains -> Protocols]
    BY <1>1, <2>1 DEF Configs
  <2>3. [config[c] EXCEPT !.protocol = [config[c].protocol EXCEPT ![d] = protocol]] \in Configs
    BY <1>1, <2>2 DEF Configs
  <2> QED
    BY <2>3, <1>6, ConfigureTypeOK DEF SetChainDataMessagingProtocol
<1>7. ASSUME NEW d \in Chains, RegisterChainCircleDomain(c, d) PROVE TypeOK'
  <2>1. [config[c] EXCEPT !.domains = config[c].domains \cup {d}] \in Configs
    BY <1>1 DEF Configs
  <2> QED
    BY <2>1, <1>7, ConfigureTypeOK DEF RegisterChainCircleDomain
<1>8. ASSUME NEW d \in Chains, RegisterChainWormholeId(c, d) PROVE TypeOK'
  <2>1. [config[c] EXCEPT !.wormholeIds = config[c].wormholeIds \cup {d}] \in Configs
    BY <1>1 DEF Configs
  <2> QED
    BY <2>1, <1>8, ConfigureTypeOK DEF RegisterChainWormholeId
<1>9. ASSUME NEW d \in Chains, RegisterForeignContract(c, d) PROVE TypeOK'
  <2>1. [config[c] EXCEPT !.contracts = config[c].contracts \cup {d}] \in Configs
    BY <1>1 DEF Configs
  <2> QED
    BY <2>1, <1>9, ConfigureTypeOK DEF RegisterForeignContract
<1> QED
  BY <1>2, <1>3, <1>4, <1>5, <1>6, <1>7, <1>8, <1>9 DEF OwnerCalls

\* What is broadcast is a well-formed update with the next nonce of its chain.
LEMMA PayloadType ==
  ASSUME TypeOK, NEW p \in Payables, NEW actionType \in 1..4, NEW record \in HomeRecords
  PROVE  /\ Payload(p, actionType, record) \in Updates
         /\ Payload(p, actionType, record).payable = p
         /\ Payload(p, actionType, record).nonce = updateCounter[HomeOf[p]] + 1
<1>1. HomeOf[p] \in Chains /\ updateCounter[HomeOf[p]] \in Nat
  BY HomeAssumption DEF TypeOK
<1>2. record.isClosed \in BOOLEAN /\ record.allowed \in AllowedLists
  BY DEF HomeRecords
<1> DEFINE whole == [payable |-> p, nonce |-> NextNonce(HomeOf[p]), actionType |-> actionType,
                     isClosed |-> record.isClosed, allowed |-> record.allowed, of |-> record]
<1>3. whole \in Updates /\ whole.payable = p /\ whole.nonce = updateCounter[HomeOf[p]] + 1
  BY <1>1, <1>2 DEF Updates, NextNonce
<1>4. /\ (IF whole.actionType \in CarriesAllowed THEN whole.allowed ELSE AnyPayment) \in AllowedLists
      /\ (whole.actionType \in CarriesClosed /\ whole.isClosed) \in BOOLEAN
  BY <1>2, AllowedAssumption
<1>5. Payload(p, actionType, record) = Encode(whole)
  BY DEF Payload
<1> HIDE DEF whole
<1> QED
  BY <1>3, <1>4, <1>5 DEF Encode, Updates

LEMMA HomeTypeOK ==
  ASSUME TypeOK, NEW p \in Payables, NEW actionType \in 1..4, NEW record \in HomeRecords,
         ChangeAtHome(p, actionType, record)
  PROVE  TypeOK'
<1> DEFINE c == HomeOf[p]
           update == Payload(p, actionType, record)
<1>1. c \in Chains /\ config[c] \in Configs
  BY HomeAssumption DEF TypeOK
<1>2. update \in Updates
  BY PayloadType
<1>3. /\ payables' = [payables EXCEPT ![p] = record]
      /\ updateCounter' = [updateCounter EXCEPT ![c] = NextNonce(c)]
      /\ broadcasts' = broadcasts \cup {update}
      /\ vaas' = IF config[c].wormhole THEN vaas \cup {update} ELSE vaas
      /\ circleMessages' =
           circleMessages \cup {[to |-> d, update |-> update] : d \in CctpTargets(c)}
      /\ UNCHANGED <<config, paused, frame, copyVars, replayVars>>
  BY DEF ChangeAtHome, BroadcastPayableUpdate
<1>4. CctpTargets(c) \subseteq Chains
  BY <1>1 DEF CctpTargets, Configs
<1>5. NextNonce(c) \in Nat
  BY <1>1 DEF NextNonce, TypeOK
<1> HIDE DEF c, update
<1>6. /\ payables' \in [Payables -> HomeRecords]
      /\ updateCounter' \in [Chains -> Nat]
      /\ broadcasts' \in SUBSET Updates
      /\ broadcasts \subseteq broadcasts'
      /\ vaas' \in SUBSET broadcasts'
  BY <1>1, <1>2, <1>3, <1>5 DEF TypeOK
<1>7. circleMessages' \in SUBSET [to: Chains, update: broadcasts']
  <2>1. update \in broadcasts'
    BY <1>3
  <2>2. \A d \in CctpTargets(c) : [to |-> d, update |-> update] \in [to: Chains, update: broadcasts']
    BY <1>4, <2>1
  <2>3. circleMessages \subseteq [to: Chains, update: broadcasts']
    BY <1>6 DEF TypeOK
  <2> QED
    BY <2>2, <2>3, <1>3
<1>8. /\ consumed' \in [Chains -> SUBSET broadcasts']
      /\ usedCircle' \in [Chains -> SUBSET broadcasts']
  BY <1>3, <1>6 DEF TypeOK, replayVars
<1>9. \A d \in Chains : frame'[d] # NoCall => frame'[d] \in broadcasts'
  BY <1>3, <1>6 DEF TypeOK
<1> QED
  BY <1>3, <1>6, <1>7, <1>8, <1>9 DEF TypeOK, copyVars

LEMMA HostTypeOK ==
  ASSUME TypeOK, NEW p \in Payables, HostCalls(p)
  PROVE  TypeOK'
<1>1. payables[p] \in HomeRecords
  BY DEF TypeOK
<1>2. ASSUME NEW list \in AllowedLists, CreatePayable(p, list) PROVE TypeOK'
  <2>1. [exists |-> TRUE, isClosed |-> FALSE, allowed |-> list] \in HomeRecords
    BY DEF HomeRecords
  <2> QED
    BY <2>1, <1>2, HomeTypeOK DEF CreatePayable, Create
<1>3. ASSUME NEW list \in AllowedLists, UpdatePayableAllowedTokensAndAmounts(p, list)
      PROVE  TypeOK'
  <2>1. [payables[p] EXCEPT !.allowed = list] \in HomeRecords
    BY <1>1 DEF HomeRecords
  <2> QED
    BY <2>1, <1>3, HomeTypeOK DEF UpdatePayableAllowedTokensAndAmounts, UpdateAllowed
<1>4. CASE ClosePayable(p)
  <2>1. [payables[p] EXCEPT !.isClosed = TRUE] \in HomeRecords
    BY <1>1 DEF HomeRecords
  <2> QED
    BY <2>1, <1>4, HomeTypeOK DEF ClosePayable, Close
<1>5. CASE ReopenPayable(p)
  <2>1. [payables[p] EXCEPT !.isClosed = FALSE] \in HomeRecords
    BY <1>1 DEF HomeRecords
  <2> QED
    BY <2>1, <1>5, HomeTypeOK DEF ReopenPayable, Reopen
<1>6. CASE PublishPayableDetails(p)
  BY <1>1, <1>6, HomeTypeOK DEF PublishPayableDetails, Create
<1> QED
  BY <1>2, <1>3, <1>4, <1>5, <1>6 DEF HostCalls

\* What the receiving functions hand to _applyPayablePayloadUpdate.
Applicable == Updates \cup AdminSyncs

LEMMA ApplicableFields ==
  ASSUME NEW update \in Applicable
  PROVE  /\ update.payable \in Payables
         /\ update.nonce \in Nat
         /\ update.isClosed \in BOOLEAN
         /\ update.allowed \in AllowedLists
<1>1. CASE update \in Updates
  BY <1>1 DEF Updates
<1>2. CASE update \in AdminSyncs
  BY <1>2 DEF AdminSyncs
<1> QED
  BY <1>1, <1>2 DEF Applicable

LEMMA ApplyTypes ==
  ASSUME TypeOK, NEW d \in Chains, NEW update \in Applicable, NEW source \in Chains,
         ApplyPayablePayloadUpdate(d, update, source)
  PROVE  /\ nonces' \in [Chains -> [Sources -> Nat]]
         /\ foreignPayables' \in [Chains -> [Payables -> Copies]]
         /\ foreignPayablesCount' \in [Chains -> Nat]
         /\ history' \in [Chains -> [Sources -> Seq(Nat)]]
<1> DEFINE p == update.payable
           copy == foreignPayables[d][p]
           s == <<p, source>>
<1>1. /\ p \in Payables /\ update.nonce \in Nat /\ update.isClosed \in BOOLEAN
      /\ update.allowed \in AllowedLists /\ s \in Sources
  BY ApplicableFields DEF Sources
<1>2. copy \in Copies
  BY <1>1 DEF TypeOK
<1>3. ApplyPayload(copy, update, source) \in Copies
  <2>1. /\ (IF copy.chainId = NoChain THEN source ELSE copy.chainId) \in Chains \cup {NoChain}
        /\ (IF update.actionType \in CarriesAllowed THEN update.allowed ELSE copy.allowed)
              \in AllowedLists
        /\ (IF update.actionType \in CarriesClosed THEN update.isClosed ELSE copy.isClosed)
              \in BOOLEAN
    BY <1>1, <1>2 DEF Copies
  <2> QED
    BY <2>1 DEF ApplyPayload, Copies
<1>4. [nonces[d] EXCEPT ![s] = update.nonce] \in [Sources -> Nat]
  BY <1>1 DEF TypeOK
<1>5. [foreignPayables[d] EXCEPT ![p] = ApplyPayload(copy, update, source)]
        \in [Payables -> Copies]
  BY <1>1, <1>3 DEF TypeOK
<1>6. CountForeign(foreignPayablesCount[d], copy) \in Nat
  BY DEF CountForeign, TypeOK
<1>7. Append(history[d][s], update.nonce) \in Seq(Nat)
  BY <1>1 DEF TypeOK
<1>8. [history[d] EXCEPT ![s] = Append(history[d][s], update.nonce)] \in [Sources -> Seq(Nat)]
  BY <1>1, <1>7 DEF TypeOK
<1>9. /\ nonces' = [nonces EXCEPT ![d] = [nonces[d] EXCEPT ![s] = update.nonce]]
      /\ foreignPayables' =
           [foreignPayables EXCEPT ![d] =
              [foreignPayables[d] EXCEPT ![p] = ApplyPayload(copy, update, source)]]
      /\ foreignPayablesCount' =
           [foreignPayablesCount EXCEPT ![d] = CountForeign(foreignPayablesCount[d], copy)]
      /\ history' =
           [history EXCEPT ![d] =
              [history[d] EXCEPT ![s] = Append(history[d][s], update.nonce)]]
  BY DEF ApplyPayablePayloadUpdate
<1> HIDE DEF p, copy, s
<1>10. nonces' \in [Chains -> [Sources -> Nat]]
  BY <1>4, <1>9 DEF TypeOK
<1>11. foreignPayables' \in [Chains -> [Payables -> Copies]]
  BY <1>5, <1>9 DEF TypeOK
<1>12. foreignPayablesCount' \in [Chains -> Nat]
  BY <1>6, <1>9 DEF TypeOK
<1>13. history' \in [Chains -> [Sources -> Seq(Nat)]]
  BY <1>8, <1>9 DEF TypeOK
<1> QED
  BY <1>10, <1>11, <1>12, <1>13

\* An update that was broadcast can be applied, and came from its home.
LEMMA BroadcastFields ==
  ASSUME TypeOK, NEW update \in broadcasts
  PROVE  update \in Applicable /\ update \in Updates /\ HomeOf[update.payable] \in Chains
<1>1. update \in Updates
  BY DEF TypeOK
<1> QED
  BY <1>1, HomeAssumption DEF Updates, Applicable

LEMMA HandleTypeOK ==
  ASSUME TypeOK, NEW d \in Chains, NEW update \in broadcasts, HandleReceiveMessage(d, update),
         UNCHANGED <<config, paused, homeVars>>,
         frame' \in [Chains -> Updates \cup {NoCall}],
         \A c \in Chains : frame'[c] # NoCall => frame'[c] \in broadcasts
  PROVE  TypeOK'
<1>1. usedCircle' \in [Chains -> SUBSET broadcasts]
  BY DEF HandleReceiveMessage, TypeOK
<1> QED
  BY <1>1, BroadcastFields, ApplyTypes DEF HandleReceiveMessage, TypeOK, homeVars

LEMMA RelayTypeOK ==
  ASSUME TypeOK, NEW d \in Chains, RelayCalls(d)
  PROVE  TypeOK'
<1>1. ASSUME NEW update \in vaas, ReceivePayableUpdateViaWormhole(d, update)
      PROVE  TypeOK'
  <2>1. update \in broadcasts
    BY DEF TypeOK
  <2>2. consumed' \in [Chains -> SUBSET broadcasts]
    BY <1>1, <2>1 DEF ReceivePayableUpdateViaWormhole, TypeOK
  <2> QED
    BY <1>1, <2>1, <2>2, BroadcastFields, ApplyTypes
       DEF ReceivePayableUpdateViaWormhole, TypeOK, homeVars
<1>2. ASSUME NEW message \in circleMessages PROVE message.update \in broadcasts
  BY DEF TypeOK
<1>3. ASSUME NEW message \in circleMessages, RelayCircleMessage(d, message.update)
      PROVE  TypeOK'
  <2>1. UNCHANGED <<config, paused, homeVars>> /\ HandleReceiveMessage(d, message.update)
    BY <1>3 DEF RelayCircleMessage
  <2>2. /\ frame' \in [Chains -> Updates \cup {NoCall}]
        /\ \A c \in Chains : frame'[c] # NoCall => frame'[c] \in broadcasts
    BY <1>3 DEF RelayCircleMessage, TypeOK
  <2> QED
    BY <1>2, <2>1, <2>2, HandleTypeOK
<1>4. ASSUME NEW message \in circleMessages, ReceivePayableUpdateViaCircle(d, message.update)
      PROVE  TypeOK'
  <2>1. message.update \in broadcasts /\ message.update \in Updates
    BY <1>2, BroadcastFields
  <2> QED
    BY <1>4, <2>1 DEF ReceivePayableUpdateViaCircle, TypeOK, homeVars, copyVars, replayVars
<1>5. CASE CircleCallsBack(d)
  <2>1. frame[d] \in broadcasts
    BY <1>5 DEF CircleCallsBack, TypeOK
  <2>2. /\ frame' \in [Chains -> Updates \cup {NoCall}]
        /\ \A c \in Chains : frame'[c] # NoCall => frame'[c] \in broadcasts
    BY <1>5 DEF CircleCallsBack, TypeOK
  <2>3. CASE HandleReceiveMessage(d, frame[d])
    BY <1>5, <2>1, <2>2, <2>3, HandleTypeOK DEF CircleCallsBack
  <2>4. CASE UNCHANGED <<copyVars, replayVars>>
    BY <1>5, <2>2, <2>4 DEF CircleCallsBack, TypeOK, homeVars, copyVars, replayVars
  <2> QED
    BY <1>5, <2>3, <2>4 DEF CircleCallsBack
<1>6. ASSUME NEW sync \in Snapshots, AdminSyncForeignPayable(d, sync) PROVE TypeOK'
  <2>1. sync \in AdminSyncs
    BY SnapshotsAssumption
  <2>2. sync \in Applicable /\ sync.chain \in Chains
    BY <2>1 DEF AdminSyncs, Applicable
  <2> QED
    BY <1>6, <2>2, ApplyTypes DEF AdminSyncForeignPayable, TypeOK, homeVars, replayVars
<1> QED
  BY <1>1, <1>3, <1>4, <1>5, <1>6 DEF RelayCalls

LEMMA StutterTypeOK == TypeOK /\ UNCHANGED vars => TypeOK'
BY DEF TypeOK, vars, homeVars, copyVars, replayVars

LEMMA NextTypeOK == TypeOK /\ [Next]_vars => TypeOK'
BY OwnerTypeOK, RelayTypeOK, HostTypeOK, StutterTypeOK DEF Next

\* PayableSync keeps its types: whatever the owners, hosts and relays of any
\* chains do, what is stored, sent and applied is well formed, and a manual
\* relay in progress relays what was sent (CbState.sol, CbPayables.sol).
THEOREM TypeCorrect == Spec => []TypeOK
<1>1. Init => TypeOK
  BY InitTypeOK
<1>2. TypeOK /\ [Next]_vars => TypeOK'
  BY NextTypeOK
<1> QED
  BY <1>1, <1>2, PTL DEF Spec

-----------------------------------------------------------------------------
(* Nonces identify updates.                                                *)

\* No update of a chain has a nonce its counter has not reached.
NoncesCounted ==
  \A update \in broadcasts : update.nonce <= updateCounter[HomeOf[update.payable]]

HomeInv == TypeOK /\ NoncesCounted /\ NoncesIdentifyUpdates

LEMMA InitHomeInv == Init => HomeInv
BY InitTypeOK DEF HomeInv, NoncesCounted, NoncesIdentifyUpdates, Init

LEMMA HomeChangeKeepsNonces ==
  ASSUME HomeInv, NEW p \in Payables, NEW actionType \in 1..4, NEW record \in HomeRecords,
         ChangeAtHome(p, actionType, record)
  PROVE  NoncesCounted' /\ NoncesIdentifyUpdates'
<1> DEFINE c == HomeOf[p]
           new == Payload(p, actionType, record)
<1>1. TypeOK
  BY DEF HomeInv
<1>2. c \in Chains /\ updateCounter \in [Chains -> Nat]
  BY <1>1, HomeAssumption DEF TypeOK
<1>3. new.payable = p /\ new.nonce = updateCounter[c] + 1
  BY <1>1, PayloadType
<1>4. /\ updateCounter' = [updateCounter EXCEPT ![c] = updateCounter[c] + 1]
      /\ broadcasts' = broadcasts \cup {new}
  BY DEF ChangeAtHome, BroadcastPayableUpdate, NextNonce
<1>5. \A u \in broadcasts :
        /\ u.nonce \in Nat /\ HomeOf[u.payable] \in Chains
        /\ u.nonce <= updateCounter[HomeOf[u.payable]]
  BY <1>1, HomeAssumption DEF HomeInv, NoncesCounted, TypeOK, Updates
<1> HIDE DEF c, new
<1>6. \A d \in Chains : updateCounter[d] <= updateCounter'[d]
  BY <1>2, <1>4
<1>7. updateCounter'[c] = updateCounter[c] + 1
  BY <1>2, <1>4
<1>8. \A u \in broadcasts : u.nonce <= updateCounter'[HomeOf[u.payable]]
  <2>1. updateCounter' \in [Chains -> Nat]
    BY <1>2, <1>4
  <2> QED
    BY <1>2, <1>5, <1>6, <2>1
<1>9. new.nonce <= updateCounter'[HomeOf[new.payable]]
  BY <1>2, <1>3, <1>7 DEF c
<1>10. NoncesCounted'
  BY <1>4, <1>8, <1>9 DEF NoncesCounted
<1>11. \A u \in broadcasts : u.payable = p => u.nonce # new.nonce
  BY <1>2, <1>3, <1>5 DEF c
<1>12. NoncesIdentifyUpdates'
  BY <1>3, <1>4, <1>11 DEF HomeInv, NoncesIdentifyUpdates
<1> QED
  BY <1>10, <1>12

LEMMA HostKeepsNonces ==
  ASSUME HomeInv, NEW p \in Payables, HostCalls(p)
  PROVE  NoncesCounted' /\ NoncesIdentifyUpdates'
<1>1. payables[p] \in HomeRecords
  BY DEF HomeInv, TypeOK
<1>2. PICK actionType \in 1..4, record \in HomeRecords : ChangeAtHome(p, actionType, record)
  <2>1. ASSUME NEW list \in AllowedLists
        PROVE  /\ [exists |-> TRUE, isClosed |-> FALSE, allowed |-> list] \in HomeRecords
               /\ [payables[p] EXCEPT !.allowed = list] \in HomeRecords
    BY <1>1 DEF HomeRecords
  <2>2. /\ [payables[p] EXCEPT !.isClosed = TRUE] \in HomeRecords
        /\ [payables[p] EXCEPT !.isClosed = FALSE] \in HomeRecords
    BY <1>1 DEF HomeRecords
  <2>3. Create \in 1..4 /\ Close \in 1..4 /\ Reopen \in 1..4 /\ UpdateAllowed \in 1..4
    BY DEF Create, Close, Reopen, UpdateAllowed
  <2>4. CASE \E list \in AllowedLists : CreatePayable(p, list)
    BY <2>1, <2>3, <2>4 DEF CreatePayable
  <2>5. CASE \E list \in AllowedLists : UpdatePayableAllowedTokensAndAmounts(p, list)
    BY <2>1, <2>3, <2>5 DEF UpdatePayableAllowedTokensAndAmounts
  <2>6. CASE ClosePayable(p)
    BY <2>2, <2>3, <2>6 DEF ClosePayable
  <2>7. CASE ReopenPayable(p)
    BY <2>2, <2>3, <2>7 DEF ReopenPayable
  <2>8. CASE PublishPayableDetails(p)
    BY <1>1, <2>3, <2>8 DEF PublishPayableDetails
  <2> QED
    BY <2>4, <2>5, <2>6, <2>7, <2>8 DEF HostCalls
<1> QED
  BY <1>2, HomeChangeKeepsNonces

\* Owners and receiving chains leave what a home chain broadcast alone.
LEMMA OwnerLeavesSync ==
  ASSUME NEW c \in Chains, OwnerCalls(c)
  PROVE  UNCHANGED <<homeVars, copyVars, replayVars>>
BY DEF OwnerCalls, Pause, Unpause, Configure, SetupWormholeAndCircle, SetupCctpOnly,
       SetChainDataMessagingProtocol, RegisterChainCircleDomain, RegisterChainWormholeId,
       RegisterForeignContract

LEMMA RelayLeavesHome ==
  ASSUME NEW d \in Chains, RelayCalls(d)
  PROVE  UNCHANGED homeVars
BY DEF RelayCalls, ReceivePayableUpdateViaWormhole, RelayCircleMessage,
       ReceivePayableUpdateViaCircle, CircleCallsBack, AdminSyncForeignPayable

LEMMA NextHomeInv == HomeInv /\ [Next]_vars => HomeInv'
<1> SUFFICES ASSUME HomeInv, [Next]_vars PROVE HomeInv'
  OBVIOUS
<1>1. TypeOK'
  BY NextTypeOK DEF HomeInv
<1>2. ASSUME UNCHANGED homeVars PROVE NoncesCounted' /\ NoncesIdentifyUpdates'
  BY <1>2 DEF HomeInv, NoncesCounted, NoncesIdentifyUpdates, homeVars
<1>3. CASE UNCHANGED vars
  BY <1>2, <1>3, <1>1 DEF vars, HomeInv
<1>4. ASSUME NEW c \in Chains, OwnerCalls(c) \/ RelayCalls(c) PROVE HomeInv'
  BY <1>1, <1>2, <1>4, OwnerLeavesSync, RelayLeavesHome DEF HomeInv
<1>5. ASSUME NEW p \in Payables, HostCalls(p) PROVE HomeInv'
  BY <1>1, <1>5, HostKeepsNonces DEF HomeInv
<1> QED
  BY <1>3, <1>4, <1>5 DEF Next

\* A nonce names one update of a payable, on chains with Wormhole, without it
\* or gaining it, because one counter numbers all a chain broadcasts
\* (CbPayables._broadcastPayableUpdate): no update is mistaken for another.
THEOREM NoncesAlwaysIdentifyUpdates == Spec => []NoncesIdentifyUpdates
<1>1. Init => HomeInv
  BY InitHomeInv
<1>2. HomeInv /\ [Next]_vars => HomeInv'
  BY NextHomeInv
<1>3. HomeInv => NoncesIdentifyUpdates
  BY DEF HomeInv
<1> QED
  BY <1>1, <1>2, <1>3, PTL DEF Spec

-----------------------------------------------------------------------------
(* Order.                                                                  *)

Increasing(q) == \A i, j \in DOMAIN q : i < j => q[i] < q[j]
LastOf(q) == IF q = <<>> THEN 0 ELSE q[Len(q)]
Occurs(n, q) == \E i \in DOMAIN q : q[i] = n

\* In an increasing sequence nothing is greater than the last.
LEMMA LastIsGreatest ==
  ASSUME NEW q \in Seq(Nat), Increasing(q), NEW i \in DOMAIN q
  PROVE  q[i] <= LastOf(q)
<1>1. Len(q) \in DOMAIN q /\ q # <<>> /\ DOMAIN q = 1..Len(q)
  OBVIOUS
<1>2. CASE i = Len(q)
  BY <1>1, <1>2 DEF LastOf
<1>3. CASE i # Len(q)
  <2>1. i < Len(q)
    BY <1>1, <1>3
  <2>2. q[i] < q[Len(q)]
    BY <1>1, <2>1 DEF Increasing
  <2>3. q[i] \in Nat /\ q[Len(q)] \in Nat
    BY <1>1
  <2> QED
    BY <1>1, <2>2, <2>3 DEF LastOf
<1> QED
  BY <1>2, <1>3

\* Appending what is greater than the last keeps a sequence increasing.
LEMMA AppendGreater ==
  ASSUME NEW q \in Seq(Nat), NEW n \in Nat, Increasing(q), n > LastOf(q)
  PROVE  /\ Increasing(Append(q, n))
         /\ LastOf(Append(q, n)) = n
         /\ Occurs(n, Append(q, n))
         /\ \A m : Occurs(m, q) => Occurs(m, Append(q, n))
<1> DEFINE r == Append(q, n)
<1>1. /\ r \in Seq(Nat) /\ Len(r) = Len(q) + 1 /\ DOMAIN r = 1..(Len(q) + 1)
      /\ DOMAIN q = 1..Len(q) /\ Len(q) \in Nat
      /\ r[Len(q) + 1] = n
      /\ \A i \in DOMAIN q : r[i] = q[i] /\ q[i] \in Nat
  OBVIOUS
<1>2. \A i \in DOMAIN q : q[i] < n
  <2> TAKE i \in DOMAIN q
  <2>1. q[i] <= LastOf(q) /\ q # <<>>
    BY LastIsGreatest
  <2>2. LastOf(q) \in Nat
    BY <2>1 DEF LastOf
  <2> QED
    BY <1>1, <2>1, <2>2
<1> HIDE DEF r
<1>3. Increasing(r)
  <2> SUFFICES ASSUME NEW i \in DOMAIN r, NEW j \in DOMAIN r, i < j PROVE r[i] < r[j]
    BY DEF Increasing
  <2>1. i \in DOMAIN q
    BY <1>1
  <2>2. CASE j \in DOMAIN q
    BY <1>1, <2>1, <2>2 DEF Increasing
  <2>3. CASE j \notin DOMAIN q
    <3>1. j = Len(q) + 1
      BY <1>1, <2>3
    <3> QED
      BY <1>1, <1>2, <2>1, <3>1
  <2> QED
    BY <2>2, <2>3
<1>4. LastOf(r) = n
  <2>1. r # <<>>
    BY <1>1
  <2> QED
    BY <1>1, <2>1 DEF LastOf
<1>5. Occurs(n, r)
  BY <1>1 DEF Occurs
<1>6. \A m : Occurs(m, q) => Occurs(m, r)
  <2> SUFFICES ASSUME NEW m, NEW i \in DOMAIN q, q[i] = m PROVE Occurs(m, r)
    BY DEF Occurs
  <2>1. i \in DOMAIN r /\ r[i] = m
    BY <1>1
  <2> QED
    BY <2>1 DEF Occurs
<1> QED
  BY <1>3, <1>4, <1>5, <1>6 DEF r

\* Both properties, said of the history with the operators above.
InOrder ==
  \A d \in Chains, s \in Sources :
    Increasing(history[d][s]) /\ nonces[d][s] = LastOf(history[d][s])

Happened(d, update) == Occurs(update.nonce, history[d][<<update.payable, HomeOf[update.payable]>>])

OneNetwork ==
  \A d \in Chains :
    /\ consumed[d] \cap usedCircle[d] = {}
    /\ \A update \in consumed[d] \cup usedCircle[d] : Happened(d, update)

LEMMA InOrderIsAppliedOnceInOrder == InOrder <=> AppliedOnceInOrder
BY DEF InOrder, AppliedOnceInOrder, Increasing, LastOf

LEMMA OneNetworkIsOneProtocol == OneNetwork <=> OneProtocolPerUpdate
BY DEF OneNetwork, OneProtocolPerUpdate, Happened, Occurs

SyncInv == TypeOK /\ InOrder /\ OneNetwork

LEMMA InitSyncInv == Init => SyncInv
<1> SUFFICES ASSUME Init PROVE InOrder /\ OneNetwork
  BY InitTypeOK DEF SyncInv
<1>1. InOrder
  BY DEF Init, InOrder, Increasing, LastOf
<1>2. OneNetwork
  BY DEF Init, OneNetwork
<1> QED
  BY <1>1, <1>2

\* Applying an update extends the history of its source in order, and what was
\* applied stays applied.
LEMMA ApplyInOrder ==
  ASSUME SyncInv, NEW d \in Chains, NEW update \in Applicable, NEW source \in Chains,
         ApplyPayablePayloadUpdate(d, update, source)
  PROVE  /\ InOrder'
         /\ Occurs(update.nonce, history'[d][<<update.payable, source>>])
         /\ ~ Occurs(update.nonce, history[d][<<update.payable, source>>])
         /\ \A e \in Chains, s \in Sources : \A n :
              Occurs(n, history[e][s]) => Occurs(n, history'[e][s])
<1> DEFINE t == <<update.payable, source>>
           q == history[d][t]
           n == update.nonce
<1>1. t \in Sources /\ n \in Nat
  BY ApplicableFields DEF Sources
<1>2. q \in Seq(Nat)
  BY <1>1 DEF SyncInv, TypeOK
<1>3. Increasing(q) /\ nonces[d][t] = LastOf(q)
  BY <1>1 DEF SyncInv, InOrder
<1>4. /\ n > nonces[d][t]
      /\ nonces' = [nonces EXCEPT ![d] = [nonces[d] EXCEPT ![t] = n]]
      /\ history' = [history EXCEPT ![d] = [history[d] EXCEPT ![t] = Append(q, n)]]
  BY DEF ApplyPayablePayloadUpdate, Fresh, IsNewer
<1>5. /\ nonces \in [Chains -> [Sources -> Nat]]
      /\ history \in [Chains -> [Sources -> Seq(Nat)]]
  BY DEF SyncInv, TypeOK
<1> HIDE DEF t, q, n
<1>6. /\ Increasing(Append(q, n))
      /\ LastOf(Append(q, n)) = n
      /\ Occurs(n, Append(q, n))
      /\ \A m : Occurs(m, q) => Occurs(m, Append(q, n))
  BY <1>1, <1>2, <1>3, <1>4, AppendGreater
<1>7. \A e \in Chains, s \in Sources :
        IF e = d /\ s = t
        THEN history'[e][s] = Append(q, n) /\ nonces'[e][s] = n
        ELSE history'[e][s] = history[e][s] /\ nonces'[e][s] = nonces[e][s]
  BY <1>1, <1>4, <1>5
<1>8. InOrder'
  <2> SUFFICES ASSUME NEW e \in Chains, NEW s \in Sources
               PROVE  Increasing(history'[e][s]) /\ nonces'[e][s] = LastOf(history'[e][s])
    BY DEF InOrder, Increasing, LastOf
  <2>1. CASE e = d /\ s = t
    BY <1>6, <1>7, <2>1
  <2>2. CASE ~ (e = d /\ s = t)
    BY <1>7, <2>2 DEF SyncInv, InOrder
  <2> QED
    BY <2>1, <2>2
<1>9. Occurs(n, history'[d][t])
  BY <1>1, <1>6, <1>7
<1>10. ~ Occurs(n, q)
  <2> SUFFICES ASSUME NEW i \in DOMAIN q, q[i] = n PROVE FALSE
    BY DEF Occurs
  <2>1. n <= LastOf(q)
    BY <1>2, <1>3, LastIsGreatest
  <2>2. LastOf(q) \in Nat
    BY <1>1, <1>3, <1>5
  <2> QED
    BY <1>1, <1>3, <1>4, <2>1, <2>2
<1>11. ASSUME NEW e \in Chains, NEW s \in Sources, NEW m, Occurs(m, history[e][s])
       PROVE  Occurs(m, history'[e][s])
  <2>1. CASE e = d /\ s = t
    <3>1. Occurs(m, q)
      BY <1>11, <2>1 DEF q
    <3> QED
      BY <1>6, <1>7, <2>1, <3>1
  <2>2. CASE ~ (e = d /\ s = t)
    BY <1>7, <1>11, <2>2
  <2> QED
    BY <2>1, <2>2
<1> QED
  BY <1>8, <1>9, <1>10, <1>11 DEF t, q, n

-----------------------------------------------------------------------------
(* One network for each update.                                            *)

\* No other step touches the history or the replay records.
LEMMA StutterKeepsSync ==
  ASSUME SyncInv, UNCHANGED <<copyVars, replayVars>>
  PROVE  InOrder' /\ OneNetwork'
<1>1. UNCHANGED <<nonces, history, consumed, usedCircle>>
  BY DEF copyVars, replayVars
<1>2. InOrder'
  BY <1>1 DEF SyncInv, InOrder, Increasing, LastOf
<1>3. OneNetwork'
  BY <1>1 DEF SyncInv, OneNetwork, Happened, Occurs
<1> QED
  BY <1>2, <1>3

\* What happened on a chain has still happened after an update was applied.
LEMMA StillHappened ==
  ASSUME SyncInv, NEW d \in Chains, NEW update \in Applicable, NEW source \in Chains,
         ApplyPayablePayloadUpdate(d, update, source)
  PROVE  \A e \in Chains : \A u \in consumed[e] \cup usedCircle[e] :
           u \in broadcasts /\ Happened(e, u) /\ Happened(e, u)'
<1> SUFFICES ASSUME NEW e \in Chains, NEW u \in consumed[e] \cup usedCircle[e]
             PROVE  u \in broadcasts /\ Happened(e, u) /\ Happened(e, u)'
  OBVIOUS
<1>1. u \in broadcasts /\ TypeOK
  BY DEF SyncInv, TypeOK
<1>2. <<u.payable, HomeOf[u.payable]>> \in Sources
  BY <1>1, BroadcastFields, ApplicableFields DEF Sources
<1>3. Happened(e, u)
  BY DEF SyncInv, OneNetwork
<1>4. Occurs(u.nonce, history'[e][<<u.payable, HomeOf[u.payable]>>])
  BY <1>2, <1>3, ApplyInOrder DEF Happened
<1>5. Happened(e, u)'
  BY <1>4 DEF Happened, Occurs
<1> QED
  BY <1>1, <1>3, <1>5

\* An update that is applied now was brought by neither network before.
LEMMA AppliedFirst ==
  ASSUME SyncInv, NEW d \in Chains, NEW update \in broadcasts,
         ApplyPayablePayloadUpdate(d, update, HomeOf[update.payable])
  PROVE  update \notin consumed[d] \cup usedCircle[d] /\ Happened(d, update)'
<1>1. update \in Applicable /\ HomeOf[update.payable] \in Chains
  BY BroadcastFields DEF SyncInv
<1>2. /\ ~ Occurs(update.nonce, history[d][<<update.payable, HomeOf[update.payable]>>])
      /\ Occurs(update.nonce, history'[d][<<update.payable, HomeOf[update.payable]>>])
  BY <1>1, ApplyInOrder
<1>3. update \notin consumed[d] \cup usedCircle[d]
  BY <1>1, <1>2, StillHappened DEF Happened
<1>4. Happened(d, update)'
  BY <1>2 DEF Happened, Occurs
<1> QED
  BY <1>3, <1>4

LEMMA HandleKeepsSync ==
  ASSUME SyncInv, NEW d \in Chains, NEW update \in broadcasts, HandleReceiveMessage(d, update)
  PROVE  InOrder' /\ OneNetwork'
<1>1. ApplyPayablePayloadUpdate(d, update, HomeOf[update.payable])
  BY DEF HandleReceiveMessage
<1>2. update \in Applicable /\ HomeOf[update.payable] \in Chains
  BY BroadcastFields DEF SyncInv
<1>3. /\ consumed' = consumed
      /\ \A e \in Chains : usedCircle'[e] = IF e = d THEN usedCircle[e] \cup {update} ELSE usedCircle[e]
  BY DEF HandleReceiveMessage, SyncInv, TypeOK
<1>4. /\ InOrder'
      /\ \A e \in Chains : \A u \in consumed[e] \cup usedCircle[e] : Happened(e, u)'
  BY <1>1, <1>2, ApplyInOrder, StillHappened
<1>5. update \notin consumed[d] /\ Happened(d, update)'
  BY <1>1, AppliedFirst
<1>6. ASSUME NEW e \in Chains
      PROVE  /\ consumed'[e] \cap usedCircle'[e] = {}
             /\ \A u \in consumed'[e] \cup usedCircle'[e] : Happened(e, u)'
  <2>1. consumed[e] \cap usedCircle[e] = {}
    BY DEF SyncInv, OneNetwork
  <2> QED
    BY <1>3, <1>4, <1>5, <2>1
<1>7. OneNetwork'
  BY <1>6 DEF OneNetwork, Happened, Occurs
<1> QED
  BY <1>4, <1>7

LEMMA WormholeKeepsSync ==
  ASSUME SyncInv, NEW d \in Chains, NEW update \in broadcasts,
         ReceivePayableUpdateViaWormhole(d, update)
  PROVE  InOrder' /\ OneNetwork'
<1>1. ApplyPayablePayloadUpdate(d, update, HomeOf[update.payable])
  BY DEF ReceivePayableUpdateViaWormhole
<1>2. update \in Applicable /\ HomeOf[update.payable] \in Chains
  BY BroadcastFields DEF SyncInv
<1>3. /\ usedCircle' = usedCircle
      /\ \A e \in Chains : consumed'[e] = IF e = d THEN consumed[e] \cup {update} ELSE consumed[e]
  BY DEF ReceivePayableUpdateViaWormhole, SyncInv, TypeOK
<1>4. /\ InOrder'
      /\ \A e \in Chains : \A u \in consumed[e] \cup usedCircle[e] : Happened(e, u)'
  BY <1>1, <1>2, ApplyInOrder, StillHappened
<1>5. update \notin usedCircle[d] /\ Happened(d, update)'
  BY <1>1, AppliedFirst
<1>6. ASSUME NEW e \in Chains
      PROVE  /\ consumed'[e] \cap usedCircle'[e] = {}
             /\ \A u \in consumed'[e] \cup usedCircle'[e] : Happened(e, u)'
  <2>1. consumed[e] \cap usedCircle[e] = {}
    BY DEF SyncInv, OneNetwork
  <2> QED
    BY <1>3, <1>4, <1>5, <2>1
<1>7. OneNetwork'
  BY <1>6 DEF OneNetwork, Happened, Occurs
<1> QED
  BY <1>4, <1>7

LEMMA AdminKeepsSync ==
  ASSUME SyncInv, NEW d \in Chains, NEW sync \in Snapshots, AdminSyncForeignPayable(d, sync)
  PROVE  InOrder' /\ OneNetwork'
<1>1. sync \in Applicable /\ sync.chain \in Chains
  BY SnapshotsAssumption DEF AdminSyncs, Applicable
<1>2. /\ ApplyPayablePayloadUpdate(d, sync, sync.chain)
      /\ consumed' = consumed /\ usedCircle' = usedCircle
  BY DEF AdminSyncForeignPayable, replayVars
<1>3. /\ InOrder'
      /\ \A e \in Chains : \A u \in consumed[e] \cup usedCircle[e] : Happened(e, u)'
  BY <1>1, <1>2, ApplyInOrder, StillHappened
<1>4. OneNetwork'
  BY <1>2, <1>3 DEF SyncInv, OneNetwork, Happened, Occurs
<1> QED
  BY <1>3, <1>4

LEMMA RelayKeepsSync ==
  ASSUME SyncInv, NEW d \in Chains, RelayCalls(d)
  PROVE  InOrder' /\ OneNetwork'
<1>1. vaas \subseteq broadcasts /\ \A message \in circleMessages : message.update \in broadcasts
  BY DEF SyncInv, TypeOK
<1>2. CASE \E update \in vaas : ReceivePayableUpdateViaWormhole(d, update)
  BY <1>1, <1>2, WormholeKeepsSync
<1>3. CASE \E message \in circleMessages : RelayCircleMessage(d, message.update)
  BY <1>1, <1>3, HandleKeepsSync DEF RelayCircleMessage
<1>4. CASE \E message \in circleMessages : ReceivePayableUpdateViaCircle(d, message.update)
  BY <1>4, StutterKeepsSync DEF ReceivePayableUpdateViaCircle
<1>5. CASE CircleCallsBack(d)
  <2>1. frame[d] \in broadcasts
    BY <1>5 DEF CircleCallsBack, SyncInv, TypeOK
  <2> QED
    BY <1>5, <2>1, HandleKeepsSync, StutterKeepsSync DEF CircleCallsBack
<1>6. CASE \E sync \in Snapshots : AdminSyncForeignPayable(d, sync)
  BY <1>6, AdminKeepsSync
<1> QED
  BY <1>2, <1>3, <1>4, <1>5, <1>6 DEF RelayCalls

\* A host's call broadcasts, but applies nothing.
LEMMA HostLeavesCopies ==
  ASSUME NEW p \in Payables, HostCalls(p)
  PROVE  UNCHANGED <<copyVars, replayVars>>
BY DEF HostCalls, CreatePayable, ClosePayable, ReopenPayable, PublishPayableDetails,
       UpdatePayableAllowedTokensAndAmounts, ChangeAtHome

LEMMA NextSyncInv == SyncInv /\ [Next]_vars => SyncInv'
<1> SUFFICES ASSUME SyncInv, [Next]_vars PROVE InOrder' /\ OneNetwork'
  BY NextTypeOK DEF SyncInv
<1>1. CASE UNCHANGED vars
  BY <1>1, StutterKeepsSync DEF vars
<1>2. ASSUME NEW c \in Chains, OwnerCalls(c) \/ RelayCalls(c) PROVE InOrder' /\ OneNetwork'
  BY <1>2, OwnerLeavesSync, RelayKeepsSync, StutterKeepsSync
<1>3. ASSUME NEW p \in Payables, HostCalls(p) PROVE InOrder' /\ OneNetwork'
  BY <1>3, HostLeavesCopies, StutterKeepsSync
<1> QED
  BY <1>1, <1>2, <1>3 DEF Next

LEMMA SyncInvHolds == Spec => []SyncInv
<1>1. Init => SyncInv
  BY InitSyncInv
<1>2. SyncInv /\ [Next]_vars => SyncInv'
  BY NextSyncInv
<1> QED
  BY <1>1, <1>2, PTL DEF Spec

\* Updates are applied in the order of their nonces, none twice, whichever of
\* Wormhole, Circle and the admin brings them (payableUpdateNonces).
THEOREM UpdatesAppliedOnceInOrder == Spec => []AppliedOnceInOrder
<1>1. SyncInv => AppliedOnceInOrder
  BY InOrderIsAppliedOnceInOrder DEF SyncInv
<1> QED
  BY <1>1, SyncInvHolds, PTL

\* What both networks carry takes effect through one of them only, and a
\* message is used up at a network only if it took effect
\* (CbPayables.receivePayableUpdateViaWormhole, handleReceiveMessage).
THEOREM OneProtocolAppliesEachUpdate == Spec => []OneProtocolPerUpdate
<1>1. SyncInv => OneProtocolPerUpdate
  BY OneNetworkIsOneProtocol DEF SyncInv
<1> QED
  BY <1>1, SyncInvHolds, PTL

-----------------------------------------------------------------------------
(* Copies, where no admin writes any: what is applied was broadcast.       *)

NoAdmin == Snapshots = {}

AtHome(p) == <<p, HomeOf[p]>>

\* What a relay applies was broadcast by the payable's home.
LEMMA RelayApplies ==
  ASSUME NoAdmin, TypeOK, NEW d \in Chains, RelayCalls(d)
  PROVE  \/ UNCHANGED copyVars
         \/ \E update \in broadcasts :
              ApplyPayablePayloadUpdate(d, update, HomeOf[update.payable])
<1>1. vaas \subseteq broadcasts /\ \A message \in circleMessages : message.update \in broadcasts
  BY DEF TypeOK
<1>2. CASE \E update \in vaas : ReceivePayableUpdateViaWormhole(d, update)
  BY <1>1, <1>2 DEF ReceivePayableUpdateViaWormhole
<1>3. CASE \E message \in circleMessages : RelayCircleMessage(d, message.update)
  BY <1>1, <1>3 DEF RelayCircleMessage, HandleReceiveMessage
<1>4. CASE \E message \in circleMessages : ReceivePayableUpdateViaCircle(d, message.update)
  BY <1>4 DEF ReceivePayableUpdateViaCircle
<1>5. CASE CircleCallsBack(d)
  <2>1. frame[d] \in broadcasts
    BY <1>5 DEF CircleCallsBack, TypeOK
  <2> QED
    BY <1>5, <2>1 DEF CircleCallsBack, HandleReceiveMessage
<1>6. CASE \E sync \in Snapshots : AdminSyncForeignPayable(d, sync)
  BY <1>6 DEF NoAdmin
<1> QED
  BY <1>2, <1>3, <1>4, <1>5, <1>6 DEF RelayCalls

\* The parts of an application, at every chain and payable.
LEMMA AppliedHere ==
  ASSUME TypeOK, NEW d \in Chains, NEW w \in broadcasts,
         ApplyPayablePayloadUpdate(d, w, HomeOf[w.payable])
  PROVE  /\ w.payable \in Payables /\ w.nonce \in Nat
         /\ w.nonce > nonces[d][AtHome(w.payable)]
         /\ foreignPayables'[d][w.payable] =
              ApplyPayload(foreignPayables[d][w.payable], w, HomeOf[w.payable])
         /\ nonces'[d][AtHome(w.payable)] = w.nonce
         /\ history'[d][AtHome(w.payable)] =
              Append(history[d][AtHome(w.payable)], w.nonce)
         /\ foreignPayablesCount'[d] =
              CountForeign(foreignPayablesCount[d], foreignPayables[d][w.payable])
<1>1. /\ w.payable \in Payables /\ w.nonce \in Nat
      /\ AtHome(w.payable) \in Sources
  BY BroadcastFields, HomeAssumption DEF Updates, Sources, AtHome
<1> DEFINE p == w.payable
           s == AtHome(p)
           copy == ApplyPayload(foreignPayables[d][p], w, HomeOf[p])
           more == Append(history[d][s], w.nonce)
           count == CountForeign(foreignPayablesCount[d], foreignPayables[d][p])
<1>2. /\ nonces' = [nonces EXCEPT ![d] = [nonces[d] EXCEPT ![s] = w.nonce]]
      /\ foreignPayables' =
           [foreignPayables EXCEPT ![d] = [foreignPayables[d] EXCEPT ![p] = copy]]
      /\ foreignPayablesCount' = [foreignPayablesCount EXCEPT ![d] = count]
      /\ history' = [history EXCEPT ![d] = [history[d] EXCEPT ![s] = more]]
      /\ w.nonce > nonces[d][s]
  BY DEF ApplyPayablePayloadUpdate, Fresh, IsNewer, AtHome
<1> HIDE DEF p, s, copy, more, count
<1>3. p \in Payables /\ s \in Sources
  BY <1>1 DEF p, s
<1>4. /\ nonces'[d][s] = w.nonce /\ foreignPayables'[d][p] = copy
      /\ foreignPayablesCount'[d] = count /\ history'[d][s] = more
  BY <1>2, <1>3 DEF TypeOK
<1> QED
  BY <1>1, <1>2, <1>4 DEF p, s, copy, more, count

LEMMA AppliedElsewhere ==
  ASSUME TypeOK, NEW d \in Chains, NEW w \in broadcasts,
         ApplyPayablePayloadUpdate(d, w, HomeOf[w.payable]),
         NEW e \in Chains, NEW q \in Payables, e # d \/ q # w.payable
  PROVE  /\ foreignPayables'[e][q] = foreignPayables[e][q]
         /\ nonces'[e][AtHome(q)] = nonces[e][AtHome(q)]
         /\ history'[e][AtHome(q)] = history[e][AtHome(q)]
<1>1. w.payable \in Payables /\ AtHome(w.payable) \in Sources /\ AtHome(q) \in Sources
  BY BroadcastFields, HomeAssumption DEF Updates, Sources, AtHome
<1> DEFINE p == w.payable
           s == AtHome(p)
           t == AtHome(q)
           copy == ApplyPayload(foreignPayables[d][p], w, HomeOf[p])
           more == Append(history[d][s], w.nonce)
<1>2. /\ nonces' = [nonces EXCEPT ![d] = [nonces[d] EXCEPT ![s] = w.nonce]]
      /\ foreignPayables' =
           [foreignPayables EXCEPT ![d] = [foreignPayables[d] EXCEPT ![p] = copy]]
      /\ history' = [history EXCEPT ![d] = [history[d] EXCEPT ![s] = more]]
  BY DEF ApplyPayablePayloadUpdate, AtHome
<1>3. e # d \/ (q # p /\ t # s)
  BY DEF AtHome
<1> HIDE DEF p, s, t, copy, more
<1>4. p \in Payables /\ s \in Sources /\ t \in Sources
  BY <1>1 DEF p, s, t
<1>5. /\ nonces'[e][t] = nonces[e][t] /\ foreignPayables'[e][q] = foreignPayables[e][q]
      /\ history'[e][t] = history[e][t]
  BY <1>2, <1>3, <1>4 DEF TypeOK
<1> QED
  BY <1>5 DEF t

LEMMA CountsElsewhere ==
  ASSUME TypeOK, NEW d \in Chains, NEW w \in broadcasts,
         ApplyPayablePayloadUpdate(d, w, HomeOf[w.payable]),
         NEW e \in Chains, e # d
  PROVE  /\ foreignPayables'[e] = foreignPayables[e]
         /\ foreignPayablesCount'[e] = foreignPayablesCount[e]
BY DEF ApplyPayablePayloadUpdate, TypeOK

-----------------------------------------------------------------------------
(* Copies name their home. *)

KnownAt(d) == {p \in Payables : foreignPayables[d][p].chainId # NoChain}

CopiesCounted ==
  \A d \in Chains :
    /\ IsFiniteSet(KnownAt(d)) /\ foreignPayablesCount[d] = Cardinality(KnownAt(d))
    /\ \A p \in Payables :
         /\ p \in KnownAt(d) <=> nonces[d][AtHome(p)] > 0
         /\ p \in KnownAt(d) => foreignPayables[d][p].chainId = HomeOf[p]
         /\ nonces[d][AtHome(p)] <= updateCounter[HomeOf[p]]

LEMMA CountedNameHome == CopiesCounted => CopiesNameTheirHome
BY DEF CopiesCounted, CopiesNameTheirHome, KnownAt, AtHome

LEMMA InitCounted == Init => CopiesCounted
<1> SUFFICES ASSUME Init, NEW d \in Chains
             PROVE  /\ IsFiniteSet(KnownAt(d)) /\ foreignPayablesCount[d] = Cardinality(KnownAt(d))
                    /\ \A p \in Payables :
                         /\ p \in KnownAt(d) <=> nonces[d][AtHome(p)] > 0
                         /\ p \in KnownAt(d) => foreignPayables[d][p].chainId = HomeOf[p]
                         /\ nonces[d][AtHome(p)] <= updateCounter[HomeOf[p]]
  BY DEF CopiesCounted
<1>1. KnownAt(d) = {}
  BY DEF Init, KnownAt, NoCopy
<1>2. IsFiniteSet({}) /\ Cardinality({}) = 0
  BY FS_EmptySet
<1>3. foreignPayablesCount[d] = 0
  BY DEF Init
<1>4. \A p \in Payables : nonces[d][AtHome(p)] = 0 /\ updateCounter[HomeOf[p]] = 0
  BY HomeAssumption DEF Init, AtHome, Sources
<1> QED
  BY <1>1, <1>2, <1>3, <1>4

\* Where the copies stay and counters only grow.
LEMMA CountedKept ==
  ASSUME TypeOK, TypeOK', CopiesCounted, UNCHANGED copyVars,
         \A c \in Chains : updateCounter[c] <= updateCounter'[c]
  PROVE  CopiesCounted'
<1> SUFFICES ASSUME NEW d \in Chains
             PROVE  /\ IsFiniteSet(KnownAt(d)) /\ foreignPayablesCount[d] = Cardinality(KnownAt(d))
                    /\ \A p \in Payables :
                         /\ p \in KnownAt(d) <=> nonces[d][AtHome(p)] > 0
                         /\ p \in KnownAt(d) => foreignPayables[d][p].chainId = HomeOf[p]
                         /\ nonces[d][AtHome(p)] <= updateCounter'[HomeOf[p]]
  BY DEF CopiesCounted, copyVars, KnownAt
<1>1. \A p \in Payables :
        /\ HomeOf[p] \in Chains /\ AtHome(p) \in Sources
        /\ nonces[d][AtHome(p)] \in Nat
        /\ updateCounter[HomeOf[p]] \in Nat /\ updateCounter'[HomeOf[p]] \in Nat
  BY HomeAssumption DEF TypeOK, AtHome, Sources
<1> QED
  BY <1>1 DEF CopiesCounted

\* An application makes its payable known, if it was not.
LEMMA CountedApplied ==
  ASSUME HomeInv, CopiesCounted, NEW d \in Chains, NEW w \in broadcasts,
         ApplyPayablePayloadUpdate(d, w, HomeOf[w.payable]), UNCHANGED updateCounter
  PROVE  CopiesCounted'
<1> DEFINE p == w.payable
           home == HomeOf[p]
           copy == foreignPayables[d][p]
           known == KnownAt(d)
<1>1. TypeOK /\ p \in Payables /\ home \in Chains /\ w.nonce \in Nat
      /\ w.nonce <= updateCounter[home]
  BY AppliedHere, HomeAssumption DEF HomeInv, NoncesCounted
<1>2. /\ IsFiniteSet(known) /\ foreignPayablesCount[d] = Cardinality(known)
      /\ p \in known <=> copy.chainId # NoChain
      /\ p \in known => copy.chainId = home
  BY <1>1 DEF CopiesCounted, KnownAt
<1>3. foreignPayables'[d][p].chainId = home
  <2>1. foreignPayables'[d][p].chainId = IF copy.chainId = NoChain THEN home ELSE copy.chainId
    <3>1. foreignPayables'[d][p] = ApplyPayload(copy, w, home)
      BY <1>1, AppliedHere
    <3> HIDE DEF copy, p, home
    <3> QED
      BY <3>1 DEF ApplyPayload
  <2> QED
    BY <1>2, <2>1
<1>4. KnownAt(d)' = known \cup {p}
  <2>1. ASSUME NEW q \in Payables, q # p PROVE foreignPayables'[d][q] = foreignPayables[d][q]
    BY <1>1, <2>1, AppliedElsewhere
  <2>2. home # NoChain
    BY <1>1, ChainsAssumption
  <2> QED
    BY <1>1, <1>3, <2>1, <2>2 DEF KnownAt
<1>5. /\ IsFiniteSet(known \cup {p})
      /\ Cardinality(known \cup {p}) = IF p \in known THEN Cardinality(known) ELSE Cardinality(known) + 1
  BY <1>2, FS_AddElement
<1>6. foreignPayablesCount'[d] = Cardinality(known \cup {p})
  <2>1. foreignPayablesCount'[d] = CountForeign(foreignPayablesCount[d], copy)
    BY <1>1, AppliedHere
  <2>2. p \in known <=> copy.chainId # NoChain
    BY <1>2
  <2>3. foreignPayablesCount'[d] =
          IF copy.chainId = NoChain THEN foreignPayablesCount[d] + 1 ELSE foreignPayablesCount[d]
    BY <2>1 DEF CountForeign
  <2>4. foreignPayablesCount[d] = Cardinality(known)
    BY <1>2
  <2> HIDE DEF copy, known, p
  <2> QED
    BY <1>5, <2>2, <2>3, <2>4
<1>7. ASSUME NEW e \in Chains, NEW q \in Payables
      PROVE  /\ q \in KnownAt(e)' <=> nonces'[e][AtHome(q)] > 0
             /\ q \in KnownAt(e)' => foreignPayables'[e][q].chainId = HomeOf[q]
             /\ nonces'[e][AtHome(q)] <= updateCounter[HomeOf[q]]
  <2>1. CASE e = d /\ q = p
    <3>1. nonces'[d][AtHome(p)] = w.nonce /\ w.nonce > nonces[d][AtHome(p)]
      BY <1>1, AppliedHere
    <3>2. nonces[d][AtHome(p)] \in Nat
      BY <1>1, HomeAssumption DEF TypeOK, AtHome, Sources
    <3>3. w.nonce > 0
      BY <1>1, <3>1, <3>2
    <3> HIDE DEF p, home, known
    <3> QED
      BY <1>1, <1>3, <1>4, <2>1, <3>1, <3>3 DEF home
  <2>2. CASE e # d \/ q # p
    <3>1. /\ foreignPayables'[e][q] = foreignPayables[e][q]
          /\ nonces'[e][AtHome(q)] = nonces[e][AtHome(q)]
      BY <1>1, <2>2, AppliedElsewhere
    <3>2. q \in KnownAt(e)' <=> q \in KnownAt(e)
      BY <3>1 DEF KnownAt
    <3> QED
      BY <3>1, <3>2 DEF CopiesCounted
  <2> QED
    BY <2>1, <2>2
<1>8. ASSUME NEW e \in Chains
      PROVE  /\ IsFiniteSet(KnownAt(e)') /\ foreignPayablesCount'[e] = Cardinality(KnownAt(e)')
  <2>1. CASE e = d
    BY <1>4, <1>5, <1>6, <2>1
  <2>2. CASE e # d
    <3>1. KnownAt(e)' = KnownAt(e) /\ foreignPayablesCount'[e] = foreignPayablesCount[e]
      BY <1>1, <2>2, CountsElsewhere DEF KnownAt
    <3> QED
      BY <3>1 DEF CopiesCounted
  <2> QED
    BY <2>1, <2>2
<1> QED
  BY <1>7, <1>8 DEF CopiesCounted, KnownAt

LEMMA HomeCounts ==
  ASSUME TypeOK, NEW p \in Payables, NEW actionType \in 1..4, NEW record \in HomeRecords,
         ChangeAtHome(p, actionType, record)
  PROVE  \A c \in Chains : updateCounter[c] <= updateCounter'[c]
<1>1. updateCounter' = [updateCounter EXCEPT ![HomeOf[p]] = updateCounter[HomeOf[p]] + 1]
  BY DEF ChangeAtHome, BroadcastPayableUpdate, NextNonce
<1> QED
  BY <1>1 DEF TypeOK

-----------------------------------------------------------------------------
(* What a home broadcasts.  Two consecutive updates of a payable differ in *)
(* what the second carries, the first is its creation, the last is what    *)
(* the payable is.                                                         *)

\* What a host's call makes of a record.
HostChange(p, actionType, record) ==
  /\ record.exists
  /\ IF payables[p].exists
     THEN /\ actionType \notin CarriesClosed => record.isClosed = payables[p].isClosed
          /\ actionType \notin CarriesAllowed => record.allowed = payables[p].allowed
     ELSE actionType = Create /\ ~ record.isClosed

LEMMA HostChanges ==
  ASSUME TypeOK, NEW p \in Payables, HostCalls(p)
  PROVE  \E actionType \in 1..4, record \in HomeRecords :
           ChangeAtHome(p, actionType, record) /\ HostChange(p, actionType, record)
<1>1. payables[p] \in HomeRecords
  BY DEF TypeOK
<1>2. ASSUME NEW list \in AllowedLists
      PROVE  /\ [exists |-> TRUE, isClosed |-> FALSE, allowed |-> list] \in HomeRecords
             /\ [payables[p] EXCEPT !.allowed = list] \in HomeRecords
  BY <1>1 DEF HomeRecords
<1>3. /\ [payables[p] EXCEPT !.isClosed = TRUE] \in HomeRecords
      /\ [payables[p] EXCEPT !.isClosed = FALSE] \in HomeRecords
  BY <1>1 DEF HomeRecords
<1>4. /\ Create \in 1..4 /\ Close \in 1..4 /\ Reopen \in 1..4 /\ UpdateAllowed \in 1..4
      /\ Create \notin CarriesClosed /\ Create \in CarriesAllowed
      /\ UpdateAllowed \notin CarriesClosed /\ UpdateAllowed \in CarriesAllowed
      /\ Close \in CarriesClosed /\ Reopen \in CarriesClosed
  BY DEF Create, Close, Reopen, UpdateAllowed, CarriesClosed, CarriesAllowed
<1>5. ASSUME NEW list \in AllowedLists, CreatePayable(p, list)
      PROVE  \E actionType \in 1..4, record \in HomeRecords :
               ChangeAtHome(p, actionType, record) /\ HostChange(p, actionType, record)
  <2> DEFINE r == [exists |-> TRUE, isClosed |-> FALSE, allowed |-> list]
  <2>1. HostChange(p, Create, r)
    BY <1>5 DEF CreatePayable, HostChange
  <2> QED
    BY <1>2, <1>4, <1>5, <2>1 DEF CreatePayable
<1>6. ASSUME NEW list \in AllowedLists, UpdatePayableAllowedTokensAndAmounts(p, list)
      PROVE  \E actionType \in 1..4, record \in HomeRecords :
               ChangeAtHome(p, actionType, record) /\ HostChange(p, actionType, record)
  <2> DEFINE r == [payables[p] EXCEPT !.allowed = list]
  <2>1. payables[p].exists /\ ChangeAtHome(p, UpdateAllowed, r)
    BY <1>6 DEF UpdatePayableAllowedTokensAndAmounts
  <2>2. r.exists = payables[p].exists /\ r.isClosed = payables[p].isClosed
    BY <1>1 DEF HomeRecords
  <2>3. HostChange(p, UpdateAllowed, r)
    BY <1>4, <2>1, <2>2 DEF HostChange
  <2> QED
    BY <1>2, <1>4, <2>1, <2>3
<1>7. ASSUME NEW b \in BOOLEAN, NEW actionType \in {Close, Reopen}, payables[p].exists,
             ChangeAtHome(p, actionType, [payables[p] EXCEPT !.isClosed = b])
      PROVE  \E type \in 1..4, record \in HomeRecords :
               ChangeAtHome(p, type, record) /\ HostChange(p, type, record)
  <2> DEFINE r == [payables[p] EXCEPT !.isClosed = b]
  <2>1. r.exists = payables[p].exists /\ r.allowed = payables[p].allowed /\ r \in HomeRecords
    BY <1>1 DEF HomeRecords
  <2>2. HostChange(p, actionType, r)
    BY <1>4, <1>7, <2>1 DEF HostChange
  <2>3. actionType \in 1..4
    BY <1>4
  <2> QED
    BY <1>7, <2>1, <2>2, <2>3
<1>8. CASE ClosePayable(p)
  BY <1>7, <1>8 DEF ClosePayable
<1>9. CASE ReopenPayable(p)
  BY <1>7, <1>9 DEF ReopenPayable
<1>10. CASE PublishPayableDetails(p)
  <2>1. HostChange(p, Create, payables[p])
    BY <1>4, <1>10 DEF PublishPayableDetails, HostChange
  <2> QED
    BY <1>1, <1>4, <1>10, <2>1 DEF PublishPayableDetails
<1> QED
  BY <1>5, <1>6, <1>8, <1>9, <1>10 DEF HostCalls

\* What an update says of the record it was sent about.
Says(u) ==
  /\ u.actionType \in CarriesClosed => u.isClosed = u.of.isClosed
  /\ u.actionType \in CarriesAllowed => u.allowed = u.of.allowed

LEMMA PayloadSays ==
  ASSUME TypeOK, NEW p \in Payables, NEW actionType \in 1..4, NEW record \in HomeRecords
  PROVE  LET u == Payload(p, actionType, record) IN
         /\ u.payable = p /\ u.actionType = actionType /\ u.of = record
         /\ u.nonce = updateCounter[HomeOf[p]] + 1
         /\ Says(u)
<1>1. HomeOf[p] \in Chains /\ updateCounter[HomeOf[p]] \in Nat
  BY HomeAssumption DEF TypeOK
<1>2. record.isClosed \in BOOLEAN
  BY DEF HomeRecords
<1> DEFINE whole == [payable |-> p, nonce |-> NextNonce(HomeOf[p]), actionType |-> actionType,
                     isClosed |-> record.isClosed, allowed |-> record.allowed, of |-> record]
           sent == [whole EXCEPT
                      !.allowed = IF whole.actionType \in CarriesAllowed THEN whole.allowed ELSE AnyPayment,
                      !.isClosed = whole.actionType \in CarriesClosed /\ whole.isClosed]
           list == IF actionType \in CarriesAllowed THEN record.allowed ELSE AnyPayment
           closed == actionType \in CarriesClosed /\ record.isClosed
<1>3. Payload(p, actionType, record) = sent
  BY DEF Payload, Encode
<1>4. sent = [payable |-> p, nonce |-> NextNonce(HomeOf[p]), actionType |-> actionType,
              isClosed |-> closed, allowed |-> list, of |-> record]
  <2>1. /\ whole.actionType = actionType /\ whole.allowed = record.allowed
        /\ whole.isClosed = record.isClosed
    OBVIOUS
  <2>2. sent = [whole EXCEPT !.allowed = list, !.isClosed = closed]
    BY <2>1
  <2> HIDE DEF sent, list, closed
  <2> QED
    BY <2>2
<1>5. sent.isClosed = closed /\ sent.allowed = list
  BY <1>4
<1>6. sent.payable = p /\ sent.actionType = actionType /\ sent.of = record
  BY <1>4
<1>7. sent.nonce = updateCounter[HomeOf[p]] + 1
  BY <1>4 DEF NextNonce
<1>8. actionType \in CarriesAllowed => list = record.allowed
  OBVIOUS
<1>9. actionType \in CarriesClosed => closed = record.isClosed
  BY <1>2
<1> HIDE DEF sent, closed, list
<1>10. Says(sent)
  BY <1>5, <1>6, <1>8, <1>9 DEF Says
<1> QED
  BY <1>3, <1>6, <1>7, <1>10

Before(u, w) == u.payable = w.payable /\ u.nonce < w.nonce

\* Of the updates sent of a payable whose record is now as given.
Told(sent, records) ==
  /\ \A p \in Payables : records[p].exists <=> \E u \in sent : u.payable = p
  /\ \A u \in sent :
       /\ u.payable \in Payables /\ u.nonce \in Nat \ {0} /\ Says(u)
       /\ (\A w \in sent : ~ Before(u, w)) => u.of = records[u.payable]
       /\ (\A w \in sent : ~ Before(w, u)) => u.actionType = Create /\ ~ u.of.isClosed
  /\ \A u, w \in sent :
       Before(u, w) /\ (\A x \in sent : ~ (Before(u, x) /\ Before(x, w))) =>
         /\ w.actionType \notin CarriesClosed => w.of.isClosed = u.of.isClosed
         /\ w.actionType \notin CarriesAllowed => w.of.allowed = u.of.allowed

\* One more update, later than those of its payable.
LEMMA TellOneMore ==
  ASSUME NEW sent, NEW records \in [Payables -> HomeRecords], Told(sent, records),
         NEW p \in Payables, NEW new, new.payable = p, new.nonce \in Nat \ {0}, Says(new),
         \A u \in sent : u.payable = p => u.nonce < new.nonce,
         new.of.exists,
         IF records[p].exists
         THEN /\ new.actionType \notin CarriesClosed => new.of.isClosed = records[p].isClosed
              /\ new.actionType \notin CarriesAllowed => new.of.allowed = records[p].allowed
         ELSE new.actionType = Create /\ ~ new.of.isClosed
  PROVE  Told(sent \cup {new}, [records EXCEPT ![p] = new.of])
<1> DEFINE more == sent \cup {new}
           after == [records EXCEPT ![p] = new.of]
<1>1. /\ \A q \in Payables : after[q] = IF q = p THEN new.of ELSE records[q]
      /\ \A u \in sent : u.payable \in Payables /\ u.nonce \in Nat \ {0} /\ Says(u)
  BY DEF Told
<1> HIDE DEF after
<1>2. \A q \in Payables : after[q].exists <=> \E u \in more : u.payable = q
  <2> SUFFICES ASSUME NEW q \in Payables
               PROVE  after[q].exists <=> \E u \in more : u.payable = q
    OBVIOUS
  <2>1. CASE q = p
    BY <1>1, <2>1
  <2>2. CASE q # p
    <3>1. after[q].exists <=> \E u \in sent : u.payable = q
      BY <1>1, <2>2 DEF Told
    <3> QED
      BY <2>2, <3>1
  <2> QED
    BY <2>1, <2>2
<1>3. ASSUME NEW u \in sent
      PROVE  ~ Before(new, u) /\ (u.payable = p => Before(u, new))
  BY <1>1 DEF Before
<1>4. ~ Before(new, new)
  BY DEF Before
<1>5. ASSUME NEW u \in more
      PROVE  /\ u.payable \in Payables /\ u.nonce \in Nat \ {0} /\ Says(u)
             /\ (\A w \in more : ~ Before(u, w)) => u.of = after[u.payable]
             /\ (\A w \in more : ~ Before(w, u)) => u.actionType = Create /\ ~ u.of.isClosed
  <2>1. CASE u = new
    <3>1. u.of = after[u.payable]
      BY <1>1, <2>1
    <3>2. ASSUME \A w \in more : ~ Before(w, new)
          PROVE  new.actionType = Create /\ ~ new.of.isClosed
      <4>1. ~ records[p].exists
        BY <1>3, <3>2 DEF Told
      <4> QED
        BY <4>1
    <3> QED
      BY <2>1, <3>1, <3>2
  <2>2. CASE u \in sent
    <3>1. u.payable \in Payables /\ u.nonce \in Nat \ {0} /\ Says(u)
      BY <1>1, <2>2
    <3>2. ASSUME \A w \in more : ~ Before(u, w) PROVE u.of = after[u.payable]
      <4>1. u.payable # p
        BY <1>3, <2>2, <3>2
      <4>2. u.of = records[u.payable]
        BY <2>2, <3>2 DEF Told
      <4> QED
        BY <1>1, <3>1, <4>1, <4>2
    <3>3. ASSUME \A w \in more : ~ Before(w, u) PROVE u.actionType = Create /\ ~ u.of.isClosed
      BY <2>2, <3>3 DEF Told
    <3> QED
      BY <3>1, <3>2, <3>3
  <2> QED
    BY <2>1, <2>2
<1>6. ASSUME NEW u \in more, NEW w \in more, Before(u, w),
             \A x \in more : ~ (Before(u, x) /\ Before(x, w))
      PROVE  /\ w.actionType \notin CarriesClosed => w.of.isClosed = u.of.isClosed
             /\ w.actionType \notin CarriesAllowed => w.of.allowed = u.of.allowed
  <2>1. u \in sent
    BY <1>3, <1>4, <1>6
  <2>2. CASE w \in sent
    BY <1>6, <2>1, <2>2 DEF Told
  <2>3. CASE w = new
    <3>1. u.payable = p
      BY <1>6, <2>3 DEF Before
    <3>2. ASSUME NEW x \in sent PROVE ~ Before(u, x)
      <4>1. ASSUME Before(u, x) PROVE FALSE
        <5>1. x.payable = p
          BY <3>1, <4>1 DEF Before
        <5>2. Before(x, new)
          BY <1>3, <5>1
        <5> QED
          BY <1>6, <2>3, <4>1, <5>2
      <4> QED
        BY <4>1
    <3>3. u.of = records[p]
      BY <2>1, <3>1, <3>2 DEF Told
    <3>4. records[p].exists
      BY <2>1, <3>1 DEF Told
    <3> QED
      BY <2>3, <3>3, <3>4
  <2> QED
    BY <2>2, <2>3
<1> HIDE DEF more
<1>7. Told(more, after)
  BY <1>2, <1>5, <1>6 DEF Told
<1> QED
  BY <1>7 DEF more, after

-----------------------------------------------------------------------------
(* Copies that missed nothing are exact. *)

Complete(d, p, n) ==
  \A u \in broadcasts : u.payable = p /\ u.nonce <= n => Occurs(u.nonce, history[d][AtHome(p)])

Exact(d, p) ==
  LET n == nonces[d][AtHome(p)]
      copy == foreignPayables[d][p]
  IN
  /\ n = 0 => ~ copy.isClosed
  /\ n # 0 => \E v \in broadcasts : v.payable = p /\ v.nonce = n
  /\ \A v \in broadcasts :
       v.payable = p /\ v.nonce = n /\ Complete(d, p, n) =>
         copy.isClosed = v.of.isClosed /\ copy.allowed = v.of.allowed

CopiesExact == \A d \in Chains, p \in Payables : Exact(d, p)

CopyInv ==
  /\ HomeInv /\ SyncInv
  /\ CopiesCounted
  /\ Told(broadcasts, payables)
  /\ CopiesExact

LEMMA ExactInOrder == CopiesExact => InOrderCopyIsExact
<1> SUFFICES ASSUME CopiesExact, NEW d \in Chains, NEW p \in Payables, NEW v \in broadcasts,
                    v.payable = p, v.nonce = nonces[d][AtHome(p)],
                    \A u \in broadcasts :
                      u.payable = p /\ u.nonce <= v.nonce => u.nonce \in Applied(d, p)
             PROVE  /\ foreignPayables[d][p].isClosed = v.of.isClosed
                    /\ foreignPayables[d][p].allowed = v.of.allowed
  BY DEF InOrderCopyIsExact, AtHome
<1>1. ASSUME NEW n, n \in Applied(d, p) PROVE Occurs(n, history[d][AtHome(p)])
  BY <1>1 DEF Applied, Occurs, AtHome
<1>2. Complete(d, p, v.nonce)
  BY <1>1 DEF Complete
<1> QED
  BY <1>2 DEF CopiesExact, Exact

LEMMA InitCopies == Init => CopyInv
<1> SUFFICES ASSUME Init PROVE CopyInv
  OBVIOUS
<1>1. Told(broadcasts, payables)
  BY DEF Init, Told, NoHome
<1>2. ASSUME NEW d \in Chains, NEW p \in Payables PROVE Exact(d, p)
  <2>1. nonces[d][AtHome(p)] = 0 /\ ~ foreignPayables[d][p].isClosed /\ broadcasts = {}
    BY HomeAssumption DEF Init, AtHome, Sources, NoCopy
  <2> QED
    BY <2>1 DEF Exact
<1> QED
  BY <1>1, <1>2, InitHomeInv, InitSyncInv, InitCounted DEF CopyInv, CopiesExact

\* A call of a host.
LEMMA HostCopies ==
  ASSUME CopyInv, HomeInv', SyncInv', NEW p \in Payables, HostCalls(p)
  PROVE  CopyInv'
<1>1. TypeOK /\ TypeOK' /\ Told(broadcasts, payables) /\ payables \in [Payables -> HomeRecords]
  BY DEF CopyInv, HomeInv, TypeOK
<1>2. PICK actionType \in 1..4, record \in HomeRecords :
        ChangeAtHome(p, actionType, record) /\ HostChange(p, actionType, record)
  BY <1>1, HostChanges
<1> DEFINE c == HomeOf[p]
           new == Payload(p, actionType, record)
<1>3. /\ c \in Chains /\ updateCounter[c] \in Nat
      /\ new.payable = p /\ new.actionType = actionType /\ new.of = record
      /\ new.nonce = updateCounter[c] + 1 /\ Says(new)
  BY <1>1, PayloadSays, HomeAssumption DEF TypeOK
<1>4. /\ broadcasts' = broadcasts \cup {new}
      /\ payables' = [payables EXCEPT ![p] = record]
      /\ UNCHANGED copyVars
  BY <1>2 DEF ChangeAtHome, BroadcastPayableUpdate
<1> HIDE DEF new
<1>5. ASSUME NEW u \in broadcasts, u.payable = p PROVE u.nonce < new.nonce
  <2>1. u.nonce \in Nat /\ u.nonce <= updateCounter[c]
    BY <1>1, <1>5 DEF CopyInv, HomeInv, NoncesCounted, Told
  <2> QED
    BY <1>3, <2>1
<1>6. new.nonce \in Nat \ {0}
  BY <1>3
<1>7. Told(broadcasts', payables')
  BY <1>1, <1>2, <1>3, <1>4, <1>5, <1>6, TellOneMore DEF HostChange
<1>8. CopiesCounted'
  BY <1>1, <1>2, <1>4, HomeCounts, CountedKept DEF CopyInv
<1>9. ASSUME NEW d \in Chains, NEW q \in Payables PROVE Exact(d, q)'
  <2>1. nonces[d][AtHome(q)] \in Nat /\ nonces[d][AtHome(q)] <= updateCounter[HomeOf[q]]
    BY <1>1, HomeAssumption DEF CopyInv, CopiesCounted, TypeOK, AtHome, Sources
  <2>2. PICK n \in Nat : n = nonces[d][AtHome(q)] /\ n <= updateCounter[HomeOf[q]]
    BY <2>1
  <2> DEFINE copy == foreignPayables[d][q]
  <2>3. nonces'[d][AtHome(q)] = n /\ foreignPayables'[d][q] = copy /\ history' = history
    BY <1>4, <2>2 DEF copyVars
  <2>4. /\ n = 0 => ~ copy.isClosed
        /\ n # 0 => \E v \in broadcasts : v.payable = q /\ v.nonce = n
        /\ \A v \in broadcasts :
             v.payable = q /\ v.nonce = n /\ Complete(d, q, n) =>
               copy.isClosed = v.of.isClosed /\ copy.allowed = v.of.allowed
    BY <2>2 DEF CopyInv, CopiesExact, Exact
  <2> HIDE DEF copy
  <2>5. new.payable = q => new.nonce # n
    BY <1>3, <2>2
  <2>6. Complete(d, q, n)' => Complete(d, q, n)
    BY <1>4, <2>3 DEF Complete
  <2>7. \A v \in broadcasts' :
          v.payable = q /\ v.nonce = n /\ Complete(d, q, n)' =>
            copy.isClosed = v.of.isClosed /\ copy.allowed = v.of.allowed
    BY <1>4, <2>4, <2>5, <2>6
  <2>8. n # 0 => \E v \in broadcasts' : v.payable = q /\ v.nonce = n
    BY <1>4, <2>4
  <2> QED
    BY <2>4, <2>3, <2>7, <2>8 DEF Exact, Complete
<1> QED
  BY <1>7, <1>8, <1>9 DEF CopyInv, CopiesExact

\* What occurs after one more was appended.
LEMMA OccursAfter ==
  ASSUME NEW q \in Seq(Nat), NEW n \in Nat, NEW m, Occurs(m, Append(q, n))
  PROVE  m = n \/ Occurs(m, q)
<1> DEFINE r == Append(q, n)
           last == Len(q) + 1
<1>1. /\ DOMAIN r = 1..last /\ r[last] = n /\ DOMAIN q = 1..Len(q) /\ Len(q) \in Nat
      /\ \A i \in 1..Len(q) : r[i] = q[i]
  OBVIOUS
<1>2. PICK i \in DOMAIN r : r[i] = m
  BY DEF Occurs
<1>3. i \in 1..Len(q) \/ i = last
  BY <1>1, <1>2
<1> HIDE DEF r, last
<1>4. CASE i \in 1..Len(q)
  BY <1>1, <1>2, <1>4 DEF Occurs
<1>5. CASE i = last
  BY <1>1, <1>2, <1>5
<1> QED
  BY <1>3, <1>4, <1>5

\* The copy an update makes of one that was exact.
LEMMA ExactApplied ==
  ASSUME CopyInv, NEW d \in Chains, NEW w \in broadcasts,
         ApplyPayablePayloadUpdate(d, w, HomeOf[w.payable]),
         Complete(d, w.payable, w.nonce)', UNCHANGED homeVars
  PROVE  /\ foreignPayables'[d][w.payable].isClosed = w.of.isClosed
         /\ foreignPayables'[d][w.payable].allowed = w.of.allowed
<1> DEFINE p == w.payable
           q == history[d][AtHome(p)]
           n == nonces[d][AtHome(p)]
           copy == foreignPayables[d][p]
           after == foreignPayables'[d][p]
<1>1. /\ TypeOK /\ p \in Payables /\ w.nonce \in Nat /\ w.nonce > n
      /\ after = ApplyPayload(copy, w, HomeOf[p])
      /\ history'[d][AtHome(p)] = Append(q, w.nonce)
  BY AppliedHere DEF CopyInv, HomeInv
<1>2. AtHome(p) \in Sources
  BY <1>1, HomeAssumption DEF AtHome, Sources
<1>3. q \in Seq(Nat) /\ n \in Nat /\ Increasing(q) /\ n = LastOf(q)
  BY <1>1, <1>2 DEF TypeOK, CopyInv, SyncInv, InOrder
<1>4. /\ Exact(d, p)
      /\ Told(broadcasts, payables)
      /\ UNCHANGED broadcasts
  BY <1>1 DEF CopyInv, CopiesExact, homeVars
<1>5. Says(w)
  BY <1>4 DEF Told
<1>6. \A u \in broadcasts :
        u.payable = p /\ u.nonce <= w.nonce => Occurs(u.nonce, Append(q, w.nonce))
  BY <1>1, <1>4 DEF Complete
<1>7. /\ after.isClosed = IF w.actionType \in CarriesClosed THEN w.isClosed ELSE copy.isClosed
      /\ after.allowed = IF w.actionType \in CarriesAllowed THEN w.allowed ELSE copy.allowed
  <2> HIDE DEF after, copy, p
  <2> QED
    BY <1>1 DEF ApplyPayload
<1>8. \A u \in broadcasts : u.payable = p => u.nonce \in Nat \ {0}
  BY <1>4 DEF Told
<1> HIDE DEF q, n, copy, after
<1>9. ASSUME NEW u \in broadcasts, u.payable = p, u.nonce < w.nonce
      PROVE  Occurs(u.nonce, q) /\ u.nonce <= n
  <2>1. u.nonce \in Nat /\ u.nonce # w.nonce /\ u.nonce <= w.nonce
    BY <1>1, <1>8, <1>9
  <2>2. Occurs(u.nonce, q)
    BY <1>1, <1>3, <1>6, <1>9, <2>1, OccursAfter
  <2>3. PICK i \in DOMAIN q : q[i] = u.nonce
    BY <2>2 DEF Occurs
  <2> QED
    BY <1>3, <2>2, <2>3, LastIsGreatest
<1>10. CASE n = 0
  <2>1. ASSUME NEW u \in broadcasts PROVE ~ Before(u, w)
    <3>1. ASSUME Before(u, w) PROVE FALSE
      <4>1. u.payable = p /\ u.nonce < w.nonce
        BY <3>1 DEF Before
      <4>2. u.nonce <= 0 /\ u.nonce \in Nat \ {0}
        BY <1>8, <1>9, <1>10, <4>1
      <4> QED
        BY <4>2
    <3> QED
      BY <3>1
  <2>2. w.actionType = Create /\ ~ w.of.isClosed
    BY <1>4, <2>1 DEF Told
  <2>3. w.actionType \in CarriesAllowed /\ w.actionType \notin CarriesClosed
    BY <2>2 DEF CarriesAllowed, CarriesClosed, Create, Close, Reopen, UpdateAllowed
  <2>4. ~ copy.isClosed
    BY <1>4, <1>10 DEF Exact, n, copy
  <2>5. w \in Updates /\ copy \in Copies
    BY <1>1 DEF TypeOK, copy
  <2>6. w.of.isClosed \in BOOLEAN /\ copy.isClosed \in BOOLEAN
    BY <2>5 DEF Updates, HomeRecords, Copies
  <2>7. copy.isClosed = w.of.isClosed
    BY <2>2, <2>4, <2>6
  <2> QED
    BY <1>5, <1>7, <2>3, <2>7 DEF Says, after
<1>11. CASE n # 0
  <2>1. PICK v \in broadcasts : v.payable = p /\ v.nonce = n
    BY <1>4, <1>11 DEF Exact, n
  <2>2. Complete(d, p, n)
    <3> SUFFICES ASSUME NEW u \in broadcasts, u.payable = p, u.nonce <= n
                 PROVE  Occurs(u.nonce, q)
      BY DEF Complete, q
    <3>1. u.nonce < w.nonce
      BY <1>1, <1>3, <1>8
    <3> QED
      BY <1>9, <3>1
  <2>3. copy.isClosed = v.of.isClosed /\ copy.allowed = v.of.allowed
    BY <1>4, <2>1, <2>2 DEF Exact, n, copy
  <2>4. Before(v, w)
    BY <1>1, <2>1 DEF Before
  <2>5. ASSUME NEW x \in broadcasts PROVE ~ (Before(v, x) /\ Before(x, w))
    <3>1. ASSUME Before(v, x), Before(x, w) PROVE FALSE
      <4>1. x.payable = p /\ x.nonce < w.nonce /\ n < x.nonce
        BY <2>1, <3>1 DEF Before
      <4>2. x.nonce <= n /\ x.nonce \in Nat
        BY <1>8, <1>9, <4>1
      <4> QED
        BY <1>3, <4>1, <4>2
    <3> QED
      BY <3>1
  <2>6. /\ w.actionType \notin CarriesClosed => w.of.isClosed = v.of.isClosed
        /\ w.actionType \notin CarriesAllowed => w.of.allowed = v.of.allowed
    BY <1>4, <2>4, <2>5 DEF Told
  <2> QED
    BY <1>5, <1>7, <2>3, <2>6 DEF Says, after
<1> QED
  BY <1>10, <1>11

LEMMA ApplyCopies ==
  ASSUME CopyInv, HomeInv', SyncInv', NEW d \in Chains, NEW w \in broadcasts,
         ApplyPayablePayloadUpdate(d, w, HomeOf[w.payable]), UNCHANGED homeVars
  PROVE  CopyInv'
<1>1. TypeOK /\ UNCHANGED <<payables, broadcasts, updateCounter>>
  BY DEF CopyInv, HomeInv, homeVars
<1>2. Told(broadcasts', payables') /\ CopiesCounted'
  BY <1>1, CountedApplied DEF CopyInv
<1>3. ASSUME NEW e \in Chains, NEW q \in Payables PROVE Exact(e, q)'
  <2>1. CASE e = d /\ q = w.payable
    <3>1. nonces'[d][AtHome(q)] = w.nonce /\ w.nonce \in Nat /\ w.nonce > nonces[d][AtHome(q)]
      BY <1>1, <2>1, AppliedHere
    <3>2. nonces[d][AtHome(q)] \in Nat
      BY <1>1, HomeAssumption DEF TypeOK, AtHome, Sources
    <3>3. w.nonce # 0
      BY <3>1, <3>2
    <3>4. \A v \in broadcasts : v.payable = q /\ v.nonce = w.nonce => v = w
      BY <2>1 DEF CopyInv, HomeInv, NoncesIdentifyUpdates
    <3>5. Complete(d, q, w.nonce)' =>
            /\ foreignPayables'[d][q].isClosed = w.of.isClosed
            /\ foreignPayables'[d][q].allowed = w.of.allowed
      BY <2>1, ExactApplied
    <3> DEFINE n == w.nonce
               after == foreignPayables'[d][q]
    <3>6. \A v \in broadcasts' :
            v.payable = q /\ v.nonce = n /\ Complete(d, q, n)' =>
              after.isClosed = v.of.isClosed /\ after.allowed = v.of.allowed
      BY <1>1, <3>4, <3>5
    <3>7. \E v \in broadcasts' : v.payable = q /\ v.nonce = n
      BY <1>1, <2>1
    <3>8. n # 0 /\ nonces'[d][AtHome(q)] = n
      BY <3>1, <3>3
    <3> HIDE DEF n
    <3> QED
      BY <2>1, <3>6, <3>7, <3>8 DEF Exact, Complete
  <2>2. CASE e # d \/ q # w.payable
    <3>1. /\ foreignPayables'[e][q] = foreignPayables[e][q]
          /\ nonces'[e][AtHome(q)] = nonces[e][AtHome(q)]
          /\ history'[e][AtHome(q)] = history[e][AtHome(q)]
      BY <1>1, <2>2, AppliedElsewhere
    <3>2. Exact(e, q)
      BY DEF CopyInv, CopiesExact
    <3> QED
      BY <1>1, <3>1, <3>2 DEF Exact, Complete
  <2> QED
    BY <2>1, <2>2
<1> QED
  BY <1>2, <1>3 DEF CopyInv, CopiesExact

\* Where neither copies nor homes change.
LEMMA QuietCopies ==
  ASSUME CopyInv, HomeInv', SyncInv', UNCHANGED <<homeVars, copyVars>>
  PROVE  CopyInv'
<1>1. UNCHANGED <<payables, broadcasts, updateCounter, nonces, foreignPayables, history>>
  BY DEF homeVars, copyVars
<1>2. Told(broadcasts', payables')
  BY <1>1 DEF CopyInv
<1>3. CopiesCounted'
  BY <1>1 DEF CopyInv, CopiesCounted, KnownAt, copyVars
<1>4. CopiesExact'
  BY <1>1 DEF CopyInv, CopiesExact, Exact, Complete
<1> QED
  BY <1>2, <1>3, <1>4 DEF CopyInv

LEMMA StepCopies ==
  ASSUME NoAdmin
  PROVE  CopyInv /\ [Next]_vars => CopyInv'
<1> SUFFICES ASSUME CopyInv, [Next]_vars PROVE CopyInv'
  OBVIOUS
<1>1. HomeInv' /\ SyncInv' /\ TypeOK
  BY NextHomeInv, NextSyncInv DEF CopyInv, HomeInv
<1>2. CASE UNCHANGED vars
  BY <1>1, <1>2, QuietCopies DEF vars
<1>3. ASSUME NEW c \in Chains, OwnerCalls(c) PROVE CopyInv'
  BY <1>1, <1>3, OwnerLeavesSync, QuietCopies
<1>4. ASSUME NEW d \in Chains, RelayCalls(d) PROVE CopyInv'
  <2>1. UNCHANGED homeVars
    BY <1>4, RelayLeavesHome
  <2>2. CASE UNCHANGED copyVars
    BY <1>1, <2>1, <2>2, QuietCopies
  <2>3. CASE \E w \in broadcasts : ApplyPayablePayloadUpdate(d, w, HomeOf[w.payable])
    BY <1>1, <2>1, <2>3, ApplyCopies
  <2> QED
    BY <1>1, <1>4, <2>2, <2>3, RelayApplies
<1>5. ASSUME NEW p \in Payables, HostCalls(p) PROVE CopyInv'
  BY <1>1, <1>5, HostCopies
<1> QED
  BY <1>2, <1>3, <1>4, <1>5 DEF Next

LEMMA CopyInvHolds == ASSUME NoAdmin PROVE Spec => []CopyInv
<1>1. Init => CopyInv
  BY InitCopies
<1>2. CopyInv /\ [Next]_vars => CopyInv'
  BY StepCopies
<1> QED
  BY <1>1, <1>2, PTL DEF Spec

\* A chain that missed none of a payable's updates up to the one it applied last
\* has the record the payable had at home then, though each update carries only
\* what it changes (CbPayables._applyPayablePayloadUpdate).
THEOREM InOrderCopiesAreExact ==
  ASSUME NoAdmin
  PROVE  Spec => []InOrderCopyIsExact
<1>1. CopyInv => InOrderCopyIsExact
  BY ExactInOrder DEF CopyInv
<1> QED
  BY <1>1, CopyInvHolds, PTL

\* A copy names the chain of its payable, is counted once, and is never newer
\* than what that chain broadcast (CbPayables.sol:491-495).
THEOREM CopiesAlwaysNameTheirHome ==
  ASSUME NoAdmin
  PROVE  Spec => []CopiesNameTheirHome
<1>1. CopyInv => CopiesNameTheirHome
  BY CountedNameHome DEF CopyInv
<1> QED
  BY <1>1, CopyInvHolds, PTL

=============================================================================
