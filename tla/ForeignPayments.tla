--------------------------- MODULE ForeignPayments ---------------------------
(***************************************************************************)
(* Payments across chains.  The payer's chain burns the tokens with Circle *)
(* and publishes a PaymentPayload with Wormhole; the payable's chain       *)
(* redeems the two together, and credits the payable with what the payload *)
(* says.  Between the two steps anything may happen: the payable closes or *)
(* changes its terms, the owners change the matching tokens, a contract is *)
(* paused, or somebody hands the burn to Circle without the payload.       *)
(*                                                                         *)
(* The payer's chain knows the payable by a copy, which PayableSync keeps; *)
(* here it is what the payable was when the copy was last brought up to    *)
(* date.  Balances and withdrawals of the credited money are in CbLedger.  *)
(* All contracts are registered with one another.                          *)
(***************************************************************************)
EXTENDS Integers, FiniteSets, Functions

CONSTANTS
  Chains,
  Payables,
  HomeOf,           \* the chain each payable was created on
  Payers,
  Tokens,           \* token addresses, of all chains
  NoToken,          \* address(0)
  Supported,        \* the tokens each chain's contract takes
  Minted,           \* Circle: Minted[c, t, d] is what token t of c is on d
  CircleDomain,     \* the number of each chain's Circle domain
  OwnDomainKnown,   \* chains whose own domain the owners registered, too
  Amounts,
  MaxUint64,        \* bound of the payload's amounts
  Rematched,        \* tokens whose matching the owners take away and restore
  AllowedLists,     \* what a host may ask for: a set, empty for anything
  MaxPayments       \* bound: cross-chain payments of each chain

ASSUME HomesAssumption == HomeOf \in [Payables -> Chains]
ASSUME TokensAssumption ==
  /\ NoToken \notin Tokens
  /\ Supported \in [Chains -> SUBSET Tokens]
  /\ Minted \in [Chains \X Tokens \X Chains -> Tokens \cup {NoToken}]
  /\ Rematched \subseteq Tokens
ASSUME DomainsAssumption ==
  /\ CircleDomain \in [Chains -> Nat]
  /\ \A c, d \in Chains : CircleDomain[c] = CircleDomain[d] => c = d
  /\ OwnDomainKnown \subseteq Chains
ASSUME NumbersAssumption ==
  /\ Amounts \subseteq Nat \ {0}
  /\ MaxUint64 \in Nat
  /\ MaxPayments \in Nat
  /\ AllowedLists \subseteq SUBSET [token : Tokens, amount : Amounts]

VARIABLES
  paused,
  payables,         \* the payables at home
  foreignPayables,  \* the copies of them
  localToken,       \* forForeignChainMatchingTokenAddresses
  foreignToken,     \* forTokenAddressMatchingForeignChainTokens
  userPayments,     \* what was paid on each chain
  burns,            \* Circle's messages, attested
  vaas,             \* PaymentPayloads, signed
  redeemed,         \* burns Circle's transmitter has minted
  consumed,         \* hasConsumedWormholeMessage
  payablePayments,  \* what was credited on each chain
  held,             \* what each contract owns of each token
  offered           \* history: the lists each payable ever asked for

termVars == <<payables, offered>>
tokenVars == <<localToken, foreignToken>>
sentVars == <<userPayments, burns, vaas>>
receivedVars == <<redeemed, consumed, payablePayments, held>>
vars == <<paused, termVars, foreignPayables, tokenVars, sentVars, receivedVars>>

\* getLocalToken of Circle's TokenMinter, NoToken for a token it does not know.
MintedOn(c, t, d) == Minted[<<c, t, d>>]

Terms == [isClosed: BOOLEAN, allowed: AllowedLists]

Init ==
  /\ paused = [c \in Chains |-> FALSE]
  /\ payables \in [Payables -> [isClosed: {FALSE}, allowed: AllowedLists]]
  /\ offered = [p \in Payables |-> {payables[p].allowed}]
  /\ foreignPayables = [c \in Chains |-> payables]
  \* Every token is matched with what Circle makes of it.
  /\ localToken =
       [c \in Chains |-> [d \in Chains |-> [t \in Tokens |-> MintedOn(d, t, c)]]]
  /\ foreignToken =
       [c \in Chains |-> [t \in Tokens |-> [d \in Chains |-> MintedOn(c, t, d)]]]
  /\ userPayments = [c \in Chains |-> {}]
  /\ burns = {}
  /\ vaas = {}
  /\ redeemed = {}
  /\ consumed = [c \in Chains |-> {}]
  /\ payablePayments = [c \in Chains |-> {}]
  /\ held = [c \in Chains |-> [t \in Tokens |-> 0]]

-----------------------------------------------------------------------------
(* Hosts and owners.                                                       *)

SetTerms(p, terms) ==
  /\ ~ paused[HomeOf[p]]
  /\ payables' = [payables EXCEPT ![p] = terms]
  /\ offered' = [offered EXCEPT ![p] = offered[p] \cup {terms.allowed}]
  /\ UNCHANGED <<paused, foreignPayables, tokenVars, sentVars, receivedVars>>

ClosePayable(p) ==
  /\ ~ payables[p].isClosed
  /\ SetTerms(p, [payables[p] EXCEPT !.isClosed = TRUE])

ReopenPayable(p) ==
  /\ payables[p].isClosed
  /\ SetTerms(p, [payables[p] EXCEPT !.isClosed = FALSE])

UpdatePayableAllowedTokensAndAmounts(p, list) ==
  /\ list # payables[p].allowed
  /\ SetTerms(p, [payables[p] EXCEPT !.allowed = list])

\* The copy is brought up to date, by whatever path of PayableSync.
UpdateCopy(c, p) ==
  /\ HomeOf[p] # c
  /\ foreignPayables[c][p] # payables[p]
  /\ foreignPayables' =
       [foreignPayables EXCEPT ![c] = [foreignPayables[c] EXCEPT ![p] = payables[p]]]
  /\ UNCHANGED <<paused, termVars, tokenVars, sentVars, receivedVars>>

SetPaused(c) ==
  /\ paused' = [paused EXCEPT ![c] = ~ paused[c]]
  /\ UNCHANGED <<termVars, foreignPayables, tokenVars, sentVars, receivedVars>>

RegisterMatchingTokenForForeignChain(c, d, foreign, token) ==
  /\ c # d
  /\ localToken' = [localToken EXCEPT ![c][d][foreign] = token]
  /\ foreignToken' = [foreignToken EXCEPT ![c][token][d] = foreign]
  /\ UNCHANGED <<paused, termVars, foreignPayables, sentVars, receivedVars>>

UnregisterMatchingTokenForForeignChain(c, d, foreign) ==
  LET token == localToken[c][d][foreign] IN
  /\ c # d
  /\ token # NoToken
  /\ localToken' = [localToken EXCEPT ![c][d][foreign] = NoToken]
  /\ foreignToken' = [foreignToken EXCEPT ![c][token][d] = NoToken]
  /\ UNCHANGED <<paused, termVars, foreignPayables, sentVars, receivedVars>>

-----------------------------------------------------------------------------
(* The payer's chain.                                                      *)

\* Mutant: the amount is not compared.
TermsAllowAnyAmount(c, p, token, amount) ==
  LET list == foreignPayables[c][p].allowed IN
  list # {} => \E ataa \in list : localToken[c][HomeOf[p]][ataa.token] = token

\* The list names tokens of the payable's chain.
TermsAllow(c, p, token, amount) ==
  LET list == foreignPayables[c][p].allowed IN
  list # {} =>
    \E ataa \in list :
      localToken[c][HomeOf[p]][ataa.token] = token /\ ataa.amount = amount

\* Mutant: a cast in place of SafeCast.
CastToUint64(amount) == amount % (MaxUint64 + 1)

\* SafeCast.toUint64, where it does not revert.
ToUint64(amount) == amount

\* cbChainIdToCircleDomain: 0 for a chain that was not registered.
DomainOf(c, d) ==
  IF c = d /\ c \notin OwnDomainKnown THEN 0 ELSE CircleDomain[d]

NextCircleNonce(c) == Cardinality(userPayments[c]) + 1

\* depositForBurn takes only tokens Circle knows, so the source holds nothing.
PayForeignWithCircle(c, payer, p, token, amount) ==
  LET home == HomeOf[p]
      n == NextCircleNonce(c)
  IN
  /\ n <= MaxPayments
  /\ home # c
  /\ ~ paused[c]
  /\ token \in Supported[c]
  /\ ~ foreignPayables[c][p].isClosed
  /\ TermsAllow(c, p, token, amount)
  /\ ToUint64(amount) <= MaxUint64
  /\ MintedOn(c, token, home) # NoToken
  /\ userPayments' = [userPayments EXCEPT ![c] = userPayments[c] \cup
       {[payable |-> p, payer |-> payer, token |-> token, amount |-> amount,
         circleNonce |-> n]}]
  /\ burns' = burns \cup
       {[sourceDomain |-> CircleDomain[c], targetDomain |-> DomainOf(c, home),
         nonce |-> n, sender |-> c, recipient |-> home, token |-> token, amount |-> amount]}
  \* payableChainToken is the payer's token, payerChainToken the payable's.
  /\ vaas' = vaas \cup
       {[payableId |-> p, payableChainToken |-> token, payableChainId |-> home,
         payer |-> payer, payerChainToken |-> foreignToken[c][token][home],
         payerChainId |-> c, amount |-> ToUint64(amount), circleNonce |-> n]}
  /\ UNCHANGED <<paused, termVars, foreignPayables, tokenVars, receivedVars>>

-----------------------------------------------------------------------------
(* The payable's chain.                                                    *)

\* Mutant: the burn of any payment will do.
CircleMessageOfAnyPayment(d, burn, payload) ==
  /\ burn.sourceDomain = DomainOf(d, payload.payerChainId)
  /\ burn.targetDomain = DomainOf(d, payload.payableChainId)
  /\ burn.sender = payload.payerChainId
  /\ burn.recipient = d

CircleMessageMatches(d, burn, payload) ==
  /\ burn.sourceDomain = DomainOf(d, payload.payerChainId)
  /\ burn.targetDomain = DomainOf(d, payload.payableChainId)
  /\ burn.nonce = payload.circleNonce
  /\ burn.sender = payload.payerChainId
  /\ burn.recipient = d

\* Mutant: not checked.
AnyCircleToken(d, payload) == TRUE

\* remoteTokensToLocalTokens knows the tokens of the payer's chain.
CircleTokenMatches(d, payload) ==
  /\ payload.payerChainToken # NoToken
  /\ MintedOn(payload.payerChainId, payload.payerChainToken, d) = payload.payableChainToken

\* receiveMessage of the MessageTransmitter: once, and on the right chain.
Redeem(d, burn) ==
  LET minted == MintedOn(burn.sender, burn.token, d) IN
  /\ burn \notin redeemed
  /\ burn.targetDomain = CircleDomain[d]
  /\ redeemed' = redeemed \cup {burn}
  /\ held' = [held EXCEPT ![d][minted] = held[d][minted] + burn.amount]

\* Mutant: a closed payable takes no payment.
OpenPayable(d, p) == HomeOf[p] = d /\ ~ payables[p].isClosed

Exists(d, p) == HomeOf[p] = d

\* Mutant: the count that makes ids distinct stands still.
PayablePaymentUncounted(d, payload) ==
  [payable |-> payload.payableId, payer |-> payload.payer,
   payerChain |-> payload.payerChainId, token |-> payload.payableChainToken,
   amount |-> payload.amount, count |-> 1]

PayablePayment(d, payload) ==
  [payable |-> payload.payableId, payer |-> payload.payer,
   payerChain |-> payload.payerChainId, token |-> payload.payableChainToken,
   amount |-> payload.amount, count |-> Cardinality(payablePayments[d]) + 1]

ReceiveForeignPaymentWithCircle(d, payload, burn) ==
  /\ ~ paused[d]
  /\ payload \notin consumed[d]
  /\ Exists(d, payload.payableId)
  /\ CircleMessageMatches(d, burn, payload)
  /\ CircleTokenMatches(d, payload)
  /\ Redeem(d, burn)
  /\ payablePayments' = [payablePayments EXCEPT ![d] =
       payablePayments[d] \cup {PayablePayment(d, payload)}]
  /\ consumed' = [consumed EXCEPT ![d] = consumed[d] \cup {payload}]
  /\ UNCHANGED <<paused, termVars, foreignPayables, tokenVars, sentVars>>

\* Anyone may hand a burn to Circle's transmitter directly.
RedeemDirectly(d, burn) ==
  /\ Redeem(d, burn)
  /\ UNCHANGED <<paused, termVars, foreignPayables, tokenVars, sentVars,
                 consumed, payablePayments>>

-----------------------------------------------------------------------------
HostNext ==
  \E p \in Payables :
    \/ ClosePayable(p)
    \/ ReopenPayable(p)
    \/ \E list \in AllowedLists : UpdatePayableAllowedTokensAndAmounts(p, list)

\* The owners match a token with what Circle makes of it, and with nothing else.
OwnerNext ==
  \/ \E c \in Chains : SetPaused(c)
  \/ \E c, d \in Chains, t \in Rematched :
       \/ /\ MintedOn(d, t, c) # NoToken
          /\ localToken[c][d][t] # MintedOn(d, t, c)
          /\ RegisterMatchingTokenForForeignChain(c, d, t, MintedOn(d, t, c))
       \/ UnregisterMatchingTokenForForeignChain(c, d, t)

Next ==
  \/ HostNext
  \/ OwnerNext
  \/ \E c \in Chains, p \in Payables :
       \/ UpdateCopy(c, p)
       \/ \E payer \in Payers, t \in Tokens, a \in Amounts :
            PayForeignWithCircle(c, payer, p, t, a)
  \/ \E d \in Chains, burn \in burns :
       \/ RedeemDirectly(d, burn)
       \/ \E payload \in vaas : ReceiveForeignPaymentWithCircle(d, payload, burn)

Spec == Init /\ [][Next]_vars

-----------------------------------------------------------------------------
(* Fairness: whoever relays payments tries each of them again and again     *)
(* with its own payload and burn, so that it is redeemed if it can be       *)
(* redeemed infinitely often (Relayer; "anyone" may).                       *)
RelayPayment(c, n) ==
  \E payload \in vaas, burn \in burns :
    /\ payload.payerChainId = c /\ payload.circleNonce = n
    /\ burn.sender = c /\ burn.nonce = n
    /\ ReceiveForeignPaymentWithCircle(payload.payableChainId, payload, burn)

FairSpec == Spec /\ \A c \in Chains, n \in 1..MaxPayments : SF_vars(RelayPayment(c, n))

-----------------------------------------------------------------------------
(* Properties.                                                             *)

\* The variables have their types; only burns there are have been redeemed,
\* and only payloads there are have been consumed, on their payable's chain.
TypeOK ==
  /\ paused \in [Chains -> BOOLEAN]
  /\ payables \in [Payables -> Terms]
  /\ foreignPayables \in [Chains -> [Payables -> Terms]]
  /\ redeemed \subseteq burns
  /\ \A c \in Chains :
       /\ \A payload \in consumed[c] : payload \in vaas /\ payload.payableChainId = c
       /\ Cardinality(consumed[c]) = Cardinality(payablePayments[c])
       /\ Cardinality(userPayments[c]) <= MaxPayments

\* What a payable was credited is what its payers paid for it on their chains:
\* each payment at most once, to the payable, by the payer and for the amount
\* it was made (ARCHITECTURE.md, "Cross-Chain Payments").
CreditedAsPaid ==
  \A d \in Chains : \A r \in payablePayments[d] :
    LET same == {x \in payablePayments[d] :
                   /\ x.payable = r.payable /\ x.payer = r.payer
                   /\ x.payerChain = r.payerChain /\ x.amount = r.amount}
        paid == {u \in userPayments[r.payerChain] :
                   u.payable = r.payable /\ u.payer = r.payer /\ u.amount = r.amount}
    IN Cardinality(same) <= Cardinality(paid)

\* A payload is consumed with the burn of its own payment, however many are
\* waiting (_checkCircleMessage).
RedeemedTogether ==
  \A d \in Chains : \A payload \in consumed[d] :
    \E burn \in redeemed :
      burn.sender = payload.payerChainId /\ burn.nonce = payload.circleNonce

\* The sum of what was credited in a token.
CreditedIn(d, t) ==
  SumFunctionOnSet([r \in payablePayments[d] |-> r.amount],
                   {r \in payablePayments[d] : r.token = t})

\* What was credited to payables is in the contract, in the token it was
\* credited in (_checkCircleToken).
Backed == \A d \in Chains, t \in Tokens : CreditedIn(d, t) <= held[d][t]

\* What the next property needs of Circle's tokens: what a token is made into
\* is made into the token again on the way back, and no two tokens have each
\* other's addresses on two chains.
MintingIsMutual ==
  \A c, d \in Chains, t \in Tokens :
    MintedOn(c, t, d) # NoToken => MintedOn(d, MintedOn(c, t, d), c) = t

NoCrossedTokens ==
  \A c, d \in Chains, t \in Tokens :
    LET x == MintedOn(c, t, d) IN
    x # NoToken /\ MintedOn(c, x, d) = t => x = t

\* A payable is credited only what its host asked for at some time, though the
\* payer's chain may know an older list and the matching of tokens changes:
\* the payload swaps the two addresses of a token, so that only one that has
\* the same address on both chains passes _checkCircleToken.
TermsKept ==
  \A d \in Chains : \A r \in payablePayments[d] :
    \E list \in offered[r.payable] :
      list = {} \/ [token |-> r.token, amount |-> r.amount] \in list

\* A payment that was made ends up credited, unless its burn was handed to
\* Circle without its payload.
Sent(c, n, accepts(_)) ==
  \E payload \in vaas :
    payload.payerChainId = c /\ payload.circleNonce = n /\ accepts(payload)
Arrived(c, n) ==
  \/ \E d \in Chains : \E payload \in consumed[d] :
       payload.payerChainId = c /\ payload.circleNonce = n
  \/ \E burn \in redeemed : burn.sender = c /\ burn.nonce = n

\* Where a token has the same address on both chains and the payable's chain
\* knows its own domain, every payment arrives if the contract is not paused
\* for ever, also if the payable has been closed meanwhile.
PaymentsArrive ==
  LET alike(payload) ==
        /\ payload.payerChainToken = payload.payableChainToken
        /\ DomainOf(payload.payableChainId, payload.payableChainId)
             = CircleDomain[payload.payableChainId]
  IN (\A d \in Chains : []<>~ paused[d]) =>
       \A c \in Chains, n \in 1..MaxPayments : Sent(c, n, alike) ~> Arrived(c, n)

\* "The destination chain receives both the CCTP funds and the Wormhole message,
\* verifies them, and records a PayablePayment" (ARCHITECTURE.md:336): every
\* payment arrives if the contract is not paused for ever.
EveryPaymentArrives ==
  LET any(payload) == TRUE IN
  (\A d \in Chains : []<>~ paused[d]) =>
    \A c \in Chains, n \in 1..MaxPayments : Sent(c, n, any) ~> Arrived(c, n)

=============================================================================
