------------------------ MODULE ForeignPaymentsProofs ------------------------
(***************************************************************************)
(* What is credited on a payable's chain is what was paid for it elsewhere, *)
(* for any number of chains, payables, payers and tokens.  The invariant    *)
(* follows a payment through its three records: the payment, whose nonce    *)
(* is its own on its chain (PaymentsNumbered); the payload, one for each    *)
(* nonce, which says what the payment says (PayloadsTold); and the credit,  *)
(* one for each payload consumed, which says what the payload says          *)
(* (CreditsBacked).                                                        *)
(*                                                                         *)
(* That a credit is for what was asked for goes with the payload, too      *)
(* (PayloadsAsked), under assumptions about Circle's tokens; and so does    *)
(* that it is backed by what Circle minted (BurnsTold, PayloadsSwapped).    *)
(***************************************************************************)
EXTENDS ForeignPayments, Sums, FiniteSetTheorems, TLAPS

Tells(payload, c, u) ==
  /\ payload.payerChainId = c
  /\ payload.circleNonce = u.circleNonce
  /\ payload.payableId = u.payable
  /\ payload.payer = u.payer
  /\ payload.amount = u.amount

Credits(r, payload) ==
  /\ r.payable = payload.payableId
  /\ r.payer = payload.payer
  /\ r.payerChain = payload.payerChainId
  /\ r.amount = payload.amount

PaymentsNumbered ==
  /\ userPayments = [c \in Chains |-> userPayments[c]]
  /\ \A c \in Chains :
       /\ IsFiniteSet(userPayments[c])
       /\ Cardinality(userPayments[c]) <= MaxPayments
       /\ \A u \in userPayments[c] :
            u.circleNonce \in Nat /\ u.circleNonce <= Cardinality(userPayments[c])

PayloadsTold ==
  /\ \A payload \in vaas :
       \E c \in Chains : \E u \in userPayments[c] : Tells(payload, c, u)
  /\ \A v, w \in vaas :
       v.payerChainId = w.payerChainId /\ v.circleNonce = w.circleNonce => v = w
  /\ \A payload \in vaas : payload.payableChainId = HomeOf[payload.payableId]

\* Credits of one chain and the payloads consumed there match one to one.
Matched(credits, payloads) ==
  /\ IsFiniteSet(credits) /\ IsFiniteSet(payloads)
  /\ Cardinality(credits) = Cardinality(payloads)
  /\ \A r \in credits : r.count \in Nat /\ r.count <= Cardinality(credits)
  /\ \E f \in [credits -> payloads] :
       /\ \A r \in credits : Credits(r, f[r])
       /\ \A r, s \in credits : f[r] = f[s] => r = s

CreditsBacked ==
  /\ consumed \in [Chains -> SUBSET vaas]
  /\ \A d \in Chains : \A payload \in consumed[d] : payload.payableChainId = d
  /\ payablePayments = [d \in Chains |-> payablePayments[d]]
  /\ \A d \in Chains : Matched(payablePayments[d], consumed[d])

TermsTyped ==
  /\ paused \in [Chains -> BOOLEAN]
  /\ payables \in [Payables -> Terms]
  /\ foreignPayables \in [Chains -> [Payables -> Terms]]

FInv ==
  /\ TermsTyped
  /\ redeemed \subseteq burns
  /\ PaymentsNumbered
  /\ PayloadsTold
  /\ CreditsBacked
  /\ RedeemedTogether

-----------------------------------------------------------------------------
(* The invariant says what it is meant to say. *)

LEMMA FInvType == FInv => TypeOK
BY DEF FInv, TermsTyped, PaymentsNumbered, CreditsBacked, Matched, TypeOK

LEMMA FInvCredited == FInv => CreditedAsPaid
<1> SUFFICES ASSUME FInv, NEW d \in Chains, NEW r \in payablePayments[d]
             PROVE  Cardinality({x \in payablePayments[d] :
                        /\ x.payable = r.payable /\ x.payer = r.payer
                        /\ x.payerChain = r.payerChain /\ x.amount = r.amount})
                    <= Cardinality({u \in userPayments[r.payerChain] :
                        u.payable = r.payable /\ u.payer = r.payer /\ u.amount = r.amount})
  BY DEF CreditedAsPaid
<1> DEFINE same == {x \in payablePayments[d] :
                      /\ x.payable = r.payable /\ x.payer = r.payer
                      /\ x.payerChain = r.payerChain /\ x.amount = r.amount}
           paid == {u \in userPayments[r.payerChain] :
                      u.payable = r.payable /\ u.payer = r.payer /\ u.amount = r.amount}
<1>1. /\ consumed[d] \subseteq vaas
      /\ \E f \in [payablePayments[d] -> consumed[d]] :
           /\ \A x \in payablePayments[d] : Credits(x, f[x])
           /\ \A x, y \in payablePayments[d] : f[x] = f[y] => x = y
  BY DEF FInv, CreditsBacked, Matched
<1>2. PICK f \in [payablePayments[d] -> consumed[d]] :
        /\ \A x \in payablePayments[d] : Credits(x, f[x])
        /\ \A x, y \in payablePayments[d] : f[x] = f[y] => x = y
  BY <1>1
<1>3. ASSUME NEW x \in same
      PROVE  \E u \in paid : Tells(f[x], r.payerChain, u)
  <2>1. f[x] \in vaas /\ Credits(x, f[x])
    BY <1>1, <1>2
  <2>2. PICK c \in Chains : \E u \in userPayments[c] : Tells(f[x], c, u)
    BY <2>1 DEF FInv, PayloadsTold
  <2>3. PICK u \in userPayments[c] : Tells(f[x], c, u)
    BY <2>2
  <2>4. c = r.payerChain /\ u \in paid
    BY <2>1, <2>3 DEF Tells, Credits
  <2> QED
    BY <2>3, <2>4
<1> DEFINE g == [x \in same |-> CHOOSE u \in paid : Tells(f[x], r.payerChain, u)]
<1>4. ASSUME NEW x \in same
      PROVE  g[x] \in paid /\ Tells(f[x], r.payerChain, g[x])
  BY <1>3
<1>5. ASSUME NEW x \in same, NEW y \in same, g[x] = g[y] PROVE x = y
  <2>1. Tells(f[x], r.payerChain, g[x]) /\ Tells(f[y], r.payerChain, g[x])
    BY <1>4, <1>5
  <2>2. f[x] \in vaas /\ f[y] \in vaas
    BY <1>1, <1>2
  <2>3. \A v, w \in vaas :
          v.payerChainId = w.payerChainId /\ v.circleNonce = w.circleNonce => v = w
    BY DEF FInv, PayloadsTold
  <2>4. /\ f[x].payerChainId = f[y].payerChainId
        /\ f[x].circleNonce = f[y].circleNonce
    BY <2>1 DEF Tells
  <2>5. f[x] = f[y]
    BY <2>2, <2>3, <2>4
  <2> QED
    BY <1>2, <2>5
<1>6. g \in [same -> paid]
  BY <1>4
<1> HIDE DEF g
<1>7. g \in Injection(same, paid)
  BY <1>5, <1>6 DEF Injection, IsInjective
<1>8. IsFiniteSet(paid)
  <2>1. r.payerChain \in Chains
    <3>1. f[r] \in vaas /\ Credits(r, f[r])
      BY <1>1, <1>2
    <3> QED
      BY <3>1 DEF FInv, PayloadsTold, Tells, Credits
  <2>2. IsFiniteSet(userPayments[r.payerChain])
    BY <2>1 DEF FInv, PaymentsNumbered
  <2> QED
    BY <2>2, FS_Subset
<1> QED
  BY <1>7, <1>8, FS_Injection

-----------------------------------------------------------------------------
(* The invariant is inductive. *)

LEMMA InitFInv == Init => FInv
<1> SUFFICES ASSUME Init PROVE FInv
  OBVIOUS
<1>1. TermsTyped
  BY DEF Init, TermsTyped, Terms
<1>2. PaymentsNumbered
  <2>1. \A c \in Chains : userPayments[c] = {}
    BY DEF Init
  <2>2. userPayments = [c \in Chains |-> userPayments[c]]
    BY DEF Init
  <2>3. IsFiniteSet({}) /\ Cardinality({}) <= MaxPayments
    BY FS_EmptySet, NumbersAssumption
  <2> QED
    BY <2>1, <2>2, <2>3 DEF PaymentsNumbered
<1>3. PayloadsTold
  BY DEF Init, PayloadsTold
<1>4. Matched({}, {})
  <2>1. [r \in {} |-> r] \in [{} -> {}]
    OBVIOUS
  <2> QED
    BY <2>1, FS_EmptySet DEF Matched
<1>5. CreditsBacked
  BY <1>4 DEF Init, CreditsBacked
<1>6. redeemed \subseteq burns /\ RedeemedTogether
  BY DEF Init, RedeemedTogether
<1> QED
  BY <1>1, <1>2, <1>3, <1>5, <1>6 DEF FInv

\* Hosts and owners touch neither what was sent nor what was received.
LEMMA KeepMoney ==
  ASSUME FInv, TermsTyped', UNCHANGED <<sentVars, receivedVars>>
  PROVE  FInv'
BY DEF FInv, sentVars, receivedVars, PaymentsNumbered, PayloadsTold,
       CreditsBacked, Matched, RedeemedTogether

LEMMA HostStep == ASSUME FInv, HostNext PROVE FInv'
<1>1. PICK p \in Payables, terms \in Terms : SetTerms(p, terms)
  <2>1. payables \in [Payables -> Terms]
    BY DEF FInv, TermsTyped
  <2> QED
    BY <2>1 DEF HostNext, ClosePayable, ReopenPayable,
                UpdatePayableAllowedTokensAndAmounts, Terms
<1>2. TermsTyped'
  BY <1>1 DEF SetTerms, FInv, TermsTyped
<1> QED
  BY <1>1, <1>2, KeepMoney DEF SetTerms

LEMMA OwnerStep == ASSUME FInv, OwnerNext PROVE FInv'
<1>1. TermsTyped' /\ UNCHANGED <<sentVars, receivedVars>>
  BY DEF OwnerNext, SetPaused, RegisterMatchingTokenForForeignChain,
         UnregisterMatchingTokenForForeignChain, termVars, FInv, TermsTyped
<1> QED
  BY <1>1, KeepMoney

LEMMA CopyStep ==
  ASSUME FInv, NEW c \in Chains, NEW p \in Payables, UpdateCopy(c, p)
  PROVE  FInv'
<1>1. TermsTyped'
  BY DEF UpdateCopy, termVars, FInv, TermsTyped
<1> QED
  BY <1>1, KeepMoney DEF UpdateCopy

\* A payment takes the next nonce of its chain, and its payload tells it.
LEMMA PayStep ==
  ASSUME FInv, NEW c \in Chains, NEW payer \in Payers, NEW p \in Payables,
         NEW token \in Tokens, NEW amount \in Amounts,
         PayForeignWithCircle(c, payer, p, token, amount)
  PROVE  FInv'
<1> DEFINE n == NextCircleNonce(c)
           u == [payable |-> p, payer |-> payer, token |-> token,
                 amount |-> amount, circleNonce |-> n]
           v == [payableId |-> p, payableChainToken |-> token,
                 payableChainId |-> HomeOf[p], payer |-> payer,
                 payerChainToken |-> foreignToken[c][token][HomeOf[p]],
                 payerChainId |-> c, amount |-> amount, circleNonce |-> n]
           before == userPayments[c]
<1>1. /\ n <= MaxPayments
      /\ userPayments' = [userPayments EXCEPT ![c] = before \cup {u}]
      /\ burns \subseteq burns'
      /\ vaas' = vaas \cup {v}
      /\ UNCHANGED <<paused, payables, foreignPayables, redeemed, consumed,
                     payablePayments>>
  BY DEF PayForeignWithCircle, ToUint64, termVars, receivedVars
<1>2. /\ userPayments = [d \in Chains |-> userPayments[d]]
      /\ \A d \in Chains :
           /\ IsFiniteSet(userPayments[d])
           /\ Cardinality(userPayments[d]) <= MaxPayments
           /\ \A x \in userPayments[d] :
                x.circleNonce \in Nat /\ x.circleNonce <= Cardinality(userPayments[d])
  BY DEF FInv, PaymentsNumbered
<1>3. Cardinality(before) \in Nat /\ n = Cardinality(before) + 1
  BY <1>2, FS_CardinalityType DEF NextCircleNonce
<1>4. \A x \in before : x.circleNonce # n
  BY <1>2, <1>3
<1>5. u \notin before /\ u.circleNonce = n /\ Tells(v, c, u)
  BY <1>4 DEF Tells
<1>6. v.payerChainId = c /\ v.circleNonce = n /\ v.payableChainId = HomeOf[v.payableId]
  OBVIOUS
<1> HIDE DEF u, v, n
<1>7. IsFiniteSet(before \cup {u}) /\ Cardinality(before \cup {u}) = n
  BY <1>2, <1>3, <1>5, FS_AddElement
<1>8. \A d \in Chains :
        userPayments'[d] = IF d = c THEN before \cup {u} ELSE userPayments[d]
  BY <1>1, <1>2
<1>9. PaymentsNumbered'
  <2>1. userPayments' = [d \in Chains |-> userPayments'[d]]
    BY <1>1, <1>2
  <2>2. ASSUME NEW d \in Chains
        PROVE  /\ IsFiniteSet(userPayments'[d])
               /\ Cardinality(userPayments'[d]) <= MaxPayments
               /\ \A x \in userPayments'[d] :
                    x.circleNonce \in Nat /\ x.circleNonce <= Cardinality(userPayments'[d])
    <3>1. CASE d = c
      <4>1. userPayments'[d] = before \cup {u}
        BY <1>8, <3>1
      <4>2. ASSUME NEW x \in before \cup {u}
            PROVE  x.circleNonce \in Nat /\ x.circleNonce <= n
        BY <1>2, <1>3, <1>5
      <4> QED
        BY <1>1, <1>7, <4>1, <4>2
    <3>2. CASE d # c
      <4>1. userPayments'[d] = userPayments[d]
        BY <1>8, <3>2
      <4> QED
        BY <1>2, <4>1
    <3> QED
      BY <3>1, <3>2
  <2> QED
    BY <2>1, <2>2 DEF PaymentsNumbered
<1>10. PayloadsTold'
  <2>1. ASSUME NEW w \in vaas
        PROVE  \E d \in Chains : \E x \in userPayments'[d] : Tells(w, d, x)
    <3>1. PICK d \in Chains : \E x \in userPayments[d] : Tells(w, d, x)
      BY DEF FInv, PayloadsTold
    <3> QED
      BY <1>8, <3>1
  <2>2. \E d \in Chains : \E x \in userPayments'[d] : Tells(v, d, x)
    BY <1>5, <1>8
  <2>3. ASSUME NEW w \in vaas, w.payerChainId = c PROVE w.circleNonce # n
    <3>1. PICK d \in Chains : \E x \in userPayments[d] : Tells(w, d, x)
      BY DEF FInv, PayloadsTold
    <3>2. PICK x \in userPayments[d] : Tells(w, d, x)
      BY <3>1
    <3> QED
      BY <1>4, <2>3, <3>2 DEF Tells
  <2>4. \A x, w \in vaas :
          x.payerChainId = w.payerChainId /\ x.circleNonce = w.circleNonce => x = w
    BY DEF FInv, PayloadsTold
  <2>5. \A x, w \in vaas' :
          x.payerChainId = w.payerChainId /\ x.circleNonce = w.circleNonce => x = w
    BY <1>1, <1>6, <2>3, <2>4
  <2>6. \A w \in vaas' : w.payableChainId = HomeOf[w.payableId]
    BY <1>1, <1>6 DEF FInv, PayloadsTold
  <2> QED
    BY <1>1, <2>1, <2>2, <2>5, <2>6 DEF PayloadsTold, Tells
<1>11. CreditsBacked'
  BY <1>1 DEF FInv, CreditsBacked, Matched
<1> QED
  BY <1>1, <1>9, <1>10, <1>11 DEF FInv, TermsTyped, RedeemedTogether

\* A payload and its credit join their sets together.
LEMMA MatchOneMore ==
  ASSUME NEW credits, NEW payloads, Matched(credits, payloads),
         NEW r, NEW payload, payload \notin payloads,
         Credits(r, payload), r.count = Cardinality(credits) + 1
  PROVE  Matched(credits \cup {r}, payloads \cup {payload})
<1>1. /\ IsFiniteSet(credits) /\ IsFiniteSet(payloads)
      /\ Cardinality(credits) = Cardinality(payloads)
      /\ \A x \in credits : x.count \in Nat /\ x.count <= Cardinality(credits)
  BY DEF Matched
<1>2. Cardinality(credits) \in Nat
  BY <1>1, FS_CardinalityType
<1>3. r \notin credits
  BY <1>1, <1>2
<1>4. /\ IsFiniteSet(credits \cup {r}) /\ IsFiniteSet(payloads \cup {payload})
      /\ Cardinality(credits \cup {r}) = Cardinality(credits) + 1
      /\ Cardinality(payloads \cup {payload}) = Cardinality(credits) + 1
  BY <1>1, <1>3, FS_AddElement
<1>5. \A x \in credits \cup {r} : x.count \in Nat /\ x.count <= Cardinality(credits) + 1
  BY <1>1, <1>2
<1>6. PICK f \in [credits -> payloads] :
        /\ \A x \in credits : Credits(x, f[x])
        /\ \A x, y \in credits : f[x] = f[y] => x = y
  BY DEF Matched
<1> DEFINE g == [x \in credits \cup {r} |-> IF x = r THEN payload ELSE f[x]]
<1>7. g \in [credits \cup {r} -> payloads \cup {payload}]
  OBVIOUS
<1>8. \A x \in credits \cup {r} : Credits(x, g[x])
  BY <1>3, <1>6
<1>9. \A x, y \in credits \cup {r} : g[x] = g[y] => x = y
  BY <1>3, <1>6
<1> HIDE DEF g
<1>10. \E h \in [credits \cup {r} -> payloads \cup {payload}] :
         /\ \A x \in credits \cup {r} : Credits(x, h[x])
         /\ \A x, y \in credits \cup {r} : h[x] = h[y] => x = y
  BY <1>7, <1>8, <1>9
<1>11. /\ Cardinality(credits \cup {r}) = Cardinality(payloads \cup {payload})
       /\ \A x \in credits \cup {r} :
            x.count \in Nat /\ x.count <= Cardinality(credits \cup {r})
  BY <1>4, <1>5
<1> QED
  BY <1>4, <1>10, <1>11 DEF Matched

LEMMA ReceiveStep ==
  ASSUME FInv, NEW d \in Chains, NEW payload \in vaas, NEW burn \in burns,
         ReceiveForeignPaymentWithCircle(d, payload, burn)
  PROVE  FInv'
<1> DEFINE r == PayablePayment(d, payload)
           credits == payablePayments[d]
<1>1. /\ payload \notin consumed[d]
      /\ payablePayments' = [payablePayments EXCEPT ![d] = credits \cup {r}]
      /\ consumed' = [consumed EXCEPT ![d] = consumed[d] \cup {payload}]
      /\ redeemed' = redeemed \cup {burn}
      /\ UNCHANGED <<paused, payables, foreignPayables, userPayments, burns, vaas>>
  BY DEF ReceiveForeignPaymentWithCircle, Redeem, termVars, sentVars
<1>2. /\ burn.sender = payload.payerChainId /\ burn.nonce = payload.circleNonce
      /\ payload.payableChainId = d
  BY DEF ReceiveForeignPaymentWithCircle, CircleMessageMatches, Exists, FInv, PayloadsTold
<1>3. Credits(r, payload) /\ r.count = Cardinality(credits) + 1
  BY DEF Credits, PayablePayment
<1> HIDE DEF r
<1>4. /\ consumed \in [Chains -> SUBSET vaas]
      /\ \A e \in Chains : \A w \in consumed[e] : w.payableChainId = e
      /\ payablePayments = [e \in Chains |-> payablePayments[e]]
      /\ \A e \in Chains : Matched(payablePayments[e], consumed[e])
  BY DEF FInv, CreditsBacked
<1>5. /\ \A e \in Chains :
           payablePayments'[e] = IF e = d THEN credits \cup {r} ELSE payablePayments[e]
      /\ \A e \in Chains :
           consumed'[e] = IF e = d THEN consumed[d] \cup {payload} ELSE consumed[e]
  BY <1>1, <1>4
<1>6. CreditsBacked'
  <2>1. consumed' \in [Chains -> SUBSET vaas']
    BY <1>1, <1>4
  <2>2. payablePayments' = [e \in Chains |-> payablePayments'[e]]
    BY <1>1, <1>4
  <2>3. \A e \in Chains : \A w \in consumed'[e] : w.payableChainId = e
    BY <1>2, <1>4, <1>5
  <2>4. Matched(credits \cup {r}, consumed[d] \cup {payload})
    BY <1>1, <1>3, <1>4, MatchOneMore
  <2>5. ASSUME NEW e \in Chains PROVE Matched(payablePayments'[e], consumed'[e])
    BY <1>4, <1>5, <2>4
  <2> QED
    BY <2>1, <2>2, <2>3, <2>5 DEF CreditsBacked, Matched, Credits
<1>7. RedeemedTogether'
  <2> SUFFICES ASSUME NEW e \in Chains, NEW w \in consumed'[e]
               PROVE  \E b \in redeemed' : b.sender = w.payerChainId
                                           /\ b.nonce = w.circleNonce
    BY DEF RedeemedTogether
  <2>1. CASE w \in consumed[e]
    BY <1>1, <2>1 DEF FInv, RedeemedTogether
  <2>2. CASE w = payload
    BY <1>1, <1>2, <2>2
  <2> QED
    BY <1>5, <2>1, <2>2
<1>8. redeemed' \subseteq burns'
  BY <1>1 DEF FInv
<1>9. TermsTyped' /\ PaymentsNumbered' /\ PayloadsTold'
  BY <1>1 DEF FInv, TermsTyped, PaymentsNumbered, PayloadsTold
<1> QED
  BY <1>6, <1>7, <1>8, <1>9 DEF FInv

LEMMA DirectStep ==
  ASSUME FInv, NEW d \in Chains, NEW burn \in burns, RedeemDirectly(d, burn)
  PROVE  FInv'
<1>1. /\ redeemed' = redeemed \cup {burn}
      /\ UNCHANGED <<paused, payables, foreignPayables, userPayments, burns, vaas,
                     consumed, payablePayments>>
  BY DEF RedeemDirectly, Redeem, termVars, sentVars
<1>2. TermsTyped' /\ PaymentsNumbered' /\ PayloadsTold'
  BY <1>1 DEF FInv, TermsTyped, PaymentsNumbered, PayloadsTold
<1>3. redeemed' \subseteq burns' /\ RedeemedTogether'
  BY <1>1 DEF FInv, RedeemedTogether
<1>4. CreditsBacked'
  BY <1>1 DEF FInv, CreditsBacked, Matched
<1> QED
  BY <1>2, <1>3, <1>4 DEF FInv

LEMMA StepFInv == FInv /\ [Next]_vars => FInv'
<1> SUFFICES ASSUME FInv, [Next]_vars PROVE FInv'
  OBVIOUS
<1>1. CASE HostNext
  BY <1>1, HostStep
<1>2. CASE OwnerNext
  BY <1>2, OwnerStep
<1>3. CASE \E c \in Chains, p \in Payables :
             \/ UpdateCopy(c, p)
             \/ \E payer \in Payers, t \in Tokens, a \in Amounts :
                  PayForeignWithCircle(c, payer, p, t, a)
  BY <1>3, CopyStep, PayStep
<1>4. CASE \E d \in Chains, burn \in burns :
             \/ RedeemDirectly(d, burn)
             \/ \E payload \in vaas : ReceiveForeignPaymentWithCircle(d, payload, burn)
  BY <1>4, DirectStep, ReceiveStep
<1>5. CASE UNCHANGED vars
  <2>1. UNCHANGED <<paused, payables, foreignPayables, sentVars, receivedVars>>
    BY <1>5 DEF vars, termVars
  <2>2. TermsTyped'
    BY <2>1 DEF FInv, TermsTyped
  <2> QED
    BY <2>1, <2>2, KeepMoney
<1> QED
  BY <1>1, <1>2, <1>3, <1>4, <1>5 DEF Next

-----------------------------------------------------------------------------
(* The theorems. *)

LEMMA AlwaysFInv == Spec => []FInv
BY InitFInv, StepFInv, PTL DEF Spec

\* The records of both chains keep their kinds, whatever payments, redemptions
\* and changes of terms are interleaved.
THEOREM TypeCorrect == Spec => []TypeOK
BY AlwaysFInv, FInvType, PTL

\* However many payments of the same payer, payable and amount are under way,
\* a payable's chain never credits more of them than were made.
THEOREM AlwaysCreditedAsPaid == Spec => []CreditedAsPaid
BY AlwaysFInv, FInvCredited, PTL

\* A payload is only consumed with the burn of its own payment.
THEOREM AlwaysRedeemedTogether == Spec => []RedeemedTogether
<1>1. FInv => RedeemedTogether
  BY DEF FInv
<1> QED
  BY <1>1, AlwaysFInv, PTL

-----------------------------------------------------------------------------
(* Terms.  What is credited was asked for, provided that what Circle makes *)
(* of a token is made into the token again on the way back, and that no    *)
(* two tokens have each other's addresses on two chains: the payload swaps *)
(* the two addresses, and only the same address on both sides passes.      *)

Asked(lists, token, amount) ==
  \E list \in lists : list = {} \/ [token |-> token, amount |-> amount] \in list

\* Homes and copies have only lists that were asked for.
ListsOffered ==
  /\ offered = [p \in Payables |-> offered[p]]
  /\ \A p \in Payables : payables[p].allowed \in offered[p]
  /\ \A c \in Chains, p \in Payables : foreignPayables[c][p].allowed \in offered[p]

\* A token is matched with what Circle makes of it, or with nothing.
MatchedByCircle ==
  /\ localToken \in [Chains -> [Chains -> [Tokens -> Tokens \cup {NoToken}]]]
  /\ foreignToken \in [Chains -> [Tokens -> [Chains -> Tokens \cup {NoToken}]]]
  /\ \A c, d \in Chains, t \in Tokens :
       /\ localToken[c][d][t] \in {NoToken, MintedOn(d, t, c)}
       /\ foreignToken[c][t][d] \in {NoToken, MintedOn(c, t, d)}

\* A payload that can be redeemed is for what was asked for, and so is a credit.
PayloadsAsked ==
  \A v \in vaas :
    /\ v.payableId \in Payables
    /\ CircleTokenMatches(HomeOf[v.payableId], v) =>
         Asked(offered[v.payableId], v.payableChainToken, v.amount)

CreditsAsked ==
  \A d \in Chains : \A r \in payablePayments[d] :
    /\ r.payable \in Payables
    /\ Asked(offered[r.payable], r.token, r.amount)

TermsInv == FInv /\ ListsOffered /\ MatchedByCircle /\ PayloadsAsked /\ CreditsAsked

LEMMA TermsInvKept == TermsInv => TermsKept
BY DEF TermsInv, CreditsAsked, TermsKept, Asked

LEMMA MintedType ==
  \A c, d \in Chains, t \in Tokens : MintedOn(c, t, d) \in Tokens \cup {NoToken}
BY TokensAssumption DEF MintedOn

LEMMA InitTerms == Init => TermsInv
<1> SUFFICES ASSUME Init PROVE TermsInv
  OBVIOUS
<1>1. ListsOffered
  BY DEF Init, ListsOffered
<1>2. MatchedByCircle
  BY MintedType DEF Init, MatchedByCircle
<1>3. PayloadsAsked /\ CreditsAsked
  BY DEF Init, PayloadsAsked, CreditsAsked
<1> QED
  BY <1>1, <1>2, <1>3, InitFInv DEF TermsInv

\* Lists are only added to what was offered.
LEMMA AskedStays ==
  ASSUME TermsInv, \A p \in Payables : offered[p] \subseteq offered'[p],
         UNCHANGED <<vaas, payablePayments>>
  PROVE  PayloadsAsked' /\ CreditsAsked'
<1>1. ASSUME NEW p \in Payables, NEW t, NEW a, Asked(offered[p], t, a)
      PROVE  Asked(offered'[p], t, a)
  BY <1>1 DEF Asked
<1>2. PayloadsAsked'
  <2> SUFFICES ASSUME NEW v \in vaas
               PROVE  /\ v.payableId \in Payables
                      /\ CircleTokenMatches(HomeOf[v.payableId], v) =>
                           Asked(offered'[v.payableId], v.payableChainToken, v.amount)
    BY DEF PayloadsAsked, CircleTokenMatches, Asked
  <2> QED
    BY <1>1 DEF TermsInv, PayloadsAsked
<1>3. CreditsAsked'
  <2> SUFFICES ASSUME NEW d \in Chains, NEW r \in payablePayments[d]
               PROVE  /\ r.payable \in Payables
                      /\ Asked(offered'[r.payable], r.token, r.amount)
    BY DEF CreditsAsked, Asked
  <2> QED
    BY <1>1 DEF TermsInv, CreditsAsked
<1> QED
  BY <1>2, <1>3

LEMMA HostTerms == ASSUME TermsInv, HostNext PROVE TermsInv'
<1>1. PICK p \in Payables, terms \in Terms : SetTerms(p, terms)
  <2>1. payables \in [Payables -> Terms]
    BY DEF TermsInv, FInv, TermsTyped
  <2> QED
    BY <2>1 DEF HostNext, ClosePayable, ReopenPayable,
                UpdatePayableAllowedTokensAndAmounts, Terms
<1>2. /\ payables' = [payables EXCEPT ![p] = terms]
      /\ offered' = [offered EXCEPT ![p] = offered[p] \cup {terms.allowed}]
      /\ UNCHANGED <<foreignPayables, localToken, foreignToken, vaas, payablePayments>>
  BY <1>1 DEF SetTerms, tokenVars, sentVars, receivedVars
<1>3. /\ payables \in [Payables -> Terms] /\ ListsOffered
  BY DEF TermsInv, FInv, TermsTyped
<1>4. \A q \in Payables :
        offered'[q] = IF q = p THEN offered[p] \cup {terms.allowed} ELSE offered[q]
  BY <1>2, <1>3 DEF ListsOffered
<1>5. ListsOffered'
  <2>1. offered' = [q \in Payables |-> offered'[q]]
    BY <1>2, <1>3 DEF ListsOffered
  <2>2. \A q \in Payables : payables'[q].allowed \in offered'[q]
    BY <1>2, <1>3, <1>4 DEF ListsOffered
  <2>3. \A c \in Chains, q \in Payables : foreignPayables'[c][q].allowed \in offered'[q]
    BY <1>2, <1>3, <1>4 DEF ListsOffered
  <2> QED
    BY <2>1, <2>2, <2>3 DEF ListsOffered
<1>6. PayloadsAsked' /\ CreditsAsked'
  BY <1>2, <1>4, AskedStays
<1>7. MatchedByCircle'
  BY <1>2 DEF TermsInv, MatchedByCircle
<1> QED
  BY <1>5, <1>6, <1>7, HostStep DEF TermsInv

\* One match changes, into what Circle makes or into nothing.
LEMMA MatchChanged ==
  ASSUME MatchedByCircle, NEW c \in Chains, NEW d \in Chains,
         NEW t \in Tokens, NEW x \in Tokens,
         NEW y \in {NoToken, MintedOn(d, t, c)}, NEW z \in {NoToken, MintedOn(c, x, d)},
         localToken' = [localToken EXCEPT ![c][d][t] = y],
         foreignToken' = [foreignToken EXCEPT ![c][x][d] = z]
  PROVE  MatchedByCircle'
<1> DEFINE Address == Tokens \cup {NoToken}
<1>1. y \in Address /\ z \in Address
  BY MintedType
<1>2. /\ localToken \in [Chains -> [Chains -> [Tokens -> Address]]]
      /\ foreignToken \in [Chains -> [Tokens -> [Chains -> Address]]]
      /\ \A b, e \in Chains, s \in Tokens :
           /\ localToken[b][e][s] \in {NoToken, MintedOn(e, s, b)}
           /\ foreignToken[b][s][e] \in {NoToken, MintedOn(b, s, e)}
  BY DEF MatchedByCircle
<1> HIDE DEF Address
<1>3. /\ localToken' \in [Chains -> [Chains -> [Tokens -> Address]]]
      /\ foreignToken' \in [Chains -> [Tokens -> [Chains -> Address]]]
  BY <1>1, <1>2
<1>4. ASSUME NEW b \in Chains, NEW e \in Chains, NEW s \in Tokens
      PROVE  /\ localToken'[b][e][s] =
                  IF b = c /\ e = d /\ s = t THEN y ELSE localToken[b][e][s]
             /\ foreignToken'[b][s][e] =
                  IF b = c /\ e = d /\ s = x THEN z ELSE foreignToken[b][s][e]
  BY <1>2
<1>5. ASSUME NEW b \in Chains, NEW e \in Chains, NEW s \in Tokens
      PROVE  /\ localToken'[b][e][s] \in {NoToken, MintedOn(e, s, b)}
             /\ foreignToken'[b][s][e] \in {NoToken, MintedOn(b, s, e)}
  <2>1. localToken'[b][e][s] \in {NoToken, MintedOn(e, s, b)}
    BY <1>2, <1>4
  <2>2. foreignToken'[b][s][e] \in {NoToken, MintedOn(b, s, e)}
    BY <1>2, <1>4
  <2> QED
    BY <2>1, <2>2
<1> QED
  BY <1>3, <1>5 DEF MatchedByCircle, Address

\* The owners match tokens as Circle does.
LEMMA OwnerTerms == ASSUME TermsInv, OwnerNext, MintingIsMutual PROVE TermsInv'
<1>1. UNCHANGED <<payables, offered, foreignPayables, vaas, payablePayments>>
  BY DEF OwnerNext, SetPaused, RegisterMatchingTokenForForeignChain,
         UnregisterMatchingTokenForForeignChain, termVars, sentVars, receivedVars
<1>2. ListsOffered'
  BY <1>1 DEF TermsInv, ListsOffered
<1>3. PayloadsAsked' /\ CreditsAsked'
  BY <1>1, AskedStays
<1>4. MatchedByCircle
  BY DEF TermsInv
<1>5. ASSUME NEW c \in Chains, NEW d \in Chains, NEW t \in Tokens, MintedOn(d, t, c) # NoToken,
             RegisterMatchingTokenForForeignChain(c, d, t, MintedOn(d, t, c))
      PROVE  MatchedByCircle'
  <2> DEFINE x == MintedOn(d, t, c)
  <2>1. x \in Tokens
    BY <1>5, MintedType
  <2>2. MintedOn(c, x, d) = t
    BY <1>5 DEF MintingIsMutual
  <2>3. /\ localToken' = [localToken EXCEPT ![c][d][t] = x]
        /\ foreignToken' = [foreignToken EXCEPT ![c][x][d] = t]
    BY <1>5 DEF RegisterMatchingTokenForForeignChain
  <2>4. x = MintedOn(d, t, c)
    OBVIOUS
  <2> HIDE DEF x
  <2> QED
    BY <1>4, <2>1, <2>2, <2>3, <2>4, MatchChanged
<1>6. ASSUME NEW c \in Chains, NEW d \in Chains, NEW t \in Tokens,
             UnregisterMatchingTokenForForeignChain(c, d, t)
      PROVE  MatchedByCircle'
  <2> DEFINE x == localToken[c][d][t]
  <2>1. x \in Tokens
    BY <1>4, <1>6 DEF MatchedByCircle, UnregisterMatchingTokenForForeignChain
  <2>2. /\ localToken' = [localToken EXCEPT ![c][d][t] = NoToken]
        /\ foreignToken' = [foreignToken EXCEPT ![c][x][d] = NoToken]
    BY <1>6 DEF UnregisterMatchingTokenForForeignChain
  <2> HIDE DEF x
  <2> QED
    BY <1>4, <2>1, <2>2, MatchChanged
<1>7. ASSUME NEW c \in Chains, SetPaused(c) PROVE MatchedByCircle'
  BY <1>4, <1>7 DEF SetPaused, tokenVars, MatchedByCircle
<1>8. \A t \in Rematched : t \in Tokens
  BY TokensAssumption
<1>9. MatchedByCircle'
  BY <1>5, <1>6, <1>7, <1>8 DEF OwnerNext
<1> QED
  BY <1>2, <1>3, <1>9, OwnerStep DEF TermsInv

LEMMA CopyTerms ==
  ASSUME TermsInv, NEW c \in Chains, NEW p \in Payables, UpdateCopy(c, p)
  PROVE  TermsInv'
<1>1. /\ foreignPayables' =
           [foreignPayables EXCEPT ![c] = [foreignPayables[c] EXCEPT ![p] = payables[p]]]
      /\ UNCHANGED <<payables, offered, localToken, foreignToken, vaas, payablePayments>>
  BY DEF UpdateCopy, termVars, tokenVars, sentVars, receivedVars
<1>2. foreignPayables \in [Chains -> [Payables -> Terms]] /\ ListsOffered
  BY DEF TermsInv, FInv, TermsTyped
<1>3. \A d \in Chains, q \in Payables :
        foreignPayables'[d][q] = IF d = c /\ q = p THEN payables[p] ELSE foreignPayables[d][q]
  BY <1>1, <1>2
<1>4. ListsOffered'
  BY <1>1, <1>2, <1>3 DEF ListsOffered
<1>5. PayloadsAsked' /\ CreditsAsked'
  BY <1>1, AskedStays
<1>6. MatchedByCircle'
  BY <1>1 DEF TermsInv, MatchedByCircle
<1> QED
  BY <1>4, <1>5, <1>6, CopyStep DEF TermsInv

\* A payload is for the token of the list or fails the test of its tokens.
LEMMA PayTerms ==
  ASSUME TermsInv, MintingIsMutual, NoCrossedTokens,
         NEW c \in Chains, NEW payer \in Payers, NEW p \in Payables,
         NEW token \in Tokens, NEW amount \in Amounts,
         PayForeignWithCircle(c, payer, p, token, amount)
  PROVE  TermsInv'
<1> DEFINE home == HomeOf[p]
           back == foreignToken[c][token][home]
           v == [payableId |-> p, payableChainToken |-> token,
                 payableChainId |-> home, payer |-> payer,
                 payerChainToken |-> back,
                 payerChainId |-> c, amount |-> amount,
                 circleNonce |-> NextCircleNonce(c)]
           list == foreignPayables[c][p].allowed
<1>1. /\ vaas' = vaas \cup {v}
      /\ TermsAllow(c, p, token, amount)
      /\ UNCHANGED <<payables, offered, foreignPayables, localToken, foreignToken,
                     payablePayments>>
  BY DEF PayForeignWithCircle, ToUint64, termVars, tokenVars, receivedVars
<1>2. home \in Chains /\ list \in offered[p] /\ MatchedByCircle
  BY HomesAssumption DEF TermsInv, ListsOffered
<1>3. /\ v.payableId = p /\ v.payableChainToken = token /\ v.amount = amount
      /\ v.payerChainToken = back /\ v.payerChainId = c
  OBVIOUS
<1> HIDE DEF v
<1>4. ASSUME CircleTokenMatches(home, v) PROVE Asked(offered[p], token, amount)
  <2>1. back # NoToken /\ MintedOn(c, back, home) = token
    BY <1>3, <1>4 DEF CircleTokenMatches
  <2>2. back = MintedOn(c, token, home)
    BY <1>2, <2>1 DEF MatchedByCircle
  <2>3. back = token
    BY <1>2, <2>1, <2>2 DEF NoCrossedTokens
  <2>4. CASE list = {}
    BY <1>2, <2>4 DEF Asked
  <2>5. CASE list # {}
    <3>1. PICK ataa \in list : localToken[c][home][ataa.token] = token /\ ataa.amount = amount
      BY <1>1, <2>5 DEF TermsAllow
    <3>2. ataa \in [token : Tokens, amount : Amounts]
      <4>1. foreignPayables[c][p] \in Terms
        BY DEF TermsInv, FInv, TermsTyped
      <4> QED
        BY <4>1, NumbersAssumption DEF Terms
    <3>3. ataa.token \in Tokens /\ ataa = [token |-> ataa.token, amount |-> ataa.amount]
      BY <3>2
    <3>4. token = MintedOn(home, ataa.token, c)
      BY <1>2, <3>1, <3>3, TokensAssumption DEF MatchedByCircle
    <3>5. MintedOn(c, token, home) = ataa.token
      BY <1>2, <3>3, <3>4, TokensAssumption DEF MintingIsMutual
    <3>6. [token |-> token, amount |-> amount] \in list
      BY <2>2, <2>3, <3>1, <3>3, <3>5
    <3> QED
      BY <1>2, <3>6 DEF Asked
  <2> QED
    BY <2>4, <2>5
<1>5. PayloadsAsked'
  <2> SUFFICES ASSUME NEW w \in vaas'
               PROVE  /\ w.payableId \in Payables
                      /\ CircleTokenMatches(HomeOf[w.payableId], w) =>
                           Asked(offered[w.payableId], w.payableChainToken, w.amount)
    BY <1>1 DEF PayloadsAsked, CircleTokenMatches, Asked
  <2>1. CASE w \in vaas
    BY <2>1 DEF TermsInv, PayloadsAsked
  <2>2. CASE w = v
    BY <1>3, <1>4, <2>2
  <2> QED
    BY <1>1, <2>1, <2>2
<1>6. ListsOffered' /\ MatchedByCircle' /\ CreditsAsked'
  BY <1>1 DEF TermsInv, ListsOffered, MatchedByCircle, CreditsAsked, Asked
<1> QED
  BY <1>5, <1>6, PayStep DEF TermsInv

\* A credit is for what its payload was for.
LEMMA ReceiveTerms ==
  ASSUME TermsInv, NEW d \in Chains, NEW payload \in vaas, NEW burn \in burns,
         ReceiveForeignPaymentWithCircle(d, payload, burn)
  PROVE  TermsInv'
<1> DEFINE r == PayablePayment(d, payload)
<1>1. /\ payablePayments' = [payablePayments EXCEPT ![d] = payablePayments[d] \cup {r}]
      /\ HomeOf[payload.payableId] = d /\ CircleTokenMatches(d, payload)
      /\ UNCHANGED <<payables, offered, foreignPayables, localToken, foreignToken, vaas>>
  BY DEF ReceiveForeignPaymentWithCircle, Exists, termVars, tokenVars, sentVars
<1>2. /\ r.payable = payload.payableId /\ r.token = payload.payableChainToken
      /\ r.amount = payload.amount
  BY DEF PayablePayment
<1> HIDE DEF r
<1>3. r.payable \in Payables /\ Asked(offered[r.payable], r.token, r.amount)
  BY <1>1, <1>2 DEF TermsInv, PayloadsAsked
<1>4. CreditsAsked'
  <2>1. payablePayments = [e \in Chains |-> payablePayments[e]]
    BY DEF TermsInv, FInv, CreditsBacked
  <2> SUFFICES ASSUME NEW e \in Chains, NEW s \in payablePayments'[e]
               PROVE  s.payable \in Payables /\ Asked(offered[s.payable], s.token, s.amount)
    BY <1>1 DEF CreditsAsked, Asked
  <2>2. s \in payablePayments[e] \/ s = r
    BY <1>1, <2>1
  <2> QED
    BY <1>3, <2>2 DEF TermsInv, CreditsAsked
<1>5. ListsOffered' /\ MatchedByCircle' /\ PayloadsAsked'
  BY <1>1 DEF TermsInv, ListsOffered, MatchedByCircle, PayloadsAsked, CircleTokenMatches, Asked
<1> QED
  BY <1>4, <1>5, ReceiveStep DEF TermsInv

LEMMA DirectTerms ==
  ASSUME TermsInv, NEW d \in Chains, NEW burn \in burns, RedeemDirectly(d, burn)
  PROVE  TermsInv'
<1>1. UNCHANGED <<payables, offered, foreignPayables, localToken, foreignToken, vaas,
                  payablePayments>>
  BY DEF RedeemDirectly, termVars, tokenVars, sentVars
<1>2. PayloadsAsked' /\ CreditsAsked'
  BY <1>1, AskedStays
<1>3. ListsOffered' /\ MatchedByCircle'
  BY <1>1 DEF TermsInv, ListsOffered, MatchedByCircle
<1> QED
  BY <1>2, <1>3, DirectStep DEF TermsInv

LEMMA StepTerms ==
  ASSUME MintingIsMutual, NoCrossedTokens
  PROVE  TermsInv /\ [Next]_vars => TermsInv'
<1> SUFFICES ASSUME TermsInv, [Next]_vars PROVE TermsInv'
  OBVIOUS
<1>1. CASE HostNext
  BY <1>1, HostTerms
<1>2. CASE OwnerNext
  BY <1>2, OwnerTerms
<1>3. CASE \E c \in Chains, p \in Payables :
             \/ UpdateCopy(c, p)
             \/ \E payer \in Payers, t \in Tokens, a \in Amounts :
                  PayForeignWithCircle(c, payer, p, t, a)
  BY <1>3, CopyTerms, PayTerms
<1>4. CASE \E d \in Chains, burn \in burns :
             \/ RedeemDirectly(d, burn)
             \/ \E payload \in vaas : ReceiveForeignPaymentWithCircle(d, payload, burn)
  BY <1>4, DirectTerms, ReceiveTerms
<1>5. CASE UNCHANGED vars
  <2>1. UNCHANGED <<payables, offered, foreignPayables, localToken, foreignToken, vaas,
                    payablePayments>>
    BY <1>5 DEF vars, termVars, tokenVars, sentVars, receivedVars
  <2>2. ListsOffered' /\ MatchedByCircle'
    BY <2>1 DEF TermsInv, ListsOffered, MatchedByCircle
  <2>3. PayloadsAsked' /\ CreditsAsked'
    BY <2>1, AskedStays
  <2>4. FInv'
    BY <1>5, StepFInv DEF TermsInv
  <2> QED
    BY <2>2, <2>3, <2>4 DEF TermsInv
<1> QED
  BY <1>1, <1>2, <1>3, <1>4, <1>5 DEF Next

\* Whatever the hosts and owners change while payments are under way, what a
\* payable is credited was on a list of its host, provided that Circle's tokens
\* are mutual and uncrossed.
THEOREM TermsAlwaysKept ==
  ASSUME MintingIsMutual, NoCrossedTokens
  PROVE  Spec => []TermsKept
<1>1. Init => TermsInv
  BY InitTerms
<1>2. TermsInv /\ [Next]_vars => TermsInv'
  BY StepTerms
<1>3. TermsInv => TermsKept
  BY TermsInvKept
<1> QED
  BY <1>1, <1>2, <1>3, PTL DEF Spec

-----------------------------------------------------------------------------
(* What was credited is there.  A payment is credited in the step in which *)
(* Circle mints its burn, with the amount of the burn (BurnsTold) and in    *)
(* the token Circle makes of it (PayloadsSwapped); nothing else is credited *)
(* across chains, and the sum grows by that payment alone, which is new.    *)

HeldTyped == held \in [Chains -> [Tokens -> Nat]]

\* A burn is of a payment that was made, and its payload says what it burns:
\* its token and its amount.  The payload's other token is what Circle makes
\* of it, if the owners had matched the two.
BurnsTold ==
  /\ \A b \in burns :
       /\ b.sender \in Chains /\ b.nonce \in Nat /\ b.amount \in Nat
       /\ b.nonce <= Cardinality(userPayments[b.sender])
  /\ \A b \in burns, v \in vaas :
       b.sender = v.payerChainId /\ b.nonce = v.circleNonce =>
         b.token = v.payableChainToken /\ b.amount = v.amount

PayloadsSwapped ==
  \A v \in vaas :
    /\ v.payerChainId \in Chains /\ v.payableChainToken \in Tokens
    /\ v.circleNonce \in Nat
    /\ v.circleNonce <= Cardinality(userPayments[v.payerChainId])
    /\ v.payerChainToken \in
         {NoToken, MintedOn(v.payerChainId, v.payableChainToken, HomeOf[v.payableId])}

AmountsCredited == \A d \in Chains : \A r \in payablePayments[d] : r.amount \in Nat

BackInv ==
  TermsInv /\ HeldTyped /\ BurnsTold /\ PayloadsSwapped /\ AmountsCredited /\ Backed

LEMMA InitBack == Init => BackInv
<1> SUFFICES ASSUME Init PROVE BackInv
  OBVIOUS
<1>1. HeldTyped /\ BurnsTold /\ PayloadsSwapped /\ AmountsCredited
  BY DEF Init, HeldTyped, BurnsTold, PayloadsSwapped, AmountsCredited
<1>2. ASSUME NEW d \in Chains, NEW t \in Tokens PROVE CreditedIn(d, t) = held[d][t]
  <2>1. {r \in payablePayments[d] : r.token = t} = {}
    BY DEF Init
  <2>2. CreditedIn(d, t) = 0
    BY <2>1, SumEmpty DEF CreditedIn
  <2> QED
    BY <2>2 DEF Init
<1>3. Backed
  BY <1>1, <1>2 DEF Backed, HeldTyped
<1> QED
  BY <1>1, <1>3, InitTerms DEF BackInv

LEMMA BackKept ==
  ASSUME BackInv, UNCHANGED <<sentVars, payablePayments, held>>
  PROVE  HeldTyped' /\ BurnsTold' /\ PayloadsSwapped' /\ AmountsCredited' /\ Backed'
BY DEF BackInv, sentVars, HeldTyped, BurnsTold, PayloadsSwapped, AmountsCredited, Backed,
       CreditedIn

LEMMA PayBack ==
  ASSUME BackInv, NEW c \in Chains, NEW payer \in Payers, NEW p \in Payables,
         NEW token \in Tokens, NEW amount \in Amounts,
         PayForeignWithCircle(c, payer, p, token, amount)
  PROVE  HeldTyped' /\ BurnsTold' /\ PayloadsSwapped' /\ AmountsCredited' /\ Backed'
<1> DEFINE home == HomeOf[p]
           n == NextCircleNonce(c)
           u == [payable |-> p, payer |-> payer, token |-> token, amount |-> amount,
                 circleNonce |-> n]
           b == [sourceDomain |-> CircleDomain[c], targetDomain |-> DomainOf(c, home),
                 nonce |-> n, sender |-> c, recipient |-> home, token |-> token,
                 amount |-> amount]
           v == [payableId |-> p, payableChainToken |-> token, payableChainId |-> home,
                 payer |-> payer, payerChainToken |-> foreignToken[c][token][home],
                 payerChainId |-> c, amount |-> amount, circleNonce |-> n]
<1>1. /\ userPayments' = [userPayments EXCEPT ![c] = userPayments[c] \cup {u}]
      /\ burns' = burns \cup {b}
      /\ vaas' = vaas \cup {v}
      /\ UNCHANGED <<payablePayments, held>>
  BY DEF PayForeignWithCircle, ToUint64, receivedVars
<1>2. /\ v.payableId = p /\ v.payableChainToken = token /\ v.amount = amount
      /\ v.payerChainToken = foreignToken[c][token][home] /\ v.payerChainId = c
      /\ v.circleNonce = n
      /\ b.sender = c /\ b.nonce = n /\ b.token = token /\ b.amount = amount
  OBVIOUS
<1>3. u.circleNonce = n
  OBVIOUS
<1> HIDE DEF u, b, v
<1>4. amount \in Nat /\ home \in Chains
  BY NumbersAssumption, HomesAssumption
<1>5. PaymentsNumbered /\ MatchedByCircle
  BY DEF BackInv, TermsInv, FInv
<1>6. /\ n \in Nat /\ n = Cardinality(userPayments[c]) + 1
      /\ u \notin userPayments[c]
      /\ Cardinality(userPayments[c]) \in Nat
      /\ Cardinality(userPayments[c] \cup {u}) = n
  <2>1. Cardinality(userPayments[c]) \in Nat
    BY <1>5, FS_CardinalityType DEF PaymentsNumbered
  <2>2. n = Cardinality(userPayments[c]) + 1
    BY DEF NextCircleNonce
  <2>3. u \notin userPayments[c]
    BY <1>3, <1>5, <2>1, <2>2 DEF PaymentsNumbered
  <2>4. IsFiniteSet(userPayments[c])
    BY <1>5 DEF PaymentsNumbered
  <2>5. Cardinality(userPayments[c] \cup {u}) = Cardinality(userPayments[c]) + 1
    BY <2>3, <2>4, FS_AddElement
  <2> HIDE DEF n
  <2> QED
    BY <2>1, <2>2, <2>3, <2>5
<1> HIDE DEF n
<1>7. \A d \in Chains :
        /\ Cardinality(userPayments[d]) \in Nat
        /\ userPayments'[d] = IF d = c THEN userPayments[c] \cup {u} ELSE userPayments[d]
  BY <1>1, <1>5, FS_CardinalityType DEF PaymentsNumbered
<1>8. \A d \in Chains : /\ Cardinality(userPayments'[d]) \in Nat
                        /\ Cardinality(userPayments[d]) <= Cardinality(userPayments'[d])
  <2> SUFFICES ASSUME NEW d \in Chains
               PROVE  /\ Cardinality(userPayments'[d]) \in Nat
                      /\ Cardinality(userPayments[d]) <= Cardinality(userPayments'[d])
    OBVIOUS
  <2>1. CASE d = c
    <3>1. Cardinality(userPayments'[c]) = Cardinality(userPayments[c]) + 1
      BY <1>6, <1>7
    <3> QED
      BY <1>6, <2>1, <3>1
  <2>2. CASE d # c
    BY <1>7, <2>2
  <2> QED
    BY <2>1, <2>2
<1>9. Cardinality(userPayments'[c]) = n
  BY <1>6, <1>7
<1>10. BurnsTold'
  <2>1. ASSUME NEW x \in burns'
        PROVE  /\ x.sender \in Chains /\ x.nonce \in Nat /\ x.amount \in Nat
               /\ x.nonce <= Cardinality(userPayments'[x.sender])
    <3>1. CASE x \in burns
      <4>1. /\ x.sender \in Chains /\ x.nonce \in Nat /\ x.amount \in Nat
            /\ x.nonce <= Cardinality(userPayments[x.sender])
        BY <3>1 DEF BackInv, BurnsTold
      <4> QED
        BY <1>7, <1>8, <4>1
    <3>2. CASE x = b
      BY <1>2, <1>4, <1>6, <1>9, <3>2
    <3> QED
      BY <1>1, <3>1, <3>2
  <2>2. ASSUME NEW x \in burns', NEW w \in vaas',
               x.sender = w.payerChainId, x.nonce = w.circleNonce
        PROVE  x.token = w.payableChainToken /\ x.amount = w.amount
    <3>1. CASE x \in burns /\ w \in vaas
      BY <2>2, <3>1 DEF BackInv, BurnsTold
    <3>2. CASE x \in burns /\ w = v
      <4>1. x.nonce <= Cardinality(userPayments[c]) /\ x.nonce = n
        BY <1>2, <2>2, <3>2 DEF BackInv, BurnsTold
      <4> QED
        BY <1>6, <4>1
    <3>3. CASE x = b /\ w \in vaas
      <4>1. w.circleNonce <= Cardinality(userPayments[c]) /\ w.circleNonce = n
        BY <1>2, <2>2, <3>3 DEF BackInv, PayloadsSwapped
      <4> QED
        BY <1>6, <4>1
    <3>4. CASE x = b /\ w = v
      BY <1>2, <3>4
    <3> QED
      BY <1>1, <3>1, <3>2, <3>3, <3>4
  <2> QED
    BY <2>1, <2>2 DEF BurnsTold
<1>11. PayloadsSwapped'
  <2> SUFFICES ASSUME NEW w \in vaas'
               PROVE  /\ w.payerChainId \in Chains /\ w.payableChainToken \in Tokens
                      /\ w.circleNonce \in Nat
                      /\ w.circleNonce <= Cardinality(userPayments'[w.payerChainId])
                      /\ w.payerChainToken \in
                           {NoToken, MintedOn(w.payerChainId, w.payableChainToken,
                                              HomeOf[w.payableId])}
    BY DEF PayloadsSwapped, MintedOn
  <2>1. CASE w \in vaas
    <3>1. /\ w.payerChainId \in Chains /\ w.payableChainToken \in Tokens
          /\ w.circleNonce \in Nat
          /\ w.circleNonce <= Cardinality(userPayments[w.payerChainId])
          /\ w.payerChainToken \in
               {NoToken, MintedOn(w.payerChainId, w.payableChainToken, HomeOf[w.payableId])}
      BY <2>1 DEF BackInv, PayloadsSwapped
    <3> QED
      BY <1>7, <1>8, <3>1
  <2>2. CASE w = v
    BY <1>2, <1>4, <1>5, <1>6, <1>9, <2>2 DEF MatchedByCircle
  <2> QED
    BY <1>1, <2>1, <2>2
<1>12. HeldTyped' /\ AmountsCredited' /\ Backed'
  BY <1>1 DEF BackInv, HeldTyped, AmountsCredited, Backed, CreditedIn
<1> QED
  BY <1>10, <1>11, <1>12

\* A redemption gives the contract the token and the amount that was burned,
\* if Circle knows the token.
LEMMA RedeemHolds ==
  ASSUME HeldTyped, BurnsTold, NEW d \in Chains, NEW burn \in burns, Redeem(d, burn)
  PROVE  /\ HeldTyped'
         /\ \A e \in Chains, t \in Tokens : held[e][t] <= held'[e][t]
         /\ MintedOn(burn.sender, burn.token, d) \in Tokens =>
              held'[d][MintedOn(burn.sender, burn.token, d)]
                = held[d][MintedOn(burn.sender, burn.token, d)] + burn.amount
<1> DEFINE m == MintedOn(burn.sender, burn.token, d)
           a == burn.amount
<1>1. a \in Nat /\ held' = [held EXCEPT ![d][m] = held[d][m] + a]
  BY DEF BurnsTold, Redeem
<1> HIDE DEF m, a
<1>2. held \in [Chains -> [Tokens -> Nat]]
  BY DEF HeldTyped
<1>3. HeldTyped'
  <2> DEFINE row == [held[d] EXCEPT ![m] = held[d][m] + a]
  <2>1. row \in [Tokens -> Nat]
    <3> DEFINE new == held[d][m] + a
    <3>1. held[d] \in [Tokens -> Nat] /\ (m \in Tokens => new \in Nat)
      BY <1>1, <1>2
    <3> HIDE DEF new
    <3>2. [held[d] EXCEPT ![m] = new] \in [Tokens -> Nat]
      BY <3>1
    <3> QED
      BY <3>2 DEF new
  <2>2. held' = [held EXCEPT ![d] = row]
    BY <1>1
  <2> HIDE DEF row
  <2> QED
    BY <1>2, <2>1, <2>2 DEF HeldTyped
<1>4. \A e \in Chains, t \in Tokens :
        held'[e][t] = IF e = d /\ t = m THEN held[d][m] + a ELSE held[e][t]
  BY <1>1, <1>2
<1>5. \A e \in Chains, t \in Tokens : held[e][t] \in Nat
  BY <1>2
<1>6. \A e \in Chains, t \in Tokens : held[e][t] <= held'[e][t]
  BY <1>1, <1>4, <1>5
<1> QED
  BY <1>3, <1>4, <1>6 DEF m, a

LEMMA ReceiveBack ==
  ASSUME BackInv, NoCrossedTokens, NEW d \in Chains, NEW payload \in vaas, NEW burn \in burns,
         ReceiveForeignPaymentWithCircle(d, payload, burn)
  PROVE  HeldTyped' /\ BurnsTold' /\ PayloadsSwapped' /\ AmountsCredited' /\ Backed'
<1> DEFINE r == PayablePayment(d, payload)
           token == payload.payableChainToken
<1>1. /\ payablePayments' = [payablePayments EXCEPT ![d] = payablePayments[d] \cup {r}]
      /\ HomeOf[payload.payableId] = d /\ CircleTokenMatches(d, payload)
      /\ Redeem(d, burn)
      /\ burn.sender = payload.payerChainId /\ burn.nonce = payload.circleNonce
      /\ UNCHANGED <<userPayments, burns, vaas>>
  BY DEF ReceiveForeignPaymentWithCircle, Exists, CircleMessageMatches, sentVars
<1>2. HeldTyped /\ BurnsTold /\ PayloadsSwapped
  BY DEF BackInv
<1>3. /\ burn.token = token /\ burn.amount = payload.amount
      /\ payload.payerChainId \in Chains /\ token \in Tokens
      /\ payload.amount \in Nat
  BY <1>1, <1>2 DEF BurnsTold, PayloadsSwapped
\* The token passes only if it has the same address on both chains.
<1>4. MintedOn(burn.sender, burn.token, d) = token
  <2>1. /\ payload.payerChainToken # NoToken
        /\ MintedOn(payload.payerChainId, payload.payerChainToken, d) = token
    BY <1>1 DEF CircleTokenMatches
  <2>2. payload.payerChainToken = MintedOn(payload.payerChainId, token, d)
    BY <1>1, <1>2, <2>1 DEF PayloadsSwapped
  <2>3. payload.payerChainToken = token
    BY <1>3, <2>1, <2>2 DEF NoCrossedTokens
  <2> QED
    BY <1>1, <1>3, <2>1, <2>3
<1>5. /\ HeldTyped'
      /\ \A e \in Chains, t \in Tokens : held[e][t] <= held'[e][t]
      /\ held'[d][token] = held[d][token] + payload.amount
  BY <1>1, <1>2, <1>3, <1>4, RedeemHolds
<1>6. BurnsTold' /\ PayloadsSwapped'
  BY <1>1, <1>2 DEF BurnsTold, PayloadsSwapped, MintedOn
<1>7. /\ r.token = token /\ r.amount = payload.amount
      /\ r.count = Cardinality(payablePayments[d]) + 1
  BY DEF PayablePayment
<1> HIDE DEF r
<1>8. /\ payablePayments = [e \in Chains |-> payablePayments[e]]
      /\ Matched(payablePayments[d], consumed[d])
      /\ \A e \in Chains : IsFiniteSet(payablePayments[e])
  BY DEF BackInv, TermsInv, FInv, CreditsBacked, Matched
<1>9. \A e \in Chains :
        payablePayments'[e] = IF e = d THEN payablePayments[d] \cup {r} ELSE payablePayments[e]
  BY <1>1, <1>8
<1>10. AmountsCredited'
  BY <1>3, <1>7, <1>9 DEF BackInv, AmountsCredited
<1>11. r \notin payablePayments[d]
  <2>1. Cardinality(payablePayments[d]) \in Nat
    BY <1>8, FS_CardinalityType
  <2>2. \A x \in payablePayments[d] :
          x.count \in Nat /\ x.count <= Cardinality(payablePayments[d])
    BY <1>8 DEF Matched
  <2> QED
    BY <1>7, <2>1, <2>2
<1>12. \A e \in Chains, t \in Tokens :
         CreditedIn(e, t) <= held[e][t] /\ held[e][t] \in Nat /\ held'[e][t] \in Nat
  BY <1>2, <1>5 DEF BackInv, Backed, HeldTyped
<1>13. ASSUME NEW e \in Chains, NEW t \in Tokens
       PROVE  CreditedIn(e, t)' <= held'[e][t]
  <2> DEFINE old == [x \in payablePayments[e] |-> x.amount]
             new == [x \in payablePayments'[e] |-> x.amount]
             S == {x \in payablePayments[e] : x.token = t}
             T == {x \in payablePayments'[e] : x.token = t}
  <2>1. CreditedIn(e, t) = SumFunctionOnSet(old, S) /\ CreditedIn(e, t)' = SumFunctionOnSet(new, T)
    BY DEF CreditedIn
  <2>2. IsFiniteSet(S) /\ \A x \in S : old[x] \in Nat /\ new[x] = old[x]
    BY <1>8, <1>9, FS_Subset DEF BackInv, AmountsCredited
  <2>3. SumFunctionOnSet(old, S) \in Nat
    BY <2>2, SumType
  <2>4. CASE T = S
    <3>1. SumFunctionOnSet(new, T) = SumFunctionOnSet(old, S)
      <4> HIDE DEF old, new, S, T
      <4> QED
        BY <2>2, <2>4, SumSame
    <3> QED
      BY <1>5, <1>12, <2>1, <2>3, <3>1
  <2>5. CASE T # S
    <3>1. e = d /\ t = token /\ T = S \cup {r} /\ r \notin S /\ new[r] = payload.amount
      BY <1>7, <1>9, <1>11, <2>5
    <3>2. SumFunctionOnSet(new, T) = payload.amount + SumFunctionOnSet(new, S)
      <4>1. \A x \in S \cup {r} : new[x] \in Nat
        BY <1>3, <2>2, <3>1
      <4> HIDE DEF old, new, S, T
      <4> QED
        BY <2>2, <3>1, <4>1, SumWith
    <3>3. SumFunctionOnSet(new, S) = SumFunctionOnSet(old, S)
      <4> HIDE DEF old, new, S, T
      <4> QED
        BY <2>2, SumSame
    <3> HIDE DEF old, new, S, T
    <3> QED
      BY <1>3, <1>5, <1>12, <2>1, <2>3, <3>1, <3>2, <3>3
  <2> QED
    BY <2>4, <2>5
<1> QED
  BY <1>5, <1>6, <1>10, <1>13 DEF Backed

LEMMA DirectBack ==
  ASSUME BackInv, NEW d \in Chains, NEW burn \in burns, RedeemDirectly(d, burn)
  PROVE  HeldTyped' /\ BurnsTold' /\ PayloadsSwapped' /\ AmountsCredited' /\ Backed'
<1>1. Redeem(d, burn) /\ UNCHANGED <<userPayments, burns, vaas, payablePayments>>
  BY DEF RedeemDirectly, sentVars
<1>2. HeldTyped /\ BurnsTold
  BY DEF BackInv
<1>3. HeldTyped' /\ \A e \in Chains, t \in Tokens : held[e][t] <= held'[e][t]
  BY <1>1, <1>2, RedeemHolds
<1>4. BurnsTold' /\ PayloadsSwapped' /\ AmountsCredited'
  BY <1>1 DEF BackInv, BurnsTold, PayloadsSwapped, AmountsCredited, MintedOn
<1>5. ASSUME NEW e \in Chains, NEW t \in Tokens
      PROVE  CreditedIn(e, t)' <= held'[e][t]
  <2> DEFINE f == [x \in payablePayments[e] |-> x.amount]
             S == {x \in payablePayments[e] : x.token = t}
  <2>1. CreditedIn(e, t) = SumFunctionOnSet(f, S) /\ CreditedIn(e, t)' = SumFunctionOnSet(f, S)
    BY <1>1 DEF CreditedIn
  <2>2. IsFiniteSet(S) /\ \A x \in S : f[x] \in Nat
    BY FS_Subset DEF BackInv, TermsInv, FInv, CreditsBacked, Matched, AmountsCredited
  <2>3. SumFunctionOnSet(f, S) \in Nat
    BY <2>2, SumType
  <2>4. CreditedIn(e, t) <= held[e][t] /\ held[e][t] \in Nat /\ held'[e][t] \in Nat
    BY <1>2, <1>3 DEF BackInv, Backed, HeldTyped
  <2> HIDE DEF f, S
  <2> QED
    BY <1>3, <2>1, <2>3, <2>4
<1> QED
  BY <1>3, <1>4, <1>5 DEF Backed

LEMMA StepBack ==
  ASSUME MintingIsMutual, NoCrossedTokens
  PROVE  BackInv /\ [Next]_vars => BackInv'
<1> SUFFICES ASSUME BackInv, [Next]_vars
             PROVE  HeldTyped' /\ BurnsTold' /\ PayloadsSwapped' /\ AmountsCredited' /\ Backed'
  BY StepTerms DEF BackInv
<1>1. CASE HostNext
  BY <1>1, BackKept DEF HostNext, ClosePayable, ReopenPayable,
       UpdatePayableAllowedTokensAndAmounts, SetTerms, receivedVars
<1>2. CASE OwnerNext
  BY <1>2, BackKept DEF OwnerNext, SetPaused, RegisterMatchingTokenForForeignChain,
       UnregisterMatchingTokenForForeignChain, receivedVars
<1>3. CASE \E c \in Chains, p \in Payables :
             \/ UpdateCopy(c, p)
             \/ \E payer \in Payers, t \in Tokens, a \in Amounts :
                  PayForeignWithCircle(c, payer, p, t, a)
  <2>1. ASSUME NEW c \in Chains, NEW p \in Payables, UpdateCopy(c, p)
        PROVE  UNCHANGED <<sentVars, payablePayments, held>>
    BY <2>1 DEF UpdateCopy, receivedVars
  <2> QED
    BY <1>3, <2>1, BackKept, PayBack
<1>4. CASE \E d \in Chains, burn \in burns :
             \/ RedeemDirectly(d, burn)
             \/ \E payload \in vaas : ReceiveForeignPaymentWithCircle(d, payload, burn)
  BY <1>4, DirectBack, ReceiveBack
<1>5. CASE UNCHANGED vars
  BY <1>5, BackKept DEF vars, receivedVars
<1> QED
  BY <1>1, <1>2, <1>3, <1>4, <1>5 DEF Next

\* What payables were credited across chains is in the contract's own hands,
\* token by token, however many payments there are and whatever burns are
\* handed to Circle without their payloads.
THEOREM AlwaysBacked ==
  ASSUME MintingIsMutual, NoCrossedTokens
  PROVE  Spec => []Backed
<1>1. Init => BackInv
  BY InitBack
<1>2. BackInv /\ [Next]_vars => BackInv'
  BY StepBack
<1>3. BackInv => Backed
  BY DEF BackInv
<1> QED
  BY <1>1, <1>2, <1>3, PTL DEF Spec
=============================================================================
