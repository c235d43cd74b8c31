CONSTANTS
  sepolia = sepolia
  arc = arc
  rent = rent
  ann = ann
  usdc = usdc
  eurc = eurc
  eurcArc = eurcArc
  NoToken = NoToken
  Chains <- MCChains
  Payables <- MCPayables
  HomeOf <- MCHomeOf
  Payers <- MCOnePayer
  Tokens <- MCTokens
  Supported <- MCSupported
  Minted <- MCMinted
  CircleDomain <- SepoliaIsZero
  OwnDomainKnown <- MCNone
  Amounts <- MCAmounts
  MaxUint64 = 2
  Rematched <- MCEurc
  AllowedLists <- MCMixedLists
  MaxPayments = 2

SPECIFICATION FairSpec
INVARIANTS TypeOK CreditedAsPaid RedeemedTogether Backed TermsKept
PROPERTY PaymentsArrive
