CONSTANTS
  sepolia = sepolia
  arc = arc
  rent = rent
  ann = ann
  usdc = usdc
  eurc = eurc
  eurcArc = eurcArc
  NoToken = NoToken
  Chains <- MCChains
  Payables <- MCPayables
  HomeOf <- MCHomeOf
  Payers <- MCOnePayer
  Tokens <- MCTokens
  Supported <- MCSupported
  Minted <- MCMinted
  CircleDomain <- SepoliaIsZero
  OwnDomainKnown <- MCNone
  Amounts <- MCOneAndTwo
  MaxUint64 = 2
  Rematched <- MCNone
  AllowedLists <- MCAnything
  MaxPayments = 1

SPECIFICATION FairSpec
PROPERTY EveryPaymentArrives
