CONSTANTS
  here = here
  there = there
  rent = rent
  shop = shop
  exact = exact
  NoChain = NoChain
  NoCall = NoCall
  AnyPayment = AnyPayment
  Chains <- MCChains
  Payables <- MCTwoPayables
  HomeOf <- MCHomeOf
  CircleDomain <- DomainsFromOne
  AllowedLists <- MCLists
  InitialConfigs <- MCBoth
  OwnerProtocols <- MCNone
  Snapshots <- MCNone
  MaxUpdates = 3

SPECIFICATION FairSpec
INVARIANTS TypeOK InOrderCopyIsExact CopiesNameTheirHome
PROPERTY NewestUpdateLands
