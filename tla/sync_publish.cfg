CONSTANTS
  here = here
  there = there
  rent = rent
  shop = shop
  exact = exact
  NoChain = NoChain
  NoCall = NoCall
  AnyPayment = AnyPayment
  Chains <- MCChains
  Payables <- MCOnePayable
  HomeOf <- MCHomeOf
  CircleDomain <- DomainsFromOne
  AllowedLists <- MCAnyList
  InitialConfigs <- MCBoth
  OwnerProtocols <- MCNone
  Snapshots <- MCNone
  MaxUpdates = 3

SPECIFICATION Spec
INVARIANT SnapshotIsCurrent
