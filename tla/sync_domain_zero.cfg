CONSTANTS
  here = here
  there = there
  rent = rent
  shop = shop
  exact = exact
  NoChain = NoChain
  NoCall = NoCall
  AnyPayment = AnyPayment
  Chains <- MCChains
  Payables <- MCOnePayable
  HomeOf <- MCHomeOf
  CircleDomain <- DomainsWithZero
  AllowedLists <- MCAnyList
  InitialConfigs <- MCCctpOnly
  OwnerProtocols <- MCNone
  Snapshots <- MCNone
  MaxUpdates = 1

SPECIFICATION Spec
PROPERTY BroadcastReachesEveryChain
