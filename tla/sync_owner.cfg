CONSTANTS
  here = here
  there = there
  rent = rent
  shop = shop
  exact = exact
  NoChain = NoChain
  NoCall = NoCall
  AnyPayment = AnyPayment
  Chains <- MCChains
  Payables <- MCOnePayable
  HomeOf <- MCHomeOf
  CircleDomain <- DomainsFromOne
  AllowedLists <- MCAnyList
  InitialConfigs <- MCReadyOrNot
  OwnerProtocols <- MCCctpProtocol
  Snapshots <- MCSnapshots
  MaxUpdates = 2

SPECIFICATION Spec
INVARIANTS NoncesIdentifyUpdates AppliedOnceInOrder OneProtocolPerUpdate
