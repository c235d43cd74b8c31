CONSTANTS
  here = here
  there = there
  rent = rent
  shop = shop
  exact = exact
  NoChain = NoChain
  NoCall = NoCall
  AnyPayment = AnyPayment
  Chains <- MCChains
  Payables <- MCOnePayable
  HomeOf <- MCHomeOf
  CircleDomain <- DomainsFromOne
  AllowedLists <- MCAnyList
  InitialConfigs <- MCCctpOnly
  OwnerProtocols <- MCNone
  Snapshots <- MCNone
  MaxUpdates = 1

SPECIFICATION ManualSpec
PROPERTY ManualRelayLands
