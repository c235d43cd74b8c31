CONSTANTS
  sepolia = sepolia
  mega = mega
  arc = arc
  rent = rent
  create = create
  close = close
  pay = pay
  abroad = abroad
  UnknownChain = UnknownChain
  Chains <- MCThreeChains
  Txs <- MCCreate
  SourceChain <- MCFromSepolia
  EventsOf <- MCEventsOf
  Payables <- MCPayables
  HasWormhole <- MCWormhole
  HasCctp <- MCCctp
  BatchSize = 2
  MAX_ATTEMPTS = 2

SPECIFICATION FairSpec
INVARIANTS TypeOK CursorCoversJobs OneJobPerDestination
PROPERTIES ImplementsQueue JobsEnd EventsGetJobs
