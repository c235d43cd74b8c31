CONSTANTS
  sepolia = sepolia
  mega = mega
  arc = arc
  rent = rent
  create = create
  close = close
  pay = pay
  abroad = abroad
  UnknownChain = UnknownChain
  Chains <- MCTwoChains
  Txs <- MCReceipts
  SourceChain <- MCFromSepolia
  EventsOf <- MCEventsOf
  Payables <- MCPayables
  HasWormhole <- MCWormhole
  HasCctp <- MCCctp
  BatchSize = 2
  MAX_ATTEMPTS = 1

SPECIFICATION Spec
INVARIANT CursorCoversReceipts
