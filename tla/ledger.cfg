CONSTANTS
  host = host
  payer = payer
  eth = eth
  usdc = usdc
  vaa1 = vaa1
  vaa2 = vaa2
  burn1 = burn1
  burn2 = burn2
  NoAddress = NoAddress
  Tokens <- MCTokens
  Native = eth
  Users <- MCUsers
  Amounts = {1, 2}
  AllowedLists <- MCAllowedLists
  InitialFeePercents = {20000}
  FeePercents = {5000, 30000}
  FeeCaps = {2}
  FeeCollectors = {payer, NoAddress}
  Inbound <- MCOneInbound
  MaxPayables = 1
  MaxActivities = 4

  atom = atom
  cw20 = cw20
  CwUsers <- MCUsers
  NoWallet = NoAddress
  CwTokens = {atom, cw20}
  Denoms = {atom}
  CwAmounts = {1, 3}
  FeePercentage = 7500
  CwAllowedLists <- MCCwAllowedLists
  MaxFees = {1}
  MaxCwPayables = 2
  MaxCwActivities = 6
  MaxStray = 1

SPECIFICATION FairLedgersSpec
INVARIANTS TypesOK Solvent TotalsAreTrue  ActivityIdsMatchCounters 
  PayoutCanFinish CwListsMatchCounts CwMoneyAddsUp
PROPERTIES ImplementsEscrow PayoutCompletes CwImplementsEscrow

