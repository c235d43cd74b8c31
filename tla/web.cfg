\* The web parts, one at a time.
SPECIFICATION Spec
SYMMETRY WebSymmetry
CHECK_DEADLOCK FALSE
CONSTANTS
  bill = bill
  alice = alice
  bob = bob
  near = near
  far = far
  elsewhere = elsewhere
  nothing = nothing
  PayableIds = {bill}
  ChainOf <- WebChainOf
  DocChains = {near, far}
  ServerChains = {near, far}
  HostWallets = {alice, bob}
  Nobody = nothing
  Nowhere = nothing
  Headers <- AnyHeaders
  Requests = {1, 2}
  Indexers = {1, 2}
  MaxFailures = 2
  PaidPayables = {bill}
  Hosts = {alice, bob}
  NoHost = nothing
  Devices = {1, 2}
  TokenPosts = {1, 2}
  Notifiers = {1, 2}
  Addresses = {alice, bob}
  AppChains = {near, far}
  OtherChain = elsewhere
  WalletAccounts <- WebAccounts
  NoAccount = nothing
  Updates = {u1, u2}
  MaxChanges = 2
  PayableChain = near
  Prices = {2}
  Clicks = {c1, c2}
  Categories = {"payments", "withdrawals"}
  RowOptions = {1, 2}
  Reads = {r1, r2}
  MaxLength <- WebLengths
INVARIANTS
  TypeOK
  DescriptionsByHost
  OutcomeIsTrue
  PaymentsAsConfirmed
  AllowanceIsBounded
  RowsMatchTheList
PROPERTIES
  NothingIsLost
  TokensSurvive
