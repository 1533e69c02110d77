CONSTANTS
  alice = alice  bob = bob  shop = shop
  r1 = r1  r2 = r2
  Accounts = {alice, bob, shop}
  Requests = {r1, r2}
  Client <- PayerOf
  Server <- PayeeOf
  Accepts <- Offers
  MaxAmount <- Caps
  Ahead <- AliceIsAhead
  Faucet = 4
  Credits <- Extra
  MaxValidity = 2
  DefaultTimeout = 1
  Skew = 1
  Modulus = 16
  Deliveries = 2
  MaxTime = 3
  MaxRestarts = 1
  None = None
SPECIFICATION Spec
INVARIANTS TypeOK CreditIsKept SettledOnce ExposureIsBounded AnsweredOnce
CHECK_DEADLOCK FALSE
