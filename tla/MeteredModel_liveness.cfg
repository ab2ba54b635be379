\* Two Tasks of both policies, an attempt each, two mishaps.
SPECIFICATION FairSpec
CONSTANTS
  Account = {a1}
  NoAccount = NoAccount
  a1 = a1
  b1 = b1
  t1 = t1
  t2 = t2
  Request = {r1, r2}
  Budget = {b1}
  NoBudget = NoBudget
  Payment = {m1}
  AmountOf <- Amounts
  PayerOf <- Payers
  MaximumOf <- Tight
  Task = {t1, t2}
  NoTask = NoTask
  NoRequest = NoRequest
  PolicyOf <- Policies
  Usage <- OneCost
  MaxMishaps = 2
CHECK_DEADLOCK FALSE
PROPERTIES
  HoldsResolve
