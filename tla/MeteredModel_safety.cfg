\* One account, two Tasks (one budgeted, waiting for pending usage; one that may
\* keep several results), two payments, a budget of 3, requests that use 1 or 3
\* units, and two mishaps.
SPECIFICATION Spec
CONSTANTS
  Account = {a1}
  NoAccount = NoAccount
  a1 = a1
  b1 = b1
  t1 = t1
  t2 = t2
  Request = {r1, r2, r3}
  Budget = {b1}
  NoBudget = NoBudget
  Payment = {m1, m2}
  AmountOf <- Amounts
  PayerOf <- Payers
  MaximumOf <- Tight
  Task = {t1, t2}
  NoTask = NoTask
  NoRequest = NoRequest
  PolicyOf <- Swapped
  Usage <- Costs
  MaxMishaps = 2
SYMMETRY Requests
CHECK_DEADLOCK FALSE
INVARIANTS
  TypeOK
  ChargesMatchUse
  ResultReadOnce
  OneOpenRequest
  MoneyBounded
