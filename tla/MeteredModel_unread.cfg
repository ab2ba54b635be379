\* One Task on its own model (nothing held or charged), two attempts.
SPECIFICATION Spec
CONSTANTS
  Account = {a1}
  NoAccount = NoAccount
  a1 = a1
  b1 = b1
  t1 = t1
  t2 = t2
  Request = {r1, r2}
  Budget = {b1}
  NoBudget = NoBudget
  Payment = {m1}
  AmountOf <- Amounts
  PayerOf <- Payers
  MaximumOf <- Tight
  Task = {t1}
  NoTask = NoTask
  NoRequest = NoRequest
  PolicyOf <- OwnModel
  Usage <- OneCost
  MaxMishaps = 2
SYMMETRY Requests
CHECK_DEADLOCK FALSE
PROPERTIES
  UnreadFirst
