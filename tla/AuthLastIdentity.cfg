SPECIFICATION Spec
CONSTANTS
  vk1 = vk1  google1 = google1  google2 = google2  vk = vk  google = google
  l1 = l1  l2 = l2  k1 = k1  k2 = k2  d1 = d1  d2 = d2  u1 = u1  u2 = u2
  Logins = {l1}
  Links = {k1}
  Unlinks = {d1, d2}
  Logouts = {}
  Accounts <- MCAccounts
  ProviderOf <- MCProviderOf
  UserIds = {u1, u2}
  None = None
CHECK_DEADLOCK FALSE
INVARIANT LastIdentityKept
