SPECIFICATION Spec
CONSTANTS
  People = {p1, p2}
  Nobody = nobody
  ContactCalls = {c1, c2}
  MaxPayments = 4
  MaxContactCalls = 3
  ItemIds = {i1, i2}
  ClientIds = {own}
  NoItem = noItem
  ItemCalls = {h1, h2}
  MaxItemCalls = 5
  MaxSorted = 2
  AppUsers = {u1, u2}
  Pubkeys = {k1, k2}
  NoPubkey = noKey
  AppCalls = {a1, a2, a3}
  MaxAppCalls = 5
  Places = {l1, l2}
  RoundInterval = 2
  MaxTime = 4
INVARIANTS
  ContactsExact
  ItemsListed
  IndexedIsStored
  NoChangeForgotten
CHECK_DEADLOCK FALSE
