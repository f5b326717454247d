\* One user, who refreshes in two requests at once.
SPECIFICATION Spec
CONSTANTS
  u1 = u1  r1 = r1  r2 = r2
  User = {u1}  NoUser = NoUser  Request = {r1, r2}
  Ops = {"register", "refresh"}
  MaxSessions = 5
  MaxTokens = 4
INVARIANT ReuseEndsFamily
