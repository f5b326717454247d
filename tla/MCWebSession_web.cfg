\* Two tabs and a device of one user, and a limit of one session.
SPECIFICATION WebSpec
CONSTANTS
  u1 = u1  u2 = u2  p1 = p1  p2 = p2  d1 = d1
  User = {u1}  NoUser = NoUser  Request = {p1, p2, d1}  Tab = {p1, p2}
  Ops = {"register", "login", "refresh", "logout"}
  Kinds = {"render", "action", "login", "register", "logout", "refresh"}
  MaxSessions = 1
  MaxTokens = 3
SYMMETRY Symmetry
VIEW View
INVARIANTS WebTypeOK RotatedIsDead OneLivePerFamily EndedStaysEnded SessionLimit SessionKept NotTakenForThief
