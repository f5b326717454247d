\* A transfer form, a form for an amount and a program, two actions at a time.
SPECIFICATION RequestsSpec
CONSTANTS
  b1 = b1  b2 = b2  f1 = f1  a1 = a1  c1 = c1
  Body = {b1, b2}  NoBody = NoBody
  Request = {r1, r2}  Instance = {i1}
  TransferForm = {f1}  AmountForm = {a1}  Program = {c1}  Offers <- MCOffers
  Key = {0, 1, 2}  ProgramKey = {0}  Nobody = Nobody
  MaxSubmissions = 2
CHECK_DEADLOCK FALSE
INVARIANTS OneRowPerSubmission PressedAgainOnce RefusedMeansNone ToldTheirOwn NeverBlamed
PROPERTIES OnceOnlySpec SubmissionEnds
