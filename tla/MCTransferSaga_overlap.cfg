\* Two overlapping workers, every kind of fault, accounts closed at will.
SPECIFICATION Spec
CONSTANTS
  a1 = a1  a2 = a2  USD = USD  tz = tz
  Account = {a1, a2}  Currency = {USD}  Amount = {0, 2}
  NoTransfer = NoTransfer
  CurrencyOf <- MCCurrencyOf  From <- MCFrom  To <- MCTo
  AmountOf <- MCAmountOf  TransferCurrency <- MCTransferCurrency
  Transfer = {t1}
  Worker = {w1, w2}
  Closable = {a1, a2}
  UserRows = 2
  MaxFaults <- AllFaults
SYMMETRY Symmetry
INVARIANTS TypeOK DebitFirst TerminalAnnounced
