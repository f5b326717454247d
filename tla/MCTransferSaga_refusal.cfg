\* One worker that never crashes; accounts close under it, Accounts answers 500.
SPECIFICATION FairSpec
CONSTANTS
  a1 = a1  a2 = a2  USD = USD  tz = tz
  Account = {a1, a2}  Currency = {USD}  Amount = {0, 2}
  NoTransfer = NoTransfer
  CurrencyOf <- MCCurrencyOf  From <- MCFrom  To <- MCTo
  AmountOf <- MCAmountOf  TransferCurrency <- MCTransferCurrency
  Transfer = {t1, t2, tz}
  Worker = {w1}
  Closable = {a1, a2}
  UserRows = 1
  MaxFaults <- Error1
INVARIANT Settled
PROPERTIES ProtocolSpec EventuallyTerminal
