\* One worker that crashes twice; two transfers compete for the funds, and
\* the owner watches one, in the list and on its page.
SPECIFICATION PageSpec
CONSTANTS
  a1 = a1  a2 = a2  USD = USD  tz = tz
  Account = {a1, a2}  Currency = {USD}  Amount = {0, 2}
  NoTransfer = NoTransfer
  CurrencyOf <- MCCurrencyOf  From <- MCFrom  To <- MCTo
  AmountOf <- MCAmountOf  TransferCurrency <- MCTransferCurrency
  Transfer = {t1, t2}
  Worker = {w1}
  Closable = {}
  UserRows = 1
  Watched = {t1}
  MaxFaults <- Crash2
INVARIANT Settled
PROPERTIES ProtocolSpec EventuallyTerminal OutcomeShown NeverBackwards
