\* A deposit from the chain through a sync to two withdrawals and back.
CONSTANTS
  c1 = c1
  c2 = c2
  a1 = a1
  p1 = p1
  Account = {a1}
  NoAccount = NoAccount
  NumNotes = 2
  MaxZat = 8
  MaxIndex = 1
  Proc = {p1}
  PageSize = 2
  NoteAddr <- DepositAndChange
  NoteZat <- Worth
  Emits = {"DepositEvent", "DepositConfirmed", "DepositUnconfirmed", "SpendEvent"}
  MaxLog = 4
  MaxAbandon = 1
  Cmd = {c1, c2}
  Sender = {c1, c2}
  Supply = 8
  Endowment = {}
  Payee <- Anyone
  Solo = TRUE
  FeeUnit = 1
  Amount = {2}
  MaxMishaps = 1
CHECK_DEADLOCK FALSE
SPECIFICATION ExchangeSpec
INVARIANTS AlwaysSolvent PaidUnlessReversed
PROPERTIES AsSyncAssumes ConsumedUnlessReversed
