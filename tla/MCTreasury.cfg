\* A withdrawal, a sweep and a transfer at once.
CONSTANTS
  c1 = c1
  c2 = c2
  s1 = s1
  s2 = s2
  t1 = t1
  t2 = t2
  a1 = a1
  a2 = a2
  Account = {a1}
  NoAccount = NoAccount
  NumNotes = 1
  MaxZat = 8
  MaxIndex = 1
  Cmd = {c1}
  Sweeper = {s1}
  Transfer = {t1}
  Sender = {c1, s1, t1}
  Endowment <- OwnNotes
  Supply = 20
  FeeUnit = 1
  Payee <- OnePayee
  NoteZat <- NoteWorth
  Amount = {5, 7}
  MovedAmount = {3}
  MaxSpends = 2
  Solo = TRUE
  MaxMishaps = 0
CHECK_DEADLOCK FALSE
SPECIFICATION TreasurySpec
INVARIANTS TreasuryTypeOK LiabilitiesCovered PaidIsDebited ChangeNeverReused SweepsAll RejectedForOthers TransferOnce
PROPERTIES ImplementsVault
