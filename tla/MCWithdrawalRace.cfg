\* Three withdrawals at once, one mishap, two accounts.
CONSTANTS
  c1 = c1
  c2 = c2
  c3 = c3
  a1 = a1
  a2 = a2
  Account = {a1, a2}
  NoAccount = NoAccount
  NumNotes = 2
  MaxZat = 6
  MaxIndex = 2
  Cmd = {c1, c2, c3}
  Endowment = {}
  Sender = {c1, c2, c3}
  Supply = 10
  FeeUnit = 1
  Payee <- TwoPayees
  NoteZat <- NoteWorth
  Amount = {2, 5}
  Solo = FALSE
  MaxMishaps = 1
SYMMETRY CmdSymmetry
CHECK_DEADLOCK FALSE
SPECIFICATION Spec
INVARIANTS WithdrawalTypeOK RecordedWasBroadcast ChangeNeverReused LiabilitiesCovered
