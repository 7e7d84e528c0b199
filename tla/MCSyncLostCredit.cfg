\* Two processes, no reorganisation, one death.
SPECIFICATION FairSpecNoWithdrawals
CONSTANTS
  Account = {alice}
  NoAccount = NoAccount
  NumNotes = 2
  MaxZat = 2
  MaxIndex = 1
  Proc = {p1, p2}
  PageSize = 2
  NoteAddr <- MCNoteAddr
  NoteZat <- MCNoteZat
  Shown <- AlwaysShown
  Emits <- NoReorgs
  MaxLog = 2
  MaxAbandon = 1
  MaxFee = 0
PROPERTIES
  LedgerFollowsChain
