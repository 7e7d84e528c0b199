\* One process that is always started again; nobody withdraws.
SPECIFICATION FairSpecNoWithdrawals
CONSTANTS
  Account = {alice}
  NoAccount = NoAccount
  NumNotes = 2
  MaxZat = 2
  MaxIndex = 1
  Proc = {p1}
  PageSize = 2
  NoteAddr <- MCNoteAddr
  NoteZat <- MCNoteZat
  Shown <- AlwaysShown
  Emits <- AllKinds
  MaxLog = 5
  MaxAbandon = 1
  MaxFee = 0
INVARIANTS
  CaughtUpAgrees
PROPERTIES
  LedgerFollowsChain
  EventsConsumed
