\* Two processes that read pages at different times, and withdrawals: replays
\* after a death, reorganisations.
SPECIFICATION Spec
CONSTANTS
  Account = {alice}
  NoAccount = NoAccount
  NumNotes = 2
  MaxZat = 2
  MaxIndex = 1
  Proc = {p1, p2}
  PageSize = 2
  NoteAddr <- MCNoteAddr
  NoteZat <- MCNoteZat
  Shown <- AlwaysShown
  Emits <- AllKinds
  MaxLog = 4
  MaxAbandon = 1
  MaxFee = 0
INVARIANTS
  SyncTypeOK
  BooksBalance
  CursorCoversApplied
  CreditsFollowAddresses
PROPERTIES
  CreditNeedsConfirmation
  LedgerSpec
