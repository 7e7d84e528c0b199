\* Events with and without a recipient address.
SPECIFICATION Spec
CONSTANTS
  Account = {alice}
  NoAccount = NoAccount
  NumNotes = 2
  MaxZat = 2
  MaxIndex = 1
  Proc = {p1}
  PageSize = 2
  NoteAddr <- MCNoteAddr
  NoteZat <- MCNoteZat
  Shown <- SometimesShown
  Emits <- AllKinds
  MaxLog = 2
  MaxAbandon = 1
  MaxFee = 0
INVARIANTS
  CreditsFollowAddresses
