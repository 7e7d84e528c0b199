\* One process that dies once, and a user who withdraws.
SPECIFICATION FairSpec
CONSTANTS
  Account = {alice}
  NoAccount = NoAccount
  NumNotes = 2
  MaxZat = 2
  MaxIndex = 1
  Proc = {p1}
  PageSize = 1
  NoteAddr <- MCNoteAddr
  NoteZat <- MCNoteZat
  Shown <- AlwaysShown
  Emits <- NoReorgs
  MaxLog = 3
  MaxAbandon = 1
  MaxFee = 0
PROPERTIES
  EventsConsumed
