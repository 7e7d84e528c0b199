\* Every list of up to four notes of at most seven units, in words of four bits.
CONSTANTS
  FeeUnit = 1
  MaxNotes = 4
  MaxNote = 7
  Word = 16
  Outputs = {1, 2}
CHECK_DEADLOCK FALSE
SPECIFICATION Spec
INVARIANTS  SelectionCovers SelectsAsPromised 
