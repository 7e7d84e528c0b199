--------------------------- MODULE MCNoteSelection --------------------------
(* A small instance of NoteSelection for TLC. *)
EXTENDS NoteSelection
=============================================================================
