---------------------------- MODULE MCOwnerNotes ----------------------------
(***************************************************************************)
(* One folder label and one note label; bodies that are empty, hold a     *)
(* non-ASCII character, start like a label, or hold a line break.          *)
(***************************************************************************)
EXTENDS OwnerNotes

MCLabels == { << "S", ":", "a" >>, << "N", ":", "b" >> }
MCBodies == { << >>, << "e'" >>, << "N", ":", "a" >>, << "a", "LF", "b" >> }

=============================================================================
