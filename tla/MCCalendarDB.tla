---------------------------- MODULE MCCalendarDB ----------------------------
(***************************************************************************)
(* One character and one corporation, besides owner 1 (CCP); titles "a"    *)
(* and "a'" (the apostrophe is the character SQL quoting is about); one    *)
(* event, two response rows, at most one DB error.                         *)
(***************************************************************************)
EXTENDS CalendarDB

MCTexts == { << "a" >>, << "a", "'" >> }

\* The titles of the text run: besides "a'", "a''", which is well formed
\* SQL when sent unescaped.
MCTextsQuotes == MCTexts \cup { << "a", "'", "'" >> }

=============================================================================
