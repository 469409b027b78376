----------------------------- MODULE OwnerNotes -----------------------------
(***************************************************************************)
(* The notepad handlers of CharMgrService (character/CharMgrService.cpp):  *)
(* AddOwnerNote and its two registered overloads, the four EditOwnerNote   *)
(* overloads, RemoveOwnerNote and the per-item SetNote.                    *)
(*                                                                         *)
(* Text is a short sequence of character tokens ("LF" and "CR" stand for   *)
(* '\n' and '\r').  The CharacterDB calls are outside this repository;     *)
(* they are modelled by their effect on the owner-notes table: an insert   *)
(* that returns a fresh noteID or 0 when it fails, and an update or delete *)
(* of the row with that noteID and ownerID.  req is a history variable:    *)
(* the last call with what the client meant by it.                         *)
(***************************************************************************)
EXTENDS Integers, Sequences, SequencesExt, FiniteSets

CONSTANTS
    Chars,         \* characters calling the service
    Labels,        \* labels the client sends ("S:<folder>", "N:<title>")
    Bodies,        \* note bodies the client sends
    Items,         \* itemIDs for GetNote/SetNote
    MaxNotes,      \* bound on noteIDs handed out
    MaxDbErrors    \* bound on failing CharacterDB calls

NoteID == 1..MaxNotes

VARIABLES
    notes,       \* noteID -> [owner, label, body]
    nextNote,    \* next noteID the table hands out
    itemNotes,   \* <<char, item>> -> note text, "none" when no row
    dbErrors,    \* CharacterDB calls failed so far
    req          \* history: the last call and the label/body the client meant

vars == << notes, nextNote, itemNotes, dbErrors, req >>

DbFails == IF dbErrors < MaxDbErrors THEN {FALSE, TRUE} ELSE {FALSE}

Init ==
    /\ notes = << >>
    /\ nextNote = 1
    /\ itemNotes = [k \in Chars \X Items |-> "none"]
    /\ dbErrors = 0
    /\ req = [call |-> "none"]

-----------------------------------------------------------------------------
(***************************************************************************)
(* Narrow: PyString::content() and, in this fork, PyWString::content()     *)
(* both return std::string, so the call binds _NarrowLossy(const          *)
(* std::string&), which returns its argument unchanged; the wstring        *)
(* overload that maps characters >= 0x80 to '?' is never reached.  "e'"  *)
(* stands for a character >= 0x80.                                         *)
(***************************************************************************)
\* Seeded bug: the wstring overload bound, non-ASCII replaced by '?'.
NarrowLossyWide(s) == [i \in DOMAIN s |-> IF s[i] = "e'" THEN "?" ELSE s[i]]

Narrow(s) == s

\* IsLabel: at least two characters, 'S' or 'N' then ':'.
IsLabel(s) == Len(s) >= 2 /\ s[1] \in {"S", "N"} /\ s[2] = ":"

(***************************************************************************)
(* The label and body AddOwnerNote picks from its two arguments: the first *)
(* that looks like a label, else the arguments in the order they came.     *)
(***************************************************************************)
PickLabel(s0, s1) ==
    IF IsLabel(s0) THEN [label |-> s0, body |-> s1]
    ELSE IF IsLabel(s1) THEN [label |-> s1, body |-> s0]
    ELSE [label |-> s0, body |-> s1]

(***************************************************************************)
(* AddOwnerNote(call) as both registered overloads reach it: the tuple is  *)
(* (idStr: PyString, part: PyWString) or (part, idStr), idStr being the    *)
(* label.  m_db.AddOwnerNote returns the new noteID, or 0 and the handler  *)
(* returns nullptr.                                                        *)
(***************************************************************************)
AddOwnerNote ==
    /\ nextNote <= MaxNotes
    /\ \E c \in Chars, label \in Labels, body \in Bodies,
          order \in {"idStr,part", "part,idStr"}, failed \in DbFails :
        LET args == IF order = "idStr,part" THEN << label, body >> ELSE << body, label >>
            pick == PickLabel(Narrow(args[1]), Narrow(args[2]))
        IN  /\ IF failed
               THEN UNCHANGED << notes, nextNote >>
               ELSE /\ notes' = notes @@ (nextNote :> [owner |-> c, label |-> pick.label,
                                                       body |-> pick.body])
                    /\ nextNote' = nextNote + 1
            /\ dbErrors' = dbErrors + (IF failed THEN 1 ELSE 0)
            /\ req' = [call |-> "add", label |-> label, body |-> body,
                       result |-> IF failed THEN 0 ELSE nextNote]
            /\ UNCHANGED itemNotes

(***************************************************************************)
(* EditOwnerNote(noteID, bodyW): the first line of the text is the label   *)
(* and the rest the body, one '\r' right after the '\n' skipped; with no   *)
(* '\n' the whole text is the label and the body is empty.                 *)
(***************************************************************************)
\* full.find('\n'): the position of the first line break, 0 for npos.
FindLF(full) == SelectInSeq(full, LAMBDA ch : ch = "LF")

SplitNote(full) ==
    LET pos == FindLF(full)
        start == IF pos + 1 <= Len(full) /\ full[pos + 1] = "CR" THEN pos + 2 ELSE pos + 1
    IN  IF pos = 0 THEN [label |-> full, body |-> << >>]
        ELSE [label |-> SubSeq(full, 1, pos - 1), body |-> SubSeq(full, start, Len(full))]

\* m_db.EditOwnerNote: the row of that note and owner takes the new text;
\* a failure is only logged.
DbEditOwnerNote(c, nid, label, body, failed) ==
    notes' = IF ~failed /\ nid \in DOMAIN notes /\ notes[nid].owner = c
             THEN [notes EXCEPT ![nid].label = label, ![nid].body = body]
             ELSE notes

\* The client's text for a body-only edit: the label, a line break, the body.
Separators == { << "LF" >>, << "LF", "CR" >> }

EditOwnerNoteBodyOnly ==
    \E c \in Chars, nid \in NoteID, label \in Labels, body \in Bodies,
       sep \in Separators, failed \in DbFails :
        /\ DbEditOwnerNote(c, nid, SplitNote(label \o sep \o body).label,
                           SplitNote(label \o sep \o body).body, failed)
        /\ dbErrors' = dbErrors + (IF failed THEN 1 ELSE 0)
        /\ req' = [call |-> "edit"]
        /\ UNCHANGED << nextNote, itemNotes >>

\* The (labelW, bodyW), (labelS, bodyW) and (labelW, bodyS) overloads: the
\* two arguments' content as they are.
EditOwnerNoteLabelBody ==
    \E c \in Chars, nid \in NoteID, label \in Labels, body \in Bodies, failed \in DbFails :
        /\ DbEditOwnerNote(c, nid, label, body, failed)
        /\ dbErrors' = dbErrors + (IF failed THEN 1 ELSE 0)
        /\ req' = [call |-> "edit"]
        /\ UNCHANGED << nextNote, itemNotes >>

\* RemoveOwnerNote: m_db.RemoveOwnerNote(charID, noteID); failure logged.
RemoveOwnerNote ==
    \E c \in Chars, nid \in NoteID, failed \in DbFails :
        /\ notes' = IF ~failed /\ nid \in DOMAIN notes /\ notes[nid].owner = c
                    THEN [n \in DOMAIN notes \ {nid} |-> notes[n]] ELSE notes
        /\ dbErrors' = dbErrors + (IF failed THEN 1 ELSE 0)
        /\ req' = [call |-> "remove"]
        /\ UNCHANGED << nextNote, itemNotes >>

\* SetNote: m_db.SetNote(charID, itemID, note).
SetNote ==
    \E c \in Chars, i \in Items, text \in Bodies :
        /\ itemNotes' = [itemNotes EXCEPT ![<< c, i >>] = text]
        /\ req' = [call |-> "setnote"]
        /\ UNCHANGED << notes, nextNote, dbErrors >>

\* GetOwnerNote: m_db.GetOwnerNote(charID, noteID), the note's label and
\* body when that character owns it, else no row.
GetOwnerNote(c, nid) ==
    IF nid \in DOMAIN notes /\ notes[nid].owner = c
    THEN [label |-> notes[nid].label, body |-> notes[nid].body]
    ELSE [none |-> TRUE]

\* GetOwnerNoteLabels: m_db.GetOwnerNoteLabels(charID), the (noteID, label)
\* rows of the character's notes.
GetOwnerNoteLabels(c) ==
    {[noteID |-> n, label |-> notes[n].label] : n \in {n \in DOMAIN notes : notes[n].owner = c}}

Next ==
    \/ AddOwnerNote \/ EditOwnerNoteBodyOnly \/ EditOwnerNoteLabelBody
    \/ RemoveOwnerNote \/ SetNote

Spec == Init /\ [][Next]_vars

-----------------------------------------------------------------------------
\* The client's alphabet: the characters labels and bodies are made of.
Text == Seq({"S", "N", ":", "a", "b", "e'", "LF", "CR"})

(***************************************************************************)
(* Type invariant: note IDs are ones the table handed out, and every       *)
(* stored label and body (AddOwnerNote's narrowed arguments included) is   *)
(* text over the client's alphabet.                                        *)
(***************************************************************************)
TypeOK ==
    /\ DOMAIN notes \subseteq 1..(nextNote - 1)
    /\ \A n \in DOMAIN notes : notes[n] \in [owner : Chars, label : Text, body : Text]
    /\ nextNote \in 1..(MaxNotes + 1)
    /\ itemNotes \in [Chars \X Items -> Bodies \cup {"none"}]
    /\ dbErrors \in 0..MaxDbErrors

(***************************************************************************)
(* AddOwnerNote stores the idStr argument as the label and the part        *)
(* argument as the body, in whichever order the overload received them.   *)
(***************************************************************************)
NoteStoredAsSent ==
    (req.call = "add" /\ req.result # 0) =>
        notes[req.result].label = req.label /\ notes[req.result].body = req.body

=============================================================================
