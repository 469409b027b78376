----------------------------- MODULE CalendarDB -----------------------------
(***************************************************************************)
(* CalendarDB (system/CalendarDB.cpp): the calendar tables and the calls   *)
(* that write them.  sysCalendarEvents is a function from the eventIDs     *)
(* the auto-increment key has handed out to rows; sysCalendarInvitees and  *)
(* sysCalendarResponses are bags of rows (the repository declares no key   *)
(* on them).  Every query may fail (DBerror), at most MaxDbErrors times.   *)
(* Text reaches SQL through a '%s' literal: a text is a short sequence of  *)
(* characters and the literal is parsed as MySQL does, so an unescaped     *)
(* apostrophe makes the statement malformed.  month/year (GetTimeParts)    *)
(* and the start time are left out: no property reads them.                *)
(* req is a history variable: the last call and its arguments and result. *)
(***************************************************************************)
EXTENDS Integers, Sequences, FiniteSets, Bags, BagsExt

CONSTANTS
    Chars, Corps, Alliances,  \* owner IDs of each kind (IsCharacterID, IsCorp, IsAlliance)
    Others,                   \* owner IDs of no kind (flag Automated)
    Texts,                    \* titles and descriptions callers send
    Durations,                \* duration values callers send (0 is falsy)
    Responses,                \* response codes of SaveEventResponse
    MaxEvents,                \* bound on eventIDs handed out
    MaxResponses,             \* bound on SaveEventResponse calls
    MaxDbErrors               \* bound on failing queries

Owners == Chars \cup Corps \cup Alliances \cup {1} \cup Others
EventID == 1..MaxEvents
\* eventIDs a client may name: the ones handed out and one that never was.
Targets == 1..(MaxEvents + 1)
NoDuration == -1              \* eventDuration left NULL

\* PyRep arguments of the *Manual calls: None, an Int, a Bool, or another type.
Reps == {[kind |-> "none"], [kind |-> "other"]}
          \cup {[kind |-> "int", v |-> d] : d \in Durations \cup {1}}
          \cup {[kind |-> "bool", v |-> b] : b \in BOOLEAN}

VARIABLES
    events,      \* eventID -> row of sysCalendarEvents
    nextID,      \* next auto-increment value
    invitees,    \* bag of [eventID, charID] rows
    responses,   \* bag of [eventID, charID, response] rows
    dbErrors,    \* queries failed so far
    req          \* history: the last call, its arguments and its result

vars == << events, nextID, invitees, responses, dbErrors, req >>

-----------------------------------------------------------------------------
(***************************************************************************)
(* The EscapeSqlString lambda: every ' is doubled.                          *)
(***************************************************************************)
RECURSIVE EscapeSqlString(_)
EscapeSqlString(s) ==
    IF s = << >> THEN << >>
    ELSE IF Head(s) = "'" THEN << "'", "'" >> \o EscapeSqlString(Tail(s))
                          ELSE << Head(s) >> \o EscapeSqlString(Tail(s))

(***************************************************************************)
(* What MySQL makes of '<s>': the literal is well formed when every ' in s *)
(* is doubled, and its value is s with each '' read as one '.               *)
(***************************************************************************)
RECURSIVE SqlLiteral(_)
SqlLiteral(s) ==
    IF s = << >> THEN [ok |-> TRUE, value |-> << >>]
    ELSE IF Head(s) # "'"
         THEN LET r == SqlLiteral(Tail(s))
              IN  [ok |-> r.ok, value |-> << Head(s) >> \o r.value]
         ELSE IF Len(s) >= 2 /\ s[2] = "'"
              THEN LET r == SqlLiteral(Tail(Tail(s)))
                   IN  [ok |-> r.ok, value |-> << "'" >> \o r.value]
              ELSE [ok |-> FALSE, value |-> << >>]

\* A query's outcomes: it fails when malformed, and may fail on a DB error.
QueryFails(wellFormed) ==
    IF ~wellFormed THEN {TRUE}
    ELSE IF dbErrors < MaxDbErrors THEN {FALSE, TRUE} ELSE {FALSE}

CountError(failed, wellFormed) ==
    dbErrors' = dbErrors + (IF failed /\ wellFormed THEN 1 ELSE 0)

\* RunQueryLID: the new row under the next auto-increment key.
InsertEvent(row) ==
    /\ events' = [e \in DOMAIN events \cup {nextID} |->
                     IF e = nextID THEN row ELSE events[e]]
    /\ nextID' = nextID + 1

\* A row of sysCalendarEvents; creatorID and eventText are written like
\* ownerID and eventTitle and are left out.
EventRow(owner, dur, imp, title, flag) ==
    [owner |-> owner, duration |-> dur, importance |-> imp, title |-> title,
     flag |-> flag, isDeleted |-> FALSE]

Init ==
    /\ events = << >>
    /\ nextID = 1
    /\ invitees = EmptyBag
    /\ responses = EmptyBag
    /\ dbErrors = 0
    /\ req = [call |-> "none"]

-----------------------------------------------------------------------------
\* DeleteEvent: UPDATE ... SET isDeleted = 1 WHERE eventID = e; errors ignored.
DeleteEvent ==
    \E e \in Targets, failed \in QueryFails(TRUE) :
        /\ events' = IF ~failed /\ e \in DOMAIN events
                     THEN [events EXCEPT ![e].isDeleted = TRUE] ELSE events
        /\ CountError(failed, TRUE)
        /\ req' = [call |-> "delete"]
        /\ UNCHANGED << nextID, invitees, responses >>

(***************************************************************************)
(* SaveNewEvent(ownerID, Call_CreateEventWithInvites&): the invitee list   *)
(* is written first, as " VALUES %s" of the list's PyRep pointers joined   *)
(* by commas: VALUES with no parenthesised row, which MySQL rejects        *)
(* whatever the list holds, so no invitee row is ever written (the error   *)
(* is not checked).  Then the event row, with title and text               *)
(* unescaped; a falsy duration leaves eventDuration NULL.                  *)
(***************************************************************************)
SaveNewEventWithInvites ==
    /\ nextID <= MaxEvents
    /\ \E owner \in Chars, list \in SUBSET Chars, title, text \in Texts,
          dur \in Durations, imp \in {0, 1} :
        LET wf == SqlLiteral(title).ok /\ SqlLiteral(text).ok
        IN  \E failed \in QueryFails(wf) :
            /\ IF failed
               THEN UNCHANGED << events, nextID >>
               ELSE InsertEvent(EventRow(owner, IF dur # 0 THEN dur ELSE NoDuration, imp,
                                         SqlLiteral(title).value, "Personal"))
            /\ CountError(failed, wf)
            /\ req' = [call |-> "create", owner |-> owner, title |-> title, list |-> list,
                       dbFailed |-> failed /\ wf,
                       result |-> IF failed THEN 0 ELSE nextID]
            /\ UNCHANGED << invitees, responses >>

(***************************************************************************)
(* SaveNewEventManual: duration only from an Int, importance from an Int  *)
(* or a Bool (else 0), title and text escaped; the event row first and,   *)
(* when it was written, one invitee row per listed ID, whose errors are   *)
(* logged and ignored.                                                     *)
(***************************************************************************)
DurationArg(rep) == IF rep.kind = "int" THEN [has |-> TRUE, v |-> rep.v]
                    ELSE [has |-> FALSE, v |-> 0]

ImportanceArg(rep) ==
    CASE rep.kind = "int"  -> [has |-> TRUE, v |-> rep.v]
      [] rep.kind = "bool" -> [has |-> TRUE, v |-> IF rep.v THEN 1 ELSE 0]
      [] OTHER             -> [has |-> FALSE, v |-> 0]

\* The invitee rows the loop writes for event id: one per listed ID whose
\* INSERT did not fail.
\* Seeded bug: the invitee loop run even when the event insert failed.
ManualInviteesAnyway(eventFailed, id, list, lost) ==
    [r \in {[eventID |-> id, charID |-> c] : c \in list \ lost} |-> 1]

ManualInvitees(eventFailed, id, list, lost) ==
    IF eventFailed THEN EmptyBag
    ELSE [r \in {[eventID |-> id, charID |-> c] : c \in list \ lost} |-> 1]

SaveNewEventManual ==
    /\ nextID <= MaxEvents
    /\ \E owner \in Chars, list \in SUBSET Chars, title \in Texts,
          durRep, impRep \in Reps, failed \in QueryFails(TRUE) :
        LET dur == DurationArg(durRep)
            id == IF failed THEN 0 ELSE nextID
            maxLost == MaxDbErrors - dbErrors - (IF failed THEN 1 ELSE 0)
        IN  \E lost \in SUBSET list :
            /\ failed => lost = {}
            /\ Cardinality(lost) <= maxLost
            /\ IF failed
               THEN UNCHANGED << events, nextID >>
               ELSE InsertEvent(EventRow(owner, IF dur.has THEN dur.v ELSE NoDuration,
                                         ImportanceArg(impRep).v,
                                         SqlLiteral(EscapeSqlString(title)).value,
                                         "Personal"))
            /\ invitees' = invitees (+) ManualInvitees(failed, id, list, lost)
            /\ dbErrors' = dbErrors + Cardinality(lost) + (IF failed THEN 1 ELSE 0)
            /\ req' = [call |-> "create", owner |-> owner, title |-> title, list |-> list,
                       dbFailed |-> failed \/ lost # {}, result |-> id]
            /\ UNCHANGED responses

(***************************************************************************)
(* EditEventManual: the same argument decoding and escaping; one of four   *)
(* UPDATEs, each setting the start, title and text and the duration       *)
(* (importance) only when one was supplied; no check that the event       *)
(* exists, is live or belongs to anyone; a failure is only logged.        *)
(***************************************************************************)
EditUpdate(row, dur, imp, title) ==
    [row EXCEPT !.duration = IF dur.has THEN dur.v ELSE @,
                !.importance = IF imp.has THEN imp.v ELSE @,
                !.title = title]

EditEventManual ==
    \E e \in Targets, durRep, impRep \in Reps, title \in Texts,
       failed \in QueryFails(TRUE) :
        /\ events' = IF ~failed /\ e \in DOMAIN events
                     THEN [events EXCEPT ![e] =
                              EditUpdate(@, DurationArg(durRep), ImportanceArg(impRep),
                                         SqlLiteral(EscapeSqlString(title)).value)]
                     ELSE events
        /\ CountError(failed, TRUE)
        /\ req' = [call |-> "edit"]
        /\ UNCHANGED << nextID, invitees, responses >>

(***************************************************************************)
(* SaveNewEvent(ownerID, creatorID, Call_CreateEvent&) for corp, alliance  *)
(* and automated events: the flag from the kind of owner, the row with    *)
(* title and text unescaped.                                               *)
(***************************************************************************)
\* Seeded bug: the chain without its last two branches, so the flag keeps
\* its initial value Calendar::Flag::Invalid for CCP and unknown owners.
FlagForNoDefault(owner) ==
    CASE owner \in Chars     -> "Personal"
      [] owner \in Corps     -> "Corp"
      [] owner \in Alliances -> "Alliance"
      [] OTHER               -> "Invalid"

FlagFor(owner) ==
    CASE owner \in Chars     -> "Personal"
      [] owner \in Corps     -> "Corp"
      [] owner \in Alliances -> "Alliance"
      [] owner = 1           -> "CCP"
      [] OTHER               -> "Automated"

\* The creates that write title and text unescaped: SaveNewEvent for corp
\* events (flag from the owner) and SaveSystemEvent (flag Automated, error
\* ignored, the eventID it returns left 0).
UnescapedCreate(kind, owner, dur, imp, title, text) ==
    LET wf == SqlLiteral(title).ok /\ SqlLiteral(text).ok
        flag == IF kind = "system" THEN "Automated" ELSE FlagFor(owner)
    IN  \E failed \in QueryFails(wf) :
        /\ IF failed
           THEN UNCHANGED << events, nextID >>
           ELSE InsertEvent(EventRow(owner, dur, imp, SqlLiteral(title).value, flag))
        /\ CountError(failed, wf)
        /\ req' = [call |-> "create", owner |-> owner, title |-> title, list |-> {},
                   dbFailed |-> failed /\ wf, result |-> IF failed THEN 0 ELSE nextID]
        /\ UNCHANGED << invitees, responses >>

SaveNewEvent ==
    /\ nextID <= MaxEvents
    /\ \E owner \in Owners, title, text \in Texts, dur \in Durations, imp \in {0, 1} :
          UnescapedCreate("event", owner, IF dur # 0 THEN dur ELSE NoDuration,
                          imp, title, text)

SaveSystemEvent ==
    /\ nextID <= MaxEvents
    /\ \E owner \in Owners, title, text \in Texts, important \in BOOLEAN :
          UnescapedCreate("system", owner, NoDuration,
                          IF important THEN 1 ELSE 0, title, text)

(***************************************************************************)
(* SaveEventResponse: a plain INSERT of (event, char, response), with no   *)
(* check of the event and no update of an earlier answer; errors ignored. *)
(***************************************************************************)
SaveEventResponse ==
    /\ BagCardinality(responses) < MaxResponses
    /\ \E c \in Chars, e \in Targets, r \in Responses, failed \in QueryFails(TRUE) :
        /\ responses' = IF failed THEN responses
                        ELSE responses (+) SetToBag({[eventID |-> e, charID |-> c, response |-> r]})
        /\ CountError(failed, TRUE)
        /\ req' = [call |-> "respond", char |-> c, event |-> e, response |-> r,
                   dbFailed |-> failed]
        /\ UNCHANGED << events, nextID, invitees >>

\* GetResponsesToEvent: the (characterID, status) rows of an event, as a bag.
GetResponsesToEvent(e) ==
    LET row(x) == [eventID |-> e, charID |-> x.characterID, response |-> x.status]
    IN  [x \in {[characterID |-> r.charID, status |-> r.response] :
                    r \in {r \in BagToSet(responses) : r.eventID = e}} |->
            responses[row(x)]]

\* GetResponsesForCharacter: the (eventID, status) rows of a character, as a bag.
GetResponsesForCharacter(c) ==
    LET row(x) == [eventID |-> x.eventID, charID |-> c, response |-> x.status]
    IN  [x \in {[eventID |-> r.eventID, status |-> r.response] :
                    r \in {r \in BagToSet(responses) : r.charID = c}} |->
            responses[row(x)]]

(***************************************************************************)
(* GetEventList(ownerID, month, year): the owner's events not deleted, as  *)
(* [eventID, ownerID, eventTitle]; nullptr, here {}, for owner 0 and when  *)
(* no row matches.  The client asks for the month and year of the event,  *)
(* so those filters are left out.                                          *)
(***************************************************************************)
GetEventList(o) ==
    IF o = 0 THEN {}
    ELSE {[eventID |-> e, ownerID |-> events[e].owner, eventTitle |-> events[e].title] :
             e \in {e \in DOMAIN events : events[e].owner = o /\ ~events[e].isDeleted}}

\* GetEventDetails(eventID): [eventID, ownerID] of the row with that ID,
\* deleted or not; nullptr for eventID 0 and when there is no such row.
GetEventDetails(e) ==
    IF e = 0 \/ e \notin DOMAIN events THEN [none |-> TRUE]
    ELSE [eventID |-> e, ownerID |-> events[e].owner]

Next ==
    \/ DeleteEvent \/ EditEventManual
    \/ SaveNewEventWithInvites \/ SaveNewEventManual \/ SaveNewEvent \/ SaveSystemEvent
    \/ SaveEventResponse

Spec == Init /\ [][Next]_vars

-----------------------------------------------------------------------------
EventRowType ==
    [owner : Owners, duration : Durations \cup {NoDuration, 1},
     importance : Durations \cup {0, 1}, title : Seq({"a", "'"}),
     flag : {"Personal", "Corp", "Alliance", "CCP", "Automated"}, isDeleted : BOOLEAN]

TypeOK ==
    /\ DOMAIN events = 1..(nextID - 1)
    /\ \A e \in DOMAIN events : events[e] \in EventRowType
    /\ nextID \in 1..(MaxEvents + 1)
    /\ IsABag(invitees) /\ BagToSet(invitees) \subseteq [eventID : EventID, charID : Chars]
    /\ IsABag(responses)
    /\ BagToSet(responses) \subseteq [eventID : Targets, charID : Chars, response : Responses]
    /\ dbErrors \in 0..MaxDbErrors

(***************************************************************************)
(* Every invitee row names an event that exists: SaveNewEventManual writes *)
(* invitees only after RunQueryLID returned the new eventID, and the       *)
(* invitee-first INSERT of SaveNewEvent never succeeds.                    *)
(***************************************************************************)
InviteesReferenceEvents ==
    \A r \in BagToSet(invitees) : r.eventID \in DOMAIN events

(***************************************************************************)
(* A create that met no DB error stores every invitee it was given, once. *)
(***************************************************************************)
InviteesStored ==
    (req.call = "create" /\ req.result # 0 /\ ~req.dbFailed) =>
        \A c \in req.list : CopiesIn([eventID |-> req.result, charID |-> c], invitees) = 1

(***************************************************************************)
(* A create that met no DB error stores its event, whatever characters    *)
(* the title holds, and GetEventList of the owner then shows the eventID  *)
(* the call returned with exactly the title sent, quotes included.        *)
(***************************************************************************)
TitleStoredAsSent ==
    (req.call = "create" /\ ~req.dbFailed) =>
        /\ req.result # 0
        /\ \E r \in GetEventList(req.owner) :
              r.eventID = req.result /\ r.eventTitle = req.title

(***************************************************************************)
(* Once SaveEventResponse has stored a character's answer to an event,    *)
(* GetResponsesToEvent and GetResponsesForCharacter each report exactly   *)
(* one status of that character for that event: the answer it just sent.  *)
(***************************************************************************)
LatestResponseWins ==
    (req.call = "respond" /\ ~req.dbFailed) =>
        LET all == GetResponsesToEvent(req.event)
            mine == {x \in DOMAIN all : x.characterID = req.char}
            own == GetResponsesForCharacter(req.char)
            forEvent == {x \in DOMAIN own : x.eventID = req.event}
        IN  /\ mine = {[characterID |-> req.char, status |-> req.response]}
            /\ all[[characterID |-> req.char, status |-> req.response]] = 1
            /\ forEvent = {[eventID |-> req.event, status |-> req.response]}
            /\ own[[eventID |-> req.event, status |-> req.response]] = 1

=============================================================================
