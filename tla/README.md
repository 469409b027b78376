# TLA+ models of the eve-server code

This directory holds TLA+ models of the code under `src/src/eve-server/`.
The main part modelled is the decoration core that spec.md describes: code
that puts billboards, sentry guns and CONCORD patrols around the gates and
belts of a solar system when the system is activated. Beside it are the
calendar persistence layer (`CalendarDB`) and the owner-notes handlers of
`CharMgrService`. Each module is written from the C++
source. PROJECT.json maps every modelled definition to the lines it
translates.

## The system

| Part | Source | State it touches | Operations |
|---|---|---|---|
| Placement helpers | `decorators/GateDecorator_Billboards.cpp` 21-36, 160-167 | none (pure) | `dist2`, `add`, `UnitRng` (a seeded mt19937_64 with `u01` and `range`), `rand_unit`, `anyOfTypeNear` |
| GateDecorators | same file, 55-198; `Config` in the `.h` | the system's entity map; a snapshot; a `spawned` counter | `DecorateGates`, `DecorateBelts`; helpers `GetStargates`, `GetBelts`, `SnapshotEntities`, `SpawnStatic` |
| StaticPropSpawner | `system/StaticPropSpawner.cpp` | the system's entity map | `SpawnForSystem` → `SpawnGateEnvironmentForSystem` → `SpawnStaticPropAt` |
| CalendarDB | `system/CalendarDB.cpp` | SQL tables for events, invitees and responses | create, edit, delete and respond to events, plus read-only getters |
| CharMgrService notes | `character/CharMgrService.cpp` 511-752 | owner notes and item notes (through `CharacterDB`) | `AddOwnerNote` (three entry points), four `EditOwnerNote` overloads, `RemoveOwnerNote`, `SetNote` |
| CharMgrService contacts and bounty | same file, 282-304, 806-909 | contacts, block list, wallets, bounties (through `CharacterDB`, `AccountService`) | `AddContact`, `EditContact`, `DeleteContacts`, `BlockOwners`, `UnblockOwners`, `EditContactsRelationshipID`, `AddToBounty` |

How the parts interact:
- Both decorators act on the same `SystemManager`. Each reads the entity map
  (`GetEntities` / `GetGates`) and adds entities through
  `ItemFactory::SpawnItem`, which may fail and return null.
- `GateDecorators` de-duplicates against a snapshot taken once at the start of
  a pass. `StaticPropSpawner` does no de-duplication.
- The gate patrol and the belt patrol share typeID 11125 by default. A gate
  patrol near a belt therefore hides that belt from `DecorateBelts`' duplicate
  check.
- CalendarDB and CharMgrService do not touch the decoration code.

Behaviours that are hard to test here:
- A snapshot that goes stale within a pass.
- The billboard offset range measured against the duplicate radius. The test
  is strict (`<`).
- A generator shared between the billboard and the patrols of one gate.
- A per-system cap tested in two places, and counted on failed calls too.
- Failed spawns.
- Re-invocation, where one pass runs after another, with props destroyed in
  between.
- In CalendarDB: invitee rows written before their event row, and a duplicate
  response insert.
- In AddToBounty: the balance check at its boundary and below zero.
- In the owner notes: the label guessed from a prefix, and the split at the
  first line break.

## Modules

- **Placement.tla** holds the pure helpers.
  - `RngDraw(seed, k)` is a CONSTANT operator: the k-th `u01()` draw of
    `UnitRng(seed)`, quantised to `Buckets` values. The code guarantees that
    the same seed gives the same draws, and that determinism is all the
    properties need.
  - A seed is `<<itemID, salt>>`. Salt 1 stands for `^ 0xB3117B77`.
  - `rand_unit` consumes draws k and k+1 and returns one of the six axis
    directions.
  - `range` returns a value in `[a, b)` using draw k.
- **GateDecorator.tla** models `DecorateGates` and `DecorateBelts`.
  - State:
    - `props`: a bag of `[typeID, pos, by]`, where `by` records which anchor
      spawned the prop (0 if it was already there);
    - `pc` and `todo`: which loop is running, and the anchors left to visit;
    - `present`: the snapshot;
    - `spawned`: the counter;
    - `passes`;
    - history variables: `tried` (the `SpawnStatic` calls of the current
      pass, failed ones included), `before` (props when the pass started)
      and `placed` (every position a spawn was attempted at).
  - Actions:
    - `DecorateGates` and `DecorateBelts` take the early returns and the
      snapshot.
    - `GateStep` runs one whole iteration of the gate loop: billboard, then
      patrols, with every `SpawnStatic` call included.
    - `BeltCapReached` is the `break`, `BeltSkip` is the `continue`, and
      `BeltSpawn` is the inner patrol loop.
    - `RemoveProp` is another subsystem destroying a prop between passes.
    - `PassesExhausted` is a stutter taken once the bound is reached.
  - A pass runs on the system's thread. Nothing else touches the entity map
    while it runs, so passes do not interleave with each other.
  - A `SpawnItem` failure is a nondeterministic subset `ok` of each
    iteration's calls.
  - `DefaultConfig` is the header's `Config` defaults in km. The MC module
    `ASSUME`s that the checked configuration equals it except for the two
    belt counts.
  - `before` is a history variable: the props as the running pass found
    them. It is used only by the refinement mapping.
- **GatePassAbstract.tla** is the abstract specification of a pass: what one
  `DecorateGates` or `DecorateBelts` call may add, judged against the system
  as it was when the call started, with nothing said about the generator.
  - A gates pass adds, per gate, at most one billboard at a distance in
    `[minOffset, maxOffset)`, and none when a billboard is already within
    `dupRadius`. It also adds at most `patrolsPerGate` patrols at
    `patrolSpawnOffset`.
  - A belts pass adds, per belt, at most `patrolsPerBelt` patrols at
    `beltSpawnOffset`, and none when a patrol is already within
    `patrolDupeRadius`. It adds at most `maxBeltPatrolsPerSystem` in all.
  - `GateDecorator` instantiates it as `GPA` with `props <- IF pc = "idle"
    THEN props ELSE before`. Every step inside a pass is then an abstract
    stutter, and the last iteration of a pass is the whole abstract pass.
- **StaticPropSpawner.tla** models the template spawner.
  - The template `GetDefaultGateEnvironmentTemplate` is given in km.
  - `SpawnForSystem` covers the two early returns and the walk of the gate
    map.
  - `SkipNullGate` is `if (gateEnt == nullptr) continue;`.
  - `SpawnGateEnvironment` is one gate's three category loops. Type-0 calls
    return before `SpawnItem`. Failures are bounded by `MaxFailures` per pass
    and recorded in `sfailed`.
- **CalendarDB.tla** models the writes of `system/CalendarDB.cpp`.
  - State: `events` (eventID -> row of owner, duration, importance, title,
    flag, isDeleted), `nextID` (auto-increment), bags `invitees` and
    `responses`, `dbErrors`, and a history variable `req` holding the last
    call with what its caller asked for.
  - A title is a sequence of characters. `EscapeSqlString` is the code's
    escaping and `SqlLiteral` is MySQL reading a `'%s'` literal: a lone `'`
    ends the literal, so the query is malformed. A malformed or failing query
    writes nothing and returns 0.
  - Actions: `DeleteEvent`, `SaveNewEventWithInvites` (invitee INSERT before
    the event INSERT), `SaveNewEventManual` (event, then invitees from the
    returned ID), `EditEventManual` (one of four UPDATE texts chosen by which
    of duration and importance are an Int/Bool), `SaveNewEvent`,
    `SaveSystemEvent` and `SaveEventResponse`. Edits and responses may target
    deleted and never-created IDs.
  - The read calls are operators over the tables:
    - `GetEventList` gives the owner's events that are not deleted;
    - `GetEventDetails` gives the row with that ID, deleted or not;
    - `GetResponsesToEvent` and `GetResponsesForCharacter` give bags of
      `[characterID, status]` and `[eventID, status]` rows.

    `TitleStoredAsSent` and `LatestResponseWins` are stated through
    them, so they describe what a client reads back.
- **OwnerNotes.tla** models the note handlers of `CharMgrService`.
  - State: `notes` (noteID -> owner, label, body), `nextNote`, `itemNotes`
    (per character and item), `dbErrors`, and the history variable `req`.
  - Text is a sequence of character tokens; `"LF"`/`"CR"` stand for `\n` and
    `\r`, `"e'"` for a character >= 0x80.
  - `AddOwnerNote` is the unified handler as both typed overloads reach it,
    with the arguments in either order: `Narrow`, `IsLabel`, the label pick,
    and the insert that may fail. `Narrow` is the identity because
    `content()` returns `std::string` in this fork.
  - `EditOwnerNoteBodyOnly` is the client joining label, `\n` or `\n\r`,
    and body, and the handler splitting it (`FindLF`, `SplitNote`).
    `EditOwnerNoteLabelBody` stands for the three two-argument overloads,
    which do the same thing.
  - The `CharacterDB` writes are outside the repository and are modelled by
    their effect: the row with that noteID and ownerID changes, or nothing
    does when the call fails. Failures are only logged.
  - `GetOwnerNote` and `GetOwnerNoteLabels` are operators.
- **CharContacts.tla** models the contact and bounty handlers.
  - State: `contacts` (`<<ownerID, contactID>>` -> standing, or
    `NoContact`), `blocked` (pairs), `balance` (every character and CONCORD),
    `bounties` (a bag of `[target, placer, amount]`), and the history
    variable `req`.
  - One action per handler; the PyInt and PyFloat overloads of
    `AddContact` and `EditContact` do the same thing and share an action.
    `UpdateContact` keeps the code's argument order `(standing, charID,
    ownerID)`.
  - `AddToBounty` covers the self test, the strict balance test, the
    transfer to CONCORD, the `AddBounty` row, and the `NotEnoughMoney` error.
- **MCGateDecorator.tla**, **MCStaticPropSpawner.tla**, **MCCalendarDB.tla**,
  **MCOwnerNotes.tla** and **MCCharContacts.tla** give the constants for
  TLC.

## Runs

| Run | cfg | Expect | What it shows |
|---|---|---|---|
| gate_decorator | MCGateDecorator.cfg | pass | `BillboardUniquePerGate`, `BeltPatrolsBounded` and `BillboardAndBeltPlacementStable` hold over any order of three gate/belt passes, with spawn failures and removals in between. `BeltCapExact` (action property, spec §8 "cap enforcement"): a belts pass makes exactly min(cap, patrolsPerBelt × qualifying belts) spawn calls, a belt qualifying when the snapshot has no patrol, gate patrols included, within `patrolDupeRadius`. When two belts qualify, the second gets one of its two patrols. `ImplementsPassContract`: `GateDecorator` refines `GatePassAbstract` (243k states). |
| gate_patrol_placement | MCGateDecorator_patrol.cfg | violation | `PatrolPlacementStable` fails. Pass 1 puts gate 1's patrol at `<<0,0,-22>>`. Gate 1 gets a billboard in pass 1, so pass 2 skips the billboard's three draws and puts the patrol at `<<0,-22,0>>`. |
| template_layout | MCStaticPropSpawner.cfg | pass | `LayoutComplete`: after each `SpawnForSystem` call, every slot of every gate holds its prop or its own call failed, and null gates get nothing. `TypeOK`: civilians (type 0) are never spawned. |
| template_reinvoke | MCStaticPropSpawner_reinvoke.cfg | violation | `NoDuplicateProps` fails after the second call. Spec §1 requires re-invocation to be safe. |
| calendar | MCCalendarDB.cfg | pass | `InviteesReferenceEvents`: no invitee row names a missing event, because `SaveNewEventManual` writes invitees only after the event insert succeeded. Any interleaving of creates, edits, deletes and responses, with a failing query (22k states). |
| calendar_invitees | MCCalendarDB_invitees.cfg | violation | `InviteesStored` fails. `SaveNewEvent` with invitees inserts them before the event exists, as `" VALUES %s"` of the list's PyRep pointers joined by commas: no parenthesised rows and no eventID. The query is malformed, so no invitee is ever stored. |
| calendar_text | MCCalendarDB_text.cfg | violation | `TitleStoredAsSent` fails. `SaveNewEvent` puts the title into the SQL unescaped, so a title `a'` makes the insert fail (TLC's trace). The titles of this run also include `a''`, which the unescaped path stores as `a'`. |
| calendar_response | MCCalendarDB_response.cfg | violation | `LatestResponseWins` fails. A second answer to the same event adds a second row, and both `GetResponsesToEvent` and `GetResponsesForCharacter` report both. |
| owner_notes | MCOwnerNotes.cfg | pass | `TypeOK`: every add, edit, remove and item note, in any order and with a failing call, stores text over the client's alphabet, so the narrowing keeps non-ASCII characters (4.5k states). |
| owner_notes_label | MCOwnerNotes_label.cfg | violation | `NoteStoredAsSent` fails. With `(part, idStr)` and a note text starting `N:`, the text becomes the label and the label the body. |
| contacts_bounty | MCCharContacts.cfg | pass | `OwnContactsOnly` (action property): no contact handler changes another character's contacts or blocks. `BountiesPaidFor`: every wallet equals its start less the bounties it placed, and CONCORD holds their sum. `TypeOK`: no wallet is overdrawn (114k states). |
| contacts_bounty_negative | MCCharContacts_bounty.cfg | violation | `BountiesPositive` fails. `AddToBounty(target, -1)` passes the `amount < balance` test, pays the caller 1 ISK from CONCORD and stores a bounty of -1. |

Every property of a passing run has a mutant in PROJECT.json: a plausible
bug, written as an operator next to the definition it replaces, that TLC
shows breaks the property. Examples:
- comparing against the radius instead of its square;
- dropping the belt's duplicate check;
- the inner loop without its cap test;
- a belt served only when all its patrols fit under the cap;
- a seed that changes per pass;
- `DecorateBelts` reusing an earlier pass's snapshot;
- no type-0 filter;
- a failure that ends the gate's iteration;
- invitees written after a failed event insert;
- a missing default in the owner-type flag;
- the lossy wstring narrowing;
- `UpdateContact` given `AddContact`'s argument order;
- `AddBounty` with target and placer swapped;
- `AddToBounty` without its balance test.

## Bounds and why they are enough

- **Gate decorator run.**
  - Two gates 60 km apart, so each is outside the other's 40 km duplicate
    radius.
  - Three belts:
    - belt 3 is 40 km from gate 1 and 18 km from `<<0,0,-22>>`, where gate
      1's patrol lands when its billboard is spawned, so a belts pass after
      a gates pass skips belt 3 because of a gate patrol;
    - belt 4 has a pre-existing patrol 10 km away, so the belt duplicate check
      fires;
    - belt 5 is free.
  - Two patrols per belt with a cap of 3. A belts pass that runs before any
    gate patrol exists finds belts 3 and 5 qualifying, so the cap cuts belt
    5 short; after a gates pass only belt 5 may qualify.
  - A pre-existing billboard 20 km from gate 1.
  - Three passes: enough for a gate pass, a belt pass and a re-run in any
    order.
  - The offsets are the Config defaults in km, with 12 draw buckets. With
    this generator the billboard offsets reached are 15 to 28 km.
- **Template run.**
  - Three gates, one of them null, two passes, at most one failure per pass.
    That is enough for a failure to land in any slot of either gate.
- **Calendar run.**
  - One event ID plus one ID never created, so edits and responses hit a
    live, a deleted and an unknown event.
  - One character and one corporation (owner 1 is CCP), two durations, two
    responses, at most two response rows.
  - Titles `a` and `a'`: one plain, one needing escaping. One failing query.
  - The text run adds the title `a''`, well-formed SQL when sent unescaped.
- **Owner-notes run.**
  - Two characters, so edits of another owner's note are tried.
  - One note ID, which is enough for add, edit, remove and a refused edit
    after removal.
  - A folder label and a note label. Bodies: empty, non-ASCII, starting like
    a label, and holding a line break. Both separators. One failing DB call.
- **Contacts run.**
  - Two characters, so every handler can touch a row of the other owner.
  - Two standings, so an update changes something.
  - Starting balance 2, and amounts -1, 1 and 2: affordable, equal to the
    balance (refused by the strict test), and negative.
  - At most two bounty rows.
- Larger bounds only repeat these cases for more anchors, events or notes.

## Fairness

No run checks liveness, and no specification assumes fairness. The handlers
of CalendarDB, OwnerNotes and CharContacts are single atomic actions. The
two decoration passes are range-for loops over a finite anchor list whose
every iteration moves to the next anchor or breaks, so each pass returns by
construction. What the model checks about a pass is its result, stated as
step properties (`BeltCapExact`) and as the refinement of the atomic pass
contract.

## Not modelled

- **CharMgrService's read handlers other than the owner-note ones.** Each
  forwards one `CharacterDB` query, and `CharacterDB` is outside the
  repository. `GetNote` returns the stored item note or `""`.
  `GetSettingsInfo` returns a fixed marshalled code blob, and `LogSettings`
  only logs.
- **The composition of StaticPropSpawner and GateDecorator.** Nothing in
  the repository calls either entry point. Spec §4.6 calls the template pass
  an *alternative* entry to gate decoration. So no code path runs both on
  one system, and a composed module would check an order the program
  never takes.
- **CalendarDB fields no property reads:** month/year, the start time,
  creatorID and eventText.
- **CharMgrService's other handlers.** `SetActivityStatus` and
  `SetCharacterDescription` pass one value on to objects outside the
  repository. `CreateLabel` and `GetFactions` are stubs. The rest only read.
- **The inWatchlist column.** No handler here reads it. `EditContact` drops
  the argument, and that is listed as a hazard.
- **Logging, item names and the PyRep marshalling.**
- **The Config fields nothing reads:** the orbit radii and speeds,
  `skipWormholes`, `onlyHighSec` and `minSecForBelts`. The code never reads
  them, so wormhole and security filtering does not exist in it.
- **`SystemManager`, `ItemFactory` and `SystemEntity`.** They are outside the
  repository. They appear only through their effect: an entity map ordered by
  item ID, a `SpawnItem` that may fail, and entities that may disappear.

## Plan

Done so far: Placement, GateDecorator with its abstract pass contract
(GatePassAbstract), StaticPropSpawner, CalendarDB with its read calls,
OwnerNotes with its reads, and CharContacts, with the twelve runs above.

Four hazards have no property:
- `GetEventDetails` serves deleted events.
- `EditContact` drops `inWatchlist`.
- `EditOwnerNote(noteID, bodyW)` drops a `\r` that starts the body when
  the separator is a bare `\n`.
- `AddToBounty` transfers the ISK before `AddBounty`, which the handler does
  not check and the model cannot make fail.

The first three are disagreements about what the client should read back;
each needs a violation run of its own, and the twelve runs are all in use.

`SpawnForSystem` returns `true` even when every spawn failed. That is not
listed as a hazard: spec §4.7 and §7 document it as the intended pass-level
result ("did we attempt decoration"). `LayoutComplete` checks instead that
each missing prop is one whose own call failed.

Bounds: the calendar with room for two events runs for more than ten
minutes, so `MaxEvents` stays at 1.
