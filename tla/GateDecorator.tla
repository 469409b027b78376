--------------------------- MODULE GateDecorator ---------------------------
(***************************************************************************)
(* GateDecorators::DecorateGates and GateDecorators::DecorateBelts         *)
(* (decorators/GateDecorator_Billboards.cpp) acting on one solar system.   *)
(*                                                                         *)
(* The system's entities are the anchors (gates and belts, constants: the  *)
(* decorator never creates or destroys them) and a bag of props.  A prop   *)
(* is its type and position, plus a history field `by` naming the anchor   *)
(* whose loop iteration spawned it (0 for an entity the decorator did not  *)
(* spawn).  Each entry point is a pass: the start action takes the anchor  *)
(* list and the snapshot, then one action per iteration of the anchor      *)
(* loop runs the whole loop body, every SpawnStatic call included.  The    *)
(* pass runs to completion on the system's thread, so nothing else happens *)
(* to the system while pc # "idle"; between passes other subsystems may    *)
(* remove props (RemoveProp).                                              *)
(***************************************************************************)
EXTENDS Placement, Integers, Sequences, SequencesExt, FiniteSets, Bags, BagsExt

CONSTANTS
    Gates, Belts,            \* item IDs of the stargates and asteroid belts
    AnchorPos,               \* item ID -> position (km)
    GateTypeID, BeltTypeID,  \* type IDs the anchors show in a snapshot
    PreProps,                \* entities that may already be in the system
    MaxPasses,               \* bound on the number of passes started
    \* GateDecorators::Config (distances in km)
    typeID_Billboard, minOffsetMeters, maxOffsetMeters, dupRadiusMeters,
    enablePatrols, typeID_Patrol, patrolsPerGate, patrolSpawnOffset,
    enableBeltPatrols, typeID_BeltPatrol, patrolsPerBelt, beltSpawnOffset,
    maxBeltPatrolsPerSystem, patrolDupeRadius

ASSUME /\ Gates \subseteq Nat /\ Belts \subseteq Nat /\ Gates \cap Belts = {}
       /\ AnchorPos \in [Gates \cup Belts -> Point]
       /\ MaxPasses \in Nat
       /\ minOffsetMeters <= maxOffsetMeters

VARIABLES
    props,    \* bag of [typeID, pos, by]: the non-anchor entities
    pc,       \* "idle", or the entry point whose pass is running
    todo,     \* anchors the running pass has still to visit, in order
    present,  \* the pass's snapshot: set of [typeID, pos]
    spawned,  \* DecorateBelts' local counter of patrols spawned
    passes,   \* number of passes started (bounded by MaxPasses)
    placed,   \* history: every [anchor, kind, i, pos] a prop was spawned at
    before,   \* history: props as they were when the running pass started
    tried     \* history: SpawnStatic calls the running pass made, failed included

vars == << props, pc, todo, present, spawned, passes, placed, before, tried >>

(***************************************************************************)
(* The defaults of struct GateDecorators::Config, distances in km.  The    *)
(* orbit fields, skipWormholes, onlyHighSec and minSecForBelts are never  *)
(* read by the decorators.                                                 *)
(***************************************************************************)
DefaultConfig ==
    [typeID_Billboard |-> 11136, minOffsetMeters |-> 15, maxOffsetMeters |-> 30,
     dupRadiusMeters |-> 40,
     enablePatrols |-> TRUE, typeID_Patrol |-> 11125, patrolsPerGate |-> 1,
     patrolSpawnOffset |-> 22, patrolOrbitRadius |-> 18, patrolOrbitSpeed |-> 900,
     enableBeltPatrols |-> TRUE, typeID_BeltPatrol |-> 11125, patrolsPerBelt |-> 1,
     beltSpawnOffset |-> 18, beltOrbitRadius |-> 15, beltOrbitSpeed |-> 800,
     maxBeltPatrolsPerSystem |-> 8, patrolDupeRadius |-> 30,
     skipWormholes |-> TRUE, onlyHighSec |-> FALSE]

\* The Config the module is instantiated with, field by field.
Cfg ==
    [typeID_Billboard |-> typeID_Billboard, minOffsetMeters |-> minOffsetMeters,
     maxOffsetMeters |-> maxOffsetMeters, dupRadiusMeters |-> dupRadiusMeters,
     enablePatrols |-> enablePatrols, typeID_Patrol |-> typeID_Patrol,
     patrolsPerGate |-> patrolsPerGate, patrolSpawnOffset |-> patrolSpawnOffset,
     enableBeltPatrols |-> enableBeltPatrols, typeID_BeltPatrol |-> typeID_BeltPatrol,
     patrolsPerBelt |-> patrolsPerBelt, beltSpawnOffset |-> beltSpawnOffset,
     maxBeltPatrolsPerSystem |-> maxBeltPatrolsPerSystem, patrolDupeRadius |-> patrolDupeRadius]

Thing == [typeID : Int, pos : Point]
Prop == [typeID : Int, pos : Point, by : Nat]

AsThing(p) == [typeID |-> p.typeID, pos |-> p.pos]

\* Number of props in the system that satisfy Test.
CountProps(Test(_)) ==
    LET S == {p \in BagToSet(props) : Test(p)}
    IN  FoldSet(LAMBDA p, acc : acc + CopiesIn(p, props), 0, S)

(***************************************************************************)
(* GetStargates / GetBelts: walk the copy of the entity map, which is      *)
(* ordered by item ID, and keep the gates (belts).                         *)
(***************************************************************************)
GetStargates == SetToSortSeq(Gates, <)
GetBelts == SetToSortSeq(Belts, <)

\* SnapshotEntities: (typeID, position) of every entity in the system.
SnapshotEntities ==
    {AsThing(p) : p \in BagToSet(props)}
      \cup {[typeID |-> GateTypeID, pos |-> AnchorPos[g]] : g \in Gates}
      \cup {[typeID |-> BeltTypeID, pos |-> AnchorPos[b]] : b \in Belts}

\* UnitRng R(gate.itemID) and UnitRng R(belt.itemID ^ 0xB3117B77): salt 0
\* stands for no salt, 1 for 0xB3117B77.
\* Seeded bug: a seed that changes from one activation to the next.
GateSeedPerPass(g) == << g + passes, 0 >>

GateSeed(g) == << g, 0 >>
BeltSeed(b) == << b, 1 >>

(***************************************************************************)
(* SpawnStatic(sys, typeID, pos, name) for each call of a sequence of      *)
(* calls [typeID, pos, kind, i]: SpawnItem fails for the calls outside ok  *)
(* (logged, nullptr returned, nothing added); for the others the new       *)
(* static entity is put on grid and registered.  The result is the bag of  *)
(* props the calls add, spawned on behalf of anchor a.                     *)
(***************************************************************************)
SpawnStatic(calls, ok, a) ==
    LET new(j) == [typeID |-> calls[j].typeID, pos |-> calls[j].pos, by |-> a]
    IN  [p \in {new(j) : j \in ok} |-> Cardinality({j \in ok : new(j) = p})]

Attempts(calls, a) ==
    {[anchor |-> a, kind |-> c.kind, i |-> c.i, pos |-> c.pos] : c \in ToSet(calls)}

Init ==
    /\ \E S \in SUBSET PreProps :
          props = [p \in {[typeID |-> t.typeID, pos |-> t.pos, by |-> 0] : t \in S} |-> 1]
    /\ pc = "idle"
    /\ todo = << >>
    /\ present = {}
    /\ spawned = 0
    /\ passes = 0
    /\ placed = {}
    /\ before = props
    /\ tried = 0

-----------------------------------------------------------------------------
(***************************************************************************)
(* DecorateGates: no gates -> return; otherwise snapshot and walk them.    *)
(***************************************************************************)
DecorateGates ==
    /\ pc = "idle"
    /\ passes < MaxPasses
    /\ passes' = passes + 1
    /\ present' = SnapshotEntities
    /\ todo' = GetStargates
    /\ pc' = IF GetStargates = << >> THEN "idle" ELSE "gates"
    /\ before' = props
    /\ tried' = 0
    /\ UNCHANGED << props, spawned, placed >>

(***************************************************************************)
(* One iteration of the gate loop: a fresh UnitRng seeded by the gate's    *)
(* item ID; the billboard (when its type is set and no billboard of the    *)
(* snapshot lies within dupRadius of the gate) at a random direction and a *)
(* random distance in [min, max); then patrolsPerGate patrols, each at a   *)
(* new random direction from the same generator, with no duplicate check.  *)
(***************************************************************************)
GateCalls(g) ==
    LET seed == GateSeed(g)
        gpos == AnchorPos[g]
        doBillboard ==
            /\ typeID_Billboard > 0
            /\ ~anyOfTypeNear(present, gpos, typeID_Billboard, dupRadiusMeters)
        billboard ==
            IF doBillboard
            THEN << [typeID |-> typeID_Billboard, kind |-> "billboard", i |-> 1,
                     pos |-> add(gpos, rand_unit(seed, 0),
                                 range(seed, 2, minOffsetMeters, maxOffsetMeters))] >>
            ELSE << >>
        k0 == IF doBillboard THEN 3 ELSE 0
        nPatrols ==
            IF enablePatrols /\ typeID_Patrol > 0 /\ patrolsPerGate > 0
            THEN patrolsPerGate ELSE 0
        patrol(i) ==
            [typeID |-> typeID_Patrol, kind |-> "patrol", i |-> i,
             pos |-> add(gpos, rand_unit(seed, k0 + 2 * (i - 1)), patrolSpawnOffset)]
    IN  billboard \o [i \in 1..nPatrols |-> patrol(i)]

GateStep ==
    /\ pc = "gates"
    /\ LET g == Head(todo)
           calls == GateCalls(g)
       IN  \E ok \in SUBSET DOMAIN calls :
              /\ props' = props (+) SpawnStatic(calls, ok, g)
              /\ tried' = tried + Len(calls)
              /\ placed' = placed \cup Attempts(calls, g)
    /\ todo' = Tail(todo)
    /\ pc' = IF Tail(todo) = << >> THEN "idle" ELSE "gates"
    /\ UNCHANGED << present, spawned, passes, before >>

-----------------------------------------------------------------------------
\* Seeded bug: the snapshot of an earlier pass reused.
DecorateBeltsKeepsSnapshot ==
    /\ pc = "idle"
    /\ passes < MaxPasses
    /\ passes' = passes + 1
    /\ IF ~enableBeltPatrols \/ typeID_BeltPatrol <= 0 \/ GetBelts = << >>
       THEN UNCHANGED << pc, todo, spawned >>
       ELSE /\ todo' = GetBelts
            /\ spawned' = 0
            /\ pc' = "belts"
    /\ before' = props
    /\ tried' = 0
    /\ UNCHANGED << props, placed, present >>

(***************************************************************************)
(* DecorateBelts: disabled or no belts -> return; otherwise snapshot,      *)
(* spawned = 0 and walk the belts.                                         *)
(***************************************************************************)
DecorateBelts ==
    /\ pc = "idle"
    /\ passes < MaxPasses
    /\ passes' = passes + 1
    /\ IF ~enableBeltPatrols \/ typeID_BeltPatrol <= 0 \/ GetBelts = << >>
       THEN UNCHANGED << pc, todo, present, spawned >>
       ELSE /\ present' = SnapshotEntities
            /\ todo' = GetBelts
            /\ spawned' = 0
            /\ pc' = "belts"
    /\ before' = props
    /\ tried' = 0
    /\ UNCHANGED << props, placed >>

\* Leaving a belt iteration: the loop ends after the last belt.
NextBelt ==
    /\ todo' = Tail(todo)
    /\ pc' = IF Tail(todo) = << >> THEN "idle" ELSE "belts"

\* if (spawned >= cfg.maxBeltPatrolsPerSystem) break;
BeltCapReached ==
    /\ pc = "belts"
    /\ spawned >= maxBeltPatrolsPerSystem
    /\ todo' = << >>
    /\ pc' = "idle"
    /\ UNCHANGED << props, present, spawned, passes, placed, before, tried >>

\* Seeded bug: the belt's duplicate check left out.
BeltPatrolledNever(b) == FALSE

\* A patrol of the snapshot lies within patrolDupeRadius of belt b.
BeltPatrolled(b) ==
    anyOfTypeNear(present, AnchorPos[b], typeID_BeltPatrol, patrolDupeRadius)

\* if (anyOfTypeNear(present, belt.pos, ...)) continue;
BeltSkip ==
    /\ pc = "belts"
    /\ spawned < maxBeltPatrolsPerSystem
    /\ BeltPatrolled(Head(todo))
    /\ NextBelt
    /\ UNCHANGED << props, present, spawned, passes, placed, before, tried >>

(***************************************************************************)
(* One start point per belt from UnitRng(belt ^ salt), then               *)
(* for (i < patrolsPerBelt && spawned < cap) { SpawnStatic; ++spawned; }:  *)
(* every patrol of the belt at the same start point, and spawned counts    *)
(* calls, failed ones included.                                            *)
(***************************************************************************)
\* Seeded bug: the inner loop without its cap test.
BeltLoopUncapped(s) == [calls |-> patrolsPerBelt, spawned |-> s + patrolsPerBelt]

\* Seeded bug: a belt served only when all its patrols fit under the cap.
BeltLoopWholeBelts(s) ==
    IF patrolsPerBelt <= 0 \/ maxBeltPatrolsPerSystem - s < patrolsPerBelt
    THEN [calls |-> 0, spawned |-> s]
    ELSE [calls |-> patrolsPerBelt, spawned |-> s + patrolsPerBelt]

\* The inner loop entered with spawned = s: how many calls it makes and the
\* value of spawned it leaves.
BeltLoop(s) ==
    LET n == IF patrolsPerBelt <= 0 THEN 0
             ELSE IF maxBeltPatrolsPerSystem - s < patrolsPerBelt
                  THEN maxBeltPatrolsPerSystem - s ELSE patrolsPerBelt
    IN  [calls |-> n, spawned |-> s + n]

BeltSpawn ==
    /\ pc = "belts"
    /\ spawned < maxBeltPatrolsPerSystem
    /\ LET b == Head(todo)
           start == add(AnchorPos[b], rand_unit(BeltSeed(b), 0), beltSpawnOffset)
           loop == BeltLoop(spawned)
           calls == [i \in 1..loop.calls |-> [typeID |-> typeID_BeltPatrol, pos |-> start,
                                      kind |-> "beltpatrol", i |-> i]]
       IN  /\ ~BeltPatrolled(b)
           /\ spawned' = loop.spawned
           /\ \E ok \in SUBSET DOMAIN calls :
                 /\ props' = props (+) SpawnStatic(calls, ok, b)
                 /\ tried' = tried + Len(calls)
                 /\ placed' = placed \cup Attempts(calls, b)
    /\ NextBelt
    /\ UNCHANGED << present, passes, before >>

-----------------------------------------------------------------------------
\* Another subsystem destroys or removes a prop between passes.
RemoveProp ==
    /\ pc = "idle"
    /\ \E p \in BagToSet(props) : props' = BagRemove(props, p)
    /\ UNCHANGED << pc, todo, present, spawned, passes, placed, before, tried >>

\* The bound on activations is reached: the system stays as it is.
PassesExhausted ==
    /\ pc = "idle"
    /\ passes = MaxPasses
    /\ UNCHANGED vars

Next ==
    \/ DecorateGates \/ GateStep
    \/ DecorateBelts \/ BeltCapReached \/ BeltSkip \/ BeltSpawn
    \/ RemoveProp
    \/ PassesExhausted

Spec == Init /\ [][Next]_vars

(***************************************************************************)
(* The refinement mapping: outside a pass the abstract system is the      *)
(* system; during a pass it is the system as the pass found it, so the    *)
(* whole pass is one abstract step, taken by the pass's last iteration.    *)
(***************************************************************************)
GPA == INSTANCE GatePassAbstract WITH props <- IF pc = "idle" THEN props ELSE before

-----------------------------------------------------------------------------
TypeOK ==
    /\ IsABag(props) /\ BagToSet(props) \subseteq Prop
    /\ pc \in {"idle", "gates", "belts"}
    /\ todo \in Seq(Gates \cup Belts)
    /\ present \subseteq Thing
    /\ spawned \in 0..maxBeltPatrolsPerSystem /\ passes \in 0..MaxPasses
    /\ tried \in Nat
    /\ placed \subseteq [anchor : Gates \cup Belts,
                         kind : {"billboard", "patrol", "beltpatrol"},
                         i : Nat, pos : Point]

(***************************************************************************)
(* Re-invoking DecorateGates never duplicates a gate's billboard: however  *)
(* many passes run, with props removed and spawns failing in between, at  *)
(* most one billboard spawned for a gate is in the system.  It rests on   *)
(* the pass-start snapshot check in DecorateGates together with the       *)
(* random offset staying below dupRadius.                                  *)
(***************************************************************************)
BillboardUniquePerGate ==
    \A g \in Gates :
        CountProps(LAMBDA p : p.by = g /\ p.typeID = typeID_Billboard) <= 1

(***************************************************************************)
(* Re-invoking DecorateBelts never adds patrols to a belt that has them:  *)
(* at most patrolsPerBelt belt patrols spawned for a belt are present.     *)
(***************************************************************************)
BeltPatrolsBounded ==
    \A b \in Belts :
        CountProps(LAMBDA p : p.by = b /\ p.typeID = typeID_BeltPatrol) <= patrolsPerBelt

(***************************************************************************)
(* Cap enforcement (spec section 8): the cap of DecorateBelts is reached  *)
(* across the whole pass, not per belt, and exactly.  A belts pass ends   *)
(* having made min(cap, patrolsPerBelt * N) SpawnStatic calls, N being    *)
(* the belts with no patrol of the snapshot within patrolDupeRadius: the  *)
(* `break`, the `continue`, and the inner loop's cap test together cut    *)
(* the last belt's patrols short and spend no call past the cap.          *)
(***************************************************************************)
BeltCapExact ==
    [][ (pc = "belts" /\ pc' = "idle") =>
          LET n == patrolsPerBelt * Cardinality({b \in Belts : ~BeltPatrolled(b)})
          IN  tried' = IF n < maxBeltPatrolsPerSystem THEN n ELSE maxBeltPatrolsPerSystem
      ]_vars

(***************************************************************************)
(* Placement is a function of the anchor alone: every pass puts the i-th  *)
(* prop of a kind for an anchor at the same position (the seeded UnitRng  *)
(* contract), checked for the kinds in Kinds.                              *)
(***************************************************************************)
PlacementStable(Kinds) ==
    \A p, q \in placed :
        (p.anchor = q.anchor /\ p.kind = q.kind /\ p.i = q.i /\ p.kind \in Kinds)
            => p.pos = q.pos

\* Billboards and belt patrols land where they landed in earlier passes.
BillboardAndBeltPlacementStable == PlacementStable({"billboard", "beltpatrol"})

(***************************************************************************)
(* DecorateGates and DecorateBelts implement the pass contract of          *)
(* GatePassAbstract: judged against the system when each pass started,     *)
(* the iterations together add only what one atomic pass may add,        *)
(* whatever the snapshot, the generator and the failed spawns did.        *)
(***************************************************************************)
ImplementsPassContract == GPA!Spec

\* Gate patrols land where they landed in earlier passes.
PatrolPlacementStable == PlacementStable({"patrol"})

=============================================================================
