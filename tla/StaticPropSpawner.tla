------------------------- MODULE StaticPropSpawner -------------------------
(***************************************************************************)
(* StaticPropSpawner::SpawnForSystem (system/StaticPropSpawner.cpp): the   *)
(* fixed gate-environment template (billboard, sentry box, civilian ships) *)
(* applied around every gate of SystemManager::GetGates().                 *)
(*                                                                         *)
(* props is the bag of entities the system holds besides its gates, each  *)
(* [typeID, pos, by] with `by` the gate whose iteration spawned it (0 for  *)
(* an entity already there).  A pass is the start action and one action   *)
(* per gate of the map, each running the whole loop body.  SpawnItem may   *)
(* fail for any call, at most MaxFailures times in a pass.                 *)
(***************************************************************************)
EXTENDS Integers, Sequences, SequencesExt, FiniteSets, Bags, BagsExt

CONSTANTS
    Gates,        \* keys of the gate map (item IDs)
    NullGates,    \* keys whose SystemEntity* is nullptr
    AnchorPos,    \* gate item ID -> position (km)
    PreProps,     \* entities that may already be in the system
    MaxPasses,    \* bound on the number of SpawnForSystem calls
    MaxFailures   \* bound on SpawnItem failures in one pass

ASSUME /\ Gates \subseteq Nat /\ NullGates \subseteq Gates
       /\ AnchorPos \in [Gates -> Int \X Int \X Int]
       /\ MaxPasses \in Nat /\ MaxFailures \in Nat

VARIABLES
    props,     \* bag of [typeID, pos, by]
    spc,       \* "idle" or "gates" while SpawnGateEnvironmentForSystem loops
    stodo,     \* gates still to visit, in map order
    spasses,   \* number of SpawnForSystem calls
    sfailed    \* history: [gate, slot] of every call whose SpawnItem failed

svars == << props, spc, stodo, spasses, sfailed >>

(***************************************************************************)
(* The namespace constants and GetDefaultGateEnvironmentTemplate, with the *)
(* offsets in km.  A slot names one offset of one category.                *)
(***************************************************************************)
kBillboardTypeID == 11136
kSentryGunTypeID == 3742
kCivilianTypeID == 0

GetDefaultGateEnvironmentTemplate ==
    LET d == 10
        h == 8
    IN  [billboardOffsets |-> << << 15, 0, 0 >> >>,
         sentryOffsets |-> << << d, h, 0 >>, << -d, h, 0 >>, << 0, h, d >>, << 0, h, -d >>,
                              << d, -h, 0 >>, << -d, -h, 0 >>, << 0, -h, d >>, << 0, -h, -d >> >>,
         civilianOffsets |-> << << 20, 5, 5 >>, << -20, -5, -5 >> >>,
         billboardTypeID |-> kBillboardTypeID,
         sentryTypeID |-> kSentryGunTypeID,
         civilianTypeID |-> kCivilianTypeID]

tpl == GetDefaultGateEnvironmentTemplate

\* The three category loops in order: billboards, sentry guns, civilians.
Categories ==
    << [name |-> "billboard", typeID |-> tpl.billboardTypeID, offsets |-> tpl.billboardOffsets],
       [name |-> "sentry", typeID |-> tpl.sentryTypeID, offsets |-> tpl.sentryOffsets],
       [name |-> "civilian", typeID |-> tpl.civilianTypeID, offsets |-> tpl.civilianOffsets] >>

(***************************************************************************)
(* The SpawnStaticPropAt calls one gate's iteration makes, in order, each *)
(* with its slot, type and position gatePos + offset.  Calls with typeID 0 *)
(* return before SpawnItem, so they are left out.                          *)
(***************************************************************************)
\* Seeded bug: SpawnStaticPropAt without its typeID == 0 early return.
GateCallsUnfiltered(g) ==
    LET calls(c) ==
            [j \in DOMAIN Categories[c].offsets |->
                [slot |-> << Categories[c].name, j >>,
                 typeID |-> Categories[c].typeID,
                 pos |-> LET o == Categories[c].offsets[j]
                         IN  << AnchorPos[g][1] + o[1], AnchorPos[g][2] + o[2],
                               AnchorPos[g][3] + o[3] >>]]
    IN  calls(1) \o calls(2) \o calls(3)

GateCalls(g) ==
    LET calls(c) ==
            [j \in DOMAIN Categories[c].offsets |->
                [slot |-> << Categories[c].name, j >>,
                 typeID |-> Categories[c].typeID,
                 pos |-> LET o == Categories[c].offsets[j]
                         IN  << AnchorPos[g][1] + o[1], AnchorPos[g][2] + o[2],
                               AnchorPos[g][3] + o[3] >>]]
        all == calls(1) \o calls(2) \o calls(3)
    IN  SelectSeq(all, LAMBDA call : call.typeID # 0)

\* Seeded bug: a failed SpawnItem ends the gate's iteration.
SpawnedUntilFailure(calls, ok, g) ==
    LET stop == IF \E j \in DOMAIN calls : j \notin ok
                THEN CHOOSE j \in DOMAIN calls : j \notin ok /\ \A i \in 1..(j - 1) : i \in ok
                ELSE Len(calls) + 1
        kept == {j \in ok : j < stop}
        new(j) == [typeID |-> calls[j].typeID, pos |-> calls[j].pos, by |-> g]
    IN  [p \in {new(j) : j \in kept} |-> Cardinality({j \in kept : new(j) = p})]

(***************************************************************************)
(* SpawnStaticPropAt for each call: SpawnItem fails for the calls outside  *)
(* ok (warning logged, return); the others become a StaticSystemEntity     *)
(* added to the inventory and the entity list.  The bag of props added.    *)
(***************************************************************************)
SpawnStaticPropAt(calls, ok, g) ==
    LET new(j) == [typeID |-> calls[j].typeID, pos |-> calls[j].pos, by |-> g]
    IN  [p \in {new(j) : j \in ok} |-> Cardinality({j \in ok : new(j) = p})]

Init ==
    /\ \E S \in SUBSET PreProps :
          props = [p \in {[typeID |-> t.typeID, pos |-> t.pos, by |-> 0] : t \in S} |-> 1]
    /\ spc = "idle"
    /\ stodo = << >>
    /\ spasses = 0
    /\ sfailed = {}

(***************************************************************************)
(* SpawnForSystem -> SpawnGateEnvironmentForSystem: return when no typeID  *)
(* is configured or the system has no gates, else walk the gate map.       *)
(***************************************************************************)
SpawnForSystem ==
    /\ spc = "idle"
    /\ spasses < MaxPasses
    /\ spasses' = spasses + 1
    /\ IF /\ tpl.billboardTypeID = 0 /\ tpl.sentryTypeID = 0 /\ tpl.civilianTypeID = 0
          \/ Gates = {}
       THEN UNCHANGED << spc, stodo >>
       ELSE /\ stodo' = SetToSortSeq(Gates, <)
            /\ spc' = "gates"
    /\ UNCHANGED << props, sfailed >>

\* Failures of SpawnItem already met in the running pass.
FailuresThisPass == Cardinality({f \in sfailed : f.pass = spasses})

LeaveGate ==
    /\ stodo' = Tail(stodo)
    /\ spc' = IF Tail(stodo) = << >> THEN "idle" ELSE "gates"

\* if (gateEnt == nullptr) continue;
SkipNullGate ==
    /\ spc = "gates"
    /\ Head(stodo) \in NullGates
    /\ LeaveGate
    /\ UNCHANGED << props, spasses, sfailed >>

\* The body of the gate loop: every call of the template for this gate.
SpawnGateEnvironment ==
    /\ spc = "gates"
    /\ Head(stodo) \notin NullGates
    /\ LET g == Head(stodo)
           calls == GateCalls(g)
       IN  \E ok \in SUBSET DOMAIN calls :
              /\ Cardinality(DOMAIN calls \ ok) <= MaxFailures - FailuresThisPass
              /\ props' = props (+) SpawnStaticPropAt(calls, ok, g)
              /\ sfailed' = sfailed \cup
                    {[gate |-> g, slot |-> calls[j].slot, pass |-> spasses] : j \in DOMAIN calls \ ok}
    /\ LeaveGate
    /\ UNCHANGED spasses

\* The bound on SpawnForSystem calls is reached.
PassesExhausted ==
    /\ spc = "idle"
    /\ spasses = MaxPasses
    /\ UNCHANGED svars

Next == SpawnForSystem \/ SkipNullGate \/ SpawnGateEnvironment \/ PassesExhausted

Spec == Init /\ [][Next]_svars

-----------------------------------------------------------------------------
TypeOK ==
    /\ IsABag(props)
    /\ BagToSet(props) \subseteq [typeID : Nat \ {0}, pos : Int \X Int \X Int, by : Nat]
    /\ spc \in {"idle", "gates"}
    /\ stodo \in Seq(Gates)
    /\ spasses \in 0..MaxPasses
    /\ sfailed \subseteq [gate : Gates, slot : {"billboard", "sentry", "civilian"} \X Nat,
                          pass : 1..MaxPasses]

\* The prop a slot of gate g's template stands for.
SlotProp(g, call) == [typeID |-> call.typeID, pos |-> call.pos, by |-> g]

(***************************************************************************)
(* Per-prop failures are independent: once a pass is over, every           *)
(* configured slot of every gate with an entity holds its prop unless      *)
(* that very call of the pass just ended failed, a failure never costs     *)
(* the props after it, and nothing is spawned for a gate-map entry         *)
(* without an entity.                                                      *)
(***************************************************************************)
LayoutComplete ==
    (spc = "idle" /\ spasses > 0) =>
        /\ \A g \in Gates \ NullGates :
              \A j \in DOMAIN GateCalls(g) :
                  \/ CopiesIn(SlotProp(g, GateCalls(g)[j]), props) >= 1
                  \/ \E f \in sfailed : /\ f.gate = g /\ f.slot = GateCalls(g)[j].slot
                                       /\ f.pass = spasses
        /\ \A p \in BagToSet(props) : p.by \notin NullGates

(***************************************************************************)
(* Re-invoking the pass creates no duplicate content: no two entities of  *)
(* the same type stand at the same position (spec section 1: the core     *)
(* "must be safe to re-invoke without creating duplicate content").        *)
(***************************************************************************)
NoDuplicateProps ==
    \A p \in BagToSet(props) :
        LET same == {q \in BagToSet(props) : q.typeID = p.typeID /\ q.pos = p.pos}
        IN  FoldSet(LAMBDA q, acc : acc + CopiesIn(q, props), 0, same) <= 1

=============================================================================
