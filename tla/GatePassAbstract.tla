-------------------------- MODULE GatePassAbstract --------------------------
(***************************************************************************)
(* What one call of GateDecorators::DecorateGates or DecorateBelts         *)
(* promises, with the pass taken as a single step and nothing said about   *)
(* the generator: the props a pass adds, judged against the system as it  *)
(* was when the pass started.                                              *)
(*                                                                         *)
(*  - a gates pass adds, per gate, at most one billboard (none when a      *)
(*    billboard already lies within dupRadius of the gate) at a distance   *)
(*    in [minOffset, maxOffset), and at most patrolsPerGate patrols at     *)
(*    patrolSpawnOffset;                                                   *)
(*  - a belts pass adds, per belt, at most patrolsPerBelt belt patrols at  *)
(*    beltSpawnOffset (none when a patrol already lies within              *)
(*    patrolDupeRadius of the belt), and at most maxBeltPatrolsPerSystem   *)
(*    in all;                                                              *)
(*  - between passes, other subsystems may remove any prop.                *)
(*                                                                         *)
(* A prop is [typeID, pos, by], `by` naming the anchor it was spawned for  *)
(* (0 for an entity that was already there).                               *)
(***************************************************************************)
EXTENDS Integers, FiniteSets, FiniteSetsExt, Bags, BagsExt

CONSTANTS
    Gates, Belts, AnchorPos,
    typeID_Billboard, minOffsetMeters, maxOffsetMeters, dupRadiusMeters,
    enablePatrols, typeID_Patrol, patrolsPerGate, patrolSpawnOffset,
    enableBeltPatrols, typeID_BeltPatrol, patrolsPerBelt, beltSpawnOffset,
    maxBeltPatrolsPerSystem, patrolDupeRadius

VARIABLE props   \* bag of [typeID, pos, by]

Dist2(a, b) ==
    (a[1] - b[1]) * (a[1] - b[1]) + (a[2] - b[2]) * (a[2] - b[2])
        + (a[3] - b[3]) * (a[3] - b[3])

\* Copies in bag B of the props satisfying P.
CopiesWhere(B, P(_)) ==
    FoldSet(LAMBDA p, acc : acc + CopiesIn(p, B), 0, {p \in BagToSet(B) : P(p)})

\* Some prop of type t lies strictly within radius r of anchor a.
Near(t, a, r) ==
    \E p \in BagToSet(props) : p.typeID = t /\ Dist2(p.pos, AnchorPos[a]) < r * r

\* The props a step adds, when it only adds.
Added == props' (-) props

GatesPassContract(D) ==
    /\ \A p \in BagToSet(D) :
          /\ p.by \in Gates
          /\ \/ /\ p.typeID = typeID_Billboard
                /\ minOffsetMeters * minOffsetMeters <= Dist2(p.pos, AnchorPos[p.by])
                /\ Dist2(p.pos, AnchorPos[p.by]) < maxOffsetMeters * maxOffsetMeters
             \/ /\ p.typeID = typeID_Patrol
                /\ Dist2(p.pos, AnchorPos[p.by]) = patrolSpawnOffset * patrolSpawnOffset
    /\ \A g \in Gates :
          /\ CopiesWhere(D, LAMBDA p : p.by = g /\ p.typeID = typeID_Billboard)
                <= IF typeID_Billboard > 0 /\ ~Near(typeID_Billboard, g, dupRadiusMeters)
                   THEN 1 ELSE 0
          /\ CopiesWhere(D, LAMBDA p : p.by = g /\ p.typeID = typeID_Patrol)
                <= IF enablePatrols /\ typeID_Patrol > 0 THEN patrolsPerGate ELSE 0

BeltsPassContract(D) ==
    /\ \A p \in BagToSet(D) :
          /\ p.by \in Belts
          /\ p.typeID = typeID_BeltPatrol
          /\ Dist2(p.pos, AnchorPos[p.by]) = beltSpawnOffset * beltSpawnOffset
    /\ \A b \in Belts :
          CopiesWhere(D, LAMBDA p : p.by = b)
              <= IF Near(typeID_BeltPatrol, b, patrolDupeRadius) THEN 0 ELSE patrolsPerBelt
    /\ BagCardinality(D) <= IF enableBeltPatrols THEN maxBeltPatrolsPerSystem ELSE 0

Init == \A p \in BagToSet(props) : p.by = 0

GatesPass == props \sqsubseteq props' /\ GatesPassContract(Added)

BeltsPass == props \sqsubseteq props' /\ BeltsPassContract(Added)

Remove == \E p \in BagToSet(props) : props' = BagRemove(props, p)

Next == GatesPass \/ BeltsPass \/ Remove

Spec == Init /\ [][Next]_props

=============================================================================
