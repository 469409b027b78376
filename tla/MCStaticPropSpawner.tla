------------------------ MODULE MCStaticPropSpawner ------------------------
(***************************************************************************)
(* Three entries in the gate map, one of them without an entity, and a    *)
(* sentry gun already standing 200 km away.                                *)
(***************************************************************************)
EXTENDS StaticPropSpawner

MCGates == {1, 2, 3}
MCNullGates == {3}
MCAnchorPos == (1 :> << 0, 0, 0 >>) @@ (2 :> << 60, 0, 0 >>) @@ (3 :> << 0, 90, 0 >>)
MCPreProps == { [typeID |-> 3742, pos |-> << 200, 0, 0 >>] }

=============================================================================
