----------------------------- MODULE MCMovement -----------------------------
(***************************************************************************)
(* The ways in which a Cell leaves a node, on small instances: a movement  *)
(* under two controllers that overtake each other, or under one controller *)
(* beside maintenance of an endpoint or beside owners that come and go;    *)
(* and the bundle catalog that a bound Cell departs from, of one Cell that *)
(* comes back and of a Cell bound beside one already bound.  `load' is     *)
(* fixed for a behaviour; the other component rests.                       *)
(***************************************************************************)
EXTENDS Movement, Bundles, TLC

CONSTANTS c1, c2

VARIABLE load

movementVars == <<load, moveVars, bundleVars>>

Moving == {"controllers", "upkeep", "owners"}

MovementInit ==
  /\ load \in Moving \cup {"rebinding", "binding"}
  /\ MoveInit /\ (load # "upkeep" => upkeep.node = "source")
  /\ IF load = "binding" THEN BundlesInit({1, 2}, {2}) ELSE BundlesInit({1}, {})

(* One controller, the first that claims, or any.                          *)
Acting == IF load = "controllers" THEN Controllers
          ELSE {c \in Controllers : holder \in {"none", c}}

Symmetry == Permutations(Controllers)

MovementNext ==
  /\ UNCHANGED load
  /\ \/ /\ load \in Moving
        /\ MoveStep(Acting, {load})
        /\ UNCHANGED bundleVars
     \/ /\ load \notin Moving
        /\ BundlesStep(load = "rebinding")
        /\ UNCHANGED moveVars

MovementSpec == MovementInit /\ [][MovementNext]_movementVars
=============================================================================
