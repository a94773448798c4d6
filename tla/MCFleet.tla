------------------------------ MODULE MCFleet -------------------------------
(***************************************************************************)
(* Catalog, node sessions, retention and restore on small instances.  The  *)
(* components share no state here, so each behaviour is of one of them:    *)
(* `scope' says which, and with what load: a session meets changes of its  *)
(* node log, or steps of its wall clock.                                   *)
(***************************************************************************)
EXTENDS Catalog, Session, Retention, Restore, TLC

VARIABLE scope

fleetVars == <<scope, catVars, sessVars, retVars, restoreVars>>

(* Six Cells, the last of them in the second shard.                        *)
MCShardOf == [c \in 1 .. 6 |-> IF c = 6 THEN 1 ELSE 0]

Plain(n) == [cell |-> n, code |-> "a"]

(* Provisioners that split pages and disagree on a Cell, or that change    *)
(* both shards under a scan.                                               *)
Splitting == "p1" :> {Plain(1), Plain(2), Plain(4)}
          @@ "p2" :> {[cell |-> 2, code |-> "b"], Plain(3), Plain(5)}
Scanned == "p1" :> {Plain(1)} @@ "p2" :> {Plain(2), Plain(6)}

MCClocks == -1 .. 1

(* Pins p and q of two releases that differ in a root, and a pin o of p's  *)
(* release, taken when it had fewer Cells.                                 *)
MCPinRoots == "p" :> <<1, 1, 1>> @@ "q" :> <<1, 2, 1>> @@ "o" :> <<1, 0, 0>>
MCPinRelease == "p" :> "A" @@ "q" :> "B" @@ "o" :> "A"
MCPinShards == <<1, 1, 2>>

FleetInit ==
  /\ scope \in {"provision", "scan", "session", "clock", "collect", "operators", "restore"}
  /\ CatInit /\ RetInit /\ RestoreInit
  /\ SessInit /\ (scope # "session" => \A f \in Fencers : skew[f] = 0)

FleetNext ==
  /\ UNCHANGED scope
  /\ \/ /\ scope \in {"provision", "scan"}
        /\ \/ CatStep(IF scope = "scan" THEN Scanned ELSE Splitting)
           \/ scope = "scan" /\ ScanStep
        /\ UNCHANGED <<sessVars, retVars, restoreVars>>
     \/ /\ scope \in {"session", "clock"} /\ SessNext
        /\ IF scope = "session" THEN clockSteps' = 0 ELSE logChanges' = 0
        /\ UNCHANGED <<catVars, retVars, restoreVars>>
     \/ /\ scope \in {"collect", "operators"}
        /\ RetStep(IF scope = "operators" THEN Operators ELSE {"a1"}, scope = "collect")
        /\ UNCHANGED <<catVars, sessVars, restoreVars>>
     \/ /\ scope = "restore" /\ RestoreNext
        /\ UNCHANGED <<catVars, sessVars, retVars>>

FleetSpec == FleetInit /\ [][FleetNext]_fleetVars
=============================================================================
