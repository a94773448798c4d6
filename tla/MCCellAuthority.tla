--------------------------- MODULE MCCellAuthority ---------------------------
(***************************************************************************)
(* CellAuthority on small instances: fleets whose sessions all have a      *)
(* lease guard, and fleets in which one renews the record itself.          *)
(***************************************************************************)
EXTENDS CellAuthority, TLC

\* All sessions have a lease guard, or all but one; the second kind also migrates.
AnyFleet == {[leased |-> Sessions, revisions |-> 6, schemas |-> 1]} \cup
            {[leased |-> Sessions \ {s}, revisions |-> 5, schemas |-> 2] : s \in Sessions}
LeasedFleet == {[leased |-> Sessions, revisions |-> 6, schemas |-> 2]}
\* The fleets are closed under exchanging sessions.
Interchangeable == Permutations(Sessions)
=============================================================================
