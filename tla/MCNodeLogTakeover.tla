-------------------------- MODULE MCNodeLogTakeover --------------------------
(***************************************************************************)
(* One member, explored in three scopes: every action on one frame, roots  *)
(* and coverage of two frames against one recovery, and two recovery       *)
(* workers against each other.                                             *)
(***************************************************************************)
EXTENDS MCNodeLog

VARIABLE scope

\* One frame of one Cell and one recovery.
OneFrame ==
    /\ nextSeq <= 2 /\ claimGen <= 1
    /\ \A x \in Cells : taken[x] => \E s \in DOMAIN cellOf : cellOf[s] = x

Whole == scope = "whole" /\ Next /\ OneFrame' /\ UNCHANGED scope
Cover == scope = "cover" /\ CoverNext /\ claimGen' <= 1 /\ UNCHANGED scope
Recover == scope = "recover" /\ RecoverNext /\ UNCHANGED scope

TakeoverSpec ==
    /\ Init /\ scope \in {"whole", "cover", "recover"}
    /\ [][Whole \/ Cover \/ Recover]_<<vars, scope>>
=============================================================================
