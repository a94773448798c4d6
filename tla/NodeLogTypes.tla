---------------------------- MODULE NodeLogTypes ----------------------------
(***************************************************************************)
(* Type correctness of the node log: the steps of the followers and of     *)
(* recovery, and the theorem.                                              *)
(***************************************************************************)
EXTENDS NodeLogLeaderTypes

USE MembersAssumption, CellsAssumption, BoundsAssumption

LEMMA RequestSpan == \A q \in Requests : q.to \in Members /\ Span(q) \subseteq Seqs
  BY DEF Requests, Span, Seqs

LEMMA AttemptStarts ==
  ASSUME TypeOK, NEW c \in Claimants, StartAttempt(c),
         gen' \in [Claimants -> 0 .. MaxClaims]
  PROVE  AttemptTypes'
<1>1. [m \in Members |-> NoReceipt] \in [Members -> Receipts]
  BY DEF NoReceipt, Receipts, Seqs0
<1>2. NoTails \in Manifests
  BY DEF NoTails, Manifests
<1>3. root \in [Cells -> Seqs0] /\ pin \in [Cells -> SUBSET Manifests]
  BY DEF TypeOK, LeaderTypes, CellTypes
<1>4. 0 \in Seqs0
  BY DEF Seqs0
<1>5. QED
  BY <1>1, <1>2, <1>3, <1>4, Zenon DEF TypeOK, AttemptTypes, StartAttempt

LEMMA PinnableType ==
  ASSUME TypeOK, NEW c \in Claimants
  PROVE  Pinnable(c) \subseteq Manifests
<1>1. \A x \in Cells : Tail(c, x) \subseteq Seqs
  BY DEF Tail, TypeOK, DirTypes, AttemptTypes, Seqs, Seqs0
<1>2. [x \in Cells |-> Tail(c, x)] \in Manifests
  BY <1>1 DEF Manifests
<1>3. UNION {seen[c][x] : x \in Cells} \subseteq Manifests
  BY DEF TypeOK, AttemptTypes
<1>4. QED
  BY <1>2, <1>3 DEF Pinnable

LEMMA SealLaneTypes ==
  ASSUME LaneTypes, NEW m \in Members, SealLane(m)
  PROVE  LaneTypes'
<1>1. NoGrant \in Grants
  BY DEF NoGrant, Grants, Seqs0
<1>2. grant' \in [Members -> Grants]
  BY <1>1 DEF LaneTypes, SealLane
<1>3. sealed' \in [Members -> BOOLEAN]
  BY DEF LaneTypes, SealLane
<1>4. QED
  BY <1>2, <1>3 DEF LaneTypes, SealLane

LEMMA TypeAuthorize ==
  ASSUME TypeOK, NEW q \in msgs, Authorize(q)
  PROVE  TypeOK'
<1> USE DEF TypeOK
<1>1. ShipTypes'
  BY DEF Authorize, ShipTypes
<1>2. QED
  BY <1>1, Untouched DEF Authorize, gateVars, leaderVars, dirVars

LEMMA TypeOpenGrant ==
  ASSUME TypeOK, NEW m \in Members, NEW first \in Seqs, OpenGrant(m, first)
  PROVE  TypeOK'
<1> USE DEF TypeOK
<1>1. LaneTypes'
  BY DEF OpenGrant, LaneTypes, DirTypes, Grants, Seqs, Seqs0
<1>2. QED
  BY <1>1, Untouched DEF OpenGrant, gateVars, leaderVars, dirVars

LEMMA TypeDropGrant ==
  ASSUME TypeOK, NEW m \in Members, DropGrant(m)
  PROVE  TypeOK'
<1> USE DEF TypeOK
<1>1. LaneTypes'
  BY DEF DropGrant, LaneTypes, NoGrant, Grants, Seqs0
<1>2. QED
  BY <1>1, Untouched DEF DropGrant, gateVars, leaderVars, dirVars

LEMMA TypeAppendFrames ==
  ASSUME TypeOK, NEW q \in msgs, NEW covered \in Seqs0, NEW k \in Seqs0, AppendFrames(q, covered,
         k)
  PROVE  TypeOK'
<1> USE DEF TypeOK
<1> DEFINE m == q.to
<1>1. ShipTypes'
  <2>1. PICK first, durable : Answer(q, first, durable)
    BY DEF AppendFrames
  <2>2. /\ good' \in [Members -> SUBSET Rounds]
        /\ bad' \in [Members -> SUBSET Rounds]
        /\ waiting' \in [Members -> BOOLEAN]
    <3>1. Outstanding(m) \subseteq Rounds
      BY DEF Outstanding, ShipTypes
    <3>2. CASE waiting[m] /\ q.last = sent[m]
      <4>1. good' = [good EXCEPT ![m] =
              @ \cup {r \in Outstanding(m) : ReceiptCovers(r, first, durable)}]
        BY <2>1, <3>2 DEF Answer
      <4>2. bad' = [bad EXCEPT ![m] =
              @ \cup (Outstanding(m) \ {r \in Outstanding(m) :
                                            ReceiptCovers(r, first, durable)})]
        BY <2>1, <3>2 DEF Answer
      <4>3. waiting' = [waiting EXCEPT ![m] = FALSE]
        BY <2>1, <3>2 DEF Answer
      <4>4. QED
        BY <3>1, <4>1, <4>2, <4>3, Zenon DEF ShipTypes
    <3>3. CASE ~(waiting[m] /\ q.last = sent[m])
      BY <2>1, <3>3 DEF Answer, ShipTypes
    <3>4. QED
      BY <3>2, <3>3
  <2>3. QED
    BY <2>2 DEF AppendFrames, ShipTypes
<1>2. LaneTypes'
  <2>1. Pruned(m, k) \cup Fresh(q, Pruned(m, k), covered) \subseteq Seqs
    <3>1. m \in Members /\ Span(q) \subseteq Seqs
      BY RequestSpan DEF ShipTypes
    <3>2. QED
      BY <3>1 DEF Pruned, Fresh, LaneTypes
  <2>2. recs' = [recs EXCEPT ![m] = Pruned(m, k) \cup Fresh(q, Pruned(m, k), covered)]
    BY DEF AppendFrames
  <2>3. QED
    BY <2>1, <2>2, Zenon DEF AppendFrames, LaneTypes
<1>3. QED
  BY <1>1, <1>2, Untouched DEF AppendFrames, gateVars, leaderVars, dirVars

LEMMA TypeAppendBreaks ==
  ASSUME TypeOK, NEW q \in msgs, NEW covered \in Seqs0, NEW k \in Seqs0, NEW j \in Seqs0,
         AppendBreaks(q, covered, k, j)
  PROVE  TypeOK'
<1> USE DEF TypeOK
<1>1. ShipTypes'
  BY DEF AppendBreaks, ShipTypes
<1>2. LaneTypes'
  <2> DEFINE m == q.to
  <2>1. PICK d \in Seqs0 : recs' = [recs EXCEPT ![m] = Pruned(m, k) \cup (d + 1 .. j)]
    BY Zenon DEF AppendBreaks
  <2>2. m \in Members
    BY RequestSpan DEF ShipTypes
  <2>3. Pruned(m, k) \cup (d + 1 .. j) \subseteq Seqs
    BY <2>2 DEF Pruned, LaneTypes, Seqs, Seqs0
  <2>4. QED
    BY <2>1, <2>3, Zenon DEF AppendBreaks, LaneTypes
<1>3. QED
  BY <1>1, <1>2, Untouched DEF AppendBreaks, gateVars, leaderVars, dirVars

LEMMA TypeExpireClaim ==
  ASSUME TypeOK, ExpireClaim
  PROVE  TypeOK'
<1> USE DEF TypeOK
<1>1. FlagTypes'
  BY Zenon DEF ExpireClaim, FlagTypes, gateVars, leaderVars
<1>2. DirTypes'
  BY DEF ExpireClaim, DirTypes
<1>3. QED
  BY <1>1, <1>2, Untouched DEF ExpireClaim, gateVars

LEMMA TypeClaim ==
  ASSUME TypeOK, NEW c \in Claimants, Claim(c)
  PROVE  TypeOK'
<1> USE DEF TypeOK
<1>1. FlagTypes'
  BY Zenon DEF Claim, FlagTypes, gateVars, leaderVars
<1>2. DirTypes'
  BY DEF Claim, DirTypes
<1>3. AttemptTypes'
  <2>1. gen' \in [Claimants -> 0 .. MaxClaims]
    BY DEF Claim, AttemptTypes, DirTypes
  <2>2. QED
    BY <2>1, AttemptStarts DEF Claim
<1>4. QED
  BY <1>1, <1>2, <1>3, Untouched DEF Claim, gateVars

LEMMA TypeSealMember ==
  ASSUME TypeOK, NEW c \in Claimants, NEW m \in Members, SealMember(c, m)
  PROVE  TypeOK'
<1> USE DEF TypeOK
<1>1. LaneTypes'
  <2>1. SealLane(m)
    BY DEF SealMember
  <2>2. QED
    BY <2>1, SealLaneTypes
<1>2. AttemptTypes'
  BY DEF SealMember, AttemptTypes, Receipts
<1>3. QED
  BY <1>1, <1>2, Untouched DEF SealMember, gateVars, leaderVars, dirVars

LEMMA TypeSealUnanswered ==
  ASSUME TypeOK, NEW c \in Claimants, NEW m \in Members, NEW landed \in BOOLEAN,
         SealUnanswered(c, m, landed)
  PROVE  TypeOK'
<1> USE DEF TypeOK
<1>1. LaneTypes'
  <2>1. CASE landed
    <3>1. SealLane(m)
      BY <2>1 DEF SealUnanswered
    <3>2. QED
      BY <3>1, SealLaneTypes
  <2>2. CASE ~landed
    BY <2>2, Untouched DEF SealUnanswered
  <2>3. QED
    BY <2>1, <2>2
<1>2. AttemptTypes'
  BY DEF SealUnanswered, AttemptTypes, Receipts, FailedReceipt, Seqs0
<1>3. QED
  BY <1>1, <1>2, Untouched DEF SealUnanswered, gateVars, leaderVars, dirVars

LEMMA TypeCollectWitness ==
  ASSUME TypeOK, NEW c \in Claimants, NEW d \in Seqs0, CollectWitness(c, d)
  PROVE  TypeOK'
<1> USE DEF TypeOK
<1>1. AttemptTypes'
  BY DEF CollectWitness, AttemptTypes
<1>2. QED
  BY <1>1, Untouched DEF CollectWitness, gateVars, leaderVars, dirVars

LEMMA TypeReadControl ==
  ASSUME TypeOK, NEW c \in Claimants, NEW x \in Cells, ReadControl(c, x)
  PROVE  TypeOK'
<1> USE DEF TypeOK
<1>1. AttemptTypes'
  BY DEF ReadControl, AttemptTypes, LeaderTypes, CellTypes
<1>2. QED
  BY <1>1, Untouched DEF ReadControl, gateVars, leaderVars, dirVars

LEMMA TypeAttachRecovery ==
  ASSUME TypeOK, NEW c \in Claimants, NEW x \in Cells, AttachRecovery(c, x)
  PROVE  TypeOK'
<1> USE DEF TypeOK
<1>1. CellTypes'
  BY DEF AttachRecovery, CellTypes, AttemptTypes
<1>2. QED
  BY <1>1, Untouched, Zenon DEF AttachRecovery, gateVars, leaderVars, dirVars

LEMMA TypePlanRecovery ==
  ASSUME TypeOK, NEW c \in Claimants, PlanRecovery(c)
  PROVE  TypeOK'
<1> USE DEF TypeOK
<1>1. AttemptTypes'
  <2>1. PICK f \in Pinnable(c) : manifest' = [manifest EXCEPT ![c] = f]
    BY Zenon DEF PlanRecovery
  <2>2. f \in Manifests
    BY PinnableType DEF Manifests
  <2>3. manifest' \in [Claimants -> Manifests]
    BY <2>1, <2>2 DEF AttemptTypes
  <2>4. QED
    BY <2>3 DEF PlanRecovery, AttemptTypes
<1>2. QED
  BY <1>1, Untouched DEF PlanRecovery, gateVars, leaderVars, dirVars

LEMMA TypeRetryRecovery ==
  ASSUME TypeOK, NEW c \in Claimants, RetryRecovery(c)
  PROVE  TypeOK'
<1> USE DEF TypeOK
<1>1. AttemptTypes'
  <2>1. gen' \in [Claimants -> 0 .. MaxClaims]
    BY DEF RetryRecovery, AttemptTypes
  <2>2. QED
    BY <2>1, AttemptStarts, Zenon DEF RetryRecovery
<1>2. QED
  BY <1>1, Untouched, Zenon DEF RetryRecovery, gateVars, leaderVars, dirVars

LEMMA TypeSealRecovery ==
  ASSUME TypeOK, NEW c \in Claimants, SealRecovery(c)
  PROVE  TypeOK'
<1> USE DEF TypeOK
<1>1. FlagTypes'
  BY Zenon DEF SealRecovery, FlagTypes, gateVars, leaderVars
<1>2. DirTypes'
  BY Zenon DEF SealRecovery, DirTypes, AttemptTypes
<1>3. QED
  BY <1>1, <1>2, Untouched, Zenon DEF SealRecovery, gateVars

LEMMA TypeRetireRecoveredMember ==
  ASSUME TypeOK, NEW m \in Members, RetireRecoveredMember(m)
  PROVE  TypeOK'
<1> USE DEF TypeOK
<1>1. LaneTypes'
  BY DEF RetireRecoveredMember, LaneTypes, RetireLane, NoGrant, Grants, Seqs, Seqs0
<1>2. QED
  BY <1>1, Untouched, Zenon DEF RetireRecoveredMember, gateVars, leaderVars, dirVars

LEMMA TypeRetireRecoveredLog ==
  ASSUME TypeOK, RetireRecoveredLog
  PROVE  TypeOK'
<1> USE DEF TypeOK
<1>1. DirTypes'
  BY DEF RetireRecoveredLog, DirTypes
<1>2. QED
  BY <1>1, Untouched DEF RetireRecoveredLog, gateVars, leaderVars

LEMMA TypeTakeover ==
  ASSUME TypeOK, NEW x \in Cells, Takeover(x)
  PROVE  TypeOK'
<1> USE DEF TypeOK
<1>1. CellTypes'
  BY DEF Takeover, CellTypes
<1>2. QED
  BY <1>1, Untouched DEF Takeover, gateVars, leaderVars, dirVars

LEMMA TypeStep ==
  ASSUME TypeOK, [Next]_vars
  PROVE  TypeOK'
<1>1. CASE LeaderNext
  BY <1>1, LeaderStepTypes
<1>2. CASE FollowerNext
  BY <1>2, TypeAuthorize, TypeOpenGrant, TypeDropGrant, TypeAppendFrames, TypeAppendBreaks DEF
     FollowerNext
<1>3. CASE RecoveryNext
  BY <1>3, TypeExpireClaim, TypeClaim, TypeSealMember, TypeSealUnanswered, TypeCollectWitness,
     TypeReadControl, TypeAttachRecovery, TypePlanRecovery, TypeRetryRecovery, TypeSealRecovery,
     TypeRetireRecoveredMember, TypeRetireRecoveredLog, TypeTakeover DEF RecoveryNext
<1>4. CASE UNCHANGED vars
  BY <1>4, Untouched DEF TypeOK, vars, gateVars, leaderVars, dirVars
<1>5. QED
  BY <1>1, <1>2, <1>3, <1>4 DEF Next

\* The state keeps its types in every behaviour.
THEOREM TypeCorrect == Spec => []TypeOK
<1>1. Init => TypeOK
  BY InitTypeOK
<1>2. TypeOK /\ [Next]_vars => TypeOK'
  BY TypeStep
<1>3. QED
  BY <1>1, <1>2, PTL DEF Spec
=============================================================================
