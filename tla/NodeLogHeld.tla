----------------------------- MODULE NodeLogHeld -----------------------------
(***************************************************************************)
(* The second layer of the node log's inductive invariant, continued: the  *)
(* steps of the lanes, of the close and of recovery, and the step theorem. *)
(***************************************************************************)
EXTENDS NodeLogCovered

USE MembersAssumption, CellsAssumption, BoundsAssumption

\* A stopped gate stays stopped, and an epoch closes only at a full frontier.
LEMMA CoveredStop ==
  ASSUME TypeOK, CoveredInv, DrainShipper \/ BeginRotation
  PROVE  CoveredInv'
<1> USE DEF CoveredInv
<1>1. fleetActive' = FALSE /\ rotating' = TRUE
  BY DEF DrainShipper, BeginRotation, StopShipping
<1>2. UNCHANGED <<nextSeq, through, objectCovered, tiered, leaderVars, coverVars, good, authorized,
                  laneVars, dirVars>>
  BY Zenon DEF DrainShipper, BeginRotation, shipVars
<1>3. ActivationInv'
  BY <1>1, <1>2, Zenon DEF ActivationInv, coverVars, dirVars
<1>4. barrier' => tiered = nextSeq - 1
  BY Zenon DEF DrainShipper, BeginRotation, CloseInv
<1>5. CloseInv'
  BY <1>1, <1>2, <1>4, Zenon DEF CloseInv, dirVars
<1>6. QED
  BY <1>2, <1>3, <1>5, CoveredKept, Zenon DEF leaderVars, coverVars, laneVars, dirVars

\* A change of phase alone: the epoch closes at a full frontier, or recovery
\* takes the log over.
LEMMA CoveredPhase ==
  ASSUME TypeOK, CoveredInv,
         \/ CloseLog
         \/ \E c \in Claimants : Claim(c) \/ SealRecovery(c)
         \/ RetireRecoveredLog
  PROVE  CoveredInv'
<1> USE DEF CoveredInv
<1>1. UNCHANGED <<gateVars, leaderVars, coverVars, shipVars, laneVars, active, dirTiered, barrier>>
  BY Zenon DEF CloseLog, Claim, SealRecovery, RetireRecoveredLog
<1>2. phase' = "Closed" => CloseLog
  BY DEF CloseLog, Claim, SealRecovery, RetireRecoveredLog
<1>3. CloseLog => rotating /\ dirTiered = nextSeq - 1
  BY DEF CloseLog, CloseInv
<1>4. CloseInv'
  BY <1>1, <1>2, <1>3, Zenon DEF CloseInv, gateVars
<1>5. phase' \notin {"Sealed", "Retired"} => phase \notin {"Sealed", "Retired"}
  BY DEF CloseLog, Claim, SealRecovery, RetireRecoveredLog
<1>6. HeldInv'
  BY <1>1, <1>5, Zenon DEF HeldInv, Held, shipVars, gateVars, laneVars
<1>7. QED
  BY <1>1, <1>4, <1>6, CoveredKept, Zenon DEF gateVars, leaderVars, coverVars, shipVars, laneVars

\* A lane retired at a covered watermark, or after recovery, held nothing that
\* its member still has to answer for.
LEMMA CoveredRetire ==
  ASSUME TypeOK, CoveredInv, NEW m \in Members, RetireMember(m) \/ RetireRecoveredMember(m)
  PROVE  CoveredInv'
<1> USE DEF CoveredInv
<1>1. UNCHANGED <<gateVars, leaderVars, coverVars, shipVars, dirVars, barrier>>
  BY Zenon DEF RetireMember, RetireRecoveredMember
<1>2. /\ recs' = [recs EXCEPT ![m] = {}]
      /\ grant' = [grant EXCEPT ![m] = NoGrant]
  BY DEF RetireMember, RetireRecoveredMember, RetireLane
<1>3. LaneKeepsUncovered'
  BY <1>1, <1>2 DEF LaneKeepsUncovered, TypeOK, LaneTypes, dirVars
<1>4. PermitInv'
  BY <1>1, <1>2 DEF PermitInv, NoGrant, TypeOK, LaneTypes, DirTypes, Seqs0, shipVars, dirVars
<1>5. HeldInv'
  <2> SUFFICES ASSUME phase \notin {"Sealed", "Retired"} PROVE HeldInv'
    BY <1>1, Zenon DEF HeldInv, dirVars
  <2>1. RetireMember(m) /\ \A s \in recs[m] : s <= dirTiered
    BY DEF RetireRecoveredMember, RetireMember, RetireLane
  <2>2. \A k \in Members : \A s : Held(k, s) => Held(k, s)'
    BY <1>1, <1>2, <2>1 DEF Held, TypeOK, LaneTypes, dirVars
  <2>3. QED
    BY <1>1, <2>2, Zenon DEF HeldInv, shipVars, gateVars, dirVars
<1>6. QED
  BY <1>1, <1>3, <1>4, <1>5, CoveredKept, Zenon DEF gateVars, leaderVars, coverVars, shipVars,
     dirVars

\* A permit carries the directory's frontier of an earlier moment.
LEMMA CoveredPermit ==
  ASSUME TypeOK, CoveredInv,
         \/ \E q \in msgs : Authorize(q)
         \/ \E m \in Members, first \in Seqs : OpenGrant(m, first)
         \/ \E m \in Members : DropGrant(m)
  PROVE  CoveredInv'
<1> USE DEF CoveredInv
<1>1. CASE \E q \in msgs : Authorize(q)
  <2>1. PermitInv'
    BY <1>1, Zenon DEF Authorize, PermitInv, laneVars, dirVars
  <2>2. QED
    BY <1>1, <2>1, CoveredKept, Zenon DEF Authorize, gateVars, leaderVars, coverVars, laneVars,
       dirVars
<1>2. CASE \E m \in Members, first \in Seqs : OpenGrant(m, first)
  <2>1. PermitInv'
    BY <1>2 DEF OpenGrant, PermitInv, TypeOK, LaneTypes, DirTypes, Seqs, Seqs0, shipVars, dirVars
  <2>2. QED
    BY <1>2, <2>1, CoveredKept, Zenon DEF OpenGrant, gateVars, leaderVars, coverVars, shipVars,
       dirVars
<1>3. CASE \E m \in Members : DropGrant(m)
  <2>1. PermitInv'
    BY <1>3 DEF DropGrant, NoGrant, PermitInv, TypeOK, LaneTypes, DirTypes, Seqs0, shipVars, dirVars
  <2>2. QED
    BY <1>3, <2>1, CoveredKept, Zenon DEF DropGrant, gateVars, leaderVars, coverVars, shipVars,
       dirVars
<1>4. QED
  BY <1>1, <1>2, <1>3

LEMMA CoveredSeal ==
  ASSUME TypeOK, CoveredInv, NEW c \in Claimants, NEW m \in Members,
         SealMember(c, m) \/ \E landed \in BOOLEAN : SealUnanswered(c, m, landed)
  PROVE  CoveredInv'
<1> USE DEF CoveredInv
<1>1. UNCHANGED <<gateVars, leaderVars, coverVars, shipVars, dirVars, barrier>>
  BY Zenon DEF SealMember, SealUnanswered
<1>2. recs' = recs /\ (grant' = grant \/ grant' = [grant EXCEPT ![m] = NoGrant])
  BY DEF SealMember, SealUnanswered, SealLane, laneVars
<1>3. PermitInv'
  BY <1>1, <1>2 DEF PermitInv, NoGrant, TypeOK, LaneTypes, DirTypes, Seqs0, shipVars, dirVars
<1>4. QED
  BY <1>1, <1>2, <1>3, CoveredKept, Zenon DEF gateVars, leaderVars, coverVars, shipVars, dirVars

\* A floor that admits an append is in the directory.
LEMMA FloorCovered ==
  ASSUME TypeOK, CoveredInv, NEW q \in msgs, NEW covered \in Seqs0, Admitted(q, covered)
  PROVE  q.to \in Members /\ q.last \in Seqs /\ covered <= dirTiered
BY DEF Admitted, CoveredInv, PermitInv, TypeOK, ShipTypes, Requests

\* A lane that drops covered records and continues at its end loses nothing
\* above the frontier, and holds everything up to its new end.
LEMMA LaneAppend ==
  ASSUME TypeOK, LaneKeepsUncovered, NEW m \in Members, NEW covered \in Seqs0, NEW k \in Seqs0,
         NEW d \in Seqs0, NEW e \in Seqs0, k <= covered, covered <= dirTiered,
         IsMax(d, Pruned(m, k) \cup {covered}), UNCHANGED dirTiered,
         recs' = [recs EXCEPT ![m] = Pruned(m, k) \cup (d + 1 .. e)]
  PROVE  /\ \A s \in Seqs : s <= d \/ s <= e => Held(m, s)'
         /\ LaneKeepsUncovered'
         /\ \A i \in Members, s \in Seqs : Held(i, s) => Held(i, s)'
<1>1. /\ recs[m] \subseteq Seqs /\ dirTiered \in Nat
      /\ recs'[m] = Pruned(m, k) \cup (d + 1 .. e)
      /\ \A i \in Members : i # m => recs'[i] = recs[i]
  BY DEF TypeOK, LaneTypes, DirTypes, Seqs0
<1>2. ASSUME NEW s \in Seqs, s > dirTiered, s <= d PROVE s \in Pruned(m, k)
  <2>1. d \in recs[m]
    BY <1>1, <1>2 DEF IsMax, Pruned, Seqs, Seqs0
  <2>2. QED
    BY <1>1, <1>2, <2>1 DEF LaneKeepsUncovered, Pruned, Seqs, Seqs0
<1>3. \A s \in Seqs : s <= d \/ s <= e => Held(m, s)'
  BY <1>1, <1>2 DEF Held, Seqs, Seqs0
<1>4. ASSUME NEW i \in Members, NEW r \in recs'[i], NEW s \in Seqs, dirTiered < s, s <= r
      PROVE  s \in recs'[i]
  <2>1. CASE i # m
    BY <1>1, <1>4, <2>1 DEF LaneKeepsUncovered
  <2>2. CASE i = m /\ r \in Pruned(m, k)
    BY <1>1, <1>4, <2>2 DEF LaneKeepsUncovered, Pruned, Seqs, Seqs0
  <2>3. CASE i = m /\ r \in d + 1 .. e
    BY <1>1, <1>2, <1>4, <2>3 DEF Seqs, Seqs0
  <2>4. QED
    BY <1>1, <2>1, <2>2, <2>3
<1>5. \A i \in Members, s \in Seqs : Held(i, s) => Held(i, s)'
  BY <1>1 DEF Held, Pruned, Seqs, Seqs0
<1>6. QED
  BY <1>3, <1>4, <1>5 DEF LaneKeepsUncovered

LEMMA CoveredAppendBreaks ==
  ASSUME TypeOK, CoveredInv, NEW q \in msgs, NEW covered \in Seqs0, NEW k \in Seqs0,
         NEW j \in Seqs0, AppendBreaks(q, covered, k, j)
  PROVE  CoveredInv'
<1> USE DEF CoveredInv
<1>1. UNCHANGED <<gateVars, leaderVars, coverVars, good, grant, dirVars, barrier>>
  BY Zenon DEF AppendBreaks
<1>2. q.to \in Members /\ covered <= dirTiered /\ k <= covered
  BY FloorCovered DEF AppendBreaks
<1>3. PICK d \in Seqs0 :
        /\ IsMax(d, Pruned(q.to, k) \cup {covered})
        /\ recs' = [recs EXCEPT ![q.to] = Pruned(q.to, k) \cup (d + 1 .. j)]
  BY Zenon DEF AppendBreaks
<1>4. /\ LaneKeepsUncovered'
      /\ \A i \in Members, s \in Seqs : Held(i, s) => Held(i, s)'
  <2>1. UNCHANGED dirTiered
    BY <1>1 DEF dirVars
  <2>2. QED
    BY <1>2, <1>3, <2>1, LaneAppend, Zenon
<1>5. HeldInv'
  <2>1. \A m \in Members : \A r \in good[m] : Span(r) \subseteq Seqs
    BY DEF TypeOK, ShipTypes, Rounds, Span, Seqs
  <2>2. \A m \in Members : 1 .. through[m] \subseteq Seqs
    BY DEF TypeOK, GateTypes, Seqs, Seqs0
  <2>3. QED
    BY <1>1, <1>4, <2>1, <2>2, Zenon DEF HeldInv, gateVars, dirVars
<1>6. PermitInv'
  BY <1>1, Zenon DEF AppendBreaks, PermitInv, dirVars
<1>7. QED
  BY <1>1, <1>4, <1>5, <1>6, CoveredKept, Zenon DEF gateVars, leaderVars, coverVars, dirVars

\* A receipt is given for frames that the lane holds.
LEMMA CoveredAppendFrames ==
  ASSUME TypeOK, CoveredInv, NEW q \in msgs, NEW covered \in Seqs0, NEW k \in Seqs0,
         AppendFrames(q, covered, k)
  PROVE  CoveredInv'
<1> USE DEF CoveredInv
<1> DEFINE kept == Pruned(q.to, k)
           fresh == Fresh(q, kept, covered)
<1>1. UNCHANGED <<gateVars, leaderVars, coverVars, rounds, grant, dirVars, barrier>>
  BY Zenon DEF AppendFrames
<1>2. q.to \in Members /\ q.last \in Seqs /\ covered <= dirTiered /\ k <= covered
  BY FloorCovered DEF AppendFrames
<1>3. PICK d \in Seqs0, durable \in Seqs0, first \in 1 .. MaxSeq + 1 :
        /\ Continues(q, kept, covered, d)
        /\ durable = IF fresh = {} THEN d ELSE q.last
        /\ Answer(q, first, durable)
  BY Zenon DEF AppendFrames
<1>4. recs' = [recs EXCEPT ![q.to] = Pruned(q.to, k) \cup (d + 1 .. durable)]
  <2>1. recs' = [recs EXCEPT ![q.to] = kept \cup fresh]
    BY Zenon DEF AppendFrames
  <2>2. fresh = d + 1 .. durable
    <3>1. CASE fresh = {}
      <4>1. durable = d /\ d + 1 .. d = {}
        BY <1>3, <3>1 DEF Seqs0
      <4>2. QED
        BY <3>1, <4>1, Zenon
    <3>2. CASE fresh # {}
      BY <1>3, <3>2, Zenon DEF Continues
    <3>3. QED
      BY <3>1, <3>2, Zenon
  <2>3. QED
    BY <2>1, <2>2
<1>5. /\ \A s \in Seqs : s <= durable => Held(q.to, s)'
      /\ LaneKeepsUncovered'
      /\ \A i \in Members, s \in Seqs : Held(i, s) => Held(i, s)'
  <2>1. UNCHANGED dirTiered /\ IsMax(d, Pruned(q.to, k) \cup {covered})
    BY <1>1, <1>3 DEF dirVars, Continues
  <2>2. QED
    BY <1>2, <1>4, <2>1, LaneAppend, Zenon
<1>6. ASSUME NEW m \in Members, NEW r \in good'[m]
      PROVE  r \in Rounds /\ (r \in good[m] \/ (m = q.to /\ r.last <= durable))
  <2> DEFINE ok == {o \in Outstanding(q.to) : ReceiptCovers(o, first, durable)}
  <2>1. good \in [Members -> SUBSET Rounds] /\ ok \subseteq Rounds
    BY DEF Outstanding, TypeOK, ShipTypes
  <2>2. good' = good \/ good' = [good EXCEPT ![q.to] = @ \cup ok]
    BY <1>3, Zenon DEF Answer
  <2> HIDE DEF ok
  <2>3. r \in good[m] \/ (m = q.to /\ r \in ok)
    <3>1. good'[m] = good[m] \/ (m = q.to /\ good'[m] = good[m] \cup ok)
      BY <2>1, <2>2
    <3>2. QED
      BY <1>6, <3>1, Zenon
  <2>4. \A o \in ok : o.last <= durable
    BY <2>1 DEF ok, ReceiptCovers, Rounds, Seqs, Seqs0
  <2>5. QED
    BY <2>1, <2>3, <2>4
<1>7. HeldInv'
  <2>1. \A r \in Rounds : Span(r) \subseteq Seqs /\ \A s \in Span(r) : r.last <= durable => s <= durable
    BY DEF Rounds, Span, Seqs, Seqs0
  <2>2. \A m \in Members : 1 .. through[m] \subseteq Seqs
    BY DEF TypeOK, GateTypes, Seqs, Seqs0
  <2>3. UNCHANGED <<phase, through>>
    BY <1>1 DEF gateVars, dirVars
  <2>4. QED
    BY <1>5, <1>6, <2>1, <2>2, <2>3, Zenon DEF HeldInv
<1>8. PermitInv'
  BY <1>1, Zenon DEF AppendFrames, PermitInv, dirVars
<1>9. QED
  BY <1>1, <1>5, <1>7, <1>8, CoveredKept, Zenon DEF gateVars, leaderVars, coverVars, dirVars

LEMMA CoveredQuiet ==
  ASSUME CoveredInv,
         \/ \E last \in Seqs : Batch(last)
         \/ \E m \in Members, last \in Seqs : Send(m, last)
         \/ \E m \in Members : RequestFails(m)
         \/ LoseLease \/ BeginShutdown \/ ExpireClaim
         \/ \E c \in Claimants, d \in Seqs0 : CollectWitness(c, d)
         \/ \E c \in Claimants, x \in Cells : ReadControl(c, x) \/ AttachRecovery(c, x)
         \/ \E c \in Claimants : PlanRecovery(c) \/ RetryRecovery(c)
         \/ \E x \in Cells : Takeover(x)
         \/ UNCHANGED vars
  PROVE  CoveredInv'
<1> SUFFICES UNCHANGED <<gateVars, acked, root, cellOf, coverVars, good, authorized, laneVars,
                         phase, active, dirTiered, barrier>>
  BY CoveredKept, Zenon DEF CoveredInv, gateVars, coverVars, laneVars
<1>1. CASE \/ \E last \in Seqs : Batch(last)
           \/ \E m \in Members, last \in Seqs : Send(m, last)
           \/ \E m \in Members : RequestFails(m)
           \/ LoseLease \/ BeginShutdown \/ ExpireClaim
  BY <1>1, Zenon DEF Batch, Send, RequestFails, LoseLease, BeginShutdown, ExpireClaim, leaderVars,
     shipVars, dirVars
<1>2. CASE \/ \E c \in Claimants, d \in Seqs0 : CollectWitness(c, d)
           \/ \E c \in Claimants, x \in Cells : ReadControl(c, x) \/ AttachRecovery(c, x)
           \/ \E c \in Claimants : PlanRecovery(c) \/ RetryRecovery(c)
           \/ \E x \in Cells : Takeover(x)
           \/ UNCHANGED vars
  BY <1>2, Zenon DEF CollectWitness, ReadControl, AttachRecovery, PlanRecovery, RetryRecovery,
     Takeover, vars, leaderVars, shipVars, dirVars
<1>3. QED
  BY <1>1, <1>2, Zenon

\* Every step preserves the second layer.
LEMMA CoveredStep ==
  ASSUME TypeOK, TypeOK', IssuedInv, CoveredInv, [Next]_vars
  PROVE  CoveredInv'
<1>1. CASE LeaderNext
  BY <1>1, CoveredIssue, CoveredCompleteRound, CoveredActivation, CoveredAck, CoveredPublishRoot,
     CoveredStage, CoveredStartFlush, CoveredAdvanceCoverage, CoveredFlushFails,
     CoveredConfirmFlush, CoveredStop, CoveredPhase, CoveredRetire, CoveredQuiet, Zenon
  DEF LeaderNext
<1>2. CASE FollowerNext
  BY <1>2, CoveredPermit, CoveredAppendFrames, CoveredAppendBreaks, Zenon DEF FollowerNext
<1>3. CASE RecoveryNext
  BY <1>3, CoveredPhase, CoveredSeal, CoveredRetire, CoveredQuiet, Zenon DEF RecoveryNext
<1>4. QED
  BY <1>1, <1>2, <1>3, CoveredQuiet, Zenon DEF Next
=============================================================================
