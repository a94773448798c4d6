--------------------------- MODULE NodeLogRecovery ---------------------------
(***************************************************************************)
(* The third layer of the node log's inductive invariant: a seal bounds    *)
(* what a lane will ever hold, a witness reaches what some closed lane     *)
(* holds, and the attached overlays reach the witness.                     *)
(***************************************************************************)
EXTENDS NodeLog, TLAPS

USE MembersAssumption, CellsAssumption, BoundsAssumption

\* A part of the layer holds on when its variables do not change.
LEMMA RecoveryKept ==
  /\ SealInv /\ UNCHANGED <<phase, stage, seals, sealed, retired, recs>> => SealInv'
  /\ WitnessInv
     /\ UNCHANGED <<phase, stage, dirTiered, witness, active, sealed, retired, recs>>
     => WitnessInv'
  /\ PlanInv
     /\ UNCHANGED <<base, root, phase, stage, dirTiered, witness, cellOf, needs, manifest>>
     => PlanInv'
  /\ TailInv
     /\ UNCHANGED <<stage, needs, manifest, dirTiered, witness, cellOf, base, pin, nextSeq>>
     => TailInv'
  /\ OverlayContinuesRoot /\ UNCHANGED <<pin, nextSeq, cellOf, root>> => OverlayContinuesRoot'
  /\ RecoveredInv
     /\ UNCHANGED <<phase, recoveredThrough, root, cellOf, pin, active, sealed, retired, through,
                    good>>
     => RecoveredInv'
<1>1. SealInv /\ UNCHANGED <<phase, stage, seals, sealed, retired, recs>> => SealInv'
  BY DEF SealInv, LaneOpen
<1>2. WitnessInv
      /\ UNCHANGED <<phase, stage, dirTiered, witness, active, sealed, retired, recs>>
      => WitnessInv'
  BY DEF WitnessInv, LaneOpen
<1>3. PlanInv
      /\ UNCHANGED <<base, root, phase, stage, dirTiered, witness, cellOf, needs, manifest>>
      => PlanInv'
  BY DEF PlanInv, Published
<1>4. TailInv
      /\ UNCHANGED <<stage, needs, manifest, dirTiered, witness, cellOf, base, pin, nextSeq>>
      => TailInv'
  BY DEF TailInv, Tail
<1>5. OverlayContinuesRoot /\ UNCHANGED <<pin, nextSeq, cellOf, root>> => OverlayContinuesRoot'
  BY DEF OverlayContinuesRoot
<1>6. RecoveredInv
      /\ UNCHANGED <<phase, recoveredThrough, root, cellOf, pin, active, sealed, retired, through,
                     good>>
      => RecoveredInv'
  BY DEF RecoveredInv, Recoverable, Published, LaneOpen
<1>7. QED
  BY <1>1, <1>2, <1>3, <1>4, <1>5, <1>6

LEMMA InitRecovery == Init => RecoveryInv
<1> SUFFICES ASSUME Init PROVE RecoveryInv
  OBVIOUS
<1>1. SealInv /\ WitnessInv /\ RecoveredInv
  BY DEF Init, SealInv, WitnessInv, RecoveredInv
<1>2. PlanInv /\ TailInv /\ OverlayContinuesRoot
  BY DEF Init, PlanInv, TailInv, OverlayContinuesRoot
<1>3. QED
  BY <1>1, <1>2 DEF RecoveryInv

\* A new frame lies beyond every witness and every overlay.
LEMMA RecoveryIssue ==
  ASSUME TypeOK, IssuedInv, RecoveryInv, NEW c \in Cells, NEW n \in 1 .. MaxFrames, Issue(c, n)
  PROVE  RecoveryInv'
<1> USE DEF RecoveryInv
<1>1. ASSUME NEW s \in Nat, s > 0, s < nextSeq
      PROVE  cellOf'[s] = cellOf[s]
  BY <1>1 DEF Issue, TypeOK, GateTypes
<1>2. UNCHANGED <<root, pin, stage, base, needs, manifest, witness, dirTiered, phase,
                  recoveredThrough, through, good, active, laneVars, seals>>
  BY Zenon DEF Issue, shipVars, dirVars, cellVars, attemptVars
<1>3. \A a \in Claimants : /\ witness[a] \in Nat /\ witness[a] < nextSeq
                           /\ dirTiered \in Nat /\ nextSeq \in Nat
  BY DEF IssuedInv, MarkInv, TypeOK, AttemptTypes, DirTypes, GateTypes, Seqs0
<1>4. \A a \in Claimants : \A s \in dirTiered + 1 .. witness[a] : cellOf'[s] = cellOf[s]
  BY <1>1, <1>3
<1>5. PlanInv'
  <2>1. \A a \in Claimants : \A s \in dirTiered + 1 .. witness[a] : Published(s)' <=> Published(s)
    BY <1>2, <1>4, Zenon DEF Published
  <2>2. QED
    BY <1>2, <1>4, <2>1, Zenon DEF PlanInv
<1>6. TailInv'
  <2>1. \A a \in Claimants, x \in Cells : Tail(a, x)' = Tail(a, x)
    BY <1>2, <1>4 DEF Tail
  <2>2. \A a \in Claimants : needs[a] \subseteq Cells
    BY DEF TypeOK, AttemptTypes
  <2>3. \A x \in Cells : \A f \in pin[x] : \A s \in f[x] : s \in Nat /\ s < nextSeq'
    <3>1. \A x \in Cells : \A f \in pin[x] : f[x] \subseteq Nat
      BY DEF TypeOK, CellTypes, Manifests, Seqs
    <3>2. nextSeq \in Nat /\ nextSeq' \in Nat /\ nextSeq < nextSeq'
      BY DEF Issue, TypeOK, GateTypes
    <3>3. QED
      BY <3>1, <3>2 DEF TailInv
  <2>4. QED
    BY <1>2, <2>1, <2>2, <2>3, Zenon DEF TailInv
<1>7. OverlayContinuesRoot'
  <2>1. ASSUME NEW x \in Cells, NEW f \in pin[x], NEW last \in f[x], NEW s \in 1 .. nextSeq' - 1,
               s < last
        PROVE  s \in 1 .. nextSeq - 1 /\ cellOf'[s] = cellOf[s]
    <3>1. last \in Nat /\ last < nextSeq /\ s \in Nat /\ s > 0
      BY <2>1 DEF Issue, TailInv, TypeOK, CellTypes, Manifests, Seqs, GateTypes
    <3>2. QED
      BY <1>1, <2>1, <3>1 DEF TypeOK, GateTypes
  <2>2. QED
    BY <1>2, <2>1 DEF OverlayContinuesRoot
<1>8. RecoveredInv'
  <2>1. \A s \in 1 .. recoveredThrough : cellOf'[s] = cellOf[s]
    BY <1>1 DEF IssuedInv, MarkInv, TypeOK, GateTypes, DirTypes, Seqs0
  <2>2. \A s \in 1 .. recoveredThrough : Recoverable(s) => Recoverable(s)'
    BY <1>2, <2>1, Zenon DEF Recoverable, Published
  <2>3. QED
    BY <1>2, <2>2, Zenon DEF RecoveredInv, LaneOpen, laneVars
<1>9. QED
  BY <1>2, <1>5, <1>6, <1>7, <1>8, RecoveryKept, Zenon DEF laneVars

LEMMA RecoveryCompleteRound ==
  ASSUME TypeOK, RecoveryInv, NEW r \in rounds, CompleteRound(r)
  PROVE  RecoveryInv'
<1> USE DEF RecoveryInv
<1>1. through' = through \/ \A m \in Members : r \in good[m] /\ through'[m] = r.last
  BY DEF CompleteRound
<1>2. RecoveredInv'
  BY <1>1, Zenon DEF CompleteRound, RecoveredInv, Recoverable, Published, LaneOpen, leaderVars,
     laneVars, dirVars, cellVars
<1>3. QED
  BY <1>2, RecoveryKept, Zenon DEF CompleteRound, leaderVars, laneVars, dirVars, cellVars,
     attemptVars

\* A root advances only in a Cell without an overlay, and never goes back.
LEMMA RecoveryPublishRoot ==
  ASSUME TypeOK, IssuedInv, RecoveryInv, NEW t \in tickets, PublishRoot(t)
  PROVE  RecoveryInv'
<1> USE DEF RecoveryInv
<1>1. UNCHANGED <<gateVars, cellOf, shipVars, laneVars, dirVars, cellVars, attemptVars>>
  BY Zenon DEF PublishRoot
<1>2. \A c \in Cells : root[c] \in Nat /\ root'[c] \in Nat /\ root[c] <= root'[c]
  <2>1. t.last \in Nat
    BY DEF TypeOK, LeaderTypes, Tickets, Seqs
  <2>2. QED
    BY <2>1 DEF PublishRoot, TypeOK, LeaderTypes, Seqs0
<1>3. ASSUME NEW s \in Nat, s > 0, s < nextSeq, Published(s)
      PROVE  Published(s)'
  <2>1. cellOf[s] \in Cells
    BY <1>3 DEF TypeOK, LeaderTypes, GateTypes
  <2>2. QED
    BY <1>1, <1>2, <1>3, <2>1 DEF Published
<1>4. PlanInv'
  <2>1. \A a \in Claimants, x \in Cells : base[a][x] \in Nat
    BY DEF TypeOK, AttemptTypes, Seqs0
  <2>2. \A a \in Claimants, x \in Cells : base[a][x] <= root'[x]
    BY <1>2, <2>1 DEF PlanInv
  <2>3. \A a \in Claimants : \A s \in dirTiered + 1 .. witness[a] : Published(s) => Published(s)'
    <3>1. \A a \in Claimants : \A s \in dirTiered + 1 .. witness[a] :
            s \in Nat /\ s > 0 /\ s < nextSeq
      BY DEF IssuedInv, MarkInv, TypeOK, GateTypes, AttemptTypes, DirTypes, Seqs0
    <3>2. QED
      BY <1>3, <3>1, Zenon
  <2>4. QED
    BY <1>1, <2>2, <2>3, Zenon DEF PlanInv, dirVars, attemptVars
<1>5. OverlayContinuesRoot'
  <2>1. ASSUME NEW x \in Cells, NEW s \in 1 .. nextSeq - 1, root'[x] < s PROVE root[x] < s
    BY <1>2, <2>1 DEF TypeOK, GateTypes
  <2>2. QED
    BY <1>1, <2>1, Zenon DEF OverlayContinuesRoot, gateVars, cellVars
<1>6. RecoveredInv'
  <2>1. \A s \in 1 .. recoveredThrough : Published(s) => Published(s)'
    BY <1>3 DEF IssuedInv, MarkInv, TypeOK, GateTypes, DirTypes, Seqs0
  <2>2. QED
    BY <1>1, <2>1, Zenon DEF RecoveredInv, Recoverable, LaneOpen, gateVars, shipVars, laneVars,
       dirVars, cellVars
<1>7. QED
  BY <1>1, <1>4, <1>5, <1>6, RecoveryKept, Zenon DEF gateVars, laneVars, dirVars, cellVars,
     attemptVars

\* Before the claim no attempt runs.
LEMMA RecoveryOpen ==
  ASSUME RecoveryInv,
         \/ \E replied \in BOOLEAN : PersistActivation(replied) \/ AdvanceCoverage(replied)
         \/ CloseLog
         \/ \E m \in Members : RetireMember(m)
  PROVE  RecoveryInv'
<1> USE DEF RecoveryInv
<1>1. phase = "Open" /\ phase' \in {"Open", "Closed"}
  BY DEF PersistActivation, AdvanceCoverage, CloseLog, RetireMember, dirVars
<1>2. UNCHANGED <<gateVars, root, cellOf, cellVars, attemptVars>>
  BY Zenon DEF PersistActivation, AdvanceCoverage, CloseLog, RetireMember, leaderVars
<1>3. \A c \in Claimants : stage[c] = "idle" /\ stage'[c] = "idle"
  BY <1>1, <1>2 DEF SealInv, attemptVars
<1>4. SealInv' /\ WitnessInv' /\ RecoveredInv'
  BY <1>1, <1>3 DEF SealInv, WitnessInv, RecoveredInv
<1>5. PlanInv' /\ TailInv'
  BY <1>1, <1>2, <1>3 DEF PlanInv, TailInv, cellVars, gateVars, attemptVars
<1>6. QED
  BY <1>2, <1>4, <1>5, RecoveryKept, Zenon DEF gateVars, cellVars

\* An append changes an open lane only, which no seal and no witness speaks of.
LEMMA RecoveryAppend ==
  ASSUME TypeOK, RecoveryInv, NEW q \in msgs, NEW covered \in Seqs0, NEW k \in Seqs0,
         AppendFrames(q, covered, k) \/ \E j \in Seqs0 : AppendBreaks(q, covered, k, j)
  PROVE  RecoveryInv'
<1> USE DEF RecoveryInv
<1>1. UNCHANGED <<gateVars, leaderVars, sealed, retired, dirVars, cellVars, attemptVars>>
  BY Zenon DEF AppendFrames, AppendBreaks
<1>2. \A m \in Members : ~LaneOpen(m) => m # q.to /\ ~LaneOpen(m)'
  BY <1>1, Zenon DEF AppendFrames, AppendBreaks, LaneOpen
<1>3. \A m \in Members : m # q.to => recs'[m] = recs[m]
  <2>1. recs' = [recs EXCEPT ![q.to] = recs'[q.to]]
    BY DEF AppendFrames, AppendBreaks, TypeOK, LaneTypes, ShipTypes, Requests
  <2>2. QED
    BY SMTT(30), <2>1 DEF TypeOK, LaneTypes
<1>4. \A m \in Members : m # q.to => good'[m] = good[m]
  <2>1. \/ good' = good
        \/ \E S : good' = [good EXCEPT ![q.to] = S]
    BY Zenon DEF AppendFrames, AppendBreaks, Answer
  <2>2. QED
    BY <2>1 DEF TypeOK, ShipTypes
<1>5. SealInv'
  BY <1>1, <1>2, <1>3, Zenon DEF SealInv, dirVars, attemptVars
<1>6. WitnessInv'
  BY <1>1, <1>2, <1>3, Zenon DEF WitnessInv, dirVars, attemptVars
<1>7. RecoveredInv'
  BY <1>1, <1>2, <1>4, Zenon DEF RecoveredInv, Recoverable, Published, gateVars, leaderVars,
     dirVars, cellVars
<1>8. QED
  BY <1>1, <1>5, <1>6, <1>7, RecoveryKept, Zenon DEF gateVars, leaderVars, dirVars, cellVars,
     attemptVars

\* A fresh attempt has no receipt and no plan.
LEMMA RecoveryStarts ==
  ASSUME TypeOK, RecoveryInv, NEW c \in Claimants, Claim(c) \/ RetryRecovery(c)
  PROVE  RecoveryInv'
<1> USE DEF RecoveryInv
<1>1. UNCHANGED <<gateVars, leaderVars, laneVars, active, dirTiered, recoveredThrough, cellVars>>
  <2>1. CASE Claim(c)
    BY <2>1, Zenon DEF Claim
  <2>2. CASE RetryRecovery(c)
    BY <2>2, Zenon DEF RetryRecovery, dirVars
  <2>3. QED
    BY <2>1, <2>2, Zenon
<1>2. phase' = "Recovering" /\ phase \in {"Open", "Recovering"} /\ StartAttempt(c)
  BY Zenon DEF Claim, RetryRecovery, HoldsClaim, dirVars
<1>3. /\ stage'[c] = "sealing" /\ base'[c] = root
      /\ \A m \in Members : seals'[c][m].kind = "none"
  BY <1>2 DEF StartAttempt, NoReceipt, TypeOK, AttemptTypes
<1>4. \A a \in Claimants : a # c =>
        /\ stage'[a] = stage[a] /\ base'[a] = base[a] /\ seals'[a] = seals[a]
        /\ witness'[a] = witness[a] /\ needs'[a] = needs[a] /\ manifest'[a] = manifest[a]
  BY <1>2 DEF StartAttempt, TypeOK, AttemptTypes
<1>5. phase = "Recovering" \/ \A a \in Claimants : stage[a] = "idle"
  BY <1>2 DEF SealInv
<1>6. SealInv'
  BY <1>1, <1>2, <1>3, <1>4, <1>5, Zenon DEF SealInv, LaneOpen, laneVars
<1>7. WitnessInv'
  BY <1>1, <1>2, <1>3, <1>4, <1>5, Zenon DEF WitnessInv, LaneOpen, laneVars
<1>8. PlanInv'
  <2>1. \A a \in Claimants, x \in Cells : base'[a][x] <= root'[x]
    <3>1. \A x \in Cells : root[x] <= root[x]
      BY DEF TypeOK, LeaderTypes, Seqs0
    <3>2. root' = root
      BY <1>1 DEF leaderVars
    <3>3. QED
      BY <1>3, <1>4, <3>1, <3>2, Zenon DEF PlanInv
  <2>2. ASSUME NEW a \in Claimants, stage'[a] = "attaching", NEW s \in dirTiered' + 1 .. witness'[a]
        PROVE  \/ Published(s)'
               \/ cellOf'[s] \in needs'[a] /\ s \in manifest'[a][cellOf'[s]]
    <3>1. a # c /\ stage[a] = "attaching" /\ phase = "Recovering"
      BY <1>3, <1>4, <1>5, <2>2, Zenon
    <3>2. QED
      BY <1>1, <1>4, <2>2, <3>1, Zenon DEF PlanInv, Published, leaderVars
  <2>3. QED
    BY <2>1, <2>2, Zenon DEF PlanInv
<1>9. TailInv'
  <2>1. ASSUME NEW a \in Claimants, stage'[a] = "attaching", NEW x \in needs'[a]
        PROVE  manifest'[a][x] = Tail(a, x)'
    <3>1. a # c /\ stage[a] = "attaching"
      BY <1>3, <1>4, <2>1
    <3>2. Tail(a, x)' = Tail(a, x)
      BY <1>1, <1>4, <3>1, Zenon DEF Tail, leaderVars
    <3>3. QED
      BY SMTT(30), <1>4, <2>1, <3>1, <3>2 DEF TailInv
  <2>2. QED
    BY <1>1, <2>1, Zenon DEF TailInv, cellVars, gateVars
<1>10. RecoveredInv'
  BY <1>2, Zenon DEF RecoveredInv
<1>11. QED
  BY <1>1, <1>6, <1>7, <1>8, <1>9, <1>10, RecoveryKept, Zenon DEF gateVars, leaderVars, cellVars

\* A receipt bounds the lane it closed; a closed lane stays closed.
LEMMA RecoverySeal ==
  ASSUME TypeOK, IssuedInv, RecoveryInv, NEW c \in Claimants, NEW m \in Members,
         SealMember(c, m) \/ \E landed \in BOOLEAN : SealUnanswered(c, m, landed)
  PROVE  RecoveryInv'
<1> USE DEF RecoveryInv
<1>1. UNCHANGED <<gateVars, leaderVars, shipVars, recs, retired, dirVars, cellVars, stage, witness,
                  base, needs, manifest>>
  BY Zenon DEF SealMember, SealUnanswered, SealLane, laneVars
<1>2. sealed' = sealed \/ sealed' = [sealed EXCEPT ![m] = retired[m] = NotRetired]
  BY Zenon DEF SealMember, SealUnanswered, SealLane, laneVars
<1>3. \A i \in Members : ~LaneOpen(i) => ~LaneOpen(i)'
  BY <1>1, <1>2 DEF LaneOpen, TypeOK, LaneTypes
<1>4. \A a \in Claimants, i \in Members : <<a, i>> # <<c, m>> => seals'[a][i] = seals[a][i]
  BY DEF SealMember, SealUnanswered, TypeOK, AttemptTypes
<1>5. seals'[c][m].kind = "ok" => ~LaneOpen(m)' /\ \A s \in recs[m] : s <= seals'[c][m].durable
  <2>1. CASE SealMember(c, m)
    <3>1. PICK first \in 0 .. MaxSeq + 1, durable \in Seqs0 :
            /\ SealReceipt(m, first, durable)
            /\ seals' = [seals EXCEPT ![c][m] =
                            [kind |-> "ok", base |-> first, durable |-> durable]]
      BY <2>1, Zenon DEF SealMember
    <3>2. seals'[c][m].durable = durable
      BY <3>1 DEF TypeOK, AttemptTypes
    <3>3. \A s \in recs[m] : s <= durable
      BY <3>1 DEF SealReceipt, IsMax, IssuedInv, LaneInv
    <3>4. ~LaneOpen(m)'
      <4>1. sealed'[m] = (retired[m] = NotRetired) /\ retired'[m] = retired[m]
        BY <2>1 DEF SealMember, SealLane, TypeOK, LaneTypes
      <4>2. QED
        BY <4>1, Zenon DEF LaneOpen
    <3>5. QED
      BY <3>2, <3>3, <3>4, Zenon
  <2>2. CASE \E landed \in BOOLEAN : SealUnanswered(c, m, landed)
    <3>1. seals' = [seals EXCEPT ![c][m] = FailedReceipt]
      BY <2>2, Zenon DEF SealUnanswered
    <3>2. seals'[c][m].kind = "failed"
      BY <3>1 DEF FailedReceipt, TypeOK, AttemptTypes
    <3>3. QED
      BY <3>2
  <2>3. QED
    BY <2>1, <2>2, Zenon
<1>6. SealInv'
  <2>1. phase' = "Recovering" =>
          \A a \in Claimants, i \in Members :
             stage'[a] # "idle" /\ seals'[a][i].kind = "ok" =>
                ~LaneOpen(i)' /\ \A s \in recs'[i] : s <= seals'[a][i].durable
    BY <1>1, <1>3, <1>4, <1>5, Zenon DEF SealInv, dirVars
  <2>2. QED
    BY <1>1, <2>1, Zenon DEF SealInv, dirVars
<1>7. WitnessInv'
  BY <1>1, <1>3, Zenon DEF WitnessInv, dirVars
<1>8. RecoveredInv'
  BY <1>1, <1>3, Zenon DEF RecoveredInv, Recoverable, Published, gateVars, leaderVars, shipVars,
     dirVars, cellVars
<1>9. QED
  BY <1>1, <1>6, <1>7, <1>8, RecoveryKept, Zenon DEF gateVars, leaderVars, dirVars, cellVars

\* The witness reaches what a sealed member holds.
LEMMA RecoveryCollectWitness ==
  ASSUME TypeOK, RecoveryInv, NEW c \in Claimants, NEW d \in Seqs0, CollectWitness(c, d)
  PROVE  RecoveryInv'
<1> USE DEF RecoveryInv
<1>1. UNCHANGED <<gateVars, leaderVars, shipVars, laneVars, dirVars, cellVars, seals, base, needs,
                  manifest>>
  BY Zenon DEF CollectWitness
<1>2. /\ stage[c] = "sealing" /\ stage'[c] = "planning" /\ witness'[c] = d
      /\ \A a \in Claimants : a # c => stage'[a] = stage[a] /\ witness'[a] = witness[a]
  BY DEF CollectWitness, TypeOK, AttemptTypes
<1>3. SealInv'
  BY <1>1, <1>2, Zenon DEF SealInv, LaneOpen, laneVars, dirVars
<1>4. dirTiered <= d /\ \A i \in Sealers(c) : seals[c][i].durable <= d
  <2>1. dirTiered \in Nat /\ d \in Nat /\ \A i \in Members : seals[c][i].durable \in Nat
    BY DEF TypeOK, DirTypes, AttemptTypes, Receipts, Seqs0
  <2>2. IsWitness(c, d)
    BY DEF CollectWitness
  <2>3. CASE \A x \in {seals[c][i].durable : i \in Sealers(c)} : x <= dirTiered
    BY <2>1, <2>2, <2>3 DEF IsWitness
  <2>4. CASE ~ \A x \in {seals[c][i].durable : i \in Sealers(c)} : x <= dirTiered
    BY <2>1, <2>2, <2>4 DEF IsWitness, IsMax, Sealers
  <2>5. QED
    BY <2>3, <2>4
<1>5. active => Sealers(c) # {}
  BY DEF CollectWitness, IsWitness
<1>6. WitnessInv'
  <2> SUFFICES ASSUME phase = "Recovering"
               PROVE  /\ dirTiered <= d
                      /\ active => \E i \in Members : ~LaneOpen(i) /\ \A s \in recs[i] : s <= d
    BY <1>1, <1>2 DEF WitnessInv, LaneOpen, dirVars, laneVars
  <2>1. \A i \in Sealers(c) : ~LaneOpen(i) /\ \A s \in recs[i] : s <= seals[c][i].durable
    BY <1>2 DEF SealInv, Sealers
  <2>2. ASSUME NEW i \in Sealers(c), NEW s \in recs[i] PROVE s <= d
    BY <1>4, <2>1 DEF Sealers, TypeOK, LaneTypes, AttemptTypes, Receipts, Seqs, Seqs0
  <2>3. QED
    BY <1>4, <1>5, <2>1, <2>2, Zenon DEF Sealers
<1>7. PlanInv'
  BY <1>1, <1>2 DEF PlanInv, Published, leaderVars, dirVars
<1>8. TailInv'
  <2>1. ASSUME NEW a \in Claimants, stage'[a] = "attaching", NEW x \in needs'[a]
        PROVE  manifest'[a][x] = Tail(a, x)'
    <3>1. a # c /\ stage[a] = "attaching" /\ witness'[a] = witness[a]
      BY <1>2, <2>1
    <3>2. Tail(a, x)' = Tail(a, x)
      BY <1>1, <3>1 DEF Tail, leaderVars, dirVars
    <3>3. QED
      BY <1>1, <2>1, <3>1, <3>2 DEF TailInv
  <2>2. QED
    BY <1>1, <2>1, Zenon DEF TailInv, cellVars, gateVars
<1>9. QED
  BY <1>1, <1>3, <1>6, <1>7, <1>8, RecoveryKept, Zenon DEF gateVars, leaderVars, shipVars, laneVars,
     dirVars, cellVars
=============================================================================
