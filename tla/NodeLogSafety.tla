----------------------------- MODULE NodeLogSafety -----------------------------
(***************************************************************************)
(* The third layer of the node log's inductive invariant, continued: the   *)
(* steps of a recovery attempt.  The three layers then give the invariance *)
(* of IInv and, from it, the promises of the log.                          *)
(***************************************************************************)
EXTENDS NodeLogTypes, NodeLogIssued, NodeLogHeld, NodeLogRecovery

USE MembersAssumption, CellsAssumption, BoundsAssumption

LEMMA RecoveryReadControl ==
  ASSUME TypeOK, RecoveryInv, NEW c \in Claimants, NEW x \in Cells, ReadControl(c, x)
  PROVE  RecoveryInv'
<1> USE DEF RecoveryInv
<1>1. UNCHANGED <<gateVars, leaderVars, shipVars, laneVars, dirVars, cellVars, stage, seals, witness,
                  needs, manifest>>
  BY Zenon DEF ReadControl
<1>2. stage[c] # "attaching" /\ base' = [base EXCEPT ![c][x] = root[x]]
  BY DEF ReadControl
<1>3. PlanInv'
  <2>1. \A a \in Claimants, y \in Cells : base'[a][y] <= root[y]
    BY <1>2 DEF PlanInv, TypeOK, AttemptTypes, LeaderTypes, Seqs0
  <2>2. QED
    BY <1>1, <2>1, Zenon DEF PlanInv, Published, leaderVars, dirVars
<1>4. TailInv'
  <2>1. ASSUME NEW a \in Claimants, stage'[a] = "attaching", NEW y \in needs'[a]
        PROVE  manifest'[a][y] = Tail(a, y)'
    <3>1. a # c /\ stage[a] = "attaching"
      BY <1>1, <1>2, <2>1
    <3>2. base'[a] = base[a]
      BY <1>2, <3>1 DEF TypeOK, AttemptTypes
    <3>3. Tail(a, y)' = Tail(a, y)
      BY <1>1, <3>2 DEF Tail, leaderVars, dirVars
    <3>4. QED
      BY <1>1, <2>1, <3>1, <3>3 DEF TailInv
  <2>2. QED
    BY <1>1, <2>1, Zenon DEF TailInv, cellVars, gateVars
<1>5. QED
  BY <1>1, <1>3, <1>4, RecoveryKept, Zenon DEF gateVars, leaderVars, shipVars, laneVars, dirVars,
     cellVars

\* The pinned manifest holds the tail of every Cell that has one.
LEMMA PinnableHoldsTails ==
  ASSUME NEW c \in Claimants, NEW f \in Pinnable(c), NEW x \in Cells, Tail(c, x) # {}
  PROVE  f[x] = Tail(c, x)
<1> DEFINE tails == [y \in Cells |-> Tail(c, y)]
           found == UNION {seen[c][y] : y \in Cells}
<1>1. tails[x] # {} /\ tails[x] = Tail(c, x)
  OBVIOUS
<1>2. CASE f = tails
  BY <1>1, <1>2
<1>3. CASE f \in found /\ \A y \in Cells : tails[y] # {} => f[y] = tails[y]
  BY <1>1, <1>3, Zenon
<1>4. QED
  BY <1>2, <1>3 DEF Pinnable

LEMMA RecoveryPlan ==
  ASSUME TypeOK, IssuedInv, RecoveryInv, NEW c \in Claimants, PlanRecovery(c)
  PROVE  RecoveryInv'
<1> USE DEF RecoveryInv
<1>1. UNCHANGED <<gateVars, leaderVars, shipVars, laneVars, dirVars, cellVars, seals, witness, base>>
  BY Zenon DEF PlanRecovery
<1>2. /\ stage[c] = "planning" /\ stage'[c] = "attaching"
      /\ manifest'[c] \in Pinnable(c)
      /\ needs'[c] = {x \in Cells : Tail(c, x) # {}}
      /\ \A a \in Claimants : a # c =>
           stage'[a] = stage[a] /\ manifest'[a] = manifest[a] /\ needs'[a] = needs[a]
  BY DEF PlanRecovery, TypeOK, AttemptTypes
<1>3. SealInv'
  BY <1>1, <1>2, Zenon DEF SealInv, LaneOpen, laneVars, dirVars
<1>4. WitnessInv'
  BY <1>1, <1>2, Zenon DEF WitnessInv, LaneOpen, laneVars, dirVars
<1>5. \A a \in Claimants, x \in Cells : Tail(a, x)' = Tail(a, x)
  BY <1>1 DEF Tail, leaderVars, dirVars
<1>6. \A x \in needs'[c] : manifest'[c][x] = Tail(c, x)
  BY <1>2, PinnableHoldsTails
<1>7. ASSUME NEW s \in dirTiered + 1 .. witness[c], ~Published(s)
      PROVE  cellOf[s] \in needs'[c] /\ s \in manifest'[c][cellOf[s]]
  <2>1. cellOf[s] \in Cells /\ s \in Nat
    BY DEF IssuedInv, MarkInv, TypeOK, GateTypes, LeaderTypes, DirTypes, AttemptTypes, Seqs0
  <2>2. s > base[c][cellOf[s]]
    BY <1>7, <2>1 DEF PlanInv, Published, TypeOK, LeaderTypes, AttemptTypes, Seqs0
  <2>3. s \in Tail(c, cellOf[s])
    BY <2>1, <2>2 DEF Tail
  <2>4. QED
    BY <1>2, <1>6, <2>1, <2>3
<1>8. PlanInv'
  <2>1. ASSUME NEW a \in Claimants, phase = "Recovering", stage'[a] = "attaching",
               NEW s \in dirTiered + 1 .. witness[a], ~Published(s)
        PROVE  cellOf[s] \in needs'[a] /\ s \in manifest'[a][cellOf[s]]
    <3>1. CASE a = c
      BY <1>7, <2>1, <3>1
    <3>2. CASE a # c
      BY <1>2, <2>1, <3>2 DEF PlanInv
    <3>3. QED
      BY <3>1, <3>2
  <2>2. QED
    BY <1>1, <2>1, Zenon DEF PlanInv, Published, leaderVars, dirVars
<1>9. TailInv'
  <2>1. ASSUME NEW a \in Claimants, stage'[a] = "attaching", NEW x \in needs'[a]
        PROVE  manifest'[a][x] = Tail(a, x)'
    <3>1. CASE a = c
      BY <1>2, <1>5, <1>6, <2>1, <3>1
    <3>2. CASE a # c
      <4>1. stage[a] = "attaching" /\ x \in needs[a] /\ x \in Cells
        BY <1>2, <2>1, <3>2 DEF TypeOK, AttemptTypes
      <4>2. QED
        BY <1>2, <1>5, <3>2, <4>1 DEF TailInv
    <3>3. QED
      BY <3>1, <3>2, Zenon
  <2>2. QED
    BY <1>1, <2>1, Zenon DEF TailInv, cellVars, gateVars
<1>10. QED
  BY <1>1, <1>3, <1>4, <1>8, <1>9, RecoveryKept, Zenon DEF gateVars, leaderVars, shipVars, laneVars,
     dirVars, cellVars

\* An overlay starts at the root it was planned from, since the write is
\* conditional on the control record that was read.
LEMMA RecoveryAttach ==
  ASSUME TypeOK, IssuedInv, CoveredInv, RecoveryInv, NEW c \in Claimants, NEW x \in Cells,
         AttachRecovery(c, x)
  PROVE  RecoveryInv'
<1> USE DEF RecoveryInv
<1>1. UNCHANGED <<gateVars, leaderVars, shipVars, laneVars, dirVars, attemptVars>>
  BY Zenon DEF AttachRecovery
<1>2. /\ pin[x] = {} /\ root[x] = base[c][x] /\ manifest[c][x] = Tail(c, x)
      /\ pin' = [pin EXCEPT ![x] = {manifest[c]}]
  BY DEF AttachRecovery, TailInv
<1>3. /\ pin'[x] = {manifest[c]}
      /\ \A y \in Cells : y # x => pin'[y] = pin[y]
  BY <1>2 DEF TypeOK, CellTypes
<1>4. TailInv'
  <2>1. \A s \in Tail(c, x) : s < nextSeq
    BY DEF Tail, IssuedInv, MarkInv, TypeOK, AttemptTypes, DirTypes, GateTypes, Seqs0
  <2>2. \A y \in Cells : \A f \in pin'[y] : \A s \in f[y] : s < nextSeq
    BY SMTT(30), <1>2, <1>3, <2>1 DEF TailInv
  <2>3. \A a, y : Tail(a, y)' = Tail(a, y)
    BY <1>1, Zenon DEF Tail, leaderVars, dirVars, attemptVars
  <2>4. QED
    BY <1>1, <2>2, <2>3, Zenon DEF TailInv, gateVars, attemptVars
<1>5. OverlayContinuesRoot'
  <2>1. ASSUME NEW last \in Tail(c, x), NEW s \in 1 .. nextSeq - 1, cellOf[s] = x, root[x] < s,
               s < last
        PROVE  s \in Tail(c, x)
    <3>1. dirTiered \in Nat /\ witness[c] \in Nat /\ last \in Nat /\ s \in Nat /\ last <= witness[c]
      BY SMTT(30) DEF Tail, TypeOK, GateTypes, AttemptTypes, DirTypes, Seqs0
    <3>2. s > dirTiered
      <4>1. s \in 1 .. dirTiered => s <= root[x]
        BY <2>1, Zenon DEF CoveredInv, CoverageInv, Published
      <4>2. root[x] \in Nat
        BY SMTT(30) DEF TypeOK, LeaderTypes, Seqs0
      <4>3. QED
        BY SMTT(30), <2>1, <3>1, <4>1, <4>2
    <3>3. QED
      BY <1>2, <2>1, <3>1, <3>2 DEF Tail
  <2>2. \A y \in Cells : \A f \in pin'[y] : \A last \in f[y], s \in 1 .. nextSeq - 1 :
           cellOf[s] = y /\ root[y] < s /\ s < last => s \in f[y]
    BY <1>2, <1>3, <2>1 DEF OverlayContinuesRoot
  <2>3. QED
    BY <1>1, <2>2, Zenon DEF OverlayContinuesRoot, gateVars, leaderVars
<1>6. RecoveredInv'
  <2>1. \A y : pin[y] # {} => y # x
    BY <1>2
  <2>2. \A s \in 1 .. recoveredThrough : cellOf[s] \in Cells
    BY DEF IssuedInv, MarkInv, TypeOK, LeaderTypes, GateTypes, DirTypes, Seqs0
  <2>3. \A s \in 1 .. recoveredThrough : Recoverable(s) => Recoverable(s)'
    BY <1>1, <1>3, <2>1, <2>2, Zenon DEF Recoverable, Published, leaderVars
  <2>4. QED
    BY <1>1, <2>3, Zenon DEF RecoveredInv, LaneOpen, gateVars, shipVars, laneVars, dirVars
<1>7. QED
  BY <1>1, <1>4, <1>5, <1>6, RecoveryKept, Zenon DEF gateVars, leaderVars, laneVars, dirVars,
     attemptVars

\* The sealed recovery reaches everything a closed member acknowledged.
LEMMA RecoverySealed ==
  ASSUME TypeOK, IssuedInv, CoveredInv, RecoveryInv, NEW c \in Claimants, SealRecovery(c)
  PROVE  RecoveryInv'
<1> USE DEF RecoveryInv
<1>1. UNCHANGED <<gateVars, leaderVars, shipVars, laneVars, active, dirTiered, cellVars, attemptVars>>
  BY Zenon DEF SealRecovery
<1>2. /\ phase = "Recovering" /\ phase' = "Sealed" /\ recoveredThrough' = witness[c]
      /\ stage[c] = "attaching" /\ \A x \in needs[c] : pin[x] = {manifest[c]}
  BY DEF SealRecovery, HoldsClaim
<1>3. dirTiered \in Nat /\ witness[c] \in Nat /\ dirTiered <= witness[c]
  BY <1>2 DEF TypeOK, DirTypes, AttemptTypes, Seqs0, WitnessInv
<1>4. SealInv' /\ WitnessInv' /\ PlanInv'
  BY <1>1, <1>2 DEF SealInv, WitnessInv, PlanInv, leaderVars, attemptVars
<1>5. \A s \in 1 .. witness[c] : Recoverable(s)
  <2>1. ASSUME NEW s \in 1 .. dirTiered PROVE Recoverable(s)
    BY DEF CoveredInv, CoverageInv, Recoverable
  <2>2. ASSUME NEW s \in dirTiered + 1 .. witness[c] PROVE Recoverable(s)
    BY <1>2 DEF PlanInv, Recoverable
  <2>3. QED
    BY <1>3, <2>1, <2>2
<1>6. ASSUME NEW m \in Members, \A s \in recs[m] : s <= witness[c]
      PROVE  /\ through[m] <= witness[c]
             /\ \A r \in good[m] : r.last <= witness[c]
  <2>1. \A s \in Nat : Held(m, s) => s <= witness[c]
    BY <1>3, <1>6 DEF Held
  <2>2. \A r \in good[m] : r.last \in Span(r)
    BY SMTT(30) DEF IssuedInv, RoundInv, Span, TypeOK, ShipTypes, Rounds, Seqs
  <2>3. through[m] = 0 \/ Held(m, through[m])
    BY SMTT(30), <1>2 DEF CoveredInv, HeldInv, TypeOK, GateTypes, Seqs0
  <2>4. \A r \in good[m] : Held(m, r.last)
    BY <1>2, <2>2 DEF CoveredInv, HeldInv
  <2>5. through[m] \in Nat /\ \A r \in good[m] : r.last \in Nat
    BY SMTT(30) DEF TypeOK, ShipTypes, GateTypes, Rounds, Seqs, Seqs0
  <2>6. QED
    BY SMTT(30), <1>3, <2>1, <2>3, <2>4, <2>5
<1>7. RecoveredInv'
  <2>1. active => \E m \in Members : ~LaneOpen(m) /\ \A s \in recs[m] : s <= witness[c]
    BY <1>2 DEF WitnessInv
  <2>2. QED
    BY <1>1, <1>2, <1>5, <1>6, <2>1 DEF RecoveredInv, LaneOpen, Recoverable, Published, gateVars,
       leaderVars, shipVars, laneVars, cellVars
<1>8. QED
  BY <1>1, <1>4, <1>7, RecoveryKept, Zenon DEF gateVars, leaderVars, cellVars, attemptVars

\* After recovery a lane only closes.
LEMMA RecoveryRetired ==
  ASSUME TypeOK, RecoveryInv, RetireRecoveredLog \/ \E m \in Members : RetireRecoveredMember(m)
  PROVE  RecoveryInv'
<1> USE DEF RecoveryInv
<1>1. UNCHANGED <<gateVars, leaderVars, shipVars, active, dirTiered, recoveredThrough, cellVars,
                  attemptVars>>
  BY Zenon DEF RetireRecoveredLog, RetireRecoveredMember, dirVars
<1>2. phase \in {"Sealed", "Retired"} /\ phase' \in {"Sealed", "Retired"}
  BY Zenon DEF RetireRecoveredLog, RetireRecoveredMember, dirVars
<1>3. \A i \in Members : ~LaneOpen(i) => ~LaneOpen(i)'
  <2>1. CASE RetireRecoveredLog
    BY <2>1, Zenon DEF RetireRecoveredLog, LaneOpen, laneVars
  <2>2. CASE \E m \in Members : RetireRecoveredMember(m)
    <3>1. PICK m \in Members, w \in Seqs0 : /\ retired' = [retired EXCEPT ![m] = w]
                                            /\ sealed' = [sealed EXCEPT ![m] = FALSE]
      BY <2>2, Zenon DEF RetireRecoveredMember, RetireLane
    <3>2. w # NotRetired
      BY DEF NotRetired, Seqs0
    <3>3. QED
      BY SMTT(30), <3>1, <3>2 DEF LaneOpen, TypeOK, LaneTypes
  <2>3. QED
    BY <2>1, <2>2, Zenon
<1>4. SealInv' /\ WitnessInv' /\ PlanInv'
  BY <1>1, <1>2, Zenon DEF SealInv, WitnessInv, PlanInv, leaderVars, attemptVars
<1>5. RecoveredInv'
  BY <1>1, <1>2, <1>3, Zenon DEF RecoveredInv, Recoverable, Published, gateVars, leaderVars,
     shipVars, cellVars
<1>6. QED
  BY <1>1, <1>4, <1>5, RecoveryKept, Zenon DEF gateVars, leaderVars, cellVars, attemptVars

LEMMA RecoveryQuiet ==
  ASSUME RecoveryInv,
         \/ \E last \in Seqs : Batch(last)
         \/ \E m \in Members, last \in Seqs : Send(m, last)
         \/ \E m \in Members : RequestFails(m) \/ \E first \in Seqs : OpenGrant(m, first)
         \/ \E m \in Members : DropGrant(m)
         \/ \E t \in tickets : StartActivation(t) \/ Prove(t) \/ ProvePublished(t) \/ Stage(t)
         \/ ActivationFails \/ FinishActivation \/ StartFlush \/ FlushFails \/ ConfirmFlush
         \/ LoseLease \/ BeginShutdown \/ DrainShipper \/ BeginRotation \/ ExpireClaim
         \/ \E q \in msgs : Authorize(q)
         \/ \E x \in Cells : Takeover(x)
         \/ UNCHANGED vars
  PROVE  RecoveryInv'
<1> SUFFICES UNCHANGED <<nextSeq, through, root, cellOf, good, recs, sealed, retired, phase, active,
                         dirTiered, recoveredThrough, pin, attemptVars>>
  BY RecoveryKept, Zenon DEF RecoveryInv, attemptVars
<1>1. CASE \/ \E last \in Seqs : Batch(last)
           \/ \E m \in Members, last \in Seqs : Send(m, last)
           \/ \E m \in Members : RequestFails(m) \/ \E first \in Seqs : OpenGrant(m, first)
           \/ \E m \in Members : DropGrant(m)
           \/ \E q \in msgs : Authorize(q)
  BY <1>1, Zenon DEF Batch, Send, RequestFails, OpenGrant, DropGrant, Authorize, gateVars,
     leaderVars, shipVars, laneVars, dirVars, cellVars
<1>2. CASE \/ \E t \in tickets : StartActivation(t) \/ Prove(t) \/ ProvePublished(t) \/ Stage(t)
           \/ ActivationFails \/ FinishActivation \/ StartFlush
  BY <1>2, Zenon DEF StartActivation, Prove, ProvePublished, Stage, ActivationFails,
     FinishActivation, StartFlush, gateVars, leaderVars, shipVars, laneVars, dirVars, cellVars
<1>3. CASE \/ FlushFails \/ ConfirmFlush \/ LoseLease \/ BeginShutdown \/ DrainShipper
           \/ BeginRotation
  BY <1>3, Zenon DEF FlushFails, ConfirmFlush, LoseLease, BeginShutdown, DrainShipper,
     BeginRotation, gateVars, leaderVars, shipVars, laneVars, dirVars, cellVars
<1>4. CASE ExpireClaim \/ (\E x \in Cells : Takeover(x)) \/ UNCHANGED vars
  BY <1>4, Zenon DEF ExpireClaim, Takeover, vars, gateVars, leaderVars, shipVars, laneVars, dirVars,
     cellVars
<1>5. QED
  BY <1>1, <1>2, <1>3, <1>4, Zenon

\* Every step preserves the third layer.
LEMMA RecoveryStep ==
  ASSUME TypeOK, IssuedInv, CoveredInv, RecoveryInv, [Next]_vars
  PROVE  RecoveryInv'
<1>1. CASE LeaderNext
  BY <1>1, RecoveryIssue, RecoveryCompleteRound, RecoveryPublishRoot, RecoveryOpen, RecoveryQuiet,
     Zenon DEF LeaderNext
<1>2. CASE FollowerNext
  BY <1>2, RecoveryAppend, RecoveryQuiet, Zenon DEF FollowerNext
<1>3. CASE RecoveryNext
  BY <1>3, RecoveryStarts, RecoverySeal, RecoveryCollectWitness, RecoveryReadControl, RecoveryPlan,
     RecoveryAttach, RecoverySealed, RecoveryRetired, RecoveryQuiet, Zenon DEF RecoveryNext
<1>4. QED
  BY <1>1, <1>2, <1>3, RecoveryQuiet, Zenon DEF Next

LEMMA InvInit == Init => IInv
BY InitTypeOK, InitIssued, InitCovered, InitRecovery, Zenon DEF IInv

\* Every step preserves the inductive invariant.
LEMMA InvStep == IInv /\ [Next]_vars => IInv'
<1> SUFFICES ASSUME TypeOK, IssuedInv, CoveredInv, RecoveryInv, [Next]_vars PROVE IInv'
  BY Zenon DEF IInv
<1>1. TypeOK' /\ IssuedInv'
  BY TypeStep, IssuedStep, Zenon
<1>2. CoveredInv'
  BY <1>1, CoveredStep, Zenon
<1>3. RecoveryInv'
  BY RecoveryStep, Zenon
<1>4. QED
  BY <1>1, <1>2, <1>3, Zenon DEF IInv

\* The inductive invariant holds for every number of members, cells, claimants
\* and claims, and for every bound on the sequences, the batches and the pipeline.
THEOREM InvCorrect == Spec => []IInv
<1>1. Init => IInv
  BY InvInit
<1>2. IInv /\ [Next]_vars => IInv'
  BY InvStep
<1>3. QED
  BY <1>1, <1>2, PTL DEF Spec

\* In every state of the invariant, a frame that was acknowledged can be
\* recovered by the node that takes its Cell over.
LEMMA AckedRecoverable == IInv => AckedSurvivesTakeover
<1> SUFFICES ASSUME TypeOK, IssuedInv, CoveredInv, RecoveryInv, TakeoverReady, NEW s \in acked
             PROVE  Recoverable(s)
  BY Zenon DEF IInv, AckedSurvivesTakeover
<1>1. s \in Nat /\ s > 0 /\ s < nextSeq
  BY DEF IssuedInv, MarkInv, TypeOK, LeaderTypes, Seqs
<1>2. Published(s) => Recoverable(s)
  BY Zenon DEF Recoverable
<1>3. Published(s) \/ (active /\ \A m \in Members : s <= through[m])
  BY Zenon DEF CoveredInv, FleetNeedsActive
<1>4. CASE phase = "Closed"
  <2>1. dirTiered = nextSeq - 1
    BY <1>4, Zenon DEF CoveredInv, CloseInv
  <2>2. s \in 1 .. dirTiered
    BY <1>1, <2>1 DEF TypeOK, GateTypes
  <2>3. QED
    BY <1>2, <2>2, Zenon DEF CoveredInv, CoverageInv
<1>5. CASE phase = "Recovering" /\ ~active
  BY <1>2, <1>3, <1>5, Zenon
<1>6. CASE phase \in {"Sealed", "Retired"}
  <2>1. CASE active /\ \A m \in Members : s <= through[m]
    <3>1. PICK m \in Members : through[m] <= recoveredThrough
      BY <1>6, <2>1, Zenon DEF RecoveryInv, RecoveredInv
    <3>2. through[m] \in Nat /\ recoveredThrough \in Nat
      BY DEF TypeOK, GateTypes, DirTypes, Seqs0
    <3>3. s \in 1 .. recoveredThrough
      BY <1>1, <2>1, <3>1, <3>2
    <3>4. QED
      BY <1>6, <3>3, Zenon DEF RecoveryInv, RecoveredInv
  <2>2. QED
    BY <1>2, <1>3, <2>1, Zenon
<1>7. QED
  BY <1>4, <1>5, <1>6, Zenon DEF TakeoverReady

\* A takeover loses nothing that was acknowledged.
THEOREM TakeoverSafe == Spec => []AckedSurvivesTakeover
BY InvCorrect, AckedRecoverable, PTL

\* Reclamation never passes an unpublished frame, in the directory or in the gate.
THEOREM FrontierSafe == Spec => []FrontierIsPublished
<1>1. IInv => FrontierIsPublished
  BY Zenon DEF IInv, CoveredInv, CoverageInv, FlushInv, FrontierIsPublished
<1>2. QED
  BY <1>1, InvCorrect, PTL

\* A follower lane has no gap above the directory's frontier.
THEOREM LanesSafe == Spec => []LaneKeepsUncovered
<1>1. IInv => LaneKeepsUncovered
  BY Zenon DEF IInv, CoveredInv
<1>2. QED
  BY <1>1, InvCorrect, PTL

\* A recovery overlay continues the published root of its Cell.
THEOREM OverlaysSafe == Spec => []OverlayContinuesRoot
<1>1. IInv => OverlayContinuesRoot
  BY Zenon DEF IInv, RecoveryInv
<1>2. QED
  BY <1>1, InvCorrect, PTL

\* Fleet acknowledgements are released only for an active log.
THEOREM ActivationSafe == Spec => []FleetNeedsActive
<1>1. IInv => FleetNeedsActive
  BY Zenon DEF IInv, CoveredInv
<1>2. QED
  BY <1>1, InvCorrect, PTL
=============================================================================
