------------------------- MODULE NodeLogLeaderTypes -------------------------
(***************************************************************************)
(* Type correctness of the node log: the initial states and the steps of   *)
(* the leader.  NodeLogTypes has the other steps and the theorem.          *)
(***************************************************************************)
EXTENDS NodeLog, TLAPS

USE MembersAssumption, CellsAssumption, BoundsAssumption

\* A group of variables keeps its types when it does not change.
LEMMA Untouched ==
  /\ FlagTypes /\ UNCHANGED <<fleetActive, rotating, lease, active, claimLive, barrier>>
     => FlagTypes'
  /\ GateTypes /\ UNCHANGED gateVars => GateTypes'
  /\ LeaderTypes /\ UNCHANGED <<leaderVars, nextSeq>> => LeaderTypes'
  /\ CoverTypes /\ UNCHANGED coverVars => CoverTypes'
  /\ ShipTypes /\ UNCHANGED shipVars => ShipTypes'
  /\ LaneTypes /\ UNCHANGED laneVars => LaneTypes'
  /\ DirTypes /\ UNCHANGED dirVars => DirTypes'
  /\ CellTypes /\ UNCHANGED cellVars => CellTypes'
  /\ AttemptTypes /\ UNCHANGED attemptVars => AttemptTypes'
<1>1. FlagTypes /\ UNCHANGED <<fleetActive, rotating, lease, active, claimLive, barrier>>
      => FlagTypes'
  BY DEF FlagTypes
<1>2. GateTypes /\ UNCHANGED gateVars => GateTypes'
  BY DEF GateTypes, gateVars
<1>3. LeaderTypes /\ UNCHANGED <<leaderVars, nextSeq>> => LeaderTypes'
  BY DEF LeaderTypes, leaderVars
<1>4. CoverTypes /\ UNCHANGED coverVars => CoverTypes'
  BY DEF CoverTypes, coverVars
<1>5. ShipTypes /\ UNCHANGED shipVars => ShipTypes'
  BY DEF ShipTypes, shipVars
<1>6. LaneTypes /\ UNCHANGED laneVars => LaneTypes'
  BY DEF LaneTypes, laneVars
<1>7. DirTypes /\ UNCHANGED dirVars => DirTypes'
  BY DEF DirTypes, dirVars
<1>8. CellTypes /\ UNCHANGED cellVars => CellTypes'
  BY DEF CellTypes, cellVars
<1>9. AttemptTypes /\ UNCHANGED attemptVars => AttemptTypes'
  BY DEF AttemptTypes, attemptVars
<1>10. QED
  BY <1>1, <1>2, <1>3, <1>4, <1>5, <1>6, <1>7, <1>8, <1>9

\* Every initial state is well typed.
LEMMA InitTypeOK == Init => TypeOK
<1> SUFFICES ASSUME Init PROVE TypeOK
  OBVIOUS
<1>1. GateTypes
  BY DEF Init, GateTypes, Seqs, Seqs0
<1>2. LeaderTypes
  BY DEF Init, LeaderTypes, Seqs, Seqs0, Tickets
<1>3. CoverTypes
  BY DEF Init, CoverTypes, NoFlush, Flushes, Seqs0
<1>4. ShipTypes
  BY DEF Init, ShipTypes, Seqs0
<1>5. LaneTypes
  BY DEF Init, LaneTypes, NoGrant, Grants, Seqs, Seqs0
<1>6. DirTypes
  BY DEF Init, DirTypes, Seqs0
<1>7. CellTypes
  BY DEF Init, CellTypes
<1>8. AttemptTypes
  BY DEF Init, AttemptTypes, NoReceipt, Receipts, NoTails, Manifests, Seqs0, Seqs
<1>9. FlagTypes
  BY Zenon DEF Init, FlagTypes
<1>10. QED
  BY <1>1, <1>2, <1>3, <1>4, <1>5, <1>6, <1>7, <1>8, <1>9 DEF TypeOK

\* Tickets span sequences of the log.
LEMMA TicketSpan == \A t \in Tickets : Span(t) \subseteq Seqs
  BY DEF Tickets, Span, Seqs

LEMMA TypeIssue ==
  ASSUME TypeOK, NEW c \in Cells, NEW n \in 1 .. MaxFrames, Issue(c, n)
  PROVE  TypeOK'
<1> USE DEF TypeOK
<1>1. GateTypes'
  BY DEF Issue, GateTypes, Seqs, Seqs0
<1>2. LeaderTypes'
  BY DEF Issue, LeaderTypes, GateTypes, Seqs, Seqs0, Tickets
<1>3. QED
  BY <1>1, <1>2, Untouched DEF Issue, dirVars

LEMMA TypeBatch ==
  ASSUME TypeOK, NEW last \in Seqs, Batch(last)
  PROVE  TypeOK'
<1> USE DEF TypeOK
<1>1. ShipTypes'
  BY DEF Batch, ShipTypes, GateTypes, Seqs, Seqs0, Rounds
<1>2. QED
  BY <1>1, Untouched DEF Batch, gateVars, leaderVars, dirVars

LEMMA TypeSend ==
  ASSUME TypeOK, NEW m \in Members, NEW last \in Seqs, Send(m, last)
  PROVE  TypeOK'
<1> USE DEF TypeOK
<1>1. ShipTypes'
  BY DEF Send, ShipTypes, Seqs, Seqs0, Requests
<1>2. QED
  BY <1>1, Untouched DEF Send, gateVars, leaderVars, dirVars

LEMMA TypeRequestFails ==
  ASSUME TypeOK, NEW m \in Members, RequestFails(m)
  PROVE  TypeOK'
<1> USE DEF TypeOK
<1>1. ShipTypes'
  BY DEF RequestFails, ShipTypes, Outstanding
<1>2. QED
  BY <1>1, Untouched DEF RequestFails, gateVars, leaderVars, dirVars

LEMMA TypeCompleteRound ==
  ASSUME TypeOK, NEW r \in rounds, CompleteRound(r)
  PROVE  TypeOK'
<1> USE DEF TypeOK
<1>1. FlagTypes'
  BY Zenon DEF CompleteRound, FlagTypes, StopShipping, leaderVars, dirVars
<1>2. GateTypes'
  BY DEF CompleteRound, GateTypes, ShipTypes, StopShipping, Seqs, Seqs0, Rounds
<1>3. ShipTypes'
  BY DEF CompleteRound, ShipTypes, Seqs, Seqs0, Rounds
<1>4. QED
  BY <1>1, <1>2, <1>3, Untouched DEF CompleteRound

LEMMA TypeStartActivation ==
  ASSUME TypeOK, NEW t \in tickets, StartActivation(t)
  PROVE  TypeOK'
<1> USE DEF TypeOK
<1>1. CoverTypes'
  BY DEF StartActivation, CoverTypes
<1>2. QED
  BY <1>1, Untouched DEF StartActivation, gateVars, leaderVars, dirVars

LEMMA TypeProve ==
  ASSUME TypeOK, NEW t \in tickets, Prove(t)
  PROVE  TypeOK'
<1> USE DEF TypeOK
<1>1. LeaderTypes'
  <2>1. Span(t) \subseteq Seqs
    BY TicketSpan DEF LeaderTypes
  <2>2. QED
    BY <2>1 DEF Prove, LeaderTypes, gateVars
<1>2. QED
  BY <1>1, Untouched DEF Prove, gateVars, dirVars

LEMMA TypeProvePublished ==
  ASSUME TypeOK, NEW t \in tickets, ProvePublished(t)
  PROVE  TypeOK'
<1> USE DEF TypeOK
<1>1. LeaderTypes'
  <2>1. Span(t) \subseteq Seqs
    BY TicketSpan DEF LeaderTypes
  <2>2. QED
    BY <2>1 DEF ProvePublished, LeaderTypes, gateVars
<1>2. QED
  BY <1>1, Untouched DEF ProvePublished, gateVars, dirVars

LEMMA TypePublishRoot ==
  ASSUME TypeOK, NEW t \in tickets, PublishRoot(t)
  PROVE  TypeOK'
<1> USE DEF TypeOK
<1>1. LeaderTypes'
  <2>1. t.last \in Seqs0
    BY DEF LeaderTypes, Tickets, Seqs, Seqs0
  <2>2. root' \in [Cells -> Seqs0]
    BY <2>1, Zenon DEF PublishRoot, LeaderTypes
  <2>3. QED
    BY <2>2 DEF PublishRoot, LeaderTypes, gateVars
<1>2. QED
  BY <1>1, Untouched DEF PublishRoot, gateVars, dirVars

LEMMA TypeStage ==
  ASSUME TypeOK, NEW t \in tickets, Stage(t)
  PROVE  TypeOK'
<1> USE DEF TypeOK
<1>1. CoverTypes'
  BY DEF Stage, CoverTypes, LeaderTypes
<1>2. QED
  BY <1>1, Untouched DEF Stage, gateVars, leaderVars, dirVars

LEMMA TypePersistActivation ==
  ASSUME TypeOK, NEW replied \in BOOLEAN, PersistActivation(replied)
  PROVE  TypeOK'
<1> USE DEF TypeOK
<1>1. FlagTypes'
  BY Zenon DEF PersistActivation, FlagTypes, gateVars, leaderVars
<1>2. CoverTypes'
  BY DEF PersistActivation, CoverTypes
<1>3. DirTypes'
  BY DEF PersistActivation, DirTypes
<1>4. QED
  BY <1>1, <1>2, <1>3, Untouched DEF PersistActivation, gateVars

LEMMA TypeAdvanceCoverage ==
  ASSUME TypeOK, NEW replied \in BOOLEAN, AdvanceCoverage(replied)
  PROVE  TypeOK'
<1> USE DEF TypeOK
<1>1. CoverTypes'
  BY DEF AdvanceCoverage, CoverTypes, Flushes, NoFlush, Seqs0
<1>2. DirTypes'
  BY DEF AdvanceCoverage, DirTypes, CoverTypes, Flushes, Seqs0
<1>3. QED
  BY <1>1, <1>2, Untouched DEF AdvanceCoverage, gateVars, leaderVars

LEMMA TypeActivationFails ==
  ASSUME TypeOK, ActivationFails
  PROVE  TypeOK'
<1> USE DEF TypeOK
<1>1. CoverTypes'
  BY DEF ActivationFails, CoverTypes
<1>2. QED
  BY <1>1, Untouched DEF ActivationFails, gateVars, leaderVars, dirVars

LEMMA TypeFinishActivation ==
  ASSUME TypeOK, FinishActivation
  PROVE  TypeOK'
<1> USE DEF TypeOK
<1>1. FlagTypes'
  BY Zenon DEF FinishActivation, FlagTypes, leaderVars, dirVars
<1>2. GateTypes'
  BY DEF FinishActivation, GateTypes
<1>3. CoverTypes'
  BY DEF FinishActivation, CoverTypes
<1>4. QED
  BY <1>1, <1>2, <1>3, Untouched DEF FinishActivation

LEMMA TypeStartFlush ==
  ASSUME TypeOK, StartFlush
  PROVE  TypeOK'
<1> USE DEF TypeOK
<1>1. CoverTypes'
  BY DEF StartFlush, CoverTypes, Flushes
<1>2. QED
  BY <1>1, Untouched DEF StartFlush, gateVars, leaderVars, dirVars

LEMMA TypeFlushFails ==
  ASSUME TypeOK, FlushFails
  PROVE  TypeOK'
<1> USE DEF TypeOK
<1>1. CoverTypes'
  BY DEF FlushFails, CoverTypes, Flushes, NoFlush, Seqs0
<1>2. QED
  BY <1>1, Untouched DEF FlushFails, gateVars, leaderVars, dirVars

LEMMA TypeConfirmFlush ==
  ASSUME TypeOK, ConfirmFlush
  PROVE  TypeOK'
<1> USE DEF TypeOK
<1>1. GateTypes'
  <2> DEFINE covered == objectCovered \cup UNION {Span(t) : t \in flush.batch}
  <2>1. covered \subseteq Seqs
    <3>1. flush.batch \subseteq Tickets
      BY DEF CoverTypes, Flushes
    <3>2. QED
      BY <3>1, TicketSpan DEF GateTypes
  <2>2. PICK n \in Seqs0 : tiered' = n /\ objectCovered' = {s \in covered : s > n}
    BY DEF ConfirmFlush
  <2>3. QED
    BY <2>1, <2>2, Zenon DEF ConfirmFlush, GateTypes
<1>2. CoverTypes'
  BY DEF ConfirmFlush, CoverTypes, Flushes, NoFlush, Seqs0
<1>3. QED
  BY <1>1, <1>2, Untouched DEF ConfirmFlush, leaderVars, dirVars

LEMMA TypeLoseLease ==
  ASSUME TypeOK, LoseLease
  PROVE  TypeOK'
<1> USE DEF TypeOK
<1>1. FlagTypes'
  BY Zenon DEF LoseLease, FlagTypes, gateVars, dirVars
<1>2. LeaderTypes'
  BY DEF LoseLease, LeaderTypes, gateVars
<1>3. QED
  BY <1>1, <1>2, Untouched DEF LoseLease

LEMMA TypeBeginShutdown ==
  ASSUME TypeOK, BeginShutdown
  PROVE  TypeOK'
<1> USE DEF TypeOK
<1>1. ShipTypes'
  BY DEF BeginShutdown, ShipTypes
<1>2. QED
  BY <1>1, Untouched DEF BeginShutdown, gateVars, leaderVars, dirVars

LEMMA TypeDrainShipper ==
  ASSUME TypeOK, DrainShipper
  PROVE  TypeOK'
<1> USE DEF TypeOK
<1>1. FlagTypes'
  BY Zenon DEF DrainShipper, FlagTypes, StopShipping, leaderVars, dirVars
<1>2. GateTypes'
  BY DEF DrainShipper, GateTypes
<1>3. ShipTypes'
  BY DEF DrainShipper, ShipTypes
<1>4. QED
  BY <1>1, <1>2, <1>3, Untouched DEF DrainShipper

LEMMA TypeBeginRotation ==
  ASSUME TypeOK, BeginRotation
  PROVE  TypeOK'
<1> USE DEF TypeOK
<1>1. FlagTypes'
  BY Zenon DEF BeginRotation, FlagTypes, StopShipping, leaderVars, dirVars
<1>2. GateTypes'
  BY DEF BeginRotation, GateTypes
<1>3. QED
  BY <1>1, <1>2, Untouched DEF BeginRotation

LEMMA TypeCloseLog ==
  ASSUME TypeOK, CloseLog
  PROVE  TypeOK'
<1> USE DEF TypeOK
<1>1. DirTypes'
  BY DEF CloseLog, DirTypes
<1>2. QED
  BY <1>1, Untouched DEF CloseLog, gateVars, leaderVars

LEMMA TypeRetireMember ==
  ASSUME TypeOK, NEW m \in Members, RetireMember(m)
  PROVE  TypeOK'
<1> USE DEF TypeOK
<1>1. LaneTypes'
  BY DEF RetireMember, LaneTypes, RetireLane, GateTypes, NoGrant, Grants, Seqs, Seqs0
<1>2. QED
  BY <1>1, Untouched DEF RetireMember, gateVars, leaderVars, dirVars

\* Every step of the leader preserves the types.
LEMMA LeaderStepTypes ==
  ASSUME TypeOK, LeaderNext
  PROVE  TypeOK'
  BY TypeIssue, TypeBatch, TypeSend, TypeRequestFails, TypeCompleteRound,
     TypeStartActivation, TypeProve, TypeProvePublished, TypePublishRoot, TypeStage,
     TypePersistActivation, TypeAdvanceCoverage, TypeActivationFails, TypeFinishActivation,
     TypeStartFlush, TypeFlushFails, TypeConfirmFlush, TypeLoseLease, TypeBeginShutdown,
     TypeDrainShipper, TypeBeginRotation, TypeCloseLog, TypeRetireMember DEF LeaderNext
=============================================================================
