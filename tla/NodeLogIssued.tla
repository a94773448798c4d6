---------------------------- MODULE NodeLogIssued ----------------------------
(***************************************************************************)
(* The first layer of the node log's inductive invariant: every sequence   *)
(* that a ticket, a round, a request, a lane, a watermark or a witness     *)
(* names has been issued.                                                  *)
(***************************************************************************)
EXTENDS NodeLog, TLAPS

USE MembersAssumption, CellsAssumption, BoundsAssumption

\* A part of the layer holds on when its variables do not change.
LEMMA IssuedKept ==
  /\ TicketInv /\ UNCHANGED <<nextSeq, cellOf, tickets, staged, flush>> => TicketInv'
  /\ RoundInv /\ UNCHANGED <<nextSeq, batched, completed, rounds, sent, good, through>>
     => RoundInv'
  /\ LaneInv /\ UNCHANGED <<nextSeq, authorized, msgs, recs, retired>> => LaneInv'
  /\ MarkInv /\ UNCHANGED <<nextSeq, acked, objectCovered, tiered, dirTiered, flush,
                            recoveredThrough, witness>> => MarkInv'
<1>1. TicketInv /\ UNCHANGED <<nextSeq, cellOf, tickets, staged, flush>> => TicketInv'
  BY DEF TicketInv
<1>2. RoundInv /\ UNCHANGED <<nextSeq, batched, completed, rounds, sent, good, through>>
      => RoundInv'
  BY DEF RoundInv
<1>3. LaneInv /\ UNCHANGED <<nextSeq, authorized, msgs, recs, retired>> => LaneInv'
  BY DEF LaneInv
<1>4. MarkInv /\ UNCHANGED <<nextSeq, acked, objectCovered, tiered, dirTiered, flush,
                             recoveredThrough, witness>> => MarkInv'
  BY DEF MarkInv
<1>5. QED
  BY <1>1, <1>2, <1>3, <1>4

\* Nothing is issued at the start.
LEMMA InitIssued == Init => IssuedInv
<1> SUFFICES ASSUME Init PROVE IssuedInv
  OBVIOUS
<1>1. TicketInv /\ LaneInv
  BY DEF Init, TicketInv, LaneInv, NoFlush, NotRetired
<1>2. RoundInv
  BY DEF Init, RoundInv
<1>3. MarkInv
  BY DEF Init, MarkInv, NoFlush
<1>4. QED
  BY <1>1, <1>2, <1>3 DEF IssuedInv

\* The end of a covered prefix is the prefix itself or a covered sequence.
LEMMA PrefixEndBound ==
  ASSUME NEW n \in Nat, NEW t \in Nat, NEW bound \in Nat, NEW S,
         IsPrefixEnd(n, t, S), t < bound, \A s \in S : s < bound
  PROVE  n < bound /\ t <= n
  BY DEF IsPrefixEnd

LEMMA IssuedIssue ==
  ASSUME TypeOK, IssuedInv, NEW c \in Cells, NEW n \in 1 .. MaxFrames, Issue(c, n)
  PROVE  IssuedInv'
<1> USE DEF TypeOK, IssuedInv
<1>1. nextSeq \in Nat /\ n \in Nat /\ nextSeq' = nextSeq + n /\ n >= 1
  BY DEF Issue, GateTypes
<1>2. TicketInv'
  <2>1. tickets' = tickets \cup {[first |-> nextSeq, last |-> nextSeq + n - 1]}
    BY DEF Issue
  <2>2. cellOf' = [s \in 1 .. nextSeq + n - 1 |-> IF s < nextSeq THEN cellOf[s] ELSE c]
    BY DEF Issue
  <2>3. staged' = staged /\ flush' = flush
    BY DEF Issue, coverVars
  <2>4. ASSUME NEW t \in tickets
        PROVE  /\ t.first <= t.last /\ t.last < nextSeq'
               /\ \A s \in Span(t) : cellOf'[s] = cellOf'[t.first]
    BY <1>1, <2>2, <2>4 DEF TicketInv, Span, Tickets, LeaderTypes, Seqs
  <2>5. ASSUME NEW t, t = [first |-> nextSeq, last |-> nextSeq + n - 1]
        PROVE  /\ t.first <= t.last /\ t.last < nextSeq'
               /\ \A s \in Span(t) : cellOf'[s] = cellOf'[t.first]
    BY <1>1, <2>2, <2>5 DEF Span, GateTypes
  <2>6. QED
    BY <2>1, <2>3, <2>4, <2>5 DEF TicketInv, Span
<1>3. RoundInv'
  BY <1>1 DEF Issue, RoundInv, ShipTypes, shipVars, Seqs0, Rounds, Seqs
<1>4. LaneInv'
  BY <1>1 DEF Issue, LaneInv, ShipTypes, LaneTypes, shipVars, laneVars, Requests, Seqs
<1>5. MarkInv'
  BY <1>1 DEF Issue, MarkInv, GateTypes, LeaderTypes, CoverTypes, DirTypes, AttemptTypes,
     coverVars, dirVars, attemptVars, Flushes, Seqs, Seqs0
<1>6. QED
  BY <1>2, <1>3, <1>4, <1>5

LEMMA IssuedBatch ==
  ASSUME TypeOK, IssuedInv, NEW last \in Seqs, Batch(last)
  PROVE  IssuedInv'
<1> USE DEF TypeOK, IssuedInv
<1>1. RoundInv'
  BY DEF Batch, RoundInv, ShipTypes, GateTypes, gateVars, Seqs, Seqs0, Rounds
<1>2. QED
  BY <1>1, IssuedKept DEF Batch, gateVars, leaderVars, coverVars, laneVars, dirVars,
     attemptVars

LEMMA IssuedSend ==
  ASSUME TypeOK, IssuedInv, NEW m \in Members, NEW last \in Seqs, Send(m, last)
  PROVE  IssuedInv'
<1> USE DEF TypeOK, IssuedInv
<1>1. PICK r \in rounds : r.last = last /\ last > sent[m]
  BY DEF Send
<1>2. last <= batched /\ batched < nextSeq
  BY <1>1 DEF RoundInv
<1>3. RoundInv'
  <2>1. sent' = [sent EXCEPT ![m] = last]
    BY DEF Send
  <2>2. \A k \in Members : sent'[k] <= batched
    BY <1>2, <2>1 DEF RoundInv, ShipTypes
  <2>3. QED
    BY <2>2 DEF Send, RoundInv, gateVars
<1>4. LaneInv'
  <2>1. PICK covered \in Seqs0 :
          msgs' = msgs \cup {[to |-> m, first |-> sent[m] + 1, last |-> last,
                             covered |-> covered]}
    BY DEF Send
  <2>2. last < nextSeq
    BY <1>2 DEF ShipTypes, GateTypes, Seqs, Seqs0
  <2>3. QED
    BY <2>1, <2>2 DEF Send, LaneInv, gateVars, laneVars
<1>5. QED
  BY <1>3, <1>4, IssuedKept DEF Send, gateVars, leaderVars, coverVars, dirVars, attemptVars

LEMMA IssuedCompleteRound ==
  ASSUME TypeOK, IssuedInv, NEW r \in rounds, CompleteRound(r)
  PROVE  IssuedInv'
<1> USE DEF TypeOK, IssuedInv
<1>1. RoundInv'
  <2>1. r.last < nextSeq
    BY DEF RoundInv, ShipTypes, GateTypes, Rounds, Seqs, Seqs0
  <2>2. \/ through' = through /\ completed' = completed
        \/ through' = [m \in Members |-> r.last] /\ completed' = r.last
    BY DEF CompleteRound
  <2>3. QED
    BY <2>1, <2>2 DEF CompleteRound, RoundInv
<1>2. QED
  BY <1>1, IssuedKept DEF CompleteRound, leaderVars, coverVars, laneVars, dirVars, attemptVars

\* An acknowledged ticket was issued.
LEMMA IssuedAck ==
  ASSUME TypeOK, IssuedInv, NEW t \in tickets,
         acked' = acked \cup Span(t),
         UNCHANGED <<gateVars, lease, cellOf, tickets, root, coverVars, shipVars, laneVars,
                     dirVars, cellVars, attemptVars, barrier>>
  PROVE  IssuedInv'
<1> USE DEF TypeOK, IssuedInv
<1>1. \A s \in acked' : s < nextSeq
  BY DEF MarkInv, TicketInv, Span, LeaderTypes, GateTypes, Tickets, Seqs
<1>2. MarkInv'
  BY <1>1 DEF MarkInv, gateVars, coverVars, dirVars, attemptVars
<1>3. QED
  BY <1>2, IssuedKept DEF gateVars, coverVars, shipVars, laneVars, dirVars, attemptVars

LEMMA IssuedProve ==
  ASSUME TypeOK, IssuedInv, NEW t \in tickets, Prove(t) \/ ProvePublished(t)
  PROVE  IssuedInv'
  BY IssuedAck DEF Prove, ProvePublished

LEMMA IssuedStage ==
  ASSUME TypeOK, IssuedInv, NEW t \in tickets, Stage(t)
  PROVE  IssuedInv'
<1> USE DEF TypeOK, IssuedInv
<1>1. TicketInv'
  BY DEF Stage, TicketInv, gateVars, leaderVars
<1>2. QED
  BY <1>1, IssuedKept DEF Stage, gateVars, leaderVars, shipVars, laneVars, dirVars,
     attemptVars

\* The sequences of issued tickets and of object coverage are issued.
LEMMA CoveredIssued ==
  ASSUME TypeOK, IssuedInv, NEW batch \in SUBSET tickets,
         NEW s \in objectCovered \cup UNION {Span(t) : t \in batch}
  PROVE  s \in Seqs /\ s < nextSeq
  BY DEF TypeOK, IssuedInv, TicketInv, MarkInv, Span, LeaderTypes, GateTypes, Tickets, Seqs

LEMMA IssuedStartFlush ==
  ASSUME TypeOK, IssuedInv, StartFlush
  PROVE  IssuedInv'
<1> USE DEF TypeOK, IssuedInv
<1> DEFINE S == objectCovered \cup UNION {Span(t) : t \in staged}
<1>1. PICK n \in Seqs0 :
        /\ IsPrefixEnd(n, tiered, S)
        /\ flush' = [stage |-> IF n > tiered THEN "advancing" ELSE "confirming",
                     batch |-> staged, through |-> n]
  BY Zenon DEF StartFlush
<1>2. n < nextSeq
  <2>1. staged \in SUBSET tickets
    BY DEF TicketInv
  <2>2. \A s \in S : s < nextSeq
    BY <2>1, CoveredIssued
  <2>3. n \in Nat /\ tiered \in Nat /\ nextSeq \in Nat /\ tiered < nextSeq
    BY DEF GateTypes, MarkInv, Seqs0
  <2>4. QED
    BY <1>1, <2>2, <2>3, PrefixEndBound
<1>3. flush'.batch = staged /\ flush'.through = n
  BY <1>1
<1>4. TicketInv'
  BY <1>3 DEF StartFlush, TicketInv, gateVars, leaderVars
<1>5. MarkInv'
  BY <1>2, <1>3 DEF StartFlush, MarkInv, gateVars, leaderVars, dirVars, attemptVars
<1>6. QED
  BY <1>4, <1>5, IssuedKept DEF StartFlush, gateVars, shipVars, laneVars

LEMMA IssuedAdvanceCoverage ==
  ASSUME TypeOK, IssuedInv, NEW replied \in BOOLEAN, AdvanceCoverage(replied)
  PROVE  IssuedInv'
<1> USE DEF TypeOK, IssuedInv
<1>1. /\ flush'.batch \subseteq tickets
      /\ flush'.through < nextSeq
  BY DEF AdvanceCoverage, NoFlush, TicketInv, MarkInv, GateTypes, CoverTypes, Flushes, Seqs0
<1>2. TicketInv'
  BY <1>1 DEF AdvanceCoverage, TicketInv, gateVars, leaderVars
<1>3. dirTiered' < nextSeq
  BY DEF AdvanceCoverage, MarkInv
<1>4. MarkInv'
  BY <1>1, <1>3 DEF AdvanceCoverage, MarkInv, gateVars, leaderVars, attemptVars
<1>5. QED
  BY <1>2, <1>4, IssuedKept DEF AdvanceCoverage, gateVars, shipVars, laneVars

LEMMA IssuedFlushFails ==
  ASSUME TypeOK, IssuedInv, FlushFails
  PROVE  IssuedInv'
<1> USE DEF TypeOK, IssuedInv
<1>1. flush'.batch = {} /\ flush'.through = 0
  BY DEF FlushFails, NoFlush
<1>2. TicketInv'
  BY <1>1 DEF FlushFails, TicketInv, gateVars, leaderVars
<1>3. MarkInv'
  BY <1>1 DEF FlushFails, MarkInv, GateTypes, gateVars, leaderVars, dirVars, attemptVars
<1>4. QED
  BY <1>2, <1>3, IssuedKept DEF FlushFails, gateVars, shipVars, laneVars

LEMMA IssuedConfirmFlush ==
  ASSUME TypeOK, IssuedInv, ConfirmFlush
  PROVE  IssuedInv'
<1> USE DEF TypeOK, IssuedInv
<1> DEFINE S == objectCovered \cup UNION {Span(t) : t \in flush.batch}
<1>1. PICK n \in Seqs0 :
        IsPrefixEnd(n, tiered, S) /\ tiered' = n /\ objectCovered' = {s \in S : s > n}
  BY Zenon DEF ConfirmFlush
<1>2. \A s \in S : s < nextSeq
  <2>1. flush.batch \in SUBSET tickets
    BY DEF TicketInv
  <2>2. QED
    BY <2>1, CoveredIssued
<1>3. n < nextSeq
  <2>1. n \in Nat /\ tiered \in Nat /\ nextSeq \in Nat /\ tiered < nextSeq
    BY DEF GateTypes, MarkInv, Seqs0
  <2>2. QED
    BY <1>1, <1>2, <2>1, PrefixEndBound
<1>4. flush'.batch = {} /\ flush'.through = 0
  BY DEF ConfirmFlush, NoFlush
<1>5. TicketInv'
  BY <1>4, Zenon DEF ConfirmFlush, TicketInv, leaderVars
<1>6. MarkInv'
  <2>1. nextSeq' = nextSeq /\ acked' = acked
    BY Zenon DEF ConfirmFlush, leaderVars
  <2>2. \A s \in objectCovered' : s < nextSeq
    BY <1>1, <1>2
  <2>3. QED
    BY <1>1, <1>3, <1>4, <2>1, <2>2 DEF ConfirmFlush, MarkInv, GateTypes, dirVars, attemptVars
<1>7. QED
  BY <1>5, <1>6, IssuedKept DEF ConfirmFlush, shipVars, laneVars

\* A retired lane is empty.
LEMMA IssuedRetireLane ==
  ASSUME TypeOK, IssuedInv, NEW m \in Members, NEW w, RetireLane(m, w),
         UNCHANGED <<gateVars, leaderVars, coverVars, shipVars, dirVars, cellVars,
                     attemptVars, barrier>>
  PROVE  IssuedInv'
<1> USE DEF TypeOK, IssuedInv
<1>1. LaneInv'
  BY DEF RetireLane, LaneInv, LaneTypes, gateVars, shipVars
<1>2. QED
  BY <1>1, IssuedKept DEF gateVars, leaderVars, coverVars, shipVars, dirVars, attemptVars

LEMMA IssuedRetire ==
  ASSUME TypeOK, IssuedInv, NEW m \in Members, RetireMember(m) \/ RetireRecoveredMember(m)
  PROVE  IssuedInv'
<1>1. CASE RetireMember(m)
  BY <1>1, IssuedRetireLane DEF RetireMember
<1>2. CASE RetireRecoveredMember(m)
  BY <1>2, IssuedRetireLane DEF RetireRecoveredMember
<1>3. QED
  BY <1>1, <1>2

LEMMA IssuedAuthorize ==
  ASSUME TypeOK, IssuedInv, NEW q \in msgs, Authorize(q)
  PROVE  IssuedInv'
<1> USE DEF TypeOK, IssuedInv
<1>1. LaneInv'
  BY DEF Authorize, LaneInv, gateVars, laneVars
<1>2. QED
  BY <1>1, IssuedKept DEF Authorize, gateVars, leaderVars, coverVars, dirVars, attemptVars

\* A lane that keeps some of its records and takes some of a request's frames
\* holds issued frames.
LEMMA IssuedLane ==
  ASSUME TypeOK, IssuedInv, NEW q \in msgs, LaneOpen(q.to), NEW S,
         S \subseteq recs[q.to] \cup Span(q),
         recs' = [recs EXCEPT ![q.to] = S],
         msgs' = msgs \ {q}, authorized' = authorized \ {q},
         UNCHANGED <<nextSeq, retired>>
  PROVE  LaneInv'
<1> USE DEF TypeOK, IssuedInv
<1>1. q.to \in Members /\ q.last < nextSeq
  BY DEF ShipTypes, Requests, LaneInv
<1>2. \A s \in S : s < nextSeq
  BY <1>1 DEF LaneInv, Span, ShipTypes, Requests, GateTypes, Seqs
<1>3. retired[q.to] = NotRetired
  BY Zenon DEF LaneOpen
<1>4. QED
  BY <1>1, <1>2, <1>3 DEF LaneInv, LaneTypes

LEMMA IssuedAppendFrames ==
  ASSUME TypeOK, IssuedInv, NEW q \in msgs, NEW covered \in Seqs0, NEW k \in Seqs0,
         AppendFrames(q, covered, k)
  PROVE  IssuedInv'
<1> USE DEF TypeOK, IssuedInv
<1> DEFINE S == Pruned(q.to, k) \cup Fresh(q, Pruned(q.to, k), covered)
<1>1. LaneInv'
  <2>1. S \subseteq recs[q.to] \cup Span(q)
    BY DEF Pruned, Fresh
  <2>2. /\ LaneOpen(q.to) /\ recs' = [recs EXCEPT ![q.to] = S]
        /\ msgs' = msgs \ {q} /\ authorized' = authorized \ {q}
        /\ UNCHANGED <<nextSeq, retired>>
    BY DEF AppendFrames, gateVars
  <2>3. QED
    BY <2>1, <2>2, IssuedLane, Zenon
<1>2. RoundInv'
  <2>1. PICK first, durable : Answer(q, first, durable)
    BY DEF AppendFrames
  <2>2. \A m \in Members : good'[m] \subseteq good[m] \cup rounds
    <3>1. good \in [Members -> SUBSET Rounds] /\ Outstanding(q.to) \subseteq rounds
      BY DEF Outstanding, ShipTypes
    <3>2. \/ good' = good
          \/ good' = [good EXCEPT ![q.to] =
                         @ \cup {r \in Outstanding(q.to) : ReceiptCovers(r, first, durable)}]
      BY <2>1, Zenon DEF Answer
    <3>3. QED
      BY <3>1, <3>2
  <2>3. QED
    BY <2>2, Zenon DEF AppendFrames, RoundInv, gateVars
<1>3. QED
  BY <1>1, <1>2, IssuedKept DEF AppendFrames, gateVars, leaderVars, coverVars, dirVars,
     attemptVars

LEMMA IssuedAppendBreaks ==
  ASSUME TypeOK, IssuedInv, NEW q \in msgs, NEW covered \in Seqs0, NEW k \in Seqs0,
         NEW j \in Seqs0, AppendBreaks(q, covered, k, j)
  PROVE  IssuedInv'
<1> USE DEF TypeOK, IssuedInv
<1>1. PICK d \in Seqs0 : /\ d + 1 .. j \subseteq Fresh(q, Pruned(q.to, k), covered)
                         /\ recs' = [recs EXCEPT ![q.to] = Pruned(q.to, k) \cup (d + 1 .. j)]
  BY Zenon DEF AppendBreaks
<1>2. LaneInv'
  <2>1. Pruned(q.to, k) \cup (d + 1 .. j) \subseteq recs[q.to] \cup Span(q)
    BY <1>1 DEF Pruned, Fresh
  <2>2. /\ LaneOpen(q.to)
        /\ msgs' = msgs \ {q} /\ authorized' = authorized \ {q}
        /\ UNCHANGED <<nextSeq, retired>>
    BY DEF AppendBreaks, gateVars
  <2>3. QED
    BY <1>1, <2>1, <2>2, IssuedLane, Zenon
<1>3. QED
  BY <1>2, IssuedKept DEF AppendBreaks, gateVars, leaderVars, coverVars, dirVars, attemptVars

\* A new attempt has no witness.
LEMMA IssuedAttempt ==
  ASSUME TypeOK, IssuedInv, NEW c \in Claimants, Claim(c) \/ RetryRecovery(c)
  PROVE  IssuedInv'
<1> USE DEF TypeOK, IssuedInv
<1>1. witness' = [witness EXCEPT ![c] = 0]
  BY DEF Claim, RetryRecovery, StartAttempt
<1>2. \A d \in Claimants : witness'[d] < nextSeq
  BY <1>1 DEF MarkInv, AttemptTypes, GateTypes
<1>3. MarkInv'
  BY <1>2, Zenon DEF Claim, RetryRecovery, MarkInv, gateVars, leaderVars, coverVars, dirVars
<1>4. QED
  BY <1>3, IssuedKept, Zenon DEF Claim, RetryRecovery, gateVars, leaderVars, coverVars, shipVars,
     laneVars

LEMMA IssuedCollectWitness ==
  ASSUME TypeOK, IssuedInv, NEW c \in Claimants, NEW d \in Seqs0, CollectWitness(c, d)
  PROVE  IssuedInv'
<1> USE DEF TypeOK, IssuedInv
<1>1. d < nextSeq
  <2>1. IsWitness(c, d)
    BY Zenon DEF CollectWitness
  <2> DEFINE durables == {seals[c][m].durable : m \in Sealers(c)}
  <2>2. durables \subseteq Nat /\ dirTiered \in Nat
    <3>1. seals[c] \in [Members -> Receipts]
      BY Zenon DEF AttemptTypes
    <3>2. \A m \in Members : seals[c][m].durable \in Nat
      BY <3>1 DEF Receipts, Seqs0
    <3>3. QED
      BY <3>2 DEF Sealers, DirTypes, Seqs0
  <2>3. CASE \A x \in durables : x <= dirTiered
    BY <2>1, <2>3, Zenon DEF IsWitness, MarkInv
  <2>4. CASE ~(\A x \in durables : x <= dirTiered)
    <3>1. /\ IsMax(d, durables)
          /\ \E m \in Sealers(c) : dirTiered + 1 .. d \subseteq recs[m]
      BY <2>1, <2>4 DEF IsWitness
    <3>2. dirTiered < d
      BY <2>2, <2>4, <3>1 DEF IsMax
    <3>3. \E m \in Members : d \in recs[m]
      BY <2>2, <3>1, <3>2 DEF Sealers, Seqs0
    <3>4. QED
      BY <3>3, Zenon DEF LaneInv
  <2>5. QED
    BY <2>3, <2>4
<1>2. witness' = [witness EXCEPT ![c] = d]
  BY DEF CollectWitness
<1>3. \A b \in Claimants : witness'[b] < nextSeq
  BY <1>1, <1>2 DEF MarkInv, AttemptTypes
<1>4. MarkInv'
  BY <1>3, Zenon DEF CollectWitness, MarkInv, gateVars, leaderVars, coverVars, dirVars
<1>5. QED
  BY <1>4, IssuedKept, Zenon DEF CollectWitness, gateVars, leaderVars, coverVars, shipVars, laneVars

LEMMA IssuedSealRecovery ==
  ASSUME TypeOK, IssuedInv, NEW c \in Claimants, SealRecovery(c)
  PROVE  IssuedInv'
<1> USE DEF TypeOK, IssuedInv
<1>1. MarkInv'
  BY Zenon DEF SealRecovery, MarkInv, gateVars, leaderVars, coverVars, attemptVars
<1>2. QED
  BY <1>1, IssuedKept, Zenon DEF SealRecovery, gateVars, leaderVars, coverVars, shipVars, laneVars

\* The steps that leave every variable of the layer as it is.
LEMMA IssuedQuietLeader ==
  ASSUME IssuedInv,
         \/ \E m \in Members : RequestFails(m)
         \/ \E t \in tickets : StartActivation(t) \/ PublishRoot(t)
         \/ \E replied \in BOOLEAN : PersistActivation(replied)
         \/ ActivationFails \/ FinishActivation \/ LoseLease
         \/ BeginShutdown \/ DrainShipper \/ BeginRotation \/ CloseLog
  PROVE  IssuedInv'
<1> USE IssuedKept DEF IssuedInv, gateVars, leaderVars, coverVars, shipVars, laneVars,
        dirVars, attemptVars
<1>1. ASSUME NEW m \in Members, RequestFails(m) PROVE IssuedInv'
  BY <1>1, Zenon DEF RequestFails
<1>2. ASSUME NEW t \in tickets, StartActivation(t) \/ PublishRoot(t) PROVE IssuedInv'
  BY <1>2, Zenon DEF StartActivation, PublishRoot
<1>3. ASSUME NEW replied \in BOOLEAN, PersistActivation(replied) PROVE IssuedInv'
  BY <1>3, Zenon DEF PersistActivation
<1>4. ASSUME ActivationFails \/ FinishActivation \/ LoseLease PROVE IssuedInv'
  BY <1>4, Zenon DEF ActivationFails, FinishActivation, LoseLease
<1>5. ASSUME BeginShutdown \/ DrainShipper \/ BeginRotation \/ CloseLog PROVE IssuedInv'
  BY <1>5, Zenon DEF BeginShutdown, DrainShipper, BeginRotation, CloseLog
<1>6. QED
  BY <1>1, <1>2, <1>3, <1>4, <1>5

LEMMA IssuedQuietRecovery ==
  ASSUME IssuedInv,
         \/ \E m \in Members : DropGrant(m) \/ \E first \in Seqs : OpenGrant(m, first)
         \/ ExpireClaim \/ RetireRecoveredLog \/ \E x \in Cells : Takeover(x)
         \/ \E c \in Claimants, m \in Members :
               SealMember(c, m) \/ \E landed \in BOOLEAN : SealUnanswered(c, m, landed)
         \/ \E c \in Claimants :
               PlanRecovery(c) \/ \E x \in Cells : ReadControl(c, x) \/ AttachRecovery(c, x)
  PROVE  IssuedInv'
<1> USE IssuedKept DEF IssuedInv, gateVars, leaderVars, coverVars, shipVars, laneVars,
        dirVars, attemptVars
<1>1. ASSUME NEW m \in Members, DropGrant(m) \/ \E first \in Seqs : OpenGrant(m, first)
      PROVE  IssuedInv'
  BY <1>1, Zenon DEF DropGrant, OpenGrant
<1>2. ASSUME ExpireClaim \/ RetireRecoveredLog \/ \E x \in Cells : Takeover(x)
      PROVE  IssuedInv'
  BY <1>2, Zenon DEF ExpireClaim, RetireRecoveredLog, Takeover
<1>3. ASSUME NEW c \in Claimants, NEW m \in Members, SealMember(c, m) PROVE IssuedInv'
  BY <1>3, Zenon DEF SealMember, SealLane
<1>4. ASSUME NEW c \in Claimants, NEW m \in Members, NEW landed \in BOOLEAN,
             SealUnanswered(c, m, landed)
      PROVE  IssuedInv'
  BY <1>4, Zenon DEF SealUnanswered, SealLane
<1>5. ASSUME NEW c \in Claimants, PlanRecovery(c) PROVE IssuedInv'
  BY <1>5, Zenon DEF PlanRecovery
<1>6. ASSUME NEW c \in Claimants, NEW x \in Cells, ReadControl(c, x) \/ AttachRecovery(c, x)
      PROVE  IssuedInv'
  BY <1>6, Zenon DEF ReadControl, AttachRecovery
<1>7. QED
  BY <1>1, <1>2, <1>3, <1>4, <1>5, <1>6

\* Every step preserves the layer.
LEMMA IssuedStep ==
  ASSUME TypeOK, IssuedInv, [Next]_vars
  PROVE  IssuedInv'
<1>1. CASE LeaderNext
  BY <1>1, IssuedIssue, IssuedBatch, IssuedSend, IssuedCompleteRound, IssuedProve, IssuedStage,
     IssuedAdvanceCoverage, IssuedStartFlush, IssuedFlushFails, IssuedConfirmFlush,
     IssuedRetire, IssuedQuietLeader DEF LeaderNext
<1>2. CASE FollowerNext
  BY <1>2, IssuedAuthorize, IssuedAppendFrames, IssuedAppendBreaks, IssuedQuietRecovery
     DEF FollowerNext
<1>3. CASE RecoveryNext
  BY <1>3, IssuedAttempt, IssuedCollectWitness, IssuedSealRecovery, IssuedRetire,
     IssuedQuietRecovery DEF RecoveryNext
<1>4. CASE UNCHANGED vars
  BY <1>4, IssuedKept, Zenon DEF IssuedInv, vars, gateVars, leaderVars, coverVars, shipVars,
     laneVars, dirVars, attemptVars
<1>5. QED
  BY <1>1, <1>2, <1>3, <1>4, Zenon DEF Next
=============================================================================
