--------------------------- MODULE NodeLogCovered ---------------------------
(***************************************************************************)
(* The second layer of the node log's inductive invariant: what the gate,  *)
(* a flush or the directory counts as covered is published, what a member  *)
(* acknowledged is held by its lane, and what the leader acknowledged is   *)
(* published or held by every member of an active log.                     *)
(***************************************************************************)
EXTENDS NodeLog, TLAPS

USE MembersAssumption, CellsAssumption, BoundsAssumption

\* A part of the layer holds on when its variables do not change.
LEMMA CoveredKept ==
  /\ CoverageInv /\ UNCHANGED <<staged, flush, objectCovered, dirTiered, root, cellOf>>
     => CoverageInv'
  /\ FlushInv /\ UNCHANGED <<tiered, dirTiered, flush, objectCovered>> => FlushInv'
  /\ ActivationInv /\ UNCHANGED <<fleetActive, active, activation>> => ActivationInv'
  /\ CloseInv /\ UNCHANGED <<barrier, rotating, tiered, nextSeq, phase, dirTiered>>
     => CloseInv'
  /\ FleetNeedsActive /\ UNCHANGED <<acked, root, cellOf, active, through>>
     => FleetNeedsActive'
  /\ PermitInv /\ UNCHANGED <<authorized, dirTiered, grant>> => PermitInv'
  /\ LaneKeepsUncovered /\ UNCHANGED <<recs, dirTiered>> => LaneKeepsUncovered'
  /\ HeldInv /\ UNCHANGED <<phase, good, recs, dirTiered, through>> => HeldInv'
<1>1. CoverageInv /\ UNCHANGED <<staged, flush, objectCovered, dirTiered, root, cellOf>>
      => CoverageInv'
  BY DEF CoverageInv, Published
<1>2. FlushInv /\ UNCHANGED <<tiered, dirTiered, flush, objectCovered>> => FlushInv'
  BY DEF FlushInv
<1>3. ActivationInv /\ UNCHANGED <<fleetActive, active, activation>> => ActivationInv'
  BY DEF ActivationInv
<1>4. CloseInv /\ UNCHANGED <<barrier, rotating, tiered, nextSeq, phase, dirTiered>>
      => CloseInv'
  BY DEF CloseInv
<1>5. FleetNeedsActive /\ UNCHANGED <<acked, root, cellOf, active, through>>
      => FleetNeedsActive'
  BY DEF FleetNeedsActive, Published
<1>6. PermitInv /\ UNCHANGED <<authorized, dirTiered, grant>> => PermitInv'
  BY DEF PermitInv
<1>7. LaneKeepsUncovered /\ UNCHANGED <<recs, dirTiered>> => LaneKeepsUncovered'
  BY DEF LaneKeepsUncovered
<1>8. HeldInv /\ UNCHANGED <<phase, good, recs, dirTiered, through>> => HeldInv'
  BY DEF HeldInv, Held
<1>9. QED
  BY <1>1, <1>2, <1>3, <1>4, <1>5, <1>6, <1>7, <1>8

LEMMA InitCovered == Init => CoveredInv
<1> SUFFICES ASSUME Init PROVE CoveredInv
  OBVIOUS
<1>1. CoverageInv
  BY DEF Init, CoverageInv, NoFlush
<1>2. FlushInv
  BY DEF Init, FlushInv, NoFlush
<1>3. ActivationInv /\ CloseInv
  BY DEF Init, ActivationInv, CloseInv
<1>4. FleetNeedsActive /\ LaneKeepsUncovered
  BY DEF Init, FleetNeedsActive, LaneKeepsUncovered
<1>5. PermitInv
  BY DEF Init, PermitInv, NoGrant
<1>6. HeldInv
  BY DEF Init, HeldInv
<1>7. QED
  BY <1>1, <1>2, <1>3, <1>4, <1>5, <1>6 DEF CoveredInv

\* Issuing more frames does not change which issued frames are published.
LEMMA CoveredIssue ==
  ASSUME TypeOK, IssuedInv, CoveredInv, NEW c \in Cells, NEW n \in 1 .. MaxFrames, Issue(c, n)
  PROVE  CoveredInv'
<1> USE DEF CoveredInv
<1>1. ASSUME NEW s \in Seqs, s < nextSeq
      PROVE  Published(s)' <=> Published(s)
  BY <1>1 DEF Issue, Published, TypeOK, GateTypes, Seqs
<1>2. CoverageInv'
  <2>1. UNCHANGED <<staged, flush, objectCovered, dirTiered>>
    BY Zenon DEF Issue, coverVars, dirVars
  <2>2. \A t \in staged \cup flush.batch : Span(t) \subseteq {s \in Seqs : s < nextSeq}
    BY DEF IssuedInv, TicketInv, TypeOK, LeaderTypes, GateTypes, Tickets, Span, Seqs
  <2>3. objectCovered \subseteq {s \in Seqs : s < nextSeq}
    BY DEF IssuedInv, MarkInv, TypeOK, GateTypes
  <2>4. /\ 1 .. flush.through \subseteq {s \in Seqs : s < nextSeq}
        /\ 1 .. dirTiered \subseteq {s \in Seqs : s < nextSeq}
    BY DEF IssuedInv, MarkInv, TypeOK, GateTypes, CoverTypes, DirTypes, Flushes, Seqs, Seqs0
  <2>5. QED
    BY <1>1, <2>1, <2>2, <2>3, <2>4 DEF CoverageInv
<1>3. FleetNeedsActive'
  <2>1. acked \subseteq {s \in Seqs : s < nextSeq}
    BY DEF IssuedInv, MarkInv, TypeOK, LeaderTypes
  <2>2. UNCHANGED <<acked, active, through>>
    BY Zenon DEF Issue, dirVars
  <2>3. QED
    BY <1>1, <2>1, <2>2 DEF FleetNeedsActive
<1>4. CloseInv'
  BY DEF Issue, CloseInv, dirVars
<1>5. QED
  BY <1>2, <1>3, <1>4, CoveredKept, Zenon DEF Issue, coverVars, shipVars, laneVars, dirVars

\* A completed round is held by every member.
LEMMA CoveredCompleteRound ==
  ASSUME TypeOK, IssuedInv, CoveredInv, NEW r \in rounds, CompleteRound(r)
  PROVE  CoveredInv'
<1> USE DEF CoveredInv
<1>1. \/ /\ fleetActive' = FALSE /\ rotating' = TRUE
         /\ through' = through
      \/ /\ fleetActive' = fleetActive /\ rotating' = rotating
         /\ through' = [m \in Members |-> r.last]
         /\ \A m \in Members : r \in good[m]
  BY DEF CompleteRound, StopShipping
<1>2. r.first = completed + 1 /\ r.first <= r.last
  BY DEF CompleteRound, IssuedInv, RoundInv
<1>3. UNCHANGED <<activation, active, barrier, tiered, nextSeq, phase, dirTiered, good, recs,
                  acked, root, cellOf>>
  BY DEF CompleteRound, coverVars, dirVars, leaderVars, laneVars
<1>4. ActivationInv' /\ CloseInv'
  <2>1. (fleetActive' => fleetActive) /\ (rotating => rotating')
    BY <1>1
  <2>2. QED
    BY <1>3, <2>1, Zenon DEF ActivationInv, CloseInv
<1>5. r.last \in Nat /\ r.first \in Nat /\ completed \in Nat
  BY DEF TypeOK, ShipTypes, Rounds, Seqs, Seqs0
<1>6. HeldInv'
  <2> SUFFICES ASSUME phase' \notin {"Sealed", "Retired"}, NEW m \in Members
               PROVE  /\ \A g \in good[m] : \A s \in Span(g) : Held(m, s)
                      /\ \A s \in 1 .. through'[m] : Held(m, s)
    BY <1>3 DEF HeldInv, Held
  <2>1. \A g \in good[m] : \A s \in Span(g) : Held(m, s)
    BY <1>3 DEF HeldInv
  <2>2. \A s \in 1 .. through[m] : Held(m, s)
    BY <1>3 DEF HeldInv
  <2>3. through[m] = completed
    BY DEF IssuedInv, RoundInv
  <2>4. CASE through' = through
    BY <2>1, <2>2, <2>4
  <2>5. CASE r \in good[m] /\ through' = [k \in Members |-> r.last]
    BY <1>2, <1>5, <2>1, <2>2, <2>3, <2>5 DEF Span
  <2>6. QED
    BY <1>1, <2>4, <2>5
<1>7. FleetNeedsActive'
  <2>1. \A m \in Members : through[m] = completed
    BY DEF IssuedInv, RoundInv
  <2>2. \A m \in Members : through'[m] = through[m] \/ through'[m] = r.last
    BY <1>1
  <2>3. \A m \in Members, s \in Nat : s <= through[m] => s <= through'[m]
    BY <1>2, <1>5, <2>1, <2>2
  <2>4. acked \subseteq Nat
    BY DEF TypeOK, LeaderTypes, Seqs
  <2>5. QED
    BY <1>3, <2>3, <2>4 DEF FleetNeedsActive, Published
<1>8. QED
  BY <1>4, <1>6, <1>7, CoveredKept, Zenon DEF CompleteRound, leaderVars, coverVars, laneVars,
     dirVars

\* The gate is activated only after the directory record is.
LEMMA CoveredActivation ==
  ASSUME TypeOK, CoveredInv,
         \/ \E t \in tickets : StartActivation(t)
         \/ \E replied \in BOOLEAN : PersistActivation(replied)
         \/ ActivationFails
         \/ FinishActivation
  PROVE  CoveredInv'
<1> USE DEF CoveredInv
<1>1. CASE \E t \in tickets : StartActivation(t)
  <2>1. ActivationInv'
    BY <1>1 DEF StartActivation, ActivationInv, gateVars, dirVars
  <2>2. QED
    BY <1>1, <2>1, CoveredKept, Zenon DEF StartActivation, gateVars, leaderVars, shipVars,
       laneVars, dirVars
<1>2. CASE \E replied \in BOOLEAN : PersistActivation(replied)
  <2>1. active' /\ UNCHANGED <<acked, root, cellOf, through>>
    BY <1>2, Zenon DEF PersistActivation, gateVars, leaderVars
  <2>2. ActivationInv'
    BY <2>1, Zenon DEF ActivationInv
  <2>3. FleetNeedsActive'
    BY <2>1, Zenon DEF FleetNeedsActive, Published
  <2>4. QED
    BY <1>2, <2>2, <2>3, CoveredKept, Zenon DEF PersistActivation, gateVars, leaderVars,
       shipVars, laneVars
<1>3. CASE ActivationFails
  <2>1. ActivationInv'
    BY <1>3 DEF ActivationFails, ActivationInv, gateVars, dirVars
  <2>2. QED
    BY <1>3, <2>1, CoveredKept, Zenon DEF ActivationFails, gateVars, leaderVars, shipVars,
       laneVars, dirVars
<1>4. CASE FinishActivation
  <2>1. active /\ UNCHANGED active
    BY <1>4 DEF FinishActivation, ActivationInv, dirVars
  <2>2. ActivationInv'
    BY <2>1, Zenon DEF ActivationInv
  <2>3. QED
    BY <1>4, <2>2, CoveredKept, Zenon DEF FinishActivation, leaderVars, shipVars, laneVars,
       dirVars
<1>5. QED
  BY <1>1, <1>2, <1>3, <1>4

\* What objects cover is published.
LEMMA CoveredPublished ==
  ASSUME TypeOK, CoveredInv, NEW t \in tickets, ObjectCovers(t)
  PROVE  \A s \in Span(t) : Published(s)
<1> SUFFICES ASSUME NEW s \in Span(t) PROVE Published(s)
  OBVIOUS
<1>1. s \in objectCovered => Published(s)
  BY DEF CoveredInv, CoverageInv
<1>2. s \in Nat \ {0} /\ tiered \in Nat /\ dirTiered \in Nat
  BY DEF TypeOK, LeaderTypes, GateTypes, DirTypes, Tickets, Span, Seqs, Seqs0
<1>3. s <= tiered => s \in 1 .. dirTiered
  BY <1>2 DEF CoveredInv, FlushInv
<1>4. QED
  BY <1>1, <1>3 DEF ObjectCovers, CoveredInv, CoverageInv

\* An acknowledgement rests on published roots, or on every member of an
\* active log.
LEMMA CoveredAck ==
  ASSUME TypeOK, CoveredInv, NEW t \in tickets, Prove(t) \/ ProvePublished(t)
  PROVE  CoveredInv'
<1> USE DEF CoveredInv
<1>1. UNCHANGED <<gateVars, cellOf, root, coverVars, shipVars, laneVars, dirVars, barrier>>
  BY Zenon DEF Prove, ProvePublished
<1>2. acked' = acked \cup Span(t)
  BY DEF Prove, ProvePublished
<1>3. \A s \in Span(t) : Published(s) \/ (active /\ \A m \in Members : s <= through[m])
  <2>1. CASE ProvePublished(t)
    BY <2>1, Zenon DEF ProvePublished
  <2>2. CASE Prove(t) /\ ObjectCovers(t)
    BY <2>2, CoveredPublished, Zenon
  <2>3. CASE Prove(t) /\ fleetActive /\ FollowersCover(t)
    <3>1. active
      BY <2>3, Zenon DEF ActivationInv
    <3>2. \A s \in Span(t), m \in Members : s <= through[m]
      BY <2>3 DEF FollowersCover, Span, TypeOK, LeaderTypes, Tickets, GateTypes, Seqs, Seqs0
    <3>3. QED
      BY <3>1, <3>2, Zenon
  <2>4. QED
    BY <2>1, <2>2, <2>3, Zenon DEF Prove, ProofHolds
<1>4. FleetNeedsActive'
  BY <1>1, <1>2, <1>3, Zenon DEF FleetNeedsActive, Published, gateVars, dirVars
<1>5. QED
  BY <1>1, <1>4, CoveredKept, Zenon DEF gateVars, coverVars, shipVars, laneVars, dirVars

\* A root only advances, so what was published stays published.
LEMMA RootGrows ==
  ASSUME TypeOK, IssuedInv, NEW t \in tickets, PublishRoot(t)
  PROVE  \A s \in Nat : s < nextSeq /\ s > 0 /\ Published(s) => Published(s)'
<1>1. t.first \in 1 .. nextSeq - 1 /\ t.last \in Nat
  BY DEF IssuedInv, TicketInv, TypeOK, LeaderTypes, GateTypes, Tickets, Seqs
<1>2. cellOf[t.first] \in Cells
  BY <1>1 DEF TypeOK, LeaderTypes
<1>3. \A c \in Cells : root[c] \in Nat /\ root'[c] \in Nat /\ root[c] <= root'[c]
  BY <1>1, <1>2 DEF PublishRoot, TypeOK, LeaderTypes, Seqs0
<1>4. \A s \in 1 .. nextSeq - 1 : cellOf[s] \in Cells /\ cellOf'[s] = cellOf[s]
  BY DEF PublishRoot, TypeOK, LeaderTypes
<1>5. QED
  BY <1>3, <1>4 DEF Published, TypeOK, GateTypes

LEMMA CoveredPublishRoot ==
  ASSUME TypeOK, IssuedInv, CoveredInv, NEW t \in tickets, PublishRoot(t)
  PROVE  CoveredInv'
<1> USE DEF CoveredInv
<1>1. UNCHANGED <<gateVars, acked, coverVars, shipVars, laneVars, dirVars, barrier>>
  BY Zenon DEF PublishRoot
<1>2. FleetNeedsActive'
  <2>1. \A s \in acked : s \in Nat /\ s < nextSeq /\ s > 0
    BY DEF IssuedInv, MarkInv, TypeOK, LeaderTypes, Seqs
  <2>2. QED
    BY <1>1, <2>1, RootGrows, Zenon DEF FleetNeedsActive, gateVars, dirVars
<1>3. CoverageInv'
  <2>1. \A u \in staged \cup flush.batch : \A s \in Span(u) : s \in Nat /\ s < nextSeq /\ s > 0
    BY DEF IssuedInv, TicketInv, TypeOK, LeaderTypes, GateTypes, Tickets, Span, Seqs
  <2>2. \A s \in objectCovered : s \in Nat /\ s < nextSeq /\ s > 0
    BY DEF IssuedInv, MarkInv, TypeOK, GateTypes, Seqs
  <2>3. \A s \in 1 .. flush.through : s \in Nat /\ s < nextSeq /\ s > 0
    BY DEF IssuedInv, MarkInv, TypeOK, GateTypes, CoverTypes, Flushes, Seqs0
  <2>4. \A s \in 1 .. dirTiered : s \in Nat /\ s < nextSeq /\ s > 0
    BY DEF IssuedInv, MarkInv, TypeOK, GateTypes, DirTypes, Seqs0
  <2>5. QED
    BY <1>1, <2>1, <2>2, <2>3, <2>4, RootGrows, Zenon DEF CoverageInv, coverVars, gateVars,
       dirVars
<1>4. QED
  BY <1>1, <1>2, <1>3, CoveredKept, Zenon DEF gateVars, coverVars, shipVars, laneVars, dirVars

LEMMA CoveredStage ==
  ASSUME TypeOK, CoveredInv, NEW t \in tickets, Stage(t)
  PROVE  CoveredInv'
<1> USE DEF CoveredInv
<1>1. CoverageInv'
  BY Zenon DEF Stage, CoverageInv, Published, gateVars, leaderVars, dirVars
<1>2. QED
  BY <1>1, CoveredKept, Zenon DEF Stage, gateVars, leaderVars, shipVars, laneVars, dirVars

\* The end of a run of covered sequences is unique.
LEMMA PrefixEndUnique ==
  ASSUME NEW S, NEW t \in Seqs0, NEW a, NEW b, IsPrefixEnd(a, t, S), IsPrefixEnd(b, t, S)
  PROVE  a = b
BY DEF IsPrefixEnd, Seqs0

\* The prefix that a flush reaches from published frames is published.
LEMMA PrefixPublished ==
  ASSUME TypeOK, CoveredInv, NEW B \in SUBSET Tickets, NEW n,
         IsPrefixEnd(n, tiered, objectCovered \cup UNION {Span(t) : t \in B}),
         \A t \in B : \A s \in Span(t) : Published(s)
  PROVE  n \in Nat /\ tiered <= n /\ \A s \in 1 .. n : Published(s)
<1>1. tiered \in Nat /\ dirTiered \in Nat /\ tiered <= dirTiered
  BY DEF TypeOK, GateTypes, DirTypes, Seqs0, CoveredInv, FlushInv
<1>2. n \in Nat /\ tiered <= n
  BY <1>1 DEF IsPrefixEnd
<1>3. ASSUME NEW s \in 1 .. n PROVE Published(s)
  <2>1. CASE s <= tiered
    BY <1>1, <2>1 DEF CoveredInv, CoverageInv
  <2>2. CASE s \in objectCovered \cup UNION {Span(t) : t \in B}
    BY <2>2, Zenon DEF CoveredInv, CoverageInv
  <2>3. QED
    BY <1>1, <1>2, <2>1, <2>2 DEF IsPrefixEnd
<1>4. QED
  BY <1>2, <1>3

LEMMA CoveredStartFlush ==
  ASSUME TypeOK, CoveredInv, StartFlush
  PROVE  CoveredInv'
<1> USE DEF CoveredInv
<1>1. PICK n \in Seqs0 :
        /\ IsPrefixEnd(n, tiered, objectCovered \cup UNION {Span(t) : t \in staged})
        /\ flush' = [stage |-> IF n > tiered THEN "advancing" ELSE "confirming",
                     batch |-> staged, through |-> n]
  BY Zenon DEF StartFlush
<1>2. \A t \in staged : \A s \in Span(t) : Published(s)
  BY DEF CoverageInv
<1>3. n \in Nat /\ tiered <= n /\ \A s \in 1 .. n : Published(s)
  BY <1>1, <1>2, PrefixPublished DEF TypeOK, CoverTypes
<1>4. UNCHANGED <<gateVars, leaderVars, staged, activation, shipVars, laneVars, dirVars, barrier>>
  BY Zenon DEF StartFlush
<1>5. CoverageInv'
  <2>1. flush'.batch = staged /\ flush'.through = n
    BY <1>1
  <2>2. QED
    BY <1>2, <1>3, <1>4, <2>1, Zenon DEF CoverageInv, Published, gateVars, leaderVars, dirVars
<1>6. FlushInv'
  <2>1. tiered' = tiered /\ dirTiered' = dirTiered /\ objectCovered' = objectCovered
    BY <1>4 DEF gateVars, dirVars
  <2>2. IsPrefixEnd(n, tiered, objectCovered \cup UNION {Span(t) : t \in flush'.batch})
    BY <1>1
  <2>3. flush'.stage = "confirming" => n = tiered
    BY <1>1, <1>3 DEF TypeOK, GateTypes, Seqs0
  <2>4. flush'.through = n
    BY <1>1
  <2>5. QED
    BY <2>1, <2>2, <2>3, <2>4 DEF FlushInv
<1>7. QED
  BY <1>4, <1>5, <1>6, CoveredKept, Zenon DEF gateVars, leaderVars, shipVars, laneVars, dirVars

\* The directory's frontier moves to a published prefix.  It never moves back,
\* so no permit and no lane is invalidated.
LEMMA CoveredAdvanceCoverage ==
  ASSUME TypeOK, TypeOK', IssuedInv, CoveredInv, NEW replied \in BOOLEAN, AdvanceCoverage(replied)
  PROVE  CoveredInv'
<1> USE DEF CoveredInv
<1>1. UNCHANGED <<gateVars, leaderVars, staged, activation, shipVars, laneVars, phase, active,
                  barrier>>
  BY Zenon DEF AdvanceCoverage
<1>2. /\ dirTiered \in Nat /\ dirTiered' \in Nat /\ flush.through \in Nat
      /\ dirTiered <= dirTiered' /\ flush.through <= dirTiered'
      /\ dirTiered' \in {dirTiered, flush.through}
  BY DEF AdvanceCoverage, TypeOK, DirTypes, CoverTypes, Flushes, Seqs0
<1>3. flush'.stage \in {"idle", "confirming"} /\ flush.stage # "idle"
  BY DEF AdvanceCoverage, NoFlush, TypeOK, CoverTypes, Flushes
<1>4. flush'.stage = "confirming" => flush'.batch = flush.batch /\ flush'.through = flush.through
  BY DEF AdvanceCoverage, NoFlush, TypeOK, CoverTypes, Flushes
<1>5. flush'.batch \subseteq flush.batch /\ flush'.through \in {0, flush.through}
  BY DEF AdvanceCoverage, NoFlush, TypeOK, CoverTypes, Flushes
<1>6. CoverageInv'
  <2>1. /\ 1 .. flush'.through \subseteq 1 .. flush.through
        /\ 1 .. dirTiered' \subseteq (1 .. dirTiered) \cup (1 .. flush.through)
    BY <1>2, <1>5
  <2>2. QED
    BY <1>1, <1>5, <2>1, Zenon DEF CoverageInv, Published, gateVars, leaderVars
<1>7. FlushInv'
  <2>1. tiered' = tiered /\ objectCovered' = objectCovered /\ tiered \in Nat
    BY <1>1 DEF gateVars, TypeOK, GateTypes, Seqs0
  <2>2. tiered' <= dirTiered'
    BY <1>2, <2>1 DEF FlushInv
  <2>3. QED
    BY <1>2, <1>3, <1>4, <2>1, <2>2 DEF FlushInv
<1>8. CloseInv'
  BY <1>1 DEF AdvanceCoverage, CloseInv, gateVars
<1>9. PermitInv'
  <2>1. /\ \A q \in authorized : q.covered \in Nat
        /\ \A m \in Members : grant[m].covered \in Nat
    BY DEF TypeOK, ShipTypes, LaneTypes, Requests, Grants, Seqs0
  <2>2. QED
    BY <1>1, <1>2, <2>1 DEF PermitInv, shipVars, laneVars
<1>10. LaneKeepsUncovered'
  BY <1>1, <1>2 DEF LaneKeepsUncovered, laneVars, Seqs
<1>11. HeldInv'
  <2>1. \A m \in Members, s \in Nat : Held(m, s) => Held(m, s)'
    BY <1>1, <1>2 DEF Held, laneVars
  <2>2. \A m \in Members : good[m] \in SUBSET Rounds /\ through[m] \in Nat
    BY DEF TypeOK, ShipTypes, GateTypes, Seqs0
  <2>3. \A r \in Rounds : Span(r) \subseteq Nat
    BY DEF Rounds, Span, Seqs
  <2>4. \A m \in Members : 1 .. through[m] \subseteq Nat
    BY <2>2
  <2>5. QED
    BY <1>1, <2>1, <2>2, <2>3, <2>4, Zenon DEF HeldInv, shipVars, gateVars
<1>12. QED
  BY <1>1, <1>6, <1>7, <1>8, <1>9, <1>10, <1>11, CoveredKept, Zenon DEF gateVars, leaderVars,
     shipVars, laneVars

LEMMA CoveredFlushFails ==
  ASSUME TypeOK, CoveredInv, FlushFails
  PROVE  CoveredInv'
<1> USE DEF CoveredInv
<1>1. flush'.batch = {} /\ 1 .. flush'.through = {} /\ flush'.stage = "idle"
  BY DEF FlushFails, NoFlush
<1>2. CoverageInv' /\ FlushInv'
  BY <1>1, Zenon DEF FlushFails, CoverageInv, FlushInv, Published, gateVars, leaderVars, dirVars
<1>3. QED
  BY <1>2, CoveredKept, Zenon DEF FlushFails, gateVars, leaderVars, shipVars, laneVars, dirVars

\* The confirmed prefix is the one the directory already names.
LEMMA CoveredConfirmFlush ==
  ASSUME TypeOK, IssuedInv, CoveredInv, ConfirmFlush
  PROVE  CoveredInv'
<1> USE DEF CoveredInv
<1> DEFINE covered == objectCovered \cup UNION {Span(t) : t \in flush.batch}
<1>1. PICK n \in Seqs0 : /\ IsPrefixEnd(n, tiered, covered)
                         /\ tiered' = n
                         /\ objectCovered' = {s \in covered : s > n}
  BY Zenon DEF ConfirmFlush
<1>2. flush.stage = "confirming"
  BY DEF ConfirmFlush
<1>3. n = flush.through
  BY <1>1, <1>2, PrefixEndUnique DEF FlushInv, TypeOK, GateTypes
<1>4. flush'.batch = {} /\ 1 .. flush'.through = {} /\ flush'.stage = "idle"
  BY DEF ConfirmFlush, NoFlush
<1>5. UNCHANGED <<nextSeq, through, fleetActive, rotating, leaderVars, activation, shipVars,
                  laneVars, dirVars, barrier>> /\ staged' \subseteq staged
  BY Zenon DEF ConfirmFlush
<1>6. CoverageInv'
  BY <1>1, <1>4, <1>5, Zenon DEF CoverageInv, Published, leaderVars, dirVars
<1>7. FlushInv'
  BY <1>1, <1>2, <1>3, <1>4, <1>5 DEF FlushInv, dirVars
<1>8. CloseInv'
  <2>1. barrier => n = tiered
    BY <1>1, <1>3 DEF CloseInv, IsPrefixEnd, IssuedInv, MarkInv, TypeOK, GateTypes
  <2>2. QED
    BY <1>1, <1>5, <2>1, Zenon DEF CloseInv, dirVars
<1>9. QED
  BY <1>5, <1>6, <1>7, <1>8, CoveredKept, Zenon DEF leaderVars, shipVars, laneVars, dirVars
=============================================================================
