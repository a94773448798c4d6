----------------------------- MODULE MCNodeLog -----------------------------
(***************************************************************************)
(* Model-checking instances of NodeLog: next-state relations that leave    *)
(* out the actions with no part in the question asked.                     *)
(***************************************************************************)
EXTENDS NodeLog, TLC

Symmetry == Permutations(Members) \cup Permutations(Claimants) \cup Permutations(Cells)

\* The leader alone: no recovery, and every step of the leader, the network and
\* the followers is eventually taken.  A request that gets no answer times out.
LiveNext ==
    \/ \E c \in Cells, n \in 1 .. MaxFrames : Issue(c, n)
    \/ \E last \in Seqs : Batch(last)
    \/ \E m \in Members, last \in Seqs : Send(m, last)
    \/ \E m \in Members : RequestFails(m)
    \/ \E r \in rounds : CompleteRound(r)
    \/ \E t \in tickets : StartActivation(t) \/ Prove(t)
    \/ PersistActivation(TRUE)
    \/ FinishActivation
    \/ LoseLease
    \/ \E q \in msgs : Authorize(q)
    \/ \E q \in msgs : AppendFrames(q, 0, 0)
    \/ \E q \in msgs, j \in Seqs0 : AppendBreaks(q, 0, 0, j)
LiveSpec ==
    /\ Init /\ [][LiveNext]_vars
    /\ WF_vars(\E last \in Seqs : Batch(last))
    /\ \A m \in Members : WF_vars(\E last \in Seqs : Send(m, last))
    /\ \A m \in Members : WF_vars(RequestFails(m))
    /\ WF_vars(\E r \in rounds : CompleteRound(r))
    /\ WF_vars(\E t \in tickets : StartActivation(t))
    /\ WF_vars(PersistActivation(TRUE))
    /\ WF_vars(FinishActivation)
    /\ WF_vars(\E t \in tickets : Prove(t))

\* Every captured frame is acknowledged in the end, unless the lease or the
\* shipping ended first: no round waits for a slot, a member or a predecessor
\* that never comes (run_rounds, run_member).
EveryCaptureSettles ==
    \A s \in Seqs : (s < nextSeq) ~> (s \in acked \/ ~lease \/ rotating)

\* Published roots, coverage flushes that lose their reply, grants and pruning,
\* against one recovery.
CoverNext ==
    \/ \E c \in Cells, n \in 1 .. MaxFrames : Issue(c, n)
    \/ \E last \in Seqs : Batch(last)
    \/ \E m \in Members, last \in Seqs : Send(m, last)
    \/ \E r \in rounds : CompleteRound(r)
    \/ \E t \in tickets : StartActivation(t) \/ Prove(t) \/ PublishRoot(t) \/ Stage(t)
    \/ PersistActivation(TRUE)
    \/ FinishActivation
    \/ StartFlush \/ FlushFails \/ ConfirmFlush
    \/ \E replied \in BOOLEAN : AdvanceCoverage(replied)
    \/ \E m \in Members, first \in Seqs : OpenGrant(m, first)
    \/ \E q \in msgs, covered \in Seqs0, k \in Seqs0 :
          AppendFrames(q, covered, k) \/ AppendBreaks(q, covered, k, 0)
    \/ \E c \in Claimants :
          \/ Claim(c)
          \/ \E m \in Members : SealMember(c, m) \/ SealUnanswered(c, m, FALSE)
          \/ \E d \in Seqs0 : CollectWitness(c, d)
          \/ PlanRecovery(c) \/ SealRecovery(c)
          \/ \E x \in Cells : AttachRecovery(c, x)

\* Two workers recover the same log: claims expire, attempts restart, an
\* overtaken worker goes on attaching, and the old leader still publishes.
RecoverNext ==
    \/ \E c \in Cells, n \in 1 .. MaxFrames : Issue(c, n)
    \/ \E last \in Seqs : Batch(last)
    \/ \E m \in Members, last \in Seqs : Send(m, last)
    \/ \E r \in rounds : CompleteRound(r)
    \/ \E t \in tickets : StartActivation(t) \/ Prove(t) \/ PublishRoot(t)
    \/ PersistActivation(TRUE)
    \/ FinishActivation
    \/ \E q \in msgs : Authorize(q)
    \/ \E q \in msgs : AppendFrames(q, 0, 0)
    \/ ExpireClaim
    \/ \E c \in Claimants :
          \/ Claim(c)
          \/ \E m \in Members : SealMember(c, m) \/ SealUnanswered(c, m, FALSE)
          \/ \E d \in Seqs0 : CollectWitness(c, d)
          \/ \E x \in Cells : AttachRecovery(c, x)
          \/ PlanRecovery(c) \/ RetryRecovery(c) \/ SealRecovery(c)
=============================================================================
