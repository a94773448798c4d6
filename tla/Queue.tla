------------------------------- MODULE Queue -------------------------------
(***************************************************************************)
(* One shard of a queue: producer-deduplicated sends, leased claims, dead  *)
(* letters and the administrative controls, with the maintenance Tick that *)
(* serves it and the computation of the Cell's next due time that decides  *)
(* when a Tick runs.                                                       *)
(*                                                                         *)
(* Every action is one transaction of the Cell at its logical time queueAt.*)
(* A producer names at most one message at a time (message_id is a hash of *)
(* the producer), so messages are indexed by producer.  A row that is sent *)
(* or redriven begins a life; the random token of a claim is the pair of   *)
(* its life and attempt, which no other claim has.  Dead letters travel by *)
(* the effect contract; the letter of a life is the effect it emitted.     *)
(***************************************************************************)
EXTENDS Integers, FiniteSets, FiniteSetsExt

CONSTANTS
    Producers, Consumers,
    QueueAttempts,     \* MAX_ATTEMPTS
    QueueLeaseMs,      \* lease of a claim, and of an extension
    QueueRetryMs,      \* delay of a retry
    QueueDelayMs,      \* MAX_AVAILABLE_DELAY_MS
    QueueRetention,    \* RETENTION_MS
    QueueMargin,       \* DELIVERY_MARGIN_MS
    LetterLife,        \* DEAD_LETTER_EFFECT_LIFETIME_MS
    QueueLives,        \* bound: lives of a message
    QueueHorizon       \* bound: logical time explored

ASSUME QueueAssumption ==
    /\ {QueueAttempts, QueueLeaseMs, QueueRetention, LetterLife, QueueLives} \subseteq Nat \ {0}
    /\ {QueueRetryMs, QueueDelayMs, QueueMargin, QueueHorizon} \subseteq Nat

VARIABLES
    queueAt,        \* logical time of the Cell
    message,        \* queue_messages
    dedup,          \* queue_dedup
    paused,         \* queue_control.paused
    target,         \* whether the module names a dead-letter queue
    lives,          \* lives each producer's message began
    letterPhase, letterVerdict,  \* the letters as effects
    letterSent,     \* their available_at_ms
    held,           \* claims the consumers hold
    letterbox,      \* the digests in queue_dedup of the dead-letter queue
    abandoned       \* letters whose message was purged

queueVars == <<queueAt, message, dedup, paused, target, lives, letterPhase, letterVerdict,
               letterSent, held, letterbox, abandoned>>

LetterIds == Producers \X (1 .. QueueLives)
Letters == INSTANCE EffectContract WITH Ids <- LetterIds, Verdicts <- {"Success", "Rejected"},
                                        phase <- letterPhase, verdict <- letterVerdict

NoToken == <<0, 0>>
NoMessage == [state |-> "None", attempt |-> 0, due |-> 0, expires |-> 0, token |-> NoToken,
              until |-> 0, letter |-> FALSE]
NoDedup == -1

QueueInit ==
    /\ queueAt = 0
    /\ message = [p \in Producers |-> NoMessage]
    /\ dedup = [p \in Producers |-> NoDedup]
    /\ paused = FALSE
    /\ target \in BOOLEAN
    /\ lives = [p \in Producers |-> 0]
    /\ Letters!ContractInit
    /\ letterSent = [l \in LetterIds |-> -1]
    /\ held = [c \in Consumers |-> {}]
    /\ letterbox = [p \in Producers |-> NoDedup]
    /\ abandoned = {}

QueueAdvance ==
    /\ queueAt < QueueHorizon /\ queueAt' = queueAt + 1
    /\ UNCHANGED <<message, dedup, paused, target, lives, letterPhase, letterVerdict, letterSent,
                   held, letterbox, abandoned>>

-----------------------------------------------------------------------------
(* Deaths and their letters. *)

LetterOf(p) == <<p, lives[p]>>
\* sys_effects still has a row of the letter in one of the given states.
LetterIn(p, phases) == message[p].letter /\ letterPhase[LetterOf(p)] \in phases

Died(row) == [row EXCEPT !.state = "Dead", !.token = NoToken, !.until = 0, !.letter = target]

\* QueueDeadLetterWriter::insert for every message that dies in this transaction, beside
\* what the transaction does to older letters.
Write(dead, failed, removed) ==
    LET written == IF target THEN {LetterOf(p) : p \in dead} ELSE {} IN
    /\ Letters!SourceStep(written, failed, removed)
    /\ letterSent' = [l \in LetterIds |-> IF l \in written THEN queueAt ELSE letterSent[l]]

NoLetters == UNCHANGED <<letterPhase, letterVerdict, letterSent>>

-----------------------------------------------------------------------------
(* Producers. *)

\* send_digest: the available time stands for the whole request.
Conflict(kept, digest) == kept # NoDedup /\ kept # digest

\* queue_send: a repeated send and a conflict change nothing, so the digest is not kept.
QueueSend(p) ==
    \E due \in queueAt .. queueAt + QueueDelayMs :
        /\ dedup[p] = NoDedup /\ lives[p] < QueueLives
        /\ queueAt + QueueRetention <= QueueHorizon
        /\ message[p] = NoMessage
        /\ message' = [message EXCEPT ![p] = [NoMessage EXCEPT !.state = "Ready", !.due = due,
                                                              !.expires = queueAt + QueueRetention]]
        /\ dedup' = [dedup EXCEPT ![p] = queueAt + QueueRetention]
        /\ lives' = [lives EXCEPT ![p] = @ + 1]
        /\ NoLetters
        /\ UNCHANGED <<queueAt, paused, target, held, letterbox, abandoned>>

-----------------------------------------------------------------------------
(* Consumers. *)

LeaseOver(row) == row.state = "Leased" /\ row.until <= queueAt
Spent(row) == row.attempt >= QueueAttempts \/ row.expires <= queueAt

\* queue_reclaim_expired_bounded.
QueueReclaimed(row) ==
    IF ~LeaseOver(row) THEN row
    ELSE IF Spent(row) THEN Died(row)
    ELSE [row EXCEPT !.state = "Ready", !.due = queueAt, !.token = NoToken, !.until = 0]

\* A lease ends with its message at the latest.
ClaimEnd(row) == Min({queueAt + QueueLeaseMs, row.expires})

\* queue_claim: expired leases are reclaimed, then a batch of the earliest ready messages is
\* leased.  The count and byte limits end the batch anywhere; its answer may be lost.
QueueClaim(c) ==
    LET swept == [p \in Producers |-> QueueReclaimed(message[p])]
        ready == {p \in Producers : /\ swept[p].state = "Ready" /\ swept[p].due <= queueAt
                                    /\ ~Spent(swept[p])}
        dead == {p \in Producers : swept[p].state = "Dead" /\ message[p].state # "Dead"}
        leased == [p \in Producers |->
                    [swept[p] EXCEPT !.state = "Leased", !.attempt = @ + 1,
                                     !.token = <<lives[p], swept[p].attempt + 1>>,
                                     !.until = ClaimEnd(swept[p])]]
    IN  \E batch \in SUBSET ready, heard \in BOOLEAN :
        /\ ~paused /\ held[c] = {}
        /\ batch = {} => ready = {}
        /\ \A p \in batch, q \in ready \ batch : swept[p].due <= swept[q].due
        /\ message' = [p \in Producers |-> IF p \in batch THEN leased[p] ELSE swept[p]]
        /\ held' = IF ~heard THEN held
                   ELSE [held EXCEPT ![c] = {[producer |-> p, token |-> leased[p].token,
                                              until |-> leased[p].until] : p \in batch}]
        /\ Write(dead, {}, {})
        /\ UNCHANGED <<queueAt, dedup, paused, target, lives, letterbox, abandoned>>

\* The exact token holds an unexpired lease.
Live(claim) ==
    LET row == message[claim.producer] IN
    row.state = "Leased" /\ row.token = claim.token /\ row.until > queueAt

\* Mutant: the lease is measured, whoever holds it.
ValidLease(claim) ==
    LET row == message[claim.producer] IN
    ~paused /\ row.state = "Leased" /\ row.until >= queueAt + QueueMargin
\* queue_validate_claim, asked before the payload is handed to its task.
Valid(claim) ==
    LET row == message[claim.producer] IN
    /\ ~paused /\ row.state = "Leased" /\ row.token = claim.token
    /\ row.until = claim.until /\ claim.until >= queueAt + QueueMargin

\* queue_apply_lease of a claim, which is lost unless it is live.  The consumer is done with
\* the claim, except after an extension.
QueueSettle(c, claim, row, kept) ==
    LET p == claim.producer IN
    /\ message' = IF Live(claim) THEN [message EXCEPT ![p] = row] ELSE message
    /\ Write(IF Live(claim) /\ row.state = "Dead" THEN {p} ELSE {}, {}, {})
    /\ held' = IF kept THEN held ELSE [held EXCEPT ![c] = @ \ {claim}]
    /\ UNCHANGED <<queueAt, dedup, paused, target, lives, letterbox, abandoned>>

QueueAck(c) ==
    \E claim \in held[c] :
        QueueSettle(c, claim, [message[claim.producer] EXCEPT !.state = "Acked", !.token = NoToken,
                                                         !.until = 0], FALSE)

QueueRetry(c) ==
    \E claim \in held[c], delay \in 0 .. QueueRetryMs :
        LET row == message[claim.producer]
            due == queueAt + delay
        IN  QueueSettle(c, claim,
                   IF row.attempt >= QueueAttempts \/ due >= row.expires THEN Died(row)
                   ELSE [row EXCEPT !.state = "Ready", !.due = due, !.token = NoToken, !.until = 0],
                   FALSE)

QueueExtend(c) ==
    \E claim \in held[c] :
        LET row == message[claim.producer]
        IN  QueueSettle(c, claim, [row EXCEPT !.until = Max({@, ClaimEnd(row)})], TRUE)

\* A consumer stops and forgets its claims.
ConsumerStops(c) ==
    /\ held[c] # {} /\ held' = [held EXCEPT ![c] = {}]
    /\ NoLetters
    /\ UNCHANGED <<queueAt, message, dedup, paused, target, lives, letterbox, abandoned>>

-----------------------------------------------------------------------------
(* Controls. *)

QueuePause ==
    /\ paused' = ~paused
    /\ NoLetters
    /\ UNCHANGED <<queueAt, message, dedup, target, lives, held, letterbox, abandoned>>

\* purge_queue deletes any message that is not leased, and its deduplication row.
QueuePurge ==
    \E gone \in SUBSET {p \in Producers : message[p].state \notin {"None", "Leased"}} :
        /\ gone # {}
        /\ message' = [p \in Producers |-> IF p \in gone THEN NoMessage ELSE message[p]]
        /\ dedup' = [p \in Producers |-> IF p \in gone THEN NoDedup ELSE dedup[p]]
        /\ abandoned' = abandoned \cup {LetterOf(p) : p \in {q \in gone : message[q].letter}}
        /\ NoLetters
        /\ UNCHANGED <<queueAt, paused, target, lives, held, letterbox>>

\* Mutant: a redrive does not wait for the letter.
RedrivableAny(p) == message[p].state = "Dead"
Redrivable(p) == message[p].state = "Dead" /\ ~LetterIn(p, {"Pending"})

\* redrive_queue.
QueueRedrive ==
    \E again \in SUBSET {p \in Producers : Redrivable(p)} :
        /\ again # {} /\ queueAt + QueueRetention <= QueueHorizon
        /\ \A p \in again : lives[p] < QueueLives
        /\ message' = [p \in Producers |->
                        IF p \in again THEN [NoMessage EXCEPT !.state = "Ready", !.due = queueAt,
                                                              !.expires = queueAt + QueueRetention]
                        ELSE message[p]]
        /\ lives' = [p \in Producers |-> IF p \in again THEN lives[p] + 1 ELSE lives[p]]
        /\ NoLetters
        /\ UNCHANGED <<queueAt, dedup, paused, target, held, letterbox, abandoned>>

-----------------------------------------------------------------------------
(* The letters' way. *)

\* The dead-letter queue handles a letter with its own queue_send.  The producer it sees is
\* derived from the source message and is the same for every letter of that message.
LetterLands(l) ==
    LET box == letterbox[l[1]]
        refused == Conflict(box, letterSent[l])
    IN  /\ Letters!Handle(l, IF refused THEN "Rejected" ELSE "Success")
        /\ letterbox' = IF box # NoDedup THEN letterbox
                        ELSE [letterbox EXCEPT ![l[1]] = letterSent[l]]
        /\ UNCHANGED <<queueAt, message, dedup, paused, target, lives, letterSent, held, abandoned>>

LetterAcknowledged(l) ==
    /\ Letters!Acknowledge(l)
    /\ UNCHANGED <<queueAt, message, dedup, paused, target, lives, letterSent, held, letterbox,
                   abandoned>>

\* Its attempts are used up.
LetterGivenUp(l) ==
    /\ Letters!SourceStep({}, {l}, {})
    /\ UNCHANGED <<queueAt, message, dedup, paused, target, lives, letterSent, held, letterbox,
                   abandoned>>

\* The dead-letter queue is done with the message and its retention, which began when the
\* letter landed or later, has passed.
LetterboxForgets(p) ==
    /\ letterbox[p] # NoDedup /\ letterbox[p] + QueueRetention <= queueAt
    /\ letterbox' = [letterbox EXCEPT ![p] = NoDedup]
    /\ NoLetters
    /\ UNCHANGED <<queueAt, message, dedup, paused, target, lives, held, abandoned>>

-----------------------------------------------------------------------------
(* The maintenance Tick, in the order of scheduler_tick_at. *)

LetterOver(l) == letterSent[l] + LetterLife <= queueAt
RemovedLetters == {l \in LetterIds : letterPhase[l] \in Letters!Settled /\ LetterOver(l)}
FailedLetters == {l \in LetterIds : letterPhase[l] = "Pending" /\ LetterOver(l)}

\* queue_cleanup_expired_bounded, after the effect classes of the same Tick.
Outlived(p) ==
    LET row == message[p]
        letter == LetterOf(p)
        open == letterPhase[letter] \in {"Pending", "Failed"} /\ letter \notin RemovedLetters
    IN  /\ row.expires <= queueAt
        /\ row.state = "Acked" \/ (row.state = "Dead" /\ (row.letter => ~open))

Forgotten(p) ==
    dedup[p] # NoDedup /\ dedup[p] <= queueAt /\ (message[p] = NoMessage \/ Outlived(p))

\* Mutant: a ready message waits for a claim.
QueueExpiredNever(row) == row
\* queue_expire_ready_bounded.
QueueExpired(row) == IF row.state = "Ready" /\ Spent(row) THEN Died(row) ELSE row

QueueTicked(p) == IF Outlived(p) THEN NoMessage ELSE QueueReclaimed(QueueExpired(message[p]))

QueueTick ==
    /\ message' = [p \in Producers |-> QueueTicked(p)]
    /\ dedup' = [p \in Producers |-> IF Forgotten(p) THEN NoDedup ELSE dedup[p]]
    /\ Write({p \in Producers : QueueTicked(p).state = "Dead" /\ message[p].state # "Dead"},
             FailedLetters, RemovedLetters)
    /\ UNCHANGED <<queueAt, paused, target, lives, held, letterbox, abandoned>>

\* Mutant: only retention wakes the Cell.
QueueDeadlinesExpiry ==
    {message[p].expires : p \in {q \in Producers : message[q] # NoMessage}}
\* What scheduler_next_due_with_schema takes the minimum of, except the retry times of letters,
\* which EffectContract does not have: a Tick for one of them alone changes nothing here.
QueueDeadlines ==
    {queueAt : p \in {q \in Producers : message[q].state = "Ready" /\ message[q].attempt >= QueueAttempts}}
    \cup {message[p].until : p \in {q \in Producers : message[q].state = "Leased"}}
    \cup {message[p].expires : p \in {q \in Producers : message[q] # NoMessage}}
    \cup {dedup[p] : p \in {q \in Producers : dedup[q] # NoDedup}}
    \cup {letterSent[l] + LetterLife :
            l \in {k \in LetterIds : letterPhase[k] \in {"Pending", "Delivered", "Failed"}}}

QueueDue == \E deadline \in QueueDeadlines : deadline <= queueAt
\* The scheduler runs a Tick of a Cell that is due.
QueueDueTick == QueueDue /\ QueueTick

\* A step in which the given consumers take part.
QueueStep(consumers) ==
    \/ QueueAdvance \/ QueuePause \/ QueuePurge \/ QueueRedrive \/ QueueDueTick
    \/ \E p \in Producers : QueueSend(p) \/ LetterboxForgets(p)
    \/ \E c \in consumers :
        QueueClaim(c) \/ QueueAck(c) \/ QueueRetry(c) \/ QueueExtend(c) \/ ConsumerStops(c)
    \/ \E l \in LetterIds : LetterLands(l) \/ LetterAcknowledged(l) \/ LetterGivenUp(l)

QueueNext == QueueStep(Consumers)

\* Time passes and the scheduler runs the Ticks that are due.
QueueFairness == WF_queueVars(QueueAdvance) /\ WF_queueVars(QueueDueTick)
QueueSpec == QueueInit /\ [][QueueNext]_queueVars /\ QueueFairness

-----------------------------------------------------------------------------
(* Properties. *)

\* Rows have the shapes the schema checks: a token and a deadline exactly while leased, a
\* letter only when dead (migrations/queue.sql).
QueueTypeOK ==
    /\ queueAt \in 0 .. QueueHorizon /\ paused \in BOOLEAN /\ target \in BOOLEAN
    /\ \A p \in Producers :
        LET row == message[p] IN
        /\ row.state \in {"None", "Ready", "Leased", "Acked", "Dead"}
        /\ row.attempt \in 0 .. QueueAttempts
        /\ (row.state = "Leased") <=> (row.token # NoToken)
        /\ row.until <= row.expires
        /\ row.letter => row.state = "Dead"
        /\ lives[p] \in 0 .. QueueLives
    /\ abandoned \subseteq LetterIds

\* While a dead letter is open its message is kept as it died, so that nothing is lost when
\* delivery fails and nothing is consumed twice by a redrive; only a purge breaks the tie.
\* And a message is never without its deduplication row, so a repeated send finds it and never
\* inserts beside it, also when a redrive prolonged its retention
\* (redrive_queue, queue_cleanup_expired_bounded).
MessageKeepsItsTies ==
    /\ \A p \in Producers, n \in 1 .. QueueLives :
        (letterPhase[<<p, n>>] = "Pending" /\ <<p, n>> \notin abandoned)
        => message[p].state = "Dead" /\ message[p].letter /\ lives[p] = n
    /\ \A p \in Producers : message[p] # NoMessage => dedup[p] # NoDedup

\* Of all claims of a message that consumers still hold, of its earlier lives too, at most one
\* passes validation (queue_validate_claim), and the rows keep their shapes.
OneValidClaim ==
    /\ QueueTypeOK
    /\ \A c, d \in Consumers : \A a \in held[c], b \in held[d] :
        (a.producer = b.producer /\ Valid(a) /\ Valid(b)) => c = d /\ a = b

\* A letter that its source counts as delivered was enqueued in the dead-letter queue.
DeliveredLetterArrives ==
    \A l \in LetterIds : letterPhase[l] = "Delivered" => letterVerdict[l] = "Success"

\* A live lease is ended only by a consumer that holds its very token (queue_apply_lease);
\* purge, reclaim and the claims of others leave it alone.
QueueLeaseEndsByHolder ==
    \A p \in Producers :
        (message[p].state = "Leased" /\ message[p].until > queueAt /\ message'[p] # message[p])
        => \E c \in Consumers : \E a \in held[c] : a.producer = p /\ a.token = message[p].token

\* The Cell's next due time never hides work: whenever a Tick would change something, the
\* scheduler finds the Cell due (scheduler_next_due_with_schema).
QueueWorkIsDue ==
    (\/ \E p \in Producers : QueueTicked(p) # message[p] \/ Forgotten(p)
     \/ FailedLetters \cup RemovedLetters # {})
    => QueueDue

\* Every message comes to its end, with every consumer stopped and the queue paused, because
\* the Cell falls due (queue_expire_ready, queue_reclaim_expired).
MessageSettles ==
    \A p \in Producers : message[p].state \in {"Ready", "Leased"} ~> message[p].state \notin {"Ready", "Leased"}

=============================================================================
