---------------------------- MODULE ReceiptAnalysis ----------------------------
(***************************************************************************)
(* apps/api: a receipt from upload to claim.  The upload stores the row    *)
(* and hands a message to the receipt-analysis queue; the consumer         *)
(* (queues/receipt-analysis.ts) reads the row, calls a vision model for    *)
(* seconds and writes a verdict; the sweeper (lib/receipt-sweeper.ts)      *)
(* re-queues what is late and settles what is past saving; the owner       *)
(* claims what the verdict is worth (routes/client/point.ts).              *)
(*                                                                         *)
(* Each step is one database statement, or one transaction that no other   *)
(* statement can be told to fall inside of; the database is at READ        *)
(* COMMITTED.  The queue delivers at least once, in any order, may lose a  *)
(* message that waits too long and gives a failed one a bounded number of  *)
(* deliveries.  A delivery may be killed at any step.                      *)
(*                                                                         *)
(* Time is kept relative, as ages that saturate, so nothing is unbounded.  *)
(* Whether an upload is past the weekly limit is left open; the two reads  *)
(* that open a delivery and the analysisStartedAt it writes are one step,  *)
(* since nothing they read is written by another actor in between and then *)
(* used.                                                                   *)
(***************************************************************************)
EXTENDS Integers, FiniteSets, FiniteSetsExt

CONSTANTS
    Receipt,                \* receipt ids
    Wallet,                 \* addresses that upload
    Worker,                 \* consumer invocations that may run at once
    Purchase,               \* purchase times a photo may show
    NoDate,                 \* issuedAt null
    NoOne,                  \* no owner yet, or no receipt in hand
    QualityPoints,          \* what a good receipt may be worth
    REJECTED_RECEIPT_POINT,
    MAX_RETRIES,            \* max_retries of the queue in wrangler.jsonc
    MAX_DELIVERY_ATTEMPTS,  \* what the consumer takes the deliveries to be
    STALE,                  \* STALE_AFTER_MINUTES, in ticks
    ABANDON,                \* ABANDON_AFTER_DAYS, in ticks
    ABANDON_BATCH,
    REQUEUE_BATCH,
    MaxMessages             \* bound of this model: messages waiting or in delivery

POINT_INELIGIBLE == -1

ASSUME ReceiptAssumption ==
    /\ IsFiniteSet(Receipt) /\ NoOne \notin Receipt \cup Wallet /\ NoDate \notin Purchase
ASSUME PointAssumption == QualityPoints \subseteq Nat /\ REJECTED_RECEIPT_POINT \in Nat
ASSUME DeliveryAssumption ==
    /\ MAX_RETRIES \in Nat /\ MAX_DELIVERY_ATTEMPTS = MAX_RETRIES + 1
    /\ MaxMessages \in Nat
ASSUME SweepAssumption ==
    /\ STALE \in Nat /\ ABANDON \in Nat /\ STALE < ABANDON
    /\ ABANDON_BATCH \in Nat \ {0} /\ REQUEUE_BATCH \in Nat \ {0}

VARIABLES
    row,      \* the receipts table
    basket,   \* receipt_line_items: the copies of its lines a receipt has
    queue,    \* how many messages wait, by receipt and attempt
    worker,   \* the consumer invocations
    sweeper,  \* the scheduled sweep: where it is and the ids it holds
    claim,    \* the claim a wallet has under way: the points it read per receipt
    credited, \* history: points a receipt has brought to a balance
    awarded   \* history: points the verdict that settled a receipt gave it

vars == <<row, basket, queue, worker, sweeper, claim, credited, awarded>>

Statuses == {"pending", "rejected", "claimable", "claimed", "rejected-claimed"}
Claimable == {"claimable", "rejected"}
Attempts == 1..MAX_DELIVERY_ATTEMPTS
Ages == 0..(ABANDON + 1)
Never == -1                       \* analysisStartedAt null
Copies == 1..(2 * Cardinality(Worker) + 2)
Points == {POINT_INELIGIBLE, 0, REJECTED_RECEIPT_POINT} \cup QualityPoints
Verdicts == [status: {"claimable", "rejected"}, points: Points, issuedAt: Purchase \cup {NoDate}]

NoVerdict == [status |-> "rejected", points |-> 0, issuedAt |-> NoDate]
Idle == [pc |-> "idle", receipt |-> NoOne, attempts |-> 1, verdict |-> NoVerdict, doomed |-> {}]
Absent == [status |-> "absent", owner |-> NoOne, points |-> 0, issuedAt |-> NoDate,
           age |-> 0, since |-> Never]
Uncovered == -2                      \* a receipt a claim does not cover
NoClaim == [r \in Receipt |-> Uncovered]

Init ==
    /\ row = [r \in Receipt |-> Absent]
    /\ basket = [r \in Receipt |-> {}]
    /\ queue = [m \in Receipt \X Attempts |-> 0]
    /\ worker = [w \in Worker |-> Idle]
    /\ sweeper = [pc |-> "idle", ids |-> {}]
    /\ claim = [a \in Wallet |-> NoClaim]
    /\ credited = [r \in Receipt |-> 0]
    /\ awarded = [r \in Receipt |-> 0]

-----------------------------------------------------------------------------
(* Helpers.                                                                *)

Messages ==
    MapThenSumSet(LAMBDA m : queue[m], DOMAIN queue)
        + Cardinality({w \in Worker : worker[w].pc # "idle"})

Sent(r) == [queue EXCEPT ![<<r, 1>>] = @ + 1]

(* Mutant of Rejected: the points are left as the upload set them.         *)
RejectedKeepingPoints(r) == [row[r] EXCEPT !.status = "rejected"]

(* A receipt closed with no verdict on it: rejected, for nothing.          *)
Rejected(r) == [row[r] EXCEPT !.status = "rejected", !.points = 0]

(* The oldest n of the candidates, in an order the query leaves open among *)
(* rows of one age.                                                        *)
Oldest(ids, candidates, n) ==
    /\ ids \subseteq candidates
    /\ Cardinality(ids) = IF Cardinality(candidates) < n THEN Cardinality(candidates) ELSE n
    /\ \A r \in ids, q \in candidates \ ids : row[r].age >= row[q].age

(* Mutant of Expired: a receipt an analysis was started for is left alone. *)
ExpiredUnstarted == {r \in Receipt : row[r].status = "pending" /\ row[r].since = Never
                                     /\ row[r].age > ABANDON}

Expired == {r \in Receipt : row[r].status = "pending" /\ row[r].age > ABANDON}

Stalled ==
    {r \in Receipt : /\ row[r].status = "pending"
                     /\ row[r].age > STALE /\ row[r].age <= ABANDON
                     /\ (row[r].since = Never \/ row[r].since > STALE)}

(* Same wallet, same purchase time, not this receipt, not claimed yet.     *)
Duplicated(r, issuedAt) ==
    \E q \in Receipt \ {r} : /\ row[q].owner = row[r].owner
                             /\ row[q].issuedAt = issuedAt
                             /\ row[q].status \notin {"absent", "claimed"}

-----------------------------------------------------------------------------
(* Upload.                                                                 *)

(* The image is stored first; the row and its image row are one            *)
(* transaction.  The send that follows may fail, and is only logged.       *)
upload(r, a, points, enqueued) ==
    /\ row[r].status = "absent"
    /\ enqueued => Messages < MaxMessages
    /\ row' = [row EXCEPT ![r] = [Absent EXCEPT !.status = "pending", !.owner = a, !.points = points]]
    /\ queue' = IF enqueued THEN Sent(r) ELSE queue
    /\ UNCHANGED <<basket, worker, sweeper, claim, credited, awarded>>

-----------------------------------------------------------------------------
(* The queue: at least once, in any order, not for ever.                   *)

Deliver(w, m) ==
    /\ worker[w].pc = "idle" /\ queue[m] > 0
    /\ queue' = [queue EXCEPT ![m] = @ - 1]
    /\ worker' = [worker EXCEPT ![w] = [Idle EXCEPT !.pc = "delivered", !.receipt = m[1], !.attempts = m[2]]]
    /\ UNCHANGED <<row, basket, sweeper, claim, credited, awarded>>

DeliverAgain(m) ==
    /\ queue[m] > 0 /\ Messages < MaxMessages
    /\ queue' = [queue EXCEPT ![m] = @ + 1]
    /\ UNCHANGED <<row, basket, worker, sweeper, claim, credited, awarded>>

Lose(m) ==
    /\ queue[m] > 0
    /\ queue' = [queue EXCEPT ![m] = @ - 1]
    /\ UNCHANGED <<row, basket, worker, sweeper, claim, credited, awarded>>

-----------------------------------------------------------------------------
(* The consumer, one delivery of a message.                                *)

holding(w) == worker[w].receipt
Finished(w) == [worker EXCEPT ![w] = Idle]
MovesTo(w, pc) == [worker EXCEPT ![w].pc = pc]

(* analyseReceipt up to the model call: a settled receipt is left alone.   *)
Skip(w) ==
    /\ worker[w].pc = "delivered" /\ row[holding(w)].status # "pending"
    /\ worker' = Finished(w)
    /\ UNCHANGED <<row, basket, queue, sweeper, claim, credited, awarded>>

Start(w) ==
    /\ worker[w].pc = "delivered" /\ row[holding(w)].status = "pending"
    /\ row' = [row EXCEPT ![holding(w)].since = 0]
    /\ worker' = MovesTo(w, "reading")
    /\ UNCHANGED <<basket, queue, sweeper, claim, credited, awarded>>

(* The model fails: this update looks at no status.                        *)
ModelFails(w) ==
    /\ worker[w].pc = "reading"
    /\ row' = [row EXCEPT ![holding(w)] = Rejected(holding(w))]
    /\ worker' = Finished(w)
    /\ UNCHANGED <<basket, queue, sweeper, claim, credited, awarded>>

(* The model answers, and gradeReceipt makes a verdict of it: fit says     *)
(* whether gradeReceiptFields had nothing to object to, which takes a date.*)
Grade(w, fit, issuedAt, points) ==
    LET good == fit /\ ~Duplicated(holding(w), issuedAt) IN
    /\ worker[w].pc = "reading"
    /\ fit => issuedAt # NoDate
    /\ worker' = [worker EXCEPT
           ![w].pc = "graded",
           ![w].verdict = [status |-> IF good THEN "claimable" ELSE "rejected",
                           points |-> IF good THEN points ELSE REJECTED_RECEIPT_POINT,
                           issuedAt |-> issuedAt]]
    /\ UNCHANGED <<row, basket, queue, sweeper, claim, credited, awarded>>

(* The final transaction opens with a second look at the status.           *)
Recheck(w) ==
    /\ worker[w].pc = "graded"
    /\ worker' = IF row[holding(w)].status = "pending" THEN MovesTo(w, "committing") ELSE Finished(w)
    /\ UNCHANGED <<row, basket, queue, sweeper, claim, credited, awarded>>

FreshCopy(r) ==
    CHOOSE c \in Copies : /\ c \notin basket[r]
                          /\ \A w \in Worker : c \notin worker[w].doomed
                          /\ \A d \in 1..(c - 1) : \/ d \in basket[r]
                                                   \/ \E w \in Worker : d \in worker[w].doomed

(* Mutant of Settleable: the row is taken to be as the re-check found it.  *)
AsRechecked(r) == row[r].status # "absent"

Settleable(r) == row[r].status = "pending"

(* Mutant of Settled: the mark of the weekly limit is overlooked.          *)
SettledAtFullValue(r, v) ==
    [row[r] EXCEPT !.issuedAt = v.issuedAt, !.status = v.status, !.points = v.points]

(* A receipt past the weekly limit is settled at once, for nothing.        *)
Settled(r, v) ==
    IF row[r].points = POINT_INELIGIBLE
    THEN [row[r] EXCEPT !.issuedAt = v.issuedAt, !.status = "claimed", !.points = 0]
    ELSE [row[r] EXCEPT !.issuedAt = v.issuedAt, !.status = v.status, !.points = v.points]

(* The guarded update finds the row pending; its lock holds off everybody  *)
(* else until the lines are replaced and the transaction commits.          *)
Commit(w) ==
    LET r == holding(w) IN
    /\ worker[w].pc = "committing" /\ Settleable(r)
    /\ row' = [row EXCEPT ![r] = Settled(r, worker[w].verdict)]
    /\ basket' = [basket EXCEPT ![r] = {FreshCopy(r)}]
    /\ awarded' = [awarded EXCEPT ![r] =
                      IF row[r].points = POINT_INELIGIBLE THEN 0 ELSE worker[w].verdict.points]
    /\ worker' = Finished(w)
    /\ UNCHANGED <<queue, sweeper, claim, credited>>

(* The guarded update finds nothing, and the transaction goes on to delete *)
(* the lines it can see and then to insert its own.                        *)
UpdateMisses(w) ==
    LET r == holding(w) IN
    /\ worker[w].pc = "committing" /\ ~Settleable(r)
    /\ worker' = [worker EXCEPT ![w].pc = "replacing", ![w].doomed = basket[r]]
    /\ UNCHANGED <<row, basket, queue, sweeper, claim, credited, awarded>>

ReplaceLines(w) ==
    LET r == holding(w) IN
    /\ worker[w].pc = "replacing"
    /\ basket' = [basket EXCEPT ![r] = (@ \ worker[w].doomed) \cup {FreshCopy(r)}]
    /\ worker' = Finished(w)
    /\ UNCHANGED <<row, queue, sweeper, claim, credited, awarded>>

(* Something throws, or the invocation is killed, short of the last        *)
(* delivery: the open transaction is undone and the message comes back.    *)
Retry(w) ==
    /\ worker[w].pc # "idle" /\ worker[w].attempts <= MAX_RETRIES
    /\ queue' = [queue EXCEPT ![<<holding(w), worker[w].attempts + 1>>] = @ + 1]
    /\ worker' = Finished(w)
    /\ UNCHANGED <<row, basket, sweeper, claim, credited, awarded>>

(* Something throws on the last delivery: settleUnanalysable.              *)
GiveUp(w) ==
    /\ worker[w].pc # "idle" /\ worker[w].attempts >= MAX_DELIVERY_ATTEMPTS
    /\ row' = IF row[holding(w)].status = "pending"
              THEN [row EXCEPT ![holding(w)] = Rejected(holding(w))] ELSE row
    /\ worker' = Finished(w)
    /\ UNCHANGED <<basket, queue, sweeper, claim, credited, awarded>>

(* The last delivery is killed, or cannot settle: the message is gone.     *)
Drop(w) ==
    /\ worker[w].pc # "idle" /\ worker[w].attempts > MAX_RETRIES
    /\ worker' = Finished(w)
    /\ UNCHANGED <<row, basket, queue, sweeper, claim, credited, awarded>>

-----------------------------------------------------------------------------
(* The sweeper, every quarter of an hour.                                  *)

At(pc) == sweeper.pc = pc
SweeperGoes(pc, ids) == sweeper' = [pc |-> pc, ids |-> ids]

SelectExpired(ids) ==
    /\ At("idle") /\ Oldest(ids, Expired, ABANDON_BATCH)
    /\ SweeperGoes(IF ids = {} THEN "requeue" ELSE "abandon", ids)
    /\ UNCHANGED <<row, basket, queue, worker, claim, credited, awarded>>

Abandon ==
    /\ At("abandon")
    /\ row' = [r \in Receipt |->
                  IF r \in sweeper.ids /\ row[r].status = "pending" THEN Rejected(r) ELSE row[r]]
    /\ SweeperGoes("requeue", {})
    /\ UNCHANGED <<basket, queue, worker, claim, credited, awarded>>

SelectStalled(ids) ==
    /\ At("requeue") /\ Oldest(ids, Stalled, REQUEUE_BATCH)
    /\ SweeperGoes(IF ids = {} THEN "idle" ELSE "send", ids)
    /\ UNCHANGED <<row, basket, queue, worker, claim, credited, awarded>>

(* Some of the sends succeed.                                              *)
Resend(delivered) ==
    /\ At("send") /\ delivered \subseteq sweeper.ids
    /\ Messages + Cardinality(delivered) <= MaxMessages
    /\ queue' = [m \in DOMAIN queue |->
                    IF m[1] \in delivered /\ m[2] = 1 THEN queue[m] + 1 ELSE queue[m]]
    /\ SweeperGoes(IF delivered = {} THEN "idle" ELSE "stamp", delivered)
    /\ UNCHANGED <<row, basket, worker, claim, credited, awarded>>

Stamp ==
    /\ At("stamp")
    /\ row' = [r \in Receipt |-> IF r \in sweeper.ids /\ row[r].status = "pending"
                                 THEN [row[r] EXCEPT !.since = 0] ELSE row[r]]
    /\ SweeperGoes("idle", {})
    /\ UNCHANGED <<basket, queue, worker, claim, credited, awarded>>

SweepCrashes ==
    /\ ~At("idle")
    /\ SweeperGoes("idle", {})
    /\ UNCHANGED <<row, basket, queue, worker, claim, credited, awarded>>

-----------------------------------------------------------------------------
(* POST /point/claim: one transaction, which reads the receipts and what   *)
(* they are worth, and later credits that and moves their statuses on.     *)

ReadClaimable(a) ==
    LET ids == {r \in Receipt : row[r].owner = a /\ row[r].status \in Claimable} IN
    /\ claim[a] = NoClaim /\ ids # {}
    /\ claim' = [claim EXCEPT ![a] = [r \in Receipt |-> IF r \in ids THEN row[r].points ELSE Uncovered]]
    /\ UNCHANGED <<row, basket, queue, worker, sweeper, credited, awarded>>

MarkClaimed(status) ==
    CASE status = "claimable" -> "claimed" [] status = "rejected" -> "rejected-claimed" [] OTHER -> status

SettleClaim(a) ==
    /\ claim[a] # NoClaim
    /\ credited' = [r \in Receipt |-> IF claim[a][r] # Uncovered THEN credited[r] + claim[a][r] ELSE credited[r]]
    /\ row' = [r \in Receipt |->
                  IF claim[a][r] # Uncovered THEN [row[r] EXCEPT !.status = MarkClaimed(@)] ELSE row[r]]
    /\ claim' = [claim EXCEPT ![a] = NoClaim]
    /\ UNCHANGED <<basket, queue, worker, sweeper, awarded>>

-----------------------------------------------------------------------------

Older(age) == IF age = Never \/ age > ABANDON THEN age ELSE age + 1

Tick ==
    /\ row' = [r \in Receipt |->
                  IF row[r].status # "pending" THEN row[r]
                  ELSE [row[r] EXCEPT !.age = Older(@), !.since = Older(@)]]
    /\ UNCHANGED <<basket, queue, worker, sweeper, claim, credited, awarded>>

Upload == \E r \in Receipt, a \in Wallet, points \in {0, POINT_INELIGIBLE}, enqueued \in BOOLEAN :
              upload(r, a, points, enqueued)

Queue == \E m \in Receipt \X Attempts :
             (\E w \in Worker : Deliver(w, m)) \/ DeliverAgain(m) \/ Lose(m)

Consume(w) ==
    \/ Skip(w) \/ Start(w) \/ ModelFails(w)
    \/ \E fit \in BOOLEAN, issuedAt \in Purchase \cup {NoDate}, points \in QualityPoints :
           Grade(w, fit, issuedAt, points)
    \/ Recheck(w) \/ Commit(w) \/ UpdateMisses(w) \/ ReplaceLines(w)
    \/ Retry(w) \/ GiveUp(w) \/ Drop(w)

SweepStep ==
    \/ \E ids \in SUBSET Receipt : SelectExpired(ids) \/ SelectStalled(ids) \/ Resend(ids)
    \/ Abandon \/ Stamp

Claim == \E a \in Wallet : ReadClaimable(a) \/ SettleClaim(a)

Next ==
    \/ Upload
    \/ Queue
    \/ \E w \in Worker : Consume(w)
    \/ SweepStep
    \/ SweepCrashes
    \/ Claim
    \/ Tick

Spec == Init /\ [][Next]_vars

(* The cron runs the sweeper for ever and time passes.  A sweep may be     *)
(* killed, but not every sweep at the same statement, hence strong         *)
(* fairness for the update that settles.  Nothing is asked of the queue,   *)
(* the model, the consumer or the owner.                                   *)
Fairness ==
    /\ WF_vars(Tick)
    /\ WF_vars(SweepStep)
    /\ \A r \in Receipt : SF_vars(Abandon /\ r \in sweeper.ids)

FairSpec == Spec /\ Fairness

-----------------------------------------------------------------------------
(* Properties.                                                             *)

ReceiptTypeOK ==
    /\ row \in [Receipt -> [status: Statuses \cup {"absent"}, owner: Wallet \cup {NoOne},
                            points: Points, issuedAt: Purchase \cup {NoDate},
                            age: Ages, since: Ages \cup {Never}]]
    /\ \A r \in Receipt : row[r].points = POINT_INELIGIBLE => row[r].status = "pending"
    /\ basket \in [Receipt -> SUBSET Copies]
    /\ queue \in [Receipt \X Attempts -> Nat]
    /\ worker \in [Worker -> [pc: {"idle", "delivered", "reading", "graded", "committing", "replacing"},
                              receipt: Receipt \cup {NoOne}, attempts: Attempts,
                              verdict: Verdicts, doomed: SUBSET Copies]]
    /\ sweeper \in [pc: {"idle", "abandon", "requeue", "send", "stamp"}, ids: SUBSET Receipt]
    /\ claim \in [Wallet -> [Receipt -> Points \cup {Uncovered}]]
    /\ credited \in [Receipt -> Int]
    /\ awarded \in [Receipt -> Int]

(* "Paying out on rows the system lost would turn an outage into an        *)
(* airdrop" (receipt-sweeper 62-64): what a receipt brings to a balance is *)
(* what the verdict that settled it awarded, once, whatever was redelivered*)
(* or abandoned meanwhile; so nothing for a receipt that was never scored, *)
(* nor for one past the weekly limit (receipt-analysis 256-271).           *)
CreditFollowsVerdict == \A r \in Receipt : credited[r] \in {0, awarded[r]}

(* A verdict is written once.  A settled receipt is claimed, or knocked    *)
(* down to nothing by a failing model call, but a late delivery never      *)
(* gives it other points, or another purchase, than it was settled with.   *)
NeverRescored ==
    [][\A r \in Receipt : row[r].status \notin {"absent", "pending"} =>
          /\ row[r]'.status # "pending"
          /\ row[r]'.points \in {row[r].points, 0}
          /\ row[r]'.issuedAt = row[r].issuedAt]_vars

(* "So the receipt shows 'analysing' in the user's history permanently" is *)
(* what the sweeper is there to end (receipt-sweeper 4-18): every uploaded *)
(* receipt leaves pending, even if every send is lost, every delivery is   *)
(* killed and the image is unreadable.                                     *)
PendingIsSettled ==
    \A r \in Receipt : row[r].status = "pending" ~> row[r].status # "pending"

(* receipt-analysis 182-187: a later delivery must not "overwrite the      *)
(* verdict" or "reopen one the user has already claimed".                  *)
ClaimedStaysClaimed ==
    [][\A r \in Receipt : row[r].status = "claimed" => row[r]'.status = "claimed"]_vars

(* receipts.ts, REJECTION_REASONS: "duplicate - Same wallet, same purchase *)
(* timestamp: photographed twice".  Two of them are never both claimable.  *)
DuplicateIsRejected ==
    \A r, q \in Receipt : r # q /\ row[r].owner = row[q].owner /\ row[r].issuedAt = row[q].issuedAt
        => ~(row[r].status = "claimable" /\ row[q].status = "claimable")

=============================================================================
