------------------------- MODULE ReceiptAnalysis_proofs -------------------------
(***************************************************************************)
(* Safety of the receipt queue for any number of receipts, wallets, and    *)
(* workers, any verdicts and any losses and repetitions of messages; and   *)
(* of tying a mailbox to a wallet, for any wallets, mailboxes and limits.  *)
(* What operators are told of readings and of days: for any number of      *)
(* workers and receipts, and for any people, rows and order of queries.    *)
(***************************************************************************)
EXTENDS ReceiptAnalysis, EmailVerification, Reparse, Reports, SequenceTheorems, Sums

-----------------------------------------------------------------------------
(* The types the proofs need.  What the basket holds is left out: that a   *)
(* fresh copy exists is a matter of counting.                              *)

Pcs == {"idle", "delivered", "reading", "graded", "committing", "replacing"}
Rows == [status: Statuses \cup {"absent"}, owner: Wallet \cup {NoOne}, points: Points,
         issuedAt: Purchase \cup {NoDate}, age: Ages, since: Ages \cup {Never}]
WorkersOf(D) == [pc: Pcs, receipt: Receipt \cup {NoOne}, attempts: Int, verdict: Verdicts, doomed: D]

WorkerType ==
    /\ \E D : worker \in [Worker -> WorkersOf(D)]
    /\ \A w \in Worker : /\ worker[w].pc # "idle" => worker[w].receipt \in Receipt
                         /\ worker[w].verdict.points # POINT_INELIGIBLE

RowType ==
    /\ row \in [Receipt -> Rows]
    /\ \A r \in Receipt : row[r].points = POINT_INELIGIBLE => row[r].status = "pending"

LedgerType ==
    /\ claim \in [Wallet -> [Receipt -> Points \cup {Uncovered}]]
    /\ credited \in [Receipt -> Int] /\ awarded \in [Receipt -> Int]

(* Nothing is credited or awarded to a receipt before it is settled, and   *)
(* no claim covers it; what can be claimed on a settled one is the award   *)
(* or nothing, and nothing once the award was credited; a claim under way  *)
(* is its owner's, and follows the same rule with what it read.            *)
Credit(r) ==
    /\ row[r].status \in {"absent", "pending"} =>
           /\ credited[r] = 0 /\ awarded[r] = 0
           /\ \A a \in Wallet : claim[a][r] = Uncovered
    /\ row[r].status \in Claimable =>
           /\ row[r].points \in {0, awarded[r]}
           /\ row[r].points = 0 \/ credited[r] = 0
    /\ credited[r] \in {0, awarded[r]}
    /\ \A a \in Wallet : claim[a][r] # Uncovered =>
           /\ row[r].owner = a
           /\ claim[a][r] \in {0, awarded[r]}
           /\ claim[a][r] = 0 \/ credited[r] = 0

CreditInv == \A r \in Receipt : Credit(r)

ReceiptInv == WorkerType /\ RowType /\ LedgerType /\ CreditInv

LEMMA PointsAreIntegers ==
  Points \subseteq Int /\ 0 \in Points /\ Uncovered \notin Points /\ REJECTED_RECEIPT_POINT \in Points
BY PointAssumption DEF Points, POINT_INELIGIBLE, Uncovered

LEMMA ReceiptInitInv == Init => ReceiptInv
<1> SUFFICES ASSUME Init PROVE ReceiptInv
  OBVIOUS
<1> USE DEF Init
<1>1. WorkerType
  <2>1. Idle \in WorkersOf({{}})
    BY PointsAreIntegers DEF Idle, NoVerdict, WorkersOf, Pcs, Verdicts
  <2>2. Idle.pc = "idle" /\ Idle.verdict.points = 0
    BY DEF Idle, NoVerdict
  <2> QED BY <2>1, <2>2 DEF WorkerType, POINT_INELIGIBLE
<1>2. RowType
  <2>1. Absent \in Rows
    BY PointsAreIntegers, SweepAssumption DEF Absent, Rows, Ages
  <2>2. Absent.points = 0
    BY DEF Absent
  <2> QED BY <2>1, <2>2 DEF RowType, POINT_INELIGIBLE
<1>3. LedgerType
  BY DEF LedgerType, NoClaim
<1>4. CreditInv
  BY DEF CreditInv, Credit, NoClaim, Absent, Claimable
<1> QED BY <1>1, <1>2, <1>3, <1>4 DEF ReceiptInv

-----------------------------------------------------------------------------
(* The workers: every step of a delivery leaves one of these three shapes. *)

LEMMA WorkerFinishes ==
  ASSUME WorkerType, NEW w \in Worker, worker' = Finished(w)
  PROVE  WorkerType'
<1>1. PICK D : worker \in [Worker -> WorkersOf(D)]
  BY DEF WorkerType
<1>2. Idle \in WorkersOf(D \cup {{}}) /\ Idle.pc = "idle" /\ Idle.verdict.points = 0
  BY PointsAreIntegers DEF Idle, NoVerdict, WorkersOf, Pcs, Verdicts
<1>3. worker' \in [Worker -> WorkersOf(D \cup {{}})]
  BY <1>1, <1>2 DEF Finished, WorkersOf
<1>4. \A x \in Worker : worker'[x] = Idle \/ worker'[x] = worker[x]
  BY <1>1 DEF Finished
<1> QED BY <1>2, <1>3, <1>4 DEF WorkerType, POINT_INELIGIBLE

LEMMA WorkerMoves ==
  ASSUME WorkerType, NEW w \in Worker, worker[w].pc # "idle", NEW pc \in Pcs, worker' = MovesTo(w, pc)
  PROVE  WorkerType'
<1>1. PICK D : worker \in [Worker -> WorkersOf(D)]
  BY DEF WorkerType
<1>2. worker' \in [Worker -> WorkersOf(D)]
  BY <1>1 DEF MovesTo, WorkersOf
<1>3. \A x \in Worker : worker'[x].receipt = worker[x].receipt /\ worker'[x].verdict = worker[x].verdict
  BY <1>1 DEF MovesTo, WorkersOf
<1>4. \A x \in Worker : x # w => worker'[x].pc = worker[x].pc
  BY <1>1 DEF MovesTo
<1> QED BY <1>2, <1>3, <1>4 DEF WorkerType

LEMMA WorkerTakes ==
  ASSUME WorkerType, NEW w \in Worker, NEW m \in Receipt \X Attempts, Deliver(w, m)
  PROVE  WorkerType'
<1>1. PICK D : worker \in [Worker -> WorkersOf(D)]
  BY DEF WorkerType
<1> DEFINE taken == [Idle EXCEPT !.pc = "delivered", !.receipt = m[1], !.attempts = m[2]]
<1>2. taken \in WorkersOf(D \cup {{}}) /\ taken.receipt \in Receipt /\ taken.verdict.points = 0
  <2> DEFINE r == m[1]
             n == m[2]
  <2>1. r \in Receipt /\ n \in Int
    BY DEF Attempts
  <2>2. Idle \in WorkersOf(D \cup {{}}) /\ Idle.verdict.points = 0
    BY PointsAreIntegers DEF Idle, NoVerdict, WorkersOf, Pcs, Verdicts
  <2>3. taken = [[[Idle EXCEPT !.pc = "delivered"] EXCEPT !.receipt = r] EXCEPT !.attempts = n]
    OBVIOUS
  <2> HIDE DEF r, n, taken
  <2>4. taken.receipt = r
    BY <2>2, <2>3 DEF WorkersOf
  <2> QED BY <2>1, <2>2, <2>3, <2>4 DEF WorkersOf, Pcs
<1>3. worker' = [worker EXCEPT ![w] = taken]
  BY DEF Deliver
<1> HIDE DEF taken
<1>4. worker' \in [Worker -> WorkersOf(D \cup {{}})]
  BY <1>1, <1>2, <1>3 DEF WorkersOf
<1>5. \A x \in Worker : worker'[x] = taken \/ worker'[x] = worker[x]
  BY <1>1, <1>3
<1> QED BY <1>2, <1>4, <1>5 DEF WorkerType, POINT_INELIGIBLE

LEMMA WorkerGrades ==
  ASSUME WorkerType, NEW w \in Worker, NEW fit \in BOOLEAN, NEW issuedAt \in Purchase \cup {NoDate},
         NEW points \in QualityPoints, Grade(w, fit, issuedAt, points)
  PROVE  WorkerType'
<1>1. PICK D : worker \in [Worker -> WorkersOf(D)]
  BY DEF WorkerType
<1> DEFINE good == fit /\ ~Duplicated(holding(w), issuedAt)
           verdict == [status |-> IF good THEN "claimable" ELSE "rejected",
                       points |-> IF good THEN points ELSE REJECTED_RECEIPT_POINT,
                       issuedAt |-> issuedAt]
<1>2. verdict \in Verdicts
  BY PointsAreIntegers DEF Verdicts, Points
<1>3. verdict.points \in Nat
  BY PointAssumption
<1>4. worker' = [worker EXCEPT ![w].pc = "graded", ![w].verdict = verdict] /\ worker[w].pc = "reading"
  BY DEF Grade
<1> HIDE DEF good, verdict
<1>5. worker' \in [Worker -> WorkersOf(D)]
  BY <1>1, <1>2, <1>4 DEF WorkersOf, Pcs
<1>6. \A x \in Worker : x # w => worker'[x] = worker[x]
  BY <1>1, <1>4
<1>7. worker'[w].receipt = worker[w].receipt /\ worker'[w].verdict = verdict
  BY <1>1, <1>4 DEF WorkersOf
<1> QED BY <1>3, <1>4, <1>5, <1>6, <1>7 DEF WorkerType, POINT_INELIGIBLE

LEMMA WorkerMisses ==
  ASSUME WorkerType, NEW w \in Worker, UpdateMisses(w)
  PROVE  WorkerType'
<1>1. PICK D : worker \in [Worker -> WorkersOf(D)]
  BY DEF WorkerType
<1> DEFINE d == basket[holding(w)]
<1>2. worker' = [worker EXCEPT ![w].pc = "replacing", ![w].doomed = d] /\ worker[w].pc # "idle"
  BY DEF UpdateMisses
<1> HIDE DEF d
<1>3. worker' \in [Worker -> WorkersOf(D \cup {d})]
  BY <1>1, <1>2 DEF WorkersOf, Pcs
<1>4. \A x \in Worker : worker'[x].receipt = worker[x].receipt /\ worker'[x].verdict = worker[x].verdict
  BY <1>1, <1>2 DEF WorkersOf
<1>5. \A x \in Worker : x # w => worker'[x].pc = worker[x].pc
  BY <1>1, <1>2
<1> QED BY <1>2, <1>3, <1>4, <1>5 DEF WorkerType

-----------------------------------------------------------------------------
(* The rows.  A step that credits nothing may leave a row's status and     *)
(* points alone, close it for nothing, or put a new one.                   *)

RowStands(r) ==
    /\ row'[r].status = row[r].status /\ row'[r].points = row[r].points
    /\ row'[r].owner = row[r].owner /\ row'[r].issuedAt = row[r].issuedAt
RowCloses(r) ==
    /\ row'[r].status = "rejected" /\ row'[r].points = 0
    /\ row'[r].owner = row[r].owner /\ row'[r].issuedAt = row[r].issuedAt
RowArrives(r) == row[r].status = "absent" /\ row'[r].status = "pending"

(* What NeverRescored says of one step.                                    *)
RowsKeep ==
    \A r \in Receipt : row[r].status \notin {"absent", "pending"} =>
        /\ row'[r].status # "pending"
        /\ row'[r].points \in {row[r].points, 0}
        /\ row'[r].issuedAt = row[r].issuedAt

LEMMA RowStepCredit ==
  ASSUME ReceiptInv, UNCHANGED <<claim, credited, awarded>>,
         NEW r \in Receipt, RowStands(r) \/ RowCloses(r) \/ RowArrives(r)
  PROVE  Credit(r)'
<1>1. Credit(r)
  BY DEF ReceiptInv, CreditInv
<1>2. CASE RowStands(r)
  BY <1>1, <1>2 DEF RowStands, Credit
<1>3. CASE RowCloses(r)
  BY <1>1, <1>3 DEF RowCloses, Credit, Claimable
<1>4. CASE RowArrives(r)
  BY <1>1, <1>4 DEF RowArrives, Credit, Claimable
<1> QED BY <1>2, <1>3, <1>4

LEMMA CreditStep ==
  ASSUME ReceiptInv, WorkerType', RowType', UNCHANGED <<claim, credited, awarded>>,
         \A r \in Receipt : RowStands(r) \/ RowCloses(r) \/ RowArrives(r)
  PROVE  ReceiptInv' /\ RowsKeep
<1>1. CreditInv'
  BY RowStepCredit DEF CreditInv
<1>2. LedgerType'
  BY DEF ReceiptInv, LedgerType
<1>3. RowsKeep
  BY DEF RowStands, RowCloses, RowArrives, RowsKeep
<1> QED BY <1>1, <1>2, <1>3 DEF ReceiptInv

LEMMA RowsStand ==
  ASSUME ReceiptInv, UNCHANGED row
  PROVE  RowType' /\ \A r \in Receipt : RowStands(r)
BY DEF ReceiptInv, RowType, RowStands

LEMMA RejectedRow ==
  ASSUME RowType, NEW r \in Receipt
  PROVE  /\ Rejected(r) \in Rows /\ Rejected(r).status = "rejected" /\ Rejected(r).points = 0
         /\ Rejected(r).owner = row[r].owner /\ Rejected(r).issuedAt = row[r].issuedAt
BY PointsAreIntegers DEF RowType, Rows, Rejected, Statuses

LEMMA RowRejected ==
  ASSUME ReceiptInv, NEW r \in Receipt, row' = [row EXCEPT ![r] = Rejected(r)]
  PROVE  RowType' /\ \A q \in Receipt : RowStands(q) \/ RowCloses(q)
<1>1. row \in [Receipt -> Rows]
  BY DEF ReceiptInv, RowType
<1>2. row' \in [Receipt -> Rows] /\ row'[r] = Rejected(r) /\ \A q \in Receipt \ {r} : row'[q] = row[q]
  BY <1>1, RejectedRow DEF ReceiptInv
<1>3. RowCloses(r)
  BY <1>2, RejectedRow DEF ReceiptInv, RowCloses
<1>4. RowType'
  BY <1>2, RejectedRow DEF ReceiptInv, RowType, POINT_INELIGIBLE
<1> QED BY <1>2, <1>3, <1>4 DEF RowStands

(* Rows change in their times alone.                                       *)
LEMMA RowsAge ==
  ASSUME ReceiptInv, row' \in [Receipt -> Rows],
         \A r \in Receipt : \/ row'[r] = row[r]
                            \/ \E age \in Ages, since \in Ages \cup {Never} :
                                   row'[r] = [row[r] EXCEPT !.age = age, !.since = since]
  PROVE  RowType' /\ \A r \in Receipt : RowStands(r)
<1>1. ASSUME NEW r \in Receipt PROVE RowStands(r)
  BY DEF ReceiptInv, RowType, Rows, RowStands
<1> QED BY <1>1 DEF ReceiptInv, RowType, RowStands

-----------------------------------------------------------------------------
(* One lemma per action that does more than leave the rows alone.          *)

LEMMA UploadStep ==
  ASSUME ReceiptInv, NEW r \in Receipt, NEW a \in Wallet, NEW points \in {0, POINT_INELIGIBLE},
         NEW enqueued \in BOOLEAN, upload(r, a, points, enqueued)
  PROVE  ReceiptInv' /\ RowsKeep
<1>1. row \in [Receipt -> Rows]
  BY DEF ReceiptInv, RowType
<1> DEFINE new == [Absent EXCEPT !.status = "pending", !.owner = a, !.points = points]
<1>2. new \in Rows /\ new.status = "pending"
  <2>1. Absent \in Rows
    BY PointsAreIntegers, SweepAssumption DEF Absent, Rows, Ages
  <2>2. points \in Points
    BY DEF Points
  <2> QED BY <2>1, <2>2 DEF Rows, Statuses
<1>3. row' = [row EXCEPT ![r] = new] /\ row[r].status = "absent"
  BY DEF upload
<1> HIDE DEF new
<1>4. row' \in [Receipt -> Rows] /\ row'[r] = new /\ \A q \in Receipt \ {r} : row'[q] = row[q]
  BY <1>1, <1>2, <1>3
<1>5. RowType'
  BY <1>2, <1>4 DEF ReceiptInv, RowType
<1>6. \A q \in Receipt : RowStands(q) \/ RowArrives(q)
  BY <1>2, <1>3, <1>4 DEF RowStands, RowArrives
<1>7. WorkerType'
  BY DEF upload, ReceiptInv, WorkerType
<1> QED BY <1>5, <1>6, <1>7, CreditStep DEF upload

LEMMA StartStep ==
  ASSUME ReceiptInv, NEW w \in Worker, Start(w)
  PROVE  ReceiptInv' /\ RowsKeep
<1>1. row \in [Receipt -> Rows] /\ 0 \in Ages
  BY SweepAssumption DEF ReceiptInv, RowType, Ages
<1>2. row' = [row EXCEPT ![holding(w)].since = 0] /\ worker' = MovesTo(w, "reading") /\ worker[w].pc # "idle"
  BY DEF Start
<1>3. holding(w) \in Receipt
  BY <1>2 DEF ReceiptInv, WorkerType, holding
<1>4. WorkerType'
  BY <1>2, WorkerMoves DEF ReceiptInv, Pcs
<1>5. row' \in [Receipt -> Rows]
  BY <1>1, <1>2, <1>3 DEF Rows
<1>6. \A r \in Receipt : row'[r] = row[r] \/ row'[r] = [row[r] EXCEPT !.age = row[r].age, !.since = 0]
  BY <1>1, <1>2, <1>3 DEF Rows
<1>7. \A r \in Receipt : row[r].age \in Ages
  BY <1>1 DEF Rows
<1>8. RowType' /\ \A r \in Receipt : RowStands(r)
  BY <1>1, <1>5, <1>6, <1>7, RowsAge
<1> QED BY <1>4, <1>8, CreditStep DEF Start

LEMMA ModelFailsStep ==
  ASSUME ReceiptInv, NEW w \in Worker, ModelFails(w)
  PROVE  ReceiptInv' /\ RowsKeep
<1>1. row' = [row EXCEPT ![holding(w)] = Rejected(holding(w))] /\ worker' = Finished(w) /\ worker[w].pc # "idle"
  BY DEF ModelFails
<1>2. holding(w) \in Receipt
  BY <1>1 DEF ReceiptInv, WorkerType, holding
<1>3. RowType' /\ \A q \in Receipt : RowStands(q) \/ RowCloses(q)
  BY <1>1, <1>2, RowRejected
<1>4. WorkerType'
  BY <1>1, WorkerFinishes DEF ReceiptInv
<1> QED BY <1>3, <1>4, CreditStep DEF ModelFails

LEMMA GiveUpStep ==
  ASSUME ReceiptInv, NEW w \in Worker, GiveUp(w)
  PROVE  ReceiptInv' /\ RowsKeep
<1>1. worker' = Finished(w) /\ worker[w].pc # "idle"
  BY DEF GiveUp
<1>2. holding(w) \in Receipt
  BY <1>1 DEF ReceiptInv, WorkerType, holding
<1>3. RowType' /\ \A q \in Receipt : RowStands(q) \/ RowCloses(q)
  <2>1. CASE row' = row
    BY <2>1, RowsStand
  <2>2. CASE row' = [row EXCEPT ![holding(w)] = Rejected(holding(w))]
    BY <1>2, <2>2, RowRejected
  <2> QED BY <2>1, <2>2 DEF GiveUp
<1>4. WorkerType'
  BY <1>1, WorkerFinishes DEF ReceiptInv
<1> QED BY <1>3, <1>4, CreditStep DEF GiveUp

LEMMA AbandonStep ==
  ASSUME ReceiptInv, Abandon
  PROVE  ReceiptInv' /\ RowsKeep
<1>1. row \in [Receipt -> Rows]
  BY DEF ReceiptInv, RowType
<1>2. \A r \in Receipt : row'[r] = Rejected(r) \/ row'[r] = row[r]
  BY DEF Abandon
<1>3. row' \in [Receipt -> Rows]
  <2>1. \A r \in Receipt : Rejected(r) \in Rows /\ row[r] \in Rows
    BY <1>1, RejectedRow DEF ReceiptInv
  <2> QED BY <2>1 DEF Abandon
<1>4. RowType'
  BY <1>2, <1>3, RejectedRow DEF ReceiptInv, RowType, POINT_INELIGIBLE
<1>5. \A r \in Receipt : RowStands(r) \/ RowCloses(r)
  BY <1>2, RejectedRow DEF ReceiptInv, RowStands, RowCloses
<1>6. WorkerType'
  BY DEF Abandon, ReceiptInv, WorkerType
<1> QED BY <1>4, <1>5, <1>6, CreditStep DEF Abandon

LEMMA StampStep ==
  ASSUME ReceiptInv, Stamp
  PROVE  ReceiptInv' /\ RowsKeep
<1>1. row \in [Receipt -> Rows] /\ 0 \in Ages
  BY SweepAssumption DEF ReceiptInv, RowType, Ages
<1>2. \A r \in Receipt : \/ row'[r] = row[r]
                         \/ row'[r] = [row[r] EXCEPT !.age = row[r].age, !.since = 0]
  <2>1. \A r \in Receipt : [row[r] EXCEPT !.since = 0] = [row[r] EXCEPT !.age = row[r].age, !.since = 0]
    BY <1>1 DEF Rows
  <2> QED BY <2>1 DEF Stamp
<1>3. \A r \in Receipt : row[r].age \in Ages /\ row[r] \in Rows /\ [row[r] EXCEPT !.since = 0] \in Rows
  BY <1>1 DEF Rows
<1>4. row' \in [Receipt -> Rows]
  BY <1>3 DEF Stamp
<1>5. RowType' /\ \A r \in Receipt : RowStands(r)
  BY <1>1, <1>2, <1>3, <1>4, RowsAge
<1>6. WorkerType'
  BY DEF Stamp, ReceiptInv, WorkerType
<1> QED BY <1>5, <1>6, CreditStep DEF Stamp

LEMMA TickStep ==
  ASSUME ReceiptInv, Tick
  PROVE  ReceiptInv' /\ RowsKeep
<1>1. row \in [Receipt -> Rows]
  BY DEF ReceiptInv, RowType
<1>2. \A r \in Receipt : /\ Older(row[r].age) \in Ages
                         /\ Older(row[r].since) \in Ages \cup {Never}
  <2>1. \A age \in Ages : Older(age) \in Ages
    BY SweepAssumption DEF Ages, Older, Never
  <2>2. Older(Never) = Never
    BY DEF Older
  <2> QED BY <1>1, <2>1, <2>2 DEF Rows
<1> DEFINE next(r) == [row[r] EXCEPT !.age = Older(row[r].age), !.since = Older(row[r].since)]
<1>3. \A r \in Receipt : row'[r] = IF row[r].status # "pending" THEN row[r] ELSE next(r)
  <2>1. \A r \in Receipt : [row[r] EXCEPT !.age = Older(@), !.since = Older(@)] = next(r)
    BY <1>1 DEF Rows
  <2> QED BY <2>1 DEF Tick
<1>4. \A r \in Receipt : next(r) \in Rows
  BY <1>1, <1>2 DEF Rows
<1>5. row' \in [Receipt -> Rows]
  <2>1. row' = [r \in Receipt |-> row'[r]]
    BY DEF Tick
  <2> HIDE DEF next
  <2> QED BY <1>1, <1>3, <1>4, <2>1
<1>6. RowType' /\ \A r \in Receipt : RowStands(r)
  BY <1>2, <1>3, <1>5, RowsAge
<1>7. WorkerType'
  BY DEF Tick, ReceiptInv, WorkerType
<1> QED BY <1>6, <1>7, CreditStep DEF Tick

(* What the verdict that settles a row gives it.                           *)
Award(r, v) == IF row[r].points = POINT_INELIGIBLE THEN 0 ELSE v.points

LEMMA SettledRow ==
  ASSUME RowType, NEW r \in Receipt, NEW v \in Verdicts, v.points # POINT_INELIGIBLE
  PROVE  /\ Settled(r, v) \in Rows /\ Settled(r, v).owner = row[r].owner
         /\ Settled(r, v).status \in {"claimed", "claimable", "rejected"}
         /\ Settled(r, v).points = Award(r, v)
         /\ Award(r, v) \in Int /\ Award(r, v) # POINT_INELIGIBLE
<1>1. row[r] \in Rows
  BY DEF RowType
<1>2. v.status \in {"claimable", "rejected"} /\ v.points \in Points /\ v.issuedAt \in Purchase \cup {NoDate}
  BY DEF Verdicts
<1> DEFINE with(d, s, p) == [row[r] EXCEPT !.issuedAt = d, !.status = s, !.points = p]
<1>3. ASSUME NEW d \in Purchase \cup {NoDate}, NEW s \in Statuses, NEW p \in Points
      PROVE  /\ with(d, s, p) \in Rows /\ with(d, s, p).status = s /\ with(d, s, p).points = p
             /\ with(d, s, p).owner = row[r].owner
  BY <1>1 DEF Rows
<1>4. CASE row[r].points = POINT_INELIGIBLE
  <2>1. Settled(r, v) = with(v.issuedAt, "claimed", 0) /\ Award(r, v) = 0
    BY <1>4 DEF Settled, Award
  <2> HIDE DEF with
  <2> QED BY <1>2, <1>3, <2>1, PointsAreIntegers DEF Statuses, POINT_INELIGIBLE
<1>5. CASE row[r].points # POINT_INELIGIBLE
  <2>1. Settled(r, v) = with(v.issuedAt, v.status, v.points) /\ Award(r, v) = v.points
    BY <1>5 DEF Settled, Award
  <2> HIDE DEF with
  <2>2. v.status \in Statuses /\ v.status \in {"claimed", "claimable", "rejected"}
    BY <1>2 DEF Statuses
  <2>3. Settled(r, v) \in Rows /\ Settled(r, v).status = v.status /\ Settled(r, v).points = v.points
        /\ Settled(r, v).owner = row[r].owner
    BY <1>2, <1>3, <2>1, <2>2
  <2>4. Award(r, v) \in Int /\ Award(r, v) # POINT_INELIGIBLE
    BY <1>2, <2>1, PointsAreIntegers
  <2> QED BY <2>1, <2>2, <2>3, <2>4
<1> QED BY <1>4, <1>5

(* The guarded update finds the row pending, so nothing was awarded or     *)
(* credited for it and no claim covers it.                                 *)
LEMMA CommitStep ==
  ASSUME ReceiptInv, NEW w \in Worker, Commit(w)
  PROVE  ReceiptInv' /\ RowsKeep
<1>1. worker[w].pc # "idle" /\ worker' = Finished(w)
  BY DEF Commit
<1>2. PICK r \in Receipt : r = holding(w)
  BY <1>1 DEF ReceiptInv, WorkerType, holding
<1>3. PICK v \in Verdicts : v = worker[w].verdict /\ v.points # POINT_INELIGIBLE
  BY DEF ReceiptInv, WorkerType, WorkersOf
<1>4. PICK new \in Rows : new = Settled(r, v)
  BY <1>3, SettledRow DEF ReceiptInv
<1>5. PICK award \in Int : award = Award(r, v)
  BY <1>3, SettledRow DEF ReceiptInv
<1>6. /\ new.points = award /\ new.points # POINT_INELIGIBLE /\ new.owner = row[r].owner
      /\ new.status \in {"claimed", "claimable", "rejected"}
  BY <1>3, <1>4, <1>5, SettledRow DEF ReceiptInv
<1>7. /\ row[r].status = "pending" /\ UNCHANGED <<claim, credited>>
      /\ row' = [row EXCEPT ![r] = new] /\ awarded' = [awarded EXCEPT ![r] = award]
  BY <1>2, <1>3, <1>4, <1>5 DEF Commit, Settleable, Award
<1>8. row \in [Receipt -> Rows] /\ awarded \in [Receipt -> Int]
  BY DEF ReceiptInv, RowType, LedgerType
<1>9. /\ row' \in [Receipt -> Rows] /\ row'[r] = new /\ \A q \in Receipt \ {r} : row'[q] = row[q]
      /\ awarded' \in [Receipt -> Int] /\ awarded'[r] = award
      /\ \A q \in Receipt \ {r} : awarded'[q] = awarded[q]
  BY <1>7, <1>8
<1>10. RowType'
  BY <1>6, <1>9 DEF ReceiptInv, RowType
<1>11. WorkerType'
  BY <1>1, WorkerFinishes DEF ReceiptInv
<1>12. LedgerType'
  BY <1>7, <1>9 DEF ReceiptInv, LedgerType
<1>13. Credit(r)'
  <2>1. Credit(r)
    BY DEF ReceiptInv, CreditInv
  <2> QED BY <1>6, <1>7, <1>9, <2>1 DEF Credit, Claimable
<1>14. ASSUME NEW q \in Receipt \ {r} PROVE Credit(q)'
  <2>1. Credit(q)
    BY DEF ReceiptInv, CreditInv
  <2>2. row'[q] = row[q] /\ awarded'[q] = awarded[q]
    BY <1>9
  <2> QED BY <1>7, <2>1, <2>2 DEF Credit
<1>15. RowsKeep
  BY <1>7, <1>9 DEF RowsKeep
<1> QED BY <1>10, <1>11, <1>12, <1>13, <1>14, <1>15 DEF ReceiptInv, CreditInv

LEMMA ReadClaimableStep ==
  ASSUME ReceiptInv, NEW a \in Wallet, ReadClaimable(a)
  PROVE  ReceiptInv' /\ RowsKeep
<1> DEFINE ids == {r \in Receipt : row[r].owner = a /\ row[r].status \in Claimable}
           read == [r \in Receipt |-> IF r \in ids THEN row[r].points ELSE Uncovered]
<1>1. claim' = [claim EXCEPT ![a] = read] /\ UNCHANGED <<row, worker, credited, awarded>>
  BY DEF ReadClaimable
<1>2. row \in [Receipt -> Rows] /\ claim \in [Wallet -> [Receipt -> Points \cup {Uncovered}]]
  BY DEF ReceiptInv, RowType, LedgerType
<1>3. read \in [Receipt -> Points \cup {Uncovered}]
  BY <1>2 DEF Rows
<1>4. claim'[a] = read /\ (\A b \in Wallet \ {a} : claim'[b] = claim[b])
      /\ claim' \in [Wallet -> [Receipt -> Points \cup {Uncovered}]]
  <2> HIDE DEF read
  <2> QED BY <1>1, <1>2, <1>3
<1>5. LedgerType'
  BY <1>1, <1>4 DEF ReceiptInv, LedgerType
<1>6. RowType' /\ WorkerType'
  BY <1>1 DEF ReceiptInv, RowType, WorkerType
<1>7. ASSUME NEW r \in Receipt PROVE Credit(r)'
  <2>1. Credit(r)
    BY DEF ReceiptInv, CreditInv
  <2>2. CASE r \in ids
    <3>1. claim'[a][r] = row[r].points /\ row[r].owner = a /\ row[r].status \in Claimable
      BY <1>4, <2>2
    <3> QED BY <1>1, <1>4, <2>1, <3>1 DEF Credit, Claimable
  <2>3. CASE r \notin ids
    <3>1. claim'[a][r] = Uncovered
      BY <1>4, <2>3
    <3> QED BY <1>1, <1>4, <2>1, <3>1 DEF Credit
  <2> QED BY <2>2, <2>3
<1>8. RowsKeep
  BY <1>1 DEF RowsKeep
<1> QED BY <1>5, <1>6, <1>7, <1>8 DEF ReceiptInv, CreditInv

(* The claim credits what it read, which is the award or nothing, and      *)
(* takes each receipt it covers out of what can be claimed.                *)
LEMMA SettleClaimStep ==
  ASSUME ReceiptInv, NEW a \in Wallet, SettleClaim(a)
  PROVE  ReceiptInv' /\ RowsKeep
<1> DEFINE covered(r) == claim[a][r] # Uncovered
           marked(r) == [row[r] EXCEPT !.status = MarkClaimed(row[r].status)]
<1>1. /\ claim' = [claim EXCEPT ![a] = NoClaim] /\ UNCHANGED <<worker, awarded>>
      /\ credited' = [r \in Receipt |-> IF covered(r) THEN credited[r] + claim[a][r] ELSE credited[r]]
      /\ row' = [r \in Receipt |-> IF covered(r) THEN [row[r] EXCEPT !.status = MarkClaimed(@)] ELSE row[r]]
  BY DEF SettleClaim
<1>2. /\ row \in [Receipt -> Rows] /\ claim \in [Wallet -> [Receipt -> Points \cup {Uncovered}]]
      /\ credited \in [Receipt -> Int] /\ awarded \in [Receipt -> Int]
  BY DEF ReceiptInv, RowType, LedgerType
<1>3. /\ claim'[a] = NoClaim /\ \A b \in Wallet \ {a} : claim'[b] = claim[b]
      /\ claim' \in [Wallet -> [Receipt -> Points \cup {Uncovered}]]
  BY <1>1, <1>2 DEF NoClaim
<1>4. \A r \in Receipt : NoClaim[r] = Uncovered
  BY DEF NoClaim
<1>5. \A s \in Statuses \ {"pending"} : MarkClaimed(s) \in Statuses \ (Claimable \cup {"pending"})
  BY DEF MarkClaimed, Statuses, Claimable
<1>6. ASSUME NEW r \in Receipt, covered(r)
      PROVE  /\ row'[r] = marked(r) /\ marked(r) \in Rows
             /\ row[r].status \in Statuses \ {"pending"} /\ row[r].owner = a
             /\ marked(r).status \in Statuses \ (Claimable \cup {"pending"})
             /\ marked(r).points = row[r].points /\ marked(r).owner = row[r].owner
             /\ marked(r).issuedAt = row[r].issuedAt
             /\ credited'[r] \in {0, awarded[r]} /\ credited'[r] \in Int
  <2>1. Credit(r)
    BY DEF ReceiptInv, CreditInv
  <2>2. row[r].status \in Statuses \ {"pending"} /\ row[r].owner = a
    BY <1>2, <1>6, <2>1 DEF Credit, Rows
  <2>3. MarkClaimed(row[r].status) \in Statuses \ (Claimable \cup {"pending"})
    BY <1>5, <2>2
  <2>4. row[r] \in Rows /\ marked(r) \in Rows /\ marked(r).status = MarkClaimed(row[r].status)
        /\ marked(r).points = row[r].points /\ marked(r).owner = row[r].owner
        /\ marked(r).issuedAt = row[r].issuedAt
    <3> DEFINE s == MarkClaimed(row[r].status)
    <3>1. s \in Statuses
      BY <2>3
    <3> HIDE DEF s
    <3>2. [row[r] EXCEPT !.status = s] \in Rows /\ [row[r] EXCEPT !.status = s].status = s
      BY <1>2, <3>1 DEF Rows
    <3> QED BY <1>2, <3>2 DEF Rows, s
  <2>5. credited'[r] \in {0, awarded[r]} /\ credited'[r] \in Int
    BY <1>1, <1>2, <1>6, <2>1 DEF Credit
  <2>6. row'[r] = marked(r)
    BY <1>1, <1>6
  <2> QED BY <2>2, <2>3, <2>4, <2>5, <2>6
<1>7. ASSUME NEW r \in Receipt, ~covered(r)
      PROVE  row'[r] = row[r] /\ credited'[r] = credited[r]
  BY <1>1, <1>7
<1> HIDE DEF marked
<1>8. row' \in [Receipt -> Rows] /\ credited' \in [Receipt -> Int]
  <2>1. \A r \in Receipt : row'[r] \in Rows /\ credited'[r] \in Int
    BY <1>2, <1>6, <1>7
  <2>2. row' = [r \in Receipt |-> row'[r]] /\ credited' = [r \in Receipt |-> credited'[r]]
    BY <1>1
  <2> QED BY <2>1, <2>2
<1>9. RowType'
  BY <1>6, <1>7, <1>8 DEF ReceiptInv, RowType
<1>10. LedgerType'
  BY <1>1, <1>3, <1>8 DEF ReceiptInv, LedgerType
<1>11. WorkerType'
  BY <1>1 DEF ReceiptInv, WorkerType
<1>12. ASSUME NEW r \in Receipt PROVE Credit(r)'
  <2>1. Credit(r)
    BY DEF ReceiptInv, CreditInv
  <2>2. CASE covered(r)
    <3>1. \A b \in Wallet : claim'[b][r] = Uncovered
      BY <1>3, <1>4, <1>6, <2>1, <2>2 DEF Credit
    <3> QED BY <1>1, <1>6, <2>2, <3>1 DEF Credit, Statuses, Claimable
  <2>3. CASE ~covered(r)
    <3>1. \A b \in Wallet : claim'[b][r] = claim[b][r]
      BY <1>3, <1>4, <2>3
    <3> QED BY <1>1, <1>7, <2>1, <2>3, <3>1 DEF Credit
  <2> QED BY <2>2, <2>3
<1>13. RowsKeep
  BY <1>6, <1>7 DEF RowsKeep
<1> QED BY <1>9, <1>10, <1>11, <1>12, <1>13 DEF ReceiptInv, CreditInv

-----------------------------------------------------------------------------
(* The theorems.                                                           *)

LEMMA ReceiptStep == ReceiptInv /\ [Next]_vars => ReceiptInv' /\ RowsKeep
<1> SUFFICES ASSUME ReceiptInv, [Next]_vars PROVE ReceiptInv' /\ RowsKeep
  OBVIOUS
<1>1. ASSUME UNCHANGED <<row, claim, credited, awarded>>, WorkerType' PROVE ReceiptInv' /\ RowsKeep
  BY <1>1, RowsStand, CreditStep
<1>2. ASSUME UNCHANGED worker PROVE WorkerType'
  BY <1>2 DEF ReceiptInv, WorkerType
<1>3. CASE Upload
  BY <1>3, UploadStep DEF Upload
<1>4. ASSUME NEW m \in Receipt \X Attempts, NEW w \in Worker, Deliver(w, m) PROVE ReceiptInv' /\ RowsKeep
  BY <1>1, <1>4, WorkerTakes DEF Deliver, ReceiptInv
<1>5. ASSUME NEW m \in Receipt \X Attempts, DeliverAgain(m) \/ Lose(m) PROVE ReceiptInv' /\ RowsKeep
  BY <1>1, <1>2, <1>5 DEF DeliverAgain, Lose
<1>6. ASSUME NEW w \in Worker, Consume(w) PROVE ReceiptInv' /\ RowsKeep
  <2>1. CASE Skip(w)
    BY <1>1, <2>1, WorkerFinishes DEF Skip, ReceiptInv
  <2>2. CASE Start(w)
    BY <2>2, StartStep
  <2>3. CASE ModelFails(w)
    BY <2>3, ModelFailsStep
  <2>4. ASSUME NEW fit \in BOOLEAN, NEW issuedAt \in Purchase \cup {NoDate},
               NEW points \in QualityPoints, Grade(w, fit, issuedAt, points)
        PROVE  ReceiptInv' /\ RowsKeep
    <3>1. WorkerType'
      BY <2>4, WorkerGrades DEF ReceiptInv
    <3> QED BY <1>1, <2>4, <3>1 DEF Grade
  <2>5. CASE Recheck(w)
    <3>1. WorkerType'
      <4>1. worker[w].pc # "idle" /\ (worker' = MovesTo(w, "committing") \/ worker' = Finished(w))
        BY <2>5 DEF Recheck
      <4>2. "committing" \in Pcs
        BY DEF Pcs
      <4> QED BY <4>1, <4>2, WorkerMoves, WorkerFinishes DEF ReceiptInv
    <3> QED BY <1>1, <2>5, <3>1 DEF Recheck
  <2>6. CASE Commit(w)
    BY <2>6, CommitStep
  <2>7. CASE UpdateMisses(w)
    BY <1>1, <2>7, WorkerMisses DEF UpdateMisses, ReceiptInv
  <2>8. CASE ReplaceLines(w)
    BY <1>1, <2>8, WorkerFinishes DEF ReplaceLines, ReceiptInv
  <2>9. CASE Retry(w)
    BY <1>1, <2>9, WorkerFinishes DEF Retry, ReceiptInv
  <2>10. CASE GiveUp(w)
    BY <2>10, GiveUpStep
  <2>11. CASE Drop(w)
    BY <1>1, <2>11, WorkerFinishes DEF Drop, ReceiptInv
  <2> QED BY <1>6, <2>1, <2>2, <2>3, <2>4, <2>5, <2>6, <2>7, <2>8, <2>9, <2>10, <2>11 DEF Consume
<1>7. CASE SweepStep
  <2>1. ASSUME NEW ids \in SUBSET Receipt, SelectExpired(ids) \/ SelectStalled(ids) \/ Resend(ids)
        PROVE  ReceiptInv' /\ RowsKeep
    BY <1>1, <1>2, <2>1 DEF SelectExpired, SelectStalled, Resend
  <2> QED BY <1>7, <2>1, AbandonStep, StampStep DEF SweepStep
<1>8. CASE SweepCrashes
  BY <1>1, <1>2, <1>8 DEF SweepCrashes
<1>9. CASE Claim
  BY <1>9, ReadClaimableStep, SettleClaimStep DEF Claim
<1>10. CASE Tick
  BY <1>10, TickStep
<1>11. CASE UNCHANGED vars
  BY <1>1, <1>2, <1>11 DEF vars
<1> QED BY <1>3, <1>4, <1>5, <1>6, <1>7, <1>8, <1>9, <1>10, <1>11 DEF Next, Queue

(* Every reachable state of the queue is well typed in what the proofs     *)
(* need, and each receipt's credit, award and open claims are consistent.  *)
THEOREM ReceiptInvariant == Spec => []ReceiptInv
<1>1. Init => ReceiptInv
  BY ReceiptInitInv
<1>2. ReceiptInv /\ [Next]_vars => ReceiptInv'
  BY ReceiptStep
<1> QED BY <1>1, <1>2, PTL DEF Spec

(* receipt-analysis 240-276, receipt-sweeper 62-64: whatever is lost,      *)
(* repeated, abandoned or graded twice, and however many consumers and     *)
(* wallets there are, a receipt brings its balance what the verdict that   *)
(* settled it awarded, once, or nothing.                                   *)
THEOREM ReceiptCreditFollowsVerdict == Spec => []CreditFollowsVerdict
<1>1. ReceiptInv => CreditFollowsVerdict
  BY DEF ReceiptInv, CreditInv, Credit, CreditFollowsVerdict
<1> QED BY <1>1, ReceiptInvariant, PTL

(* receipt-analysis 182-187: a settled receipt is never scored again: it   *)
(* does not become pending, keeps the purchase it was settled with, and    *)
(* keeps its points or is knocked down to none.                            *)
THEOREM ReceiptNeverRescored == Spec => NeverRescored
<1>1. ReceiptInv /\ [Next]_vars =>
        [\A r \in Receipt : row[r].status \notin {"absent", "pending"} =>
            /\ row[r]'.status # "pending"
            /\ row[r]'.points \in {row[r].points, 0}
            /\ row[r]'.issuedAt = row[r].issuedAt]_vars
  BY ReceiptStep DEF RowsKeep
<1> QED BY <1>1, ReceiptInvariant, PTL DEF Spec, NeverRescored

-----------------------------------------------------------------------------
(* The mailbox.  Types of the table, of the handlers and of the screen.    *)

Mailboxes == {normalizeEmail[t] : t \in Typed}
CodeRows == [user: User, chain: Chain, email: Mailboxes \cup {Nobody}, sentAt: Nat, expiresAt: Nat,
             attempts: Nat, isVerified: BOOLEAN]
Replied == {"none", "ok", "refused", "invalid", "mail failed", "lost"}
Requests == [at: {"free", "sent", "admitted", "unused", "allowed", "match", "wrong", "free to keep", "back", "resolved"},
             kind: {"none", "status", "send", "verify"}, user: User, chain: Chain, address: Mailboxes \cup {Nobody},
             code: Nat, row: Nat, seen: Nat, reply: Replied]

TableType == rows \in Seq(CodeRows) /\ tries \in Seq(Nat) /\ Len(tries) = Len(rows) /\ minutes \in Nat
\* until when a code may not be asked for again is nobody's concern here
Stores(C) == [isVerified: BOOLEAN, isLoading: BOOLEAN, cooldownUntil: C, attemptsRemaining: Nat]
ScreenType ==
    /\ \E C : email \in Stores(C)
    /\ screen \in [step: {"away", "email", "otp", "success"}, justVerified: BOOLEAN, mine: BOOLEAN]
MailType ==
    /\ TableType /\ ScreenType
    /\ request \in [Slot -> Requests]
    /\ elsewhere \in [User -> Nat] /\ mishaps \in Nat

LEMMA LatestIsNewest ==
  ASSUME MailType, NEW S, S \subseteq Numbers
  PROVE  /\ Latest(S) \in Nat
         /\ S = {} => Latest(S) = 0
         /\ S # {} => Latest(S) \in S /\ \A j \in S : j <= Latest(S)
<1> DEFINE n == Len(rows)
<1>1. n \in Nat
  BY DEF MailType, TableType
<1>2. CASE S = {}
  BY <1>2 DEF Latest
<1>3. CASE S # {}
  <2> DEFINE T == {n - i : i \in S}
  <2>0. \A i \in S : i \in Nat /\ n - i \in Nat
    BY <1>1 DEF Numbers
  <2>1. T \in SUBSET Nat /\ T # {}
    <3> HIDE DEF n
    <3> QED BY <1>3, <2>0
  <2>2. PICK m \in T : \A k \in T : m <= k
    <3> HIDE DEF T
    <3> QED BY <2>1, Least
  <2>3. PICK i \in S : m = n - i
    BY <2>2
  <2>4. \A j \in S : j <= i
    <3> SUFFICES ASSUME NEW j \in S PROVE j <= i
      OBVIOUS
    <3>1. n - j \in T
      OBVIOUS
    <3>2. n - i <= n - j
      BY <2>2, <2>3, <3>1
    <3> QED BY <1>1, <3>2 DEF Numbers
  <2> HIDE DEF T, n
  <2>5. \E k \in S : \A j \in S : j <= k
    BY <2>4
  <2>6. Latest(S) \in S /\ \A j \in S : j <= Latest(S)
    BY <1>3, <2>5, Zenon DEF Latest
  <2>7. Latest(S) \in Nat
    <3>1. Latest(S) \in Numbers
      BY <1>3, <2>6
    <3> QED BY <3>1 DEF Numbers
  <2> QED BY <1>3, <2>6, <2>7
<1> QED BY <1>2, <1>3

LEMMA MailTypeStarts == EmailInit => MailType
<1> SUFFICES ASSUME EmailInit PROVE MailType
  OBVIOUS
<1>1. Free \in Requests
  BY EmailAssumption DEF Free, Requests, Replied
<1>2. email \in Stores({0})
  BY DEF EmailInit, Stores
<1>3. ScreenType
  BY <1>2 DEF EmailInit, ScreenType, Away
<1> QED BY <1>1, <1>3 DEF EmailInit, MailType, TableType

(* What an answer, or a question, makes of the handlers.                   *)
LEMMA RequestType ==
  ASSUME MailType, NEW s \in Slot
  PROVE  /\ Free \in Requests
         /\ \A at \in {"free", "sent", "admitted", "unused", "allowed", "match", "wrong", "free to keep", "back", "resolved"} :
                Goes(s, at) => request' \in [Slot -> Requests]
         /\ \A reply \in Replied, i \in Nat : Answers(s, reply, i) => request' \in [Slot -> Requests]
         /\ \A kind \in {"status", "send", "verify"}, u \in User, ch \in Chain, t \in Typed \cup {Nobody}, c \in Nat :
                Asks(s, kind, u, ch, t, c) => request' \in [Slot -> Requests]
         /\ Frees(s) => request' \in [Slot -> Requests]
<1>1. Free \in Requests
  BY EmailAssumption DEF Free, Requests, Replied
<1>2. request \in [Slot -> Requests]
  BY DEF MailType
<1>3. ASSUME NEW at \in {"free", "sent", "admitted", "unused", "allowed", "match", "wrong", "free to keep", "back", "resolved"},
             Goes(s, at)
      PROVE  request' \in [Slot -> Requests]
  BY <1>2, <1>3 DEF Goes, Requests
<1>4. ASSUME NEW reply \in Replied, NEW i \in Nat, Answers(s, reply, i)
      PROVE  request' \in [Slot -> Requests]
  <2>1. [Free EXCEPT !.at = "back", !.kind = request[s].kind, !.reply = reply, !.row = i] \in Requests
    BY <1>1, <1>2 DEF Requests
  <2> QED BY <1>1, <1>2, <1>4, <2>1 DEF Answers
<1>5. ASSUME NEW kind \in {"status", "send", "verify"}, NEW u \in User, NEW ch \in Chain,
             NEW t \in Typed \cup {Nobody}, NEW c \in Nat, Asks(s, kind, u, ch, t, c)
      PROVE  request' \in [Slot -> Requests]
  <2> DEFINE a == IF t = Nobody THEN Nobody ELSE Mailbox(t)
  <2>1. a \in Mailboxes \cup {Nobody}
    BY DEF Mailboxes, Mailbox
  <2> HIDE DEF a
  <2>2. [Free EXCEPT !.at = "sent", !.kind = kind, !.user = u, !.chain = ch, !.code = c, !.address = a] \in Requests
    BY <1>1, <2>1 DEF Requests
  <2> QED BY <1>2, <1>5, <2>2 DEF Asks, a
<1> QED BY <1>1, <1>2, <1>3, <1>4, <1>5 DEF Frees

(* An entry of a list is changed, or there is none by that number.         *)
LEMMA RowChanged ==
  ASSUME MailType, NEW i \in Nat
  PROVE  /\ \A n \in Nat : rows' = [rows EXCEPT ![i].attempts = n] => rows' \in Seq(CodeRows) /\ Len(rows') = Len(rows)
         /\ rows' = [rows EXCEPT ![i].isVerified = TRUE] => rows' \in Seq(CodeRows) /\ Len(rows') = Len(rows)
         /\ tries' = [tries EXCEPT ![i] = @ + 1] => tries' \in Seq(Nat) /\ Len(tries') = Len(tries)
<1>1. rows \in Seq(CodeRows) /\ tries \in Seq(Nat)
  BY DEF MailType, TableType
<1>2. ASSUME NEW S, NEW q \in Seq(S), NEW e, i \in 1 .. Len(q) => e \in S
      PROVE  [q EXCEPT ![i] = e] \in Seq(S) /\ Len([q EXCEPT ![i] = e]) = Len(q)
  <2>1. CASE i \in 1 .. Len(q)
    BY <1>2, <2>1, ExceptSeq
  <2>2. CASE i \notin 1 .. Len(q)
    <3>1. DOMAIN q = 1 .. Len(q) /\ q \in [1 .. Len(q) -> S]
      BY LenProperties
    <3>2. [q EXCEPT ![i] = e] = q
      BY <2>2, <3>1
    <3> QED BY <3>2
  <2> QED BY <2>1, <2>2
<1>3. i \in 1 .. Len(rows) => rows[i] \in CodeRows
  BY <1>1
<1>4. i \in 1 .. Len(tries) => tries[i] + 1 \in Nat
  BY <1>1
<1>5. \A n \in Nat : i \in 1 .. Len(rows) => [rows[i] EXCEPT !.attempts = n] \in CodeRows
  BY <1>3 DEF CodeRows
<1>6. i \in 1 .. Len(rows) => [rows[i] EXCEPT !.isVerified = TRUE] \in CodeRows
  BY <1>3 DEF CodeRows
<1>7. ASSUME NEW n \in Nat, rows' = [rows EXCEPT ![i].attempts = n]
      PROVE  rows' \in Seq(CodeRows) /\ Len(rows') = Len(rows)
  BY <1>1, <1>2, <1>5, <1>7
<1>8. ASSUME rows' = [rows EXCEPT ![i].isVerified = TRUE]
      PROVE  rows' \in Seq(CodeRows) /\ Len(rows') = Len(rows)
  BY <1>1, <1>2, <1>6, <1>8
<1>9. ASSUME tries' = [tries EXCEPT ![i] = @ + 1]
      PROVE  tries' \in Seq(Nat) /\ Len(tries') = Len(tries)
  BY <1>1, <1>2, <1>4, <1>9
<1> QED BY <1>7, <1>8, <1>9

LEMMA HandlersKeepType ==
  ASSUME MailType, NEW s \in Slot, Handles(s)
  PROVE  MailType'
<1> DEFINE r == request[s]
<1>0. /\ r \in Requests /\ r.user \in User /\ r.chain \in Chain /\ r.address \in Mailboxes \cup {Nobody}
      /\ r.row \in Nat /\ r.seen \in Nat
  BY DEF MailType, Requests
<1>a. OTP_EXPIRY \in Nat /\ minutes \in Nat /\ Len(rows) \in Nat
  BY EmailAssumption DEF MailType, TableType
<1>1. ScreenType' /\ elsewhere' \in [User -> Nat] /\ mishaps' \in Nat /\ minutes' \in Nat
  BY DEF Handles, MailType, TableType, ScreenType
<1>2. CASE SendAdmits(s) \/ SendChecksEmail(s) \/ SendChecksRate(s) \/ VerifyRechecks(s) \/ ReadStatus(s)
  <2>1. TableType'
    BY <1>1, <1>2 DEF MailType, TableType, SendAdmits, SendChecksEmail, SendChecksRate, VerifyRechecks, ReadStatus
  <2>2. request' \in [Slot -> Requests]
    BY <1>2, RequestType DEF SendAdmits, SendChecksEmail, SendChecksRate, VerifyRechecks, ReadStatus, Replies, Replied
  <2> QED BY <1>1, <2>1, <2>2 DEF MailType
<1>3. CASE SendWrites(s)
  <2> DEFINE e == [user |-> r.user, chain |-> r.chain, email |-> r.address, sentAt |-> minutes,
                   expiresAt |-> minutes + OTP_EXPIRY, attempts |-> 0, isVerified |-> FALSE]
  <2>1. e \in CodeRows
    BY <1>0, <1>a DEF CodeRows
  <2>2. rows' = Append(rows, e) /\ tries' = Append(tries, 0)
    BY <1>3 DEF SendWrites
  <2> HIDE DEF e
  <2>3. TableType' /\ Len(rows') \in Nat
    BY <1>1, <2>1, <2>2 DEF MailType, TableType
  <2>4. request' \in [Slot -> Requests]
    BY <1>3, <2>3, RequestType DEF SendWrites, sendOtpEmail, Replies, Replied
  <2> QED BY <1>1, <2>3, <2>4 DEF MailType
<1>4. CASE VerifyReads(s)
  <2> DEFINE i == Latest(Pending(r.user, r.chain))
  <2>1. i \in Nat /\ (i # 0 => i \in Numbers)
    BY LatestIsNewest DEF Pending
  <2>2. TableType'
    BY <1>1, <1>4 DEF MailType, TableType, VerifyReads
  <2>3. request' \in [Slot -> Requests]
    <3>1. CASE Replies(s, "refused")
      BY <3>1, RequestType DEF Replies, Replied
    <3>2. CASE ~ Replies(s, "refused")
      <4>1. i # 0 /\ \E at \in {"match", "wrong"} :
              request' = [request EXCEPT ![s] = [r EXCEPT !.at = at, !.code = 0, !.row = i, !.seen = rows[i].attempts]]
        BY <1>4, <3>2 DEF VerifyReads
      <4> HIDE DEF i
      <4>2. rows[i] \in CodeRows
        BY <2>1, <4>1 DEF MailType, TableType, Numbers
      <4>3. rows[i].attempts \in Nat
        BY <4>2 DEF CodeRows
      <4>4. \A at \in {"match", "wrong"} :
              [r EXCEPT !.at = at, !.code = 0, !.row = i, !.seen = rows[i].attempts] \in Requests
        BY <1>0, <2>1, <4>3 DEF Requests
      <4> QED BY <4>1, <4>4 DEF MailType
    <3> QED BY <3>1, <3>2
  <2> QED BY <1>1, <2>2, <2>3 DEF MailType
<1>5. CASE VerifyCounts(s)
  <2>1. rows' = [rows EXCEPT ![r.row].attempts = r.seen + 1] /\ tries' = [tries EXCEPT ![r.row] = @ + 1] /\ Replies(s, "invalid")
    BY <1>5 DEF VerifyCounts, CountedFrom
  <2>a. r.seen + 1 \in Nat
    BY <1>0
  <2>2. rows' \in Seq(CodeRows) /\ Len(rows') = Len(rows)
    BY <1>0, <2>1, <2>a, RowChanged
  <2>3. tries' \in Seq(Nat) /\ Len(tries') = Len(tries)
    BY <1>0, <2>1, RowChanged
  <2>4. request' \in [Slot -> Requests]
    BY <2>1, RequestType DEF Replies, Replied
  <2> QED BY <1>1, <2>2, <2>3, <2>4 DEF MailType, TableType
<1>6. CASE VerifyWrites(s)
  <2>1. rows' = [rows EXCEPT ![r.row].isVerified = TRUE] /\ tries' = tries /\ Replies(s, "ok")
    BY <1>6 DEF VerifyWrites
  <2>2. rows' \in Seq(CodeRows) /\ Len(rows') = Len(rows)
    BY <1>0, <2>1, RowChanged
  <2>3. request' \in [Slot -> Requests]
    BY <2>1, RequestType DEF Replies, Replied
  <2> QED BY <1>1, <2>1, <2>2, <2>3 DEF MailType, TableType
<1> QED BY <1>2, <1>3, <1>4, <1>5, <1>6 DEF Handles

LEMMA ScreenKeepsType ==
  ASSUME MailType, EmailNext, ~ \E s \in Slot : Handles(s)
  PROVE  MailType'
<1>0. "status" \in Slot /\ "form" \in Slot /\ "other" \in Slot /\ Visitor \in User /\ Here \in Chain /\ Nobody \in Typed \cup {Nobody}
  BY EmailAssumption DEF Slot, Here
<1>a. PICK C : email \in Stores(C)
  BY DEF MailType, ScreenType
<1>c. screen \in [step: {"away", "email", "otp", "success"}, justVerified: BOOLEAN, mine: BOOLEAN]
  BY DEF MailType, ScreenType
<1>1. ASSUME NEW n \in Nat, Mishap(n) PROVE mishaps' \in Nat
  BY <1>1 DEF Mishap, MailType
<1>2. ASSUME NEW s \in Slot, NEW kind, NEW u, NEW ch, NEW t, NEW c, Asks(s, kind, u, ch, t, c)
      PROVE  mishaps' \in Nat
  BY <1>1, <1>2 DEF Asks
<1>3. UNCHANGED <<minutes, rows, tries>> => TableType'
  BY DEF MailType, TableType
<1>4. UNCHANGED <<email, screen>> => ScreenType'
  BY DEF MailType, ScreenType
<1>5. \A s \in Slot : Frees(s) => request' \in [Slot -> Requests]
  BY RequestType
<1>6. ASSUME NEW s \in Slot, LoseAnswer(s) PROVE MailType'
  <2>1. request' \in [Slot -> Requests]
    BY <1>6, RequestType DEF LoseAnswer, Replies, Replied
  <2> QED BY <1>1, <1>3, <1>4, <1>6, <2>1 DEF LoseAnswer, MailType
<1>7. CASE Arrive
  <2>1. request' \in [Slot -> Requests] /\ mishaps' \in Nat
    BY <1>0, <1>2, <1>7, RequestType DEF Arrive
  <2>2. ScreenType'
    BY <1>a, <1>c, <1>7 DEF Arrive, Stores, ScreenType
  <2> QED BY <1>3, <1>7, <2>1, <2>2 DEF Arrive, Outside, MailType
<1>8. CASE checkStatus
  <2>1. ScreenType'
    BY <1>a, <1>c, <1>8 DEF checkStatus, Stores, ScreenType
  <2> QED BY <1>0, <1>3, <1>5, <1>8, <2>1 DEF checkStatus, Outside, MailType
<1>9. ASSUME NEW t \in Typed, handleSendCode(t) PROVE MailType'
  <2>1. request' \in [Slot -> Requests] /\ mishaps' \in Nat
    BY <1>0, <1>2, <1>9, RequestType DEF handleSendCode
  <2>2. ScreenType'
    BY <1>a, <1>c, <1>9 DEF handleSendCode, Stores, ScreenType
  <2> QED BY <1>3, <1>9, <2>1, <2>2 DEF handleSendCode, Outside, MailType
<1>10. CASE sendCode
  <2>1. CASE request["form"].reply = "ok"
    <3>1. PICK n : email' = [email EXCEPT !.isLoading = FALSE, !.attemptsRemaining = MAX_OTP_ATTEMPTS, !.cooldownUntil = n]
      BY <1>10, <2>1 DEF sendCode, RemainingAfresh
    <3>2. MAX_OTP_ATTEMPTS \in Nat
      BY EmailAssumption
    <3>3. email' \in Stores({n})
      BY <1>a, <3>1, <3>2 DEF Stores
    <3>4. ScreenType'
      BY <1>10, <1>c, <2>1, <3>3 DEF sendCode, ScreenType
    <3> QED BY <1>0, <1>3, <1>5, <1>10, <3>4 DEF sendCode, Outside, MailType
  <2>2. CASE request["form"].reply # "ok"
    <3>1. ScreenType'
      BY <1>a, <1>c, <1>10, <2>2 DEF sendCode, Stores, ScreenType
    <3> QED BY <1>0, <1>3, <1>5, <1>10, <3>1 DEF sendCode, Outside, MailType
  <2> QED BY <2>1, <2>2
<1>11. ASSUME NEW c \in Nat, handleVerifyCode(c) PROVE MailType'
  <2>1. request' \in [Slot -> Requests] /\ mishaps' \in Nat
    BY <1>0, <1>2, <1>11, RequestType DEF handleVerifyCode
  <2>2. ScreenType'
    BY <1>a, <1>c, <1>11 DEF handleVerifyCode, Stores, ScreenType
  <2> QED BY <1>3, <1>11, <2>1, <2>2 DEF handleVerifyCode, Outside, MailType
<1>12. CASE verifyCode
  <2>1. request' \in [Slot -> Requests]
    BY <1>0, <1>5, <1>12, RequestType DEF verifyCode
  <2>2. ScreenType'
    <3>1. \A n \in Nat : OneLess(n) \in Nat
      BY DEF OneLess
    <3> QED BY <1>a, <1>c, <1>12, <3>1 DEF verifyCode, Stores, ScreenType
  <2> QED BY <1>3, <1>12, <2>1, <2>2 DEF verifyCode, Outside, MailType
<1>13. CASE VerifyContinues
  <2>1. ScreenType'
    BY <1>a, <1>c, <1>13 DEF VerifyContinues, Stores, ScreenType
  <2> QED BY <1>0, <1>3, <1>5, <1>13, <2>1 DEF VerifyContinues, Outside, MailType
<1>14. CASE RedirectWhenVerified \/ handleResendCode \/ handleBack
  <2>1. UNCHANGED <<email, request, mishaps, Outside>>
    BY <1>14 DEF RedirectWhenVerified, handleResendCode, handleBack
  <2>2. screen' \in {Away, [screen EXCEPT !.step = "email"]}
    BY <1>14 DEF RedirectWhenVerified, handleResendCode, handleBack
  <2>3. screen' \in [step: {"away", "email", "otp", "success"}, justVerified: BOOLEAN, mine: BOOLEAN]
    <3>1. CASE screen' = Away
      BY <3>1 DEF Away
    <3>2. CASE screen' = [screen EXCEPT !.step = "email"]
      BY <1>c, <3>2
    <3> QED BY <2>2, <3>1, <3>2
  <2>4. ScreenType'
    BY <1>a, <2>1, <2>3 DEF ScreenType
  <2> QED BY <1>3, <2>1, <2>4 DEF Outside, MailType
<1>15. ASSUME NEW kind \in {"send", "verify"}, NEW u \in User, NEW ch \in Chain, NEW t \in Typed \cup {Nobody}, NEW c \in Nat,
              Elsewhere(kind, u, ch, t, c)
       PROVE  MailType'
  <2>1. request' \in [Slot -> Requests] /\ mishaps' \in Nat
    BY <1>0, <1>2, <1>15, RequestType DEF Elsewhere
  <2>2. elsewhere' \in [User -> Nat]
    BY <1>15 DEF Elsewhere, MailType
  <2> QED BY <1>3, <1>4, <1>15, <2>1, <2>2 DEF Elsewhere, MailType
<1>16. CASE EmailTick
  BY <1>4, <1>16 DEF EmailTick, MailType, TableType
<1>17. 0 .. Len(rows) \subseteq Nat /\ 0 \in Nat /\ Typed \subseteq Typed \cup {Nobody}
  BY DEF MailType, TableType
<1> QED BY <1>0, <1>6, <1>7, <1>8, <1>9, <1>10, <1>11, <1>12, <1>13, <1>14, <1>15, <1>16, <1>17 DEF EmailNext

LEMMA MailTypeKept == MailType /\ [EmailNext]_emailVars => MailType'
<1>1. ASSUME MailType, EmailNext PROVE MailType'
  BY <1>1, HandlersKeepType, ScreenKeepsType
<1>2. ASSUME MailType, UNCHANGED emailVars PROVE MailType'
  BY <1>2 DEF MailType, TableType, ScreenType, emailVars
<1> QED BY <1>1, <1>2

-----------------------------------------------------------------------------
(* While nothing overlapped and nothing was lost: one handler is at work,  *)
(* and what it read of the table still stands when it writes.              *)

Alone ==
    /\ \A s, t \in Slot : request[s].at # "free" /\ request[t].at # "free" => s = t
    /\ \A s \in Slot : request[s].reply # "lost"

(* A code is guessed at as often as its row says; rows are in the order of *)
(* their times, far enough apart; a mailbox is verified once.              *)
Counted == \A i \in Numbers : tries[i] = rows[i].attempts /\ rows[i].attempts <= MAX_OTP_ATTEMPTS
InOrder ==
    /\ \A i, j \in Numbers : i <= j => rows[i].sentAt <= rows[j].sentAt
    /\ \A i \in Numbers : rows[i].sentAt <= minutes
Before(i) == {j \in SentSince(rows[i].user, rows[i].chain, rows[i].sentAt - RATE_LIMIT_WINDOW) : j <= i}
Spaced ==
    \A i \in Numbers :
        /\ Cardinality(Before(i)) <= RATE_LIMIT_MAX_OTPS
        /\ \A j \in Before(i) \ {i} : rows[i].sentAt - rows[j].sentAt >= COOLDOWN
OwnedOnce ==
    \A i, j \in Numbers :
        rows[i].isVerified /\ rows[j].isVerified /\ rows[i].chain = rows[j].chain /\ rows[i].email = rows[j].email
            => i = j
RowsInv == Counted /\ InOrder /\ Spaced /\ OwnedOnce

(* What a handler that will write a row has found.                         *)
Room(user, chain) ==
    LET recent == SentSince(user, chain, minutes - RATE_LIMIT_WINDOW) IN
    /\ Cardinality(recent) < RATE_LIMIT_MAX_OTPS
    /\ \A j \in recent : minutes - rows[j].sentAt >= COOLDOWN
Holding(r) ==
    /\ r.row \in Pending(r.user, r.chain) /\ r.row = Latest(Pending(r.user, r.chain))
    /\ r.seen = rows[r.row].attempts /\ r.seen < MAX_OTP_ATTEMPTS
Found(s) ==
    LET r == request[s] IN
    /\ r.at = "allowed" => Room(r.user, r.chain)
    /\ r.at \in {"match", "wrong", "free to keep"} => Holding(r)
    /\ r.at = "free to keep" => HeldBy(rows[r.row].email, r.chain) = {}
FoundInv == \A s \in Slot : Found(s)

TableInv == Alone /\ RowsInv /\ FoundInv

LEMMA CalmBefore ==
  ASSUME MailType, EmailNext, calm'
  PROVE  /\ calm
         /\ \A s \in Slot : ~ LoseAnswer(s)
         /\ \A s \in Slot : \A kind, u, ch, t, c : Asks(s, kind, u, ch, t, c) => Quiescent
<1>1. mishaps' = 0 /\ mishaps \in Nat
  BY DEF calm, MailType
<1>2. ASSUME NEW n \in Nat, Mishap(n) PROVE mishaps = 0 /\ n = 0
  BY <1>1, <1>2 DEF Mishap
<1>3. \A s \in Slot : ~ LoseAnswer(s)
  BY <1>2 DEF LoseAnswer
<1>4. ASSUME NEW s \in Slot, NEW kind, NEW u, NEW ch, NEW t, NEW c, Asks(s, kind, u, ch, t, c)
      PROVE  mishaps = 0 /\ Quiescent
  BY <1>2, <1>4 DEF Asks
<1>5. mishaps' = mishaps => calm
  BY <1>1 DEF calm
<1>6. "status" \in Slot /\ "form" \in Slot /\ "other" \in Slot
  BY DEF Slot
<1>7. mishaps = 0 \/ mishaps' = mishaps
  BY <1>3, <1>4, <1>6 DEF EmailNext, Handles, Arrive, checkStatus, sendCode, verifyCode, VerifyContinues,
     RedirectWhenVerified, handleResendCode, handleBack, handleSendCode, handleVerifyCode, Elsewhere, EmailTick
<1> QED BY <1>3, <1>4, <1>5, <1>7 DEF calm

(* What the screen and the others' requests do to the handlers: one that   *)
(* is not at rest afterwards has just been asked, or is as it was.         *)
LEMMA ScreenMoves ==
  ASSUME MailType, EmailNext, calm', ~ \E s \in Slot : Handles(s)
  PROVE  /\ UNCHANGED <<rows, tries>>
         /\ UNCHANGED minutes \/ EmailTick
         /\ \/ UNCHANGED request
            \/ \E s \in {"status", "form"} : Frees(s) \/ (s = "form" /\ Back(s, "verify") /\ Goes(s, "resolved"))
            \/ \E s \in Slot, kind \in {"status", "send", "verify"}, u \in User, ch \in Chain, t \in Typed \cup {Nobody}, c \in Nat :
                    Quiescent /\ Asks(s, kind, u, ch, t, c)
<1>1. "status" \in Slot /\ "form" \in Slot /\ "other" \in Slot /\ Visitor \in User /\ Here \in Chain /\ 0 \in Nat
  BY EmailAssumption DEF Slot, Here
<1>2. 0 .. Len(rows) \subseteq Nat
  BY DEF MailType, TableType
<1>3. \A s \in Slot : \A kind, u, ch, t, c : Asks(s, kind, u, ch, t, c) => Quiescent
  BY CalmBefore
<1>4. \A s \in Slot : ~ LoseAnswer(s)
  BY CalmBefore
<1>5. CASE \/ checkStatus \/ sendCode \/ verifyCode \/ VerifyContinues \/ RedirectWhenVerified \/ handleResendCode \/ handleBack
  BY <1>5 DEF checkStatus, sendCode, verifyCode, VerifyContinues, RedirectWhenVerified, handleResendCode, handleBack, Outside
<1>6. CASE Arrive
  BY <1>1, <1>3, <1>6 DEF Arrive, Outside
<1>7. ASSUME NEW t \in Typed, handleSendCode(t) PROVE UNCHANGED <<rows, tries, minutes>> /\ Quiescent /\ Asks("form", "send", Visitor, Here, t, 0)
  BY <1>1, <1>3, <1>7 DEF handleSendCode, Outside
<1>8. ASSUME NEW c \in Nat, handleVerifyCode(c) PROVE UNCHANGED <<rows, tries, minutes>> /\ Quiescent /\ Asks("form", "verify", Visitor, Here, Nobody, c)
  BY <1>1, <1>3, <1>8 DEF handleVerifyCode, Outside
<1>9. ASSUME NEW kind, NEW u, NEW ch, NEW t, NEW c, Elsewhere(kind, u, ch, t, c)
      PROVE UNCHANGED <<rows, tries, minutes>> /\ Quiescent /\ Asks("other", kind, u, ch, t, c)
  BY <1>1, <1>3, <1>9 DEF Elsewhere
<1>10. CASE EmailTick
  BY <1>10 DEF EmailTick
<1> QED BY <1>1, <1>2, <1>4, <1>5, <1>6, <1>7, <1>8, <1>9, <1>10 DEF EmailNext

LEMMA HandlerMoves ==
  ASSUME MailType, NEW s \in Slot, Handles(s)
  PROVE  /\ request[s].at \notin {"free", "back", "resolved"}
         /\ \A t \in Slot \ {s} : request'[t] = request[t]
         /\ request'[s].reply = "lost" => request[s].reply = "lost"
<1>1. request \in [Slot -> Requests]
  BY DEF MailType
<1>2. request[s].at \notin {"free", "back", "resolved"}
  BY DEF Handles, SendAdmits, SendChecksEmail, SendChecksRate, SendWrites, VerifyReads, VerifyCounts, VerifyRechecks,
     VerifyWrites, ReadStatus
<1>3. ASSUME NEW reply, NEW i, Answers(s, reply, i), reply # "lost"
      PROVE  (\A t \in Slot \ {s} : request'[t] = request[t]) /\ (request'[s].reply = "lost" => request[s].reply = "lost")
  BY <1>1, <1>3 DEF Answers, Free
<1>4. ASSUME NEW at, Goes(s, at)
      PROVE  (\A t \in Slot \ {s} : request'[t] = request[t]) /\ (request'[s].reply = "lost" => request[s].reply = "lost")
  BY <1>1, <1>4 DEF Goes, Requests
<1>5. CASE VerifyReads(s) /\ ~ Replies(s, "refused")
  BY <1>1, <1>5 DEF VerifyReads, Requests
<1> QED BY <1>2, <1>3, <1>4, <1>5 DEF Handles, SendAdmits, SendChecksEmail, SendChecksRate, SendWrites, sendOtpEmail,
     VerifyReads, VerifyCounts, VerifyRechecks, VerifyWrites, ReadStatus, Replies

LEMMA AloneKept ==
  ASSUME MailType, EmailNext, calm', Alone
  PROVE  Alone'
<1>1. request \in [Slot -> Requests] /\ request' \in [Slot -> Requests]
  BY MailTypeKept DEF MailType
<1>2. ASSUME NEW s \in Slot, Handles(s) PROVE Alone'
  BY <1>2, HandlerMoves DEF Alone
<1>3. CASE ~ \E s \in Slot : Handles(s)
  <2>1. CASE UNCHANGED request
    BY <2>1 DEF Alone
  <2>2. ASSUME NEW s \in Slot, Frees(s) PROVE Alone'
    BY <1>1, <2>2 DEF Alone, Frees, Free
  <2>3. ASSUME NEW s \in Slot, Back(s, "verify"), Goes(s, "resolved") PROVE Alone'
    <3>1. \A x \in Requests : [x EXCEPT !.at = "resolved"].reply = x.reply
      BY DEF Requests
    <3>2. \A t \in Slot : request'[t].reply = request[t].reply /\ (request[t].at = "free" => request'[t].at = "free")
      BY <1>1, <2>3, <3>1 DEF Goes, Back
    <3> QED BY <3>2 DEF Alone
  <2>4. ASSUME NEW s \in Slot, NEW kind, NEW u, NEW ch, NEW t, NEW c, Quiescent, Asks(s, kind, u, ch, t, c) PROVE Alone'
    BY <1>1, <2>4 DEF Alone, Quiescent, Asks, Free
  <2>5. {"status", "form"} \subseteq Slot
    BY DEF Slot
  <2> QED BY <1>3, <2>1, <2>2, <2>3, <2>4, <2>5, ScreenMoves
<1> QED BY <1>2, <1>3

LEMMA RowsAreFinite ==
  ASSUME MailType, NEW S, S \subseteq Numbers
  PROVE  IsFiniteSet(S) /\ Cardinality(S) \in Nat
<1>1. IsFiniteSet(Numbers)
  BY FS_Interval DEF MailType, TableType, Numbers
<1> QED BY <1>1, FS_Subset, FS_CardinalityType

(* A row that is counted or verified keeps whose it is, and its time.      *)
LEMMA SameTimes ==
  ASSUME MailType, RowsInv, Len(rows') = Len(rows), UNCHANGED minutes,
         \A i \in Numbers : rows'[i].user = rows[i].user /\ rows'[i].chain = rows[i].chain /\ rows'[i].sentAt = rows[i].sentAt
  PROVE  InOrder' /\ Spaced'
<1>1. Numbers' = Numbers
  BY DEF Numbers
<1>2. InOrder'
  BY <1>1 DEF RowsInv, InOrder
<1>3. \A i \in Numbers : Before(i)' = Before(i)
  BY <1>1 DEF Before, SentSince
<1>4. \A i \in Numbers : Before(i) \subseteq Numbers
  BY DEF Before, SentSince
<1>5. Spaced'
  BY <1>1, <1>3, <1>4 DEF RowsInv, Spaced
<1> QED BY <1>2, <1>5

LEMMA AppendedRow ==
  ASSUME MailType, NEW e, rows' = Append(rows, e), tries' = Append(tries, 0)
  PROVE  LET n == Len(rows) IN
         /\ n \in Nat /\ Len(rows') = n + 1 /\ rows'[n + 1] = e /\ tries'[n + 1] = 0
         /\ \A i \in 1 .. n : rows'[i] = rows[i] /\ tries'[i] = tries[i]
<1>1. rows \in Seq(CodeRows) /\ tries \in Seq(Nat) /\ Len(tries) = Len(rows)
  BY DEF MailType, TableType
<1> QED BY <1>1

LEMMA SendKeepsRows ==
  ASSUME MailType, RowsInv, FoundInv, NEW s \in Slot, SendWrites(s), UNCHANGED minutes
  PROVE  RowsInv'
<1> SUFFICES ASSUME NEW n \in Nat, n = Len(rows) PROVE RowsInv'
  BY DEF MailType, TableType
<1> DEFINE r == request[s]
           e == [user |-> r.user, chain |-> r.chain, email |-> r.address, sentAt |-> minutes,
                 expiresAt |-> minutes + OTP_EXPIRY, attempts |-> 0, isVerified |-> FALSE]
           recent == SentSince(r.user, r.chain, minutes - RATE_LIMIT_WINDOW)
<1>1. rows' = Append(rows, e) /\ tries' = Append(tries, 0)
  BY DEF SendWrites
<1>2. /\ n \in Nat /\ Len(rows') = n + 1 /\ rows'[n + 1] = e /\ tries'[n + 1] = 0
      /\ \A i \in 1 .. n : rows'[i] = rows[i] /\ tries'[i] = tries[i]
  <2> HIDE DEF e
  <2> QED BY <1>1, AppendedRow
<1>3. /\ e.user = r.user /\ e.chain = r.chain /\ e.sentAt = minutes /\ e.attempts = 0 /\ e.isVerified = FALSE
      /\ minutes \in Nat /\ MAX_OTP_ATTEMPTS \in Nat /\ RATE_LIMIT_MAX_OTPS \in Nat /\ RATE_LIMIT_WINDOW \in Nat \ {0}
  BY EmailAssumption DEF MailType, TableType
<1>4. Numbers = 1 .. n /\ Numbers' = 1 .. (n + 1)
  BY <1>2 DEF Numbers
<1>5. Numbers' = Numbers \cup {n + 1} /\ n + 1 \notin Numbers
  BY <1>2, <1>4
<1>a. \A i \in Numbers : rows[i].sentAt \in Nat /\ rows[i].attempts \in Nat
  <2>1. \A i \in Numbers : rows[i] \in CodeRows
    BY DEF MailType, TableType, Numbers
  <2> QED BY <2>1 DEF CodeRows
<1>6. Room(r.user, r.chain)
  BY DEF FoundInv, Found, SendWrites
<1> HIDE DEF e
<1>7. Counted'
  BY <1>2, <1>3, <1>4, <1>5 DEF RowsInv, Counted
<1>8. InOrder'
  <2>1. \A i \in Numbers' : rows'[i].sentAt <= minutes'
    BY <1>2, <1>3, <1>4, <1>5 DEF RowsInv, InOrder
  <2>2. ASSUME NEW i \in Numbers', NEW j \in Numbers', i <= j PROVE rows'[i].sentAt <= rows'[j].sentAt
    <3>1. CASE j = n + 1
      BY <1>2, <1>3, <2>1, <3>1
    <3>2. CASE j # n + 1
      <4>1. i \in 1 .. n /\ j \in 1 .. n
        BY <1>2, <1>4, <2>2, <3>2
      <4> QED BY <1>2, <1>4, <2>2, <4>1 DEF RowsInv, InOrder
    <3> QED BY <3>1, <3>2
  <2> QED BY <2>1, <2>2 DEF InOrder
<1>9. OwnedOnce'
  BY <1>2, <1>3, <1>4, <1>5 DEF RowsInv, OwnedOnce
<1>10. Spaced'
  <2>1. ASSUME NEW i \in Numbers PROVE Before(i)' = Before(i) /\ Before(i) \subseteq Numbers
    BY <1>2, <1>4, <1>5 DEF Before, SentSince
  <2>2. ASSUME NEW i \in Numbers
        PROVE  /\ Cardinality(Before(i)') <= RATE_LIMIT_MAX_OTPS
               /\ \A j \in Before(i)' \ {i} : rows'[i].sentAt - rows'[j].sentAt >= COOLDOWN
    BY <1>2, <1>4, <2>1 DEF RowsInv, Spaced
  <2>3. recent \subseteq Numbers /\ IsFiniteSet(recent) /\ Cardinality(recent) \in Nat
    BY RowsAreFinite DEF SentSince
  <2>4. Before(n + 1)' = recent \cup {n + 1}
    BY <1>2, <1>3, <1>4, <1>5 DEF Before, SentSince
  <2>5. Cardinality(recent) < RATE_LIMIT_MAX_OTPS /\ \A j \in recent : minutes - rows[j].sentAt >= COOLDOWN
    BY <1>6 DEF Room
  <2> HIDE DEF recent
  <2>6. Cardinality(recent \cup {n + 1}) = Cardinality(recent) + 1
    BY <1>5, <2>3, FS_AddElement
  <2>a. Cardinality(recent) + 1 <= RATE_LIMIT_MAX_OTPS
    BY <1>3, <2>3, <2>5
  <2>7. Cardinality(Before(n + 1)') <= RATE_LIMIT_MAX_OTPS
    BY <2>4, <2>6, <2>a
  <2>8. ASSUME NEW j \in Before(n + 1)' \ {n + 1} PROVE rows'[n + 1].sentAt - rows'[j].sentAt >= COOLDOWN
    <3>1. j \in recent /\ j \in 1 .. n
      BY <1>4, <2>3, <2>4, <2>8
    <3> QED BY <1>2, <1>3, <2>5, <3>1
  <2> QED BY <1>5, <2>2, <2>7, <2>8 DEF Spaced
<1> QED BY <1>7, <1>8, <1>9, <1>10 DEF RowsInv

LEMMA VerifyKeepsRows ==
  ASSUME MailType, RowsInv, FoundInv, NEW s \in Slot, VerifyCounts(s) \/ VerifyWrites(s), UNCHANGED minutes
  PROVE  RowsInv'
<1> DEFINE r == request[s]
<1>1. /\ r.row \in Numbers /\ rows[r.row].chain = r.chain
      /\ r.seen = rows[r.row].attempts /\ r.seen < MAX_OTP_ATTEMPTS
  BY DEF FoundInv, Found, VerifyCounts, VerifyWrites, Holding, Pending
<1>2. rows \in Seq(CodeRows) /\ tries \in Seq(Nat) /\ Len(tries) = Len(rows) /\ MAX_OTP_ATTEMPTS \in Nat
  BY EmailAssumption DEF MailType, TableType
<1>3. Numbers = 1 .. Len(rows)
  BY DEF Numbers
<1>4. rows[r.row] \in CodeRows
  BY <1>1, <1>2, <1>3
<1>5. CASE VerifyCounts(s)
  <2>1. rows' = [rows EXCEPT ![r.row].attempts = r.seen + 1] /\ tries' = [tries EXCEPT ![r.row] = @ + 1]
    BY <1>5 DEF VerifyCounts, CountedFrom
  <2>2. /\ Len(rows') = Len(rows) /\ \A i \in Numbers \ {r.row} : rows'[i] = rows[i] /\ tries'[i] = tries[i]
        /\ rows'[r.row] = [rows[r.row] EXCEPT !.attempts = r.seen + 1] /\ tries'[r.row] = tries[r.row] + 1
    BY <1>1, <1>2, <1>3, <2>1
  <2>3. rows'[r.row] = [rows[r.row] EXCEPT !.attempts = r.seen + 1]
    BY <2>2
  <2>4. \A i \in Numbers :
            /\ rows'[i].user = rows[i].user /\ rows'[i].chain = rows[i].chain /\ rows'[i].sentAt = rows[i].sentAt
            /\ rows'[i].isVerified = rows[i].isVerified /\ rows'[i].email = rows[i].email
    BY <1>4, <2>2, <2>3 DEF CodeRows
  <2>5. rows'[r.row].attempts = r.seen + 1
    BY <1>4, <2>3 DEF CodeRows
  <2>6. Numbers' = Numbers
    BY <2>2 DEF Numbers
  <2>7. Counted'
    <3>1. rows[r.row].attempts \in Nat /\ tries[r.row] = rows[r.row].attempts
      BY <1>1, <1>4 DEF RowsInv, Counted, CodeRows
    <3>2. tries'[r.row] = rows'[r.row].attempts /\ rows'[r.row].attempts <= MAX_OTP_ATTEMPTS
      BY <1>1, <1>2, <2>2, <2>5, <3>1
    <3>3. \A i \in Numbers \ {r.row} : tries'[i] = rows'[i].attempts /\ rows'[i].attempts <= MAX_OTP_ATTEMPTS
      BY <2>2 DEF RowsInv, Counted
    <3> QED BY <2>6, <3>2, <3>3 DEF Counted
  <2>8. OwnedOnce'
    BY <2>4, <2>6 DEF RowsInv, OwnedOnce
  <2> QED BY <2>2, <2>4, <2>7, <2>8, SameTimes DEF RowsInv
<1>6. CASE VerifyWrites(s)
  <2>1. rows' = [rows EXCEPT ![r.row].isVerified = TRUE] /\ tries' = tries
    BY <1>6 DEF VerifyWrites
  <2>2. /\ Len(rows') = Len(rows) /\ \A i \in Numbers \ {r.row} : rows'[i] = rows[i]
        /\ rows'[r.row] = [rows[r.row] EXCEPT !.isVerified = TRUE]
    <3> DEFINE e == [rows[r.row] EXCEPT !.isVerified = TRUE]
    <3>1. e \in CodeRows /\ rows' = [rows EXCEPT ![r.row] = e]
      BY <1>4, <2>1 DEF CodeRows
    <3> HIDE DEF e
    <3>2. Len(rows') = Len(rows) /\ \A i \in 1 .. Len(rows) : rows'[i] = IF i = r.row THEN e ELSE rows[i]
      BY <1>1, <1>2, <1>3, <3>1, ExceptSeq
    <3> QED BY <1>1, <1>3, <3>2 DEF e
  <2>3. \A i \in Numbers :
            /\ rows'[i].user = rows[i].user /\ rows'[i].chain = rows[i].chain /\ rows'[i].sentAt = rows[i].sentAt
            /\ rows'[i].attempts = rows[i].attempts /\ rows'[i].email = rows[i].email
    BY <1>4, <2>2 DEF CodeRows
  <2>4. Numbers' = Numbers
    BY <2>2 DEF Numbers
  <2>5. Counted'
    BY <2>1, <2>3, <2>4 DEF RowsInv, Counted
  <2>6. HeldBy(rows[r.row].email, r.chain) = {}
    BY <1>6 DEF FoundInv, Found, VerifyWrites
  <2>7. \A i \in Numbers : ~ (rows[i].isVerified /\ rows[i].chain = r.chain /\ rows[i].email = rows[r.row].email)
    BY <2>6 DEF HeldBy, Verified
  <2>8. OwnedOnce'
    BY <1>1, <2>2, <2>3, <2>4, <2>7 DEF RowsInv, OwnedOnce
  <2> QED BY <2>2, <2>3, <2>5, <2>8, SameTimes DEF RowsInv
<1> QED BY <1>5, <1>6

LEMMA RowsKept ==
  ASSUME MailType, EmailNext, calm', TableInv
  PROVE  RowsInv'
<1>1. ASSUME UNCHANGED <<rows, tries>>, minutes' \in {minutes, minutes + 1} PROVE RowsInv'
  <2>0. \A i \in Numbers : rows[i] \in CodeRows
    BY DEF MailType, TableType, Numbers
  <2>1. Numbers' = Numbers /\ \A i \in Numbers : rows[i].sentAt \in Nat
    BY <1>1, <2>0 DEF Numbers, CodeRows
  <2>2. \A i \in Numbers : Before(i)' = Before(i)
    BY <1>1, <2>1 DEF Before, SentSince
  <2>3. InOrder'
    BY <1>1, <2>1 DEF TableInv, RowsInv, InOrder, MailType, TableType
  <2> QED BY <1>1, <2>1, <2>2, <2>3 DEF TableInv, RowsInv, Counted, Spaced, OwnedOnce
<1>2. ASSUME NEW s \in Slot, Handles(s) PROVE RowsInv'
  <2>1. CASE UNCHANGED <<rows, tries>>
    BY <1>1, <1>2, <2>1 DEF Handles
  <2>2. CASE SendWrites(s)
    BY <1>2, <2>2, SendKeepsRows DEF Handles, TableInv
  <2>3. CASE VerifyCounts(s) \/ VerifyWrites(s)
    BY <1>2, <2>3, VerifyKeepsRows DEF Handles, TableInv
  <2> QED BY <1>2, <2>1, <2>2, <2>3 DEF Handles, SendAdmits, SendChecksEmail, SendChecksRate, VerifyReads, VerifyRechecks, ReadStatus
<1>3. CASE ~ \E s \in Slot : Handles(s)
  BY <1>1, <1>3, ScreenMoves DEF EmailTick
<1> QED BY <1>2, <1>3

LEMMA RoomLasts ==
  ASSUME MailType, UNCHANGED rows, minutes' \in {minutes, minutes + 1}, NEW user, NEW chain, Room(user, chain)
  PROVE  Room(user, chain)'
<1> DEFINE before == SentSince(user, chain, minutes - RATE_LIMIT_WINDOW)
           after == SentSince(user, chain, minutes - RATE_LIMIT_WINDOW)'
<1>1. /\ minutes \in Nat /\ RATE_LIMIT_WINDOW \in Nat /\ RATE_LIMIT_MAX_OTPS \in Nat /\ COOLDOWN \in Nat
      /\ \A i \in Numbers : rows[i] \in CodeRows
  BY EmailAssumption DEF MailType, TableType, Numbers
<1>2. \A i \in Numbers : rows[i].sentAt \in Nat
  BY <1>1 DEF CodeRows
<1>3. after \subseteq before /\ before \subseteq Numbers
  BY <1>1, <1>2 DEF SentSince, Numbers
<1>4. IsFiniteSet(before) /\ Cardinality(before) \in Nat /\ Cardinality(after) \in Nat
  BY <1>3, RowsAreFinite
<1>5. Cardinality(after) <= Cardinality(before)
  BY <1>3, <1>4, FS_Subset
<1>6. Cardinality(before) < RATE_LIMIT_MAX_OTPS /\ \A j \in before : minutes - rows[j].sentAt >= COOLDOWN
  BY DEF Room
<1>7. \A j \in after : minutes' - rows'[j].sentAt >= COOLDOWN
  <2> HIDE DEF before, after
  <2> QED BY <1>1, <1>2, <1>3, <1>6
<1>8. Cardinality(after) < RATE_LIMIT_MAX_OTPS
  <2> HIDE DEF before, after
  <2> QED BY <1>1, <1>4, <1>5, <1>6
<1> QED BY <1>7, <1>8 DEF Room

(* The rate check leaves room: the newest of the recent rows is cold, so   *)
(* all of them are.                                                        *)
LEMMA RateLeavesRoom ==
  ASSUME MailType, InOrder, NEW user, NEW chain,
         ~ RateLimited(SentSince(user, chain, minutes - RATE_LIMIT_WINDOW)),
         ~ CoolingDown(SentSince(user, chain, minutes - RATE_LIMIT_WINDOW))
  PROVE  Room(user, chain)
<1> DEFINE recent == SentSince(user, chain, minutes - RATE_LIMIT_WINDOW)
<1>1. recent \subseteq Numbers
  BY DEF SentSince
<1>2. Cardinality(recent) \in Nat /\ RATE_LIMIT_MAX_OTPS \in Nat /\ COOLDOWN \in Nat /\ minutes \in Nat
  BY <1>1, RowsAreFinite, EmailAssumption DEF MailType, TableType
<1>3. \A i \in Numbers : rows[i].sentAt \in Nat
  <2>1. \A i \in Numbers : rows[i] \in CodeRows
    BY DEF MailType, TableType, Numbers
  <2> QED BY <2>1 DEF CodeRows
<1>4. recent # {} => Latest(recent) \in recent /\ \A j \in recent : j <= Latest(recent)
  BY <1>1, LatestIsNewest
<1>5. recent # {} => minutes - rows[Latest(recent)].sentAt >= COOLDOWN
  <2> HIDE DEF recent
  <2>1. recent # {} => ~ (minutes - rows[Latest(recent)].sentAt < COOLDOWN)
    BY DEF CoolingDown, recent
  <2> QED BY <1>1, <1>2, <1>3, <1>4, <2>1
<1>6. ASSUME NEW j \in recent PROVE minutes - rows[j].sentAt >= COOLDOWN
  <2> HIDE DEF recent
  <2>1. Latest(recent) \in Numbers /\ j \in Numbers /\ j <= Latest(recent) /\ recent # {}
    BY <1>1, <1>4
  <2>2. rows[j].sentAt <= rows[Latest(recent)].sentAt
    BY <2>1 DEF InOrder
  <2> QED BY <1>2, <1>3, <1>5, <2>1, <2>2
<1>7. Cardinality(recent) < RATE_LIMIT_MAX_OTPS
  <2>1. ~ (Cardinality(recent) >= RATE_LIMIT_MAX_OTPS)
    BY DEF RateLimited
  <2> HIDE DEF recent
  <2> QED BY <1>2, <2>1
<1> QED BY <1>6, <1>7 DEF Room

LEMMA FoundKept ==
  ASSUME MailType, EmailNext, calm', TableInv
  PROVE  FoundInv'
<1>0. request \in [Slot -> Requests] /\ request' \in [Slot -> Requests]
  BY MailTypeKept DEF MailType
<1>1. ASSUME NEW s \in Slot, UNCHANGED rows, request'[s] = request[s], minutes' \in {minutes, minutes + 1}
      PROVE  Found(s)'
  <2>1. Numbers' = Numbers
    BY <1>1 DEF Numbers
  <2>2. PICK r : r = request[s]
    OBVIOUS
  <2>3. Holding(r)' = Holding(r) /\ HeldBy(rows[r.row].email, r.chain)' = HeldBy(rows[r.row].email, r.chain)
    BY <1>1, <2>1 DEF Holding, Pending, HeldBy, Verified
  <2>4. Room(r.user, r.chain) => Room(r.user, r.chain)'
    <3>1. PICK u, ch : u = r.user /\ ch = r.chain
      OBVIOUS
    <3> QED BY <1>1, <3>1, RoomLasts
  <2>5. Found(s)
    BY DEF TableInv, FoundInv
  <2> QED BY <1>1, <2>2, <2>3, <2>4, <2>5 DEF Found
<1>2. ASSUME NEW s \in Slot, request'[s].at \notin {"allowed", "match", "wrong", "free to keep"} PROVE Found(s)'
  BY <1>2 DEF Found
<1>3. ASSUME NEW s \in Slot, Handles(s) PROVE FoundInv'
  <2> DEFINE r == request[s]
  <2>0. r \in Requests
    BY <1>0
  <2>1. UNCHANGED minutes
    BY <1>3 DEF Handles
  <2>2. ASSUME NEW t \in Slot \ {s} PROVE Found(t)'
    <3>1. request[t].at = "free" /\ request'[t] = request[t]
      BY <1>3, HandlerMoves DEF TableInv, Alone
    <3> QED BY <1>2, <3>1
  <2> SUFFICES Found(s)'
    BY <2>2 DEF FoundInv
  <2>3. ASSUME NEW reply, NEW i, Answers(s, reply, i) PROVE Found(s)'
    <3>1. request'[s].at \in {"free", "back"}
      BY <1>0, <2>3 DEF Answers, Free
    <3> QED BY <1>2, <3>1
  <2>4. ASSUME NEW at, Goes(s, at)
        PROVE  /\ request'[s].at = at /\ request'[s].user = r.user /\ request'[s].chain = r.chain
               /\ request'[s].row = r.row /\ request'[s].seen = r.seen
    <3>1. request'[s] = [r EXCEPT !.at = at]
      BY <1>0, <2>4 DEF Goes
    <3> HIDE DEF r
    <3> QED BY <2>0, <3>1 DEF Requests
  <2>5. CASE SendChecksRate(s) /\ Goes(s, "allowed") /\ ~ Replies(s, "refused")
    <3>1. PICK u, ch : u = r.user /\ ch = r.chain
      OBVIOUS
    <3>2. UNCHANGED rows /\ ~ RateLimited(SentSince(u, ch, minutes - RATE_LIMIT_WINDOW))
          /\ ~ CoolingDown(SentSince(u, ch, minutes - RATE_LIMIT_WINDOW))
      BY <2>5, <3>1 DEF SendChecksRate
    <3>3. Room(u, ch)
      BY <3>2, RateLeavesRoom DEF TableInv, RowsInv
    <3>4. Room(u, ch)'
      BY <2>1, <3>2, <3>3, RoomLasts
    <3>5. request'[s].at = "allowed" /\ request'[s].user = u /\ request'[s].chain = ch
      BY <2>4, <2>5, <3>1
    <3> QED BY <3>4, <3>5 DEF Found
  <2>6. CASE VerifyReads(s) /\ ~ Replies(s, "refused")
    <3> DEFINE i == Latest(Pending(r.user, r.chain))
    <3>1. /\ UNCHANGED rows /\ i # 0 /\ ~ Exhausted(rows[i])
          /\ \E at \in {"match", "wrong"} :
                request' = [request EXCEPT ![s] = [r EXCEPT !.at = at, !.code = 0, !.row = i, !.seen = rows[i].attempts]]
      BY <2>6 DEF VerifyReads
    <3>2. i \in Pending(r.user, r.chain) /\ i \in Numbers
      BY <3>1, LatestIsNewest DEF Pending
    <3>3. rows[i] \in CodeRows /\ MAX_OTP_ATTEMPTS \in Nat
      BY <3>2, EmailAssumption DEF MailType, TableType, Numbers
    <3>4. rows[i].attempts \in Nat /\ rows[i].attempts < MAX_OTP_ATTEMPTS
      BY <3>1, <3>3 DEF CodeRows, Exhausted
    <3>5. \A ch, u : Pending(u, ch)' = Pending(u, ch)
      BY <3>1 DEF Pending, Numbers
    <3>6. PICK k : k = i
      OBVIOUS
    <3>7. /\ request'[s].at \in {"match", "wrong"} /\ request'[s].user = r.user /\ request'[s].chain = r.chain
          /\ request'[s].row = k /\ request'[s].seen = rows[k].attempts
      <4> HIDE DEF i, r
      <4>1. PICK at \in {"match", "wrong"} :
                request'[s] = [r EXCEPT !.at = at, !.code = 0, !.row = i, !.seen = rows[i].attempts]
        BY <1>0, <3>1
      <4> QED BY <2>0, <3>6, <4>1 DEF Requests
    <3>8. PICK u, ch : u = r.user /\ ch = r.chain
      OBVIOUS
    <3>9. k \in Pending(u, ch)' /\ k = Latest(Pending(u, ch)') /\ rows'[k] = rows[k] /\ rows[k].attempts < MAX_OTP_ATTEMPTS
      BY <3>1, <3>2, <3>4, <3>5, <3>6, <3>8
    <3> QED BY <3>7, <3>8, <3>9 DEF Found, Holding
  <2>7. CASE VerifyRechecks(s) /\ Goes(s, "free to keep") /\ ~ Replies(s, "refused")
    <3>1. UNCHANGED rows /\ r.at = "match" /\ HeldBy(rows[r.row].email, r.chain) = {}
      BY <2>7 DEF VerifyRechecks, EmailNowUsed
    <3>2. Holding(r)
      BY <3>1 DEF TableInv, FoundInv, Found
    <3>3. PICK x : x = r
      OBVIOUS
    <3>4. Numbers' = Numbers
      BY <3>1 DEF Numbers
    <3>5. Holding(x)' /\ HeldBy(rows[x.row].email, x.chain)' = {}
      BY <3>1, <3>2, <3>3, <3>4 DEF Holding, Pending, HeldBy, Verified
    <3>6. /\ request'[s].at = "free to keep" /\ request'[s].user = x.user /\ request'[s].chain = x.chain
          /\ request'[s].row = x.row /\ request'[s].seen = x.seen
      BY <2>4, <2>7, <3>3
    <3> QED BY <3>5, <3>6 DEF Found, Holding
  <2>8. ASSUME NEW at \in {"admitted", "unused"}, Goes(s, at) PROVE Found(s)'
    BY <1>2, <2>4, <2>8
  <2> QED BY <1>3, <2>3, <2>5, <2>6, <2>7, <2>8 DEF Handles, SendAdmits, SendChecksEmail, SendChecksRate, SendWrites, sendOtpEmail,
     VerifyReads, VerifyCounts, VerifyRechecks, VerifyWrites, ReadStatus, Replies
<1>4. CASE ~ \E s \in Slot : Handles(s)
  <2>1. UNCHANGED rows /\ minutes' \in {minutes, minutes + 1}
    BY <1>4, ScreenMoves DEF EmailTick
  <2>2. ASSUME NEW s \in Slot, request'[s] = request[s] PROVE Found(s)'
    BY <1>1, <2>1, <2>2
  <2>3. \A s \in Slot : request'[s] = request[s] \/ request'[s].at \in {"free", "sent", "resolved"}
    <3>1. ASSUME NEW s \in Slot, Frees(s) PROVE \A t \in Slot : request'[t] = request[t] \/ request'[t].at = "free"
      BY <1>0, <3>1 DEF Frees, Free
    <3>2. ASSUME NEW s \in Slot, Goes(s, "resolved") PROVE \A t \in Slot : request'[t] = request[t] \/ request'[t].at = "resolved"
      <4>1. \A x \in Requests : [x EXCEPT !.at = "resolved"].at = "resolved"
        BY DEF Requests
      <4> QED BY <1>0, <3>2, <4>1 DEF Goes
    <3>3. ASSUME NEW s \in Slot, NEW kind, NEW u, NEW ch, NEW t, NEW c, Asks(s, kind, u, ch, t, c)
          PROVE  \A x \in Slot : request'[x] = request[x] \/ request'[x].at = "sent"
      BY <1>0, <3>3 DEF Asks, Free
    <3>4. {"status", "form"} \subseteq Slot
      BY DEF Slot
    <3> QED BY <1>4, <3>1, <3>2, <3>3, <3>4, ScreenMoves
  <2> QED BY <1>2, <2>2, <2>3 DEF FoundInv
<1> QED BY <1>3, <1>4

-----------------------------------------------------------------------------
(* The screen.  Its own requests are the visitor's and know what they are. *)

Shape ==
    /\ \A s \in {"status", "form"} : request[s].user = Visitor /\ request[s].chain = Here
    /\ request["status"].at \in {"free", "sent", "back"}
    /\ request["status"].at # "free" => request["status"].kind = "status"
    /\ request["form"].at # "free" => request["form"].kind \in {"send", "verify"}
    /\ request["form"].at \in {"admitted", "unused", "allowed"} => request["form"].kind = "send"
    /\ request["form"].at \in {"match", "wrong", "free to keep", "resolved"} => request["form"].kind = "verify"

(* How many guesses the screen shows for the code it asks for; one too     *)
(* many while the answer to a wrong one is on its way.                     *)
Mine == Pending(Visitor, Here)
Shows(more) == Mine # {} /\ email.attemptsRemaining - more = MAX_OTP_ATTEMPTS - rows[Latest(Mine)].attempts
HintInv ==
    LET r == request["form"] IN
    /\ request["other"].at # "free" => request["other"].user # Visitor
    /\ r.at = "back" /\ r.kind = "send" /\ r.reply = "ok" => Mine # {} /\ rows[Latest(Mine)].attempts = 0
    /\ screen.step = "otp" =>
           /\ request["status"].at = "free"
           /\ r.at # "free" => r.kind = "verify" /\ screen.mine
           /\ r.at = "back" /\ r.reply = "invalid" => Shows(1)
           /\ r.at # "resolved" /\ ~ (r.at = "back" /\ r.reply \in {"ok", "invalid"}) => Shows(0)
ScreenInv == Shape /\ (elsewhere[Visitor] = 0 => HintInv)

LEMMA HandlersKeepShape ==
  ASSUME MailType, Shape, NEW s \in Slot, Handles(s)
  PROVE  /\ Shape'
         /\ s = "status" => UNCHANGED rows
         /\ s = "form" /\ request[s].kind = "verify" => request'[s].kind = "verify"
         /\ s = "form" /\ request[s].kind = "send" => request'[s].kind = "send"
         /\ s = "form" => request'[s].at # "resolved"
<1> DEFINE r == request[s]
<1>1. request \in [Slot -> Requests] /\ r \in Requests /\ "status" \in Slot /\ "form" \in Slot
  BY DEF MailType, Slot
<1>2. \A t \in Slot \ {s} : request'[t] = request[t]
  BY HandlerMoves
<1>3. ASSUME NEW reply, NEW i, Answers(s, reply, i), s # "other"
      PROVE  request'[s].at = "back" /\ request'[s].kind = r.kind /\ request'[s].user = Visitor /\ request'[s].chain = Here
  BY <1>1, <1>3 DEF Answers, Free, Here
<1>4. ASSUME NEW at, Goes(s, at)
      PROVE  request'[s].at = at /\ request'[s].kind = r.kind /\ request'[s].user = r.user /\ request'[s].chain = r.chain
  <2>1. request'[s] = [r EXCEPT !.at = at]
    BY <1>1, <1>4 DEF Goes
  <2> HIDE DEF r
  <2> QED BY <1>1, <2>1 DEF Requests
<1>5. ASSUME VerifyReads(s), ~ Replies(s, "refused")
      PROVE  request'[s].at \in {"match", "wrong"} /\ request'[s].kind = r.kind /\ request'[s].user = r.user /\ request'[s].chain = r.chain
  <2> DEFINE i == Latest(Pending(r.user, r.chain))
             at == IF r.code = i THEN "match" ELSE "wrong"
  <2>1. request'[s] = [r EXCEPT !.at = at, !.code = 0, !.row = i, !.seen = rows[i].attempts]
    BY <1>1, <1>5 DEF VerifyReads
  <2>2. at \in {"match", "wrong"}
    OBVIOUS
  <2> HIDE DEF r, i, at
  <2> QED BY <1>1, <2>1, <2>2 DEF Requests
<1>6. s # "other" =>
        /\ (r.at = "sent" /\ r.kind \in {"send", "verify", "status"}) \/ r.at \in {"admitted", "unused", "allowed", "match", "wrong", "free to keep"}
        /\ request'[s].kind = r.kind /\ request'[s].user = Visitor /\ request'[s].chain = Here
        /\ request'[s].at = "back" \/ (r.at \in {"admitted", "unused"} /\ request'[s].at \in {"unused", "allowed"})
           \/ (r.kind = "send" /\ request'[s].at = "admitted")
           \/ (r.at = "match" /\ request'[s].at = "free to keep") \/ (r.kind = "verify" /\ request'[s].at \in {"match", "wrong"})
  <2> SUFFICES ASSUME s # "other" PROVE
        /\ (r.at = "sent" /\ r.kind \in {"send", "verify", "status"}) \/ r.at \in {"admitted", "unused", "allowed", "match", "wrong", "free to keep"}
        /\ request'[s].kind = r.kind /\ request'[s].user = Visitor /\ request'[s].chain = Here
        /\ request'[s].at = "back" \/ (r.at \in {"admitted", "unused"} /\ request'[s].at \in {"unused", "allowed"})
           \/ (r.kind = "send" /\ request'[s].at = "admitted")
           \/ (r.at = "match" /\ request'[s].at = "free to keep") \/ (r.kind = "verify" /\ request'[s].at \in {"match", "wrong"})
    OBVIOUS
  <2>1. r.user = Visitor /\ r.chain = Here
    BY DEF Shape, Slot
  <2>2. (r.at = "sent" /\ r.kind \in {"send", "verify", "status"}) \/ r.at \in {"admitted", "unused", "allowed", "match", "wrong", "free to keep"}
    BY DEF Handles, SendAdmits, SendChecksEmail, SendChecksRate, SendWrites, VerifyReads, VerifyCounts, VerifyRechecks, VerifyWrites, ReadStatus
  <2>3. \/ \E reply, i : Answers(s, reply, i)
        \/ r.kind = "send" /\ Goes(s, "admitted")
        \/ r.at = "admitted" /\ Goes(s, "unused")
        \/ r.at = "unused" /\ Goes(s, "allowed")
        \/ r.at = "match" /\ Goes(s, "free to keep")
        \/ r.kind = "verify" /\ VerifyReads(s) /\ ~ Replies(s, "refused")
    BY DEF Handles, SendAdmits, SendChecksEmail, SendChecksRate, SendWrites, sendOtpEmail, VerifyReads, VerifyCounts,
       VerifyRechecks, VerifyWrites, ReadStatus, Replies
  <2> QED BY <1>3, <1>4, <1>5, <2>1, <2>2, <2>3
<1>7. CASE s = "other"
  BY <1>1, <1>2, <1>7 DEF Shape
<1>8. CASE s = "status"
  <2>1. r.at = "sent" /\ r.kind = "status"
    BY <1>6, <1>8 DEF Shape
  <2>2. ReadStatus(s)
    BY <2>1 DEF Handles, SendAdmits, SendChecksEmail, SendChecksRate, SendWrites, VerifyReads, VerifyCounts, VerifyRechecks, VerifyWrites
  <2>3. Shape'
    BY <1>1, <1>2, <1>6, <1>8, <2>1 DEF Shape
  <2> QED BY <1>8, <2>2, <2>3 DEF ReadStatus
<1>9. CASE s = "form"
  BY <1>1, <1>2, <1>6, <1>9 DEF Shape
<1> QED BY <1>7, <1>8, <1>9 DEF Slot

LEMMA ScreenKeepsShape ==
  ASSUME MailType, Shape, EmailNext, calm', ~ \E s \in Slot : Handles(s)
  PROVE  Shape'
<1>1. request \in [Slot -> Requests] /\ "status" \in Slot /\ "form" \in Slot /\ "other" \in Slot
  BY DEF MailType, Slot
<1>2. ASSUME NEW s \in Slot, Frees(s) PROVE Shape'
  BY <1>1, <1>2 DEF Shape, Frees, Free, Here
<1>3. ASSUME UNCHANGED request PROVE Shape'
  BY <1>3 DEF Shape
<1>4. ASSUME Back("form", "verify"), Goes("form", "resolved") PROVE Shape'
  <2>1. \A x \in Requests : LET y == [x EXCEPT !.at = "resolved"] IN
            y.at = "resolved" /\ y.kind = x.kind /\ y.user = x.user /\ y.chain = x.chain
    BY DEF Requests
  <2>2. request'["form"] = [request["form"] EXCEPT !.at = "resolved"] /\ request'["status"] = request["status"] /\ request["form"].kind = "verify"
    BY <1>1, <1>4 DEF Goes, Back
  <2>3. /\ request'["form"].at = "resolved" /\ request'["form"].kind = "verify"
        /\ request'["form"].user = Visitor /\ request'["form"].chain = Here
    BY <1>1, <2>1, <2>2 DEF Shape
  <2> QED BY <2>2, <2>3 DEF Shape
<1>5. ASSUME NEW kind, NEW t, NEW c, Asks("status", "status", Visitor, Here, t, c) PROVE Shape'
  BY <1>1, <1>5 DEF Shape, Asks, Free, Here
<1>6. ASSUME NEW kind \in {"send", "verify"}, NEW t, NEW c, Asks("form", kind, Visitor, Here, t, c) PROVE Shape'
  BY <1>1, <1>6 DEF Shape, Asks, Free, Here
<1>7. ASSUME NEW kind, NEW u, NEW ch, NEW t, NEW c, Asks("other", kind, u, ch, t, c) PROVE Shape'
  BY <1>1, <1>7 DEF Shape, Asks
<1>8. \A s \in Slot : ~ LoseAnswer(s)
  BY CalmBefore
<1>9. CASE checkStatus \/ sendCode \/ verifyCode \/ VerifyContinues \/ RedirectWhenVerified \/ handleResendCode \/ handleBack \/ EmailTick
  BY <1>1, <1>2, <1>3, <1>4, <1>9 DEF checkStatus, sendCode, verifyCode, VerifyContinues, RedirectWhenVerified, handleResendCode, handleBack, EmailTick
<1>10. CASE Arrive
  BY <1>5, <1>10 DEF Arrive
<1>11. ASSUME NEW t, handleSendCode(t) PROVE Shape'
  BY <1>6, <1>11 DEF handleSendCode
<1>12. ASSUME NEW c, handleVerifyCode(c) PROVE Shape'
  BY <1>6, <1>12 DEF handleVerifyCode
<1>13. ASSUME NEW kind, NEW u, NEW ch, NEW t, NEW c, Elsewhere(kind, u, ch, t, c) PROVE Shape'
  BY <1>7, <1>13 DEF Elsewhere
<1> QED BY <1>8, <1>9, <1>10, <1>11, <1>12, <1>13 DEF EmailNext

LEMMA RowReplaced ==
  ASSUME MailType, NEW i \in Numbers, NEW e \in CodeRows, rows' = [rows EXCEPT ![i] = e]
  PROVE  Len(rows') = Len(rows) /\ rows'[i] = e /\ \A j \in Numbers \ {i} : rows'[j] = rows[j]
<1>1. rows \in Seq(CodeRows) /\ Numbers = 1 .. Len(rows)
  BY DEF MailType, TableType, Numbers
<1> QED BY <1>1, ExceptSeq

(* Rows of others are none of the screen's.                                *)
LEMMA OthersRows ==
  ASSUME MailType, FoundInv, NEW s \in Slot, Handles(s), request[s].user # Visitor
  PROVE  Mine' = Mine /\ \A i \in Mine : rows'[i] = rows[i]
<1> DEFINE r == request[s]
<1>1. rows \in Seq(CodeRows) /\ Len(rows) \in Nat
  BY DEF MailType, TableType
<1>2. CASE UNCHANGED rows
  BY <1>2 DEF Mine, Pending, Numbers
<1>3. CASE SendWrites(s)
  <2> DEFINE e == [user |-> r.user, chain |-> r.chain, email |-> r.address, sentAt |-> minutes,
                   expiresAt |-> minutes + OTP_EXPIRY, attempts |-> 0, isVerified |-> FALSE]
  <2>1. rows' = Append(rows, e) /\ tries' = Append(tries, 0) /\ e.user = r.user
    BY <1>3 DEF SendWrites
  <2> HIDE DEF e
  <2>2. Len(rows') = Len(rows) + 1 /\ rows'[Len(rows) + 1] = e /\ \A i \in 1 .. Len(rows) : rows'[i] = rows[i]
    BY <2>1, AppendedRow
  <2>3. Numbers' = Numbers \cup {Len(rows) + 1} /\ Numbers = 1 .. Len(rows)
    BY <1>1, <2>2 DEF Numbers
  <2> QED BY <2>1, <2>2, <2>3 DEF Mine, Pending
<1>4. CASE VerifyCounts(s) \/ VerifyWrites(s)
  <2>1. r.row \in Pending(r.user, r.chain)
    BY <1>4 DEF FoundInv, Found, Holding, VerifyCounts, VerifyWrites
  <2>2. r.row \in Numbers /\ rows[r.row].user = r.user /\ rows[r.row] \in CodeRows
    BY <1>1, <2>1 DEF Pending, Numbers
  <2>3. \/ rows' = [rows EXCEPT ![r.row] = [@ EXCEPT !.attempts = r.seen + 1]]
        \/ rows' = [rows EXCEPT ![r.row] = [@ EXCEPT !.isVerified = TRUE]]
    BY <1>4 DEF VerifyCounts, VerifyWrites, CountedFrom
  <2>4. r.seen + 1 \in Nat
    <3>1. r \in Requests
      BY DEF MailType
    <3> HIDE DEF r
    <3>2. r.seen \in Nat
      BY <3>1 DEF Requests
    <3> QED BY <3>2
  <2>5. PICK e \in CodeRows : e.user = r.user /\ rows' = [rows EXCEPT ![r.row] = e]
    <3>1. [rows[r.row] EXCEPT !.attempts = r.seen + 1] \in CodeRows /\ [rows[r.row] EXCEPT !.attempts = r.seen + 1].user = r.user
      BY <2>2, <2>4 DEF CodeRows
    <3>2. [rows[r.row] EXCEPT !.isVerified = TRUE] \in CodeRows /\ [rows[r.row] EXCEPT !.isVerified = TRUE].user = r.user
      BY <2>2 DEF CodeRows
    <3> QED BY <2>3, <3>1, <3>2
  <2>6. Len(rows') = Len(rows) /\ (\A i \in Numbers \ {r.row} : rows'[i] = rows[i]) /\ rows'[r.row].user = r.user
    BY <2>2, <2>5, RowReplaced
  <2> QED BY <2>2, <2>6 DEF Mine, Pending, Numbers
<1> QED BY <1>2, <1>3, <1>4 DEF Handles, SendAdmits, SendChecksEmail, SendChecksRate, VerifyReads, VerifyRechecks, ReadStatus

(* The code the screen asked for is the newest of the visitor's.           *)
LEMMA NewRowIsMine ==
  ASSUME MailType, SendWrites("form"), request["form"].user = Visitor, request["form"].chain = Here
  PROVE  Mine' # {} /\ rows'[Latest(Mine')].attempts = 0
<1> SUFFICES ASSUME NEW n \in Nat, n = Len(rows) PROVE Mine' # {} /\ rows'[Latest(Mine')].attempts = 0
  BY DEF MailType, TableType
<1> DEFINE r == request["form"]
           e == [user |-> r.user, chain |-> r.chain, email |-> r.address, sentAt |-> minutes,
                 expiresAt |-> minutes + OTP_EXPIRY, attempts |-> 0, isVerified |-> FALSE]
<1>1. rows' = Append(rows, e) /\ tries' = Append(tries, 0)
  BY DEF SendWrites
<1>2. e.user = Visitor /\ e.chain = Here /\ e.attempts = 0 /\ e.isVerified = FALSE
  OBVIOUS
<1> HIDE DEF e
<1>3. Len(rows') = n + 1 /\ rows'[n + 1] = e
  BY <1>1, AppendedRow
<1>4. n + 1 \in Mine' /\ \A j \in Mine' : j \in Nat /\ j <= n + 1
  BY <1>2, <1>3 DEF Mine, Pending, Numbers
<1>5. Latest(Mine') = n + 1
  <2> DEFINE S == Mine'
  <2> HIDE DEF S
  <2>1. n + 1 \in S /\ \A j \in S : j \in Nat /\ j <= n + 1
    BY <1>4 DEF S
  <2>2. \A i \in S : (\A j \in S : j <= i) => i = n + 1
    BY <2>1
  <2>3. Latest(S) \in S /\ \A j \in S : j <= Latest(S)
    BY <2>1, Zenon DEF Latest
  <2> QED BY <2>2, <2>3 DEF S
<1> QED BY <1>2, <1>3, <1>4, <1>5

(* A wrong guess leaves one less, a right one settles the code.            *)
LEMMA VerifyMine ==
  ASSUME MailType, Shape, FoundInv, VerifyCounts("form"), UNCHANGED email, Shows(0)
  PROVE  Shows(1)'
<1> DEFINE r == request["form"]
<1>1. rows \in Seq(CodeRows) /\ r.row \in Mine /\ r.row = Latest(Mine) /\ r.seen = rows[r.row].attempts
  <2>1. Holding(r) /\ r.user = Visitor /\ r.chain = Here
    BY DEF Shape, FoundInv, Found, VerifyCounts, Slot
  <2> QED BY <2>1 DEF Holding, Mine, MailType, TableType
<1>2. r.row \in Numbers /\ rows[r.row] \in CodeRows
  BY <1>1 DEF Mine, Pending, Numbers
<1>3. rows' = [rows EXCEPT ![r.row] = [@ EXCEPT !.attempts = r.seen + 1]]
  BY DEF VerifyCounts, CountedFrom
<1>4. /\ Len(rows') = Len(rows) /\ (\A i \in Numbers \ {r.row} : rows'[i] = rows[i])
      /\ rows'[r.row] = [rows[r.row] EXCEPT !.attempts = r.seen + 1]
  BY <1>1, <1>2, <1>3 DEF Numbers
<1>5. \A i \in Numbers : rows'[i].user = rows[i].user /\ rows'[i].chain = rows[i].chain /\ rows'[i].isVerified = rows[i].isVerified
  BY <1>2, <1>4 DEF CodeRows
<1>6. Mine' = Mine
  BY <1>4, <1>5 DEF Mine, Pending, Numbers
<1>7. rows'[Latest(Mine')].attempts = rows[Latest(Mine)].attempts + 1
  BY <1>1, <1>2, <1>4, <1>6 DEF CodeRows
<1>8. rows[Latest(Mine)].attempts \in Nat /\ MAX_OTP_ATTEMPTS \in Nat
  BY <1>1, <1>2, EmailAssumption DEF CodeRows
<1>9. email.attemptsRemaining \in Nat
  BY DEF MailType, ScreenType, Stores
<1> QED BY <1>6, <1>7, <1>8, <1>9 DEF Shows

LEMMA HandlersKeepHint ==
  ASSUME MailType, TableInv, Shape, HintInv, NEW s \in Slot, Handles(s)
  PROVE  HintInv'
<1> DEFINE f == request["form"]
<1>1. request \in [Slot -> Requests] /\ "status" \in Slot /\ "form" \in Slot /\ "other" \in Slot
  BY DEF MailType, Slot
<1>2. /\ request[s].at \notin {"free", "back", "resolved"} /\ \A t \in Slot \ {s} : request'[t] = request[t] /\ request[t].at = "free"
  BY HandlerMoves DEF TableInv, Alone
<1>3. UNCHANGED <<email, screen>>
  BY DEF Handles
<1>4. FoundInv
  BY DEF TableInv
<1>5. Mine' = Mine /\ (\A i \in Mine : rows'[i] = rows[i]) => (Shows(0) => Shows(0)')
  <2> SUFFICES ASSUME Mine' = Mine, \A i \in Mine : rows'[i] = rows[i], Shows(0) PROVE Shows(0)'
    OBVIOUS
  <2>1. Latest(Mine) \in Mine
    BY LatestIsNewest DEF Shows, Mine, Pending
  <2> QED BY <1>3, <2>1 DEF Shows
<1>6. CASE s = "other"
  <2>1. request[s].user # Visitor
    BY <1>2, <1>6 DEF HintInv
  <2>2. Mine' = Mine /\ \A i \in Mine : rows'[i] = rows[i]
    BY <1>4, <2>1, OthersRows
  <2>3. request'["other"].at # "free" => request'["other"].user # Visitor
    <3>1. ASSUME NEW reply, NEW i, Answers(s, reply, i) PROVE request'[s].at = "free"
      BY <1>1, <1>6, <3>1 DEF Answers, Free
    <3>2. ASSUME NEW at, Goes(s, at) PROVE request'[s].user = request[s].user
      <4>1. \A x \in Requests : [x EXCEPT !.at = at].user = x.user
        BY DEF Requests
      <4> QED BY <1>1, <3>2, <4>1 DEF Goes
    <3>3. ASSUME VerifyReads(s), ~ Replies(s, "refused") PROVE request'[s].user = request[s].user
      <4> DEFINE x == request[s]
                 i == Latest(Pending(x.user, x.chain))
                 at == IF x.code = i THEN "match" ELSE "wrong"
      <4>1. request'[s] = [x EXCEPT !.at = at, !.code = 0, !.row = i, !.seen = rows[i].attempts] /\ x \in Requests
        BY <1>1, <3>3 DEF VerifyReads
      <4> HIDE DEF x, i, at
      <4>2. request'[s].user = x.user
        BY <4>1 DEF Requests
      <4> QED BY <4>2 DEF x
    <3> QED BY <1>6, <2>1, <3>1, <3>2, <3>3 DEF Handles, SendAdmits, SendChecksEmail, SendChecksRate, SendWrites, sendOtpEmail,
          VerifyReads, VerifyCounts, VerifyRechecks, VerifyWrites, ReadStatus, Replies
  <2>4. request'["form"] = f /\ f.at = "free" /\ request'["status"] = request["status"]
    BY <1>1, <1>2, <1>6
  <2> QED BY <1>3, <1>5, <2>2, <2>3, <2>4 DEF HintInv
<1>7. CASE s = "status"
  <2>1. request'["form"] = f /\ f.at = "free" /\ request'["other"] = request["other"] /\ request["status"].at # "free"
    BY <1>1, <1>2, <1>7
  <2> QED BY <1>3, <2>1 DEF HintInv
<1>8. CASE s = "form"
  <2>0. f.user = Visitor /\ f.chain = Here /\ f.kind \in {"send", "verify"} /\ f.at # "free"
    BY <1>2, <1>8 DEF Shape
  <2>1. request'["other"] = request["other"] /\ request["other"].at = "free" /\ request'["status"] = request["status"] /\ request["status"].at = "free"
    BY <1>1, <1>2, <1>8
  <2>2. CASE f.kind = "send"
    <3>1. screen.step # "otp"
      BY <2>0, <2>2 DEF HintInv
    <3>2. request'["form"].at = "back" /\ request'["form"].reply = "ok" => Mine' # {} /\ rows'[Latest(Mine')].attempts = 0
      <4> SUFFICES ASSUME request'["form"].at = "back", request'["form"].reply = "ok" PROVE SendWrites("form")
        BY <2>0, NewRowIsMine
      <4>1. f.at \in {"sent", "admitted", "unused", "allowed"}
        BY <1>2, <1>8, <2>2 DEF Shape, MailType, Requests
      <4>2. ~ Replies("form", "refused")
        BY <1>1 DEF Replies, Answers, Free
      <4>3. ASSUME NEW at \in {"admitted", "unused", "allowed"}, Goes("form", at) PROVE FALSE
        <5>1. \A x \in Requests : [x EXCEPT !.at = at].at = at
          BY DEF Requests
        <5> QED BY <1>1, <4>3, <5>1 DEF Goes
      <4> QED BY <1>8, <2>2, <4>1, <4>2, <4>3 DEF Handles, SendAdmits, SendChecksEmail, SendChecksRate, VerifyReads, VerifyCounts,
            VerifyRechecks, VerifyWrites, ReadStatus
    <3> QED BY <1>3, <2>1, <3>1, <3>2 DEF HintInv
  <2>3. CASE f.kind = "verify"
    <3>1. request'["form"].kind = "verify"
      BY <1>8, <2>3, HandlersKeepShape
    <3>2. f.at \notin {"free", "back", "resolved", "admitted", "unused", "allowed"}
      BY <1>2, <1>8, <2>3 DEF Shape
    <3>3. screen.step = "otp" => Shows(0) /\ screen.mine
      BY <2>0, <3>2 DEF HintInv
    <3>4. request'["form"].at # "resolved"
      BY <1>8, HandlersKeepShape
    <3>5. CASE VerifyCounts("form")
      <4>1. request'["form"].at = "back" /\ request'["form"].reply = "invalid"
        BY <1>1, <3>5 DEF VerifyCounts, Replies, Answers, Free
      <4>2. Shows(0) => Shows(1)'
        BY <1>3, <1>4, <3>5, VerifyMine
      <4> QED BY <1>3, <2>1, <3>1, <3>3, <4>1, <4>2 DEF HintInv
    <3>6. CASE VerifyWrites("form")
      <4>1. request'["form"].at = "back" /\ request'["form"].reply = "ok"
        BY <1>1, <3>6 DEF VerifyWrites, Replies, Answers, Free
      <4> QED BY <1>3, <2>1, <3>1, <3>3, <4>1 DEF HintInv
    <3>7. CASE VerifyReads("form") \/ VerifyRechecks("form")
      <4>1. UNCHANGED rows
        BY <3>7 DEF VerifyReads, VerifyRechecks
      <4>2. Mine' = Mine /\ \A i \in Mine : rows'[i] = rows[i]
        BY <4>1 DEF Mine, Pending, Numbers
      <4>3. request'["form"].at = "back" => request'["form"].reply = "refused"
        <5>1. \A x \in Requests : [x EXCEPT !.at = "free to keep"].at = "free to keep"
          BY DEF Requests
        <5>2. CASE Replies("form", "refused")
          BY <1>1, <5>2 DEF Replies, Answers, Free
        <5>3. CASE Goes("form", "free to keep")
          BY <1>1, <5>1, <5>3 DEF Goes
        <5>4. CASE VerifyReads("form") /\ ~ Replies("form", "refused")
          <6> DEFINE i == Latest(Pending(f.user, f.chain))
                     at == IF f.code = i THEN "match" ELSE "wrong"
          <6>1. request'["form"] = [f EXCEPT !.at = at, !.code = 0, !.row = i, !.seen = rows[i].attempts] /\ f \in Requests
            BY <1>1, <5>4 DEF VerifyReads
          <6>2. at # "back"
            OBVIOUS
          <6> HIDE DEF f, i, at
          <6>3. request'["form"].at = at
            BY <6>1 DEF Requests
          <6> QED BY <6>2, <6>3
        <5> QED BY <3>7, <5>2, <5>3, <5>4 DEF VerifyRechecks
      <4> QED BY <1>3, <1>5, <2>1, <3>1, <3>3, <3>4, <4>2, <4>3 DEF HintInv
    <3> QED BY <1>8, <2>3, <3>2, <3>5, <3>6, <3>7 DEF Handles, SendAdmits, SendChecksEmail, SendChecksRate, SendWrites, ReadStatus
  <2> QED BY <2>0, <2>2, <2>3
<1> QED BY <1>6, <1>7, <1>8 DEF Slot

LEMMA ScreenKeepsHint ==
  ASSUME MailType, TableInv, Shape, HintInv, EmailNext, calm', elsewhere'[Visitor] = 0, ~ \E s \in Slot : Handles(s)
  PROVE  HintInv'
<1> DEFINE f == request["form"]
<1>1. request \in [Slot -> Requests] /\ "status" \in Slot /\ "form" \in Slot /\ "other" \in Slot
  BY DEF MailType, Slot
<1>2. UNCHANGED rows
  BY ScreenMoves
<1>3. Mine' = Mine /\ Latest(Mine)' = Latest(Mine)
  BY <1>2 DEF Mine, Pending, Numbers, Latest
<1>4. email'.attemptsRemaining = email.attemptsRemaining => (Shows(0) => Shows(0)') /\ (Shows(1) => Shows(1)')
  BY <1>2, <1>3 DEF Shows
<1>5. f.at = "back" => \A s \in Slot \ {"form"} : request[s].at = "free"
  BY <1>1 DEF TableInv, Alone
<1>6. \A s \in Slot : \A kind, u, ch, t, c : Asks(s, kind, u, ch, t, c) => Quiescent
  BY CalmBefore
<1>7. \A s \in Slot : ~ LoseAnswer(s)
  BY CalmBefore
<1>8. \A C : email \in Stores(C) => \A b : [email EXCEPT !.isLoading = b].attemptsRemaining = email.attemptsRemaining
  BY DEF Stores
<1>a. PICK C : email \in Stores(C)
  BY DEF MailType, ScreenType
<1>b. screen \in [step: {"away", "email", "otp", "success"}, justVerified: BOOLEAN, mine: BOOLEAN]
  BY DEF MailType, ScreenType
<1>9. ASSUME screen'.step # "otp", request'["other"].at # "free" => request'["other"].user # Visitor,
             request'["form"].at # "back" \/ request'["form"] = f
      PROVE  HintInv'
  BY <1>2, <1>3, <1>9 DEF HintInv
<1>10. CASE Arrive
  <2>1. screen'.step # "otp" /\ Quiescent /\ Asks("status", "status", Visitor, Here, Nobody, 0)
    BY <1>1, <1>6, <1>10 DEF Arrive
  <2>2. request'["form"] = f /\ request'["other"] = request["other"]
    BY <1>1, <2>1 DEF Asks
  <2> QED BY <1>9, <2>1, <2>2 DEF HintInv
<1>11. CASE checkStatus
  <2>1. screen'.step # "otp"
    BY <1>11 DEF checkStatus, Back, HintInv
  <2>2. request'["form"] = f /\ request'["other"] = request["other"]
    BY <1>1, <1>11 DEF checkStatus, Frees
  <2> QED BY <1>9, <2>1, <2>2 DEF HintInv
<1>12. ASSUME NEW t \in Typed, handleSendCode(t) PROVE HintInv'
  <2>1. screen'.step # "otp"
    BY <1>b, <1>12 DEF handleSendCode, CanSend
  <2>2. Asks("form", "send", Visitor, Here, t, 0)
    BY <1>12 DEF handleSendCode
  <2>3. request'["form"].at # "back" /\ request'["other"] = request["other"]
    BY <1>1, <2>2 DEF Asks, Free
  <2> QED BY <1>9, <2>1, <2>3 DEF HintInv
<1>13. CASE sendCode
  <2>1. f.at = "back" /\ f.kind = "send" /\ request' = [request EXCEPT !["form"] = Free]
    BY <1>13 DEF sendCode, Back, Frees
  <2>2. request'["form"].at = "free" /\ request'["other"].at = "free" /\ request'["status"].at = "free"
    BY <1>1, <1>5, <2>1 DEF Free
  <2>3. screen.step # "otp"
    BY <2>1 DEF HintInv
  <2>4. f.reply = "ok" => Mine # {} /\ rows[Latest(Mine)].attempts = 0 /\ email'.attemptsRemaining = MAX_OTP_ATTEMPTS
    <3>1. \A n : [email EXCEPT !.isLoading = FALSE, !.attemptsRemaining = MAX_OTP_ATTEMPTS, !.cooldownUntil = n].attemptsRemaining
                     = MAX_OTP_ATTEMPTS
      BY <1>a DEF Stores
    <3> QED BY <1>13, <2>1, <3>1 DEF sendCode, RemainingAfresh, HintInv
  <2>5. f.reply = "ok" => Shows(0)'
    <3>1. MAX_OTP_ATTEMPTS \in Nat
      BY EmailAssumption
    <3> QED BY <1>2, <1>3, <2>4, <3>1 DEF Shows
  <2>6. f.reply # "ok" => screen' = screen
    BY <1>13 DEF sendCode
  <2> QED BY <2>2, <2>3, <2>5, <2>6 DEF HintInv
<1>14. ASSUME NEW c, handleVerifyCode(c) PROVE HintInv'
  <2>1. screen.step = "otp" /\ screen'.mine /\ Quiescent /\ email'.attemptsRemaining = email.attemptsRemaining
    BY <1>1, <1>6, <1>8, <1>a, <1>b, <1>14 DEF handleVerifyCode, CanEnter
  <2>2. Asks("form", "verify", Visitor, Here, Nobody, c)
    BY <1>14 DEF handleVerifyCode
  <2>3. /\ request'["form"].at = "sent" /\ request'["form"].kind = "verify"
        /\ request'["other"] = request["other"] /\ request'["status"] = request["status"]
    BY <1>1, <2>2 DEF Asks, Free
  <2>4. Shows(0) /\ request["other"].at = "free" /\ request["status"].at = "free"
    BY <1>1, <2>1 DEF HintInv, Quiescent
  <2> QED BY <1>4, <2>1, <2>3, <2>4 DEF HintInv
<1>15. CASE verifyCode
  <2>1. f.at = "back" /\ f.kind = "verify" /\ screen' = screen
    BY <1>15 DEF verifyCode, Back
  <2>2. screen.step = "otp" => screen.mine /\ request["status"].at = "free"
    BY <2>1 DEF HintInv
  <2>3. request["other"].at = "free"
    BY <1>1, <1>5, <2>1
  <2>4. CASE f.reply = "ok"
    <3>1. request' = [request EXCEPT !["form"].at = "resolved"]
      BY <1>15, <2>4 DEF verifyCode, Goes
    <3>2. request'["other"] = request["other"] /\ request'["status"] = request["status"] /\ request'["form"] = [f EXCEPT !.at = "resolved"]
      BY <1>1, <3>1
    <3>3. request'["form"].at = "resolved" /\ request'["form"].kind = "verify"
      <4>1. \A x \in Requests : [x EXCEPT !.at = "resolved"].at = "resolved" /\ [x EXCEPT !.at = "resolved"].kind = x.kind
        BY DEF Requests
      <4> QED BY <1>1, <2>1, <3>2, <4>1
    <3> QED BY <2>1, <2>2, <2>3, <3>2, <3>3 DEF HintInv
  <2>5. CASE f.reply # "ok"
    <3>1. request' = [request EXCEPT !["form"] = Free]
      BY <1>15, <2>5 DEF verifyCode, Frees
    <3>2. request'["other"].at = "free" /\ request'["status"] = request["status"] /\ request'["form"].at = "free"
      BY <1>1, <2>3, <3>1 DEF Free
    <3>3. email'.attemptsRemaining = IF f.reply = "invalid" THEN OneLess(email.attemptsRemaining) ELSE email.attemptsRemaining
      <4>1. \A n : [email EXCEPT !.isLoading = FALSE, !.attemptsRemaining = n].attemptsRemaining = n
        BY <1>a DEF Stores
      <4> QED BY <1>15, <2>5, <4>1 DEF verifyCode
    <3>4. ASSUME screen.step = "otp" PROVE Shows(0)'
      <4>1. CASE f.reply # "invalid"
        <5>1. Shows(0)
          BY <2>1, <2>5, <3>4, <4>1 DEF HintInv
        <5> QED BY <1>4, <3>3, <4>1, <5>1
      <4>2. CASE f.reply = "invalid"
        <5>1. Shows(1)
          BY <2>1, <3>4, <4>2 DEF HintInv
        <5>2. Mine # {} /\ Latest(Mine) \in Numbers
          BY <5>1, LatestIsNewest DEF Shows, Mine, Pending
        <5>3. rows[Latest(Mine)].attempts \in Nat /\ rows[Latest(Mine)].attempts <= MAX_OTP_ATTEMPTS
          <6>1. rows[Latest(Mine)] \in CodeRows
            BY <5>2 DEF MailType, TableType, Numbers
          <6>2. rows[Latest(Mine)].attempts \in Nat
            BY <6>1 DEF CodeRows
          <6> QED BY <5>2, <6>2 DEF TableInv, RowsInv, Counted
        <5>4. MAX_OTP_ATTEMPTS \in Nat /\ email.attemptsRemaining \in Nat
          BY <1>a, EmailAssumption DEF Stores
        <5>5. email.attemptsRemaining - 1 = MAX_OTP_ATTEMPTS - rows[Latest(Mine)].attempts
          BY <5>1 DEF Shows
        <5>6. OneLess(email.attemptsRemaining) = email.attemptsRemaining - 1
          BY <5>3, <5>4, <5>5 DEF OneLess
        <5> QED BY <1>2, <1>3, <3>3, <4>2, <5>2, <5>3, <5>4, <5>5, <5>6 DEF Shows
      <4> QED BY <4>1, <4>2
    <3> QED BY <2>1, <2>2, <3>2, <3>4 DEF HintInv
  <2> QED BY <2>4, <2>5
<1>16. CASE VerifyContinues
  <2>1. f.at = "resolved" /\ request' = [request EXCEPT !["form"] = Free]
    BY <1>16 DEF VerifyContinues, Frees
  <2>2. request'["other"] = request["other"] /\ request'["form"].at = "free"
    BY <1>1, <2>1 DEF Free
  <2>3. screen.step = "otp" => screen.mine
    BY <2>1 DEF HintInv
  <2>4. screen'.step # "otp"
    BY <1>b, <1>16, <2>3 DEF VerifyContinues
  <2> QED BY <1>9, <2>2, <2>4 DEF HintInv
<1>17. CASE RedirectWhenVerified \/ handleResendCode \/ handleBack
  <2>1. screen'.step # "otp" /\ UNCHANGED request
    BY <1>b, <1>17 DEF RedirectWhenVerified, handleResendCode, handleBack, Away
  <2> QED BY <1>9, <2>1 DEF HintInv
<1>18. ASSUME NEW kind, NEW u \in User, NEW ch, NEW t, NEW c, Elsewhere(kind, u, ch, t, c) PROVE HintInv'
  <2>1. u # Visitor
    <3>1. elsewhere \in [User -> Nat] /\ elsewhere' = [elsewhere EXCEPT ![u] = @ + 1]
      BY <1>18 DEF Elsewhere, MailType
    <3> QED BY <3>1
  <2>2. Asks("other", kind, u, ch, t, c) /\ UNCHANGED <<email, screen>>
    BY <1>18 DEF Elsewhere
  <2>3. request'["form"] = f /\ request'["status"] = request["status"] /\ request'["other"].user = u
    BY <1>1, <2>2 DEF Asks, Free
  <2> QED BY <1>2, <1>3, <1>4, <2>1, <2>2, <2>3 DEF HintInv
<1>19. CASE EmailTick
  <2>1. UNCHANGED <<request, screen, email>>
    BY <1>19 DEF EmailTick
  <2> QED BY <1>2, <1>3, <1>4, <2>1 DEF HintInv
<1> QED BY <1>7, <1>10, <1>11, <1>12, <1>13, <1>14, <1>15, <1>16, <1>17, <1>18, <1>19 DEF EmailNext

(* Once the visitor has asked from elsewhere, that stays so.               *)
LEMMA ElsewhereStays ==
  ASSUME MailType, EmailNext, elsewhere'[Visitor] = 0
  PROVE  elsewhere[Visitor] = 0
<1>1. ASSUME NEW kind, NEW u \in User, NEW ch, NEW t, NEW c, Elsewhere(kind, u, ch, t, c) PROVE elsewhere[Visitor] = 0
  <2>1. elsewhere \in [User -> Nat] /\ elsewhere' = [elsewhere EXCEPT ![u] = @ + 1] /\ Visitor \in User
    BY <1>1, EmailAssumption DEF Elsewhere, MailType
  <2> QED BY <2>1
<1> QED BY <1>1 DEF EmailNext, Handles, LoseAnswer, Arrive, checkStatus, sendCode, verifyCode, VerifyContinues,
     RedirectWhenVerified, handleResendCode, handleBack, handleSendCode, handleVerifyCode, EmailTick, Outside

LEMMA ScreenKept ==
  ASSUME MailType, TableInv, ScreenInv, EmailNext, calm'
  PROVE  ScreenInv'
<1>1. Shape'
  BY HandlersKeepShape, ScreenKeepsShape DEF ScreenInv
<1>2. ASSUME elsewhere'[Visitor] = 0 PROVE HintInv'
  BY <1>2, ElsewhereStays, HandlersKeepHint, ScreenKeepsHint DEF ScreenInv
<1> QED BY <1>1, <1>2 DEF ScreenInv

(* While requests keep apart and none is lost, everything above stands;    *)
(* nothing is said of a state after two of them met.                       *)
MailInv == MailType /\ (calm => TableInv /\ ScreenInv)

LEMMA MailStarts == EmailInit => MailInv
<1> SUFFICES ASSUME EmailInit PROVE MailInv
  OBVIOUS
<1>1. MailType
  BY MailTypeStarts
<1>2. \A s \in Slot : /\ request[s].at = "free" /\ request[s].kind = "none" /\ request[s].reply = "none"
                      /\ request[s].user = Visitor /\ request[s].chain = Here
  BY DEF EmailInit, Free, Here
<1>3. Numbers = {}
  BY DEF EmailInit, Numbers
<1>4. Alone
  BY <1>2 DEF Alone
<1>5. RowsInv
  BY <1>3 DEF RowsInv, Counted, InOrder, Spaced, OwnedOnce
<1>6. FoundInv
  BY <1>2 DEF FoundInv, Found
<1>7. Shape
  BY <1>2 DEF Shape, Slot
<1>8. HintInv
  BY <1>2 DEF HintInv, Slot, EmailInit, Away
<1> QED BY <1>1, <1>4, <1>5, <1>6, <1>7, <1>8 DEF MailInv, TableInv, ScreenInv

LEMMA MailKept == MailInv /\ [EmailNext]_emailVars => MailInv'
<1> SUFFICES ASSUME MailInv, [EmailNext]_emailVars PROVE MailInv'
  OBVIOUS
<1>1. MailType /\ MailType'
  BY MailTypeKept DEF MailInv
<1>2. CASE UNCHANGED emailVars
  <2>1. Numbers' = Numbers /\ calm' = calm /\ Mine' = Mine
    BY <1>2 DEF emailVars, Numbers, calm, Mine, Pending
  <2>2. TableInv' = TableInv
    BY <1>2, <2>1 DEF emailVars, TableInv, Alone, RowsInv, Counted, InOrder, Spaced, Before, SentSince, OwnedOnce,
       FoundInv, Found, Room, Holding, Pending, HeldBy, Verified
  <2>3. ScreenInv' = ScreenInv
    BY <1>2, <2>1 DEF emailVars, ScreenInv, Shape, HintInv, Shows
  <2> QED BY <1>1, <2>1, <2>2, <2>3 DEF MailInv
<1>3. CASE EmailNext
  <2> SUFFICES ASSUME calm' PROVE TableInv' /\ ScreenInv'
    BY <1>1 DEF MailInv
  <2>1. TableInv /\ ScreenInv
    BY <1>1, <1>3, CalmBefore DEF MailInv
  <2>2. TableInv'
    BY <1>1, <1>3, <2>1, AloneKept, RowsKept, FoundKept DEF TableInv
  <2>3. ScreenInv'
    BY <1>1, <1>3, <2>1, ScreenKept
  <2> QED BY <2>2, <2>3
<1> QED BY <1>2, <1>3

LEMMA MailInvSuffices == MailInv => MailboxRulesHold
<1> SUFFICES ASSUME MailInv, calm PROVE MailboxRulesHold
  BY DEF MailboxRulesHold, OneOwnerPerMailbox, LimitsHold, GuessesWithinLimit, CodesWithinLimit, HintIsTheServers
<1>1. MailType /\ TableInv /\ ScreenInv
  BY DEF MailInv
<1>2. OneOwnerPerMailbox
  <2> SUFFICES ASSUME NEW ch \in Chain, NEW m PROVE Cardinality(HeldBy(m, ch)) <= 1
    BY DEF OneOwnerPerMailbox
  <2>1. \A i, j \in HeldBy(m, ch) : i = j
    BY <1>1 DEF TableInv, RowsInv, OwnedOnce, HeldBy, Verified
  <2>2. CASE HeldBy(m, ch) = {}
    BY <2>2, FS_EmptySet
  <2>3. ASSUME NEW i \in HeldBy(m, ch) PROVE Cardinality(HeldBy(m, ch)) <= 1
    <3>1. HeldBy(m, ch) = {i}
      BY <2>1
    <3>2. Cardinality({i}) = 1
      BY FS_Singleton
    <3> QED BY <3>1, <3>2
  <2> QED BY <2>2, <2>3
<1>3. GuessesWithinLimit
  BY <1>1 DEF GuessesWithinLimit, TableInv, RowsInv, Counted
<1>4. CodesWithinLimit
  BY <1>1 DEF CodesWithinLimit, TableInv, RowsInv, Spaced, Before
<1>5. HintIsTheServers
  <2> SUFFICES ASSUME elsewhere[Visitor] = 0, Quiescent, screen.step = "otp"
               PROVE  email.attemptsRemaining = MAX_OTP_ATTEMPTS - rows[Latest(Pending(Visitor, Here))].attempts
    BY DEF HintIsTheServers
  <2>1. Shows(0)
    BY <1>1 DEF ScreenInv, HintInv, Quiescent, Slot
  <2>2. email.attemptsRemaining \in Nat
    BY <1>1 DEF MailType, ScreenType, Stores
  <2> QED BY <2>1, <2>2 DEF Shows, Mine
<1> QED BY <1>2, <1>3, <1>4, <1>5 DEF MailboxRulesHold, LimitsHold

(* routes/client/halo.ts 16-25, 557-760: as long as requests keep apart    *)
(* and none is lost, for any wallets, mailboxes, limits and clocks, a      *)
(* mailbox is verified for one wallet of a chain, no code is guessed at    *)
(* more often than allowed, none is sent too soon or too often, and the    *)
(* attempts the screen counts down on its own are the server's.            *)
THEOREM MailboxHolds == EmailSpec => []MailboxRulesHold
<1>1. EmailInit => MailInv
  BY MailStarts
<1>2. MailInv /\ [EmailNext]_emailVars => MailInv'
  BY MailKept
<1>3. MailInv => MailboxRulesHold
  BY MailInvSuffices
<1> QED BY <1>1, <1>2, <1>3, PTL DEF EmailSpec

-----------------------------------------------------------------------------
(* Receipts read again.  The places up to the cursor are those that were   *)
(* taken, each once; one without an entry is in a worker's hand.           *)
Taken == 1..cursor
PlacesInv ==
    /\ phase # "broken" /\ (phase = "idle" => Len(chosen) = 0)
    /\ \A i \in Places : runs[i] = IF i \in Taken THEN 1 ELSE 0
    /\ \A w \in Workers : hand[w] <= cursor
    /\ DOMAIN results \subseteq Taken
    /\ \A i \in Taken : i \in DOMAIN results \/ \E w \in Workers : hand[w] = i
    /\ phase = "answered" => cursor = Len(chosen) /\ \A w \in Workers : hand[w] = 0

(* What an entry says, and that it is still so if nobody wrote.            *)
EntryInv(i) ==
    /\ results[i].id = chosen[i].id /\ results[i].row = chosen[i].row
    /\ results[i].lines = lines[chosen[i].id]
    /\ results[i].reading # NULL =>
          results[i].changed = differences(results[i].row, results[i].lines, results[i].reading)
ViewsInv ==
    /\ phase \in {"runs", "answered"} \/ DOMAIN results = {}
    /\ phase = "runs" \/ DOMAIN results # {} => lines # Unread
    /\ writes = 0 => \A i \in Places : chosen[i].row = filed[chosen[i].id].row
    /\ writes = 0 /\ lines # Unread => \A r \in Filed : lines[r] = filed[r].lines

ProbeInv ==
    ProbeTypeOK /\ PlacesInv /\ ViewsInv /\ \A i \in DOMAIN results : EntryInv(i)

(* What a worker may answer of a place.                                    *)
Entries(i) == {Failed(i, "No stored image"), Failed(i, "error")} \cup {Read(i, d) : d \in Reading}

LEMMA ChosenTyped ==
  ASSUME ProbeTypeOK
  PROVE  /\ Len(chosen) \in Nat /\ DOMAIN chosen = Places
         /\ \A i \in Places : chosen[i] \in [id: Filed, row: Row] /\ chosen[i].id \in Filed
<1> DEFINE Choice == [id: Filed, row: Row]
<1>1. chosen \in Seq(Choice)
  BY DEF ProbeTypeOK
<1>2. \A c \in Choice : c.id \in Filed
  OBVIOUS
<1> HIDE DEF Choice
<1>3. Len(chosen) \in Nat /\ DOMAIN chosen = Places /\ \A i \in Places : chosen[i] \in Choice
  BY <1>1 DEF Places
<1> QED BY <1>2, <1>3 DEF Choice

LEMMA ProbeInitInv ==
  ASSUME ProbeInit PROVE ProbeInv
<1> USE ReparseAssumption
<1>1. Len(chosen) = 0 /\ Places = {} /\ DOMAIN chosen = {} /\ chosen \in Seq([id: Filed, row: Row])
  BY DEF ProbeInit, Places
<1>2. DOMAIN results = {} /\ DOMAIN runs = {} /\ runs \in [Places -> Nat]
  BY <1>1 DEF ProbeInit
<1>3. ProbeTypeOK
  <2>1. cursor \in 0..Len(chosen) /\ hand \in [Workers -> 0..Len(chosen)] /\ DOMAIN results \subseteq Places
    BY <1>1, <1>2 DEF ProbeInit
  <2>2. filed \in [Filed -> File] /\ phase = "idle" /\ ignoreAge = FALSE /\ writes \in Nat
    BY DEF ProbeInit
  <2>3. images \in [Filed -> Count] \cup {Unread} /\ lines \in [Filed -> Count] \cup {Unread}
    BY DEF ProbeInit
  <2> QED BY <1>1, <1>2, <2>1, <2>2, <2>3 DEF ProbeTypeOK
<1>4. PlacesInv
  BY <1>1, <1>2 DEF ProbeInit, PlacesInv, Taken
<1>5. ViewsInv
  BY <1>1, <1>2 DEF ProbeInit, ViewsInv
<1> QED BY <1>2, <1>3, <1>4, <1>5 DEF ProbeInv

(* The request starts with the rows as they are.                           *)
LEMMA AskKeeps ==
  ASSUME ProbeInv, Ask PROVE ProbeInv'
<1> USE ReparseAssumption
<1>0. PICK ids \in Named :
        /\ \E order \in Orders(ids) :
              /\ chosen' = [i \in DOMAIN order |-> [id |-> order[i], row |-> filed[order[i]].row]]
              /\ runs' = [i \in DOMAIN order |-> 0]
        /\ phase' = IF ids = {} THEN "answered" ELSE "files"
  BY DEF Ask
<1>1. PICK order \in Orders(ids) :
        /\ chosen' = [i \in DOMAIN order |-> [id |-> order[i], row |-> filed[order[i]].row]]
        /\ runs' = [i \in DOMAIN order |-> 0]
  BY <1>0
<1>2. /\ phase = "idle" /\ ignoreAge' \in BOOLEAN
      /\ UNCHANGED <<filed, images, lines, cursor, hand, results, writes>>
  BY DEF Ask
<1>3. IsFiniteSet(ids) /\ ids \subseteq Filed /\ Cardinality(ids) \in Nat
  BY FS_Subset, FS_CardinalityType DEF Named
<1> DEFINE n == Cardinality(ids)
<1>4. n \in Nat /\ order \in [1..n -> ids] /\ (ids = {} => n = 0)
  BY <1>3, FS_EmptySet DEF Orders
<1> HIDE DEF n
<1>5. \A i \in 1..n : order[i] \in Filed /\ filed[order[i]] \in File /\ filed[order[i]].row \in Row
  BY <1>3, <1>4 DEF ProbeInv, ProbeTypeOK, File
<1>6. /\ chosen' \in [1..n -> [id: Filed, row: Row]] /\ chosen' \in Seq([id: Filed, row: Row])
      /\ Len(chosen') = n /\ Places' = 1..n
  BY <1>1, <1>4, <1>5 DEF Places
<1>7. cursor = 0 /\ DOMAIN results = {} /\ \A w \in Workers : hand[w] = 0
  <2>1. Len(chosen) = 0 /\ Places = {}
    BY <1>2 DEF ProbeInv, PlacesInv, Places
  <2>2. cursor \in 0..Len(chosen) /\ hand \in [Workers -> 0..Len(chosen)] /\ DOMAIN results \subseteq Places
    BY DEF ProbeInv, ProbeTypeOK
  <2> HIDE DEF n
  <2>3. 0..Len(chosen) = {0}
    BY <2>1
  <2> QED BY <2>1, <2>2, <2>3
<1>8. runs' \in [1..n -> {0}]
  BY <1>1, <1>4
<1>9. ProbeTypeOK'
  <2>1. cursor' \in 0..n /\ hand' \in [Workers -> 0..n] /\ DOMAIN results' \subseteq 1..n
    <3>1. hand' \in [Workers -> {0}]
      BY <1>2, <1>7 DEF ProbeInv, ProbeTypeOK
    <3> QED BY <1>2, <1>4, <1>7, <3>1
  <2>2. runs' \in [1..n -> Nat]
    BY <1>8
  <2>3. phase' \in {"idle", "files", "runs", "answered", "broken"}
    BY <1>0
  <2> QED BY <1>2, <1>6, <2>1, <2>2, <2>3 DEF ProbeInv, ProbeTypeOK
<1>10. PlacesInv'
  <2>1. phase' # "broken" /\ phase' # "idle" /\ (phase' = "answered" => n = 0)
    BY <1>0, <1>4
  <2>2. Taken' = {} /\ \A i \in 1..n : runs'[i] = 0
    BY <1>2, <1>7, <1>8 DEF Taken
  <2> QED BY <1>2, <1>6, <1>7, <2>1, <2>2 DEF PlacesInv
<1>11. ViewsInv'
  <2>1. \A i \in 1..n : chosen'[i].row = filed[chosen'[i].id].row
    BY <1>1, <1>4
  <2>2. phase' # "runs"
    BY <1>0
  <2> QED BY <1>2, <1>6, <1>7, <2>1, <2>2 DEF ProbeInv, ViewsInv
<1> QED BY <1>2, <1>7, <1>9, <1>10, <1>11 DEF ProbeInv

(* Reading images and lines, beginning, answering: nothing of the answer   *)
(* under construction changes.                                             *)
LEMMA FilesKeep ==
  ASSUME ProbeInv, ReadImages \/ ReadLines \/ Begin PROVE ProbeInv'
<1> USE ReparseAssumption
<1>1. /\ phase \in {"files", "runs"} /\ phase' \in {"files", "runs"}
      /\ phase = "files" /\ DOMAIN results = {}
      /\ UNCHANGED <<filed, ignoreAge, chosen, cursor, hand, results, runs, writes>>
      /\ Places' = Places /\ Taken' = Taken
  BY DEF ReadImages, ReadLines, Begin, ProbeInv, ViewsInv, Places, Taken
<1>2. images' \in [Filed -> Count] \cup {Unread} /\ lines' \in [Filed -> Count] \cup {Unread}
  <2>1. \A r \in Filed : filed[r].images \in Count /\ filed[r].lines \in Count
    BY DEF ProbeInv, ProbeTypeOK, File
  <2>2. images \in [Filed -> Count] \cup {Unread} /\ lines \in [Filed -> Count] \cup {Unread}
    BY DEF ProbeInv, ProbeTypeOK
  <2>3. images' \in [Filed -> Count] \cup {images} /\ lines' \in [Filed -> Count] \cup {lines}
    BY <2>1 DEF ReadImages, ReadLines, Begin
  <2> QED BY <2>2, <2>3
<1>3. ProbeTypeOK'
  BY <1>1, <1>2 DEF ProbeInv, ProbeTypeOK
<1>4. PlacesInv'
  BY <1>1 DEF ProbeInv, PlacesInv
<1>5. ViewsInv'
  <2>1. lines' = lines \/ lines' = [r \in Filed |-> filed[r].lines]
    BY DEF ReadImages, ReadLines, Begin
  <2>2. phase' = "runs" => lines' # Unread
    BY <1>1 DEF ReadImages, ReadLines, Begin
  <2>3. writes' = 0 /\ lines' # Unread => \A r \in Filed : lines'[r] = filed[r].lines
    BY <1>1, <2>1 DEF ProbeInv, ViewsInv
  <2>4. Unread' = Unread
    BY DEF Unread
  <2> QED BY <1>1, <2>2, <2>3, <2>4 DEF ProbeInv, ViewsInv
<1> QED BY <1>1, <1>3, <1>4, <1>5 DEF ProbeInv

LEMMA AnswerKeeps ==
  ASSUME ProbeInv, Answer PROVE ProbeInv'
<1>1. /\ phase = "runs" /\ phase' = "answered" /\ cursor = Len(chosen) /\ (\A w \in Workers : hand[w] = 0)
      /\ UNCHANGED <<filed, ignoreAge, chosen, images, lines, cursor, hand, results, runs, writes>>
      /\ Places' = Places /\ Taken' = Taken
  BY DEF Answer, Places, Taken
<1>2. ProbeTypeOK' /\ PlacesInv'
  BY <1>1 DEF ProbeInv, ProbeTypeOK, PlacesInv, Unread
<1>3. ViewsInv'
  BY <1>1 DEF ProbeInv, ViewsInv, Unread
<1>4. \A i \in DOMAIN results' : EntryInv(i)'
  BY <1>1 DEF ProbeInv, EntryInv, differences, OrEmpty, SameTotal
<1> QED BY <1>2, <1>3, <1>4 DEF ProbeInv

(* What others write is not looked at again.                               *)
LEMMA RefileKeeps ==
  ASSUME ProbeInv, Refile PROVE ProbeInv'
<1>1. /\ writes' = writes + 1 /\ writes \in Nat
      /\ UNCHANGED <<phase, ignoreAge, chosen, images, lines, cursor, hand, results, runs>>
      /\ Places' = Places /\ Taken' = Taken
  BY DEF Refile, ProbeInv, ProbeTypeOK, Places, Taken
<1>2. filed' \in [Filed -> File]
  BY DEF Refile, ProbeInv, ProbeTypeOK
<1>3. ProbeTypeOK' /\ PlacesInv'
  BY <1>1, <1>2 DEF ProbeInv, ProbeTypeOK, PlacesInv, Unread
<1>4. writes' # 0
  BY <1>1
<1>5. ViewsInv'
  BY <1>1, <1>4 DEF ProbeInv, ViewsInv, Unread
<1>6. \A i \in DOMAIN results' : EntryInv(i)'
  BY <1>1 DEF ProbeInv, EntryInv, differences, OrEmpty, SameTotal
<1> QED BY <1>3, <1>5, <1>6 DEF ProbeInv

(* An entry for a place that was taken.                                    *)
LEMMA PutKeeps ==
  ASSUME ProbeInv, phase = "runs", NEW i \in Places, NEW entry,
         entry \in Entries(i),
         results' = Put(i, entry), UNCHANGED <<filed, phase, chosen, lines, writes>>
  PROVE  /\ DOMAIN results' = DOMAIN results \cup {i}
         /\ \A j \in DOMAIN results' : EntryInv(j)'
         /\ ViewsInv'
<1>1. DOMAIN results' = DOMAIN results \cup {i}
  BY DEF Put
<1>2. \A j \in DOMAIN results' : EntryInv(j)'
  <2> SUFFICES ASSUME NEW j \in DOMAIN results' PROVE EntryInv(j)'
    OBVIOUS
  <2>1. CASE j # i
    <3>1. j \in DOMAIN results /\ results'[j] = results[j]
      BY <1>1, <2>1 DEF Put
    <3>2. EntryInv(j) /\ UNCHANGED <<chosen, lines>>
      BY <3>1 DEF ProbeInv
    <3> QED BY <3>1, <3>2 DEF EntryInv, differences, OrEmpty, SameTotal
  <2>2. CASE j = i
    <3>1. results'[i] = entry
      BY DEF Put
    <3>2. /\ entry.id = chosen[i].id /\ entry.row = chosen[i].row
          /\ entry.lines = lines[chosen[i].id]
          /\ entry.reading # NULL => entry.changed = differences(entry.row, entry.lines, entry.reading)
      <4>1. CASE \E error : entry = Entry(i, error, NULL, NULL, {})
        <5>1. PICK error : entry = Entry(i, error, NULL, NULL, {})
          BY <4>1
        <5>2. entry.id = chosen[i].id /\ entry.row = chosen[i].row /\ entry.lines = lines[chosen[i].id]
          BY <5>1 DEF Entry
        <5>3. entry.reading = NULL
          BY <5>1 DEF Entry
        <5> QED BY <5>2, <5>3
      <4>2. CASE \E d \in Reading : entry = Read(i, d)
        <5>1. PICK d \in Reading : entry = Read(i, d)
          BY <4>2
        <5> DEFINE changes == differences(chosen[i].row, lines[chosen[i].id], d)
                   v == Verdict(d, ignoreAge)
        <5>2. entry = Entry(i, NULL, d, v, changes)
          BY <5>1 DEF Read
        <5> HIDE DEF changes, v
        <5>3. /\ entry.id = chosen[i].id /\ entry.row = chosen[i].row
              /\ entry.lines = lines[chosen[i].id] /\ entry.reading = d /\ entry.changed = changes
          BY <5>2 DEF Entry
        <5> QED BY <5>3 DEF changes
      <4> QED BY <4>1, <4>2 DEF Failed, Entries
    <3> QED BY <2>2, <3>1, <3>2 DEF EntryInv, differences, OrEmpty, SameTotal
  <2> QED BY <2>1, <2>2
<1>3. ViewsInv'
  BY DEF ProbeInv, ViewsInv, Unread, Places
<1> QED BY <1>1, <1>2, <1>3

LEMMA TakesKeeps ==
  ASSUME ProbeInv, NEW w \in Workers, Takes(w) PROVE ProbeInv'
<1> USE ReparseAssumption
<1> DEFINE i == cursor + 1
<1>1. /\ phase = "runs" /\ hand[w] = 0 /\ cursor < Len(chosen)
      /\ cursor' = i /\ runs' = [runs EXCEPT ![i] = runs[i] + 1]
      /\ UNCHANGED <<filed, ignoreAge, chosen, images, lines, writes>>
      /\ Places' = Places
  BY DEF Takes, Places
<1>2. cursor \in 0..Len(chosen) /\ Len(chosen) \in Nat
  BY ChosenTyped DEF ProbeInv, ProbeTypeOK
<1>3. i \in Places /\ i \notin Taken /\ Taken' = Taken \cup {i} /\ i # 0 /\ i \in 0..Len(chosen)
  BY <1>1, <1>2 DEF Places, Taken
<1>4. ~RangeError(chosen[i].row.date)
  BY DEF RangeError, usable
<1>5. /\ phase' = phase
      /\ \/ results' = Put(i, Failed(i, "No stored image")) /\ hand' = hand
         \/ results' = results /\ hand' = [hand EXCEPT ![w] = i]
  BY <1>4 DEF Takes
<1> HIDE DEF i
<1>6. runs' \in [Places -> Nat] /\ \A j \in Places : runs'[j] = IF j \in Taken' THEN 1 ELSE 0
  <2>1. runs \in [Places -> Nat] /\ runs[i] = 0
    BY <1>3 DEF ProbeInv, ProbeTypeOK, PlacesInv
  <2>2. \A j \in Places : runs'[j] = IF j = i THEN 1 ELSE runs[j]
    BY <1>1, <2>1
  <2> QED BY <1>1, <1>3, <2>1, <2>2 DEF ProbeInv, PlacesInv
<1>7. hand \in [Workers -> 0..Len(chosen)] /\ hand' \in [Workers -> 0..Len(chosen)]
  BY <1>3, <1>5 DEF ProbeInv, ProbeTypeOK
<1>8. \A v \in Workers : hand'[v] <= cursor'
  <2>1. \A v \in Workers : hand[v] \in Int /\ hand[v] <= cursor
    BY <1>7 DEF ProbeInv, PlacesInv
  <2>2. \A v \in Workers : hand'[v] = hand[v] \/ hand'[v] = i
    BY <1>5, <1>7
  <2>3. cursor \in Int /\ cursor' = cursor + 1
    BY <1>1, <1>2 DEF i
  <2> QED BY <2>1, <2>2, <2>3 DEF i
<1>9. /\ DOMAIN results' \subseteq Taken'
      /\ i \in DOMAIN results' \/ hand'[w] = i
      /\ DOMAIN results \subseteq DOMAIN results'
      /\ (\A j \in DOMAIN results' : EntryInv(j)') /\ ViewsInv'
  <2>1. DOMAIN results \subseteq Taken
    BY DEF ProbeInv, PlacesInv
  <2>2. CASE results' = Put(i, Failed(i, "No stored image"))
    <3> DEFINE entry == Failed(i, "No stored image")
    <3>1. entry \in Entries(i)
      BY DEF Entries
    <3>2. results' = Put(i, entry)
      BY <2>2
    <3> HIDE DEF entry
    <3>3. /\ DOMAIN results' = DOMAIN results \cup {i}
          /\ \A j \in DOMAIN results' : EntryInv(j)'
          /\ ViewsInv'
      BY <1>1, <1>3, <1>5, <3>1, <3>2, PutKeeps
    <3> QED BY <1>3, <2>1, <3>3
  <2>3. CASE results' = results /\ hand' = [hand EXCEPT ![w] = i]
    <3>1. hand'[w] = i
      BY <1>7, <2>3
    <3>2. \A j \in DOMAIN results' : EntryInv(j)'
      BY <1>1, <2>3 DEF ProbeInv, EntryInv, differences, OrEmpty, SameTotal
    <3>3. ViewsInv'
      BY <1>1, <1>5, <2>3 DEF ProbeInv, ViewsInv, Unread
    <3> QED BY <1>3, <2>1, <2>3, <3>1, <3>2, <3>3
  <2> QED BY <1>5, <2>2, <2>3
<1>10. \A j \in Taken' : j \in DOMAIN results' \/ \E v \in Workers : hand'[v] = j
  <2> SUFFICES ASSUME NEW j \in Taken', j \notin DOMAIN results' PROVE \E v \in Workers : hand'[v] = j
    OBVIOUS
  <2>1. CASE j = i
    BY <1>9, <2>1
  <2>2. CASE j # i
    <3>1. PICK v \in Workers : hand[v] = j
      BY <1>3, <1>9, <2>2 DEF ProbeInv, PlacesInv
    <3>2. j # 0
      BY <1>2, <1>3, <2>2 DEF Taken
    <3>3. v # w
      BY <1>1, <3>1, <3>2
    <3> QED BY <1>5, <1>7, <3>1, <3>3
  <2> QED BY <2>1, <2>2
<1>11. PlacesInv'
  BY <1>1, <1>5, <1>6, <1>8, <1>9, <1>10 DEF PlacesInv
<1>12. ProbeTypeOK'
  <2>1. cursor' \in 0..Len(chosen)
    BY <1>1, <1>3
  <2>2. DOMAIN results' \subseteq Places
    BY <1>2, <1>3, <1>9 DEF Taken, Places
  <2> QED BY <1>1, <1>5, <1>6, <1>7, <2>1, <2>2 DEF ProbeInv, ProbeTypeOK, Unread
<1> QED BY <1>9, <1>11, <1>12 DEF ProbeInv

LEMMA WorkerEndsKeeps ==
  ASSUME ProbeInv, NEW w \in Workers, WorkerEnds(w) PROVE ProbeInv'
<1> DEFINE i == hand[w]
<1>1. /\ phase = "runs" /\ i # 0 /\ hand' = [hand EXCEPT ![w] = 0]
      /\ UNCHANGED <<filed, phase, ignoreAge, chosen, images, lines, cursor, runs, writes>>
      /\ Places' = Places /\ Taken' = Taken
  BY DEF WorkerEnds, Places, Taken
<1>2. PICK entry \in Entries(i) :
        results' = Put(i, entry)
  BY DEF WorkerEnds, Entries
<1>3. hand \in [Workers -> 0..Len(chosen)] /\ Len(chosen) \in Nat /\ cursor \in 0..Len(chosen) /\ i <= cursor
  BY ChosenTyped DEF ProbeInv, ProbeTypeOK, PlacesInv
<1>4. i \in Places /\ i \in Taken /\ hand' \in [Workers -> 0..Len(chosen)]
  <2>1. i \in 0..Len(chosen)
    BY <1>3
  <2>2. hand' \in [Workers -> 0..Len(chosen)]
    <3>1. 0 \in 0..Len(chosen)
      BY <1>3
    <3> QED BY <1>1, <1>3, <3>1
  <2> HIDE DEF i
  <2>3. i \in Places /\ i \in Taken
    BY <1>1, <1>3, <2>1 DEF Places, Taken
  <2> QED BY <2>2, <2>3
<1> HIDE DEF i
<1>5. /\ DOMAIN results' = DOMAIN results \cup {i}
      /\ \A j \in DOMAIN results' : EntryInv(j)'
      /\ ViewsInv'
  BY <1>1, <1>2, <1>4, PutKeeps
<1>6. PlacesInv'
  <2>1. \A v \in Workers : hand'[v] <= cursor
    <3>1. \A v \in Workers : hand'[v] = hand[v] \/ hand'[v] = 0
      BY <1>1, <1>3
    <3>2. 0 <= cursor
      BY <1>3
    <3> QED BY <3>1, <3>2 DEF ProbeInv, PlacesInv
  <2>2. \A j \in Taken : j \in DOMAIN results' \/ \E v \in Workers : hand'[v] = j
    <3> SUFFICES ASSUME NEW j \in Taken, j \notin DOMAIN results' PROVE \E v \in Workers : hand'[v] = j
      OBVIOUS
    <3>1. PICK v \in Workers : hand[v] = j
      BY <1>5 DEF ProbeInv, PlacesInv
    <3>2. v # w
      BY <1>5, <3>1 DEF i
    <3> QED BY <1>1, <1>3, <3>1, <3>2
  <2> QED BY <1>1, <1>4, <1>5, <2>1, <2>2 DEF ProbeInv, PlacesInv
<1>7. ProbeTypeOK'
  BY <1>1, <1>4, <1>5 DEF ProbeInv, ProbeTypeOK, Unread
<1> QED BY <1>5, <1>6, <1>7 DEF ProbeInv

LEMMA ProbeStepInv ==
  ASSUME ProbeInv, [ProbeNext]_probeVars PROVE ProbeInv'
<1>1. CASE UNCHANGED probeVars
  <2>1. ProbeTypeOK' /\ PlacesInv' /\ ViewsInv'
    BY <1>1 DEF probeVars, ProbeInv, ProbeTypeOK, PlacesInv, ViewsInv, Places, Taken, Unread
  <2>2. \A i \in DOMAIN results' : EntryInv(i)'
    BY <1>1 DEF probeVars, ProbeInv, EntryInv, differences, OrEmpty, SameTotal
  <2> QED BY <2>1, <2>2 DEF ProbeInv
<1>2. CASE ProbeNext
  BY <1>2, AskKeeps, FilesKeep, AnswerKeeps, RefileKeeps, TakesKeeps, WorkerEndsKeeps DEF ProbeNext
<1> QED BY <1>1, <1>2

(* The age of a paper is asked last.                                       *)
LEMMA AgeIsLast == AgeHidesNothing
<1> SUFFICES ASSUME NEW d \in Reading
             PROVE  Verdict(d, TRUE) = IF Verdict(d, FALSE) = "too-old" THEN NULL ELSE Verdict(d, FALSE)
  BY DEF AgeHidesNothing
<1> DEFINE a == notAReceipt(d)
           b == d.quality < RECEIPT_QUALITY_THRESHOLD
           c == d.merchant \in {NULL, ""}
           e == ~Storable(d.total)
<1>1. \A age : gradeReceiptFields(d, age) =
        IF a THEN "not-a-receipt" ELSE IF b THEN "unreadable" ELSE IF c THEN "no-merchant"
        ELSE IF e THEN "no-total" ELSE IF d.age = NULL THEN "no-date"
        ELSE IF age > MAX_RECEIPT_AGE_DAYS THEN "too-old" ELSE NULL
  BY DEF gradeReceiptFields
<1> HIDE DEF a, b, c, e
<1>2. Verdict(d, TRUE) = gradeReceiptFields(d, IF d.age # NULL THEN 0 ELSE d.age)
  BY DEF Verdict, asOf
<1>3. Verdict(d, FALSE) = gradeReceiptFields(d, d.age)
  BY DEF Verdict, asOf
<1>4. ~(0 > MAX_RECEIPT_AGE_DAYS)
  BY ReparseAssumption
<1>5. CASE d.age = NULL
  BY <1>1, <1>2, <1>3, <1>5
<1>6. CASE d.age # NULL
  <2>1. Verdict(d, TRUE) = gradeReceiptFields(d, 0)
    BY <1>2, <1>6
  <2>2. CASE a \/ b \/ c \/ e
    BY <1>1, <1>3, <2>1, <2>2
  <2>3. CASE ~a /\ ~b /\ ~c /\ ~e
    <3>1. Verdict(d, TRUE) = NULL
      BY <1>1, <1>4, <1>6, <2>1, <2>3
    <3>2. Verdict(d, FALSE) = IF d.age > MAX_RECEIPT_AGE_DAYS THEN "too-old" ELSE NULL
      BY <1>1, <1>3, <1>6, <2>3
    <3> QED BY <3>1, <3>2
  <2> QED BY <2>2, <2>3
<1> QED BY <1>5, <1>6

LEMMA ProbeInvHolds ==
  ASSUME ProbeInv PROVE ProbesHold
<1>1. EveryReceiptOnce
  <2> SUFFICES ASSUME phase = "answered"
               PROVE  DOMAIN results = Places /\ \A i \in Places : results[i].id = chosen[i].id /\ runs[i] = 1
    BY DEF EveryReceiptOnce
  <2>1. cursor = Len(chosen) /\ (\A w \in Workers : hand[w] = 0) /\ Taken = Places
    BY DEF ProbeInv, PlacesInv, Taken, Places
  <2>2. \A i \in Taken : i # 0
    BY DEF Taken, ProbeInv, ProbeTypeOK
  <2>3. DOMAIN results = Places
    BY <2>1, <2>2 DEF ProbeInv, PlacesInv
  <2> QED BY <2>1, <2>3 DEF ProbeInv, PlacesInv, EntryInv
<1>2. NoBatchIsLost
  BY DEF ProbeInv, PlacesInv, NoBatchIsLost
<1>3. ShownAsFiled
  <2> SUFFICES ASSUME writes = 0, NEW i \in DOMAIN results
               PROVE  /\ results[i].row = filed[results[i].id].row
                      /\ results[i].lines = filed[results[i].id].lines
    BY DEF ShownAsFiled
  <2>1. i \in Places /\ chosen[i].id \in Filed
    BY ChosenTyped DEF ProbeInv, ProbeTypeOK
  <2> QED BY <2>1 DEF ProbeInv, ViewsInv, EntryInv
<1>4. NoDifferenceUnseen
  <2> SUFFICES ASSUME NEW i \in DOMAIN results, NEW d \in {results[i].reading} \ {NULL}, results[i].changed = {}
               PROVE  /\ OrEmpty(results[i].row.merchant) = OrEmpty(d.merchant)
                      /\ results[i].row.total = d.total
                      /\ OrEmpty(results[i].row.country) = d.country
                      /\ results[i].lines = d.lines
    BY DEF NoDifferenceUnseen
  <2> DEFINE shown == results[i].row
             count == results[i].lines
  <2>1. differences(shown, count, d) = {}
    BY DEF ProbeInv, EntryInv
  <2> HIDE DEF shown, count
  <2>2. /\ "merchantName" \notin differences(shown, count, d)
        /\ "totalAmount" \notin differences(shown, count, d)
        /\ "countryCode" \notin differences(shown, count, d)
        /\ "lineCount" \notin differences(shown, count, d)
    BY <2>1
  <2>3. /\ OrEmpty(shown.merchant) = OrEmpty(d.merchant)
        /\ shown.total = d.total
        /\ OrEmpty(shown.country) = d.country
        /\ count = d.lines
    BY <2>2 DEF differences, SameTotal
  <2> QED BY <2>3 DEF shown, count
<1> QED BY <1>1, <1>2, <1>3, <1>4, AgeIsLast DEF ProbesHold

(* However the workers' downloads and answers are ordered, and whichever   *)
(* of them fail, a request that is answered has told of every receipt      *)
(* once; none is lost to one bad date; and what is shown beside a reading  *)
(* is what was on file.                                                    *)
THEOREM ProbesAreTrue == ProbeSpec => []ProbesHold
<1>1. ProbeInit => ProbeInv
  BY ProbeInitInv
<1>2. ProbeInv /\ [ProbeNext]_probeVars => ProbeInv'
  BY ProbeStepInv
<1>3. ProbeInv => ProbesHold
  BY ProbeInvHolds
<1> QED BY <1>1, <1>2, <1>3, PTL DEF ProbeSpec

-----------------------------------------------------------------------------
(* What operators are told.  Every row that is or may come to be in a      *)
(* table bears a time, and whoever it is of has signed up.                 *)
BegunInv ==
    /\ \A d \in committing \cup stored \cup late : begun[d] \in Instant
    /\ \A s \in views : \A d \in s : begun[d] \in Instant
SignedInv == \A d \in committing \cup stored : What[d].table = "users" \/ SignedUp(What[d].person)

(* A transaction that opened since the report was asked for bears a later  *)
(* time, and nothing else makes the tables differ, while no past is made.  *)
Differ(d, s) == (d \in s) # (d \in stored)
AsOfInv ==
    report.kind # "none" =>
        /\ ~Sooner(time, report.now)
        /\ \A d \in committing \ late : ~Sooner(begun[d], report.now)
        /\ ~rewritten =>
              \A s \in views, d \in Deed : Differ(d, s) => d \in late \/ ~Sooner(begun[d], report.now)

(* What has been told, of what windows.                                    *)
Dated(q) == q.when = Ever \/ q.when \in [start: Instant, end: Instant]
SignUps == Query("rows", "users", Celo, Ever)
AllPoints == Query("sum", "earned", Celo, SoFar)
AskedInv ==
    /\ report.kind = "none" => Told = {}
    /\ \A q \in Told : Dated(q)
    /\ report.kind = "today" /\ report.turn[1] > 0 =>
          AllPoints \in Told /\ \A s \in PointSources : sumPoints(s) \in Told
    /\ report.kind = "funnel" => Told \subseteq funnel /\ (report.turn[1] > 0 => SignUps \in Told)

(* It is still so if nothing was stored since.                             *)
SteadyInv == steady => views = {stored} /\ \A q \in Told : figures[q] = Value(q, stored)

(* The cohorts are told one after another, each before its days.           *)
CohortInv ==
    report.kind = "retention" =>
        /\ \A c \in Told : c.how = "who" =>
              /\ figures[c] \subseteq Person
              /\ \E j \in 0..report.turn[1] : c = CohortQuery(j) /\ (j < report.turn[1] \/ report.turn[2] > 0)
        /\ report.turn[2] > 0 => CohortQuery(report.turn[1]) \in Told

ReportsInv ==
    /\ ReportsTypeOK /\ BegunInv /\ SignedInv /\ AsOfInv /\ AskedInv /\ SteadyInv
    /\ CohortInv /\ RetentionIsAShare /\ FinishedDaysStand

(* Days and windows.                                                       *)
LEMMA DaysAreInstants ==
  ASSUME NEW t \in Instant
  PROVE  /\ t.day \in Int /\ t.tick \in 0..(Ticks - 1)
         /\ startOfDay(t) \in Instant /\ startOfDay(t).day = t.day /\ startOfDay(t).tick = 0
         /\ \A n \in Int : /\ subDays(t, n) \in Instant
                           /\ subDays(t, n).day = t.day - n /\ subDays(t, n).tick = t.tick
<1>1. t.day \in Int /\ t.tick \in 0..(Ticks - 1)
  BY DEF Instant
<1>2. 0 \in 0..(Ticks - 1)
  BY ReportsAssumption
<1>3. startOfDay(t) \in Instant /\ startOfDay(t).day = t.day /\ startOfDay(t).tick = 0
  BY <1>1, <1>2 DEF startOfDay, Instant
<1>4. ASSUME NEW n \in Int
      PROVE  subDays(t, n) \in Instant /\ subDays(t, n).day = t.day - n /\ subDays(t, n).tick = t.tick
  <2>1. t.day - n \in Int /\ t = [day |-> t.day, tick |-> t.tick]
    BY <1>1 DEF Instant
  <2>2. subDays(t, n) = [day |-> t.day - n, tick |-> t.tick]
    BY <2>1 DEF subDays
  <2> QED BY <1>1, <2>1, <2>2 DEF Instant
<1> QED BY <1>1, <1>3, <1>4

LEMMA WindowsAreDated ==
  ASSUME NEW s \in Instant, NEW e \in Instant
  PROVE  /\ Window(s, e) \in [start: Instant, end: Instant] /\ Window(s, e) # Ever
         /\ Window(s, e).start = s /\ Window(s, e).end = e
         /\ \A t : Within(t, Window(s, e)) <=> ~Sooner(t, s) /\ Sooner(t, e)
<1> DEFINE w == Window(s, e)
<1>1. w \in [start: Instant, end: Instant] /\ w.start = s /\ w.end = e
  BY DEF Window
<1>2. w # Ever
  BY <1>1, MomentsAssumption
<1> QED BY <1>1, <1>2 DEF Within

LEMMA WholeDaysAreDated ==
  ASSUME NEW t \in Instant
  PROVE  WholeDay(t) \in [start: Instant, end: Instant] /\ WholeDay(t).start.day = t.day
<1>1. startOfDay(t) \in Instant /\ startOfDay(t).day = t.day
  BY DaysAreInstants
<1>2. subDays(startOfDay(t), -1) \in Instant
  BY <1>1, DaysAreInstants
<1> QED BY <1>1, <1>2, WindowsAreDated DEF WholeDay

(* What comes after the present is in no window that is over.              *)
LEMMA OverIsOver ==
  ASSUME NEW b \in Instant, report.now \in Instant, ~Sooner(b, report.now),
         NEW q, Dated(q), IsOver(q)
  PROVE  ~Within(b, q.when)
<1> DEFINE e == q.when.end
           n == report.now
<1>1. q.when # Ever /\ e \in Instant /\ ~Sooner(today, e)
  BY DEF Dated, IsOver
<1>2. today.day = n.day /\ today.tick = 0 /\ n.day \in Int /\ n.tick \in 0..(Ticks - 1)
  BY DaysAreInstants DEF today
<1>3. b.day \in Int /\ b.tick \in 0..(Ticks - 1) /\ e.day \in Int /\ e.tick \in 0..(Ticks - 1)
  BY <1>1, DaysAreInstants
<1> HIDE DEF e, n
<1>4. Ticks - 1 \in Int
  BY ReportsAssumption
<1>5. ~Sooner(b, n)
  BY DEF n
<1>6. ~Sooner(b, e)
  BY <1>1, <1>2, <1>3, <1>4, <1>5 DEF Sooner
<1> QED BY <1>1, <1>6 DEF Within, e

(* A query depends on the rows it selects, and on nothing else.            *)
Gives(q, x) ==
    CASE q.how = "rows" -> Cardinality(x)
      [] q.how = "sum" -> Total(x)
      [] q.how = "people" -> Cardinality(PeopleOf(x))
      [] q.how = "who" -> PeopleOf(x)

LEMMA ValueIsGiven ==
  ASSUME NEW q, NEW s
  PROVE  Value(q, s) = Gives(q, Selected(q, s))
BY DEF Value, Gives

LEMMA SelectedIn ==
  ASSUME NEW q, NEW s \in SUBSET Deed
  PROVE  Selected(q, s) \in SUBSET Deed /\ PeopleOf(Selected(q, s)) \subseteq q.people
BY DEF Selected, PeopleOf

LEMMA PeopleAreFewer ==
  ASSUME NEW x \in SUBSET Deed
  PROVE  /\ IsFiniteSet(x) /\ IsFiniteSet(PeopleOf(x)) /\ PeopleOf(x) \subseteq Person
         /\ Cardinality(PeopleOf(x)) <= Cardinality(x)
         /\ Cardinality(PeopleOf(x)) \in Nat /\ Cardinality(x) \in Nat
<1>1. IsFiniteSet(x)
  BY ReportsAssumption, FS_Subset
<1> DEFINE of == [d \in x |-> What[d].person]
<1>2. of \in Surjection(x, PeopleOf(x))
  BY DEF PeopleOf, Surjection
<1> HIDE DEF of
<1>3. IsFiniteSet(PeopleOf(x)) /\ Cardinality(PeopleOf(x)) <= Cardinality(x)
  BY <1>1, <1>2, FS_Surjection
<1>4. PeopleOf(x) \subseteq Person
  BY ReportsAssumption DEF PeopleOf
<1> QED BY <1>1, <1>3, <1>4, FS_CardinalityType

(* Rows whose times have not changed are selected as before.               *)
LEMMA SelectedStays ==
  ASSUME NEW q, NEW s, \A d \in s : begun'[d] = begun[d]
  PROVE  Selected(q, s)' = Selected(q, s)
BY DEF Selected

(* Every query of a batch is of days, and who is asked for is a cohort.    *)
LEMMA BatchesAreDated ==
  ASSUME ReportsTypeOK, Telling, NEW q \in Batch
  PROVE  Dated(q)
<1> DEFINE Dates == [start: Instant, end: Instant]
<1>1. report.now \in Instant /\ today \in Instant /\ report.turn[1] \in Nat /\ report.turn[2] \in 0..RETENTION_DAYS
  BY DaysAreInstants DEF ReportsTypeOK, today
<1>2. \A n \in Int : subDays(today, n) \in Instant
  BY <1>1, DaysAreInstants
<1>3. SoFar \in Dates /\ SoFar.start = today
  BY <1>1, WindowsAreDated DEF SoFar
<1>4. \A t \in Instant : WholeDay(t) \in Dates
  BY WholeDaysAreDated
<1>5. \A w \in Dates : \A p \in getDayStats(w) : p.when \in Dates
  <2> SUFFICES ASSUME NEW w \in Dates, NEW p \in getDayStats(w) PROVE p.when \in Dates
    OBVIOUS
  <2>1. w.start \in Instant
    OBVIOUS
  <2>2. WholeDay(w.start) \in Dates
    BY <1>4, <2>1
  <2> HIDE DEF Dates
  <2>3. p.when = w \/ p.when = WholeDay(w.start)
    BY DEF getDayStats, Query
  <2> QED BY <2>2, <2>3
<1> HIDE DEF Dates
<1>6. CASE report.kind = "overview"
  BY <1>6 DEF Batch, Totals, Query, Dated
<1>7. CASE report.kind = "funnel"
  BY <1>7 DEF Batch, funnel, countUsersWhere, Query, Dated
<1>8. CASE report.kind = "today"
  <2>1. q \in getDayStats(SoFar) \/ \E s \in PointSources : q = sumPoints(s)
    BY <1>8 DEF Batch
  <2>2. \A s : sumPoints(s).when = SoFar
    BY DEF sumPoints, Query
  <2>3. q.when \in Dates
    BY <1>3, <1>5, <2>1, <2>2
  <2> QED BY <2>3 DEF Dated, Dates
<1>9. CASE report.kind = "yesterday"
  <2>1. Window(subDays(today, 1), today) \in Dates
    BY <1>1, <1>2, WindowsAreDated DEF Dates
  <2>2. q.when \in Dates
    BY <1>5, <1>9, <2>1 DEF Batch
  <2> QED BY <2>2 DEF Dated, Dates
<1>10. CASE report.kind = "history"
  <2> DEFINE i == HISTORY_DAYS - 1 - report.turn[1]
  <2>1. i \in Int
    BY <1>1, ReportsAssumption
  <2> HIDE DEF i
  <2>2. dayEnd(i) \in Instant
    BY <1>1, <1>2, <2>1 DEF dayEnd
  <2>3. HistoryWindow(i) \in Dates
    BY <1>2, <2>1, <2>2, WindowsAreDated DEF HistoryWindow, Dates
  <2>4. q \in getDayStats(HistoryWindow(i))
    BY <1>10 DEF Batch, i
  <2> QED BY <1>5, <2>3, <2>4 DEF Dated, Dates
<1>11. CASE report.kind = "retention"
  <2> DEFINE i == report.turn[1]
             n == report.turn[2]
  <2>1. q \in retention(i, n) /\ i \in Nat /\ n \in Int
    BY <1>1, <1>11, ReportsAssumption DEF Batch
  <2> HIDE DEF i, n
  <2>2. CohortDay(i) \in Instant
    BY <1>2, <2>1, ReportsAssumption DEF CohortDay
  <2>3. subDays(CohortDay(i), 1 - n) \in Instant
    BY <2>1, <2>2, DaysAreInstants
  <2>4. q.when = WholeDay(CohortDay(i)) \/ q.when = WholeDay(subDays(CohortDay(i), 1 - n))
    BY <2>1 DEF retention, CohortQuery, ActiveOn, Query
  <2> QED BY <1>4, <2>2, <2>3, <2>4 DEF Dated, Dates
<1>12. CASE report.kind = "onchain"
  BY <1>3, <1>12 DEF Batch, dailyOnchainBonus, Query, Dated, Dates
<1>13. CASE report.kind = "daily-stats"
  <2>1. q.when = Ever \/ q.when = SoFar \/ q.when = WholeDay(today)
    BY <1>13 DEF Batch, dailyStats, dailyOnchainBonus, Totals, Query
  <2> QED BY <1>1, <1>3, <1>4, <2>1 DEF Dated, Dates
<1> QED BY <1>6, <1>7, <1>8, <1>9, <1>10, <1>11, <1>12, <1>13 DEF ReportsTypeOK, Telling, Kinds

LEMMA ReportsInitInv ==
  ASSUME ReportsInit PROVE ReportsInv
<1> USE ReportsAssumption, MomentsAssumption
<1>1. DOMAIN figures = {} /\ Told = {}
  BY DEF ReportsInit, Told
<1>2. time \in Instant
  BY DEF ReportsInit, Instant
<1>3. begun \in [Deed -> Instant \cup {NotYet}] /\ \A d \in Earlier : begun[d] = time
  BY <1>2 DEF ReportsInit
<1>4. ReportsTypeOK
  <2>1. report.kind = "none" /\ report.now = time /\ report.turn = <<0, 0>>
    BY DEF ReportsInit, NoReport
  <2>2. report.turn \in Nat \X (0..RETENTION_DAYS)
    BY <2>1
  <2>3. /\ committing \subseteq Deed /\ stored \subseteq Deed /\ late \subseteq Deed
        /\ views \subseteq SUBSET Deed /\ stored \in views
    BY DEF ReportsInit
  <2>4. steady = TRUE /\ rewritten = FALSE /\ rewrites = 0
    BY DEF ReportsInit
  <2> QED BY <1>2, <1>3, <2>1, <2>2, <2>3, <2>4 DEF ReportsTypeOK
<1>5. BegunInv
  BY <1>2, <1>3 DEF ReportsInit, BegunInv
<1>6. SignedInv
  BY DEF ReportsInit, SignedInv, SignedUp
<1>7. report.kind = "none" /\ views = {stored}
  BY DEF ReportsInit, NoReport
<1>8. AsOfInv /\ AskedInv /\ SteadyInv /\ CohortInv
  BY <1>1, <1>7 DEF AsOfInv, AskedInv, SteadyInv, CohortInv
<1>9. RetentionIsAShare /\ FinishedDaysStand
  BY <1>1 DEF RetentionIsAShare, FinishedDaysStand
<1> QED BY <1>4, <1>5, <1>6, <1>8, <1>9 DEF ReportsInv

LEMMA AskForKeeps ==
  ASSUME ReportsInv, NEW kind \in Kinds, AskFor(kind) PROVE ReportsInv'
<1>1. /\ report.kind = "none" /\ Told' = {} /\ Told = {}
      /\ report' = [kind |-> kind, now |-> time, turn |-> <<0, 0>>]
      /\ views' = {stored} /\ late' = committing /\ rewritten' = FALSE
      /\ UNCHANGED <<time, begun, committing, stored, figures, rewrites>>
  BY DEF AskFor, ReportsInv, AskedInv, Told
<1>2. report'.kind = kind /\ report'.now = time /\ report'.turn = <<0, 0>>
  BY <1>1
<1>3. ReportsTypeOK'
  <2>1. report'.turn \in Nat \X (0..RETENTION_DAYS)
    BY <1>2, ReportsAssumption
  <2> QED BY <1>1, <1>2, <2>1 DEF ReportsInv, ReportsTypeOK, AskFor
<1>4. BegunInv'
  BY <1>1 DEF ReportsInv, BegunInv
<1>5. SignedInv'
  BY <1>1 DEF ReportsInv, SignedInv, SignedUp
<1>6. AsOfInv'
  <2>1. ~Sooner(time, time)
    BY DaysAreInstants DEF ReportsInv, ReportsTypeOK, Sooner
  <2> QED BY <1>1, <1>2, <2>1 DEF AsOfInv, Differ, Sooner
<1>7. AskedInv' /\ SteadyInv'
  BY <1>1, <1>2 DEF AskedInv, SteadyInv, Kinds
<1>8. CohortInv' /\ RetentionIsAShare' /\ FinishedDaysStand'
  BY <1>1, <1>2 DEF CohortInv, RetentionIsAShare, FinishedDaysStand
<1> QED BY <1>3, <1>4, <1>5, <1>6, <1>7, <1>8 DEF ReportsInv

(* While nothing is told, what was told is as it was.                      *)
LEMMA ToldStays ==
  ASSUME ReportsInv, UNCHANGED <<report, figures>>
  PROVE  /\ AskedInv' /\ CohortInv' /\ RetentionIsAShare'
         /\ \A q : IsOver(q)' <=> IsOver(q)
         /\ Told' = Told
<1>1. Told' = Told /\ today' = today
  BY DEF Told, today
<1>2. SoFar' = SoFar
  BY <1>1 DEF SoFar
<1>3. AllPoints' = AllPoints /\ SignUps' = SignUps /\ funnel' = funnel
  BY <1>2 DEF AllPoints, SignUps, funnel, countUsersWhere
<1>4. \A s : sumPoints(s)' = sumPoints(s)
  BY <1>2 DEF sumPoints
<1>5. AskedInv'
  BY <1>1, <1>3, <1>4 DEF ReportsInv, AskedInv
<1>6. \A j : CohortQuery(j)' = CohortQuery(j)
  BY <1>1 DEF CohortQuery, CohortDay
<1>7. CohortQuery(report.turn[1])' = CohortQuery(report.turn[1])
  BY <1>1 DEF CohortQuery, CohortDay
<1>8. CohortInv'
  BY <1>1, <1>6, <1>7 DEF ReportsInv, CohortInv
<1>9. RetentionIsAShare'
  BY <1>1 DEF ReportsInv, RetentionIsAShare
<1>10. \A q : IsOver(q)' <=> IsOver(q)
  BY <1>1 DEF IsOver
<1> QED BY <1>1, <1>5, <1>8, <1>9, <1>10

LEMMA StoredValueStays ==
  ASSUME NEW q, Selected(q, stored)' = Selected(q, stored)
  PROVE  Value(q, stored)' = Value(q, stored)
BY DEF Value

(* Nothing stored or removed, and no stored row bears another time.        *)
LEMMA FiguresStand ==
  ASSUME ReportsInv, UNCHANGED <<stored, report, figures, views, steady, rewritten, late>>,
         \A d \in stored : begun'[d] = begun[d], \A d \in late : begun'[d] = begun[d]
  PROVE  SteadyInv' /\ FinishedDaysStand'
<1>1. Told' = Told /\ \A q : IsOver(q)' <=> IsOver(q)
  BY ToldStays
<1>2. ASSUME NEW q PROVE Value(q, stored)' = Value(q, stored)
  <2>1. Selected(q, stored)' = Selected(q, stored)
    BY DEF Selected
  <2> QED BY <2>1, StoredValueStays
<1>3. SteadyInv'
  BY <1>1, <1>2 DEF ReportsInv, SteadyInv
<1>4. FinishedDaysStand'
  BY <1>1, <1>2 DEF ReportsInv, FinishedDaysStand
<1> QED BY <1>3, <1>4

LEMMA TimePassesKeeps ==
  ASSUME ReportsInv, TimePasses PROVE ReportsInv'
<1>1. UNCHANGED <<begun, committing, stored, report, figures, views, late, steady, rewritten, rewrites>>
  BY DEF TimePasses
<1>2. time.day \in Int /\ time.tick \in 0..(Ticks - 1) /\ time = [day |-> time.day, tick |-> time.tick]
  BY DEF ReportsInv, ReportsTypeOK, Instant
<1>3. \/ time.tick < Ticks - 1 /\ time' = [day |-> time.day, tick |-> time.tick + 1]
      \/ time' = [day |-> time.day + 1, tick |-> 0]
  BY <1>2 DEF TimePasses
<1>4. Ticks \in Nat \ {0}
  BY ReportsAssumption
<1>5. time' \in Instant /\ Sooner(time, time')
  <2>1. CASE time.tick < Ticks - 1 /\ time' = [day |-> time.day, tick |-> time.tick + 1]
    <3>1. time.tick + 1 \in 0..(Ticks - 1)
      BY <1>2, <1>4, <2>1
    <3> QED BY <1>2, <2>1, <3>1 DEF Instant, Sooner
  <2>2. CASE time' = [day |-> time.day + 1, tick |-> 0]
    <3>1. 0 \in 0..(Ticks - 1)
      BY <1>4
    <3> QED BY <1>2, <2>2, <3>1 DEF Instant, Sooner
  <2> QED BY <1>3, <2>1, <2>2
<1>6. ReportsTypeOK'
  BY <1>1, <1>5 DEF ReportsInv, ReportsTypeOK
<1>7. BegunInv' /\ SignedInv'
  BY <1>1 DEF ReportsInv, BegunInv, SignedInv, SignedUp
<1>8. AsOfInv'
  <2>1. \A t \in Instant : ~Sooner(time, t) => ~Sooner(time', t)
    <3> SUFFICES ASSUME NEW t \in Instant, ~Sooner(time, t) PROVE ~Sooner(time', t)
      OBVIOUS
    <3>1. t.day \in Int /\ t.tick \in Int /\ time'.day \in Int /\ time'.tick \in Int
      BY <1>4, <1>5 DEF Instant
    <3> QED BY <1>2, <1>4, <1>5, <3>1 DEF Sooner
  <2>2. report.kind # "none" => ~Sooner(time', report.now)
    BY <2>1 DEF ReportsInv, ReportsTypeOK, AsOfInv
  <2> QED BY <1>1, <2>2 DEF ReportsInv, AsOfInv, Differ, Sooner
<1>9. SteadyInv' /\ FinishedDaysStand'
  BY <1>1, FiguresStand
<1> QED BY <1>1, <1>6, <1>7, <1>8, <1>9, ToldStays DEF ReportsInv

LEMMA BeginDeedKeeps ==
  ASSUME ReportsInv, NEW d \in Deed, BeginDeed(d) PROVE ReportsInv'
<1>1. /\ begun[d] = NotYet /\ (What[d].table = "users" \/ SignedUp(What[d].person))
      /\ begun' = [begun EXCEPT ![d] = time] /\ committing' = committing \cup {d}
      /\ UNCHANGED <<time, stored, report, figures, views, late, steady, rewritten, rewrites>>
  BY DEF BeginDeed
<1>2. begun \in [Deed -> Instant \cup {NotYet}] /\ time \in Instant
  BY DEF ReportsInv, ReportsTypeOK
<1>3. begun'[d] = time /\ begun' \in [Deed -> Instant \cup {NotYet}] /\ \A e \in Deed \ {d} : begun'[e] = begun[e]
  BY <1>1, <1>2
<1>4. d \notin committing \cup stored \cup late /\ \A s \in views : d \notin s
  BY <1>1, MomentsAssumption DEF ReportsInv, BegunInv
<1>5. ReportsTypeOK'
  BY <1>1, <1>3 DEF ReportsInv, ReportsTypeOK
<1>6. BegunInv'
  BY <1>1, <1>2, <1>3, <1>4 DEF ReportsInv, BegunInv, ReportsTypeOK
<1>7. SignedInv'
  BY <1>1 DEF ReportsInv, SignedInv, SignedUp
<1>8. AsOfInv'
  <2> SUFFICES ASSUME report.kind # "none"
               PROVE  /\ ~Sooner(time, report.now)
                      /\ \A e \in committing' \ late : ~Sooner(begun'[e], report.now)
                      /\ ~rewritten =>
                            \A s \in views, e \in Deed : Differ(e, s) => e \in late \/ ~Sooner(begun'[e], report.now)
    BY <1>1 DEF AsOfInv, Differ, Sooner
  <2>1. ~Sooner(time, report.now)
    BY DEF ReportsInv, AsOfInv
  <2>2. \A e \in committing' \ late : ~Sooner(begun'[e], report.now)
    BY <1>1, <1>3, <1>4, <2>1 DEF ReportsInv, AsOfInv, ReportsTypeOK
  <2>3. ASSUME ~rewritten, NEW s \in views, NEW e \in Deed, Differ(e, s)
        PROVE  e \in late \/ ~Sooner(begun'[e], report.now)
    BY <1>3, <1>4, <2>3 DEF ReportsInv, AsOfInv, Differ
  <2> QED BY <2>1, <2>2, <2>3
<1>9. SteadyInv' /\ FinishedDaysStand'
  <2>1. \A e \in stored \cup late : begun'[e] = begun[e]
    BY <1>3, <1>4 DEF ReportsInv, ReportsTypeOK
  <2> QED BY <1>1, <2>1, FiguresStand
<1> QED BY <1>1, <1>5, <1>6, <1>7, <1>8, <1>9, ToldStays DEF ReportsInv

LEMMA CommitDeedKeeps ==
  ASSUME ReportsInv, NEW d \in Deed, CommitDeed(d) PROVE ReportsInv'
<1>1. /\ d \in committing /\ committing' = committing \ {d}
      /\ stored' = stored \cup {d} /\ steady' = FALSE /\ views' = views \cup {stored'}
      /\ UNCHANGED <<time, begun, report, figures, late, rewritten, rewrites>>
  BY DEF CommitDeed, StoreRows
<1>2. ReportsTypeOK'
  BY <1>1 DEF ReportsInv, ReportsTypeOK
<1>3. BegunInv'
  <2>1. begun[d] \in Instant /\ \A e \in stored' : begun[e] \in Instant
    BY <1>1 DEF ReportsInv, BegunInv
  <2> QED BY <1>1, <2>1 DEF ReportsInv, BegunInv
<1>4. SignedInv'
  BY <1>1 DEF ReportsInv, SignedInv, SignedUp
<1>5. AsOfInv'
  <2> SUFFICES ASSUME report.kind # "none"
               PROVE  /\ ~Sooner(time, report.now)
                      /\ \A e \in committing' \ late : ~Sooner(begun[e], report.now)
                      /\ ~rewritten => \A s \in views', e \in Deed :
                            (e \in s) # (e \in stored') => e \in late \/ ~Sooner(begun[e], report.now)
    BY <1>1 DEF AsOfInv, Differ, Sooner
  <2>1. ~Sooner(time, report.now) /\ \A e \in committing' \ late : ~Sooner(begun[e], report.now)
    BY <1>1 DEF ReportsInv, AsOfInv
  <2>2. ASSUME ~rewritten, NEW s \in views', NEW e \in Deed, (e \in s) # (e \in stored')
        PROVE  e \in late \/ ~Sooner(begun[e], report.now)
    <3>1. s \in views
      BY <1>1, <2>2
    <3>2. e = d \/ Differ(e, s)
      BY <1>1, <2>2 DEF Differ
    <3>3. d \in late \/ ~Sooner(begun[d], report.now)
      BY <1>1 DEF ReportsInv, AsOfInv
    <3> QED BY <2>2, <3>1, <3>2, <3>3 DEF ReportsInv, AsOfInv
  <2> QED BY <2>1, <2>2
<1>6. SteadyInv'
  BY <1>1 DEF SteadyInv
<1>7. FinishedDaysStand'
  <2>1. Told' = Told /\ \A q : IsOver(q)' <=> IsOver(q)
    BY <1>1, ToldStays
  <2> SUFFICES ASSUME ~rewritten, NEW q \in Told, IsOver(q), \A e \in late : ~Within(begun[e], q.when)
               PROVE  figures[q] = Value(q, stored)'
    BY <1>1, <2>1 DEF FinishedDaysStand, Within, Sooner
  <2>2. report.kind # "none" /\ Dated(q)
    BY DEF ReportsInv, AskedInv
  <2>3. ~Within(begun[d], q.when)
    <3>1. CASE d \in late
      BY <3>1
    <3>2. CASE d \notin late
      <4>1. begun[d] \in Instant /\ ~Sooner(begun[d], report.now) /\ report.now \in Instant
        BY <1>1, <2>2, <3>2 DEF ReportsInv, BegunInv, AsOfInv, ReportsTypeOK
      <4> QED BY <2>2, <4>1, OverIsOver
    <3> QED BY <3>1, <3>2
  <2>4. Selected(q, stored)' = Selected(q, stored)
    BY <1>1, <2>3 DEF Selected, Within, Sooner
  <2>5. Value(q, stored)' = Value(q, stored)
    BY <2>4, StoredValueStays
  <2> QED BY <2>5 DEF ReportsInv, FinishedDaysStand
<1> QED BY <1>1, <1>2, <1>3, <1>4, <1>5, <1>6, <1>7, ToldStays DEF ReportsInv

(* Once the past is rewritten, only what bears a time matters.             *)
LEMMA SeedDeedKeeps ==
  ASSUME ReportsInv, NEW d \in Deed, SeedDeed(d) PROVE ReportsInv'
<1>1. /\ begun[d] = NotYet /\ SignedUp(What[d].person)
      /\ stored' = stored \cup {d} /\ steady' = FALSE /\ views' = views \cup {stored'}
      /\ rewritten' = TRUE /\ rewrites' = rewrites + 1
      /\ UNCHANGED <<time, committing, report, figures, late>>
  BY DEF SeedDeed, Rewrites, StoreRows
<1>2. PICK t \in Instant : begun' = [begun EXCEPT ![d] = t]
  <2>1. PICK day \in 0..time.day, tick \in 0..(Ticks - 1) :
           begun' = [begun EXCEPT ![d] = [day |-> day, tick |-> tick]]
    BY DEF SeedDeed
  <2>2. [day |-> day, tick |-> tick] \in Instant
    BY DEF Instant
  <2> QED BY <2>1, <2>2
<1>3. begun \in [Deed -> Instant \cup {NotYet}]
  BY DEF ReportsInv, ReportsTypeOK
<1>4. begun'[d] = t /\ begun' \in [Deed -> Instant \cup {NotYet}] /\ \A e \in Deed \ {d} : begun'[e] = begun[e]
  BY <1>2, <1>3
<1>5. d \notin committing \cup stored \cup late /\ \A s \in views : d \notin s
  BY <1>1, MomentsAssumption DEF ReportsInv, BegunInv
<1>6. ReportsTypeOK'
  <2>0. rewrites \in Nat
    BY DEF ReportsInv, ReportsTypeOK
  <2>1. rewrites' \in Nat /\ steady' \in BOOLEAN /\ rewritten' \in BOOLEAN
    <3>1. rewrites' = rewrites + 1 /\ steady' = FALSE /\ rewritten' = TRUE
      BY <1>1, Zenon
    <3>2. rewrites' \in Nat
      BY <2>0, <3>1
    <3>3. steady' \in BOOLEAN /\ rewritten' \in BOOLEAN
      BY <3>1, Zenon
    <3> QED BY <3>2, <3>3
  <2>2. stored' \subseteq Deed /\ stored' \in views' /\ views' \subseteq SUBSET Deed
    BY <1>1 DEF ReportsInv, ReportsTypeOK
  <2>3. time' \in Instant /\ begun' \in [Deed -> Instant \cup {NotYet}]
    BY <1>1, <1>4 DEF ReportsInv, ReportsTypeOK
  <2> QED BY <1>1, <2>1, <2>2, <2>3 DEF ReportsInv, ReportsTypeOK
<1>7. BegunInv'
  <2>1. \A e \in Deed : begun[e] \in Instant => begun'[e] \in Instant
    BY <1>4
  <2>2. \A e \in committing \cup stored' \cup late : begun'[e] \in Instant
    BY <1>1, <1>4, <2>1 DEF ReportsInv, BegunInv, ReportsTypeOK
  <2>3. \A s \in views' : \A e \in s : begun'[e] \in Instant
    BY <1>1, <2>1, <2>2 DEF ReportsInv, BegunInv, ReportsTypeOK
  <2> QED BY <1>1, <2>2, <2>3 DEF BegunInv
<1>8. SignedInv'
  BY <1>1 DEF ReportsInv, SignedInv, SignedUp
<1>9. AsOfInv'
  <2>1. report.kind # "none" => \A e \in committing \ late : ~Sooner(begun'[e], report.now)
    BY <1>4, <1>5 DEF ReportsInv, AsOfInv, ReportsTypeOK
  <2>2. report.kind # "none" => ~Sooner(time, report.now)
    BY DEF ReportsInv, AsOfInv
  <2> QED BY <1>1, <2>1, <2>2 DEF AsOfInv, Sooner
<1>10. SteadyInv' /\ FinishedDaysStand'
  BY <1>1 DEF SteadyInv, FinishedDaysStand
<1> QED BY <1>1, <1>6, <1>7, <1>8, <1>9, <1>10, ToldStays DEF ReportsInv

(* Those who signed up stay, whatever is removed.                          *)
LEMMA RemoveDeedKeeps ==
  ASSUME ReportsInv, NEW d \in Deed, RemoveDeed(d) PROVE ReportsInv'
<1>1. /\ d \in stored /\ What[d].table # "users"
      /\ stored' = stored \ {d} /\ steady' = FALSE /\ views' = views \cup {stored'}
      /\ rewritten' = TRUE /\ rewrites' = rewrites + 1
      /\ UNCHANGED <<time, begun, committing, report, figures, late>>
  BY DEF RemoveDeed, Rewrites, StoreRows, Demo
<1>2. ReportsTypeOK'
  <2>0. rewrites \in Nat
    BY DEF ReportsInv, ReportsTypeOK
  <2>1. rewrites' \in Nat /\ steady' \in BOOLEAN /\ rewritten' \in BOOLEAN
    <3>1. rewrites' = rewrites + 1 /\ steady' = FALSE /\ rewritten' = TRUE
      BY <1>1, Zenon
    <3>2. rewrites' \in Nat
      BY <2>0, <3>1
    <3>3. steady' \in BOOLEAN /\ rewritten' \in BOOLEAN
      BY <3>1, Zenon
    <3> QED BY <3>2, <3>3
  <2>2. stored' \subseteq Deed /\ stored' \in views' /\ views' \subseteq SUBSET Deed
    BY <1>1 DEF ReportsInv, ReportsTypeOK
  <2>3. time' \in Instant /\ begun' \in [Deed -> Instant \cup {NotYet}]
    BY <1>1 DEF ReportsInv, ReportsTypeOK
  <2> QED BY <1>1, <2>1, <2>2, <2>3 DEF ReportsInv, ReportsTypeOK
<1>3. BegunInv'
  BY <1>1 DEF ReportsInv, BegunInv
<1>4. SignedInv'
  <2>1. \A p : SignedUp(p) => SignedUp(p)'
    BY <1>1 DEF SignedUp
  <2> QED BY <1>1, <2>1 DEF ReportsInv, SignedInv
<1>5. AsOfInv'
  BY <1>1 DEF ReportsInv, AsOfInv, Sooner
<1>6. SteadyInv' /\ FinishedDaysStand'
  BY <1>1 DEF SteadyInv, FinishedDaysStand
<1> QED BY <1>1, <1>2, <1>3, <1>4, <1>5, <1>6, ToldStays DEF ReportsInv

(* A batch: each query saw the tables as they were at some moment of it.   *)
LEMMA TellGives ==
  ASSUME ReportsInv, Tell
  PROVE  /\ Telling /\ UNCHANGED <<time, begun, committing, stored, late, steady, rewritten, rewrites>>
         /\ report' = [report EXCEPT !.turn = NextTurn] /\ views' = {stored}
         /\ Told' = Told \cup Batch
         /\ \A q \in Batch : \E s \in views : figures'[q] = Value(q, s)
         /\ \A q \in Told \ Batch : figures'[q] = figures[q]
<1>1. /\ Telling /\ UNCHANGED <<time, begun, committing, stored, late, steady, rewritten, rewrites>>
      /\ report' = [report EXCEPT !.turn = NextTurn] /\ views' = {stored}
  BY DEF Tell, deedVars
<1>2. PICK moment \in [Uncertain -> views] :
         figures' = [q \in Told \cup Batch |-> IF q \in Batch THEN Value(q, Seen(moment, q)) ELSE figures[q]]
  BY DEF Tell, Told
<1>3. \A q : Seen(moment, q) \in views
  BY <1>2 DEF Seen, ReportsInv, ReportsTypeOK
<1>4. Told' = Told \cup Batch
  BY <1>2 DEF Told
<1>5. \A q \in Batch : figures'[q] = Value(q, Seen(moment, q))
  BY <1>2
<1>6. \A q \in Told \ Batch : figures'[q] = figures[q]
  BY <1>2
<1> QED BY <1>1, <1>3, <1>4, <1>5, <1>6

(* Cohort by cohort.                                                       *)
LEMMA CohortsDiffer ==
  ASSUME ReportsTypeOK, NEW i \in Nat, NEW j \in Nat, CohortQuery(i) = CohortQuery(j)
  PROVE  i = j
<1>1. today \in Instant /\ RETENTION_DAYS \in Nat
  BY DaysAreInstants, ReportsAssumption DEF ReportsTypeOK, today
<1>2. ASSUME NEW k \in Nat
      PROVE  CohortQuery(k).when.start.day = today.day - (RETENTION_DAYS - k)
  <2>1. CohortDay(k) \in Instant /\ CohortDay(k).day = today.day - (RETENTION_DAYS - k)
    BY <1>1, DaysAreInstants DEF CohortDay
  <2>2. CohortQuery(k).when = WholeDay(CohortDay(k))
    BY DEF CohortQuery, Query
  <2> QED BY <2>1, <2>2, WholeDaysAreDated
<1>3. today.day - (RETENTION_DAYS - i) = today.day - (RETENTION_DAYS - j)
  BY <1>2
<1>4. today.day \in Int
  BY <1>1, DaysAreInstants
<1> QED BY <1>1, <1>3, <1>4

LEMMA TellKeepsCohorts ==
  ASSUME ReportsInv, Tell PROVE CohortInv' /\ RetentionIsAShare'
<1> DEFINE i == report.turn[1]
           n == report.turn[2]
<1>1. /\ Telling /\ report' = [report EXCEPT !.turn = NextTurn]
      /\ Told' = Told \cup Batch /\ stored \in views /\ views \subseteq SUBSET Deed
      /\ \A q \in Batch : \E s \in views : figures'[q] = Value(q, s)
      /\ \A q \in Told \ Batch : figures'[q] = figures[q]
  BY TellGives DEF ReportsInv, ReportsTypeOK
<1>2. report'.kind = report.kind /\ report'.turn = NextTurn /\ today' = today
  BY <1>1 DEF today, ReportsInv, ReportsTypeOK
<1>3. \A j : CohortQuery(j)' = CohortQuery(j)
  BY <1>2 DEF CohortQuery, CohortDay
<1> SUFFICES ASSUME report.kind = "retention" PROVE CohortInv' /\ RetentionIsAShare'
  BY <1>2 DEF CohortInv, RetentionIsAShare
<1>4. i \in Nat /\ n \in 0..RETENTION_DAYS /\ RETENTION_DAYS \in Nat \ {0}
  BY ReportsAssumption DEF ReportsInv, ReportsTypeOK
<1>5. Batch = retention(i, n)
  BY DEF Batch
<1>6. /\ n < RETENTION_DAYS => NextTurn = <<i, n + 1>>
      /\ n = RETENTION_DAYS => NextTurn = <<i + 1, 0>>
  BY <1>4 DEF NextTurn
<1>7. n = 0 => Batch = {CohortQuery(i)}
  BY <1>5 DEF retention
<1>8. n # 0 => \A q \in Batch : q.how = "people" /\ q.people = figures[CohortQuery(i)]
  BY <1>5 DEF retention, ActiveOn, Query
<1>9. \A j : CohortQuery(j).how = "who"
  BY DEF CohortQuery, Query
<1> HIDE DEF i, n
<1>10. \A c \in Told : c.how = "who" =>
          /\ figures[c] \subseteq Person
          /\ \E j \in 0..i : c = CohortQuery(j) /\ (j < i \/ n > 0)
  BY DEF ReportsInv, CohortInv, i, n
<1>11. n > 0 => CohortQuery(i) \in Told
  BY DEF ReportsInv, CohortInv, i, n
(* A cohort that was told is not asked for again.                          *)
<1>12. \A c \in Told : c.how = "who" => c \notin Batch
  <2> SUFFICES ASSUME NEW c \in Told, c.how = "who", c \in Batch PROVE FALSE
    OBVIOUS
  <2>1. n = 0
    BY <1>8
  <2>2. PICK j \in 0..i : c = CohortQuery(j) /\ j < i
    BY <1>10, <2>1
  <2>3. CohortQuery(j) = CohortQuery(i)
    BY <1>7, <2>1, <2>2
  <2> QED BY <1>4, <2>2, <2>3, CohortsDiffer DEF ReportsInv
<1>13. \A q \in Batch : q.how = "who" => figures'[q] \subseteq Person
  <2> SUFFICES ASSUME NEW q \in Batch, q.how = "who" PROVE figures'[q] \subseteq Person
    OBVIOUS
  <2>1. PICK s \in views : figures'[q] = Value(q, s)
    BY <1>1
  <2>2. Value(q, s) = PeopleOf(Selected(q, s))
    BY DEF Value
  <2>3. Selected(q, s) \in SUBSET Deed
    BY <1>1, SelectedIn
  <2> QED BY <2>1, <2>2, <2>3, PeopleAreFewer
<1>14. NextTurn[1] \in Nat /\ NextTurn[2] \in Nat /\ i <= NextTurn[1] /\ (n = 0 => NextTurn = <<i, 1>>)
       /\ (NextTurn[2] > 0 => NextTurn[1] = i) /\ (NextTurn[1] = i => NextTurn[2] > 0)
  <2>1. CASE n < RETENTION_DAYS
    BY <1>4, <1>6, <2>1
  <2>2. CASE n = RETENTION_DAYS
    BY <1>4, <1>6, <2>2
  <2> QED BY <1>4, <2>1, <2>2
<1>15. \A c \in Told' : c.how = "who" =>
          /\ figures'[c] \subseteq Person
          /\ \E j \in 0..NextTurn[1] : c = CohortQuery(j) /\ (j < NextTurn[1] \/ NextTurn[2] > 0)
  <2> SUFFICES ASSUME NEW c \in Told', c.how = "who"
               PROVE  /\ figures'[c] \subseteq Person
                      /\ \E j \in 0..NextTurn[1] : c = CohortQuery(j) /\ (j < NextTurn[1] \/ NextTurn[2] > 0)
    OBVIOUS
  <2>1. CASE c \in Batch
    <3>1. n = 0 /\ c = CohortQuery(i)
      BY <1>7, <1>8, <2>1
    <3>2. NextTurn[1] = i /\ NextTurn[2] > 0 /\ i \in 0..NextTurn[1]
      BY <1>4, <1>14, <3>1
    <3> QED BY <1>13, <2>1, <3>1, <3>2
  <2>2. CASE c \notin Batch
    <3>1. c \in Told /\ figures'[c] = figures[c]
      BY <1>1, <2>2
    <3>2. PICK j \in 0..i : c = CohortQuery(j) /\ (j < i \/ n > 0)
      BY <1>10, <3>1
    <3>3. j \in 0..NextTurn[1] /\ (j < NextTurn[1] \/ NextTurn[2] > 0)
      BY <1>4, <1>14, <3>2
    <3> QED BY <1>10, <3>1, <3>2, <3>3
  <2> QED BY <2>1, <2>2
<1>16. NextTurn[2] > 0 => CohortQuery(NextTurn[1]) \in Told'
  <2> SUFFICES ASSUME NextTurn[2] > 0 PROVE CohortQuery(i) \in Told'
    BY <1>14
  <2>1. n = 0 \/ n > 0
    BY <1>4
  <2> QED BY <1>1, <1>7, <1>11, <2>1
<1>17. CohortInv'
  <2>1. CohortQuery(report.turn[1])' = CohortQuery(NextTurn[1])
    BY <1>2 DEF CohortQuery, CohortDay
  <2> QED BY <1>2, <1>3, <1>15, <1>16, <2>1 DEF CohortInv
(* No more people of a cohort are active than are in it.                   *)
<1>18. ASSUME NEW q \in Told', q.how = "people"
       PROVE  figures'[q] <= Cardinality(q.people) /\ \E c \in Told' : c.how = "who" /\ figures'[c] = q.people
  <2>1. CASE q \in Batch
    <3> DEFINE c == CohortQuery(i)
    <3>1. n # 0
      BY <1>7, <1>9, <1>18, <2>1
    <3>2. c \in Told /\ c.how = "who" /\ q.people = figures[c]
      BY <1>4, <1>8, <1>9, <1>11, <2>1, <3>1
    <3>3. c \in Told' /\ figures'[c] = q.people /\ q.people \subseteq Person
      BY <1>1, <1>10, <1>12, <3>2
    <3> HIDE DEF c
    <3>4. PICK s \in views : figures'[q] = Value(q, s)
      BY <1>1, <2>1
    <3>5. Value(q, s) = Cardinality(PeopleOf(Selected(q, s)))
      BY <1>18 DEF Value
    <3>6. PeopleOf(Selected(q, s)) \in SUBSET q.people
      BY <1>1, SelectedIn
    <3>7. IsFiniteSet(q.people)
      BY <3>3, ReportsAssumption, FS_Subset
    <3> QED BY <3>2, <3>3, <3>4, <3>5, <3>6, <3>7, FS_Subset
  <2>2. CASE q \notin Batch
    <3>1. q \in Told /\ figures'[q] = figures[q]
      BY <1>1, <2>2
    <3>2. figures[q] <= Cardinality(q.people) /\ \E c \in Told : c.how = "who" /\ figures[c] = q.people
      BY <1>18, <3>1 DEF ReportsInv, RetentionIsAShare
    <3> QED BY <1>1, <1>12, <3>1, <3>2
  <2> QED BY <2>1, <2>2
<1> QED BY <1>17, <1>18 DEF RetentionIsAShare

(* The rest of what holds when a batch has been told.                      *)
LEMMA TellKeeps ==
  ASSUME ReportsInv, Tell PROVE ReportsInv'
<1>1. /\ Telling /\ UNCHANGED <<time, begun, committing, stored, late, steady, rewritten, rewrites>>
      /\ report' = [report EXCEPT !.turn = NextTurn] /\ views' = {stored}
      /\ Told' = Told \cup Batch
      /\ \A q \in Batch : \E s \in views : figures'[q] = Value(q, s)
      /\ \A q \in Told \ Batch : figures'[q] = figures[q]
  BY TellGives
<1> DEFINE i == report.turn[1]
           n == report.turn[2]
<1>2. report'.kind = report.kind /\ report'.now = report.now /\ report'.turn = NextTurn
  BY <1>1 DEF ReportsInv, ReportsTypeOK
<1>3. i \in Nat /\ n \in 0..RETENTION_DAYS /\ RETENTION_DAYS \in Nat \ {0}
  BY ReportsAssumption DEF ReportsInv, ReportsTypeOK
<1>4. NextTurn \in Nat \X (0..RETENTION_DAYS)
  BY <1>3 DEF NextTurn
<1>5. report.kind # "none" /\ today' = today /\ SoFar' = SoFar
  BY <1>1, <1>2 DEF Telling, today, SoFar
<1> HIDE DEF i, n
<1>6. ReportsTypeOK'
  BY <1>1, <1>2, <1>4 DEF ReportsInv, ReportsTypeOK
<1>7. BegunInv' /\ SignedInv'
  BY <1>1 DEF ReportsInv, BegunInv, SignedInv, SignedUp, ReportsTypeOK
<1>8. AsOfInv'
  BY <1>1, <1>2 DEF ReportsInv, AsOfInv, Differ, Sooner
<1>9. AskedInv'
  <2>1. \A q \in Told' : Dated(q)
    BY <1>1, BatchesAreDated DEF ReportsInv, AskedInv
  <2>2. report.kind = "today" => AllPoints \in Batch /\ \A s \in PointSources : sumPoints(s) \in Batch
    BY DEF Batch, getDayStats, AllPoints
  <2>3. report.kind = "funnel" => Batch = funnel /\ SignUps \in Batch
    BY DEF Batch, funnel, SignUps
  <2>4. AllPoints' = AllPoints /\ SignUps' = SignUps /\ funnel' = funnel
    BY <1>5 DEF AllPoints, SignUps, funnel, countUsersWhere
  <2>5. \A s : sumPoints(s)' = sumPoints(s)
    BY <1>5 DEF sumPoints
  <2> QED BY <1>1, <1>2, <1>5, <2>1, <2>2, <2>3, <2>4, <2>5 DEF ReportsInv, AskedInv
<1>10. ASSUME NEW q PROVE Value(q, stored)' = Value(q, stored)
  <2>1. Selected(q, stored)' = Selected(q, stored)
    BY <1>1 DEF Selected, Within, Sooner
  <2> QED BY <2>1, StoredValueStays
<1>11. SteadyInv'
  <2> SUFFICES ASSUME steady, NEW q \in Told' PROVE figures'[q] = Value(q, stored)
    BY <1>1, <1>10 DEF SteadyInv
  <2>1. views = {stored} /\ \A p \in Told : figures[p] = Value(p, stored)
    BY DEF ReportsInv, SteadyInv
  <2> QED BY <1>1, <2>1
<1>12. FinishedDaysStand'
  <2>1. \A q : IsOver(q)' <=> IsOver(q)
    BY <1>5 DEF IsOver
  <2> SUFFICES ASSUME ~rewritten, NEW q \in Told', IsOver(q), \A e \in late : ~Within(begun[e], q.when)
               PROVE  figures'[q] = Value(q, stored)
    BY <1>1, <1>10, <2>1 DEF FinishedDaysStand, Within, Sooner
  <2>2. CASE q \in Batch
    <3>1. PICK s \in views : figures'[q] = Value(q, s)
      BY <1>1, <2>2
    <3>2. Dated(q)
      BY <1>1, <2>2, BatchesAreDated DEF ReportsInv
    <3>3. stored \subseteq Deed /\ s \subseteq Deed /\ report.now \in Instant
      BY DEF ReportsInv, ReportsTypeOK
    <3>4. ASSUME NEW e \in Deed, Differ(e, s) PROVE ~Within(begun[e], q.when)
      <4>1. CASE e \in late
        BY <4>1
      <4>2. CASE e \notin late
        <5>1. ~Sooner(begun[e], report.now)
          BY <1>5, <3>4, <4>2 DEF ReportsInv, AsOfInv
        <5>2. begun[e] \in Instant
          BY <3>4 DEF ReportsInv, BegunInv, Differ
        <5> QED BY <3>2, <3>3, <5>1, <5>2, OverIsOver
      <4> QED BY <4>1, <4>2
    <3>5. Selected(q, s) = Selected(q, stored)
      BY <3>3, <3>4 DEF Selected, Differ
    <3> QED BY <3>1, <3>5, ValueIsGiven
  <2>3. CASE q \notin Batch
    BY <1>1, <2>3 DEF ReportsInv, FinishedDaysStand
  <2> QED BY <2>2, <2>3
<1> QED BY <1>6, <1>7, <1>8, <1>9, <1>11, <1>12, TellKeepsCohorts DEF ReportsInv

LEMMA ReportsStepInv ==
  ASSUME ReportsInv, [ReportsNext]_reportVars PROVE ReportsInv'
<1>1. CASE UNCHANGED reportVars
  <2>1. UNCHANGED <<time, begun, committing, stored, report, figures, views, late, steady, rewritten, rewrites>>
    BY <1>1 DEF reportVars
  <2>2. ReportsTypeOK'
    BY <2>1 DEF ReportsInv, ReportsTypeOK
  <2>3. BegunInv' /\ SignedInv' /\ AsOfInv'
    BY <2>1 DEF ReportsInv, BegunInv, SignedInv, SignedUp, AsOfInv, Differ, Sooner
  <2>4. SteadyInv' /\ FinishedDaysStand'
    BY <2>1, FiguresStand
  <2> QED BY <2>1, <2>2, <2>3, <2>4, ToldStays DEF ReportsInv
<1>2. CASE ReportsNext
  BY <1>2, AskForKeeps, TellKeeps, TimePassesKeeps, BeginDeedKeeps, CommitDeedKeeps,
     SeedDeedKeeps, RemoveDeedKeeps DEF ReportsNext
<1> QED BY <1>1, <1>2

(* The windows of the history divide it.                                   *)
LEMMA HistoryDivides ==
  ASSUME ReportsInv PROVE HistoryIsWhole
<1> DEFINE w == Window(subDays(today, HISTORY_DAYS - 1), report.now)
<1> SUFFICES ASSUME NEW d \in stored
             PROVE  LET at == {i \in 0..(HISTORY_DAYS - 1) : Within(begun[d], HistoryWindow(i))} IN
                    IF Within(begun[d], w) THEN \E i \in at : at = {i} ELSE at = {}
  BY DEF HistoryIsWhole
<1> DEFINE b == begun[d]
           n == report.now
<1>1. b \in Instant /\ n \in Instant
  BY DEF ReportsInv, BegunInv, ReportsTypeOK
<1>2. HISTORY_DAYS \in Nat \ {0} /\ Ticks \in Nat \ {0}
  BY ReportsAssumption
<1>3. today \in Instant /\ today.day = n.day /\ today.tick = 0
  BY <1>1, DaysAreInstants DEF today
<1>4. /\ b.day \in Int /\ b.tick \in 0..(Ticks - 1)
      /\ n.day \in Int /\ n.tick \in 0..(Ticks - 1)
  BY <1>1, DaysAreInstants
<1>5. \A k \in Int : /\ subDays(today, k) \in Instant
                     /\ subDays(today, k).day = n.day - k /\ subDays(today, k).tick = 0
  BY <1>3, DaysAreInstants
<1> HIDE DEF b, n
<1>6. n = report.now
  BY DEF n
<1>7. ASSUME NEW i \in Nat
      PROVE  Within(b, HistoryWindow(i)) <=> b.day = n.day - i /\ Sooner(b, n)
  <2>1. CASE i = 0
    <3>1. HistoryWindow(i) = Window(subDays(today, 0), n)
      BY <1>6, <2>1 DEF HistoryWindow, dayEnd
    <3>2. Within(b, HistoryWindow(i)) <=> ~Sooner(b, subDays(today, 0)) /\ Sooner(b, n)
      BY <1>1, <1>5, <3>1, WindowsAreDated
    <3> QED BY <1>2, <1>4, <1>5, <2>1, <3>2 DEF Sooner
  <2>2. CASE i # 0
    <3>1. HistoryWindow(i) = Window(subDays(today, i), subDays(today, i - 1))
      BY <2>2 DEF HistoryWindow, dayEnd
    <3>2. subDays(today, i) \in Instant /\ subDays(today, i - 1) \in Instant
      BY <1>5
    <3>3. Within(b, HistoryWindow(i)) <=> ~Sooner(b, subDays(today, i)) /\ Sooner(b, subDays(today, i - 1))
      BY <3>1, <3>2, WindowsAreDated
    <3>4. subDays(today, i).day = n.day - i /\ subDays(today, i).tick = 0
      BY <1>5
    <3>5. subDays(today, i - 1).day = n.day - i + 1 /\ subDays(today, i - 1).tick = 0
      BY <1>4, <1>5
    <3> QED BY <1>2, <1>4, <2>2, <3>3, <3>4, <3>5 DEF Sooner
  <2> QED BY <2>1, <2>2
<1>8. Within(b, w) <=> b.day >= n.day - (HISTORY_DAYS - 1) /\ Sooner(b, n)
  <2>1. HISTORY_DAYS - 1 \in Int
    BY <1>2
  <2>2. Within(b, w) <=> ~Sooner(b, subDays(today, HISTORY_DAYS - 1)) /\ Sooner(b, n)
    BY <1>1, <1>5, <1>6, <2>1, WindowsAreDated
  <2>3. subDays(today, HISTORY_DAYS - 1).day = n.day - (HISTORY_DAYS - 1)
        /\ subDays(today, HISTORY_DAYS - 1).tick = 0
    BY <1>5, <2>1
  <2> HIDE DEF w
  <2> QED BY <1>2, <1>4, <2>2, <2>3 DEF Sooner
<1> HIDE DEF w
<1> DEFINE at == {i \in 0..(HISTORY_DAYS - 1) : Within(b, HistoryWindow(i))}
<1>9. CASE Within(b, w)
  <2> DEFINE i == n.day - b.day
  <2>1. b.day <= n.day
    BY <1>4, <1>8, <1>9 DEF Sooner
  <2>2. i \in 0..(HISTORY_DAYS - 1)
    BY <1>2, <1>4, <1>8, <1>9, <2>1
  <2>3. \A j \in 0..(HISTORY_DAYS - 1) : Within(b, HistoryWindow(j)) <=> j = i
    BY <1>2, <1>4, <1>7, <1>8, <1>9
  <2> HIDE DEF i
  <2>4. i \in at /\ at = {i}
    BY <2>2, <2>3
  <2> QED BY <1>9, <2>4 DEF b
<1>10. CASE ~Within(b, w)
  <2>1. \A j \in 0..(HISTORY_DAYS - 1) : ~Within(b, HistoryWindow(j))
    BY <1>2, <1>4, <1>7, <1>8, <1>10
  <2> QED BY <1>10, <2>1 DEF b
<1> QED BY <1>9, <1>10

(* Points earned in three ways are part of all that are earned.            *)
LEMMA EarningsSplit ==
  ASSUME ReportsTypeOK, NEW src \in PointSources
  PROVE  Selected(sumPoints(src), stored)
            = {d \in Selected(AllPoints, stored) : What[d].source = src}
<1>1. \A d \in stored : IsOf(What[d], src) <=> IsOf(What[d], "earned") /\ What[d].source = src
  <2> SUFFICES ASSUME NEW d \in stored
               PROVE  IsOf(What[d], src) <=> IsOf(What[d], "earned") /\ What[d].source = src
    OBVIOUS
  <2>1. What[d] \in [table: Tables, person: Person, source: Sources, amount: Int]
    BY ReportsAssumption DEF ReportsTypeOK
  <2>2. What[d].table \in Tables
    BY <2>1
  <2>3. src \in {"receipt-upload", "daily-claim", "daily-claim-onchain"}
    BY DEF PointSources
  <2>4. What[d].table # src /\ What[d].table # "earned" /\ src # "earned" /\ src # "bonuses"
    BY <2>2, <2>3 DEF Tables
  <2> QED BY <2>4 DEF IsOf
<1>2. /\ sumPoints(src).of = src /\ sumPoints(src).people = Celo /\ sumPoints(src).when = SoFar
      /\ AllPoints.of = "earned" /\ AllPoints.people = Celo /\ AllPoints.when = SoFar
  BY DEF sumPoints, AllPoints, Query
<1> QED BY <1>1, <1>2 DEF Selected

LEMMA PartsOfATotal ==
  ASSUME NEW x \in SUBSET Deed, \A d \in x : What[d].amount > 0
  PROVE  LET of(src) == {d \in x : What[d].source = src} IN
         Total(of("receipt-upload")) + Total(of("daily-claim")) + Total(of("daily-claim-onchain")) <= Total(x)
<1> DEFINE of(src) == {d \in x : What[d].source = src}
           Part(y) == [d \in Deed |-> IF d \in y THEN What[d].amount ELSE 0]
           f == Part(of("receipt-upload"))
           g == Part(of("daily-claim"))
           h == Part(of("daily-claim-onchain"))
           all == Part(x)
           fg == Combined(f, 1, g, 1)
           fgh == Combined(fg, 1, h, 1)
<1>1. IsFiniteSet(Deed) /\ \A d \in Deed : What[d].amount \in Int
  <2>1. \A d \in Deed : What[d] \in [table: Tables, person: Person, source: Sources, amount: Int]
    BY ReportsAssumption
  <2>2. \A w \in [table: Tables, person: Person, source: Sources, amount: Int] : w.amount \in Int
    OBVIOUS
  <2> QED BY <2>1, <2>2, ReportsAssumption
<1>2. \A y : Total(y) = SumFunctionOnSet(Part(y), Deed)
  BY DEF Total
<1>3. f \in [Deed -> Int] /\ g \in [Deed -> Int] /\ h \in [Deed -> Int] /\ all \in [Deed -> Int]
  BY <1>1
<1>4. \A d \in Deed : f[d] + g[d] + h[d] <= all[d]
  <2> SUFFICES ASSUME NEW d \in Deed PROVE f[d] + g[d] + h[d] <= all[d]
    OBVIOUS
  <2>1. CASE d \in x
    BY <1>1, <2>1
  <2>2. CASE d \notin x
    BY <1>1, <2>2
  <2> QED BY <2>1, <2>2
<1> HIDE DEF f, g, h, all
<1>5. fg \in [Deed -> Int] /\ \A d \in Deed : fg[d] = f[d] + g[d]
  BY <1>3 DEF Combined
<1> HIDE DEF fg
<1>6. fgh \in [Deed -> Int] /\ \A d \in Deed : fgh[d] = f[d] + g[d] + h[d]
  BY <1>3, <1>5 DEF Combined
<1>7. SumFunctionOnSet(fg, Deed) = SumFunctionOnSet(f, Deed) * 1 + SumFunctionOnSet(g, Deed) * 1
  BY <1>1, <1>3, SumLinear DEF fg
<1>8. SumFunctionOnSet(fgh, Deed) = SumFunctionOnSet(fg, Deed) * 1 + SumFunctionOnSet(h, Deed) * 1
  BY <1>1, <1>3, <1>5, SumLinear
<1> HIDE DEF fgh
<1>9. SumFunctionOnSet(fgh, Deed) <= SumFunctionOnSet(all, Deed)
  <2>1. \A d \in Deed : fgh[d] \in Int /\ all[d] \in Int /\ fgh[d] <= all[d]
    BY <1>3, <1>4, <1>6
  <2> QED BY <1>1, <2>1, SumBelow
<1>10. /\ SumFunctionOnSet(f, Deed) \in Int /\ SumFunctionOnSet(g, Deed) \in Int
       /\ SumFunctionOnSet(h, Deed) \in Int
  <2>1. \A k \in {f, g, h} : \A d \in Deed : k[d] \in Int
    BY <1>3
  <2> QED BY <1>1, <2>1, SumSplit
<1>11. SumFunctionOnSet(f, Deed) + SumFunctionOnSet(g, Deed) + SumFunctionOnSet(h, Deed)
          <= SumFunctionOnSet(all, Deed)
  BY <1>7, <1>8, <1>9, <1>10
<1> QED BY <1>2, <1>11 DEF f, g, h, all

LEMMA BreakdownHolds ==
  ASSUME ReportsInv PROVE BreakdownFits
<1> SUFFICES ASSUME report.kind = "today", ~Telling, steady
             PROVE  figures[sumPoints("receipt-upload")] + figures[sumPoints("daily-claim")]
                      + figures[sumPoints("daily-claim-onchain")] <= figures[AllPoints]
  BY DEF BreakdownFits, AllPoints
<1>1. report.turn[1] > 0
  BY DEF Telling, Batches, ReportsInv, ReportsTypeOK
<1>2. AllPoints \in Told /\ \A s \in PointSources : sumPoints(s) \in Told
  BY <1>1 DEF ReportsInv, AskedInv
<1> DEFINE x == Selected(AllPoints, stored)
<1>3. x \in SUBSET Deed
  BY SelectedIn DEF ReportsInv, ReportsTypeOK
<1>4. figures[AllPoints] = Total(x)
  BY <1>2 DEF ReportsInv, SteadyInv, Value, AllPoints, Query
<1>5. ASSUME NEW s \in PointSources
      PROVE  figures[sumPoints(s)] = Total({d \in x : What[d].source = s})
  <2>1. figures[sumPoints(s)] = Value(sumPoints(s), stored)
    BY <1>2 DEF ReportsInv, SteadyInv
  <2>2. sumPoints(s).how = "sum"
    BY DEF sumPoints, Query
  <2>3. Value(sumPoints(s), stored) = Total(Selected(sumPoints(s), stored))
    BY <2>2 DEF Value
  <2> QED BY <2>1, <2>3, EarningsSplit DEF ReportsInv
<1>6. \A d \in x : What[d].amount > 0
  <2> SUFFICES ASSUME NEW d \in x PROVE What[d].amount > 0
    OBVIOUS
  <2>1. IsOf(What[d], "earned") /\ d \in Deed
    BY <1>3 DEF Selected, AllPoints, Query
  <2>2. What[d].table \in Tables
    BY <2>1, ReportsAssumption
  <2> QED BY <2>1, <2>2 DEF IsOf, Tables
<1> HIDE DEF x
<1>7. {"receipt-upload", "daily-claim", "daily-claim-onchain"} \subseteq PointSources
  BY DEF PointSources
<1> QED BY <1>3, <1>4, <1>5, <1>6, <1>7, PartsOfATotal

(* Whoever did something has signed up, with a row of their own.           *)
LEMMA FunnelHolds ==
  ASSUME ReportsInv PROVE FunnelNarrows
<1> SUFFICES ASSUME report.kind = "funnel", ~Telling, steady, NEW q \in Told
             PROVE  figures[q] <= figures[SignUps]
  BY DEF FunnelNarrows, SignUps
<1>1. report.turn[1] > 0
  BY DEF Telling, Batches, ReportsInv, ReportsTypeOK
<1>2. SignUps \in Told /\ q \in funnel
  BY <1>1 DEF ReportsInv, AskedInv
<1> DEFINE all == Selected(SignUps, stored)
           x == Selected(q, stored)
<1>3. all \in SUBSET Deed /\ x \in SUBSET Deed
  BY SelectedIn DEF ReportsInv, ReportsTypeOK
<1>4. figures[SignUps] = Cardinality(all)
  <2>1. figures[SignUps] = Value(SignUps, stored)
    BY <1>2 DEF ReportsInv, SteadyInv
  <2> QED BY <2>1 DEF Value, SignUps, Query
<1>5. figures[q] = Value(q, stored)
  BY DEF ReportsInv, SteadyInv
<1>6. CASE q = SignUps
  BY <1>3, <1>4, <1>6, PeopleAreFewer
<1>7. CASE q # SignUps
  <2>1. q.how = "people" /\ q.people = Celo /\ q.when = Ever
    BY <1>2, <1>7 DEF funnel, countUsersWhere, SignUps, Query
  <2>2. figures[q] = Cardinality(PeopleOf(x))
    BY <1>5, <2>1 DEF Value
  <2>3. PeopleOf(x) \subseteq PeopleOf(all)
    <3> SUFFICES ASSUME NEW d \in x PROVE What[d].person \in PeopleOf(all)
      BY DEF PeopleOf
    <3>1. d \in stored /\ What[d].person \in Celo
      BY <2>1 DEF Selected
    <3>2. PICK u \in stored : What[u].table = "users" /\ What[u].person = What[d].person
      BY <3>1 DEF ReportsInv, SignedInv, SignedUp
    <3>3. u \in all
      BY <3>1, <3>2 DEF Selected, SignUps, Query, IsOf, Within
    <3> QED BY <3>2, <3>3 DEF PeopleOf
  <2> HIDE DEF x, all
  <2>4. IsFiniteSet(PeopleOf(all)) /\ Cardinality(PeopleOf(all)) <= Cardinality(all)
    BY <1>3, PeopleAreFewer
  <2>5. Cardinality(PeopleOf(x)) <= Cardinality(PeopleOf(all))
    BY <2>3, <2>4, FS_Subset
  <2>6. /\ Cardinality(PeopleOf(x)) \in Nat /\ Cardinality(PeopleOf(all)) \in Nat
        /\ Cardinality(all) \in Nat
    BY <1>3, PeopleAreFewer
  <2> QED BY <1>4, <2>2, <2>4, <2>5, <2>6
<1> QED BY <1>6, <1>7

(* Whatever people do between the queries of a report, and however many    *)
(* days it takes: no cell of the retention grid is above its cohort, what  *)
(* is told of a day that is over stands, the days of the history divide it *)
(* and, when nothing came between, breakdown and funnel fit.               *)
THEOREM ReportsHold == ReportsSpec => []ReportsAddUp
<1>1. ReportsInit => ReportsInv
  BY ReportsInitInv
<1>2. ReportsInv /\ [ReportsNext]_reportVars => ReportsInv'
  BY ReportsStepInv
<1>3. ReportsInv => ReportsAddUp
  BY HistoryDivides, BreakdownHolds, FunnelHolds DEF ReportsInv, ReportsAddUp
<1> QED BY <1>1, <1>2, <1>3, PTL DEF ReportsSpec

=============================================================================
