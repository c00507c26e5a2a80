------------------------------ MODULE PointLedger ------------------------------
(***************************************************************************)
(* apps/api: the off-chain point balance of a wallet.  Every movement is a *)
(* row of point_logs that carries the balance after it, and the balance is *)
(* the afterBalance of the newest row (lib/point.ts).  Requests read that  *)
(* row and append the next inside a transaction.                           *)
(*                                                                         *)
(* The transactions run at READ COMMITTED and take no lock before they     *)
(* write, so two of them may read the same row.  createdAt defaults to     *)
(* now(), which is the time the transaction began, not the time its row    *)
(* became visible: it is modelled as a number drawn when a transaction     *)
(* opens.  A transaction becomes visible in one step, its commit; it may   *)
(* fail at any point before, and then leaves nothing.                      *)
(***************************************************************************)
EXTENDS Integers, FiniteSets, FiniteSetsExt, Functions

CONSTANTS
    Wallet,      \* addresses with a balance
    Receipt,     \* receipts that have a verdict
    Request,     \* requests made of the server, each one once
    Worth,       \* what a receipt may be assigned
    Award,       \* what a daily claim may bring
    Grant,       \* what an operator may grant, corrections included
    NoOne,
    MaxDay       \* bound of this model: the last UTC day explored

ASSUME LedgerAssumption ==
    /\ IsFiniteSet(Wallet) /\ IsFiniteSet(Receipt) /\ IsFiniteSet(Request)
    /\ NoOne \notin Wallet
ASSUME AwardAssumption ==
    /\ Worth \subseteq Nat /\ Award \subseteq Nat /\ Grant \subseteq Int
    /\ MaxDay \in Nat

VARIABLES
    day,         \* the UTC day
    clock,       \* transactions begun so far
    logs,        \* point_logs
    status,      \* receipts.status
    worth,       \* receipts.assignedPoint
    owner,       \* receipts.userAddress
    dailyClaims, \* daily_point_claims, unique on (user, date)
    req,         \* the requests under way
    open,        \* transactions open on each wallet, by the time they began
    quiet        \* history: wallets no two transactions were ever open on at once

receiptVars == <<status, worth, owner>>
openVars == <<clock, open, quiet>>
pointVars == <<day, logs, receiptVars, dailyClaims, req, openVars>>

Claimable == {"claimable", "rejected"}
Settled == {"claimed", "rejected-claimed"}
Source == {"receipt-upload", "daily-claim", "daily-claim-onchain", "airdrop", "manual", "raffle"}
Day == 0..MaxDay

LogRow == [wallet: Wallet, at: Nat, day: Day, diff: Int, after: Int,
           accumulated: Int, source: Source, receipts: SUBSET Receipt]

NewRequest == [pc |-> "new", source |-> "manual", wallet |-> NoOne, receipts |-> {},
               amount |-> 0, date |-> 0, at |-> 0, day |-> 0, base |-> 0, earned |-> 0]

PointInit ==
    /\ day = 0 /\ clock = 0 /\ logs = {} /\ dailyClaims = {}
    /\ status \in [Receipt -> Claimable]
    /\ worth \in [Receipt -> Worth]
    /\ owner \in [Receipt -> Wallet]
    /\ req = [q \in Request |-> NewRequest]
    /\ open = [a \in Wallet |-> {}]
    /\ quiet = Wallet

-----------------------------------------------------------------------------
(* The point service and its transactions.                                 *)

LogsOf(a) == {l \in logs : l.wallet = a}

(* Mutant of Newest: the order has lost its desc.                          *)
OldestRow(a) == {l \in LogsOf(a) : \A k \in LogsOf(a) : k.at >= l.at}

Newest(a) == {l \in LogsOf(a) : \A k \in LogsOf(a) : k.at <= l.at}

(* getUserPoint, and the row insertPointLog builds on: what the wallet     *)
(* holds, and what it has earned in its life.                              *)
Balance(a) == IF LogsOf(a) = {} THEN 0 ELSE (CHOOSE l \in Newest(a) : TRUE).after
Accumulated(a) == IF LogsOf(a) = {} THEN 0 ELSE (CHOOSE l \in Newest(a) : TRUE).accumulated

(* GET /point/logs: so many rows, newest first, after the first ones, and  *)
(* how many there are; PointLogs.tsx turns to older pages while there are. *)
listPointLogs(a, limit, offset) ==
    LET newer(l) == {k \in LogsOf(a) : k.at > l.at} IN
    [totalCount |-> Cardinality(LogsOf(a)),
     list |-> {l \in LogsOf(a) : Cardinality(newer(l)) \in offset..(offset + limit - 1)}]

hasMore(a, page, size) == (page + 1) * size < listPointLogs(a, size, page * size).totalCount

Begins(a) ==
    /\ clock' = clock + 1
    /\ open' = [open EXCEPT ![a] = @ \cup {clock}]
    /\ quiet' = IF open[a] = {} THEN quiet ELSE quiet \ {a}

Ends(a, at) ==
    /\ open' = [open EXCEPT ![a] = @ \ {at}]
    /\ UNCHANGED <<clock, quiet>>

(* insertPointLog throws on a spend its own reading does not cover.        *)
Covers(base, diff) == diff < 0 => base + diff >= 0

(* Mutant of Row: what was earned shrinks with every spend.                *)
RowOfTheBalance(it, diff) ==
    [wallet |-> it.wallet, at |-> it.at, day |-> it.day, diff |-> diff,
     after |-> it.base + diff, accumulated |-> it.earned + diff,
     source |-> it.source, receipts |-> it.receipts]

Row(it, diff) ==
    [wallet |-> it.wallet, at |-> it.at, day |-> it.day, diff |-> diff,
     after |-> it.base + diff, accumulated |-> it.earned + Max({diff, 0}),
     source |-> it.source, receipts |-> it.receipts]

(* A request goes from new, perhaps by way of checked, to open, to based,  *)
(* where it has the row it builds on, and to done or failed.               *)
At(q, pc) == req[q].pc = pc
Refused(q) == req' = [req EXCEPT ![q].pc = "failed"]

(* The first statement of insertPointLog, in a transaction already open.   *)
ReadNewest(q) ==
    /\ At(q, "open")
    /\ req' = [req EXCEPT ![q] = [@ EXCEPT !.pc = "based", !.base = Balance(req[q].wallet),
                                          !.earned = Accumulated(req[q].wallet)]]
    /\ UNCHANGED <<day, logs, receiptVars, dailyClaims, openVars>>

(* The same statement, where it is the first of its transaction: an entry  *)
(* in a raffle begins with its pool (Raffle).                              *)
BeginAtNewest(q) ==
    /\ At(q, "checked") /\ req[q].source # "raffle"
    /\ Begins(req[q].wallet)
    /\ req' = [req EXCEPT ![q] = [@ EXCEPT !.pc = "based", !.base = Balance(req[q].wallet),
                                          !.earned = Accumulated(req[q].wallet),
                                          !.at = clock, !.day = day]]
    /\ UNCHANGED <<day, logs, receiptVars, dailyClaims>>

(* Mutant of Commits: the other writes of the transaction commit, and the  *)
(* row of the ledger is left behind.                                       *)
CommitsWithout(q, diff) ==
    /\ At(q, "based")
    /\ logs' = logs
    /\ Ends(req[q].wallet, req[q].at)
    /\ req' = [req EXCEPT ![q].pc = "done"]

Commits(q, diff) ==
    /\ At(q, "based")
    /\ logs' = logs \cup {Row(req[q], diff)}
    /\ Ends(req[q].wallet, req[q].at)
    /\ req' = [req EXCEPT ![q].pc = "done"]

Rollback(q) ==
    /\ At(q, "open") \/ At(q, "based")
    /\ Ends(req[q].wallet, req[q].at)
    /\ Refused(q)
    /\ UNCHANGED <<day, logs, receiptVars, dailyClaims>>

-----------------------------------------------------------------------------
(* Claiming receipts: the transaction opens with the receipts it will      *)
(* settle.  With none of them a claim returns zero, or is refused.         *)

BeginClaim(q, a, ids) ==
    /\ At(q, "new") /\ ids # {}
    /\ Begins(a)
    /\ req' = [req EXCEPT ![q] = [NewRequest EXCEPT
                  !.pc = "open", !.source = "receipt-upload", !.wallet = a, !.receipts = ids,
                  !.amount = SumFunctionOnSet(worth, ids), !.at = clock, !.day = day]]
    /\ UNCHANGED <<day, logs, receiptVars, dailyClaims>>

claimPoint(q, a) ==
    BeginClaim(q, a, {r \in Receipt : owner[r] = a /\ status[r] \in Claimable})

(* One receipt, by its id.                                                 *)
claimSingleCelo(q, a, r) == status[r] \in Claimable /\ BeginClaim(q, a, {r})

ClaimedAs(s) == CASE s = "claimable" -> "claimed" [] s = "rejected" -> "rejected-claimed" [] OTHER -> s

(* The row goes in whether or not the status updates then match a receipt. *)
SettleClaim(q) ==
    /\ req[q].source = "receipt-upload"
    /\ Commits(q, req[q].amount)
    /\ status' = [r \in Receipt |-> IF r \in req[q].receipts THEN ClaimedAs(status[r]) ELSE status[r]]
    /\ UNCHANGED <<day, worth, owner, dailyClaims>>

-----------------------------------------------------------------------------
(* Daily claims and grants: a check outside the transaction, then it.  A   *)
(* grant to a list is modelled for one of its wallets.                     *)

Check(q, a, source, amount, fine) ==
    /\ At(q, "new")
    /\ req' = [req EXCEPT ![q] = [NewRequest EXCEPT
                  !.pc = IF fine THEN "checked" ELSE "failed",
                  !.source = source, !.wallet = a, !.amount = amount, !.date = day]]
    /\ UNCHANGED <<day, logs, receiptVars, dailyClaims, openVars>>

claimDailyPoint(q, a, amount) ==
    Check(q, a, "daily-claim", amount, <<a, day>> \notin dailyClaims)

claimDailyPointCelo(q, a, amount) ==
    Check(q, a, "daily-claim-onchain", amount,
          \A l \in LogsOf(a) : l.source = "daily-claim-onchain" => l.day # day)

(* An airdrop of today or of yesterday may be within the twelve hours of   *)
(* AIRDROP_COOLDOWN_MS or not: the model's days do not tell.               *)
insertPointToAll(q, a, amount, skipped) ==
    /\ skipped => \E l \in LogsOf(a) : l.source = "airdrop" /\ l.day + 1 >= day
    /\ Check(q, a, "airdrop", amount, ~skipped)

insertManualPoint(q, a, amount) == Check(q, a, "manual", amount, TRUE)

(* Mutant of DateIsFree: no unique constraint on (user, date).             *)
AnyDate(q) == TRUE

(* The unique constraint of daily_point_claims.                            *)
DateIsFree(q) == <<req[q].wallet, req[q].date>> \notin dailyClaims

SettleDaily(q) ==
    /\ req[q].source = "daily-claim" /\ DateIsFree(q)
    /\ Commits(q, req[q].amount)
    /\ dailyClaims' = dailyClaims \cup {<<req[q].wallet, req[q].date>>}
    /\ UNCHANGED <<day, receiptVars>>

(* The airdrop appends its row itself, with nothing to refuse.             *)
SettleGrant(q) ==
    /\ req[q].source \in {"daily-claim-onchain", "airdrop", "manual"}
    /\ req[q].source = "airdrop" \/ Covers(req[q].base, req[q].amount)
    /\ Commits(q, req[q].amount)
    /\ UNCHANGED <<day, receiptVars, dailyClaims>>

-----------------------------------------------------------------------------

Midnight ==
    /\ day < MaxDay
    /\ day' = day + 1
    /\ UNCHANGED <<logs, receiptVars, dailyClaims, req, openVars>>

(* The claims the server answers with a signature for the Celo contract.   *)
AskCelo(q, a) ==
    \/ \E r \in Receipt : claimSingleCelo(q, a, r)
    \/ \E amount \in Award : claimDailyPointCelo(q, a, amount)

AskLedger(q, a) ==
    \/ claimPoint(q, a)
    \/ \E amount \in Award : claimDailyPoint(q, a, amount)
    \/ \E amount \in Grant : \/ insertManualPoint(q, a, amount)
                               \/ \E skipped \in BOOLEAN : insertPointToAll(q, a, amount, skipped)

Ask(q, a) == AskCelo(q, a) \/ AskLedger(q, a)

Serve(q) ==
    \/ ReadNewest(q) \/ BeginAtNewest(q)
    \/ SettleClaim(q) \/ SettleDaily(q) \/ SettleGrant(q)
    \/ Rollback(q)

PointNext ==
    \/ \E q \in Request : (\E a \in Wallet : Ask(q, a)) \/ Serve(q)
    \/ Midnight

PointSpec == PointInit /\ [][PointNext]_pointVars

-----------------------------------------------------------------------------
(* Properties.                                                             *)

PointTypeOK ==
    /\ day \in Day /\ clock \in Nat
    /\ logs \subseteq LogRow
    /\ \A l \in logs, k \in logs : l.at = k.at => l = k
    /\ status \in [Receipt -> Claimable \cup Settled]
    /\ worth \in [Receipt -> Worth]
    /\ owner \in [Receipt -> Wallet]
    /\ dailyClaims \subseteq Wallet \X Day
    /\ req \in [Request -> [pc: {"new", "checked", "open", "based", "done", "failed"},
                            source: Source, wallet: Wallet \cup {NoOne}, receipts: SUBSET Receipt,
                            amount: Int, date: Day, at: Nat, day: Day, base: Int,
                            earned: Nat]]
    /\ open \in [Wallet -> SUBSET (0..(clock - 1))]
    /\ quiet \subseteq Wallet

Moved(a) == SumFunction([l \in LogsOf(a) |-> l.diff])

(* "Balance after this movement, cached so reads do not re-sum the log"    *)
(* (point-logs.ts): as long as no two transactions of a wallet were open   *)
(* together, its newest row carries the sum of all its movements and, apart*)
(* from it, of all its earnings, however the requests themselves           *)
(* overlapped, were checked early or failed.                               *)
Earned(a) == SumFunction([l \in LogsOf(a) |-> Max({l.diff, 0})])
QuietLedgerAddsUp == \A a \in quiet : Balance(a) = Moved(a) /\ Accumulated(a) = Earned(a)

(* A receipt of a quiet wallet is credited once, and exactly when it is    *)
(* marked as claimed (point.ts 399-466): no crash leaves a receipt credited*)
(* and claimable, or claimed and uncredited; and a claim is worth what its *)
(* receipts were assigned.  This is so as long as nobody but its owner has *)
(* asked for the receipt: claimSingleCelo (point.ts 511-524) takes anyone's*)
(* id, and claims of two wallets do not see each other.                    *)
CreditsOf(r) == {l \in logs : r \in l.receipts}
AskedByOwner(r) == \A q \in Request : r \in req[q].receipts => req[q].wallet = owner[r]
QuietReceiptsPaidOnce ==
    /\ \A l \in logs : l.receipts # {} => l.diff = SumFunctionOnSet(worth, l.receipts)
    /\ \A r \in Receipt : owner[r] \in quiet /\ AskedByOwner(r) =>
         \/ status[r] \in Claimable /\ CreditsOf(r) = {}
         \/ status[r] \in Settled /\ Cardinality(CreditsOf(r)) = 1

(* "Otherwise the window would move with the traveller and let one wallet  *)
(* claim twice in a day" (point.ts 614-615): however many requests pass    *)
(* the check together, a wallet's daily claims are credited once a date,   *)
(* and the row of a claim the constraint refuses is not kept.              *)
DailyOncePerDate ==
    \A a \in Wallet :
        Cardinality({l \in LogsOf(a) : l.source = "daily-claim"})
            = Cardinality({d \in Day : <<a, d>> \in dailyClaims})

(* "The balance step down next to the thing that stepped on it" (PointLogs *)
(* 11-18): read back page by page, every movement of a quiet wallet leads  *)
(* from the balance shown with the next older one, or from nothing where   *)
(* the pages end, to its own.                                              *)
HistoryReadsBack ==
    \A a \in quiet : \A page \in 0..(Cardinality(LogsOf(a)) - 1) :
        \A l \in listPointLogs(a, 1, page).list :
            l.after - l.diff \in IF hasMore(a, page, 1)
                                THEN {older.after : older \in listPointLogs(a, 1, page + 1).list}
                                ELSE {0}

(* Point ledger: every balance is what was moved, and nothing is paid      *)
(* twice, neither a receipt nor a day.                                     *)
LedgerAddsUp == QuietLedgerAddsUp /\ QuietReceiptsPaidOnce /\ DailyOncePerDate /\ HistoryReadsBack

=============================================================================
