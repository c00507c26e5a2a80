------------------------------ MODULE TestReceipts ------------------------------
(***************************************************************************)
(* apps/api, routes/admin/upload.ts and routes/admin/seed.ts: receipts     *)
(* operators put in a wallet kept for the purpose, one photo through the   *)
(* real queue or a whole history at once, and how they take them out       *)
(* again.  Nothing of the seeder or of the removal is a transaction: every *)
(* statement stands by itself, the handler may break off between two of    *)
(* them, and meanwhile the consumer analyses, the owner of the wallet      *)
(* claims, and another operator works.                                     *)
(*                                                                         *)
(* A receipt is named by what made it and its place in it.  Points are     *)
(* counted by the receipt's index as the seeder does; a log is at the date *)
(* of the receipt, before any that is written by claiming.  Shops, baskets *)
(* and prices are left out: a receipt has its lines or has none.           *)
(***************************************************************************)
EXTENDS Integers, FiniteSets, FiniteSetsExt

CONSTANTS
    Tester,      \* operators
    Receipts,    \* body.receipts
    Step,        \* days from one receipt to the next: span / body.receipts
    MaxCalls,    \* bound: seedings and removals
    MaxPhotos    \* bound: photos of all

ASSUME TestAssumption ==
    /\ Receipts \in Nat \ {0} /\ Step \in Nat /\ MaxCalls \in Nat /\ MaxPhotos \in Nat

VARIABLES
    production,  \* PROJECT_ENV
    held,        \* the wallet's receipts: [id, status, points]
    itemised,    \* receipts that have lines
    moved,       \* the wallet's point_logs: [id, diff, after, at]
    sent,        \* receipts in the analysis queue
    work,        \* [Tester -> the handler at work]
    calls, photos, claims,
    known        \* history: since a history was seeded over an emptied wallet, to its end and
                 \* with nobody else at work, nothing but claims

testVars == <<production, held, itemised, moved, sent, work, calls, photos, claims, known>>

NoCall == [at |-> "idle", run |-> 0, index |-> 0, ids |-> {}, reset |-> FALSE, quietly |-> FALSE]

TestInit ==
    /\ production \in BOOLEAN
    /\ held = {} /\ itemised = {} /\ moved = {} /\ sent = {}
    /\ work = [t \in Tester |-> NoCall]
    /\ calls = 0 /\ photos = 0 /\ claims = 0 /\ known = FALSE

-----------------------------------------------------------------------------
(* The history a seeding writes.                                           *)

Index == 0..(Receipts - 1)
PointsAt(i) == IF i % 9 = 0 THEN 0 ELSE 22 + (i % 4)

(* Mutant of balanceAt: a counter run forward through the loop.            *)
balanceSoFar(i) == MapThenSumSet(PointsAt, 0..i)

balanceAt(i) == MapThenSumSet(PointsAt, i..(Receipts - 1))

(* How many days ago; the gaps are uneven.                                 *)
age(i) == Step * i + (i % 5)

Seeded(run, i) ==
    IF PointsAt(i) > 0
    THEN [id |-> <<run, i>>, status |-> "claimed", points |-> PointsAt(i)]
    ELSE [id |-> <<run, i>>, status |-> "claimable", points |-> 22 + (i % 4)]

-----------------------------------------------------------------------------
(* POST /admin/test/seed, statement by statement.                          *)

Others(t) == \E u \in Tester \ {t} : work[u].at # "idle"
TakesUp(t, first) ==
    /\ work[t].at = "idle"
    /\ work' = [u \in Tester |->
                  IF u = t THEN [first EXCEPT !.quietly = ~Others(t)]
                  ELSE [work[u] EXCEPT !.quietly = FALSE]]
MovesOn(t, to) == work' = [work EXCEPT ![t].at = to]
Finishes(t) == work' = [work EXCEPT ![t] = NoCall]

(* Anyone else who writes to the wallet.                                   *)
Disturbed == [t \in Tester |-> [work[t] EXCEPT !.quietly = FALSE]]

(* The user row is inserted if it is not there.                            *)
BeginSeed(t) ==
    /\ ~production /\ calls < MaxCalls /\ calls' = calls + 1
    /\ \E reset \in BOOLEAN :
          TakesUp(t, [NoCall EXCEPT !.at = IF reset THEN "resets" ELSE "writes",
                                 !.run = calls + 1, !.reset = reset])
    /\ known' = FALSE
    /\ UNCHANGED <<production, held, itemised, moved, sent, photos, claims>>

ReadMine(t) ==
    /\ work[t].at = "resets"
    /\ LET mine == {r.id : r \in held} IN
          work' = [work EXCEPT ![t].ids = mine, ![t].at = IF mine = {} THEN "drops logs" ELSE "drops lines"]
    /\ UNCHANGED <<production, held, itemised, moved, sent, calls, photos, claims, known>>

(* Lines of the receipts that were read; then receipts of the address,     *)
(* which take the lines that are left with them.                           *)
DropLines(t) == itemised' = itemised \ work[t].ids

DropsLines(t) ==
    /\ work[t].at \in {"drops lines", "removes lines"} /\ DropLines(t)
    /\ MovesOn(t, IF work[t].at = "drops lines" THEN "drops receipts" ELSE "removes receipts")
    /\ UNCHANGED <<production, held, moved, sent, calls, photos, claims, known>>

DropsReceipts(t) ==
    /\ work[t].at = "drops receipts" /\ held' = {} /\ itemised' = {}
    /\ MovesOn(t, "drops logs")
    /\ UNCHANGED <<production, moved, sent, calls, photos, claims, known>>

(* Mutant of DropLogs: the points stay, as they do when receipts are       *)
(* removed.                                                                *)
KeepLogs == UNCHANGED moved

DropLogs == moved' = {}

DropsLogs(t) ==
    /\ work[t].at = "drops logs" /\ DropLogs
    /\ MovesOn(t, "writes")
    /\ UNCHANGED <<production, held, itemised, sent, calls, photos, claims, known>>

(* One round of the loop: the receipt, the movement if it was claimed, the *)
(* lines.                                                                  *)
WritesReceipt(t) ==
    /\ work[t].at = "writes"
    /\ held' = held \cup {Seeded(work[t].run, work[t].index)}
    /\ MovesOn(t, IF PointsAt(work[t].index) > 0 THEN "logs" ELSE "itemises")
    /\ UNCHANGED <<production, itemised, moved, sent, calls, photos, claims, known>>

WritesLog(t) ==
    /\ work[t].at = "logs"
    /\ moved' = moved \cup {[id |-> <<work[t].run, work[t].index>>, diff |-> PointsAt(work[t].index),
                             after |-> balanceAt(work[t].index), at |-> -age(work[t].index)]}
    /\ MovesOn(t, "itemises")
    /\ UNCHANGED <<production, held, itemised, sent, calls, photos, claims, known>>

Exists(id) == \E r \in held : r.id = id

(* Lines of a receipt that is gone are refused by the foreign key.         *)
WritesLines(t) ==
    /\ work[t].at = "itemises"
    /\ LET id == <<work[t].run, work[t].index>> IN
          IF ~Exists(id)
          THEN Finishes(t) /\ UNCHANGED <<itemised, known>>
          ELSE /\ itemised' = itemised \cup {id}
               /\ IF work[t].index + 1 \in Index
                  THEN /\ work' = [work EXCEPT ![t].index = @ + 1, ![t].at = "writes"]
                       /\ UNCHANGED known
                  ELSE Finishes(t) /\ known' = (work[t].reset /\ work[t].quietly)
    /\ UNCHANGED <<production, held, moved, sent, calls, photos, claims>>

-----------------------------------------------------------------------------
(* POST /admin/test/upload: the receipt and its image in one transaction,  *)
(* then the message; a photo is numbered after the seedings.               *)
PhotoId(n) == <<MaxCalls + n, 0>>

BeginPhoto(t) ==
    /\ photos < MaxPhotos /\ photos' = photos + 1
    /\ TakesUp(t, [NoCall EXCEPT !.at = "sends", !.run = photos + 1])
    /\ held' = held \cup {[id |-> PhotoId(photos + 1), status |-> "pending", points |-> 0]}
    /\ known' = FALSE
    /\ UNCHANGED <<production, itemised, moved, sent, calls, claims>>

SendsPhoto(t) ==
    /\ work[t].at = "sends" /\ Finishes(t)
    /\ sent' = sent \cup {PhotoId(work[t].run)}
    /\ UNCHANGED <<production, held, itemised, moved, calls, photos, claims, known>>

(* DELETE /admin/test/upload/{address}: read, drop the lines of what was   *)
(* read, drop the receipts.  Points stay.                                  *)
BeginRemove(t) ==
    /\ held # {} /\ calls < MaxCalls /\ calls' = calls + 1
    /\ TakesUp(t, [NoCall EXCEPT !.at = "removes lines", !.ids = {r.id : r \in held}])
    /\ known' = FALSE
    /\ UNCHANGED <<production, held, itemised, moved, sent, photos, claims>>

RemovesReceipts(t) ==
    /\ work[t].at = "removes receipts" /\ held' = {} /\ itemised' = {}
    /\ Finishes(t)
    /\ UNCHANGED <<production, moved, sent, calls, photos, claims, known>>

-----------------------------------------------------------------------------
(* The others: a delivery of the queue, which finds its receipt or does    *)
(* not; a claim of the owner, in one transaction on the newest balance; a  *)
(* handler that breaks off.                                                *)
Analyse ==
    /\ \E id \in sent :
          /\ sent' = sent \ {id}
          /\ IF Exists(id)
             THEN /\ held' = {IF r.id = id THEN [r EXCEPT !.status = "claimable", !.points = 22] ELSE r : r \in held}
                  /\ itemised' = itemised \cup {id}
             ELSE UNCHANGED <<held, itemised>>
    /\ work' = Disturbed
    /\ UNCHANGED <<production, moved, calls, photos, claims, known>>

(* The newest log; seedings date theirs alike, and then any of them may be *)
(* the one.                                                                *)
Balances ==
    IF moved = {} THEN {0}
    ELSE {l.after : l \in {m \in moved : \A n \in moved : n.at <= m.at}}

ClaimOne ==
    /\ \E r \in held, balance \in Balances :
          /\ r.status = "claimable"
          /\ held' = (held \ {r}) \cup {[r EXCEPT !.status = "claimed"]}
          /\ moved' = moved \cup {[id |-> r.id, diff |-> r.points, after |-> balance + r.points,
                                   at |-> claims + 1]}
    /\ claims' = claims + 1
    /\ work' = Disturbed
    /\ UNCHANGED <<production, itemised, sent, calls, photos, known>>

BreaksOff(t) ==
    /\ work[t].at # "idle" /\ Finishes(t)
    /\ UNCHANGED <<production, held, itemised, moved, sent, calls, photos, claims, known>>

TestNext ==
    \/ \E t \in Tester :
          \/ BeginSeed(t) \/ ReadMine(t) \/ DropsLines(t) \/ DropsReceipts(t) \/ DropsLogs(t)
          \/ WritesReceipt(t) \/ WritesLog(t) \/ WritesLines(t)
          \/ BeginPhoto(t) \/ SendsPhoto(t) \/ BeginRemove(t) \/ RemovesReceipts(t)
          \/ BreaksOff(t)
    \/ Analyse \/ ClaimOne

TestSpec == TestInit /\ [][TestNext]_testVars

-----------------------------------------------------------------------------
(* Properties.                                                             *)

NewestFirst == \A i, j \in Index : i < j => age(i) < age(j)
Counted(status) == MapThenSumSet(LAMBDA r : r.points, {r \in held : r.status = status})

(* seed.ts 157-163: whatever broken seedings, photos, removals and claims  *)
(* went before, a seeding over an emptied wallet that nobody disturbed     *)
(* leaves the receipts it was asked for and no other; its balance, and the *)
(* balance after every claim on top of it, is what its claimed receipts    *)
(* add up to.                                                              *)
SeededLedgerAddsUp ==
    known =>
        /\ Cardinality(held) = Receipts /\ itemised = {r.id : r \in held}
        /\ MapThenSumSet(LAMBDA l : l.diff, moved) = Counted("claimed")
        /\ NewestFirst => Balances = {Counted("claimed")}

(* upload.ts 24-31: a line is never left of a receipt that is gone, and a  *)
(* late delivery brings neither back.                                      *)
NothingLeftBehind == \A id \in itemised : Exists(id)

(* seed.ts 8-10: in production no balance is made up; points there are of  *)
(* photos that were read.                                                  *)
NoneMadeUp == production => \A l \in moved : l.at > 0 /\ l.id[1] > MaxCalls

TestDataAddsUp == SeededLedgerAddsUp /\ NothingLeftBehind /\ NoneMadeUp
=============================================================================
