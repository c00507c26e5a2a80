--------------------------------- MODULE Reports ---------------------------------
(***************************************************************************)
(* apps/api, routes/admin/stats.ts, celo-dashboard.ts, celo-retention.ts:  *)
(* what the operators are told of a day.  A report fixes the present       *)
(* moment, and with it the days it is about, and then counts rows in       *)
(* batches of queries, each query at a moment of its own, while people     *)
(* sign in, upload, claim and enter draws.                                 *)
(*                                                                         *)
(* A row is a deed of a person.  It bears the time its transaction began,  *)
(* an entry of a draw the date its request took for today, and is there    *)
(* when the transaction commits, which may be on the next day.  Everybody  *)
(* who acts has a row in users, and those are never deleted, so that the   *)
(* joins with users lose nobody.  What the deeds are in themselves is the  *)
(* matter of other modules.  Labels and shape of the answers are left out, *)
(* and so is the session time zone of the database, which is UTC.          *)
(***************************************************************************)
EXTENDS Integers, Sequences, FiniteSets, Functions

CONSTANTS
    Deed,           \* rows that may come to be
    What,           \* [Deed -> [table, person, source, amount]]
    Person, PlatformOf,     \* [Person -> platform]
    Earlier,        \* the rows there are at first
    PLATFORMS, HISTORY_DAYS, RETENTION_DAYS,
    Ever, NotYet,    \* no window; not yet
    Ticks, MaxDay, MaxRewrites      \* bounds: instants of a day, days, seedings and removals

Tables == {"users", "receipts", "pointLogs", "dailyPointClaims", "rafflePoolEntries", "haloRafflePoolEntries"}
Sources == {"none", "airdrop", "receipt-upload", "raffle", "manual", "daily-claim", "daily-claim-onchain"}

ASSUME ReportsAssumption ==
    /\ IsFiniteSet(Deed) /\ IsFiniteSet(Person) /\ PlatformOf \in [Person -> PLATFORMS]
    /\ What \in [Deed -> [table: Tables, person: Person, source: Sources, amount: Int]]
    /\ Earlier \subseteq Deed
    /\ \A d \in Earlier : \E u \in Earlier : What[u].table = "users" /\ What[u].person = What[d].person
    /\ HISTORY_DAYS \in Nat \ {0} /\ RETENTION_DAYS \in Nat \ {0}
    /\ Ticks \in Nat \ {0}

VARIABLES
    time,       \* [day, tick]
    begun,      \* [Deed -> the time its row bears, or NotYet]
    committing, \* rows of transactions that are open
    stored,     \* rows that are there
    report,     \* [kind, now, turn]: what is being told, as of when, the batch it is at
    figures,    \* [query answered -> what it gave]
    views,      \* the tables as they have been since the batch began
    late,       \* history: the transactions that were open when the report was asked for
    steady,     \* history: nothing has been stored or removed since then
    rewritten,  \* history: nothing has been seeded or removed since then
    rewrites    \* history: how often that happened at all

reportVars == <<time, begun, committing, stored, report, figures, views, late, steady, rewritten, rewrites>>
deedVars == <<time, begun, committing, stored, late, steady, rewritten, rewrites>>

-----------------------------------------------------------------------------
(* Times and windows.                                                      *)

Instant == [day: Int, tick: 0..(Ticks - 1)]
Sooner(s, t) == s.day < t.day \/ (s.day = t.day /\ s.tick < t.tick)

startOfDay(t) == [day |-> t.day, tick |-> 0]
subDays(t, n) == [t EXCEPT !.day = @ - n]

Window(start, end) == [start |-> start, end |-> end]

(* Neither of the two words is a moment or a window of moments.            *)
ASSUME MomentsAssumption == NotYet \notin Instant /\ Ever \notin [start: Instant, end: Instant]

Within(t, w) == w = Ever \/ (~Sooner(t, w.start) /\ Sooner(t, w.end))
WholeDay(t) == Window(startOfDay(t), subDays(startOfDay(t), -1))

-----------------------------------------------------------------------------
(* A query counts rows, adds their amounts up, counts the people they are  *)
(* of, or lists them.                                                      *)

Query(how, of, people, when) == [how |-> how, of |-> of, people |-> people, when |-> when]

(* Rows of a table, or points: earned, earned in one way, or a bonus.      *)
IsOf(w, label) ==
    \/ w.table = label
    \/ w.table = "pointLogs" /\ w.amount > 0 /\ label \in {"earned", w.source}
    \/ w.table = "pointLogs" /\ w.source = "daily-claim-onchain" /\ label = "bonuses"

Selected(q, s) ==
    {d \in s : IsOf(What[d], q.of) /\ What[d].person \in q.people /\ Within(begun[d], q.when)}
PeopleOf(s) == {What[d].person : d \in s}
Total(s) == SumFunctionOnSet([d \in Deed |-> IF d \in s THEN What[d].amount ELSE 0], Deed)

Value(q, s) ==
    CASE q.how = "rows" -> Cardinality(Selected(q, s))
      [] q.how = "sum" -> Total(Selected(q, s))
      [] q.how = "people" -> Cardinality(PeopleOf(Selected(q, s)))
      [] q.how = "who" -> PeopleOf(Selected(q, s))

Of(platform) == {p \in Person : PlatformOf[p] = platform}
Celo == Of("celo")

-----------------------------------------------------------------------------
(* The reports, batch by batch.                                            *)

today == startOfDay(report.now)
SoFar == Window(today, report.now)

(* day is where the window starts.                                         *)
getDayStats(w) ==
    {Query("rows", "users", Celo, w), Query("rows", "receipts", Celo, w),
     Query("sum", "earned", Celo, w), Query("rows", "dailyPointClaims", Celo, w),
     Query("sum", "haloRafflePoolEntries", Celo, WholeDay(w.start))}

PointSources == {"receipt-upload", "daily-claim", "daily-claim-onchain"}
sumPoints(source) == Query("sum", source, Celo, SoFar)

Totals(platform) == {Query("rows", t, Of(platform), Ever) : t \in {"users", "receipts"}}
countUsersWhere(s) == Query("people", s, Celo, Ever)

funnel ==
    {Query("rows", "users", Celo, Ever), countUsersWhere("receipts"),
     countUsersWhere("haloRafflePoolEntries")} \cup {countUsersWhere(s) : s \in PointSources}

(* The raffle entries of every platform are those of World's pools.        *)
dailyStats ==
    UNION {Totals(p) \cup
           {Query("rows", t, Of(p), SoFar) : t \in {"users", "receipts", "dailyPointClaims"}} \cup
           {Query("sum", "earned", Of(p), SoFar), Query("sum", "rafflePoolEntries", Of(p), WholeDay(today))}
           : p \in PLATFORMS}

dailyOnchainBonus == Query("rows", "bonuses", Celo, SoFar)

(* One day after another; the window of the last is still open.            *)
dayEndAtMidnight(i) == subDays(today, i) \* the mistake: the day's own midnight
dayEnd(i) == IF i = 0 THEN report.now ELSE subDays(today, i - 1)
HistoryWindow(i) == Window(subDays(today, i), dayEnd(i))

(* Cohort by cohort: who signed up that day, and then day after day who of *)
(* them was active.  A day that is not over is not asked about.            *)
CohortDay(i) == subDays(today, RETENTION_DAYS - i)
CohortQuery(i) == Query("who", "users", Celo, WholeDay(CohortDay(i)))
ActiveOn(day, people) ==
    IF ~Sooner(day, today) \/ people = {} THEN {}
    ELSE {Query("people", s, people, WholeDay(day)) : s \in {"receipts", "earned"}}
retention(i, n) ==
    IF n = 0 THEN {CohortQuery(i)}
    ELSE ActiveOn(subDays(CohortDay(i), 1 - n), figures[CohortQuery(i)])

Kinds == {"overview", "funnel", "today", "yesterday", "history", "retention", "onchain", "daily-stats"}

Batch ==
    LET i == report.turn[1] IN
    CASE report.kind = "overview" -> Totals("celo")
      [] report.kind = "funnel" -> funnel
      [] report.kind = "today" -> getDayStats(SoFar) \cup {sumPoints(s) : s \in PointSources}
      [] report.kind = "yesterday" -> getDayStats(Window(subDays(today, 1), today))
      [] report.kind = "history" -> getDayStats(HistoryWindow(HISTORY_DAYS - 1 - i))
      [] report.kind = "retention" -> retention(i, report.turn[2])
      [] report.kind = "onchain" -> {dailyOnchainBonus}
      [] report.kind = "daily-stats" -> dailyStats \cup {dailyOnchainBonus}

Batches ==
    CASE report.kind = "history" -> HISTORY_DAYS
      [] report.kind = "retention" -> RETENTION_DAYS
      [] OTHER -> 1

NextTurn ==
    LET i == report.turn[1]  n == report.turn[2] IN
    IF report.kind = "retention" /\ n < RETENTION_DAYS THEN <<i, n + 1>> ELSE <<i + 1, 0>>

-----------------------------------------------------------------------------
(* Telling.                                                                *)

NoReport == [kind |-> "none", now |-> [day |-> 0, tick |-> 0], turn |-> <<0, 0>>]
Telling == report.kind # "none" /\ report.turn[1] < Batches

AskFor(kind) ==
    /\ report.kind = "none"
    /\ report' = [kind |-> kind, now |-> time, turn |-> <<0, 0>>]
    /\ views' = {stored} /\ late' = committing /\ steady' = TRUE /\ rewritten' = FALSE
    /\ UNCHANGED <<time, begun, committing, stored, figures, rewrites>>

(* Each query of the batch saw the tables as they were at some moment of   *)
(* it; for many it makes no difference which.                              *)
Uncertain == {q \in Batch : \E s \in views : Value(q, s) # Value(q, stored)}
Seen(moment, q) == IF q \in DOMAIN moment THEN moment[q] ELSE stored

Tell ==
    /\ Telling
    /\ \E moment \in [Uncertain -> views] :
          figures' = [q \in DOMAIN figures \cup Batch |->
                         IF q \in Batch THEN Value(q, Seen(moment, q)) ELSE figures[q]]
    /\ report' = [report EXCEPT !.turn = NextTurn]
    /\ views' = {stored}
    /\ UNCHANGED <<deedVars>>

-----------------------------------------------------------------------------
(* What people do meanwhile.                                               *)

SignedUp(p) == \E d \in stored : What[d].table = "users" /\ What[d].person = p

BeginDeed(d) ==
    /\ begun[d] = NotYet /\ (What[d].table = "users" \/ SignedUp(What[d].person))
    /\ begun' = [begun EXCEPT ![d] = time] /\ committing' = committing \cup {d}
    /\ UNCHANGED <<time, stored, report, figures, views, late, steady, rewritten, rewrites>>

StoreRows(s) ==
    /\ stored' = s /\ steady' = FALSE
    /\ views' = views \cup {s}

CommitDeed(d) ==
    /\ d \in committing /\ committing' = committing \ {d}
    /\ StoreRows(stored \cup {d})
    /\ UNCHANGED <<time, begun, report, figures, late, rewritten, rewrites>>

(* An operator seeds receipts and points of earlier days, and removes them.*)
Demo == {d \in Deed : What[d].table \in {"receipts", "pointLogs"}}
Rewrites ==
    /\ rewrites < MaxRewrites /\ rewrites' = rewrites + 1 /\ rewritten' = TRUE
    /\ UNCHANGED <<time, committing, report, figures, late>>

SeedDeed(d) ==
    /\ d \in Demo /\ begun[d] = NotYet /\ SignedUp(What[d].person) /\ Rewrites
    /\ \E day \in 0..time.day, tick \in 0..(Ticks - 1) :
          begun' = [begun EXCEPT ![d] = [day |-> day, tick |-> tick]]
    /\ StoreRows(stored \cup {d})

RemoveDeed(d) ==
    /\ d \in Demo \cap stored /\ Rewrites
    /\ StoreRows(stored \ {d}) /\ UNCHANGED begun

TimePasses ==
    /\ \/ time.tick < Ticks - 1 /\ time' = [time EXCEPT !.tick = @ + 1]
       \/ time.tick = Ticks - 1 /\ time.day < MaxDay /\ time' = [day |-> time.day + 1, tick |-> 0]
    /\ UNCHANGED <<begun, committing, stored, report, figures, views, late, steady, rewritten, rewrites>>

ReportsInit ==
    /\ time = [day |-> 0, tick |-> 0]
    /\ begun = [d \in Deed |-> IF d \in Earlier THEN time ELSE NotYet]
    /\ committing = {} /\ stored = Earlier
    /\ report = NoReport /\ figures = <<>> /\ views = {stored}
    /\ late = {} /\ steady = TRUE /\ rewritten = FALSE /\ rewrites = 0

ReportsNext ==
    \/ \E kind \in Kinds : AskFor(kind)
    \/ Tell \/ TimePasses
    \/ \E d \in Deed : BeginDeed(d) \/ CommitDeed(d) \/ SeedDeed(d) \/ RemoveDeed(d)

ReportsSpec == ReportsInit /\ [][ReportsNext]_reportVars

-----------------------------------------------------------------------------
(* Properties.                                                             *)

ReportsTypeOK ==
    /\ time \in Instant /\ begun \in [Deed -> Instant \cup {NotYet}]
    /\ committing \subseteq Deed /\ stored \subseteq Deed /\ late \subseteq Deed
    /\ report.kind \in Kinds \cup {"none"} /\ report.now \in Instant
    /\ report.turn \in Nat \X (0..RETENTION_DAYS)
    /\ views \subseteq SUBSET Deed /\ stored \in views
    /\ steady \in BOOLEAN /\ rewritten \in BOOLEAN /\ rewrites \in Nat

Told == DOMAIN figures

(* celo-retention.ts 64-131: however the tables change between the queries *)
(* of a grid, no cell is above the size of its cohort.                     *)
RetentionIsAShare ==
    report.kind = "retention" =>
        \A q \in Told : q.how = "people" =>
            /\ figures[q] <= Cardinality(q.people)
            /\ \E c \in Told : c.how = "who" /\ figures[c] = q.people

(* celo-dashboard.ts 58-110: what was told of a day that was over stands,  *)
(* unless a transaction that had begun on it was still open, or somebody   *)
(* rewrote the past.                                                       *)
IsOver(q) == q.when # Ever /\ ~Sooner(today, q.when.end)
FinishedDaysStand ==
    ~rewritten =>
        \A q \in Told : IsOver(q) /\ (\A d \in late : ~Within(begun[d], q.when))
                            => figures[q] = Value(q, stored)

(* celo-dashboard.ts 343-354: every moment of the days of the history is   *)
(* in the window of one of them, and of no other.                          *)
HistoryIsWhole ==
    LET whole == Window(subDays(today, HISTORY_DAYS - 1), report.now) IN
    \A d \in stored :
        LET at == {i \in 0..(HISTORY_DAYS - 1) : Within(begun[d], HistoryWindow(i))} IN
        IF Within(begun[d], whole) THEN \E i \in at : at = {i} ELSE at = {}

(* celo-dashboard.ts 308-328: if nothing came between its queries, the     *)
(* breakdown of a day's points fits into their sum.                        *)
BreakdownFits ==
    report.kind = "today" /\ ~Telling /\ steady =>
        figures[sumPoints("receipt-upload")] + figures[sumPoints("daily-claim")]
            + figures[sumPoints("daily-claim-onchain")]
            <= figures[Query("sum", "earned", Celo, SoFar)]

(* celo-dashboard.ts 250-292: nor does a step of the funnel count somebody *)
(* twice, or somebody who has not signed up.                               *)
FunnelNarrows ==
    report.kind = "funnel" /\ ~Telling /\ steady =>
        \A q \in Told : figures[q] <= figures[Query("rows", "users", Celo, Ever)]

ReportsAddUp ==
    /\ RetentionIsAShare /\ FinishedDaysStand /\ HistoryIsWhole
    /\ BreakdownFits /\ FunnelNarrows
=============================================================================
