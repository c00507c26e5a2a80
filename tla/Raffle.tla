-------------------------------- MODULE Raffle --------------------------------
(***************************************************************************)
(* apps/api: the daily raffle.  At midnight UTC the roll-over draws every  *)
(* pool of the day that ended and opens the pools of the day that begins   *)
(* (lib/raffle/index.ts, lib/halo-raffle.ts, scheduled/index.ts); during   *)
(* the day wallets buy entries with points (routes/client/raffle.ts).      *)
(*                                                                         *)
(* An entry is one transaction of the point ledger, PointLedger, that also *)
(* writes the entry and the pool's running total.  The roll-over is a      *)
(* chain of separate statements with no transaction around them: a crash   *)
(* may stop it between any two, and entries commit in between.             *)
(***************************************************************************)
EXTENDS PointLedger, Sequences, SequencesExt, Functions

CONSTANTS
    Tiers,       \* WORLD_POOLS: a sequence of [price, max]
    Count,       \* how many entries a client asks for at once
    Purse,       \* the points a wallet starts with
    Runner,      \* who may roll the pools over: "cron", "ops"
    Trigger,     \* what an operator may ask for: "close", "create", "both"
    LinkService, \* whether a payout service is configured
    MaxPools,    \* bound of this model: how many pools are ever created
    MaxByHand    \* bound of this model: how often an operator rolls them over

UNLIMITED_ENTRIES == -1

ASSUME TierAssumption ==
    /\ Tiers \in Seq([price: Nat \ {0}, max: (Nat \ {0}) \cup {UNLIMITED_ENTRIES}])
    /\ Count \subseteq Nat \ {0} /\ Purse \in Nat
    /\ "cron" \in Runner /\ Trigger \subseteq {"close", "create", "both"}
    /\ LinkService \in BOOLEAN /\ MaxPools \in Nat /\ MaxByHand \in Nat

VARIABLES
    pools,       \* raffle_pools, in the order they were created
    entries,     \* raffle_pool_entries, one a request
    entry,       \* what each request under way asks for
    run,         \* the roll-overs under way
    due,         \* whether the cron has yet to fire today
    links,       \* claim links the payout service has minted
    passedOver,  \* history: pools a draw found no entry in
    byHand       \* history: how often an operator has rolled the pools over

raffleVars == <<pools, entries, entry, run, due, links, passedOver, byHand>>
vars == <<pointVars, raffleVars>>

Task == {"both"} \cup Trigger
NoLink == [pool |-> 0, receiver |-> NoOne]
NoEntry == [pool |-> 0, count |-> 0, current |-> 0]
Idle == [pc |-> "idle", task |-> "both", todo |-> {}, pool |-> 0, winner |-> NoOne, link |-> NoLink]

NewPool(tier, date) ==
    [price |-> tier.price, max |-> tier.max, date |-> date, total |-> 0, winner |-> NoOne,
     link |-> NoLink, claimed |-> FALSE]

(* Mutant of NewPools: a clock ahead of UTC dates them a day late.         *)
NewPoolsAhead(date) == [i \in 1..Len(Tiers) |-> NewPool(Tiers[i], date + 1)]

NewPools(date) == [i \in 1..Len(Tiers) |-> NewPool(Tiers[i], date)]

(* The pools of the first day are open, and every wallet has its points.   *)
RaffleInit ==
    /\ day = 0 /\ clock = 1 /\ dailyClaims = {}
    /\ logs = {[wallet |-> a, at |-> 0, day |-> 0, diff |-> Purse, after |-> Purse,
                accumulated |-> Purse, source |-> "manual", receipts |-> {}] : a \in Wallet}
    /\ status \in [Receipt -> Claimable]
    /\ worth \in [Receipt -> Worth]
    /\ owner \in [Receipt -> Wallet]
    /\ req = [q \in Request |-> NewRequest]
    /\ open = [a \in Wallet |-> {}]
    /\ quiet = Wallet
    /\ pools = NewPools(0)
    /\ entries = {}
    /\ entry = [q \in Request |-> NoEntry]
    /\ run = [r \in Runner |-> Idle]
    /\ due = FALSE
    /\ links = {} /\ passedOver = {} /\ byHand = 0

-----------------------------------------------------------------------------
(* Entering: applyRaffleRoute.                                             *)

EntriesOf(p) == {e \in entries : e.pool = p}
TicketsOf(p, a) == {e \in EntriesOf(p) : e.wallet = a}
Tickets(p, a) == SumFunction([e \in TicketsOf(p, a) |-> e.count])

Cost(q) == entry[q].count * pools[entry[q].pool].price

(* The date and the balance are read before the transaction begins.        *)
apply(q, a, p, n) ==
    /\ At(q, "new")
    /\ req' = [req EXCEPT ![q] = [NewRequest EXCEPT
                  !.pc = "checked", !.source = "raffle", !.wallet = a, !.date = day]]
    /\ entry' = [entry EXCEPT ![q] = [pool |-> p, count |-> n, current |-> Balance(a)]]
    /\ UNCHANGED <<day, logs, receiptVars, dailyClaims, openVars>>
    /\ UNCHANGED <<pools, entries, run, due, links, passedOver, byHand>>

PoolIsOpen(q) ==
    LET pool == pools[entry[q].pool] IN pool.winner = NoOne /\ pool.date = req[q].date

(* Mutant of WithinLimit: only this entry is held against the limit.       *)
WithinLimitAlone(q) ==
    LET max == pools[entry[q].pool].max IN max # UNLIMITED_ENTRIES => entry[q].count <= max

WithinLimit(q) ==
    LET max == pools[entry[q].pool].max IN
        max # UNLIMITED_ENTRIES => Tickets(entry[q].pool, req[q].wallet) + entry[q].count <= max

(* The reads of the transaction; one that refuses writes nothing.          *)
BeginApply(q) ==
    /\ At(q, "checked") /\ req[q].source = "raffle"
    /\ IF PoolIsOpen(q) /\ WithinLimit(q) /\ entry[q].current >= Cost(q)
       THEN /\ Begins(req[q].wallet)
            /\ req' = [req EXCEPT ![q] = [@ EXCEPT !.pc = "open", !.amount = -Cost(q),
                                                  !.at = clock, !.day = day]]
       ELSE Refused(q) /\ UNCHANGED openVars
    /\ UNCHANGED <<day, logs, receiptVars, dailyClaims, raffleVars>>

(* Mutant of CoversEntry: the balance read before the transaction is       *)
(* enough, and insertPointLog appends whatever it finds.                   *)
CoveredBefore(q) == TRUE

CoversEntry(q) == Covers(req[q].base, req[q].amount)

(* Mutant of Counted: the total is written from the pool as it was read.   *)
CountedAfresh(q) == [pools EXCEPT ![entry[q].pool].total = entry[q].count]

(* Mutant of Counted: the sign the ledger's diff has.                      *)
CountedAsSpent(q) == [pools EXCEPT ![entry[q].pool].total = @ - entry[q].count]

(* total_entry_count + n, under the lock of the pool's row.                *)
Counted(q) == [pools EXCEPT ![entry[q].pool].total = @ + entry[q].count]

SettleEntry(q) ==
    /\ req[q].source = "raffle" /\ CoversEntry(q)
    /\ Commits(q, req[q].amount)
    /\ entries' = entries \cup {[id |-> q, pool |-> entry[q].pool, wallet |-> req[q].wallet,
                                 count |-> entry[q].count, spent |-> Cost(q)]}
    /\ pools' = Counted(q)
    /\ UNCHANGED <<day, receiptVars, dailyClaims, entry, run, due, links, passedOver, byHand>>

-----------------------------------------------------------------------------
(* Rolling over: closeRafflePools, then createNewRafflePools.              *)

Reaches(r, pc) == run[r].pc = pc
Hold(r, state) == run' = [run EXCEPT ![r] = state]

LatestDate == Max({pools[p].date : p \in DOMAIN pools} \cup {0})

(* Mutant of TargetDate: the day before, instead of the latest with pools. *)
Yesterday == day - 1

TargetDate == LatestDate

(* Mutant of Undrawn: the pools of the date, drawn or not.                 *)
AllOfTheDate == {p \in DOMAIN pools : pools[p].date = TargetDate}

Undrawn == {p \in DOMAIN pools : pools[p].date = TargetDate /\ pools[p].winner = NoOne}

Start(r, task) ==
    /\ Reaches(r, "idle")
    /\ Hold(r, [Idle EXCEPT !.pc = "rolling", !.task = task,
                            !.todo = IF task = "create" THEN {} ELSE Undrawn])
    /\ UNCHANGED <<pointVars, pools, entries, entry, links, passedOver>>

Fire == due /\ due' = FALSE /\ Start("cron", "both") /\ UNCHANGED byHand
RunOnDemand ==
    /\ "ops" \in Runner /\ byHand < MaxByHand
    /\ byHand' = byHand + 1 /\ UNCHANGED due
    /\ \E task \in Trigger : Start("ops", task)

(* drawWeightedWinner walks the wallets, in the order the query gave them, *)
(* to the first at which the count so far reaches the winning ticket.      *)
upTo(i, order, held) == SumFunction([j \in 1..i |-> held[order[j]]])

WonBy(ticket, order, held) ==
    order[Min({i \in 1..Len(order) : ticket <= upTo(i, order, held)})]

(* Mutant of TicketNumbers: floor(random * total), without the one added.  *)
TicketNumbersFromZero(total) == 0..(total - 1)

TicketNumbers(total) == 1..total

Draws(order, held) ==
    [t \in TicketNumbers(upTo(Len(order), order, held)) |-> WonBy(t, order, held)]

Entrants(p) == {e.wallet : e \in EntriesOf(p)}
HeldIn(p) == [a \in Wallet |-> Tickets(p, a)]

(* One pool of the list: what its entries are now, and who is drawn.  With *)
(* no entries the pool is passed over.                                     *)
Draw(r) ==
    /\ Reaches(r, "rolling")
    /\ \E p \in run[r].todo :
         IF EntriesOf(p) = {}
         THEN /\ Hold(r, [run[r] EXCEPT !.todo = @ \ {p}])
              /\ passedOver' = passedOver \cup {p}
         ELSE /\ \E order \in SetToSeqs(Entrants(p)) : \E w \in Range(Draws(order, HeldIn(p))) :
                    Hold(r, [run[r] EXCEPT !.pc = "drawn", !.todo = @ \ {p}, !.pool = p, !.winner = w])
              /\ UNCHANGED passedOver
    /\ UNCHANGED <<pointVars, pools, entries, entry, due, links, byHand>>

(* mintPayoutLink: the payout service answers with a link, or fails and    *)
(* the winner goes without one.                                            *)
Mint(r) ==
    /\ Reaches(r, "drawn")
    /\ LET link == [pool |-> run[r].pool, receiver |-> run[r].winner] IN
         \/ /\ LinkService
            /\ links' = links \cup {link}
            /\ Hold(r, [run[r] EXCEPT !.pc = "minted", !.link = link])
         \/ Hold(r, [run[r] EXCEPT !.pc = "minted", !.link = NoLink]) /\ UNCHANGED links
    /\ UNCHANGED <<pointVars, pools, entries, entry, due, passedOver, byHand>>

Record(r) ==
    /\ Reaches(r, "minted")
    /\ pools' = [pools EXCEPT ![run[r].pool] = [@ EXCEPT !.winner = run[r].winner, !.link = run[r].link]]
    /\ Hold(r, [run[r] EXCEPT !.pc = "rolling"])
    /\ UNCHANGED <<pointVars, entries, entry, due, links, passedOver, byHand>>

Create(r) ==
    /\ Reaches(r, "rolling") /\ run[r].todo = {}
    /\ run[r].task = "close" \/ Len(pools) + Len(Tiers) <= MaxPools
    /\ pools' = IF run[r].task = "close" THEN pools ELSE pools \o NewPools(day)
    /\ Hold(r, Idle)
    /\ UNCHANGED <<pointVars, entries, entry, due, links, passedOver, byHand>>

(* The worker is evicted, or a statement throws: nothing more of the run.  *)
Crash(r) ==
    /\ ~Reaches(r, "idle")
    /\ Hold(r, Idle)
    /\ UNCHANGED <<pointVars, pools, entries, entry, due, links, passedOver, byHand>>

(* The payout service calls back when a link is redeemed: raffle-received  *)
(* looks the link up among the recorded ones, and answers 404 without it.  *)
raffleReceived(link) ==
    /\ \E p \in DOMAIN pools :
         /\ pools[p].link = link
         /\ pools' = [pools EXCEPT ![p].claimed = TRUE]
    /\ UNCHANGED <<pointVars, entries, entry, run, due, links, passedOver, byHand>>

-----------------------------------------------------------------------------

(* A run of the cron ends or is stopped long before the next midnight; the *)
(* cron of a day may fail to fire at all.                                  *)
NextDay ==
    /\ Reaches("cron", "idle")
    /\ Midnight
    /\ due' = TRUE
    /\ UNCHANGED <<pools, entries, entry, run, links, passedOver, byHand>>

Roll(r) == Draw(r) \/ Mint(r) \/ Record(r) \/ Create(r) \/ Crash(r)

RaffleNext ==
    \/ \E q \in Request, a \in Wallet : \/ \E p \in DOMAIN pools, n \in Count : apply(q, a, p, n)
                                        \/ AskLedger(q, a) /\ UNCHANGED raffleVars
    \/ \E q \in Request : BeginApply(q) \/ SettleEntry(q) \/ (Serve(q) /\ UNCHANGED raffleVars)
    \/ Fire \/ RunOnDemand
    \/ \E r \in Runner : Roll(r)
    \/ \E link \in links : raffleReceived(link)
    \/ NextDay

RaffleSpec == RaffleInit /\ [][RaffleNext]_vars

-----------------------------------------------------------------------------
(* Properties.                                                             *)

PoolRow == [price: Nat \ {0}, max: Int, date: Day, total: Nat, winner: Wallet \cup {NoOne},
            link: {NoLink} \cup [pool: Nat, receiver: Wallet], claimed: BOOLEAN]

RaffleTypeOK ==
    /\ pools \in Seq(PoolRow)
    /\ \A e \in entries :
         e \in [id: Request, pool: DOMAIN pools, wallet: Wallet, count: Count, spent: Nat]
    /\ entry \in [Request -> [pool: 0..Len(pools), count: Count \cup {0}, current: Int]]
    /\ run \in [Runner -> [pc: {"idle", "rolling", "drawn", "minted"}, task: Task,
                           todo: SUBSET DOMAIN pools, pool: 0..Len(pools),
                           winner: Wallet \cup {NoOne},
                           link: {NoLink} \cup [pool: DOMAIN pools, receiver: Wallet]]]
    /\ due \in BOOLEAN
    /\ links \subseteq [pool: DOMAIN pools, receiver: Wallet]
    /\ passedOver \subseteq DOMAIN pools

(* raffle.ts 316-340: the pool's total, its entries and the ledger stay in *)
(* step.  However the entries interleave, the running total is the number  *)
(* of tickets in the pool, and the points a wallet's entries cost are the  *)
(* points its ledger shows as spent on raffles.                            *)
TicketsMatchEntries ==
    /\ \A p \in DOMAIN pools : pools[p].total = SumFunction([e \in EntriesOf(p) |-> e.count])
    /\ \A a \in Wallet :
         SumFunction([e \in {e \in entries : e.wallet = a} |-> e.spent])
             + SumFunction([l \in {l \in LogsOf(a) : l.source = "raffle"} |-> l.diff]) = 0

(* weighted-draw.ts 3-5: "Every entry is one ticket, so buying more        *)
(* entries buys proportionally more chance".  Whatever the order the query *)
(* gives the wallets in, a wallet is drawn by exactly as many of the       *)
(* winning numbers as it has tickets.                                      *)
EveryTicketWinsOnce ==
    \A p \in DOMAIN pools : \A order \in SetToSeqs(Entrants(p)) :
        LET draws == Draws(order, HeldIn(p)) IN
            \A a \in Entrants(p) : Cardinality({t \in DOMAIN draws : draws[t] = a}) = Tickets(p, a)

(* A ticket that is paid for is in the pool and in the draw, once.         *)
TicketsAddUp == TicketsMatchEntries /\ EveryTicketWinsOnce

(* MAX_ENTRIES_PER_USER_REACHED (raffle.ts 294-309): a wallet whose        *)
(* transactions never overlapped holds no more tickets than the tier lets  *)
(* it, over all its entries to the pool.                                   *)
QuietWithinLimit ==
    \A a \in quiet, p \in DOMAIN pools :
        pools[p].max # UNLIMITED_ENTRIES => Tickets(p, a) <= pools[p].max

(* INSUFFICIENT_POINT is decided on a balance read before the transaction  *)
(* (raffle.ts 278, 311); insertPointLog decides again (lib/point.ts 54).   *)
(* A wallet whose transactions never overlapped has never spent more than  *)
(* it had, although its requests all passed the first check together; only *)
(* an airdrop, which appends unasked, may take what is not there.          *)
QuietSpendIsCovered ==
    \A a \in quiet : (\A l \in LogsOf(a) : l.source = "airdrop" => l.diff >= 0)
                        => \A l \in LogsOf(a) : l.after >= 0

(* A wallet whose transactions never overlapped, however early its entries *)
(* were checked, keeps to the limit of a tier and to what it has.          *)
QuietWithinMeans == QuietWithinLimit /\ QuietSpendIsCovered

(* Paid for, in the pool, in the draw, within the limit and within means.  *)
EntriesAddUp == TicketsAddUp /\ QuietWithinMeans

(* With no roll-over but the cron's: a pool is drawn once, after its day   *)
(* has ended, and its winner holds a ticket and, with a link, is the one   *)
(* the link was minted for.  Crashes and repeated runs change no winner.   *)
DrawsOnceAfterTheDay ==
    [][\A p \in DOMAIN pools :
          byHand = 0 /\ pools'[p].winner # pools[p].winner =>
              /\ pools[p].winner = NoOne /\ pools[p].date < day
              /\ Tickets(p, pools'[p].winner) > 0
              /\ pools'[p].link \in {NoLink, [pool |-> p, receiver |-> pools'[p].winner]}]_vars

(* "Defaults to the most recent day that has pools" (lib/raffle/index.ts   *)
(* 80-82): a day the cron missed, or broke off, is made up for.  Once      *)
(* there are pools of a later day, every earlier pool has been drawn or    *)
(* was seen without an entry.                                              *)
NoPoolLeftBehind ==
    byHand = 0 => \A p \in DOMAIN pools :
        pools[p].date < LatestDate => pools[p].winner # NoOne \/ p \in passedOver

(* lib/point.ts 41-43: a transaction is taken because "a concurrent spend  *)
(* outside the same transaction would let a wallet go negative".  No       *)
(* wallet spends more than it was given.                                   *)
SpentIsCovered == \A a \in Wallet : Moved(a) >= 0

=============================================================================
