-------------------------------- MODULE Payouts --------------------------------
(***************************************************************************)
(* The prizes of one chain's Halo draws after the draw, from               *)
(* routes/admin/raffle.ts and routes/admin/blacklist.ts of the API, and    *)
(* what is published of them (routes/client/raffle.ts).  A prize is sent   *)
(* by hand from a treasury wallet: an operator asks who is owed what,      *)
(* sends the transfers, and records their hashes.  Nothing of this is a    *)
(* transaction: recording reads a pool, looks at it, and writes it in      *)
(* another statement, and may break off between any two of them.           *)
(*                                                                         *)
(* A transfer is known by its number: transfers[t] is the set of pools     *)
(* whose winners it paid.  The draw (see Raffle) and the treasury wallet   *)
(* are not the API's; an operator is taken to send what the list says is   *)
(* owing, and to use the bulk form only for one transfer that paid the     *)
(* whole list.                                                             *)
(***************************************************************************)
EXTENDS Naturals, FiniteSets, Sequences

CONSTANTS
    Operator,      \* people who may run the payout script
    Pool,          \* pools of this chain
    DateOf,        \* [Pool -> utcDate]
    Winner,        \* wallets that may win
    NoWinner,      \* the winner of a pool before its draw
    MaxTransfers,  \* bound: transfers the treasury sends
    MaxListings,   \* bound: times the operators ask for the list
    MaxBlocked     \* bound: changes of the blacklist

ASSUME PayoutsAssumption ==
    /\ NoWinner \notin Winner /\ IsFiniteSet(Pool)
    /\ DateOf \in [Pool -> Nat]
    /\ {MaxTransfers, MaxListings, MaxBlocked} \subseteq Nat

\* manualPayoutTxHash IS NULL; transfers are numbered from 1
Unpaid == 0

VARIABLES
    winner,     \* [Pool -> Winner \cup {NoWinner}]
    hash,       \* [Pool -> 1..Len(transfers) \cup {Unpaid}]: manualPayoutTxHash
    blacklist,  \* addresses held back
    blocked,    \* changes of the blacklist so far
    transfers,  \* what left the treasury, in order
    owing,      \* [Operator -> pools on the list not sent yet]
    paid,       \* [Operator -> pairs <<pool, transfer>> not known to be recorded]
    call,       \* [Operator -> the record call being served]
    listings,   \* lists asked for so far
    inTurns     \* no list was asked for while an earlier run was unfinished

payoutVars ==
    <<winner, hash, blacklist, blocked, transfers, owing, paid, call, listings, inTurns>>

treasury == <<transfers, owing, paid>>

\* A record call: the pairs it is about, those still to go through, those found
\* unpaid and about to be written, and whether it is served at all.
NoCall == [served |-> FALSE, asked |-> {}, todo |-> {}, found |-> {}]
Serving(asked, todo, found) == [served |-> TRUE, asked |-> asked, todo |-> todo, found |-> found]

PayoutsInit ==
    /\ winner = [p \in Pool |-> NoWinner]
    /\ hash = [p \in Pool |-> Unpaid]
    /\ blacklist = {} /\ blocked = 0
    /\ transfers = <<>>
    /\ owing = [o \in Operator |-> {}] /\ paid = [o \in Operator |-> {}]
    /\ call = [o \in Operator |-> NoCall]
    /\ listings = 0 /\ inTurns = TRUE

PayoutsTypeOK ==
    /\ winner \in [Pool -> Winner \cup {NoWinner}]
    /\ hash \in [Pool -> DOMAIN transfers \cup {Unpaid}]
    /\ blacklist \subseteq Winner
    /\ owing \in [Operator -> SUBSET Pool]
    /\ paid \in [Operator -> SUBSET (Pool \X DOMAIN transfers)]

-----------------------------------------------------------------------------
(* Who is owed what. *)

IsUnpaid(p) == hash[p] = Unpaid

\* Mutant of Owed: the condition on the hash is left out.
OwedAgain(date) ==
    {p \in Pool : DateOf[p] = date /\ winner[p] # NoWinner /\ winner[p] \notin blacklist}

\* Only drawn pools that carry no hash, and of those only winners who are not
\* held back.
Owed(date) ==
    {p \in Pool : DateOf[p] = date /\ winner[p] # NoWinner /\ IsUnpaid(p)
                  /\ winner[p] \notin blacklist}

Finished(o) == owing[o] = {} /\ paid[o] = {} /\ ~call[o].served

\* An operator (re-)runs the payout script: what he had not recorded of an
\* earlier run is forgotten.
winners(o, date) ==
    /\ ~call[o].served /\ listings < MaxListings
    /\ listings' = listings + 1
    /\ owing' = [owing EXCEPT ![o] = Owed(date)]
    /\ paid' = [paid EXCEPT ![o] = {}]
    /\ inTurns' = (inTurns /\ \A x \in Operator : Finished(x))
    /\ UNCHANGED <<winner, hash, blacklist, blocked, transfers, call>>

\* One transfer pays some pool of the list, or all that is left of it.
SendPrize(o, pools) ==
    /\ pools \subseteq owing[o] /\ pools # {} /\ Len(transfers) < MaxTransfers
    /\ Cardinality(pools) = 1 \/ pools = owing[o]
    /\ transfers' = Append(transfers, pools)
    /\ owing' = [owing EXCEPT ![o] = @ \ pools]
    /\ paid' = [paid EXCEPT ![o] = @ \cup (pools \X {Len(transfers) + 1})]
    /\ UNCHANGED <<winner, hash, blacklist, blocked, call, listings, inTurns>>

-----------------------------------------------------------------------------
(* Recording: one call at a time per operator, any number of operators. *)

recordPayouts(o) ==
    /\ ~call[o].served /\ paid[o] # {}
    /\ call' = [call EXCEPT ![o] = Serving(paid[o], paid[o], {})]
    /\ UNCHANGED <<winner, hash, blacklist, blocked, treasury, listings, inTurns>>

\* The rows with a winner and no hash on the transfer's date, whoever won
\* them, are read at once and then written one by one.
recordBulk(o, t, date) ==
    /\ ~call[o].served /\ owing[o] = {} /\ paid[o] # {}
    /\ paid[o] = transfers[t] \X {t} /\ \A p \in transfers[t] : DateOf[p] = date
    /\ call' = [call EXCEPT ![o] = Serving(paid[o], {},
           {p \in Pool : DateOf[p] = date /\ winner[p] # NoWinner /\ IsUnpaid(p)} \X {t})]
    /\ UNCHANGED <<winner, hash, blacklist, blocked, treasury, listings, inTurns>>

\* no_winner and already_paid: the pair is passed over.
PassesOver(p) == winner[p] = NoWinner \/ ~IsUnpaid(p)

\* A pair's pool is read; the next pair waits until this one is written.
LookUp(o, pair) ==
    /\ pair \in call[o].todo /\ call[o].found = {}
    /\ call' = [call EXCEPT ![o] = Serving(@.asked, @.todo \ {pair},
                                           IF PassesOver(pair[1]) THEN {} ELSE {pair})]
    /\ UNCHANGED <<winner, hash, blacklist, blocked, treasury, listings, inTurns>>

Write(o, pair) ==
    /\ pair \in call[o].found
    /\ hash' = [hash EXCEPT ![pair[1]] = pair[2]]
    /\ call' = [call EXCEPT ![o].found = @ \ {pair}]
    /\ UNCHANGED <<winner, blacklist, blocked, treasury, listings, inTurns>>

\* 200: what was asked is recorded; what was sent meanwhile is not yet.
Recorded(o) ==
    /\ call[o].served /\ call[o].todo = {} /\ call[o].found = {}
    /\ call' = [call EXCEPT ![o] = NoCall]
    /\ paid' = [paid EXCEPT ![o] = @ \ call[o].asked]
    /\ UNCHANGED <<winner, hash, blacklist, blocked, transfers, owing, listings, inTurns>>

\* A statement fails or the worker is evicted: what was written stays.
BreakOff(o) ==
    /\ call[o].served
    /\ call' = [call EXCEPT ![o] = NoCall]
    /\ UNCHANGED <<winner, hash, blacklist, blocked, treasury, listings, inTurns>>

-----------------------------------------------------------------------------
(* The rest of the world. *)

Drawn(p, w) ==
    /\ winner[p] = NoWinner
    /\ winner' = [winner EXCEPT ![p] = w]
    /\ UNCHANGED <<hash, blacklist, blocked, treasury, call, listings, inTurns>>

\* POST /admin/blacklist: adding what is there is a no-op.
addBlacklist(w) ==
    /\ blocked < MaxBlocked /\ blocked' = blocked + 1
    /\ blacklist' = blacklist \cup {w}
    /\ UNCHANGED <<winner, hash, treasury, call, listings, inTurns>>

\* DELETE /admin/blacklist: address by address.
removeBlacklist(w) ==
    /\ blocked < MaxBlocked /\ blocked' = blocked + 1
    /\ blacklist' = blacklist \ {w}
    /\ UNCHANGED <<winner, hash, treasury, call, listings, inTurns>>

PayoutsNext ==
    \/ \E o \in Operator, p \in Pool : winners(o, DateOf[p])
    \/ \E o \in Operator : \E pools \in SUBSET owing[o] : SendPrize(o, pools)
    \/ \E o \in Operator : recordPayouts(o) \/ Recorded(o) \/ BreakOff(o)
    \/ \E o \in Operator, t \in DOMAIN transfers, p \in Pool : recordBulk(o, t, DateOf[p])
    \/ \E o \in Operator : \E pair \in call[o].todo : LookUp(o, pair)
    \/ \E o \in Operator : \E pair \in call[o].found : Write(o, pair)
    \/ \E p \in Pool, w \in Winner : Drawn(p, w)
    \/ \E w \in Winner : addBlacklist(w) \/ removeBlacklist(w)

PayoutsSpec == PayoutsInit /\ [][PayoutsNext]_payoutVars

-----------------------------------------------------------------------------
(* What is published. *)

\* GET /halo/raffle/payouts: rows with a hash, a winner and a time.
Payouts == {p \in Pool : ~IsUnpaid(p) /\ winner[p] # NoWinner}

\* GET /halo/raffle/stats, this chain's part of it; prizes are counted.  A
\* payout's time is written with its hash.
raffleStats ==
    LET drawn == {p \in Pool : winner[p] # NoWinner} IN
    [awarded |-> Cardinality(drawn), paid |-> Cardinality({p \in drawn : ~IsUnpaid(p)})]

\* GET /halo/raffle/history: of a day's prizes those of the person who asks,
\* each with the hash that paid it or without one.
myRewards(w, date) == {p \in Pool : DateOf[p] = date /\ winner[p] = w}

\* The prizes of all winners on all days that are shown as not paid.
ShownUnpaid == {p \in Pool : IsUnpaid(p) /\ \E w \in Winner : p \in myRewards(w, DateOf[p])}

\* Prizes of winners who are held back are reported apart.
HeldBack == {p \in Pool : winner[p] \in blacklist /\ IsUnpaid(p)}

PaidBy(p) == {t \in DOMAIN transfers : p \in transfers[t]}

\* "Awarded = a winner was drawn, regardless of whether the prize reached them"
\* (client/raffle.ts 849): no prize falls between the lists.  What the figures
\* say is awarded and not paid is what the winners see as open, which is what
\* an operator is told to pay, on some date, and what is held back; and the
\* figures count as paid exactly what is published.
NoPrizeIsForgotten ==
    /\ \A p \in Pool : p \in ShownUnpaid <=> p \in Owed(DateOf[p]) \/ p \in HeldBack
    /\ raffleStats.awarded - raffleStats.paid = Cardinality(ShownUnpaid)
    /\ raffleStats.paid = Cardinality(Payouts)

\* Comments of admin/raffle.ts ("a re-run of the payout script does not
\* re-send money that already went out", "the first one is the payment that
\* actually happened"): while runs of the script do not overlap and none is
\* given up half recorded, no prize is sent twice, whatever breaks off, is
\* recorded again, drawn late or blacklisted meanwhile; and every payout that
\* is published names the transfer that paid it.  A bulk
\* record may also mark winners it did not pay (those held back or drawn since
\* the list), so for them only: the transfer named was one of that date.
PaidOnce ==
    inTurns => \A p \in Pool :
        /\ Cardinality(PaidBy(p)) <= 1
        /\ p \in Payouts /\ PaidBy(p) # {} => hash[p] \in PaidBy(p)
        /\ p \in Payouts => \E q \in transfers[hash[p]] : DateOf[q] = DateOf[p]

\* What is said of a prize is true: it is paid once, and on the right list.
PrizesAreTrue == PaidOnce /\ NoPrizeIsForgotten
=============================================================================
