----------------------------- MODULE RaffleScreens -----------------------------
(***************************************************************************)
(* One person's draws in the mini app: the list of pools and the entry     *)
(* sheet (Raffle.tsx, RaffleEntrySheet.tsx), the past draws                *)
(* (RaffleHistory.tsx), the queries behind them, and the endpoints that    *)
(* answer, with the checks an entry meets on the way.  One pool is open;   *)
(* prizes won earlier wait in past rounds, on World behind a claim link.   *)
(*                                                                         *)
(* An entry is taken in two statements' worth of steps, as in Raffle: what *)
(* is read, and what is written.  The sheet lets one entry at a time go,   *)
(* but closing it while the answer is on its way and opening it again      *)
(* gives a sheet that knows nothing of it.  Answers may be lost, cached    *)
(* lists go stale, the round may close at any moment.                      *)
(***************************************************************************)
EXTENDS Integers, FiniteSets

CONSTANTS
    Entry,     \* entries the person may have under way: request ids
    Round,     \* past rounds with a prize of this person
    Limit,     \* maxEntriesPerUser
    Purse,   \* points the wallet has, at one point an entry
    NoData     \* what is not loaded, not open, not asked

ASSUME ScreensAssumption == IsFiniteSet(Entry) /\ Limit \in Nat /\ Purse \in Nat

VARIABLES
    \* the server
    platform,   \* "celo" or "world"
    verified,   \* a verified mailbox on celo
    roundOpen,       \* the pool's round is on: no winner, and today's
    mine,       \* entries of this person in the pool
    afterBalance,     \* afterBalance
    linked,     \* rounds whose prize has a drop link
    settledAt,  \* rounds whose prize was claimed, or paid and recorded
    spentOnChain,
    \* the phone
    page,       \* "draws", "history" or "elsewhere"
    isVerified, \* what the store last heard
    pools,      \* NoData or [mine, isClosed]
    stat,       \* NoData or the points last heard of
    sheet,      \* NoData or [mine, busy]: selectedPool as it was when tapped
    entering,    \* [Entry -> NoData or the entry under way]
    told,       \* entries the person was told are in
    date,       \* the round looked at
    history,    \* [Round -> NoData or [settled, claimUrl]]: cached per round
    reading,    \* [Round -> the same, read and on its way]
    claiming,   \* claimingUrls: rounds whose link was opened
    overlapped  \* two entries were being served at once

server == <<platform, verified, roundOpen, mine, afterBalance, linked, settledAt, spentOnChain>>
drawsPage == <<isVerified, pools, stat, sheet, entering, told>>
historyPage == <<date, history, reading, claiming>>
raffleScreenVars == <<server, page, drawsPage, historyPage, overlapped>>

ScreensInit ==
    /\ platform \in {"celo", "world"} /\ verified \in BOOLEAN
    /\ roundOpen = TRUE /\ mine = 0 /\ afterBalance = Purse
    /\ linked \in IF platform = "world" THEN SUBSET Round ELSE {{}}
    /\ settledAt = {} /\ spentOnChain = 0
    /\ page = "elsewhere" /\ isVerified = FALSE
    /\ pools = NoData /\ stat = NoData /\ sheet = NoData
    /\ entering = [e \in Entry |-> NoData] /\ told = 0
    /\ date \in Round
    /\ history = [d \in Round |-> NoData] /\ reading = [d \in Round |-> NoData]
    /\ claiming = {} /\ overlapped = FALSE

-----------------------------------------------------------------------------
(* The endpoints. *)

\* GET /raffle/list, GET /halo/raffle/list: today's pools only.
ListOf(total) == [mine |-> total, isClosed |-> total >= Limit]
list == IF roundOpen THEN ListOf(mine) ELSE [mine |-> mine, isClosed |-> TRUE]

\* GET /raffle/history, GET /halo/raffle/history: World's prizes carry a link,
\* the empty one when none was minted; the other chains' carry none.
reward(d) ==
    [settled |-> d \in settledAt, claimUrl |-> platform = "world" /\ d \in linked]

\* 403 before anything is read.
Gated == platform = "celo" /\ ~verified

\* Mutant of TurnedDown: the entries already there are trusted to the sheet.
TurnedDownUncounted(n) == Gated \/ ~roundOpen \/ afterBalance < n

\* What the call reads: the balance, then inside the transaction the pool and
\* the entries already there.
TurnedDown(n) == Gated \/ ~roundOpen \/ mine + n > Limit \/ afterBalance < n

CheckEntry(e) ==
    /\ entering[e] # NoData /\ entering[e].at = "sent"
    /\ entering' = [entering EXCEPT ![e].at = IF TurnedDown(entering[e].n) THEN "refused" ELSE "checked"]
    /\ overlapped' = (overlapped \/ \E x \in Entry \ {e} :
                                       entering[x] # NoData /\ entering[x].at = "checked")
    /\ UNCHANGED <<server, page, isVerified, pools, stat, sheet, told, historyPage>>

\* The entry, its point log and the total commit together; insertPointLog
\* looks at the balance once more.
CommitEntry(e) ==
    /\ entering[e] # NoData /\ entering[e].at = "checked"
    /\ IF afterBalance < entering[e].n
       THEN entering' = [entering EXCEPT ![e].at = "refused"] /\ UNCHANGED <<mine, afterBalance>>
       ELSE /\ entering' = [entering EXCEPT ![e].at = "entered"]
            /\ mine' = mine + entering[e].n /\ afterBalance' = afterBalance - entering[e].n
    /\ UNCHANGED <<platform, verified, roundOpen, linked, settledAt, spentOnChain, page,
                   isVerified, pools, stat, sheet, told, historyPage, overlapped>>

-----------------------------------------------------------------------------
(* The draws. *)

\* Mounted, every 30 seconds, by hand, and after every sheet.
fetchPools ==
    /\ page = "draws" /\ pools' = list
    /\ UNCHANGED <<server, page, isVerified, stat, sheet, entering, told, historyPage,
                   overlapped>>

fetchPointStat ==
    /\ stat' = afterBalance
    /\ UNCHANGED <<server, page, isVerified, pools, sheet, entering, told, historyPage,
                   overlapped>>

readStatus ==
    /\ page = "draws" /\ platform = "celo" /\ isVerified' = verified
    /\ UNCHANGED <<server, page, pools, stat, sheet, entering, told, historyPage, overlapped>>

NeedsEmail == platform = "celo" /\ ~isVerified

\* The sheet keeps the pool as it was when it was tapped.
handleRaffleEnter ==
    /\ page = "draws" /\ sheet = NoData /\ pools # NoData /\ ~pools.isClosed
    /\ IF NeedsEmail
       THEN page' = "elsewhere" /\ UNCHANGED sheet
       ELSE sheet' = [mine |-> pools.mine, busy |-> FALSE] /\ UNCHANGED page
    /\ UNCHANGED <<server, isVerified, pools, stat, entering, told, historyPage, overlapped>>

CurrentPoints == IF stat = NoData THEN 0 ELSE stat

isValidEntryCount(n) == n > 0 /\ n <= Limit - sheet.mine /\ n <= CurrentPoints

Buy(e, n) ==
    /\ sheet # NoData /\ ~sheet.busy /\ isValidEntryCount(n)
    /\ entering[e] = NoData
    /\ entering' = [entering EXCEPT ![e] = [at |-> "sent", n |-> n, mounted |-> TRUE,
                                          own |-> TRUE]]
    /\ sheet' = [sheet EXCEPT !.busy = TRUE]
    /\ UNCHANGED <<server, page, isVerified, pools, stat, told, historyPage, overlapped>>

\* The sheet the entry was made on is gone; its handlers still run.
Disown(r) == [e \in Entry |-> IF r[e] = NoData THEN NoData ELSE [r[e] EXCEPT !.own = FALSE]]

handleEntrySheetClose ==
    /\ sheet # NoData /\ sheet' = NoData
    /\ entering' = Disown(entering)
    /\ UNCHANGED <<server, page, isVerified, pools, stat, told, historyPage, overlapped>>

\* onClose closes whichever sheet is open by now, unless the page was left.
Closes(e) ==
    LET rest == [entering EXCEPT ![e] = NoData] IN
        IF entering[e].mounted
        THEN sheet' = NoData /\ entering' = Disown(rest)
        ELSE entering' = rest /\ UNCHANGED sheet

\* Success: on celo the wallet is asked to spend the same points on chain.
Entered(e) ==
    /\ entering[e] # NoData /\ entering[e].at = "entered"
    /\ IF platform = "celo"
       THEN entering' = [entering EXCEPT ![e].at = "wallet"] /\ UNCHANGED <<sheet, told>>
       ELSE /\ told' = told + entering[e].n /\ Closes(e)
    /\ UNCHANGED <<server, page, isVerified, pools, stat, historyPage, overlapped>>

\* Signed or declined, the person is told the entry is in.
SpendOnChain(e, done) ==
    /\ entering[e] # NoData /\ entering[e].at = "wallet"
    /\ spentOnChain' = IF done THEN spentOnChain + entering[e].n ELSE spentOnChain
    /\ told' = told + entering[e].n /\ Closes(e)
    /\ UNCHANGED <<platform, verified, roundOpen, mine, afterBalance, linked, settledAt, page,
                   isVerified, pools, stat, historyPage, overlapped>>

\* An error, or no answer at all: the sheet stays as it is, and says so.
NotEntered(e) ==
    /\ entering[e] # NoData /\ entering[e].at \in {"refused", "entered"}
    /\ sheet' = IF entering[e].own /\ sheet # NoData THEN [sheet EXCEPT !.busy = FALSE] ELSE sheet
    /\ entering' = [entering EXCEPT ![e] = NoData]
    /\ UNCHANGED <<server, page, isVerified, pools, stat, told, historyPage, overlapped>>

-----------------------------------------------------------------------------
(* The past draws. *)

\* Read at mount, on focus and, while a claim is under way, every 2 seconds.
ReadHistory(d) ==
    /\ page = "history" /\ d = date /\ reading[d] = NoData
    /\ reading' = [reading EXCEPT ![d] = reward(d)]
    /\ UNCHANGED <<server, page, drawsPage, date, history, claiming, overlapped>>

\* Links that are settled are polled for no longer.
WithoutSettled(links, data) == {d \in links : data[d] = NoData \/ ~data[d].settled}

HistoryArrives(d) ==
    /\ reading[d] # NoData
    /\ history' = [history EXCEPT ![d] = reading[d]]
    /\ reading' = [reading EXCEPT ![d] = NoData]
    /\ claiming' = WithoutSettled(claiming, history')
    /\ UNCHANGED <<server, page, drawsPage, date, overlapped>>

\* The button is there for a prize not settled that has a link.
startClaim ==
    /\ page = "history" /\ history[date] # NoData
    /\ ~history[date].settled /\ history[date].claimUrl
    /\ date \notin claiming
    /\ claiming' = claiming \cup {date}
    /\ UNCHANGED <<server, page, drawsPage, date, history, reading, overlapped>>

\* Mutant of InFlightAfter: a new date leaves the claims under way.
KeptInFlight(d) == claiming

\* What is in flight belongs to the round being left.
InFlightAfter(d) == {}

SelectDate(d) ==
    /\ page = "history" /\ d # date /\ date' = d
    /\ claiming' = InFlightAfter(d)
    /\ UNCHANGED <<server, page, drawsPage, history, reading, overlapped>>

Go(to) ==
    /\ page # to /\ page' = to
    /\ sheet' = NoData
    /\ entering' = [e \in Entry |-> IF entering[e] = NoData THEN NoData
                                   ELSE [entering[e] EXCEPT !.mounted = FALSE, !.own = FALSE]]
    /\ claiming' = {}
    /\ UNCHANGED <<server, isVerified, pools, stat, told, date, history, reading, overlapped>>

-----------------------------------------------------------------------------
(* The world outside. *)

CloseRound ==
    /\ roundOpen /\ roundOpen' = FALSE
    /\ UNCHANGED <<platform, verified, mine, afterBalance, linked, settledAt, spentOnChain, page,
                   drawsPage, historyPage, overlapped>>

\* Claimed on the drop page, here or elsewhere; or paid by hand and recorded.
Settle(d) ==
    /\ d \notin settledAt /\ (platform = "world" => d \in linked)
    /\ settledAt' = settledAt \cup {d}
    /\ UNCHANGED <<platform, verified, roundOpen, mine, afterBalance, linked, spentOnChain, page,
                   drawsPage, historyPage, overlapped>>

ScreensNext ==
    \/ fetchPools \/ fetchPointStat \/ readStatus \/ handleRaffleEnter
    \/ handleEntrySheetClose \/ startClaim \/ CloseRound
    \/ \E e \in Entry :
        \/ \E n \in 1..Limit : Buy(e, n)
        \/ CheckEntry(e) \/ CommitEntry(e) \/ Entered(e) \/ NotEntered(e)
        \/ \E done \in BOOLEAN : SpendOnChain(e, done)
    \/ \E d \in Round : ReadHistory(d) \/ HistoryArrives(d) \/ SelectDate(d) \/ Settle(d)
    \/ \E to \in {"draws", "history", "elsewhere"} : Go(to)

DrawsSpec == ScreensInit /\ [][ScreensNext]_raffleScreenVars

-----------------------------------------------------------------------------
ScreensTypeOK ==
    /\ mine \in Nat /\ afterBalance \in Nat /\ told \in Nat /\ spentOnChain \in Nat
    /\ claiming \subseteq Round /\ settledAt \subseteq Round

\* Comments of RaffleEntrySheet.tsx ("the off-chain entry already counts at
\* that point"), RaffleHistory.tsx ("keeping it would poll the wrong query
\* forever") and raffle.ts: nobody is told of an entry, or has burned points
\* on chain for one, that the server does not hold, whatever was lost, closed
\* or left in between; however old the sheet it came from, an entry that
\* overlapped no other stays within the limit and has a verified mailbox
\* behind it where one is asked for; and the past draws ask again and again
\* only for the round on the screen, and only until its prize shows settled.
EntriesAndClaimsAreTrue ==
    /\ told <= mine /\ spentOnChain <= told /\ mine + afterBalance = Purse
    /\ ~overlapped => mine <= Limit
    /\ mine > 0 /\ platform = "celo" => verified
    /\ \A d \in claiming : /\ page = "history" /\ d = date
                           /\ history[d] # NoData /\ ~history[d].settled
=============================================================================
