---------------------------- MODULE Accounts_proofs ---------------------------
(***************************************************************************)
(* Around an account: what holds of the draws a person enters and the      *)
(* prizes they claim on the screens (RaffleScreens), for any number of     *)
(* entries under way, limits, points and past rounds; of the file that     *)
(* tells where the contract their points are claimed from lives            *)
(* (ContractDeployment), for any number of scripts, keys and proxies; of   *)
(* the history an operator makes up for a wallet (TestReceipts), for any   *)
(* number of receipts, operators, seedings and photos; and of the pools    *)
(* that SeedPool.s.sol funds (HedgeDeployment), for any number of runs.    *)
(***************************************************************************)
EXTENDS RaffleScreens, ContractDeployment, HedgeDeployment, TestReceipts, SequenceTheorems, Sums

-----------------------------------------------------------------------------
(* One person's draws.  What an entry under way counts for, once the server*)
(* holds it and until the person is told.                                  *)

Stages == {"sent", "checked", "refused", "entered", "wallet"}
Entries == [at : Stages, n : Nat, mounted : BOOLEAN, own : BOOLEAN]
Is(e, at) == entering[e] # NoData /\ entering[e].at = at
Untold == [e \in Entry |-> IF Is(e, "entered") \/ Is(e, "wallet") THEN entering[e].n ELSE 0]

DrawsType ==
    /\ ScreensTypeOK
    /\ entering \in [Entry -> Entries \cup {NoData}]
    /\ date \in Round /\ DOMAIN history = Round

ToldOfEntries == told + SumFunction(Untold) <= mine /\ spentOnChain <= told /\ mine + afterBalance = Purse

(* While entries came one at a time, the one that was let through still    *)
(* fits; and none was let through that had to have a mailbox first.        *)
EntriesFit ==
    ~overlapped =>
        /\ mine <= Limit
        /\ \A e \in Entry : Is(e, "checked") => mine + entering[e].n <= Limit
        /\ \A e, x \in Entry : Is(e, "checked") /\ Is(x, "checked") => e = x
EntriesAllowed == (mine > 0 \/ \E e \in Entry : Is(e, "checked")) => ~Gated

ClaimsShown ==
    \A d \in claiming : page = "history" /\ d = date /\ history[d] # NoData /\ ~history[d].settled

DrawsInv == DrawsType /\ ToldOfEntries /\ EntriesFit /\ EntriesAllowed /\ ClaimsShown

LEMMA UntoldIsCounted == DrawsType => Untold \in [Entry -> Nat]
BY DEF DrawsType, Untold, Is, Entries

\* Less untold, or n more of one entry.
LEMMA UntoldChanges ==
  ASSUME NEW f \in [Entry -> Nat], NEW g \in [Entry -> Nat]
  PROVE  /\ SumFunction(f) \in Nat
         /\ (\A e \in Entry : g[e] <= f[e]) => SumFunction(g) <= SumFunction(f)
         /\ \A e \in Entry, n \in Int :
                (g[e] <= f[e] + n /\ \A x \in Entry \ {e} : g[x] <= f[x]) =>
                    SumFunction(g) <= SumFunction(f) + n
<1> DEFINE z == [e \in Entry |-> 0]
<1>1. IsFiniteSet(Entry)
  BY ScreensAssumption
<1>2. /\ SumFunction(f) = SumFunctionOnSet(f, Entry) /\ SumFunction(g) = SumFunctionOnSet(g, Entry)
      /\ f \in [Entry -> Int] /\ SumFunction(f) \in Int
  <2>1. f \in [Entry -> Int]
    OBVIOUS
  <2>2. SumFunction(f) \in Int
    BY <1>1, <2>1, SumRaised
  <2> QED BY <2>1, <2>2 DEF SumFunction
<1>3. SumFunction(f) \in Nat
  <2>1. \A e \in Entry : z[e] = 0 /\ z[e] \in Int /\ f[e] \in Int /\ z[e] <= f[e]
    OBVIOUS
  <2> HIDE DEF z
  <2>2. SumFunctionOnSet(z, Entry) = 0 /\ SumFunctionOnSet(z, Entry) <= SumFunctionOnSet(f, Entry)
    BY <1>1, <2>1, SumOfZeros, SumBelow
  <2> QED BY <1>2, <2>2
<1>4. ASSUME \A e \in Entry : g[e] <= f[e] PROVE SumFunction(g) <= SumFunction(f)
  BY <1>1, <1>2, <1>4, SumBelow
<1>5. ASSUME NEW e \in Entry, NEW n \in Int, g[e] <= f[e] + n, \A x \in Entry \ {e} : g[x] <= f[x]
      PROVE  SumFunction(g) <= SumFunction(f) + n
  <2> DEFINE h == [f EXCEPT ![e] = f[e] + n]
  <2>1. h \in [Entry -> Int] /\ h[e] = f[e] + n /\ \A x \in Entry \ {e} : h[x] = f[x]
    OBVIOUS
  <2> HIDE DEF h
  <2>2. SumFunction(h) = SumFunction(f) + n
    BY <1>1, <1>2, <2>1, SumRaised
  <2>3. SumFunction(h) = SumFunctionOnSet(h, Entry)
    BY <2>1 DEF SumFunction
  <2>4. \A x \in Entry : g[x] \in Int /\ h[x] \in Int /\ g[x] <= h[x]
    BY <1>5, <2>1
  <2>5. SumFunctionOnSet(g, Entry) <= SumFunctionOnSet(h, Entry)
    BY <1>1, <2>4, SumBelow
  <2> QED BY <1>2, <2>2, <2>3, <2>5
<1> QED BY <1>3, <1>4, <1>5

LEMMA DrawsStart == ScreensInit => DrawsInv
<1> SUFFICES ASSUME ScreensInit PROVE DrawsInv
  OBVIOUS
<1> USE DEF ScreensInit
<1>1. DrawsType
  BY ScreensAssumption DEF DrawsType, ScreensTypeOK
<1>2. ToldOfEntries
  <2>1. SumFunctionOnSet(Untold, Entry) = 0 /\ DOMAIN Untold = Entry
    <3>1. \A e \in Entry : Untold[e] = 0
      BY DEF Untold, Is
    <3> QED BY <3>1, ScreensAssumption, SumOfZeros DEF Untold
  <2> QED BY <2>1, ScreensAssumption DEF ToldOfEntries, SumFunction
<1>3. EntriesFit /\ EntriesAllowed /\ ClaimsShown
  BY ScreensAssumption DEF EntriesFit, EntriesAllowed, ClaimsShown, Is
<1> QED BY <1>1, <1>2, <1>3 DEF DrawsInv

-----------------------------------------------------------------------------
(* The steps. *)

\* Nothing is entered: entries end, begin, come to the wallet, or lose the
\* sheet they came from.
CountsFor(e) == Is(e, "entered") \/ Is(e, "wallet")
Same(e) ==
    \/ entering'[e] = NoData \/ entering'[e].at \in {"sent", "refused"}
    \/ /\ entering[e] # NoData /\ entering'[e].n = entering[e].n
       /\ \/ entering'[e].at = entering[e].at
          \/ entering[e].at = "entered" /\ entering'[e].at = "wallet"

Quiet ==
    /\ entering' \in [Entry -> Entries \cup {NoData}]
    /\ \A e \in Entry : Same(e)
    /\ overlapped => overlapped'
    /\ UNCHANGED <<platform, verified, mine, afterBalance>>

LEMMA QuietStep ==
  ASSUME DrawsInv, Quiet
  PROVE  /\ Untold' \in [Entry -> Nat] /\ \A e \in Entry : Untold'[e] <= Untold[e]
         /\ UNCHANGED <<told, spentOnChain>> => ToldOfEntries'
         /\ EntriesFit' /\ EntriesAllowed'
<1>1. \A e \in Entry : entering[e] \in Entries \cup {NoData} /\ entering'[e] \in Entries \cup {NoData}
  BY DEF DrawsInv, DrawsType, Quiet
<1>2. /\ \A e \in Entry : Is(e, "checked")' => Is(e, "checked") /\ entering'[e].n = entering[e].n
      /\ \A e \in Entry : CountsFor(e)' => CountsFor(e) /\ entering'[e].n = entering[e].n
  BY DEF Quiet, Same, Is, CountsFor
<1>3. \A e \in Entry : entering[e] # NoData => entering[e].n \in Nat
  BY <1>1 DEF Entries
<1>4. \A e \in Entry : entering'[e] # NoData => entering'[e].n \in Nat
  BY <1>1 DEF Entries
<1>5. Untold' \in [Entry -> Nat] /\ \A e \in Entry : Untold'[e] <= Untold[e]
  BY <1>2, <1>3, <1>4 DEF Untold, Is, CountsFor
<1>6. ASSUME UNCHANGED <<told, spentOnChain>> PROVE ToldOfEntries'
  <2>1. Untold \in [Entry -> Nat]
    BY UntoldIsCounted DEF DrawsInv
  <2>2. /\ SumFunction(Untold) \in Nat /\ SumFunction(Untold') \in Nat
        /\ SumFunction(Untold') <= SumFunction(Untold)
    BY <1>5, <2>1, UntoldChanges
  <2>3. told \in Nat /\ mine \in Nat
    BY DEF DrawsInv, DrawsType, ScreensTypeOK
  <2>4. UNCHANGED <<mine, told, spentOnChain, afterBalance>>
    BY <1>6 DEF Quiet
  <2>5. told + SumFunction(Untold) <= mine /\ spentOnChain <= told /\ mine + afterBalance = Purse
    BY DEF DrawsInv, ToldOfEntries
  <2> QED BY <2>2, <2>3, <2>4, <2>5 DEF ToldOfEntries
<1>7. EntriesFit'
  <2>1. mine' = mine /\ (overlapped => overlapped')
    BY DEF Quiet
  <2> QED BY <1>2, <2>1 DEF DrawsInv, EntriesFit
<1>8. EntriesAllowed'
  BY <1>2 DEF DrawsInv, EntriesAllowed, Quiet, Gated
<1> QED BY <1>5, <1>6, <1>7, <1>8

LEMMA DisownIsQuiet ==
  ASSUME NEW r \in [Entry -> Entries \cup {NoData}]
  PROVE  /\ Disown(r) \in [Entry -> Entries \cup {NoData}]
         /\ \A e \in Entry : \/ Disown(r)[e] = NoData
                             \/ r[e] # NoData /\ Disown(r)[e].at = r[e].at /\ Disown(r)[e].n = r[e].n
         /\ \A e \in Entry : r[e] = NoData => Disown(r)[e] = NoData
<1>1. ASSUME NEW e \in Entry, r[e] # NoData
      PROVE  LET s == [r[e] EXCEPT !.own = FALSE] IN s \in Entries /\ s.at = r[e].at /\ s.n = r[e].n
  <2>1. PICK q \in Entries : q = r[e]
    BY <1>1
  <2> QED BY <2>1 DEF Entries
<1> QED BY <1>1 DEF Disown

\* What of the past draws a step may not touch without saying so.
PastStands == UNCHANGED <<date, history, claiming>> /\ (page' = page \/ page = "draws")

LEMMA PastHolds == DrawsInv /\ PastStands => ClaimsShown'
BY DEF DrawsInv, ClaimsShown, PastStands

\* An entry moves to another stage.
LEMMA EntryMoves ==
  ASSUME DrawsInv, NEW e \in Entry, entering[e] # NoData, NEW at \in Stages
  PROVE  LET r == [entering EXCEPT ![e].at = at] IN
             /\ r \in [Entry -> Entries \cup {NoData}]
             /\ r[e].at = at /\ r[e].n = entering[e].n
             /\ \A x \in Entry \ {e} : r[x] = entering[x]
<1>1. entering \in [Entry -> Entries \cup {NoData}]
  BY DEF DrawsInv, DrawsType
<1>2. PICK q \in Entries : q = entering[e]
  BY <1>1
<1>3. [q EXCEPT !.at = at] \in Entries /\ [q EXCEPT !.at = at].at = at /\ [q EXCEPT !.at = at].n = q.n
  BY <1>2 DEF Entries
<1> QED BY <1>1, <1>2, <1>3

LEMMA Closing ==
  ASSUME DrawsInv, NEW e \in Entry, entering[e] # NoData, Closes(e)
  PROVE  /\ entering' \in [Entry -> Entries \cup {NoData}] /\ entering'[e] = NoData
         /\ \A x \in Entry : Same(x)
<1> DEFINE rest == [entering EXCEPT ![e] = NoData]
<1>1. /\ rest \in [Entry -> Entries \cup {NoData}] /\ rest[e] = NoData
      /\ \A x \in Entry : rest[x] = NoData \/ rest[x] = entering[x]
  BY DEF DrawsInv, DrawsType
<1>2. entering' = rest \/ entering' = Disown(rest)
  BY DEF Closes
<1> HIDE DEF rest
<1>3. CASE entering' = rest
  BY <1>1, <1>3 DEF Same
<1>4. CASE entering' = Disown(rest)
  BY <1>1, <1>4, DisownIsQuiet DEF Same
<1> QED BY <1>2, <1>3, <1>4

\* The person is told of an entry the server holds.
LEMMA Telling ==
  ASSUME DrawsInv, NEW e \in Entry, CountsFor(e), told' = told + entering[e].n,
         spentOnChain' \in {spentOnChain, spentOnChain + entering[e].n},
         Closes(e), UNCHANGED <<platform, verified, mine, afterBalance, settledAt, overlapped>>, PastStands
  PROVE  DrawsInv'
<1>1. /\ entering[e] # NoData /\ entering[e].n \in Nat /\ Untold[e] = entering[e].n
      /\ Untold \in [Entry -> Nat]
  BY UntoldIsCounted DEF DrawsInv, DrawsType, Entries, CountsFor, Is, Untold
<1>2. /\ entering' \in [Entry -> Entries \cup {NoData}] /\ entering'[e] = NoData
      /\ \A x \in Entry : Same(x)
  BY <1>1, Closing
<1>3. Quiet
  BY <1>2 DEF Quiet
<1>4. /\ Untold' \in [Entry -> Nat] /\ \A x \in Entry : Untold'[x] <= Untold[x]
      /\ EntriesFit' /\ EntriesAllowed'
  BY <1>3, QuietStep
<1>5. Untold'[e] = 0
  BY <1>2 DEF Untold, Is
<1>6. /\ SumFunction(Untold) \in Nat /\ SumFunction(Untold') \in Nat
      /\ SumFunction(Untold') <= SumFunction(Untold) + (-entering[e].n)
  <2>1. Untold'[e] <= Untold[e] + (-entering[e].n) /\ -entering[e].n \in Int
    BY <1>1, <1>5
  <2> QED BY <1>1, <1>4, <2>1, UntoldChanges
<1>7. /\ told \in Nat /\ mine \in Nat /\ spentOnChain \in Nat
      /\ told + SumFunction(Untold) <= mine /\ spentOnChain <= told /\ mine + afterBalance = Purse
  BY DEF DrawsInv, DrawsType, ScreensTypeOK, ToldOfEntries
<1>8. ToldOfEntries' /\ told' \in Nat /\ spentOnChain' \in Nat
  BY <1>1, <1>6, <1>7 DEF ToldOfEntries
<1>9. DrawsType'
  BY <1>2, <1>8 DEF DrawsInv, DrawsType, ScreensTypeOK, PastStands
<1> QED BY <1>4, <1>8, <1>9, PastHolds DEF DrawsInv

\* Steps that enter nobody and tell nobody.
LEMMA QuietHolds ==
  ASSUME DrawsInv, Quiet, UNCHANGED <<told, spentOnChain>>,
         settledAt' \in SUBSET Round, claiming' \in SUBSET Round, ClaimsShown',
         date' \in Round, DOMAIN history' = Round
  PROVE  DrawsInv'
<1>1. ToldOfEntries' /\ EntriesFit' /\ EntriesAllowed'
  BY QuietStep
<1>2. DrawsType'
  BY DEF DrawsInv, DrawsType, ScreensTypeOK, Quiet
<1> QED BY <1>1, <1>2 DEF DrawsInv

LEMMA StillIsQuiet ==
  ASSUME DrawsInv, UNCHANGED <<platform, verified, mine, afterBalance, entering, overlapped>>
  PROVE  Quiet
BY DEF DrawsInv, DrawsType, Quiet, Same

-----------------------------------------------------------------------------
(* Each of them. *)

LEMMA Checked ==
  ASSUME DrawsInv, NEW e \in Entry, CheckEntry(e)
  PROVE  DrawsInv'
<1> DEFINE n == entering[e].n
<1>1. /\ entering[e] # NoData /\ entering[e].at = "sent" /\ n \in Nat
      /\ UNCHANGED <<server, page, told, historyPage>>
  BY DEF CheckEntry, DrawsInv, DrawsType, Entries
<1>2. PastStands /\ UNCHANGED <<told, spentOnChain, settledAt, platform, verified, mine, afterBalance, date, history, claiming>>
  BY <1>1 DEF server, historyPage, PastStands
<1>3. claiming \in SUBSET Round /\ settledAt \in SUBSET Round /\ date \in Round /\ DOMAIN history = Round
  BY DEF DrawsInv, DrawsType, ScreensTypeOK
<1>4. overlapped' = (overlapped \/ \E x \in Entry \ {e} : Is(x, "checked"))
  BY DEF CheckEntry, Is
<1>5. CASE TurnedDown(n)
  <2>1. entering' = [entering EXCEPT ![e].at = "refused"]
    BY <1>5 DEF CheckEntry
  <2>2. /\ entering' \in [Entry -> Entries \cup {NoData}] /\ entering'[e].at = "refused"
        /\ \A x \in Entry \ {e} : entering'[x] = entering[x]
    BY <1>1, <2>1, EntryMoves DEF Stages
  <2>3. Quiet
    BY <1>2, <1>4, <2>2 DEF Quiet, Same
  <2> QED BY <1>2, <1>3, <2>3, PastHolds, QuietHolds
<1>6. CASE ~TurnedDown(n)
  <2>1. entering' = [entering EXCEPT ![e].at = "checked"]
    BY <1>6 DEF CheckEntry
  <2>2. /\ entering' \in [Entry -> Entries \cup {NoData}] /\ entering'[e].at = "checked" /\ entering'[e].n = n
        /\ \A x \in Entry \ {e} : entering'[x] = entering[x]
    BY <1>1, <2>1, EntryMoves DEF Stages
  <2>3. Untold' = Untold
    BY <1>1, <2>2 DEF Untold, Is
  <2>4. ToldOfEntries'
    BY <1>2, <2>3 DEF DrawsInv, ToldOfEntries
  <2>5. ~Gated /\ mine + n <= Limit /\ mine \in Nat
    BY <1>1, <1>6, ScreensAssumption DEF TurnedDown, DrawsInv, DrawsType, ScreensTypeOK
  <2>6. EntriesAllowed'
    BY <1>2, <2>5 DEF EntriesAllowed, Gated
  <2>7. EntriesFit'
    <3> SUFFICES ASSUME ~overlapped' PROVE EntriesFit'
      BY DEF EntriesFit
    <3>1. ~overlapped /\ \A x \in Entry \ {e} : ~Is(x, "checked")
      BY <1>4
    <3>2. \A x \in Entry : Is(x, "checked")' => x = e
      BY <2>2, <3>1 DEF Is
    <3> QED BY <1>1, <1>2, <2>2, <2>5, <3>1, <3>2, ScreensAssumption DEF EntriesFit
  <2>8. DrawsType'
    BY <1>2, <1>3, <2>2 DEF DrawsInv, DrawsType, ScreensTypeOK
  <2> QED BY <1>2, <2>4, <2>6, <2>7, <2>8, PastHolds DEF DrawsInv
<1> QED BY <1>5, <1>6

LEMMA Committed ==
  ASSUME DrawsInv, NEW e \in Entry, CommitEntry(e)
  PROVE  DrawsInv'
<1> DEFINE n == entering[e].n
<1>1. /\ entering[e] # NoData /\ entering[e].at = "checked" /\ Is(e, "checked") /\ n \in Nat
      /\ UNCHANGED <<platform, verified, settledAt, spentOnChain, page, told, historyPage, overlapped>>
  BY DEF CommitEntry, DrawsInv, DrawsType, Entries, Is
<1>2. PastStands /\ UNCHANGED <<told, spentOnChain, settledAt, platform, verified, date, history, claiming>>
  BY <1>1 DEF historyPage, PastStands
<1>3. claiming \in SUBSET Round /\ settledAt \in SUBSET Round /\ date \in Round /\ DOMAIN history = Round
  BY DEF DrawsInv, DrawsType, ScreensTypeOK
<1>4. CASE afterBalance < n
  <2>1. entering' = [entering EXCEPT ![e].at = "refused"] /\ UNCHANGED <<mine, afterBalance>>
    BY <1>4 DEF CommitEntry
  <2>2. /\ entering' \in [Entry -> Entries \cup {NoData}] /\ entering'[e].at = "refused"
        /\ \A x \in Entry \ {e} : entering'[x] = entering[x]
    BY <1>1, <2>1, EntryMoves DEF Stages
  <2>3. Quiet
    BY <1>1, <2>1, <2>2 DEF Quiet, Same
  <2> QED BY <1>2, <1>3, <2>3, PastHolds, QuietHolds
<1>5. CASE ~(afterBalance < n)
  <2>1. entering' = [entering EXCEPT ![e].at = "entered"] /\ mine' = mine + n /\ afterBalance' = afterBalance - n
    BY <1>5 DEF CommitEntry
  <2>2. /\ entering' \in [Entry -> Entries \cup {NoData}] /\ entering'[e].at = "entered" /\ entering'[e].n = n
        /\ \A x \in Entry \ {e} : entering'[x] = entering[x]
    BY <1>1, <2>1, EntryMoves DEF Stages
  <2>3. /\ Untold \in [Entry -> Nat] /\ Untold' \in [Entry -> Nat]
        /\ Untold'[e] <= Untold[e] + n /\ \A x \in Entry \ {e} : Untold'[x] <= Untold[x]
    <3>1. Untold \in [Entry -> Nat] /\ Untold[e] = 0
      BY <1>1, UntoldIsCounted DEF DrawsInv, Untold, Is
    <3>2. Untold'[e] \in {0, n} /\ \A x \in Entry \ {e} : Untold'[x] = Untold[x]
      BY <2>2 DEF Untold, Is
    <3>3. DOMAIN Untold' = Entry /\ Untold' = [x \in Entry |-> Untold'[x]]
      BY DEF Untold
    <3> QED BY <1>1, <3>1, <3>2, <3>3
  <2>4. /\ SumFunction(Untold) \in Nat /\ SumFunction(Untold') \in Nat
        /\ SumFunction(Untold') <= SumFunction(Untold) + n
    BY <1>1, <2>3, UntoldChanges
  <2>5. /\ told \in Nat /\ mine \in Nat /\ afterBalance \in Nat
        /\ told + SumFunction(Untold) <= mine /\ spentOnChain <= told /\ mine + afterBalance = Purse
    BY DEF DrawsInv, DrawsType, ScreensTypeOK, ToldOfEntries
  <2>6. ToldOfEntries' /\ mine' \in Nat /\ afterBalance' \in Nat
    BY <1>1, <1>2, <1>5, <2>1, <2>4, <2>5 DEF ToldOfEntries
  <2>7. EntriesAllowed'
    BY <1>1, <1>2 DEF DrawsInv, EntriesAllowed, Gated
  <2>8. EntriesFit'
    <3> SUFFICES ASSUME ~overlapped' PROVE EntriesFit'
      BY DEF EntriesFit
    <3>1. mine + n <= Limit /\ \A x \in Entry \ {e} : ~Is(x, "checked")
      BY <1>1 DEF DrawsInv, EntriesFit
    <3>2. \A x \in Entry : ~Is(x, "checked")'
      BY <2>2, <3>1 DEF Is
    <3> QED BY <2>1, <3>1, <3>2 DEF EntriesFit
  <2>9. DrawsType'
    BY <1>2, <1>3, <2>2, <2>6 DEF DrawsInv, DrawsType, ScreensTypeOK
  <2> QED BY <1>2, <2>6, <2>7, <2>8, <2>9, PastHolds DEF DrawsInv
<1> QED BY <1>4, <1>5

LEMMA AnswersHeard ==
  ASSUME DrawsInv, NEW e \in Entry,
         Entered(e) \/ NotEntered(e) \/ \E done \in BOOLEAN : SpendOnChain(e, done)
  PROVE  DrawsInv'
<1>1. claiming \in SUBSET Round /\ settledAt \in SUBSET Round /\ date \in Round /\ DOMAIN history = Round
  BY DEF DrawsInv, DrawsType, ScreensTypeOK
<1>2. CASE Entered(e) /\ platform = "celo"
  <2>1. /\ entering[e] # NoData /\ entering[e].at = "entered" /\ entering' = [entering EXCEPT ![e].at = "wallet"]
        /\ UNCHANGED <<server, page, told, historyPage, overlapped>>
    BY <1>2 DEF Entered
  <2>2. /\ entering' \in [Entry -> Entries \cup {NoData}] /\ entering'[e].at = "wallet" /\ entering'[e].n = entering[e].n
        /\ \A x \in Entry \ {e} : entering'[x] = entering[x]
    BY <2>1, EntryMoves DEF Stages
  <2>3. Quiet
    BY <2>1, <2>2 DEF Quiet, Same, server
  <2>4. PastStands /\ UNCHANGED <<told, spentOnChain, settledAt, date, history, claiming>>
    BY <2>1 DEF server, historyPage, PastStands
  <2> QED BY <1>1, <2>3, <2>4, PastHolds, QuietHolds
<1>3. CASE Entered(e) /\ platform # "celo"
  <2>1. /\ CountsFor(e) /\ told' = told + entering[e].n /\ Closes(e)
        /\ UNCHANGED <<server, page, historyPage, overlapped>>
    BY <1>3 DEF Entered, CountsFor, Is
  <2>2. PastStands /\ spentOnChain' = spentOnChain /\ UNCHANGED <<platform, verified, mine, afterBalance, settledAt, overlapped>>
    BY <2>1 DEF server, historyPage, PastStands
  <2> QED BY <2>1, <2>2, Telling
<1>4. CASE \E done \in BOOLEAN : SpendOnChain(e, done)
  <2>1. /\ CountsFor(e) /\ told' = told + entering[e].n /\ Closes(e)
        /\ spentOnChain' \in {spentOnChain, spentOnChain + entering[e].n}
        /\ UNCHANGED <<platform, verified, mine, afterBalance, settledAt, page, historyPage, overlapped>>
    BY <1>4 DEF SpendOnChain, CountsFor, Is
  <2>2. PastStands
    BY <2>1 DEF historyPage, PastStands
  <2> QED BY <2>1, <2>2, Telling
<1>5. CASE NotEntered(e)
  <2>1. /\ entering' = [entering EXCEPT ![e] = NoData]
        /\ UNCHANGED <<server, page, told, historyPage, overlapped>>
    BY <1>5 DEF NotEntered
  <2>2. entering \in [Entry -> Entries \cup {NoData}]
    BY DEF DrawsInv, DrawsType
  <2>3. Quiet
    BY <2>1, <2>2 DEF Quiet, Same, server
  <2>4. PastStands /\ UNCHANGED <<told, spentOnChain, settledAt, date, history, claiming>>
    BY <2>1 DEF server, historyPage, PastStands
  <2> QED BY <1>1, <2>3, <2>4, PastHolds, QuietHolds
<1> QED BY <1>2, <1>3, <1>4, <1>5

LEMMA SheetsMove ==
  ASSUME DrawsInv,
         \/ fetchPools \/ fetchPointStat \/ readStatus \/ handleRaffleEnter \/ handleEntrySheetClose
         \/ \E e \in Entry : \E n \in 1 .. Limit : Buy(e, n)
  PROVE  DrawsInv'
<1>1. claiming \in SUBSET Round /\ settledAt \in SUBSET Round /\ date \in Round /\ DOMAIN history = Round
  BY DEF DrawsInv, DrawsType, ScreensTypeOK
<1>2. /\ UNCHANGED <<told, spentOnChain, platform, verified, mine, afterBalance, settledAt, date, history, claiming, overlapped>>
      /\ PastStands
  BY DEF fetchPools, fetchPointStat, readStatus, handleRaffleEnter, handleEntrySheetClose, Buy,
         server, historyPage, PastStands
<1>3. entering \in [Entry -> Entries \cup {NoData}]
  BY DEF DrawsInv, DrawsType
<1>4. Quiet
  <2>1. CASE fetchPools \/ fetchPointStat \/ readStatus \/ handleRaffleEnter
    <3>1. entering' = entering
      BY <2>1 DEF fetchPools, fetchPointStat, readStatus, handleRaffleEnter
    <3> QED BY <1>2, <3>1, StillIsQuiet
  <2>2. CASE handleEntrySheetClose
    <3>1. entering' = Disown(entering)
      BY <2>2 DEF handleEntrySheetClose
    <3> QED BY <1>2, <1>3, <3>1, DisownIsQuiet DEF Quiet, Same
  <2>3. CASE \E e \in Entry : \E n \in 1 .. Limit : Buy(e, n)
    <3>1. PICK e \in Entry, n \in 1 .. Limit : Buy(e, n)
      BY <2>3
    <3> DEFINE new == [at |-> "sent", n |-> n, mounted |-> TRUE, own |-> TRUE]
    <3>2. new \in Entries /\ new.at = "sent" /\ entering' = [entering EXCEPT ![e] = new]
      BY <3>1, ScreensAssumption DEF Buy, Entries, Stages
    <3> HIDE DEF new
    <3>3. /\ entering' \in [Entry -> Entries \cup {NoData}] /\ entering'[e].at = "sent"
          /\ \A x \in Entry \ {e} : entering'[x] = entering[x]
      BY <1>3, <3>2
    <3> QED BY <1>2, <3>3 DEF Quiet, Same
  <2> QED BY <2>1, <2>2, <2>3
<1> QED BY <1>1, <1>2, <1>4, PastHolds, QuietHolds

LEMMA HistoryMoves ==
  ASSUME DrawsInv,
         \/ startClaim \/ CloseRound
         \/ \E d \in Round : ReadHistory(d) \/ HistoryArrives(d) \/ SelectDate(d) \/ Settle(d)
         \/ \E to \in {"draws", "history", "elsewhere"} : Go(to)
  PROVE  DrawsInv'
<1>1. claiming \in SUBSET Round /\ settledAt \in SUBSET Round /\ date \in Round /\ DOMAIN history = Round
  BY DEF DrawsInv, DrawsType, ScreensTypeOK
<1>2. UNCHANGED <<told, spentOnChain, platform, verified, mine, afterBalance, overlapped>>
  BY DEF startClaim, CloseRound, ReadHistory, HistoryArrives, SelectDate, Settle, Go, server, drawsPage
<1>3. entering \in [Entry -> Entries \cup {NoData}]
  BY DEF DrawsInv, DrawsType
<1>4. CASE \E to \in {"draws", "history", "elsewhere"} : Go(to)
  <2>1. /\ entering' = [e \in Entry |-> IF entering[e] = NoData THEN NoData
                                        ELSE [entering[e] EXCEPT !.mounted = FALSE, !.own = FALSE]]
        /\ claiming' = {} /\ UNCHANGED <<settledAt, date, history>>
    BY <1>4 DEF Go, server
  <2>2. ASSUME NEW e \in Entry, entering[e] # NoData
        PROVE  LET s == [entering[e] EXCEPT !.mounted = FALSE, !.own = FALSE] IN
                   s \in Entries /\ s.at = entering[e].at /\ s.n = entering[e].n
    <3>1. PICK q \in Entries : q = entering[e]
      BY <1>3, <2>2
    <3> QED BY <3>1 DEF Entries
  <2>3. Quiet
    BY <1>2, <2>1, <2>2 DEF Quiet, Same
  <2>4. ClaimsShown'
    BY <2>1 DEF ClaimsShown
  <2> QED BY <1>1, <1>2, <2>1, <2>3, <2>4, QuietHolds
<1>5. CASE CloseRound \/ \E d \in Round : ReadHistory(d) \/ Settle(d)
  <2>1. /\ UNCHANGED <<page, date, history, claiming, entering>> /\ settledAt' \in SUBSET Round
    BY <1>1, <1>5 DEF CloseRound, ReadHistory, Settle, server, drawsPage, historyPage
  <2> QED BY <1>1, <1>2, <2>1, StillIsQuiet, PastHolds, QuietHolds DEF PastStands
<1>6. CASE \E d \in Round : SelectDate(d)
  <2>1. claiming' = {} /\ date' \in Round /\ UNCHANGED <<history, settledAt, entering>>
    BY <1>6 DEF SelectDate, InFlightAfter, server, drawsPage
  <2>2. ClaimsShown'
    BY <2>1 DEF ClaimsShown
  <2> QED BY <1>1, <1>2, <2>1, <2>2, StillIsQuiet, QuietHolds
<1>7. CASE startClaim
  <2>1. /\ page = "history" /\ history[date] # NoData /\ ~history[date].settled
        /\ claiming' = claiming \cup {date} /\ UNCHANGED <<page, date, history, settledAt, entering>>
    BY <1>7 DEF startClaim, server, drawsPage
  <2>2. ClaimsShown'
    BY <2>1 DEF DrawsInv, ClaimsShown
  <2> QED BY <1>1, <1>2, <2>1, <2>2, StillIsQuiet, QuietHolds
<1>8. CASE \E d \in Round : HistoryArrives(d)
  <2>1. PICK d \in Round : HistoryArrives(d)
    BY <1>8
  <2>2. /\ reading[d] # NoData /\ history' = [history EXCEPT ![d] = reading[d]]
        /\ claiming' = {x \in claiming : history'[x] = NoData \/ ~history'[x].settled}
        /\ UNCHANGED <<page, date, settledAt, entering>>
    BY <2>1 DEF HistoryArrives, WithoutSettled, server, drawsPage
  <2>3. DOMAIN history' = Round /\ history'[d] # NoData /\ \A x \in Round \ {d} : history'[x] = history[x]
    BY <1>1, <2>2
  <2>4. ASSUME NEW x \in claiming' PROVE page' = "history" /\ x = date' /\ history'[x] # NoData /\ ~history'[x].settled
    <3>1. x \in claiming /\ x \in Round
      BY <1>1, <2>2
    <3>2. page = "history" /\ x = date /\ history[x] # NoData
      BY <3>1 DEF DrawsInv, ClaimsShown
    <3>3. history'[x] # NoData
      BY <2>3, <3>1, <3>2
    <3> QED BY <2>2, <3>2, <3>3
  <2>5. ClaimsShown' /\ claiming' \in SUBSET Round
    BY <1>1, <2>2, <2>4 DEF ClaimsShown
  <2> QED BY <1>1, <1>2, <2>2, <2>3, <2>5, StillIsQuiet, QuietHolds
<1> QED BY <1>4, <1>5, <1>6, <1>7, <1>8

LEMMA DrawsKept == DrawsInv /\ [ScreensNext]_raffleScreenVars => DrawsInv'
<1> SUFFICES ASSUME DrawsInv, [ScreensNext]_raffleScreenVars PROVE DrawsInv'
  OBVIOUS
<1>1. CASE UNCHANGED raffleScreenVars
  <2>1. /\ UNCHANGED <<told, spentOnChain, platform, verified, mine, afterBalance, settledAt, date, history,
                       claiming, overlapped, entering, page>>
    BY <1>1 DEF raffleScreenVars, server, drawsPage, historyPage
  <2>2. claiming \in SUBSET Round /\ settledAt \in SUBSET Round /\ date \in Round /\ DOMAIN history = Round
    BY DEF DrawsInv, DrawsType, ScreensTypeOK
  <2> QED BY <2>1, <2>2, StillIsQuiet, PastHolds, QuietHolds DEF PastStands
<1>2. CASE ScreensNext
  <2>1. ASSUME NEW e \in Entry, CheckEntry(e) PROVE DrawsInv'
    BY <2>1, Checked
  <2>2. ASSUME NEW e \in Entry, CommitEntry(e) PROVE DrawsInv'
    BY <2>2, Committed
  <2>3. ASSUME NEW e \in Entry, Entered(e) \/ NotEntered(e) \/ \E done \in BOOLEAN : SpendOnChain(e, done)
        PROVE  DrawsInv'
    BY <2>3, AnswersHeard
  <2> QED BY <1>2, <2>1, <2>2, <2>3, SheetsMove, HistoryMoves DEF ScreensNext
<1> QED BY <1>1, <1>2

(* RaffleEntrySheet.tsx, RaffleHistory.tsx and raffle.ts: for any number of*)
(* entries under way, any limit, points and past rounds, and whatever is   *)
(* lost, closed or left: nobody is told of, or burns points on chain for,  *)
(* an entry the server does not hold; entries that did not overlap stay    *)
(* within the limit and behind the mailbox; and only the round on the      *)
(* screen is asked for again, until its prize shows settled.               *)
THEOREM EntriesAndClaimsHold == DrawsSpec => []EntriesAndClaimsAreTrue
<1>1. ScreensInit => DrawsInv
  BY DrawsStart
<1>2. DrawsInv /\ [ScreensNext]_raffleScreenVars => DrawsInv'
  BY DrawsKept
<1>3. DrawsInv => EntriesAndClaimsAreTrue
  <2> SUFFICES ASSUME DrawsInv PROVE EntriesAndClaimsAreTrue
    OBVIOUS
  <2>1. told <= mine
    <3>1. SumFunction(Untold) \in Nat
      BY UntoldIsCounted, UntoldChanges DEF DrawsInv
    <3> QED BY <3>1 DEF DrawsInv, DrawsType, ScreensTypeOK, ToldOfEntries
  <2>2. spentOnChain <= told /\ mine + afterBalance = Purse /\ (~overlapped => mine <= Limit)
    BY DEF DrawsInv, ToldOfEntries, EntriesFit
  <2>3. mine > 0 /\ platform = "celo" => verified
    BY DEF DrawsInv, EntriesAllowed, Gated
  <2> QED BY <2>1, <2>2, <2>3 DEF EntriesAndClaimsAreTrue, DrawsInv, ClaimsShown
<1> QED BY <1>1, <1>2, <1>3, PTL DEF DrawsSpec

-----------------------------------------------------------------------------
(* The scripts of the claim contract.  Types; a script at work knows whose *)
(* proxy it makes, and with whose keys.                                    *)

Steps == {"none", "deploys", "built", "created", "deployed", "upgrades", "ready", "switched", "upgraded"}
Changed == {"created", "deployed", "switched", "upgraded"}
Proxies == [implementation : Nat, owner : Deployer, signer : Signer]
Scripts == [pc : Steps, of : Nat, implementation : Nat, owner : Deployer \cup {0}, signer : Signer \cup {0}]

DeployType ==
    /\ built \in Nat /\ orderly \in BOOLEAN
    /\ proxy \in Seq(Proxies) /\ ran \in Seq(Seq(Nat)) /\ Len(ran) = Len(proxy)
    /\ script \in [Deployer -> Scripts]

(* A proxy runs what it was last switched to, and that has been built.     *)
HasRun(p, i) == \E k \in 1 .. Len(ran[p]) : ran[p][k] = i
ChainInOrder ==
    \A p \in 1 .. Len(proxy) : proxy[p].implementation \in 1 .. built /\ Len(ran[p]) > 0

(* What a script goes by: it has built what it is about to use, made or    *)
(* found its proxy, and has set that proxy to run what it will put on file.*)
Knows(d) ==
    LET s == script[d] IN
    /\ s.pc \in {"deploys", "built"} => s.owner \in Deployer /\ s.signer \in Signer
    /\ s.pc \in {"built", "ready"} => s.implementation \in 1 .. built
    /\ s.pc \in {"upgrades", "ready"} \cup Changed => s.of \in 1 .. Len(proxy)
    /\ s.pc \in Changed => HasRun(s.of, s.implementation)

(* While scripts came one after another: the file is as the proxy is, but  *)
(* for what the one at work has changed and has yet to write down.         *)
OnFile(p) == record # NoRecord /\ record.proxy = p
Current ==
    record # NoRecord =>
        /\ record.implementation = proxy[record.proxy].implementation
        /\ record.upgrades = Tail(ran[record.proxy])
FitsFile(d) ==
    LET s == script[d] IN
    /\ s.pc \in {"upgrades", "ready", "switched", "upgraded"} => OnFile(s.of)
    /\ s.pc \in Changed => proxy[s.of].implementation = s.implementation
    /\ s.pc \in {"created", "deployed"} => ran[s.of] = <<s.implementation>>
    /\ s.pc \in {"switched", "upgraded"} => Tail(ran[s.of]) = Append(record.upgrades, s.implementation)
Orderly ==
    orderly =>
        /\ \A d, e \in Deployer : script[d].pc # "none" /\ script[e].pc # "none" => d = e
        /\ (\A d \in Deployer : script[d].pc \notin Changed) => Current
        /\ \A d \in Deployer : FitsFile(d)

RecordStands == record # NoRecord => record.proxy \in 1 .. Len(proxy) /\ HasRun(record.proxy, record.implementation)

DeployInv == DeployType /\ ChainInOrder /\ (\A d \in Deployer : Knows(d)) /\ RecordStands /\ Orderly

LEMMA DeployStarts == DeploymentInit => DeployInv
<1> SUFFICES ASSUME DeploymentInit PROVE DeployInv
  OBVIOUS
<1>1. Resting \in Scripts
  BY DEF Resting, Scripts, Steps
<1>2. DeployType
  BY <1>1 DEF DeploymentInit, DeployType
<1>3. \A d \in Deployer : script[d].pc = "none"
  BY DEF DeploymentInit, Resting
<1>4. Len(proxy) = 0 /\ record = NoRecord
  BY DEF DeploymentInit
<1>5. ChainInOrder /\ RecordStands
  BY <1>4 DEF ChainInOrder, RecordStands
<1>6. \A d \in Deployer : Knows(d)
  BY <1>3 DEF Knows, Changed
<1>7. Orderly
  BY <1>3, <1>4 DEF Orderly, FitsFile, Changed, Current
<1> QED BY <1>2, <1>5, <1>6, <1>7 DEF DeployInv

(* A step of one script leaves the others where they are.                  *)
LEMMA ScriptMoves ==
  ASSUME DeployType, NEW d \in Deployer, NEW s \in Scripts, script' = [script EXCEPT ![d] = s]
  PROVE  /\ script' \in [Deployer -> Scripts]
         /\ script'[d] = s /\ \A e \in Deployer \ {d} : script'[e] = script[e]
BY DEF DeployType

(* The chain stands, and a script goes on or stops without writing.        *)
LEMMA ChainStands ==
  ASSUME DeployInv, NEW d \in Deployer, NEW s \in Scripts, script' = [script EXCEPT ![d] = s],
         UNCHANGED <<proxy, ran, record>>, built' \in {built, built + 1}, orderly' \in BOOLEAN, orderly' => orderly,
         s.pc \in {"deploys", "built"} => s.owner \in Deployer /\ s.signer \in Signer,
         s.pc \in {"built", "ready"} => s.implementation \in 1 .. built',
         s.pc \in {"upgrades", "ready"} \cup Changed => s.of \in 1 .. Len(proxy),
         s.pc \in Changed => /\ script[d].pc \in Changed /\ s.of = script[d].of /\ s.implementation = script[d].implementation
                             /\ s.pc \in {"created", "deployed"} <=> script[d].pc \in {"created", "deployed"},
         orderly' /\ s.pc # "none" => \A e \in Deployer \ {d} : script[e].pc = "none",
         orderly' /\ s.pc \notin Changed => script[d].pc \notin Changed,
         orderly' /\ s.pc \in {"upgrades", "ready"} => OnFile(s.of)
  PROVE  DeployInv'
<1>1. script' \in [Deployer -> Scripts] /\ script'[d] = s /\ \A e \in Deployer \ {d} : script'[e] = script[e]
  BY ScriptMoves DEF DeployInv
<1>2. DeployType /\ built \in Nat
  BY DEF DeployInv, DeployType
<1>3. DeployType'
  BY <1>1, <1>2 DEF DeployType
<1>4. built <= built'
  BY <1>2
<1>5. \A p, i : HasRun(p, i)' = HasRun(p, i) /\ OnFile(p)' = OnFile(p)
  BY DEF HasRun, OnFile
<1>6. \A p \in 1 .. Len(proxy) : proxy[p].implementation \in Nat
  <2>1. \A p \in 1 .. Len(proxy) : proxy[p] \in Proxies
    BY <1>2 DEF DeployType
  <2> QED BY <2>1 DEF Proxies
<1>7. ChainInOrder' /\ RecordStands'
  BY <1>2, <1>4, <1>5, <1>6 DEF DeployInv, ChainInOrder, RecordStands
<1>8. ASSUME NEW e \in Deployer PROVE Knows(e)'
  <2>1. CASE e = d
    <3>1. Knows(d)
      BY DEF DeployInv
    <3> QED BY <1>1, <1>5, <2>1, <3>1 DEF Knows
  <2>2. CASE e # d
    <3>1. Knows(e) /\ script'[e] = script[e]
      BY <1>1, <2>2 DEF DeployInv
    <3>2. script[e].implementation \in Nat
      <4>1. script[e] \in Scripts
        BY <1>2 DEF DeployType
      <4> QED BY <4>1 DEF Scripts
    <3> QED BY <1>2, <1>4, <1>5, <3>1, <3>2 DEF Knows
  <2> QED BY <2>1, <2>2
<1>9. Orderly'
  <2> SUFFICES ASSUME orderly' PROVE Orderly'
    BY DEF Orderly
  <2>1. /\ orderly
        /\ \A x, y \in Deployer : script[x].pc # "none" /\ script[y].pc # "none" => x = y
        /\ (\A x \in Deployer : script[x].pc \notin Changed) => Current
        /\ \A x \in Deployer : FitsFile(x)
    BY DEF DeployInv, Orderly
  <2>2. \A x, y \in Deployer : script'[x].pc # "none" /\ script'[y].pc # "none" => x = y
    BY <1>1, <2>1
  <2>3. Current' = Current
    BY DEF Current
  <2>4. (\A x \in Deployer : script'[x].pc \notin Changed) => Current'
    BY <1>1, <2>1, <2>3
  <2>5. ASSUME NEW x \in Deployer PROVE FitsFile(x)'
    <3>1. CASE x = d
      <4>1. FitsFile(d)
        BY <2>1
      <4> QED BY <1>1, <1>5, <3>1, <4>1 DEF FitsFile, Changed
    <3>2. CASE x # d
      <4>1. FitsFile(x) /\ script'[x] = script[x]
        BY <1>1, <2>1, <3>2
      <4> QED BY <1>5, <4>1 DEF FitsFile
    <3> QED BY <3>1, <3>2
  <2> QED BY <2>2, <2>4, <2>5 DEF Orderly
<1> QED BY <1>3, <1>7, <1>8, <1>9 DEF DeployInv

(* Scripts begin, build, read back what stands, and stop.                  *)
LEMMA ScriptsGoOn ==
  ASSUME DeployInv, NEW d \in Deployer,
         \/ BeginDeploy(d) \/ Build(d, "deploys", "built") \/ ReadBackDeployed(d)
         \/ BeginUpgrade(d) \/ Build(d, "upgrades", "ready") \/ ReadBackUpgraded(d) \/ Interrupted(d)
  PROVE  DeployInv'
<1> DEFINE s == script[d]
<1>1. /\ s \in Scripts /\ built \in Nat /\ orderly \in BOOLEAN /\ Knows(d) /\ DeployType
      /\ script \in [Deployer -> Scripts] /\ proxy \in Seq(Proxies)
  BY DEF DeployInv, DeployType
<1>2. s.pc \in Steps /\ s.of \in Nat /\ s.implementation \in Nat
  <2> HIDE DEF s
  <2> QED BY <1>1 DEF Scripts
<1>3. Resting \in Scripts /\ Resting.pc = "none"
  BY DEF Resting, Scripts, Steps
<1>4. orderly /\ s.pc # "none" => \A e \in Deployer \ {d} : script[e].pc = "none"
  BY DEF DeployInv, Orderly
<1>5. orderly /\ s.pc \in {"upgrades", "ready", "switched", "upgraded"} => OnFile(s.of)
  BY DEF DeployInv, Orderly, FitsFile
<1>6. CASE BeginDeploy(d)
  <2>1. PICK o \in Deployer, k \in Signer : script' = [script EXCEPT ![d] = [Resting EXCEPT !.pc = "deploys", !.owner = o, !.signer = k]]
    BY <1>6 DEF BeginDeploy
  <2> DEFINE n == [Resting EXCEPT !.pc = "deploys", !.owner = o, !.signer = k]
  <2>2. n \in Scripts /\ n.pc = "deploys" /\ n.owner = o /\ n.signer = k
    BY DEF Resting, Scripts, Steps
  <2>3. /\ UNCHANGED <<proxy, ran, record, built>> /\ s.pc = "none"
        /\ orderly' = (orderly /\ \A e \in Deployer \ {d} : script[e].pc = "none")
    BY <1>6 DEF BeginDeploy, Starts, Reached, Alone
  <2> HIDE DEF n, s
  <2>4. /\ script' = [script EXCEPT ![d] = n] /\ orderly' \in BOOLEAN /\ (orderly' => orderly)
        /\ (orderly' => \A e \in Deployer \ {d} : script[e].pc = "none")
    BY <1>1, <2>1, <2>3 DEF n
  <2> QED BY <2>2, <2>3, <2>4, ChainStands DEF Changed, s
<1>7. ASSUME NEW from, NEW to, Build(d, from, to), <<from, to>> \in {<<"deploys", "built">>, <<"upgrades", "ready">>}
      PROVE  DeployInv'
  <2> DEFINE n == [s EXCEPT !.pc = to, !.implementation = built + 1]
  <2>1. script' = [script EXCEPT ![d].pc = to, ![d].implementation = built + 1]
    BY <1>7 DEF Build
  <2>2. script' = [script EXCEPT ![d] = n]
    BY <1>1, <2>1
  <2>3. UNCHANGED <<proxy, ran, record, orderly>> /\ s.pc = from /\ built' = built + 1
    BY <1>7 DEF Build, Reached
  <2> HIDE DEF s
  <2>4. n \in Scripts /\ n.pc = to /\ n.implementation = built + 1 /\ n.owner = s.owner /\ n.signer = s.signer /\ n.of = s.of
    <3>1. s \in Scripts /\ to \in {"built", "ready"} /\ built + 1 \in Nat
      BY <1>1, <1>7
    <3> QED BY <3>1 DEF Scripts, Steps
  <2> HIDE DEF n
  <2>5. /\ n.pc \in {"deploys", "built"} => n.owner \in Deployer /\ n.signer \in Signer
        /\ n.pc = "ready" => n.of \in 1 .. Len(proxy)
    BY <1>1, <1>7, <2>3, <2>4 DEF Knows, s
  <2>6. n.pc \notin Changed /\ s.pc \notin Changed /\ n.implementation \in 1 .. built' /\ n.pc # "upgrades"
    BY <1>1, <1>7, <2>3, <2>4 DEF Changed
  <2>7. orderly' => (\A e \in Deployer \ {d} : script[e].pc = "none") /\ (n.pc = "ready" => OnFile(n.of))
    BY <1>4, <1>5, <1>7, <2>3, <2>4
  <2> QED BY <1>1, <2>2, <2>3, <2>4, <2>5, <2>6, <2>7, ChainStands DEF s
<1>8. ASSUME script' = [script EXCEPT ![d] = Resting], UNCHANGED <<proxy, ran, record, built>>, orderly' \in BOOLEAN,
             orderly' => orderly /\ s.pc \notin Changed
      PROVE  DeployInv'
  BY <1>1, <1>3, <1>8, ChainStands DEF Changed
<1>9. ASSUME NEW n \in Scripts, script' = [script EXCEPT ![d] = n], UNCHANGED <<proxy, ran, record, built, orderly>>,
             <<s.pc, n.pc>> \in {<<"created", "deployed">>, <<"switched", "upgraded">>},
             n.of = s.of, n.implementation = s.implementation
      PROVE  DeployInv'
  <2> HIDE DEF s
  <2>1. n.pc \in Changed /\ n.pc \notin {"none", "deploys", "built", "ready", "upgrades"} /\ s.pc \in Changed /\ s.pc # "none"
    BY <1>9 DEF Changed
  <2>2. n.pc \in {"created", "deployed"} <=> s.pc \in {"created", "deployed"}
    BY <1>9
  <2>3. n.of \in 1 .. Len(proxy)
    BY <1>1, <1>9, <2>1 DEF Knows, s
  <2> QED BY <1>1, <1>4, <1>9, <2>1, <2>2, <2>3, ChainStands DEF s
<1>10. CASE ReadBackDeployed(d)
  <2>1. s.pc = "created" /\ UNCHANGED <<built, proxy, ran, record>>
    BY <1>10 DEF ReadBackDeployed, Reached
  <2>2. CASE script' = [script EXCEPT ![d].pc = "deployed"] /\ UNCHANGED orderly
    <3> DEFINE n == [s EXCEPT !.pc = "deployed"]
    <3>1. script' = [script EXCEPT ![d] = n]
      BY <1>1, <2>2
    <3>2. n \in Scripts /\ n.pc = "deployed" /\ n.of = s.of /\ n.implementation = s.implementation
      <4> HIDE DEF s
      <4> QED BY <1>1 DEF Scripts, Steps
    <3> QED BY <1>9, <2>1, <2>2, <3>1, <3>2
  <2>3. CASE Stopped(d) /\ orderly' = FALSE
    BY <1>8, <2>1, <2>3 DEF Stopped
  <2> QED BY <1>10, <2>2, <2>3 DEF ReadBackDeployed
<1>11. CASE ReadBackUpgraded(d)
  <2>1. s.pc = "switched" /\ UNCHANGED <<built, proxy, ran, record>>
    BY <1>11 DEF ReadBackUpgraded, Reached
  <2>2. CASE OwnerStands(d)
    <3> DEFINE k == proxy[s.of].signer
               n == [s EXCEPT !.pc = "upgraded", !.signer = k]
    <3>1. script' = [script EXCEPT ![d].pc = "upgraded", ![d].signer = k] /\ UNCHANGED orderly
      BY <1>11, <2>2 DEF ReadBackUpgraded
    <3>2. script' = [script EXCEPT ![d] = n]
      BY <1>1, <3>1
    <3>3. k \in Signer
      <4>1. s.of \in 1 .. Len(proxy)
        BY <1>1, <2>1 DEF Knows, Changed
      <4>2. proxy[s.of] \in Proxies
        BY <1>1, <4>1
      <4> QED BY <4>2 DEF Proxies
    <3>4. n \in Scripts /\ n.pc = "upgraded" /\ n.of = s.of /\ n.implementation = s.implementation
      <4> HIDE DEF s, k
      <4> QED BY <1>1, <3>3 DEF Scripts, Steps
    <3> QED BY <1>9, <2>1, <3>1, <3>2, <3>4
  <2>3. CASE ~ OwnerStands(d)
    BY <1>8, <1>11, <2>1, <2>3 DEF ReadBackUpgraded, Stopped
  <2> QED BY <2>2, <2>3
<1>12. CASE BeginUpgrade(d)
  <2>1. PICK p \in DOMAIN proxy :
            /\ script' = [script EXCEPT ![d] = [Resting EXCEPT !.pc = "upgrades", !.of = p, !.owner = d]]
            /\ orderly' = (orderly /\ Alone(d) /\ p \in Named)
    BY <1>12 DEF BeginUpgrade
  <2>0. p \in 1 .. Len(proxy) /\ p \in Nat
    BY <1>1
  <2> DEFINE n == [Resting EXCEPT !.pc = "upgrades", !.of = p, !.owner = d]
  <2>2. n \in Scripts /\ n.pc = "upgrades" /\ n.of = p
    BY <2>0 DEF Resting, Scripts, Steps
  <2>3. UNCHANGED <<proxy, ran, record, built>> /\ s.pc = "none"
    BY <1>12 DEF BeginUpgrade, Starts, Reached
  <2> HIDE DEF n, s
  <2>4. /\ script' = [script EXCEPT ![d] = n] /\ orderly' \in BOOLEAN /\ (orderly' => orderly)
        /\ (orderly' => OnFile(p) /\ \A e \in Deployer \ {d} : script[e].pc = "none")
    BY <1>1, <2>1, <2>3 DEF n, Named, OnFile, Alone, Reached
  <2> QED BY <2>0, <2>2, <2>3, <2>4, ChainStands DEF Changed, s
<1>13. CASE Interrupted(d)
  <2>1. script' = [script EXCEPT ![d] = Resting] /\ UNCHANGED <<proxy, ran, record, built>>
    BY <1>13 DEF Interrupted, Stopped
  <2>2. orderly' = (orderly /\ s.pc \notin Changed)
    BY <1>13 DEF Interrupted, Changed
  <2> QED BY <1>1, <1>8, <2>1, <2>2
<1> QED BY <1>6, <1>7, <1>10, <1>11, <1>12, <1>13

LEMMA SequencesGrow ==
  ASSUME NEW S, NEW q \in Seq(S), NEW x \in S
  PROVE  /\ Append(q, x) \in Seq(S) /\ Len(Append(q, x)) = Len(q) + 1 /\ Append(q, x)[Len(q) + 1] = x
         /\ \A i \in 1 .. Len(q) : Append(q, x)[i] = q[i]
         /\ Len(q) > 0 => Tail(Append(q, x)) = Append(Tail(q), x)
OBVIOUS

(* A new proxy.                                                            *)
LEMMA ProxyCreated ==
  ASSUME DeployInv, NEW d \in Deployer, CreateProxy(d)
  PROVE  DeployInv'
<1> DEFINE s == script[d]
<1> SUFFICES ASSUME NEW n \in Nat, n = Len(proxy), NEW v, v = s.implementation PROVE DeployInv'
  BY DEF DeployInv, DeployType
<1>1. /\ s \in Scripts /\ built \in Nat /\ orderly \in BOOLEAN /\ Knows(d) /\ DeployType
      /\ script \in [Deployer -> Scripts] /\ proxy \in Seq(Proxies) /\ ran \in Seq(Seq(Nat)) /\ Len(ran) = n
  BY DEF DeployInv, DeployType
<1>2. s.pc = "built" /\ UNCHANGED <<built, record, orderly>>
  BY DEF CreateProxy, Reached
<1>3. v \in 1 .. built /\ s.owner \in Deployer /\ s.signer \in Signer /\ v \in Nat
  BY <1>1, <1>2 DEF Knows
<1> DEFINE new == [s EXCEPT !.pc = "created", !.of = n + 1]
           p == [implementation |-> v, owner |-> s.owner, signer |-> s.signer]
<1>4. proxy' = Append(proxy, p) /\ ran' = Append(ran, <<v>>)
  BY DEF CreateProxy, Initialised
<1>5. script' = [script EXCEPT ![d] = new]
  <2>1. script' = [script EXCEPT ![d].pc = "created", ![d].of = n + 1]
    BY DEF CreateProxy
  <2> QED BY <1>1, <2>1
<1>6. p \in Proxies /\ p.implementation = v /\ <<v>> \in Seq(Nat) /\ Len(<<v>>) = 1 /\ <<v>>[1] = v
  BY <1>3 DEF Proxies
<1>7. new \in Scripts /\ new.pc = "created" /\ new.of = n + 1 /\ new.implementation = v
  <2>1. s \in Scripts /\ s.implementation = v /\ n + 1 \in Nat
    BY <1>1
  <2> HIDE DEF s
  <2> QED BY <2>1 DEF Scripts, Steps
<1> HIDE DEF new, p
<1>8. /\ proxy' \in Seq(Proxies) /\ Len(proxy') = n + 1 /\ proxy'[n + 1] = p
      /\ \A i \in 1 .. n : proxy'[i] = proxy[i]
  BY <1>1, <1>4, <1>6, SequencesGrow
<1>9. /\ ran' \in Seq(Seq(Nat)) /\ Len(ran') = n + 1 /\ ran'[n + 1] = <<v>>
      /\ \A i \in 1 .. n : ran'[i] = ran[i]
  BY <1>1, <1>4, <1>6, SequencesGrow
<1>10. script' \in [Deployer -> Scripts] /\ script'[d] = new /\ \A e \in Deployer \ {d} : script'[e] = script[e]
  BY <1>1, <1>5, <1>7, ScriptMoves
<1>11. DeployType'
  BY <1>1, <1>2, <1>8, <1>9, <1>10 DEF DeployType
<1>12. \A i \in 1 .. n : \A k : HasRun(i, k)' = HasRun(i, k)
  BY <1>9 DEF HasRun
<1>13. HasRun(n + 1, v)'
  BY <1>6, <1>9 DEF HasRun
<1>14. ChainInOrder'
  <2> SUFFICES ASSUME NEW i \in 1 .. n + 1 PROVE proxy'[i].implementation \in 1 .. built /\ Len(ran'[i]) > 0
    BY <1>2, <1>8 DEF ChainInOrder
  <2>1. CASE i = n + 1
    <3>1. proxy'[i].implementation = v /\ ran'[i] = <<v>>
      BY <1>6, <1>8, <1>9, <2>1
    <3> QED BY <1>3, <1>6, <3>1
  <2>2. CASE i \in 1 .. n
    BY <1>8, <1>9, <2>2 DEF DeployInv, ChainInOrder
  <2> QED BY <2>1, <2>2
<1>15. RecordStands'
  BY <1>2, <1>8, <1>12 DEF DeployInv, RecordStands
<1>16. ASSUME NEW e \in Deployer PROVE Knows(e)'
  <2>1. CASE e = d
    BY <1>7, <1>8, <1>10, <1>13, <2>1 DEF Knows, Changed
  <2>2. CASE e # d
    <3>1. Knows(e) /\ script'[e] = script[e]
      BY <1>10, <2>2 DEF DeployInv
    <3> QED BY <1>2, <1>8, <1>12, <3>1 DEF Knows
  <2> QED BY <2>1, <2>2
<1>17. Orderly'
  <2> SUFFICES ASSUME orderly' PROVE Orderly'
    BY DEF Orderly
  <2>1. \A e \in Deployer \ {d} : script'[e].pc = "none"
    BY <1>2, <1>10 DEF DeployInv, Orderly
  <2>2. \E e \in Deployer : script'[e].pc \in Changed
    BY <1>7, <1>10 DEF Changed
  <2> QED BY <1>6, <1>7, <1>8, <1>9, <1>10, <2>1, <2>2 DEF Orderly, FitsFile, Changed
<1> QED BY <1>11, <1>14, <1>15, <1>16, <1>17 DEF DeployInv

(* An entry of a list is another.                                          *)
LEMMA EntryChanged ==
  ASSUME NEW S, NEW q \in Seq(S), NEW i \in 1 .. Len(q), NEW x \in S, NEW w, w = [q EXCEPT ![i] = x]
  PROVE  w \in Seq(S) /\ Len(w) = Len(q) /\ w[i] = x /\ \A j \in 1 .. Len(q) \ {i} : w[j] = q[j]
BY ExceptSeq

(* The proxy is switched over, by its owner.                               *)
LEMMA ProxySwitched ==
  ASSUME DeployInv, NEW d \in Deployer, SwitchOver(d)
  PROVE  DeployInv'
<1> DEFINE s == script[d]
<1> SUFFICES ASSUME NEW n \in Nat, n = Len(proxy), NEW v, v = s.implementation, NEW i, i = s.of PROVE DeployInv'
  BY DEF DeployInv, DeployType
<1>1. /\ s \in Scripts /\ built \in Nat /\ orderly \in BOOLEAN /\ Knows(d) /\ DeployType
      /\ script \in [Deployer -> Scripts] /\ proxy \in Seq(Proxies) /\ ran \in Seq(Seq(Nat)) /\ Len(ran) = n
  BY DEF DeployInv, DeployType
<1>2. s.pc = "ready" /\ UNCHANGED <<built, record, orderly>>
  BY DEF SwitchOver, Reached
<1>3. v \in 1 .. built /\ v \in Nat /\ i \in 1 .. n
  BY <1>1, <1>2 DEF Knows
<1>4. CASE proxy[i].owner # d
  <2>1. script' = [script EXCEPT ![d] = Resting] /\ UNCHANGED <<proxy, ran>>
    BY <1>4 DEF SwitchOver, Stopped
  <2>2. Resting \in Scripts /\ Resting.pc = "none"
    BY DEF Resting, Scripts, Steps
  <2> QED BY <1>1, <1>2, <2>1, <2>2, ChainStands DEF Changed
<1>5. CASE proxy[i].owner = d
  <2> DEFINE new == [s EXCEPT !.pc = "switched"]
             p == [proxy[i] EXCEPT !.implementation = v]
             q == Append(ran[i], v)
  <2>1. /\ proxy' = [proxy EXCEPT ![i].implementation = v]
        /\ ran' = [ran EXCEPT ![i] = Append(@, v)]
        /\ script' = [script EXCEPT ![d].pc = "switched"]
    BY <1>5 DEF SwitchOver
  <2>2. proxy[i] \in Proxies /\ ran[i] \in Seq(Nat) /\ Len(ran[i]) > 0
    BY <1>1, <1>3 DEF DeployInv, ChainInOrder
  <2>3. p \in Proxies /\ p.implementation = v
    BY <1>3, <2>2 DEF Proxies
  <2>4. /\ q \in Seq(Nat) /\ Len(q) = Len(ran[i]) + 1 /\ q[Len(ran[i]) + 1] = v
        /\ \A k \in 1 .. Len(ran[i]) : q[k] = ran[i][k]
        /\ Tail(q) = Append(Tail(ran[i]), v)
    <3>1. PICK r : r = ran[i] /\ r \in Seq(Nat) /\ Len(r) > 0
      BY <2>2
    <3>2. v \in Nat
      BY <1>3
    <3>3. /\ Append(r, v) \in Seq(Nat) /\ Len(Append(r, v)) = Len(r) + 1 /\ Append(r, v)[Len(r) + 1] = v
          /\ \A k \in 1 .. Len(r) : Append(r, v)[k] = r[k]
      BY <3>1, <3>2
    <3>4. Tail(Append(r, v)) = Append(Tail(r), v)
      <4>1. r \in Seq(Nat) /\ Len(r) > 0
        BY <3>1
      <4> QED BY <3>2, <4>1, SequencesGrow
    <3> QED BY <3>1, <3>3, <3>4
  <2>5. new \in Scripts /\ new.pc = "switched" /\ new.of = i /\ new.implementation = v
    <3>1. s \in Scripts /\ s.implementation = v /\ s.of = i
      BY <1>1
    <3> HIDE DEF s
    <3> QED BY <3>1 DEF Scripts, Steps
  <2>6. proxy' = [proxy EXCEPT ![i] = p] /\ ran' = [ran EXCEPT ![i] = q] /\ script' = [script EXCEPT ![d] = new]
    BY <1>1, <1>3, <2>1
  <2> HIDE DEF new, p, q
  <2>7. proxy' \in Seq(Proxies) /\ Len(proxy') = n /\ proxy'[i] = p /\ \A j \in 1 .. n \ {i} : proxy'[j] = proxy[j]
    BY <1>1, <1>3, <2>3, <2>6, EntryChanged
  <2>8. ran' \in Seq(Seq(Nat)) /\ Len(ran') = n /\ ran'[i] = q /\ \A j \in 1 .. n \ {i} : ran'[j] = ran[j]
    BY <1>1, <1>3, <2>4, <2>6, EntryChanged
  <2>9. script' \in [Deployer -> Scripts] /\ script'[d] = new /\ \A e \in Deployer \ {d} : script'[e] = script[e]
    BY <1>1, <2>5, <2>6, ScriptMoves
  <2>10. DeployType'
    BY <1>1, <1>2, <2>7, <2>8, <2>9 DEF DeployType
  <2>11. \A j \in 1 .. n : \A k : HasRun(j, k) => HasRun(j, k)'
    <3> SUFFICES ASSUME NEW j \in 1 .. n, NEW k, HasRun(j, k) PROVE HasRun(j, k)'
      OBVIOUS
    <3>1. PICK m \in 1 .. Len(ran[j]) : ran[j][m] = k
      BY DEF HasRun
    <3>2. CASE j = i
      <4>1. Len(ran[i]) \in Nat /\ ran'[j] = q
        BY <1>3, <2>2, <2>8, <3>2
      <4>2. m \in 1 .. Len(ran'[j]) /\ ran'[j][m] = k
        BY <2>4, <3>1, <3>2, <4>1
      <4> QED BY <4>2 DEF HasRun
    <3>3. CASE j # i
      BY <2>8, <3>1, <3>3 DEF HasRun
    <3> QED BY <3>2, <3>3
  <2>12. HasRun(i, v)'
    <3>1. Len(ran'[i]) \in 1 .. Len(ran'[i]) /\ ran'[i][Len(ran'[i])] = v
      BY <2>2, <2>4, <2>8
    <3> QED BY <3>1 DEF HasRun
  <2>13. ChainInOrder'
    <3> SUFFICES ASSUME NEW j \in 1 .. n PROVE proxy'[j].implementation \in 1 .. built /\ Len(ran'[j]) > 0
      BY <1>2, <2>7 DEF ChainInOrder
    <3>1. CASE j = i
      <4>1. proxy'[j] = p /\ ran'[j] = q
        BY <2>7, <2>8, <3>1
      <4>2. Len(q) > 0
        BY <2>2, <2>4
      <4> QED BY <1>2, <1>3, <2>3, <4>1, <4>2
    <3>2. CASE j # i
      BY <2>7, <2>8, <3>2 DEF DeployInv, ChainInOrder
    <3> QED BY <3>1, <3>2
  <2>14. RecordStands'
    BY <1>2, <2>7, <2>11 DEF DeployInv, RecordStands
  <2>15. ASSUME NEW e \in Deployer PROVE Knows(e)'
    <3>1. CASE e = d
      BY <1>3, <2>5, <2>7, <2>9, <2>12, <3>1 DEF Knows, Changed
    <3>2. CASE e # d
      <4>1. Knows(e) /\ script'[e] = script[e]
        BY <2>9, <3>2 DEF DeployInv
      <4> QED BY <1>2, <2>7, <2>11, <4>1 DEF Knows, Changed
    <3> QED BY <3>1, <3>2
  <2>16. Orderly'
    <3> SUFFICES ASSUME orderly' PROVE Orderly'
      BY DEF Orderly
    <3>1. \A e \in Deployer \ {d} : script[e].pc = "none" /\ script'[e].pc = "none"
      BY <1>2, <2>9 DEF DeployInv, Orderly
    <3>2. OnFile(i) /\ Current
      <4>1. \A e \in Deployer : script[e].pc \notin Changed
        BY <1>2, <3>1 DEF Changed
      <4> QED BY <1>2, <4>1 DEF DeployInv, Orderly, FitsFile
    <3>3. Tail(ran'[i]) = Append(record.upgrades, v)
      BY <2>4, <2>8, <3>2 DEF OnFile, Current
    <3>4. OnFile(i)'
      BY <1>2, <3>2 DEF OnFile
    <3>5. ASSUME NEW e \in Deployer PROVE FitsFile(e)'
      <4>1. CASE e = d
        BY <1>2, <1>3, <2>3, <2>5, <2>7, <2>9, <3>3, <3>4, <4>1 DEF FitsFile
      <4>2. CASE e # d
        BY <3>1, <4>2 DEF FitsFile, Changed
      <4> QED BY <4>1, <4>2
    <3>6. script'[d].pc \in Changed
      BY <2>5, <2>9 DEF Changed
    <3> QED BY <3>1, <3>5, <3>6 DEF Orderly
  <2> QED BY <2>10, <2>13, <2>14, <2>15, <2>16 DEF DeployInv
<1> QED BY <1>4, <1>5

(* The file is written, by a script that is done.                          *)
LEMMA RecordWritten ==
  ASSUME DeployInv, NEW d \in Deployer, RecordDeployed(d) \/ RecordUpgraded(d)
  PROVE  DeployInv'
<1> DEFINE s == script[d]
<1>1. /\ s \in Scripts /\ built \in Nat /\ orderly \in BOOLEAN /\ Knows(d) /\ DeployType
      /\ script \in [Deployer -> Scripts] /\ ran \in Seq(Seq(Nat))
  BY DEF DeployInv, DeployType
<1>2. /\ script' = [script EXCEPT ![d] = Resting] /\ UNCHANGED <<proxy, ran, built, orderly>>
      /\ s.pc \in {"deployed", "upgraded"}
  BY DEF RecordDeployed, RecordUpgraded, Stopped, Reached
<1>3. record'.proxy = s.of /\ record'.implementation = s.implementation
  BY DEF RecordDeployed, RecordUpgraded
<1>4. Resting \in Scripts /\ Resting.pc = "none"
  BY DEF Resting, Scripts, Steps
<1>5. script' \in [Deployer -> Scripts] /\ script'[d] = Resting /\ \A e \in Deployer \ {d} : script'[e] = script[e]
  BY <1>1, <1>2, <1>4, ScriptMoves
<1>6. DeployType'
  BY <1>1, <1>2, <1>5 DEF DeployType
<1>7. \A p, i : HasRun(p, i)' = HasRun(p, i)
  BY <1>2 DEF HasRun
<1>8. RecordStands'
  BY <1>1, <1>2, <1>3, <1>7 DEF RecordStands, Knows, Changed
<1>9. ChainInOrder'
  BY <1>2 DEF DeployInv, ChainInOrder
<1>10. ASSUME NEW e \in Deployer PROVE Knows(e)'
  <2>1. CASE e = d
    BY <1>4, <1>5, <2>1 DEF Knows, Changed
  <2>2. CASE e # d
    <3>1. Knows(e) /\ script'[e] = script[e]
      BY <1>5, <2>2 DEF DeployInv
    <3> QED BY <1>2, <1>7, <3>1 DEF Knows
  <2> QED BY <2>1, <2>2
<1>11. Orderly'
  <2> SUFFICES ASSUME orderly' PROVE Orderly'
    BY DEF Orderly
  <2>1. \A e \in Deployer : script'[e].pc = "none"
    BY <1>2, <1>4, <1>5 DEF DeployInv, Orderly
  <2>2. proxy[s.of].implementation = s.implementation
    BY <1>2 DEF DeployInv, Orderly, FitsFile, Changed
  <2>3. record'.upgrades = Tail(ran[s.of])
    <3>1. CASE RecordDeployed(d)
      <4>1. record'.upgrades = <<>> /\ s.pc = "deployed"
        BY <3>1 DEF RecordDeployed, Reached
      <4>2. ran[s.of] = <<s.implementation>>
        BY <1>2, <4>1 DEF DeployInv, Orderly, FitsFile
      <4> QED BY <4>1, <4>2
    <3>2. CASE RecordUpgraded(d)
      <4>1. record'.upgrades = Append(IF record = NoRecord THEN <<>> ELSE record.upgrades, s.implementation) /\ s.pc = "upgraded"
        BY <3>2 DEF RecordUpgraded, Reached, Upgrades
      <4>2. record # NoRecord /\ Tail(ran[s.of]) = Append(record.upgrades, s.implementation)
        BY <1>2, <4>1 DEF DeployInv, Orderly, FitsFile, OnFile
      <4> QED BY <4>1, <4>2
    <3> QED BY <3>1, <3>2
  <2>4. Current'
    BY <1>2, <1>3, <2>2, <2>3 DEF Current
  <2> QED BY <2>1, <2>4 DEF Orderly, FitsFile, Changed
<1> QED BY <1>6, <1>8, <1>9, <1>10, <1>11 DEF DeployInv

(* An owner changes hands, or the signer: what runs is what ran.           *)
LEMMA OwnersAct ==
  ASSUME DeployInv, OwnerActs
  PROVE  DeployInv'
<1>1. proxy \in Seq(Proxies) /\ Len(proxy) \in Nat /\ DeployType
  BY DEF DeployInv, DeployType
<1>2. UNCHANGED <<built, ran, record, script, orderly>>
  BY DEF OwnerActs
<1>3. PICK p \in DOMAIN proxy : \/ \E o \in Deployer : proxy' = [proxy EXCEPT ![p].owner = o]
                                \/ \E k \in Signer : proxy' = [proxy EXCEPT ![p].signer = k]
  BY DEF OwnerActs
<1>4. p \in 1 .. Len(proxy) /\ proxy[p] \in Proxies
  BY <1>1
<1>5. PICK e \in Proxies : e.implementation = proxy[p].implementation /\ proxy' = [proxy EXCEPT ![p] = e]
  <2>1. ASSUME NEW o \in Deployer, proxy' = [proxy EXCEPT ![p].owner = o]
        PROVE  \E e \in Proxies : e.implementation = proxy[p].implementation /\ proxy' = [proxy EXCEPT ![p] = e]
    <3>1. [proxy[p] EXCEPT !.owner = o] \in Proxies /\ [proxy[p] EXCEPT !.owner = o].implementation = proxy[p].implementation
      BY <1>4 DEF Proxies
    <3>2. proxy' = [proxy EXCEPT ![p] = [proxy[p] EXCEPT !.owner = o]]
      BY <2>1
    <3> QED BY <3>1, <3>2
  <2>2. ASSUME NEW k \in Signer, proxy' = [proxy EXCEPT ![p].signer = k]
        PROVE  \E e \in Proxies : e.implementation = proxy[p].implementation /\ proxy' = [proxy EXCEPT ![p] = e]
    <3>1. [proxy[p] EXCEPT !.signer = k] \in Proxies /\ [proxy[p] EXCEPT !.signer = k].implementation = proxy[p].implementation
      BY <1>4 DEF Proxies
    <3>2. proxy' = [proxy EXCEPT ![p] = [proxy[p] EXCEPT !.signer = k]]
      BY <2>2
    <3> QED BY <3>1, <3>2
  <2> QED BY <1>3, <2>1, <2>2
<1>6. proxy' \in Seq(Proxies) /\ Len(proxy') = Len(proxy) /\ proxy'[p] = e /\ \A j \in 1 .. Len(proxy) \ {p} : proxy'[j] = proxy[j]
  BY <1>1, <1>4, <1>5, EntryChanged
<1>7. \A j \in 1 .. Len(proxy) : proxy'[j].implementation = proxy[j].implementation
  BY <1>5, <1>6
<1>8. DeployType'
  BY <1>1, <1>2, <1>6 DEF DeployType
<1>9. \A j, k : HasRun(j, k)' = HasRun(j, k) /\ OnFile(j)' = OnFile(j)
  BY <1>2 DEF HasRun, OnFile
<1>10. ChainInOrder' /\ RecordStands'
  BY <1>2, <1>6, <1>7, <1>9 DEF DeployInv, ChainInOrder, RecordStands
<1>11. \A d \in Deployer : Knows(d)'
  BY <1>2, <1>6, <1>9 DEF DeployInv, Knows
<1>12. Orderly'
  <2> SUFFICES ASSUME orderly' PROVE Orderly'
    BY DEF Orderly
  <2>1. Orderly /\ orderly
    BY <1>2 DEF DeployInv
  <2>2. Current => Current'
    BY <1>2, <1>7 DEF Current, DeployInv, RecordStands
  <2>3. \A d \in Deployer : script[d].pc \in Changed => proxy'[script[d].of].implementation = proxy[script[d].of].implementation
    BY <1>7 DEF DeployInv, Knows
  <2> QED BY <1>2, <1>9, <2>1, <2>2, <2>3 DEF Orderly, FitsFile
<1> QED BY <1>8, <1>10, <1>11, <1>12 DEF DeployInv

LEMMA DeployKept == DeployInv /\ [DeploymentNext]_deploymentVars => DeployInv'
<1> SUFFICES ASSUME DeployInv, [DeploymentNext]_deploymentVars PROVE DeployInv'
  OBVIOUS
<1>1. CASE UNCHANGED deploymentVars
  BY <1>1 DEF deploymentVars, DeployInv, DeployType, ChainInOrder, Knows, HasRun, RecordStands, Orderly, FitsFile, OnFile, Current
<1>2. CASE DeploymentNext
  BY <1>2, ScriptsGoOn, ProxyCreated, ProxySwitched, RecordWritten, OwnersAct DEF DeploymentNext
<1> QED BY <1>1, <1>2

(* packages/onchain/scripts: for any operators, keys and number of scripts,*)
(* however they are stopped and overlap, the file names a proxy that       *)
(* exists and an implementation it has run; after scripts that ran to      *)
(* their end, one by one, it is the one that runs, with every upgrade      *)
(* before it; and no proxy lacks an owner, a signer or its code.           *)
THEOREM RecordHolds == DeploymentSpec => []RecordTellsTheChain
<1>1. DeploymentInit => DeployInv
  BY DeployStarts
<1>2. DeployInv /\ [DeploymentNext]_deploymentVars => DeployInv'
  BY DeployKept
<1>3. DeployInv => RecordTellsTheChain
  <2> SUFFICES ASSUME DeployInv PROVE RecordTellsTheChain
    OBVIOUS
  <2>1. proxy \in Seq(Proxies) /\ ran \in Seq(Seq(Nat)) /\ Len(ran) = Len(proxy)
    BY DEF DeployInv, DeployType
  <2>2. RecordNamesWhatRan
    <3> SUFFICES ASSUME record # NoRecord
                 PROVE  /\ record.proxy \in DOMAIN proxy
                        /\ \E i \in DOMAIN ran[record.proxy] : ran[record.proxy][i] = record.implementation
      BY DEF RecordNamesWhatRan
    <3>1. record.proxy \in 1 .. Len(proxy) /\ HasRun(record.proxy, record.implementation)
      BY DEF DeployInv, RecordStands
    <3>2. ran[record.proxy] \in Seq(Nat)
      BY <2>1, <3>1
    <3> QED BY <2>1, <3>1, <3>2 DEF HasRun
  <2>3. RecordIsCurrent
    BY DEF RecordIsCurrent, DeployInv, Orderly, Current, Reached, Changed
  <2>4. ProxyIsClaimed
    <3>1. \A p \in DOMAIN proxy : p \in 1 .. Len(proxy) /\ proxy[p] \in Proxies
      BY <2>1
    <3> QED BY <3>1 DEF ProxyIsClaimed, DeployInv, ChainInOrder, Proxies
  <2> QED BY <2>2, <2>3, <2>4 DEF RecordTellsTheChain
<1> QED BY <1>1, <1>2, <1>3, PTL DEF DeploymentSpec

-----------------------------------------------------------------------------
(* The sums of the made-up histories.                                      *)

PointsOf(S) == SumFunctionOnSet([r \in S |-> r.points], S)
DiffsOf(S) == SumFunctionOnSet([l \in S |-> l.diff], S)
PointsFrom(S) == SumFunctionOnSet([i \in S |-> PointsAt(i)], S)

LEMMA PointsAreSummed ==
  ASSUME NEW S, IsFiniteSet(S)
  PROVE  MapThenSumSet(LAMBDA r : r.points, S) = PointsOf(S)
<1> DEFINE f == [r \in S |-> r.points]
           A(h) == h = [s \in SUBSET S |-> IF s = {} THEN 0 ELSE First(s).points + h[s \ {First(s)}]]
           a == CHOOSE h : A(h)
<1>1. \A h : A(h) <=> Adds(h, f, S)
  <2> SUFFICES ASSUME NEW h PROVE A(h) <=> Adds(h, f, S)
    OBVIOUS
  <2>1. \A s \in SUBSET S : (IF s = {} THEN 0 ELSE First(s).points + h[s \ {First(s)}]) = Term(h, f, s)
    BY FirstIsIn DEF Term
  <2> QED BY <2>1 DEF Adds
<1>2. A(a)
  <2>1. \E h : A(h)
    BY <1>1, AddsExists
  <2> HIDE DEF A
  <2> QED BY <2>1
<1>3. MapThenSumSet(LAMBDA r : r.points, S) = a[S]
  BY Zenon DEF MapThenSumSet, MapThenFoldSet, First
<1> HIDE DEF A, a, f
<1>4. a[S] = SumFunctionOnSet(f, S)
  <2>1. PICK h : Adds(h, f, S) /\ SumFunctionOnSet(f, S) = h[S]
    BY SumIsAdded
  <2>2. Adds(a, f, S) /\ S \in SUBSET S
    BY <1>1, <1>2
  <2> QED BY <2>1, <2>2, AddsAgree
<1> QED BY <1>3, <1>4 DEF f, PointsOf

LEMMA DiffsAreSummed ==
  ASSUME NEW S, IsFiniteSet(S)
  PROVE  MapThenSumSet(LAMBDA l : l.diff, S) = DiffsOf(S)
<1> DEFINE f == [l \in S |-> l.diff]
           A(h) == h = [s \in SUBSET S |-> IF s = {} THEN 0 ELSE First(s).diff + h[s \ {First(s)}]]
           a == CHOOSE h : A(h)
<1>1. \A h : A(h) <=> Adds(h, f, S)
  <2> SUFFICES ASSUME NEW h PROVE A(h) <=> Adds(h, f, S)
    OBVIOUS
  <2>1. \A s \in SUBSET S : (IF s = {} THEN 0 ELSE First(s).diff + h[s \ {First(s)}]) = Term(h, f, s)
    BY FirstIsIn DEF Term
  <2> QED BY <2>1 DEF Adds
<1>2. A(a)
  <2>1. \E h : A(h)
    BY <1>1, AddsExists
  <2> HIDE DEF A
  <2> QED BY <2>1
<1>3. MapThenSumSet(LAMBDA l : l.diff, S) = a[S]
  BY Zenon DEF MapThenSumSet, MapThenFoldSet, First
<1> HIDE DEF A, a, f
<1>4. a[S] = SumFunctionOnSet(f, S)
  <2>1. PICK h : Adds(h, f, S) /\ SumFunctionOnSet(f, S) = h[S]
    BY SumIsAdded
  <2>2. Adds(a, f, S) /\ S \in SUBSET S
    BY <1>1, <1>2
  <2> QED BY <2>1, <2>2, AddsAgree
<1> QED BY <1>3, <1>4 DEF f, DiffsOf

LEMMA SharesAreSummed ==
  ASSUME NEW S, IsFiniteSet(S)
  PROVE  MapThenSumSet(PointsAt, S) = PointsFrom(S)
<1> DEFINE f == [i \in S |-> PointsAt(i)]
           A(h) == h = [s \in SUBSET S |-> IF s = {} THEN 0 ELSE PointsAt(First(s)) + h[s \ {First(s)}]]
           a == CHOOSE h : A(h)
<1>1. \A h : A(h) <=> Adds(h, f, S)
  <2> SUFFICES ASSUME NEW h PROVE A(h) <=> Adds(h, f, S)
    OBVIOUS
  <2>1. \A s \in SUBSET S : (IF s = {} THEN 0 ELSE PointsAt(First(s)) + h[s \ {First(s)}]) = Term(h, f, s)
    BY FirstIsIn DEF Term
  <2> QED BY <2>1 DEF Adds
<1>2. A(a)
  <2>1. \E h : A(h)
    BY <1>1, AddsExists
  <2> HIDE DEF A
  <2> QED BY <2>1
<1>3. MapThenSumSet(PointsAt, S) = a[S]
  BY Zenon DEF MapThenSumSet, MapThenFoldSet, First
<1> HIDE DEF A, a, f
<1>4. a[S] = SumFunctionOnSet(f, S)
  <2>1. PICK h : Adds(h, f, S) /\ SumFunctionOnSet(f, S) = h[S]
    BY SumIsAdded
  <2>2. Adds(a, f, S) /\ S \in SUBSET S
    BY <1>1, <1>2
  <2> QED BY <2>1, <2>2, AddsAgree
<1> QED BY <1>3, <1>4 DEF f, PointsFrom

-----------------------------------------------------------------------------
(* What a seeding has written when it has come to receipt n.               *)
ReceiptIds == Nat \X Nat
Paper == [id : ReceiptIds, status : {"pending", "claimable", "claimed"}, points : Nat]

Upto(n) == {i \in Index : i < n}
Paying(n) == {i \in Upto(n) : PointsAt(i) > 0}
LogFor(call, i) == [id |-> <<call, i>>, diff |-> PointsAt(i), after |-> balanceAt(i), at |-> -age(i)]
Written(call, n) == {Seeded(call, i) : i \in Upto(n)}
Itemised(call, n) == {<<call, i>> : i \in Upto(n)}
Logged(call, n) == {LogFor(call, i) : i \in Paying(n)}

LEMMA SeededIs ==
  ASSUME NEW call \in Nat, NEW i \in Index
  PROVE  /\ i \in Nat /\ PointsAt(i) \in Nat /\ age(i) \in Nat
         /\ Seeded(call, i) \in Paper /\ Seeded(call, i).id = <<call, i>>
         /\ Seeded(call, i).status = IF PointsAt(i) > 0 THEN "claimed" ELSE "claimable"
         /\ PointsAt(i) > 0 => Seeded(call, i).points = PointsAt(i)
<1>1. i \in Nat /\ PointsAt(i) \in Nat /\ 22 + (i % 4) \in Nat
  BY TestAssumption DEF Index, PointsAt
<1>2. age(i) \in Nat
  <2>1. Step \in Nat /\ i % 5 \in Nat
    BY <1>1, TestAssumption
  <2>2. Step * i \in Nat
    BY <1>1, <2>1
  <2> QED BY <2>1, <2>2 DEF age
<1> QED BY <1>1, <1>2 DEF Seeded, Paper, ReceiptIds

LEMMA HistoryGrows ==
  /\ \A call \in Nat : Written(call, 0) = {} /\ Itemised(call, 0) = {} /\ Logged(call, 0) = {}
  /\ \A call \in Nat, i \in Index :
        /\ Written(call, i + 1) = Written(call, i) \cup {Seeded(call, i)}
        /\ Itemised(call, i + 1) = Itemised(call, i) \cup {<<call, i>>}
        /\ PointsAt(i) > 0 => Logged(call, i + 1) = Logged(call, i) \cup {LogFor(call, i)}
        /\ ~(PointsAt(i) > 0) => Logged(call, i + 1) = Logged(call, i)
<1>1. Upto(0) = {}
  BY TestAssumption DEF Upto, Index
<1>2. \A i \in Index : Upto(i + 1) = Upto(i) \cup {i}
  BY TestAssumption DEF Upto, Index
<1> QED BY <1>1, <1>2 DEF Written, Itemised, Logged, Paying

LEMMA HistoryEnds == Upto(Receipts) = Index /\ 0 \in Index /\ IsFiniteSet(Index) /\ Cardinality(Index) = Receipts
<1>1. Receipts \in Nat \ {0}
  BY TestAssumption
<1>2. IsFiniteSet(0 .. (Receipts - 1)) /\ Cardinality(0 .. (Receipts - 1)) = Receipts
  BY <1>1, FS_Interval
<1> QED BY <1>1, <1>2 DEF Upto, Index

-----------------------------------------------------------------------------
(* A history that stands: a receipt to each place, a log to each that was  *)
(* claimed.                                                                *)
ClaimedOf(h) == {i \in Index : h[i].status = "claimed"}
EarnedBy(h) == SumFunctionOnSet([i \in Index |-> h[i].points], ClaimedOf(h))

IsHistory(call, h, g) ==
    /\ h \in [Index -> Paper]
    /\ \A i \in Index : h[i].id = <<call, i>>
    /\ held = {h[i] : i \in Index} /\ itemised = {h[i].id : i \in Index}
    /\ moved = {g[i] : i \in ClaimedOf(h)}
    /\ \A i \in ClaimedOf(h) : g[i].id = <<call, i>> /\ g[i].diff = h[i].points
    /\ NewestFirst => Balances = {EarnedBy(h)}
Stands(call) == \E h, g : IsHistory(call, h, g)

LEMMA StandingAddsUp ==
  ASSUME NEW call \in Nat, Stands(call)
  PROVE  /\ Cardinality(held) = Receipts /\ itemised = {r.id : r \in held}
         /\ MapThenSumSet(LAMBDA l : l.diff, moved) = Counted("claimed")
         /\ NewestFirst => Balances = {Counted("claimed")}
<1>1. PICK h, g : IsHistory(call, h, g)
  BY DEF Stands
<1>2. /\ h \in [Index -> Paper] /\ \A i, j \in Index : h[i] = h[j] => i = j
      /\ held = {h[i] : i \in Index} /\ itemised = {h[i].id : i \in Index}
  <2>1. \A i, j \in Index : <<call, i>> = <<call, j>> => i = j
    OBVIOUS
  <2> QED BY <1>1, <2>1 DEF IsHistory
<1>3. Cardinality(held) = Receipts
  <2>1. h \in Bijection(Index, held)
    BY <1>2 DEF Bijection, Injection, Surjection, IsInjective
  <2>2. ExistsBijection(Index, held)
    BY <2>1 DEF ExistsBijection
  <2> QED BY <2>2, HistoryEnds, FS_Bijection
<1>4. itemised = {r.id : r \in held}
  BY <1>2
<1> DEFINE C == ClaimedOf(h)
           D == {r \in held : r.status = "claimed"}
           k == [i \in Index |-> h[i].points]
<1>5. C \in SUBSET Index /\ IsFiniteSet(C) /\ \A i \in C : k[i] \in Int
  <2>1. C \in SUBSET Index
    BY DEF ClaimedOf
  <2>2. \A i \in Index : h[i].points \in Nat
    BY <1>2 DEF Paper
  <2> QED BY <2>1, <2>2, HistoryEnds, FS_Subset
<1>6. Counted("claimed") = EarnedBy(h)
  <2> DEFINE f == [r \in D |-> r.points]
  <2>1. D = ImageOf(h, C)
    BY <1>2 DEF ImageOf, ClaimedOf
  <2>2. \A i, j \in C : h[i] = h[j] => i = j
    BY <1>2, <1>5
  <2>3. \A i \in C : f[h[i]] = k[i]
    BY <1>2, <1>5 DEF ClaimedOf
  <2> HIDE DEF C, D, k, f
  <2>4. SameSum(f, h, k, C)
    BY <1>5, <2>2, <2>3, SumRenamed
  <2>5. IsFiniteSet(D) /\ SumFunctionOnSet(f, D) = SumFunctionOnSet(k, C)
    BY <2>1, <2>4 DEF SameSum
  <2>6. MapThenSumSet(LAMBDA r : r.points, D) = PointsOf(D)
    BY <2>5, PointsAreSummed
  <2> QED BY <2>5, <2>6 DEF Counted, PointsOf, EarnedBy, C, D, k, f
<1>7. MapThenSumSet(LAMBDA l : l.diff, moved) = EarnedBy(h)
  <2> DEFINE f == [l \in moved |-> l.diff]
  <2>1. moved = ImageOf(g, C)
    BY <1>1 DEF ImageOf, IsHistory
  <2>2. \A i, j \in C : g[i] = g[j] => i = j
    <3>1. \A i, j \in Index : <<call, i>> = <<call, j>> => i = j
      OBVIOUS
    <3> QED BY <1>1, <1>5, <3>1 DEF IsHistory
  <2>3. \A i \in C : f[g[i]] = k[i]
    BY <1>1, <1>5 DEF IsHistory
  <2> HIDE DEF C, k, f
  <2>4. SameSum(f, g, k, C)
    BY <1>5, <2>2, <2>3, SumRenamed
  <2>5. IsFiniteSet(moved) /\ SumFunctionOnSet(f, moved) = SumFunctionOnSet(k, C)
    BY <2>1, <2>4 DEF SameSum
  <2>6. MapThenSumSet(LAMBDA l : l.diff, moved) = DiffsOf(moved)
    BY <2>5, DiffsAreSummed
  <2> QED BY <2>5, <2>6 DEF DiffsOf, EarnedBy, C, k, f
<1>8. NewestFirst => Balances = {EarnedBy(h)}
  BY <1>1 DEF IsHistory
<1> QED BY <1>3, <1>4, <1>6, <1>7, <1>8

(* The newest of the logs a seeding wrote is the first that pays, and has  *)
(* the points of all that follow.                                          *)
LEMMA NewestHasAll ==
  ASSUME NEW call \in Nat, moved = Logged(call, Receipts), NewestFirst
  PROVE  Balances = {PointsFrom(Paying(Receipts))}
<1> DEFINE P == Paying(Receipts)
<1>1. P \in SUBSET Index /\ P = {i \in Index : PointsAt(i) > 0} /\ Index \in SUBSET Nat
  BY HistoryEnds, TestAssumption DEF Paying, Index
<1>2. CASE P = {}
  <2>1. moved = {}
    BY <1>2 DEF Logged
  <2>2. PointsFrom({}) = 0
    BY SumEmpty DEF PointsFrom
  <2> QED BY <1>2, <2>1, <2>2 DEF Balances
<1>3. CASE P # {}
  <2>1. PICK n \in P : \A m \in P : n <= m
    BY <1>1, <1>3, Least
  <2>2. \A i \in P : LogFor(call, i).at = -age(i) /\ LogFor(call, i).after = balanceAt(i)
    BY DEF LogFor
  <2>3. \A i \in P : age(i) \in Nat /\ age(n) \in Nat /\ (i # n => age(n) < age(i))
    <3>1. P \in SUBSET Nat /\ P \in SUBSET Index /\ n \in P
      BY <1>1, <2>1
    <3>2. \A i \in P : i # n => n < i
      <4> HIDE DEF P
      <4> QED BY <2>1, <3>1
    <3>3. \A i \in P : age(i) \in Nat
      <4> HIDE DEF P
      <4> QED BY <3>1, SeededIs
    <3> HIDE DEF P
    <3> QED BY <3>1, <3>2, <3>3 DEF NewestFirst
  <2>4. {m \in moved : \A l \in moved : l.at <= m.at} = {LogFor(call, n)}
    <3>1. \A i \in P : (\A j \in P : LogFor(call, j).at <= LogFor(call, i).at) <=> i = n
      BY <2>2, <2>3
    <3> QED BY <2>1, <3>1 DEF Logged
  <2>5. moved # {}
    BY <1>3 DEF Logged
  <2>6. Balances = {balanceAt(n)}
    BY <2>1, <2>2, <2>4, <2>5 DEF Balances
  <2> DEFINE S == n .. (Receipts - 1)
             f == [i \in S |-> PointsAt(i)]
             e == [i \in P |-> PointsAt(i)]
  <2>7. IsFiniteSet(S) /\ P \in SUBSET S /\ (\A i \in S : f[i] \in Int) /\ \A i \in S \ P : f[i] = 0
    <3>1. n \in Nat /\ Receipts \in Nat /\ n < Receipts
      BY <1>1, <2>1, TestAssumption DEF Index
    <3>2. IsFiniteSet(S)
      BY <3>1, FS_Interval
    <3>3. S \in SUBSET Index
      BY <3>1 DEF Index
    <3>4. P \in SUBSET S
      BY <1>1, <2>1, <3>1 DEF Index
    <3>5. \A i \in S : PointsAt(i) \in Nat
      BY <3>3, SeededIs
    <3>6. \A i \in S \ P : PointsAt(i) = 0
      BY <1>1, <3>3, <3>5
    <3> QED BY <3>2, <3>4, <3>5, <3>6
  <2>8. \A i \in P : f[i] = e[i]
    BY <2>7
  <2>9. balanceAt(n) = SumFunctionOnSet(f, S)
    BY <2>7, SharesAreSummed DEF balanceAt, PointsFrom
  <2> HIDE DEF P, S, f, e
  <2>10. SumFunctionOnSet(f, S) = SumFunctionOnSet(f, P)
    BY <2>7, SumWithoutZeros
  <2>11. IsFiniteSet(P)
    BY <2>7, FS_Subset
  <2>12. SumFunctionOnSet(f, P) = SumFunctionOnSet(e, P)
    BY <2>8, <2>11, SumSame
  <2> QED BY <2>6, <2>9, <2>10, <2>12 DEF PointsFrom, P, e
<1> QED BY <1>2, <1>3

(* A seeding that came to its end.                                         *)
LEMMA SeedingStands ==
  ASSUME NEW call \in Nat, held = Written(call, Receipts), itemised = Itemised(call, Receipts),
         moved = Logged(call, Receipts)
  PROVE  Stands(call)
<1> DEFINE h == [i \in Index |-> Seeded(call, i)]
           g == [i \in Index |-> LogFor(call, i)]
<1>1. h \in [Index -> Paper] /\ \A i \in Index : h[i] = Seeded(call, i) /\ h[i].id = <<call, i>>
  BY SeededIs
<1>2. ClaimedOf(h) = Paying(Receipts)
  BY SeededIs, HistoryEnds DEF ClaimedOf, Paying
<1>3. held = {h[i] : i \in Index} /\ itemised = {h[i].id : i \in Index}
  BY <1>1, HistoryEnds DEF Written, Itemised
<1>4. \A i \in Paying(Receipts) : i \in Index /\ PointsAt(i) > 0
  BY HistoryEnds DEF Paying
<1>5. moved = {g[i] : i \in ClaimedOf(h)}
  BY <1>2, <1>4 DEF Logged
<1>6. \A i \in ClaimedOf(h) : g[i].id = <<call, i>> /\ g[i].diff = h[i].points
  BY <1>1, <1>2, <1>4, SeededIs DEF LogFor
<1>7. EarnedBy(h) = PointsFrom(Paying(Receipts))
  <2> DEFINE P == Paying(Receipts)
             f == [i \in Index |-> h[i].points]
             e == [i \in P |-> PointsAt(i)]
  <2>1. IsFiniteSet(P)
    <3>1. P \in SUBSET Index
      BY <1>4
    <3> HIDE DEF P
    <3> QED BY <3>1, HistoryEnds, FS_Subset
  <2>2. \A i \in P : f[i] = e[i]
    BY <1>1, <1>4, SeededIs
  <2>3. EarnedBy(h) = SumFunctionOnSet(f, P)
    BY <1>2 DEF EarnedBy
  <2> HIDE DEF P, f, e, h
  <2>4. SumFunctionOnSet(f, P) = SumFunctionOnSet(e, P)
    BY <2>1, <2>2, SumSame
  <2> QED BY <2>3, <2>4 DEF PointsFrom, P, e
<1> HIDE DEF h, g
<1>8. IsHistory(call, h, g)
  BY <1>1, <1>3, <1>5, <1>6, <1>7, NewestHasAll DEF IsHistory
<1> QED BY <1>8 DEF Stands

(* And a claim on top of it.                                               *)
LEMMA ClaimStands ==
  ASSUME NEW call \in Nat, Stands(call), claims \in Nat,
         \A l \in moved : l.at \in Int /\ l.at <= claims, ClaimOne
  PROVE  Stands(call)'
<1>1. PICK h, g : IsHistory(call, h, g)
  BY DEF Stands
<1>2. PICK r \in held, balance \in Balances :
          /\ r.status = "claimable"
          /\ held' = (held \ {r}) \cup {[r EXCEPT !.status = "claimed"]}
          /\ moved' = moved \cup {[id |-> r.id, diff |-> r.points, after |-> balance + r.points,
                                   at |-> claims + 1]}
  BY DEF ClaimOne
<1>3. PICK i \in Index : r = h[i]
  BY <1>1 DEF IsHistory
<1>q. PICK q : q = [r EXCEPT !.status = "claimed"]
  OBVIOUS
<1>l. PICK l : l = [id |-> r.id, diff |-> r.points, after |-> balance + r.points, at |-> claims + 1]
  OBVIOUS
<1>h. PICK h2 : h2 = [h EXCEPT ![i] = q]
  OBVIOUS
<1>g. PICK g2 : g2 = [j \in Index |-> IF j = i THEN l ELSE g[j]]
  OBVIOUS
<1>4. r \in Paper /\ r.id = <<call, i>>
  BY <1>1, <1>3 DEF IsHistory
<1>5. q \in Paper /\ q.id = r.id /\ q.points = r.points /\ q.status = "claimed"
  BY <1>4, <1>q DEF Paper
<1>6. l.id = r.id /\ l.diff = r.points /\ l.after = balance + r.points /\ l.at = claims + 1
  BY <1>l
<1>7. held' = (held \ {r}) \cup {q} /\ moved' = moved \cup {l} /\ itemised' = itemised
  BY <1>2, <1>q, <1>l DEF ClaimOne
<1>8. /\ h2 \in [Index -> Paper] /\ h2[i] = q /\ \A j \in Index \ {i} : h2[j] = h[j]
  BY <1>1, <1>5, <1>h DEF IsHistory
<1>9. g2[i] = l /\ \A j \in Index \ {i} : g2[j] = g[j]
  BY <1>g
<1>10. i \notin ClaimedOf(h) /\ ClaimedOf(h2) = ClaimedOf(h) \cup {i} /\ ClaimedOf(h) \in SUBSET Index
  BY <1>2, <1>3, <1>5, <1>8 DEF ClaimedOf
<1>11. \A j \in Index : h2[j].id = <<call, j>> /\ h2[j].id = h[j].id /\ h2[j].points = h[j].points
  BY <1>1, <1>3, <1>4, <1>5, <1>8 DEF IsHistory
<1>12. held' = {h2[j] : j \in Index} /\ itemised' = {h2[j].id : j \in Index}
  <2>1. \A j \in Index \ {i} : h[j] # r
    <3>1. \A j \in Index \ {i} : <<call, j>> # <<call, i>>
      OBVIOUS
    <3> QED BY <1>1, <1>4, <3>1 DEF IsHistory
  <2>2. held \ {r} = {h[j] : j \in Index \ {i}}
    BY <1>1, <1>3, <2>1 DEF IsHistory
  <2>3. held' = {h2[j] : j \in Index}
    BY <1>7, <1>8, <2>2
  <2>4. itemised' = {h2[j].id : j \in Index}
    BY <1>1, <1>7, <1>11 DEF IsHistory
  <2> QED BY <2>3, <2>4
<1>13. moved' = {g2[j] : j \in ClaimedOf(h2)}
  BY <1>1, <1>7, <1>9, <1>10 DEF IsHistory
<1>14. \A j \in ClaimedOf(h2) : g2[j].id = <<call, j>> /\ g2[j].diff = h2[j].points
  BY <1>1, <1>3, <1>4, <1>6, <1>9, <1>10, <1>11 DEF IsHistory
<1>15. EarnedBy(h2) = EarnedBy(h) + r.points /\ EarnedBy(h) \in Int
  <2> DEFINE f == [j \in Index |-> h[j].points]
             f2 == [j \in Index |-> h2[j].points]
             C == ClaimedOf(h)
  <2>1. f2 = f
    BY <1>11
  <2>2. \A j \in Index : f[j] \in Int
    <3>1. \A j \in Index : h[j].points \in Nat
      BY <1>1 DEF IsHistory, Paper
    <3> QED BY <3>1
  <2>3. f[i] = r.points
    BY <1>3
  <2>4. IsFiniteSet(C)
    <3>1. C \in SUBSET Index
      BY <1>10
    <3> HIDE DEF C
    <3> QED BY <3>1, HistoryEnds, FS_Subset
  <2>5. i \notin C /\ \A j \in C \cup {i} : f[j] \in Int
    BY <1>10, <2>2
  <2>6. EarnedBy(h) = SumFunctionOnSet(f, C) /\ EarnedBy(h2) = SumFunctionOnSet(f2, C \cup {i})
    BY <1>10 DEF EarnedBy
  <2> HIDE DEF C, f, f2
  <2>7. SumFunctionOnSet(f, C \cup {i}) = SumFunctionOnSet(f, C) + f[i]
    BY <2>4, <2>5, SumWith
  <2>8. SumFunctionOnSet(f, C) \in Int
    <3>1. \A j \in C : f[j] \in Int
      BY <2>5
    <3> QED BY <2>4, <3>1, SumSplit
  <2> QED BY <2>1, <2>3, <2>6, <2>7, <2>8
<1>16. ASSUME NewestFirst PROVE Balances' = {EarnedBy(h2)}
  <2>1. balance = EarnedBy(h)
    BY <1>1, <1>2, <1>16 DEF IsHistory
  <2>2. {m \in moved' : \A n \in moved' : n.at <= m.at} = {l}
    <3>1. \A m \in moved : m.at <= l.at /\ ~(l.at <= m.at)
      BY <1>6
    <3>2. l.at <= l.at
      BY <1>6
    <3>3. PICK M : M = moved' /\ M = moved \cup {l}
      BY <1>7
    <3>4. l \in M /\ \A n \in M : n.at <= l.at
      BY <3>1, <3>2, <3>3
    <3>5. \A m \in M : (\A n \in M : n.at <= m.at) => m = l
      BY <3>1, <3>3, <3>4
    <3>6. {m \in M : \A n \in M : n.at <= m.at} = {l}
      BY <3>4, <3>5
    <3> QED BY <3>3, <3>6
  <2>3. moved' # {}
    BY <1>7
  <2>4. Balances' = {l.after}
    BY <2>2, <2>3 DEF Balances
  <2> QED BY <1>6, <1>15, <2>1, <2>4
<1>17. NewestFirst' <=> NewestFirst
  BY DEF NewestFirst, age, Index
<1>18. NewestFirst' => Balances' = {EarnedBy(h2)}
  BY <1>16, <1>17
<1>19. EarnedBy(h2)' = EarnedBy(h2) /\ ClaimedOf(h2)' = ClaimedOf(h2)
  BY DEF EarnedBy, ClaimedOf
<1>20. IsHistory(call, h2, g2)'
  BY <1>8, <1>11, <1>12, <1>13, <1>14, <1>18, <1>19 DEF IsHistory
<1> QED BY <1>20 DEF Stands

StandsWhenWritten ==
    \A call \in Nat :
        held = Written(call, Receipts) /\ itemised = Itemised(call, Receipts) /\ moved = Logged(call, Receipts)
            => Stands(call)

LEMMA SeedingEnds == StandsWhenWritten
BY SeedingStands DEF StandsWhenWritten

LEMMA SeedingEndsNext == StandsWhenWritten'
BY SeedingEnds, PTL

LEMMA StandsStill ==
  ASSUME NEW call, Stands(call), UNCHANGED <<held, itemised, moved>>
  PROVE  Stands(call)'
<1>1. PICK h, g : IsHistory(call, h, g)
  BY DEF Stands
<1>2. Balances' = Balances
  BY DEF Balances
<1>3. (NewestFirst' <=> NewestFirst) /\ EarnedBy(h)' = EarnedBy(h) /\ ClaimedOf(h)' = ClaimedOf(h)
  BY DEF NewestFirst, age, Index, EarnedBy, ClaimedOf
<1>4. IsHistory(call, h, g)'
  BY <1>1, <1>2, <1>3 DEF IsHistory
<1> QED BY <1>4 DEF Stands

-----------------------------------------------------------------------------
(* The inductive invariant.  While nobody disturbs a seeding that emptied  *)
(* the wallet, the wallet has what it has written so far and nothing else. *)

PhotoIds == {id \in ReceiptIds : id[1] > MaxCalls}
Resets == {"resets", "drops lines", "drops receipts", "drops logs"}
Seeds == Resets \cup {"writes", "logs", "itemises"}
Works == [at : Seeds \cup {"idle", "sends", "removes lines", "removes receipts"}, run : Nat, index : Nat,
          ids : SUBSET ReceiptIds, reset : BOOLEAN, quietly : BOOLEAN]

WorkFits(w) ==
    /\ w \in Works
    /\ w.at \in Seeds => ~production /\ w.run \in 1..MaxCalls /\ w.index \in Index
    /\ w.at \in Resets => w.index = 0
    /\ w.at = "sends" => w.run # 0

HasWritten(call, receipts, lines, logs) ==
    held = Written(call, receipts) /\ itemised = Itemised(call, lines) /\ moved = Logged(call, logs)

Progress(w) ==
    /\ w.at = "drops logs" => held = {} /\ itemised = {}
    /\ w.at = "writes" => HasWritten(w.run, w.index, w.index, w.index)
    /\ w.at = "logs" => PointsAt(w.index) > 0 /\ HasWritten(w.run, w.index + 1, w.index, w.index)
    /\ w.at = "itemises" => HasWritten(w.run, w.index + 1, w.index, w.index + 1)

WorkIsKept ==
    /\ work \in [Tester -> Works] /\ \A t \in Tester : WorkFits(work[t])
    /\ \A t \in Tester :
          work[t].at # "idle" /\ work[t].quietly =>
              /\ \A u \in Tester \ {t} : work[u].at = "idle"
              /\ work[t].reset => Progress(work[t])

WalletIsKept ==
    /\ production \in BOOLEAN /\ known \in BOOLEAN
    /\ calls \in Nat /\ calls <= MaxCalls /\ photos \in Nat /\ claims \in Nat
    /\ held \in SUBSET Paper /\ sent \in SUBSET PhotoIds
    /\ \A l \in moved : l.at \in Int /\ l.at <= claims
    /\ NothingLeftBehind
    /\ production => \A r \in held : r.id \in PhotoIds
    /\ NoneMadeUp

HistoryIsKept ==
    known => (\A t \in Tester : work[t].at = "idle") /\ \E call \in 1..MaxCalls : Stands(call)

TestInv == WorkIsKept /\ WalletIsKept /\ HistoryIsKept

-----------------------------------------------------------------------------
(* The three ways the handlers at work change.                             *)

LEMMA OneWorks ==
  ASSUME WorkIsKept, UNCHANGED production, NEW t \in Tester, work[t].at # "idle", NEW new,
         WorkFits(new), work' = [work EXCEPT ![t] = new],
         new.at # "idle" => new.quietly = work[t].quietly,
         new.at # "idle" /\ new.quietly /\ new.reset => Progress(new)'
  PROVE  WorkIsKept'
<1>1. work'[t] = new /\ \A u \in Tester \ {t} : work'[u] = work[u]
  BY DEF WorkIsKept
<1>2. work' \in [Tester -> Works]
  BY DEF WorkIsKept, WorkFits
<1>3. \A w : WorkFits(w)' <=> WorkFits(w)
  BY DEF WorkFits, Works, Index
<1>4. \A u \in Tester : WorkFits(work[u])'
  <2>1. \A u \in Tester : WorkFits(work'[u])
    BY <1>1 DEF WorkIsKept
  <2> QED BY <1>1, <2>1, <1>3 DEF WorkFits
<1>5. ASSUME NEW u \in Tester, work'[u].at # "idle", work'[u].quietly
      PROVE  /\ \A v \in Tester \ {u} : work'[v].at = "idle"
             /\ work'[u].reset => Progress(work[u])'
  <2>1. CASE u # t
    BY <1>1, <1>5, <2>1 DEF WorkIsKept
  <2>2. CASE u = t
    <3>1. \A v \in Tester \ {t} : work'[v].at = "idle"
      BY <1>1, <1>5, <2>2 DEF WorkIsKept
    <3>2. new.reset => Progress(new)'
      BY <1>1, <1>5, <2>2
    <3>3. Progress(work[t])' <=> Progress(new)'
      BY <1>1 DEF Progress
    <3> QED BY <1>1, <2>2, <3>1, <3>2, <3>3
  <2> QED BY <2>1, <2>2
<1> QED BY <1>2, <1>4, <1>5 DEF WorkIsKept

LEMMA OneStarts ==
  ASSUME WorkIsKept, UNCHANGED production, NEW t \in Tester, NEW first, TakesUp(t, first),
         WorkFits(first), first.at # "drops logs", first.at # "writes" \/ ~first.reset,
         first.at # "logs", first.at # "itemises"
  PROVE  WorkIsKept'
<1> DEFINE new == [first EXCEPT !.quietly = ~Others(t)]
<1>1. /\ work' = [u \in Tester |-> IF u = t THEN new ELSE [work[u] EXCEPT !.quietly = FALSE]]
  BY DEF TakesUp
<1>2. /\ new \in Works /\ new.at = first.at /\ new.run = first.run /\ new.index = first.index
      /\ new.reset = first.reset /\ new.quietly = ~Others(t)
  BY DEF WorkFits, Works, Others
<1>3. \A u \in Tester :
          LET w == [work[u] EXCEPT !.quietly = FALSE] IN
          w \in Works /\ w.at = work[u].at /\ w.run = work[u].run /\ w.index = work[u].index /\ w.quietly = FALSE
  BY DEF WorkIsKept, Works
<1> HIDE DEF new
<1>4. work' \in [Tester -> Works]
  BY <1>1, <1>2, <1>3
<1>5. work'[t] = new /\ \A u \in Tester \ {t} : work'[u].at = work[u].at /\ work'[u].quietly = FALSE
                                             /\ work'[u].run = work[u].run /\ work'[u].index = work[u].index
  BY <1>1, <1>3
<1>6. \A u \in Tester : WorkFits(work[u])'
  <2>1. WorkFits(work[t])'
    BY <1>2, <1>4, <1>5 DEF WorkFits
  <2>2. \A u \in Tester \ {t} : WorkFits(work[u])'
    BY <1>4, <1>5 DEF WorkFits, WorkIsKept
  <2> QED BY <2>1, <2>2
<1>7. ASSUME NEW u \in Tester, work'[u].at # "idle", work'[u].quietly
      PROVE  /\ \A v \in Tester \ {u} : work'[v].at = "idle"
             /\ work'[u].reset => Progress(work[u])'
  <2>1. u = t
    BY <1>5, <1>7
  <2>2. \A v \in Tester \ {t} : work'[v].at = "idle"
    BY <1>2, <1>5, <1>7, <2>1 DEF Others
  <2>3. work'[t].reset => Progress(work[t])'
    BY <1>2, <1>5 DEF Progress
  <2> QED BY <2>1, <2>2, <2>3
<1> QED BY <1>4, <1>6, <1>7 DEF WorkIsKept

LEMMA AllDisturbed ==
  ASSUME WorkIsKept, UNCHANGED production, work' = Disturbed
  PROVE  WorkIsKept' /\ \A t \in Tester : work'[t].at = work[t].at
<1>1. \A u \in Tester :
          LET w == [work[u] EXCEPT !.quietly = FALSE] IN
          w \in Works /\ w.at = work[u].at /\ w.run = work[u].run /\ w.index = work[u].index /\ w.quietly = FALSE
  BY DEF WorkIsKept, Works
<1>2. \A u \in Tester : /\ work'[u].at = work[u].at /\ work'[u].quietly = FALSE
                        /\ work'[u].run = work[u].run /\ work'[u].index = work[u].index
  BY <1>1 DEF Disturbed
<1>3. work' \in [Tester -> Works]
  BY <1>1 DEF Disturbed
<1>4. \A u \in Tester : WorkFits(work[u])'
  BY <1>2, <1>3 DEF WorkFits, WorkIsKept
<1> QED BY <1>2, <1>3, <1>4 DEF WorkIsKept

LEMMA IdleFits == NoCall \in Works /\ NoCall.at = "idle" /\ WorkFits(NoCall)
<1>1. NoCall \in Works
  BY DEF NoCall, Works
<1>2. NoCall.at = "idle"
  BY DEF NoCall
<1> QED BY <1>1, <1>2 DEF WorkFits, Seeds, Resets

LEMMA OneFinishes ==
  ASSUME WorkIsKept, UNCHANGED production, NEW t \in Tester, work[t].at # "idle", Finishes(t)
  PROVE  WorkIsKept'
<1>1. work' = [work EXCEPT ![t] = NoCall]
  BY DEF Finishes
<1>2. NoCall.at = "idle" /\ WorkFits(NoCall)
  BY IdleFits
<1> HIDE DEF NoCall
<1> QED BY <1>1, <1>2, OneWorks

(* A handler goes on to its next statement.                                *)
LEMMA OneMovesOn ==
  ASSUME WorkIsKept, UNCHANGED production, NEW t \in Tester, work[t].at # "idle", NEW to, MovesOn(t, to),
         to \in Seeds \cup {"removes lines", "removes receipts"},
         to \in Seeds => work[t].at \in Seeds, to \in Resets => work[t].at \in Resets,
         \A w : /\ w.at = to /\ w.run = work[t].run /\ w.index = work[t].index
              /\ work[t].quietly /\ work[t].reset
              => Progress(w)'
  PROVE  WorkIsKept'
<1>1. PICK w : w = [work[t] EXCEPT !.at = to]
  OBVIOUS
<1>2. work' = [work EXCEPT ![t] = w]
  BY <1>1 DEF MovesOn
<1>3. work[t] \in Works
  BY DEF WorkIsKept
<1>4. /\ w \in Works /\ w.at = to /\ w.run = work[t].run /\ w.index = work[t].index
      /\ w.reset = work[t].reset /\ w.quietly = work[t].quietly
  BY <1>1, <1>3 DEF Works
<1>5. to # "sends"
  BY DEF Seeds, Resets
<1>6. WorkFits(w)
  BY <1>4, <1>5 DEF WorkFits, WorkIsKept
<1>7. w.quietly /\ w.reset => Progress(w)'
  BY <1>4
<1> QED BY <1>2, <1>4, <1>6, <1>7, OneWorks

-----------------------------------------------------------------------------
(* Statements that take away.                                              *)

LEMMA BusyIsUnknown ==
  ASSUME HistoryIsKept, NEW t \in Tester, work[t].at # "idle"
  PROVE  ~known
BY DEF HistoryIsKept

LEMMA ReadMineKeeps ==
  ASSUME TestInv, NEW t \in Tester, ReadMine(t)
  PROVE  TestInv'
<1>1. work[t].at = "resets" /\ work[t].at \in Resets /\ work[t].at \in Seeds
  BY DEF ReadMine, Resets, Seeds
<1>2. UNCHANGED <<production, held, itemised, moved, sent, calls, photos, claims, known>>
  BY DEF ReadMine
<1>3. WalletIsKept'
  BY <1>2 DEF TestInv, WalletIsKept, NothingLeftBehind, Exists, NoneMadeUp
<1>4. HistoryIsKept'
  BY <1>1, <1>2, BusyIsUnknown DEF TestInv, HistoryIsKept
<1> DEFINE found == {r.id : r \in held}
<1>5. PICK w : w = [work[t] EXCEPT !.ids = found, !.at = IF found = {} THEN "drops logs" ELSE "drops lines"]
  OBVIOUS
<1>6. work[t] \in Works
  BY DEF TestInv, WorkIsKept
<1>7. found \in SUBSET ReceiptIds
  BY DEF TestInv, WalletIsKept, Paper
<1>8. work' = [work EXCEPT ![t] = w]
  BY <1>5 DEF ReadMine
<1>9. /\ w \in Works /\ w.run = work[t].run /\ w.index = work[t].index
      /\ w.reset = work[t].reset /\ w.quietly = work[t].quietly
      /\ w.at = IF found = {} THEN "drops logs" ELSE "drops lines"
  BY <1>5, <1>6, <1>7 DEF Works, Seeds, Resets
<1>10. WorkFits(w)
  BY <1>1, <1>9 DEF WorkFits, TestInv, WorkIsKept, Resets, Seeds
<1>11. found = {} => held = {} /\ itemised = {}
  BY DEF TestInv, WalletIsKept, NothingLeftBehind, Exists
<1>12. Progress(w)'
  BY <1>2, <1>9, <1>11 DEF Progress
<1>13. WorkIsKept /\ work[t].at # "idle" /\ production' = production
  BY <1>1, <1>2 DEF TestInv
<1>14. WorkIsKept'
  BY <1>8, <1>9, <1>10, <1>12, <1>13, OneWorks
<1> QED BY <1>3, <1>4, <1>14 DEF TestInv

LEMMA DropsLinesKeeps ==
  ASSUME TestInv, NEW t \in Tester, DropsLines(t)
  PROVE  TestInv'
<1>1. PICK to : to = IF work[t].at = "drops lines" THEN "drops receipts" ELSE "removes receipts"
  OBVIOUS
<1>2. /\ work[t].at \in {"drops lines", "removes lines"} /\ MovesOn(t, to) /\ itemised' = itemised \ work[t].ids
      /\ UNCHANGED <<production, held, moved, sent, calls, photos, claims, known>>
  BY <1>1 DEF DropsLines, DropLines
<1>3. WalletIsKept'
  BY <1>2 DEF TestInv, WalletIsKept, NothingLeftBehind, Exists, NoneMadeUp
<1>4. HistoryIsKept'
  BY <1>2, BusyIsUnknown DEF TestInv, HistoryIsKept
<1>5. /\ to \in Seeds \cup {"removes lines", "removes receipts"}
      /\ to \in Seeds => work[t].at \in Seeds
      /\ to \in Resets => work[t].at \in Resets
  BY <1>1, <1>2 DEF Seeds, Resets
<1>6. \A w : w.at = to => Progress(w)'
  BY <1>1 DEF Progress
<1>7. WorkIsKept /\ work[t].at # "idle" /\ production' = production
  BY <1>2 DEF TestInv
<1>8. WorkIsKept'
  BY <1>2, <1>5, <1>6, <1>7, OneMovesOn
<1> QED BY <1>3, <1>4, <1>8 DEF TestInv

LEMMA DropsReceiptsKeeps ==
  ASSUME TestInv, NEW t \in Tester, DropsReceipts(t)
  PROVE  TestInv'
<1>1. /\ work[t].at = "drops receipts" /\ held' = {} /\ itemised' = {} /\ MovesOn(t, "drops logs")
      /\ UNCHANGED <<production, moved, sent, calls, photos, claims, known>>
  BY DEF DropsReceipts
<1>2. WalletIsKept'
  BY <1>1 DEF TestInv, WalletIsKept, NothingLeftBehind, Exists, NoneMadeUp
<1>3. HistoryIsKept'
  BY <1>1, BusyIsUnknown DEF TestInv, HistoryIsKept
<1>4. /\ "drops logs" \in Seeds \cup {"removes lines", "removes receipts"}
      /\ work[t].at \in Seeds /\ work[t].at \in Resets
  BY <1>1 DEF Seeds, Resets
<1>5. \A w : w.at = "drops logs" => Progress(w)'
  BY <1>1 DEF Progress
<1>6. WorkIsKept /\ work[t].at # "idle" /\ production' = production
  BY <1>1 DEF TestInv
<1>7. WorkIsKept'
  BY <1>1, <1>4, <1>5, <1>6, OneMovesOn
<1> QED BY <1>2, <1>3, <1>7 DEF TestInv

LEMMA DropsLogsKeeps ==
  ASSUME TestInv, NEW t \in Tester, DropsLogs(t)
  PROVE  TestInv'
<1>1. /\ work[t].at = "drops logs" /\ moved' = {} /\ MovesOn(t, "writes")
      /\ UNCHANGED <<production, held, itemised, sent, calls, photos, claims, known>>
  BY DEF DropsLogs, DropLogs
<1>2. WalletIsKept'
  BY <1>1 DEF TestInv, WalletIsKept, NothingLeftBehind, Exists, NoneMadeUp
<1>3. HistoryIsKept'
  BY <1>1, BusyIsUnknown DEF TestInv, HistoryIsKept
<1>4. /\ "writes" \in Seeds \cup {"removes lines", "removes receipts"}
      /\ work[t].at \in Seeds /\ work[t].at \in Resets /\ "writes" \notin Resets
  BY <1>1 DEF Seeds, Resets
<1>5. work[t].index = 0 /\ work[t].run \in Nat
  BY <1>4 DEF TestInv, WorkIsKept, WorkFits, Works
<1>6. ASSUME NEW w, w.at = "writes", w.run = work[t].run, w.index = work[t].index,
             work[t].quietly, work[t].reset
      PROVE  Progress(w)'
  <2>1. held = {} /\ itemised = {}
    BY <1>1, <1>6 DEF TestInv, WorkIsKept, Progress
  <2>2. Written(w.run, w.index) = {} /\ Itemised(w.run, w.index) = {} /\ Logged(w.run, w.index) = {}
    BY <1>5, <1>6, HistoryGrows
  <2>3. (HasWritten(w.run, w.index, w.index, w.index))'
    BY <1>1, <2>1, <2>2 DEF HasWritten, Written, Itemised, Logged, Upto, Paying, Index, Seeded, LogFor, PointsAt, balanceAt, age
  <2> QED BY <1>6, <2>3 DEF Progress
<1>7. WorkIsKept /\ work[t].at # "idle" /\ production' = production
  BY <1>1 DEF TestInv
<1>8. WorkIsKept'
  BY <1>1, <1>4, <1>6, <1>7, OneMovesOn
<1> QED BY <1>2, <1>3, <1>8 DEF TestInv

-----------------------------------------------------------------------------
(* Statements that write.                                                  *)

LEMMA HistoryIsFixed ==
  \A call, n : Written(call, n)' = Written(call, n) /\ Itemised(call, n)' = Itemised(call, n) /\ Logged(call, n)' = Logged(call, n)
<1> SUFFICES ASSUME NEW call, NEW n
             PROVE  /\ Written(call, n)' = Written(call, n) /\ Itemised(call, n)' = Itemised(call, n)
                    /\ Logged(call, n)' = Logged(call, n)
  OBVIOUS
<1>1. Written(call, n)' = Written(call, n)
  BY DEF Written, Upto, Index, Seeded, PointsAt
<1>2. Itemised(call, n)' = Itemised(call, n)
  BY DEF Itemised, Upto, Index
<1>3. \A i : balanceAt(i)' = balanceAt(i)
  BY Zenon DEF balanceAt
<1>4. \A i : LogFor(call, i)' = LogFor(call, i)
  BY <1>3 DEF LogFor, age, PointsAt
<1>5. Paying(n)' = Paying(n)
  BY DEF Paying, Upto, Index, PointsAt
<1>6. Logged(call, n)' = Logged(call, n)
  BY <1>4, <1>5 DEF Logged
<1> QED BY <1>1, <1>2, <1>6

LEMMA WritesReceiptKeeps ==
  ASSUME TestInv, NEW t \in Tester, WritesReceipt(t)
  PROVE  TestInv'
<1>1. PICK to : to = IF PointsAt(work[t].index) > 0 THEN "logs" ELSE "itemises"
  OBVIOUS
<1>2. PICK r : r = Seeded(work[t].run, work[t].index)
  OBVIOUS
<1>3. PICK call, i : call = work[t].run /\ i = work[t].index
  OBVIOUS
<1>4. /\ work[t].at = "writes" /\ held' = held \cup {r} /\ MovesOn(t, to)
      /\ UNCHANGED <<production, itemised, moved, sent, calls, photos, claims, known>>
  BY <1>1, <1>2 DEF WritesReceipt
<1>5. work[t].at \in Seeds /\ to \in Seeds /\ to \notin Resets /\ (to = "logs" <=> PointsAt(i) > 0)
      /\ (to = "logs" \/ to = "itemises")
  BY <1>1, <1>3, <1>4 DEF Seeds, Resets
<1>6. call \in Nat /\ i \in Index /\ ~production
  BY <1>3, <1>5 DEF TestInv, WorkIsKept, WorkFits, Works
<1>7. r \in Paper /\ r = Seeded(call, i)
  BY <1>2, <1>3, <1>6, SeededIs
<1>8. WalletIsKept'
  BY <1>4, <1>6, <1>7 DEF TestInv, WalletIsKept, NothingLeftBehind, Exists, NoneMadeUp
<1>9. HistoryIsKept'
  BY <1>4, BusyIsUnknown DEF TestInv, HistoryIsKept
<1>10. ASSUME NEW w, w.at = to, w.run = work[t].run, w.index = work[t].index,
              work[t].quietly, work[t].reset
       PROVE  Progress(w)'
  <2>1. HasWritten(call, i, i, i)
    BY <1>3, <1>4, <1>10 DEF TestInv, WorkIsKept, Progress
  <2>2. held' = Written(call, i + 1) /\ itemised' = Itemised(call, i) /\ moved' = Logged(call, i)
    BY <1>4, <1>6, <1>7, <2>1, HistoryGrows DEF HasWritten
  <2>3. to = "itemises" => moved' = Logged(call, i + 1)
    BY <1>5, <1>6, <2>2, HistoryGrows
  <2>4. w.run = call /\ w.index = i
    BY <1>3, <1>10
  <2>5. PointsAt(i)' = PointsAt(i)
    BY DEF PointsAt
  <2>6. to = "logs" => (PointsAt(w.index) > 0 /\ HasWritten(w.run, w.index + 1, w.index, w.index))'
    BY <1>5, <2>2, <2>4, <2>5, HistoryIsFixed DEF HasWritten
  <2>7. to = "itemises" => (HasWritten(w.run, w.index + 1, w.index, w.index + 1))'
    BY <2>2, <2>3, <2>4, HistoryIsFixed DEF HasWritten
  <2> QED BY <1>5, <1>10, <2>6, <2>7 DEF Progress
<1>11. WorkIsKept /\ work[t].at # "idle" /\ production' = production
  BY <1>4 DEF TestInv
<1>12. WorkIsKept'
  BY <1>4, <1>5, <1>10, <1>11, OneMovesOn
<1> QED BY <1>8, <1>9, <1>12 DEF TestInv

LEMMA WritesLogKeeps ==
  ASSUME TestInv, NEW t \in Tester, WritesLog(t)
  PROVE  TestInv'
<1>1. PICK call, i : call = work[t].run /\ i = work[t].index
  OBVIOUS
<1>2. PICK l : l = LogFor(call, i)
  OBVIOUS
<1>3. /\ work[t].at = "logs" /\ moved' = moved \cup {l} /\ MovesOn(t, "itemises")
      /\ UNCHANGED <<production, held, itemised, sent, calls, photos, claims, known>>
  BY <1>1, <1>2 DEF WritesLog, LogFor
<1>4. /\ work[t].at \in Seeds /\ "itemises" \in Seeds /\ "itemises" \notin Resets
  BY <1>3 DEF Seeds, Resets
<1>5. call \in Nat /\ i \in Index /\ ~production
  BY <1>1, <1>4 DEF TestInv, WorkIsKept, WorkFits, Works
<1>6. l.at \in Int /\ l.at <= 0
  BY <1>2, <1>5, SeededIs DEF LogFor
<1>7. WalletIsKept'
  <2>1. \A m \in moved' : m.at \in Int /\ m.at <= claims'
    BY <1>3, <1>6 DEF TestInv, WalletIsKept
  <2> QED BY <1>3, <1>5, <2>1 DEF TestInv, WalletIsKept, NothingLeftBehind, Exists, NoneMadeUp
<1>8. HistoryIsKept'
  BY <1>3, BusyIsUnknown DEF TestInv, HistoryIsKept
<1>9. ASSUME NEW w, w.at = "itemises", w.run = work[t].run, w.index = work[t].index,
             work[t].quietly, work[t].reset
      PROVE  Progress(w)'
  <2>1. PointsAt(i) > 0 /\ HasWritten(call, i + 1, i, i)
    BY <1>1, <1>3, <1>9 DEF TestInv, WorkIsKept, Progress
  <2>2. held' = Written(call, i + 1) /\ itemised' = Itemised(call, i) /\ moved' = Logged(call, i + 1)
    BY <1>2, <1>3, <1>5, <2>1, HistoryGrows DEF HasWritten
  <2>3. w.run = call /\ w.index = i
    BY <1>1, <1>9
  <2>4. (HasWritten(w.run, w.index + 1, w.index, w.index + 1))'
    BY <2>2, <2>3, HistoryIsFixed DEF HasWritten
  <2> QED BY <1>9, <2>4 DEF Progress
<1>10. WorkIsKept /\ work[t].at # "idle" /\ production' = production
  BY <1>3 DEF TestInv
<1>11. WorkIsKept'
  BY <1>3, <1>4, <1>9, <1>10, OneMovesOn
<1> QED BY <1>7, <1>8, <1>11 DEF TestInv

LEMMA WritesLinesKeeps ==
  ASSUME TestInv, NEW t \in Tester, WritesLines(t)
  PROVE  TestInv'
<1>1. PICK call, i : call = work[t].run /\ i = work[t].index
  OBVIOUS
<1>2. PICK id : id = <<call, i>>
  OBVIOUS
<1>3. /\ work[t].at = "itemises"
      /\ UNCHANGED <<production, held, moved, sent, calls, photos, claims>>
  BY DEF WritesLines
<1>4. work[t].at \in Seeds /\ "writes" \in Seeds /\ "writes" \notin Resets
  BY <1>3 DEF Seeds, Resets
<1>5. call \in 1..MaxCalls /\ i \in Index /\ ~production /\ work[t] \in Works
  BY <1>1, <1>4 DEF TestInv, WorkIsKept, WorkFits
<1>6. call \in Nat /\ i \in Nat
  BY <1>5, TestAssumption DEF Index
<1>7. WorkIsKept /\ work[t].at # "idle" /\ production' = production
  BY <1>3 DEF TestInv
<1>8. CASE ~Exists(id)
  <2>1. Finishes(t) /\ UNCHANGED <<itemised, known>>
    BY <1>1, <1>2, <1>8 DEF WritesLines
  <2>2. WorkIsKept'
    BY <1>7, <2>1, OneFinishes
  <2>3. WalletIsKept'
    BY <1>3, <2>1 DEF TestInv, WalletIsKept, NothingLeftBehind, Exists, NoneMadeUp
  <2>4. HistoryIsKept'
    BY <1>3, <2>1, BusyIsUnknown DEF TestInv, HistoryIsKept
  <2> QED BY <2>2, <2>3, <2>4 DEF TestInv
<1>9. CASE Exists(id)
  <2>1. /\ itemised' = itemised \cup {id}
        /\ i + 1 \in Index =>
              /\ work' = [work EXCEPT ![t].index = @ + 1, ![t].at = "writes"]
              /\ UNCHANGED known
        /\ i + 1 \notin Index => Finishes(t) /\ known' = (work[t].reset /\ work[t].quietly)
    BY <1>1, <1>2, <1>9 DEF WritesLines
  <2>2. WalletIsKept'
    <3>1. known' \in BOOLEAN
      BY <1>5, <2>1 DEF Works, TestInv, WalletIsKept
    <3> QED BY <1>3, <1>9, <2>1, <3>1 DEF TestInv, WalletIsKept, NothingLeftBehind, Exists, NoneMadeUp
  <2>3. ASSUME work[t].quietly, work[t].reset
        PROVE  held' = Written(call, i + 1) /\ itemised' = Itemised(call, i + 1) /\ moved' = Logged(call, i + 1)
    <3>1. HasWritten(call, i + 1, i, i + 1)
      BY <1>1, <1>3, <2>3 DEF TestInv, WorkIsKept, Progress
    <3> QED BY <1>2, <1>3, <1>5, <1>6, <2>1, <3>1, HistoryGrows DEF HasWritten
  <2>4. CASE i + 1 \in Index
    <3>1. PICK w : w = [work[t] EXCEPT !.index = i + 1, !.at = "writes"]
      OBVIOUS
    <3>2. work' = [work EXCEPT ![t] = w]
      BY <1>1, <2>1, <2>4, <3>1
    <3>3. /\ w \in Works /\ w.at = "writes" /\ w.run = call /\ w.index = i + 1
          /\ w.reset = work[t].reset /\ w.quietly = work[t].quietly
      <4>0. PICK u : u = work[t]
        OBVIOUS
      <4>1. PICK v : v = [u EXCEPT !.index = i + 1]
        OBVIOUS
      <4>4. u \in Works /\ i + 1 \in Nat /\ u.run = call
        BY <1>1, <1>5, <1>6, <4>0
      <4>5. v \in Works /\ v.run = u.run /\ v.index = i + 1 /\ v.reset = u.reset /\ v.quietly = u.quietly
        BY <4>1, <4>4 DEF Works
      <4>2. /\ v \in Works /\ v.run = call /\ v.index = i + 1
            /\ v.reset = work[t].reset /\ v.quietly = work[t].quietly
        BY <4>0, <4>4, <4>5
      <4>3. w = [v EXCEPT !.at = "writes"]
        BY <3>1, <4>0, <4>1
      <4> QED BY <1>4, <4>2, <4>3 DEF Works
    <3>4. WorkFits(w)
      BY <1>5, <2>4, <3>3, <1>4 DEF WorkFits
    <3>5. w.quietly /\ w.reset => Progress(w)'
      BY <2>3, <3>3, HistoryIsFixed DEF Progress, HasWritten
    <3>6. WorkIsKept'
      BY <1>7, <3>2, <3>3, <3>4, <3>5, OneWorks
    <3>7. HistoryIsKept'
      BY <1>3, <2>1, <2>4, BusyIsUnknown DEF TestInv, HistoryIsKept
    <3> QED BY <2>2, <3>6, <3>7 DEF TestInv
  <2>5. CASE i + 1 \notin Index
    <3>1. WorkIsKept'
      BY <1>7, <2>1, <2>5, OneFinishes
    <3>2. ASSUME known' PROVE (\A u \in Tester : work'[u].at = "idle") /\ \E k \in 1..MaxCalls : Stands(k)'
      <4>1. work[t].reset /\ work[t].quietly
        BY <2>1, <2>5, <3>2
      <4>2. \A u \in Tester : work'[u].at = "idle"
        <5>1. \A u \in Tester \ {t} : work[u].at = "idle"
          BY <1>3, <4>1 DEF TestInv, WorkIsKept
        <5>2. work' = [work EXCEPT ![t] = NoCall] /\ NoCall.at = "idle" /\ DOMAIN work = Tester
          BY <1>7, <2>1, <2>5, IdleFits DEF Finishes, WorkIsKept
        <5> QED BY <5>1, <5>2
      <4>3. i + 1 = Receipts
        BY <1>5, <1>6, <2>5, TestAssumption DEF Index
      <4>4. held' = Written(call, Receipts) /\ itemised' = Itemised(call, Receipts) /\ moved' = Logged(call, Receipts)
        BY <2>3, <4>1, <4>3
      <4>5. Stands(call)'
        BY <1>6, <4>4, SeedingEndsNext, HistoryIsFixed DEF StandsWhenWritten
      <4> QED BY <1>5, <4>2, <4>5
    <3>3. HistoryIsKept'
      BY <3>2 DEF HistoryIsKept
    <3> QED BY <2>2, <3>1, <3>3 DEF TestInv
  <2> QED BY <2>4, <2>5
<1> QED BY <1>8, <1>9

-----------------------------------------------------------------------------
(* Handlers that begin, photos, removals and handlers that break off.      *)

LEMMA BeginSeedKeeps ==
  ASSUME TestInv, NEW t \in Tester, BeginSeed(t)
  PROVE  TestInv'
<1>1. PICK reset \in BOOLEAN :
          TakesUp(t, [NoCall EXCEPT !.at = IF reset THEN "resets" ELSE "writes",
                                 !.run = calls + 1, !.reset = reset])
  BY DEF BeginSeed
<1>2. PICK w : w = [NoCall EXCEPT !.at = IF reset THEN "resets" ELSE "writes",
                               !.run = calls + 1, !.reset = reset]
  OBVIOUS
<1>3. /\ ~production /\ calls < MaxCalls /\ calls' = calls + 1 /\ known' = FALSE
      /\ UNCHANGED <<production, held, itemised, moved, sent, photos, claims>>
  BY DEF BeginSeed
<1>4. WalletIsKept'
  <2>1. calls' \in Nat /\ calls' <= MaxCalls
    BY <1>3, TestAssumption DEF TestInv, WalletIsKept
  <2> QED BY <1>3, <2>1 DEF TestInv, WalletIsKept, NothingLeftBehind, Exists, NoneMadeUp
<1>5. HistoryIsKept'
  BY <1>3 DEF HistoryIsKept
<1>6. calls + 1 \in Nat /\ calls + 1 \in 1..MaxCalls
  BY <1>3, TestAssumption DEF TestInv, WalletIsKept
<1>7. /\ w \in Works /\ w.at = (IF reset THEN "resets" ELSE "writes") /\ w.run = calls + 1 /\ w.index = 0
      /\ w.reset = reset
  BY <1>2, <1>6 DEF NoCall, Works, Seeds, Resets
<1>8. 0 \in Index
  BY HistoryEnds
<1>9. WorkFits(w)
  BY <1>3, <1>6, <1>7, <1>8 DEF WorkFits
<1>10. WorkIsKept /\ TakesUp(t, w) /\ production' = production
  BY <1>1, <1>2, <1>3 DEF TestInv
<1>11. w.at # "drops logs" /\ (w.at # "writes" \/ ~w.reset) /\ w.at # "logs" /\ w.at # "itemises"
  BY <1>7
<1>12. WorkIsKept'
  BY <1>9, <1>10, <1>11, OneStarts
<1> QED BY <1>4, <1>5, <1>12 DEF TestInv

LEMMA BeginPhotoKeeps ==
  ASSUME TestInv, NEW t \in Tester, BeginPhoto(t)
  PROVE  TestInv'
<1>1. PICK w : w = [NoCall EXCEPT !.at = "sends", !.run = photos + 1]
  OBVIOUS
<1>2. PICK r : r = [id |-> PhotoId(photos + 1), status |-> "pending", points |-> 0]
  OBVIOUS
<1>3. /\ photos' = photos + 1 /\ TakesUp(t, w) /\ held' = held \cup {r} /\ known' = FALSE
      /\ UNCHANGED <<production, itemised, moved, sent, calls, claims>>
  BY <1>1, <1>2 DEF BeginPhoto
<1>4. photos \in Nat /\ photos + 1 \in Nat /\ photos + 1 # 0
  BY DEF TestInv, WalletIsKept
<1>5. r \in Paper /\ r.id \in PhotoIds
  BY <1>2, <1>4, TestAssumption DEF PhotoId, Paper, PhotoIds, ReceiptIds
<1>6. WalletIsKept'
  BY <1>3, <1>4, <1>5 DEF TestInv, WalletIsKept, NothingLeftBehind, Exists, NoneMadeUp
<1>7. HistoryIsKept'
  BY <1>3 DEF HistoryIsKept
<1>8. w \in Works /\ w.at = "sends" /\ w.run = photos + 1
  BY <1>1, <1>4 DEF NoCall, Works
<1>9. WorkFits(w)
  BY <1>4, <1>8 DEF WorkFits, Seeds, Resets
<1>10. WorkIsKept /\ production' = production
  BY <1>3 DEF TestInv
<1>11. w.at # "drops logs" /\ w.at # "writes" /\ w.at # "logs" /\ w.at # "itemises"
  BY <1>8
<1>12. WorkIsKept'
  BY <1>3, <1>9, <1>10, <1>11, OneStarts
<1> QED BY <1>6, <1>7, <1>12 DEF TestInv

LEMMA SendsPhotoKeeps ==
  ASSUME TestInv, NEW t \in Tester, SendsPhoto(t)
  PROVE  TestInv'
<1>1. PICK id : id = PhotoId(work[t].run)
  OBVIOUS
<1>2. /\ work[t].at = "sends" /\ Finishes(t) /\ sent' = sent \cup {id}
      /\ UNCHANGED <<production, held, itemised, moved, calls, photos, claims, known>>
  BY <1>1 DEF SendsPhoto
<1>3. work[t].run \in Nat /\ work[t].run # 0
  BY <1>2 DEF TestInv, WorkIsKept, WorkFits, Works
<1>4. id \in PhotoIds
  BY <1>1, <1>3, TestAssumption DEF PhotoId, PhotoIds, ReceiptIds
<1>5. WalletIsKept'
  BY <1>2, <1>4 DEF TestInv, WalletIsKept, NothingLeftBehind, Exists, NoneMadeUp
<1>6. HistoryIsKept'
  BY <1>2, BusyIsUnknown DEF TestInv, HistoryIsKept
<1>7. WorkIsKept'
  BY <1>2, OneFinishes DEF TestInv
<1> QED BY <1>5, <1>6, <1>7 DEF TestInv

LEMMA BeginRemoveKeeps ==
  ASSUME TestInv, NEW t \in Tester, BeginRemove(t)
  PROVE  TestInv'
<1>1. PICK ids : ids = {r.id : r \in held}
  OBVIOUS
<1>2. PICK w : w = [NoCall EXCEPT !.at = "removes lines", !.ids = ids]
  OBVIOUS
<1>3. /\ calls < MaxCalls /\ calls' = calls + 1 /\ TakesUp(t, w) /\ known' = FALSE
      /\ UNCHANGED <<production, held, itemised, moved, sent, photos, claims>>
  BY <1>1, <1>2 DEF BeginRemove
<1>4. WalletIsKept'
  <2>1. calls' \in Nat /\ calls' <= MaxCalls
    BY <1>3, TestAssumption DEF TestInv, WalletIsKept
  <2> QED BY <1>3, <2>1 DEF TestInv, WalletIsKept, NothingLeftBehind, Exists, NoneMadeUp
<1>5. HistoryIsKept'
  BY <1>3 DEF HistoryIsKept
<1>6. ids \in SUBSET ReceiptIds
  BY <1>1 DEF TestInv, WalletIsKept, Paper
<1>7. w \in Works /\ w.at = "removes lines"
  BY <1>2, <1>6 DEF NoCall, Works
<1>8. WorkFits(w)
  BY <1>7 DEF WorkFits, Seeds, Resets
<1>9. WorkIsKept /\ production' = production
  BY <1>3 DEF TestInv
<1>10. w.at # "drops logs" /\ w.at # "writes" /\ w.at # "logs" /\ w.at # "itemises"
  BY <1>7
<1>11. WorkIsKept'
  BY <1>3, <1>8, <1>9, <1>10, OneStarts
<1> QED BY <1>4, <1>5, <1>11 DEF TestInv

LEMMA RemovesReceiptsKeeps ==
  ASSUME TestInv, NEW t \in Tester, RemovesReceipts(t)
  PROVE  TestInv'
<1>1. /\ work[t].at = "removes receipts" /\ held' = {} /\ itemised' = {} /\ Finishes(t)
      /\ UNCHANGED <<production, moved, sent, calls, photos, claims, known>>
  BY DEF RemovesReceipts
<1>2. WalletIsKept'
  BY <1>1 DEF TestInv, WalletIsKept, NothingLeftBehind, Exists, NoneMadeUp
<1>3. HistoryIsKept'
  BY <1>1, BusyIsUnknown DEF TestInv, HistoryIsKept
<1>4. WorkIsKept'
  BY <1>1, OneFinishes DEF TestInv
<1> QED BY <1>2, <1>3, <1>4 DEF TestInv

LEMMA BreaksOffKeeps ==
  ASSUME TestInv, NEW t \in Tester, BreaksOff(t)
  PROVE  TestInv'
<1>1. /\ work[t].at # "idle" /\ Finishes(t)
      /\ UNCHANGED <<production, held, itemised, moved, sent, calls, photos, claims, known>>
  BY DEF BreaksOff
<1>2. WalletIsKept'
  BY <1>1 DEF TestInv, WalletIsKept, NothingLeftBehind, Exists, NoneMadeUp
<1>3. HistoryIsKept'
  BY <1>1, BusyIsUnknown DEF TestInv, HistoryIsKept
<1>4. WorkIsKept'
  BY <1>1, OneFinishes DEF TestInv
<1> QED BY <1>2, <1>3, <1>4 DEF TestInv

-----------------------------------------------------------------------------
(* A delivery finds no receipt of a history that stands: those were never  *)
(* sent.                                                                   *)
LEMMA AnalyseKeeps ==
  ASSUME TestInv, Analyse
  PROVE  TestInv'
<1>1. PICK id \in sent :
          /\ sent' = sent \ {id}
          /\ IF Exists(id)
             THEN /\ held' = {IF r.id = id THEN [r EXCEPT !.status = "claimable", !.points = 22] ELSE r : r \in held}
                  /\ itemised' = itemised \cup {id}
             ELSE UNCHANGED <<held, itemised>>
  BY DEF Analyse
<1>2. work' = Disturbed /\ UNCHANGED <<production, moved, calls, photos, claims, known>>
  BY DEF Analyse
<1>3. WorkIsKept' /\ \A t \in Tester : work'[t].at = work[t].at
  BY <1>2, AllDisturbed DEF TestInv
<1>4. CASE ~Exists(id)
  <2>1. UNCHANGED <<held, itemised>>
    BY <1>1, <1>4
  <2>2. WalletIsKept'
    BY <1>1, <1>2, <2>1 DEF TestInv, WalletIsKept, NothingLeftBehind, Exists, NoneMadeUp
  <2>3. HistoryIsKept'
    BY <1>2, <1>3, <2>1, StandsStill DEF TestInv, HistoryIsKept
  <2> QED BY <1>3, <2>2, <2>3 DEF TestInv
<1>5. CASE Exists(id)
  <2> DEFINE Read(r) == IF r.id = id THEN [r EXCEPT !.status = "claimable", !.points = 22] ELSE r
  <2>1. held' = {Read(r) : r \in held} /\ itemised' = itemised \cup {id}
    BY <1>1, <1>5
  <2>2. \A r \in Paper : Read(r) \in Paper /\ Read(r).id = r.id
    BY DEF Paper
  <2> HIDE DEF Read
  <2>3. held \in SUBSET Paper
    BY DEF TestInv, WalletIsKept
  <2>4. held' \in SUBSET Paper /\ \A r \in held : \E q \in held' : q.id = r.id
    BY <2>1, <2>2, <2>3
  <2>5. \A q \in held' : \E r \in held : q.id = r.id
    BY <2>1, <2>2, <2>3
  <2>6. \A k : Exists(k)' <=> Exists(k)
    BY <2>4, <2>5 DEF Exists
  <2>7. NothingLeftBehind'
    BY <1>5, <2>1, <2>6 DEF TestInv, WalletIsKept, NothingLeftBehind
  <2>8. WalletIsKept'
    <3>1. (production => \A r \in held : r.id \in PhotoIds)'
      BY <1>2, <2>5 DEF TestInv, WalletIsKept
    <3> QED BY <1>1, <1>2, <2>4, <2>7, <3>1 DEF TestInv, WalletIsKept, NoneMadeUp
  <2>9. ~known
    <3> SUFFICES ASSUME known PROVE FALSE
      OBVIOUS
    <3>1. PICK call \in 1..MaxCalls : Stands(call)
      BY DEF TestInv, HistoryIsKept
    <3>2. \A r \in held : \E i \in Index : r.id = <<call, i>>
      BY <3>1 DEF Stands, IsHistory
    <3>3. PICK i \in Index : id = <<call, i>>
      BY <1>5, <3>2 DEF Exists
    <3>4. id[1] > MaxCalls
      BY <1>1 DEF TestInv, WalletIsKept, PhotoIds
    <3>5. call \in Nat /\ call <= MaxCalls /\ id[1] = call /\ MaxCalls \in Nat
      BY <3>1, <3>3, TestAssumption
    <3> QED BY <3>4, <3>5
  <2>10. HistoryIsKept'
    BY <1>2, <2>9 DEF HistoryIsKept
  <2> QED BY <1>3, <2>8, <2>10 DEF TestInv
<1> QED BY <1>4, <1>5

LEMMA ClaimOneKeeps ==
  ASSUME TestInv, ClaimOne
  PROVE  TestInv'
<1>1. PICK r \in held, balance \in Balances :
          /\ held' = (held \ {r}) \cup {[r EXCEPT !.status = "claimed"]}
          /\ moved' = moved \cup {[id |-> r.id, diff |-> r.points, after |-> balance + r.points,
                                   at |-> claims + 1]}
  BY DEF ClaimOne
<1>2. PICK q : q = [r EXCEPT !.status = "claimed"]
  OBVIOUS
<1>3. PICK l : l = [id |-> r.id, diff |-> r.points, after |-> balance + r.points, at |-> claims + 1]
  OBVIOUS
<1>4. /\ held' = (held \ {r}) \cup {q} /\ moved' = moved \cup {l} /\ claims' = claims + 1 /\ work' = Disturbed
      /\ UNCHANGED <<production, itemised, sent, calls, photos, known>>
  BY <1>1, <1>2, <1>3 DEF ClaimOne
<1>5. WorkIsKept' /\ \A t \in Tester : work'[t].at = work[t].at
  BY <1>4, AllDisturbed DEF TestInv
<1>6. r \in Paper /\ claims \in Nat
  BY DEF TestInv, WalletIsKept
<1>7. q \in Paper /\ q.id = r.id
  BY <1>2, <1>6 DEF Paper
<1>8. l.id = r.id /\ l.at = claims + 1
  BY <1>3
<1>9. WalletIsKept'
  <2>1. claims' \in Nat /\ claims' >= claims /\ l.at \in Int /\ l.at <= claims' /\ l.at > 0
    BY <1>4, <1>6, <1>8
  <2>2. \A m \in moved' : m.at \in Int /\ m.at <= claims'
    BY <1>4, <1>6, <2>1 DEF TestInv, WalletIsKept
  <2>3. NothingLeftBehind'
    BY <1>4, <1>7 DEF TestInv, WalletIsKept, NothingLeftBehind, Exists
  <2>4. held' \in SUBSET Paper /\ (production => \A p \in held : p.id \in PhotoIds)'
    BY <1>4, <1>7 DEF TestInv, WalletIsKept
  <2>5. NoneMadeUp'
    BY <1>4, <1>8, <2>1 DEF TestInv, WalletIsKept, NoneMadeUp, PhotoIds
  <2> QED BY <1>4, <2>1, <2>2, <2>3, <2>4, <2>5 DEF TestInv, WalletIsKept
<1>10. HistoryIsKept'
  <2>1. ASSUME known PROVE \E call \in 1..MaxCalls : Stands(call)'
    <3>1. PICK call \in 1..MaxCalls : Stands(call)
      BY <2>1 DEF TestInv, HistoryIsKept
    <3>2. call \in Nat
      BY <3>1
    <3>3. claims \in Nat /\ \A m \in moved : m.at \in Int /\ m.at <= claims
      BY DEF TestInv, WalletIsKept
    <3>4. Stands(call)'
      BY <3>1, <3>2, <3>3, ClaimStands
    <3> QED BY <3>4
  <2> QED BY <1>4, <1>5, <2>1 DEF TestInv, HistoryIsKept
<1> QED BY <1>5, <1>9, <1>10 DEF TestInv

-----------------------------------------------------------------------------
(* A seeding over an emptied wallet that nobody disturbed leaves the       *)
(* receipts and the balance it was asked for, no line outlives its         *)
(* receipt, and production has no balance that was made up.                *)
THEOREM TestDataHolds == TestSpec => []TestDataAddsUp
<1>1. TestInit => TestInv
  <2> SUFFICES ASSUME TestInit PROVE TestInv
    OBVIOUS
  <2>1. work = [t \in Tester |-> NoCall] /\ NoCall \in Works /\ NoCall.at = "idle" /\ WorkFits(NoCall)
    BY IdleFits DEF TestInit
  <2> HIDE DEF NoCall
  <2>2. work \in [Tester -> Works] /\ \A t \in Tester : work[t] = NoCall
    BY <2>1
  <2>3. WorkIsKept
    BY <2>1, <2>2 DEF WorkIsKept
  <2>4. WalletIsKept
    <3>1. calls \in Nat /\ calls <= MaxCalls /\ photos \in Nat /\ claims \in Nat
      BY TestAssumption DEF TestInit
    <3>2. held \in SUBSET Paper /\ sent \in SUBSET PhotoIds
      BY DEF TestInit
    <3>3. /\ \A l \in moved : l.at \in Int /\ l.at <= claims
          /\ production \in BOOLEAN /\ known \in BOOLEAN
          /\ NothingLeftBehind /\ NoneMadeUp /\ \A r \in held : r.id \in PhotoIds
      BY DEF TestInit, NothingLeftBehind, NoneMadeUp
    <3> QED BY <3>1, <3>2, <3>3 DEF WalletIsKept
  <2>5. HistoryIsKept
    BY DEF TestInit, HistoryIsKept
  <2> QED BY <2>3, <2>4, <2>5 DEF TestInv
<1>2. TestInv /\ [TestNext]_testVars => TestInv'
  <2> SUFFICES ASSUME TestInv, [TestNext]_testVars PROVE TestInv'
    OBVIOUS
  <2>1. CASE UNCHANGED testVars
    <3>1. UNCHANGED <<production, held, itemised, moved, sent, work, calls, photos, claims, known>>
      BY <2>1 DEF testVars
    <3>2. WorkIsKept'
      BY <3>1 DEF TestInv, WorkIsKept, WorkFits, Progress, HasWritten
    <3>3. WalletIsKept'
      BY <3>1 DEF TestInv, WalletIsKept, NothingLeftBehind, Exists, NoneMadeUp
    <3>4. HistoryIsKept'
      BY <3>1, StandsStill DEF TestInv, HistoryIsKept
    <3> QED BY <3>2, <3>3, <3>4 DEF TestInv
  <2>2. ASSUME NEW t \in Tester,
               BeginSeed(t) \/ ReadMine(t) \/ DropsLines(t) \/ DropsReceipts(t) \/ DropsLogs(t)
        PROVE  TestInv'
    BY <2>2, BeginSeedKeeps, ReadMineKeeps, DropsLinesKeeps, DropsReceiptsKeeps, DropsLogsKeeps
  <2>3. ASSUME NEW t \in Tester, WritesReceipt(t) \/ WritesLog(t) \/ WritesLines(t)
        PROVE  TestInv'
    BY <2>3, WritesReceiptKeeps, WritesLogKeeps, WritesLinesKeeps
  <2>4. ASSUME NEW t \in Tester,
               BeginPhoto(t) \/ SendsPhoto(t) \/ BeginRemove(t) \/ RemovesReceipts(t) \/ BreaksOff(t)
        PROVE  TestInv'
    BY <2>4, BeginPhotoKeeps, SendsPhotoKeeps, BeginRemoveKeeps, RemovesReceiptsKeeps, BreaksOffKeeps
  <2>5. CASE Analyse
    BY <2>5, AnalyseKeeps
  <2>6. CASE ClaimOne
    BY <2>6, ClaimOneKeeps
  <2> QED BY <2>1, <2>2, <2>3, <2>4, <2>5, <2>6 DEF TestNext
<1>3. TestInv => TestDataAddsUp
  <2> SUFFICES ASSUME TestInv PROVE TestDataAddsUp
    OBVIOUS
  <2>1. NothingLeftBehind /\ NoneMadeUp
    BY DEF TestInv, WalletIsKept
  <2>2. ASSUME known
        PROVE  /\ Cardinality(held) = Receipts /\ itemised = {r.id : r \in held}
               /\ MapThenSumSet(LAMBDA l : l.diff, moved) = Counted("claimed")
               /\ NewestFirst => Balances = {Counted("claimed")}
    <3>1. PICK call \in 1..MaxCalls : Stands(call)
      BY <2>2 DEF TestInv, HistoryIsKept
    <3>2. call \in Nat
      BY <3>1
    <3> QED BY <3>1, <3>2, StandingAddsUp
  <2>3. SeededLedgerAddsUp
    BY <2>2, Zenon DEF SeededLedgerAddsUp
  <2> QED BY <2>1, <2>3 DEF TestDataAddsUp
<1> QED BY <1>1, <1>2, <1>3, PTL DEF TestSpec

-----------------------------------------------------------------------------
(* What is on the chain only grows, and an epoch once opened keeps its     *)
(* close.  A pool is bound to a market of an open epoch, and funded bound. *)
Names == {"TestUSD", "HaloIndexOracle", "EpochVault", "HaloHook", "HaloResolver", "setOpenInterest",
          "setBondPerCollateralUnit", "setMinBond", "DemoRouter", "mint", "approveVault", "approveRouter",
          "openEpoch", "createMarket", "split", "approveHigh", "bindPool", "initialize", "addLiquidity", "swap"}
Txs == [do : Names, epoch : Epoch, closes : Nat]
Runs == [pc : {"ready", "sending", "refused", "stopped"}, sends : Seq(Txs), nonce : Nat, disturbed : BOOLEAN]

IsChain(c) ==
    /\ c = [today |-> c.today, nonce |-> c.nonce, done |-> c.done, closes |-> c.closes,
            markets |-> c.markets, bound |-> c.bound, initialized |-> c.initialized, funded |-> c.funded,
            traded |-> c.traded, dollars |-> c.dollars, high |-> c.high, allowed |-> c.allowed]
    /\ c.today \in Nat /\ c.nonce \in Nat /\ c.closes \in [Epoch -> Nat]

(* For a call, another that comes before it in every script.               *)
Needs == {<<"bindPool", "createMarket">>, <<"bindPool", "openEpoch">>, <<"setMinBond", "setOpenInterest">>}
Has(c, do, e) ==
    /\ do = "createMarket" => e \in c.markets
    /\ do = "openEpoch" => c.closes[e] # 0
    /\ do = "setOpenInterest" => do \in c.done
Before(s, j, do, e) == \E k \in DOMAIN s : k < j /\ s[k].do = do /\ s[k].epoch = e

(* What a call needs is there, or is to be sent before it.                 *)
Ready(c, tx) == \A do : <<tx.do, do>> \in Needs => Has(c, do, tx.epoch)
Prepared(c, s) ==
    \A j \in DOMAIN s : \A do :
        <<s[j].do, do>> \in Needs => Has(c, do, s[j].epoch) \/ Before(s, j, do, s[j].epoch)

Founded(c) ==
    /\ \A e \in c.bound : e \in c.markets /\ c.closes[e] # 0
    /\ c.funded \subseteq c.bound /\ c.bound \subseteq Epoch
    /\ "setMinBond" \in c.done => "setOpenInterest" \in c.done

Grows(c, d) ==
    /\ c.markets \subseteq d.markets /\ c.done \subseteq d.done
    /\ \A e \in Epoch : c.closes[e] # 0 => d.closes[e] # 0

(* What one call changes, as far as pools and their markets go.            *)
Follows(c, tx, d) ==
    /\ d.today = c.today /\ d.nonce = c.nonce
    /\ d.markets = IF tx.do = "createMarket" THEN c.markets \cup {tx.epoch} ELSE c.markets
    /\ d.bound = IF tx.do = "bindPool" THEN c.bound \cup {tx.epoch} ELSE c.bound
    /\ d.funded = IF tx.do = "addLiquidity" THEN c.funded \cup {tx.epoch} ELSE c.funded
    /\ d.done = c.done \/ d.done = c.done \cup {tx.do}
    /\ tx.do \in {"setOpenInterest", "setMinBond"} => d.done = c.done \cup {tx.do}
    /\ d.closes = IF tx.do = "openEpoch" THEN [c.closes EXCEPT ![tx.epoch] = tx.closes] ELSE c.closes

LEMMA EffectIs ==
  ASSUME NEW c, IsChain(c), NEW r, NEW tx \in Txs, NEW d, d = Effect(c, r, tx)
  PROVE  IsChain(d) /\ Follows(c, tx, d)
<1>1. tx.epoch \in Epoch /\ tx.closes \in Nat
  BY DEF Txs
<1>2. CASE tx.do \in {"mint", "approveVault", "approveRouter", "approveHigh", "split", "initialize", "swap"}
  BY <1>2 DEF Effect, IsChain, Follows
<1>3. CASE tx.do = "openEpoch"
  BY <1>1, <1>3 DEF Effect, IsChain, Follows
<1>4. CASE tx.do = "createMarket"
  BY <1>4 DEF Effect, IsChain, Follows
<1>5. CASE tx.do = "bindPool"
  BY <1>5 DEF Effect, IsChain, Follows
<1>6. CASE tx.do = "addLiquidity"
  BY <1>6 DEF Effect, IsChain, Follows
<1>7. CASE tx.do \notin {"mint", "approveVault", "approveRouter", "approveHigh", "split", "initialize", "swap",
                         "openEpoch", "createMarket", "bindPool", "addLiquidity"}
  BY <1>7 DEF Effect, IsChain, Follows
<1> QED BY <1>2, <1>3, <1>4, <1>5, <1>6, <1>7

(* A call that finds what it needs.                                        *)
LEMMA EffectFounds ==
  ASSUME NEW c, IsChain(c), Founded(c), NEW r, NEW tx \in Txs, NEW d, d = Effect(c, r, tx),
         Ready(c, tx), Accepts(c, r, tx)
  PROVE  IsChain(d) /\ Founded(d) /\ Grows(c, d) /\ Has(d, tx.do, tx.epoch)
<1>1. tx.epoch \in Epoch /\ tx.closes \in Nat
  BY DEF Txs
<1>2. IsChain(d) /\ Follows(c, tx, d)
  BY EffectIs
<1>3. c.today \in Nat /\ c.closes \in [Epoch -> Nat]
  BY DEF IsChain
<1>4. tx.do = "openEpoch" => tx.closes # 0
  BY <1>1, <1>3 DEF Accepts
<1>5. \A e \in Epoch : c.closes[e] # 0 => d.closes[e] # 0
  BY <1>1, <1>2, <1>3, <1>4 DEF Follows
<1>6. tx.do = "openEpoch" => d.closes[tx.epoch] # 0
  BY <1>1, <1>2, <1>3, <1>4 DEF Follows
<1>7. Grows(c, d)
  BY <1>2, <1>5 DEF Grows, Follows
<1>8. Has(d, tx.do, tx.epoch)
  BY <1>2, <1>6 DEF Has, Follows
<1>9. \A e \in d.bound : e \in d.markets /\ d.closes[e] # 0 /\ e \in Epoch
  <2>1. CASE tx.do = "bindPool"
    <3>1. tx.epoch \in c.markets /\ c.closes[tx.epoch] # 0
      BY <2>1 DEF Ready, Needs, Has
    <3>2. d.bound = c.bound \cup {tx.epoch} /\ d.markets = c.markets /\ d.closes = c.closes
      BY <1>2, <2>1 DEF Follows
    <3> QED BY <1>1, <3>1, <3>2 DEF Founded
  <2>2. CASE tx.do # "bindPool"
    <3>1. d.bound = c.bound /\ c.markets \subseteq d.markets
      BY <1>2, <2>2 DEF Follows
    <3> QED BY <1>5, <3>1 DEF Founded
  <2> QED BY <2>1, <2>2
<1>10. d.funded \subseteq d.bound
  <2>1. tx.do = "addLiquidity" => tx.epoch \in c.bound
    BY DEF Accepts, HookAllows
  <2> QED BY <1>2, <2>1 DEF Founded, Follows
<1>11. "setMinBond" \in d.done => "setOpenInterest" \in d.done
  <2>1. tx.do = "setMinBond" => "setOpenInterest" \in c.done
    BY DEF Ready, Needs, Has
  <2> QED BY <1>2, <2>1 DEF Founded, Follows
<1> QED BY <1>2, <1>7, <1>8, <1>9, <1>10, <1>11 DEF Founded

LEMMA MinedFounds ==
  ASSUME NEW c, IsChain(c), Founded(c), NEW r, NEW tx \in Txs, NEW d, d = Mined(c, r, tx),
         Ready(c, tx), Accepts(c, r, tx)
  PROVE  IsChain(d) /\ Founded(d) /\ Grows(c, d) /\ Has(d, tx.do, tx.epoch)
<1>1. PICK b : b = Effect(c, r, tx)
  OBVIOUS
<1>2. IsChain(b) /\ Founded(b) /\ Grows(c, b) /\ Has(b, tx.do, tx.epoch)
  BY <1>1, EffectFounds
<1>3. d = [b EXCEPT !.nonce = @ + 1]
  BY <1>1 DEF Mined
<1>4. /\ IsChain(d) /\ d.markets = b.markets /\ d.bound = b.bound /\ d.funded = b.funded /\ d.done = b.done
      /\ d.closes = b.closes
  BY <1>2, <1>3 DEF IsChain
<1> QED BY <1>2, <1>4 DEF Founded, Grows, Has

LEMMA PreparedLater ==
  ASSUME NEW c, NEW d, Grows(c, d), NEW s \in Seq(Txs), Prepared(c, s)
  PROVE  Prepared(d, s)
<1>1. \A j \in DOMAIN s : s[j].epoch \in Epoch
  <2>1. DOMAIN s = 1 .. Len(s) /\ \A j \in 1 .. Len(s) : s[j] \in Txs
    BY ElementOfSeq, LenProperties
  <2> QED BY <2>1 DEF Txs
<1>2. \A j \in DOMAIN s : \A do : Has(c, do, s[j].epoch) => Has(d, do, s[j].epoch)
  BY <1>1 DEF Has, Grows
<1> QED BY <1>2 DEF Prepared

LEMMA PreparedRest ==
  ASSUME NEW d, NEW s \in Seq(Txs), s # <<>>, Prepared(d, s), Has(d, Head(s).do, Head(s).epoch)
  PROVE  Prepared(d, Tail(s)) /\ Tail(s) \in Seq(Txs)
<1>1. /\ Tail(s) \in Seq(Txs) /\ Len(Tail(s)) = Len(s) - 1 /\ Len(s) \in Nat \ {0}
      /\ \A j \in 1 .. Len(s) - 1 : Tail(s)[j] = s[j + 1]
  BY HeadTailProperties, EmptySeq
<1>2. DOMAIN Tail(s) = 1 .. Len(s) - 1 /\ DOMAIN s = 1 .. Len(s) /\ Head(s) = s[1]
  BY <1>1
<1>3. ASSUME NEW j \in DOMAIN Tail(s), NEW do, <<Tail(s)[j].do, do>> \in Needs
      PROVE  Has(d, do, Tail(s)[j].epoch) \/ Before(Tail(s), j, do, Tail(s)[j].epoch)
  <2>1. PICK i : i = j + 1 /\ i \in DOMAIN s /\ Tail(s)[j] = s[i] /\ j \in Nat
    BY <1>1, <1>2
  <2>2. Has(d, do, s[i].epoch) \/ Before(s, i, do, s[i].epoch)
    BY <1>3, <2>1 DEF Prepared
  <2>3. ASSUME Before(s, i, do, s[i].epoch)
        PROVE  Has(d, do, s[i].epoch) \/ Before(Tail(s), j, do, s[i].epoch)
    <3>1. PICK k \in DOMAIN s : k < i /\ s[k].do = do /\ s[k].epoch = s[i].epoch
      BY <2>3 DEF Before
    <3>2. CASE k = 1
      BY <1>2, <3>1, <3>2
    <3>3. CASE k # 1
      <4>1. PICK m : m = k - 1 /\ m \in DOMAIN Tail(s) /\ m < j /\ Tail(s)[m] = s[k]
        BY <1>1, <1>2, <2>1, <3>1, <3>3
      <4> QED BY <3>1, <4>1 DEF Before
    <3> QED BY <3>2, <3>3
  <2> QED BY <2>1, <2>2, <2>3
<1> QED BY <1>1, <1>3 DEF Prepared

(* Two lists of calls, each prepared, one after the other.                 *)
LEMMA PreparedTogether ==
  ASSUME NEW c, NEW s \in Seq(Txs), NEW t \in Seq(Txs), Prepared(c, s), Prepared(c, t)
  PROVE  Prepared(c, s \o t) /\ s \o t \in Seq(Txs)
<1>1. /\ s \o t \in Seq(Txs) /\ Len(s \o t) = Len(s) + Len(t) /\ Len(s) \in Nat /\ Len(t) \in Nat
      /\ \A i \in 1 .. Len(s) : (s \o t)[i] = s[i]
      /\ \A i \in 1 .. Len(t) : (s \o t)[Len(s) + i] = t[i]
  BY ConcatProperties
<1>2. PICK u : u = s \o t
  OBVIOUS
<1>3. DOMAIN u = 1 .. (Len(s) + Len(t)) /\ DOMAIN s = 1 .. Len(s) /\ DOMAIN t = 1 .. Len(t)
  BY <1>1, <1>2
<1>4. ASSUME NEW j \in DOMAIN u, NEW do, <<u[j].do, do>> \in Needs
      PROVE  Has(c, do, u[j].epoch) \/ Before(u, j, do, u[j].epoch)
  <2>1. CASE j <= Len(s)
    <3>1. j \in DOMAIN s /\ u[j] = s[j]
      BY <1>1, <1>2, <1>3, <2>1
    <3>2. Has(c, do, s[j].epoch) \/ Before(s, j, do, s[j].epoch)
      BY <1>4, <3>1 DEF Prepared
    <3>3. \A k \in DOMAIN s : k \in DOMAIN u /\ u[k] = s[k]
      BY <1>1, <1>2, <1>3
    <3>4. Before(s, j, do, s[j].epoch) => Before(u, j, do, s[j].epoch)
      BY <3>3 DEF Before
    <3> QED BY <3>1, <3>2, <3>4
  <2>2. CASE ~(j <= Len(s))
    <3>1. PICK i : i = j - Len(s) /\ i \in DOMAIN t /\ u[j] = t[i] /\ i \in Int
      BY <1>1, <1>2, <1>3, <2>2
    <3>2. Has(c, do, t[i].epoch) \/ Before(t, i, do, t[i].epoch)
      BY <1>4, <3>1 DEF Prepared
    <3>3. ASSUME NEW k \in DOMAIN t, k < i
          PROVE  Len(s) + k \in DOMAIN u /\ Len(s) + k < j /\ u[Len(s) + k] = t[k]
      BY <1>1, <1>2, <1>3, <3>1, <3>3
    <3>4. Before(t, i, do, t[i].epoch) => Before(u, j, do, t[i].epoch)
      BY <3>3 DEF Before
    <3> QED BY <3>1, <3>2, <3>4
  <2> QED BY <2>1, <2>2
<1> QED BY <1>1, <1>2, <1>4 DEF Prepared

LEMMA CallIs ==
  ASSUME NEW do \in Names
  PROVE  Call(do) \in Txs /\ Call(do).do = do /\ Call(do).epoch = "far"
BY DEF Call, Txs, Epoch

LEMMA DeployPrepared ==
  ASSUME NEW c
  PROVE  Deploy \in Seq(Txs) /\ Prepared(c, Deploy)
<1>1. PICK x, y, z : x = Call("HaloIndexOracle") /\ y = Call("EpochVault") /\ z = Call("HaloHook")
  OBVIOUS
<1>2. /\ x \in Txs /\ y \in Txs /\ z \in Txs
      /\ x.do = "HaloIndexOracle" /\ y.do = "EpochVault" /\ z.do = "HaloHook"
  BY <1>1, CallIs DEF Names
<1>3. Deploy = <<x, y, z>>
  BY <1>1 DEF Deploy
<1>4. Deploy \in Seq(Txs)
  BY <1>2, <1>3
<1>5. \A j \in DOMAIN Deploy : Deploy[j].do \notin {"bindPool", "setMinBond"}
  BY <1>2, <1>3
<1> QED BY <1>4, <1>5 DEF Prepared, Needs

LEMMA SepoliaPrepared ==
  ASSUME NEW c
  PROVE  DeploySepolia \in Seq(Txs) /\ Prepared(c, DeploySepolia)
<1>1. PICK x1, x2, x3, x4 : /\ x1 = Call("TestUSD") /\ x2 = Call("HaloIndexOracle")
                            /\ x3 = Call("EpochVault") /\ x4 = Call("setOpenInterest")
  OBVIOUS
<1>2. PICK x5, x6, x7, x8 : /\ x5 = Call("setBondPerCollateralUnit") /\ x6 = Call("setMinBond")
                            /\ x7 = Call("HaloHook") /\ x8 = Call("HaloResolver")
  OBVIOUS
<1>3. /\ x1 \in Txs /\ x2 \in Txs /\ x3 \in Txs /\ x4 \in Txs
      /\ x1.do = "TestUSD" /\ x2.do = "HaloIndexOracle" /\ x3.do = "EpochVault" /\ x4.do = "setOpenInterest"
      /\ x4.epoch = "far"
  BY <1>1, CallIs DEF Names
<1>4. /\ x5 \in Txs /\ x6 \in Txs /\ x7 \in Txs /\ x8 \in Txs
      /\ x5.do = "setBondPerCollateralUnit" /\ x6.do = "setMinBond" /\ x7.do = "HaloHook" /\ x8.do = "HaloResolver"
      /\ x6.epoch = "far"
  BY <1>2, CallIs DEF Names
<1>5. PICK s : s = DeploySepolia
  OBVIOUS
<1>6. s = <<x1, x2, x3, x4, x5, x6, x7, x8>>
  BY <1>1, <1>2, <1>5 DEF DeploySepolia
<1>7. s \in Seq(Txs)
  BY <1>3, <1>4, <1>6
<1>8. DOMAIN s = 1..8 /\ s[4] = x4 /\ s[6] = x6
  BY <1>6
<1>9. \A j \in DOMAIN s : s[j].do # "bindPool" /\ (s[j].do = "setMinBond" => j = 6)
  BY <1>3, <1>4, <1>6
<1>10. Before(s, 6, "setOpenInterest", s[6].epoch)
  BY <1>3, <1>4, <1>8 DEF Before
<1>11. Prepared(c, s)
  BY <1>9, <1>10 DEF Prepared, Needs
<1> QED BY <1>5, <1>7, <1>11

LEMMA LegPrepared ==
  ASSUME NEW c, NEW e \in Epoch, NEW closes \in Nat
  PROVE  seed(e, closes) \in Seq(Txs) /\ Prepared(c, seed(e, closes))
<1>1. PICK s : s = seed(e, closes)
  OBVIOUS
<1>2. DOMAIN Leg = 1..8
  BY DEF Leg
<1>3. \A j \in 1..8 : Leg[j] \in Names /\ Leg[j] # "setMinBond" /\ (Leg[j] = "bindPool" => j = 5)
  BY DEF Leg, Names
<1>4. Leg[1] = "openEpoch" /\ Leg[2] = "createMarket"
  BY DEF Leg
<1>5. DOMAIN s = 1..8 /\ \A j \in 1..8 : s[j] = [do |-> Leg[j], epoch |-> e, closes |-> closes]
  BY <1>1, <1>2 DEF seed
<1>6. s \in Seq(Txs)
  <2>1. \A j \in 1..8 : [do |-> Leg[j], epoch |-> e, closes |-> closes] \in Txs
    BY <1>3 DEF Txs
  <2>2. s = [j \in 1..8 |-> [do |-> Leg[j], epoch |-> e, closes |-> closes]]
    BY <1>1, <1>2 DEF seed
  <2>3. s \in [1..8 -> Txs]
    BY <2>1, <2>2
  <2> QED BY <2>3, SeqDef
<1>7. \A j \in DOMAIN s : s[j].do # "setMinBond" /\ (s[j].do = "bindPool" => j = 5)
  BY <1>3, <1>5
<1>8. s[1].do = "openEpoch" /\ s[1].epoch = s[5].epoch /\ s[2].do = "createMarket" /\ s[2].epoch = s[5].epoch
  BY <1>4, <1>5
<1>9. Before(s, 5, "openEpoch", s[5].epoch) /\ Before(s, 5, "createMarket", s[5].epoch)
  BY <1>5, <1>8 DEF Before
<1>10. Prepared(c, s)
  BY <1>7, <1>9 DEF Prepared, Needs
<1> QED BY <1>1, <1>6, <1>10

LEMMA SeedPoolPrepared ==
  ASSUME NEW c, NEW day \in Nat
  PROVE  SeedPool(day) \in Seq(Txs) /\ Prepared(c, SeedPool(day))
<1>1. PICK x, y, z, w : x = Call("DemoRouter") /\ y = Call("mint") /\ z = Call("approveVault") /\ w = Call("approveRouter")
  OBVIOUS
<1>2. /\ x \in Txs /\ y \in Txs /\ z \in Txs /\ w \in Txs
      /\ x.do = "DemoRouter" /\ y.do = "mint" /\ z.do = "approveVault" /\ w.do = "approveRouter"
  BY <1>1, CallIs DEF Names
<1>3. PICK s : s = <<x, y, z, w>>
  OBVIOUS
<1>4. s \in Seq(Txs)
  BY <1>2, <1>3
<1>5. \A j \in DOMAIN s : s[j].do \notin {"bindPool", "setMinBond"}
  BY <1>2, <1>3
<1>6. Prepared(c, s)
  BY <1>5 DEF Prepared, Needs
<1>7. "far" \in Epoch /\ "near" \in Epoch /\ day + FarDays \in Nat /\ day + NearDays \in Nat
  BY SeedAssumption DEF Epoch
<1>8. PICK f, n : f = seed("far", day + FarDays) /\ n = seed("near", day + NearDays)
  OBVIOUS
<1>9. f \in Seq(Txs) /\ Prepared(c, f) /\ n \in Seq(Txs) /\ Prepared(c, n)
  BY <1>7, <1>8, LegPrepared
<1>10. Prepared(c, s \o f) /\ s \o f \in Seq(Txs)
  BY <1>4, <1>6, <1>9, PreparedTogether
<1>11. Prepared(c, (s \o f) \o n) /\ (s \o f) \o n \in Seq(Txs)
  BY <1>9, <1>10, PreparedTogether
<1>12. SeedPool(day) = (s \o f) \o n
  BY <1>1, <1>3, <1>8 DEF SeedPool
<1> QED BY <1>11, <1>12

-----------------------------------------------------------------------------
RunsFit(c, runs) == runs \in [Run -> Runs] /\ \A r \in Run : Prepared(c, runs[r].sends)
SeedInv == IsChain(chain) /\ Founded(chain) /\ RunsFit(chain, run)

LEMMA RunsFitLater ==
  ASSUME NEW c, NEW d, Grows(c, d), NEW runs, RunsFit(c, runs)
  PROVE  RunsFit(d, runs)
<1>1. \A r \in Run : runs[r].sends \in Seq(Txs) /\ Prepared(c, runs[r].sends)
  BY DEF RunsFit, Runs
<1>2. \A r \in Run : Prepared(d, runs[r].sends)
  BY <1>1, PreparedLater
<1> QED BY <1>2 DEF RunsFit

(* Marking a run as disturbed changes nothing of what it sends.            *)
Marked(runs, marked) ==
    /\ marked = [x \in Run |-> marked[x]]
    /\ \A x \in Run : marked[x] = runs[x] \/ marked[x] = [runs[x] EXCEPT !.disturbed = TRUE]

LEMMA MarkedFits ==
  ASSUME NEW c, NEW runs, RunsFit(c, runs), NEW marked, Marked(runs, marked)
  PROVE  RunsFit(c, marked)
<1>1. \A w \in Runs : LET m == [w EXCEPT !.disturbed = TRUE] IN m \in Runs /\ m.sends = w.sends
  BY DEF Runs
<1>2. \A x \in Run : runs[x] \in Runs /\ Prepared(c, runs[x].sends)
  BY DEF RunsFit
<1>3. \A x \in Run : marked[x] \in Runs /\ marked[x].sends = runs[x].sends
  BY <1>1, <1>2 DEF Marked
<1> QED BY <1>2, <1>3 DEF RunsFit, Marked

LEMMA DisturbsFits ==
  ASSUME NEW c, NEW runs, RunsFit(c, runs), NEW r
  PROVE  RunsFit(c, Disturbs(runs, r))
<1>1. PICK marked : marked = Disturbs(runs, r)
  OBVIOUS
<1>2. Marked(runs, marked)
  BY <1>1 DEF Disturbs, Marked
<1>3. RunsFit(c, marked)
  BY <1>2, MarkedFits
<1> QED BY <1>1, <1>3

LEMMA OneRunFits ==
  ASSUME NEW c, NEW runs, RunsFit(c, runs), NEW r \in Run, NEW w \in Runs, Prepared(c, w.sends)
  PROVE  RunsFit(c, [runs EXCEPT ![r] = w])
BY DEF RunsFit

LEMMA BeginKeeps ==
  ASSUME SeedInv, NEW r \in Run, NEW toSend, Begin(r, toSend), toSend \in Seq(Txs), Prepared(chain, toSend)
  PROVE  IsChain(chain') /\ Founded(chain') /\ RunsFit(chain', run')
<1>1. PICK w : w = [pc |-> "sending", sends |-> toSend, nonce |-> chain.nonce, disturbed |-> FALSE]
  OBVIOUS
<1>2. run' = [run EXCEPT ![r] = w] /\ chain' = chain
  BY <1>1 DEF Begin
<1>3. w \in Runs /\ w.sends = toSend
  BY <1>1 DEF Runs, SeedInv, IsChain
<1>4. RunsFit(chain, [run EXCEPT ![r] = w])
  BY <1>3, OneRunFits DEF SeedInv
<1> QED BY <1>2, <1>4 DEF SeedInv

LEMMA SendCallKeeps ==
  ASSUME SeedInv, NEW r \in Run, SendCall(r)
  PROVE  IsChain(chain') /\ Founded(chain') /\ RunsFit(chain', run')
<1>1. PICK c, d, s, tx : c = chain /\ d = chain' /\ s = run[r].sends /\ tx = Head(s)
  OBVIOUS
<1>2. run[r] \in Runs /\ IsChain(c) /\ Founded(c) /\ RunsFit(c, run) /\ Prepared(c, s)
  BY <1>1 DEF SeedInv, RunsFit
<1>3. s \in Seq(Txs) /\ s # <<>> /\ run[r].nonce \in Nat
  BY <1>1, <1>2 DEF SendCall, Sending, Runs
<1>4. tx \in Txs /\ tx = s[1] /\ 1 \in DOMAIN s
  BY <1>1, <1>3, HeadTailProperties, ElementOfSeq, EmptySeq
<1>5. Ready(c, tx)
  <2>1. \A do : ~Before(s, 1, do, tx.epoch)
    <3>1. DOMAIN s = 1 .. Len(s)
      BY <1>3
    <3> QED BY <3>1 DEF Before
  <2> QED BY <1>2, <1>4, <2>1 DEF Ready, Prepared
<1>6. Accepts(c, r, tx) /\ d = Mined(c, r, tx)
  BY <1>1 DEF SendCall, GoesThrough
<1>7. IsChain(d) /\ Founded(d) /\ Grows(c, d) /\ Has(d, tx.do, tx.epoch)
  BY <1>2, <1>4, <1>5, <1>6, MinedFounds
<1>8. RunsFit(d, run) /\ Prepared(d, s)
  BY <1>2, <1>3, <1>7, RunsFitLater, PreparedLater
<1>9. Prepared(d, Tail(s)) /\ Tail(s) \in Seq(Txs)
  BY <1>1, <1>3, <1>7, <1>8, PreparedRest
<1>10. PICK w : w = [run[r] EXCEPT !.sends = Tail(s), !.nonce = @ + 1]
  OBVIOUS
<1>11. w \in Runs /\ w.sends = Tail(s)
  <2>1. PICK v, rest : v = run[r] /\ rest = Tail(s)
    OBVIOUS
  <2>2. v \in Runs /\ rest \in Seq(Txs)
    BY <1>2, <1>9, <2>1
  <2>3. PICK u : u = [v EXCEPT !.sends = rest]
    OBVIOUS
  <2>4. u \in Runs /\ u.sends = rest /\ u.nonce \in Nat
    BY <2>2, <2>3 DEF Runs
  <2>5. w = [u EXCEPT !.nonce = @ + 1]
    BY <1>2, <1>10, <2>1, <2>3 DEF Runs
  <2>6. w \in Runs /\ w.sends = rest
    BY <2>4, <2>5 DEF Runs
  <2> QED BY <2>1, <2>6
<1>12. RunsFit(d, [run EXCEPT ![r] = w])
  BY <1>8, <1>9, <1>11, OneRunFits
<1>13. run' = Disturbs([run EXCEPT ![r] = w], r)
  <2>1. [run EXCEPT ![r].sends = Tail(@), ![r].nonce = @ + 1] = [run EXCEPT ![r] = w]
    BY <1>1, <1>2, <1>10 DEF RunsFit
  <2> QED BY <2>1 DEF SendCall
<1>14. RunsFit(d, run')
  BY <1>12, <1>13, DisturbsFits
<1> QED BY <1>1, <1>7, <1>14

LEMMA RefuseKeeps ==
  ASSUME SeedInv, NEW r \in Run, Refuse(r)
  PROVE  IsChain(chain') /\ Founded(chain') /\ RunsFit(chain', run')
<1>1. PICK w : w = [run[r] EXCEPT !.pc = "refused"]
  OBVIOUS
<1>2. PICK refused : refused = [run EXCEPT ![r] = w]
  OBVIOUS
<1>3. run[r] \in Runs /\ Prepared(chain, run[r].sends)
  BY DEF SeedInv, RunsFit
<1>4. w \in Runs /\ w.sends = run[r].sends
  BY <1>1, <1>3 DEF Runs
<1>5. RunsFit(chain, refused)
  BY <1>2, <1>3, <1>4, OneRunFits DEF SeedInv
<1>6. \/ chain' = chain /\ run' = refused
      \/ chain' = [chain EXCEPT !.nonce = @ + 1] /\ run' = Disturbs(refused, r)
  BY <1>1, <1>2 DEF Refuse
<1>7. CASE chain' = chain /\ run' = refused
  BY <1>5, <1>7 DEF SeedInv
<1>8. CASE chain' = [chain EXCEPT !.nonce = @ + 1] /\ run' = Disturbs(refused, r)
  <2>1. PICK c, d : c = chain /\ d = [c EXCEPT !.nonce = @ + 1]
    OBVIOUS
  <2>2. IsChain(c) /\ Founded(c)
    BY <2>1 DEF SeedInv
  <2>3. /\ IsChain(d) /\ d.markets = c.markets /\ d.bound = c.bound /\ d.funded = c.funded /\ d.done = c.done
        /\ d.closes = c.closes
    BY <2>1, <2>2 DEF IsChain
  <2>4. Founded(d) /\ Grows(c, d)
    BY <2>2, <2>3 DEF Founded, Grows
  <2>5. RunsFit(d, refused)
    BY <1>5, <2>1, <2>4, RunsFitLater
  <2>6. RunsFit(d, Disturbs(refused, r))
    BY <2>5, DisturbsFits
  <2> QED BY <1>8, <2>1, <2>3, <2>4, <2>6
<1> QED BY <1>6, <1>7, <1>8

LEMMA StopKeeps ==
  ASSUME SeedInv, NEW r \in Run, Stop(r)
  PROVE  IsChain(chain') /\ Founded(chain') /\ RunsFit(chain', run')
<1>1. PICK w : w = [run[r] EXCEPT !.pc = "stopped"]
  OBVIOUS
<1>2. run[r] \in Runs /\ Prepared(chain, run[r].sends)
  BY DEF SeedInv, RunsFit
<1>3. w \in Runs /\ w.sends = run[r].sends
  BY <1>1, <1>2 DEF Runs
<1>4. RunsFit(chain, [run EXCEPT ![r] = w])
  BY <1>2, <1>3, OneRunFits DEF SeedInv
<1>5. run' = [run EXCEPT ![r] = w] /\ chain' = chain
  BY <1>1 DEF Stop
<1> QED BY <1>4, <1>5 DEF SeedInv

(* By the owner and by others: calls that need nothing before them.        *)
LEMMA OthersKeep ==
  ASSUME SeedInv, WireByHand \/ Stranger
  PROVE  IsChain(chain') /\ Founded(chain') /\ RunsFit(chain', run')
<1>1. PICK c : c = chain
  OBVIOUS
<1>2. IsChain(c) /\ Founded(c) /\ RunsFit(c, run)
  BY <1>1 DEF SeedInv
<1>3. CASE WireByHand
  <2>1. PICK tx, d : tx = Call("setOpenInterest") /\ d = chain'
    OBVIOUS
  <2>2. d = Mined(c, "by hand", tx) /\ run' = Disturbs(run, "by hand")
    BY <1>1, <1>3, <2>1 DEF WireByHand
  <2>3. tx \in Txs /\ tx.do = "setOpenInterest"
    BY <2>1, CallIs DEF Names
  <2>4. Ready(c, tx) /\ Accepts(c, "by hand", tx)
    BY <1>1, <1>3, <2>3 DEF Ready, Needs, Accepts, WireByHand
  <2>5. IsChain(d) /\ Founded(d) /\ Grows(c, d)
    BY <1>2, <2>2, <2>3, <2>4, MinedFounds
  <2>6. RunsFit(d, run)
    BY <1>2, <2>5, RunsFitLater
  <2>7. RunsFit(d, Disturbs(run, "by hand"))
    BY <2>6, DisturbsFits
  <2> QED BY <2>1, <2>2, <2>5, <2>7
<1>4. CASE Stranger
  <2>1. PICK do \in {"createMarket", "initialize"}, e \in Epoch :
           LET tx == [Call(do) EXCEPT !.epoch = e] IN
           Accepts(chain, "stranger", tx) /\ chain' = Effect(chain, "stranger", tx)
    BY <1>4 DEF Stranger
  <2>2. PICK tx, d : tx = [Call(do) EXCEPT !.epoch = e] /\ d = chain'
    OBVIOUS
  <2>3. d = Effect(c, "stranger", tx) /\ Accepts(c, "stranger", tx) /\ run' = Disturbs(run, "stranger")
    BY <1>1, <1>4, <2>1, <2>2 DEF Stranger
  <2>4. do \in Names
    BY <2>1 DEF Names
  <2>5. tx \in Txs /\ tx.do = do
    BY <2>2, <2>4 DEF Call, Txs
  <2>6. Ready(c, tx)
    BY <2>1, <2>5 DEF Ready, Needs
  <2>7. IsChain(d) /\ Founded(d) /\ Grows(c, d)
    BY <1>2, <2>3, <2>5, <2>6, EffectFounds
  <2>8. RunsFit(d, run)
    BY <1>2, <2>7, RunsFitLater
  <2>9. RunsFit(d, Disturbs(run, "stranger"))
    BY <2>8, DisturbsFits
  <2> QED BY <2>2, <2>3, <2>7, <2>9
<1> QED BY <1>3, <1>4

LEMMA TickKeeps ==
  ASSUME SeedInv, Tick
  PROVE  IsChain(chain') /\ Founded(chain') /\ RunsFit(chain', run')
<1>1. PICK c, d : c = chain /\ d = [c EXCEPT !.today = @ + 1]
  OBVIOUS
<1>2. IsChain(c) /\ Founded(c) /\ RunsFit(c, run)
  BY <1>1 DEF SeedInv
<1>3. /\ IsChain(d) /\ d.markets = c.markets /\ d.bound = c.bound /\ d.funded = c.funded /\ d.done = c.done
      /\ d.closes = c.closes
  BY <1>1, <1>2 DEF IsChain
<1>4. Founded(d) /\ Grows(c, d)
  BY <1>2, <1>3 DEF Founded, Grows
<1>5. RunsFit(d, run)
  BY <1>2, <1>4, RunsFitLater
<1>6. PICK marked : marked = run'
  OBVIOUS
<1>7. Marked(run, marked)
  BY <1>6 DEF Tick, Marked
<1>8. RunsFit(d, marked)
  BY <1>5, <1>7, MarkedFits
<1>9. chain' = d
  BY <1>1 DEF Tick
<1> QED BY <1>3, <1>4, <1>6, <1>8, <1>9

LEMMA SeedStarts == SeedInit => SeedInv
<1> SUFFICES ASSUME SeedInit PROVE SeedInv
  OBVIOUS
<1>1. PICK done \in {{}, {"TestUSD"}, Deployed} : chain = [EmptyChain EXCEPT !.done = done]
  BY DEF SeedInit
<1>2. "setOpenInterest" \in Deployed
  <2>1. DeploySepolia[4] = Call("setOpenInterest") /\ DOMAIN DeploySepolia = 1..8
    BY DEF DeploySepolia
  <2>2. Call("setOpenInterest").do = "setOpenInterest"
    BY DEF Call
  <2> QED BY <2>1, <2>2 DEF Deployed
<1>3. /\ IsChain(chain) /\ chain.done = done
      /\ chain.bound = {} /\ chain.funded = {}
  BY <1>1 DEF EmptyChain, IsChain, Epoch
<1>4. Founded(chain)
  BY <1>1, <1>2, <1>3 DEF Founded
<1>5. NotStarted \in Runs /\ NotStarted.sends = <<>>
  BY DEF NotStarted, Runs
<1>6. Prepared(chain, <<>>)
  BY DEF Prepared
<1>7. run = [r \in Run |-> NotStarted]
  BY DEF SeedInit
<1> HIDE DEF NotStarted
<1>8. RunsFit(chain, run)
  BY <1>5, <1>6, <1>7 DEF RunsFit
<1> QED BY <1>3, <1>4, <1>8 DEF SeedInv

(* SeedPool 119-123, 63-66: whatever is stopped, begun again or done by    *)
(* others, a pool with somebody's dollars in it is bound to a market of an *)
(* epoch that closes; and where DeploySepolia put the contracts, bonds     *)
(* were sized by what is at stake first.                                   *)
THEOREM FundedPoolsHold == SeedSpec => []FundedPoolsClose
<1>1. SeedInv /\ [SeedNext]_seedVars => SeedInv'
  <2> SUFFICES ASSUME SeedInv, [SeedNext]_seedVars
               PROVE  IsChain(chain') /\ Founded(chain') /\ RunsFit(chain', run')
    BY DEF SeedInv, IsChain, Founded, RunsFit, Prepared, Has, Before
  <2>1. chain.today \in Nat
    BY DEF SeedInv, IsChain
  <2>2. CASE UNCHANGED seedVars
    BY <2>2 DEF seedVars, SeedInv
  <2>3. ASSUME NEW r \in Run, BeginHedge(r) \/ BeginSeedPool(r)
        PROVE  IsChain(chain') /\ Founded(chain') /\ RunsFit(chain', run')
    <3>1. PICK toSend : Begin(r, toSend) /\ toSend \in {Deploy, DeploySepolia, SeedPool(chain.today)}
      BY <2>3 DEF BeginHedge, BeginSeedPool
    <3>2. toSend \in Seq(Txs) /\ Prepared(chain, toSend)
      BY <2>1, <3>1, DeployPrepared, SepoliaPrepared, SeedPoolPrepared
    <3> QED BY <3>1, <3>2, BeginKeeps
  <2>4. ASSUME NEW r \in Run, SendCall(r) \/ Refuse(r) \/ Stop(r)
        PROVE  IsChain(chain') /\ Founded(chain') /\ RunsFit(chain', run')
    BY <2>4, SendCallKeeps, RefuseKeeps, StopKeeps
  <2>5. CASE WireByHand \/ Stranger
    BY <2>5, OthersKeep
  <2>6. CASE Tick
    BY <2>6, TickKeeps
  <2> QED BY <2>2, <2>3, <2>4, <2>5, <2>6 DEF SeedNext
<1>2. SeedInv => FundedPoolsClose
  BY DEF SeedInv, Founded, FundedPoolsClose
<1> QED BY <1>1, <1>2, SeedStarts, PTL DEF SeedSpec
=============================================================================
