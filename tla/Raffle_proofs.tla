------------------------------ MODULE Raffle_proofs -----------------------------
(***************************************************************************)
(* What holds of the points and of the raffles they are spent on, for any  *)
(* number of wallets, receipts, requests, amounts, pools and transfers: of *)
(* the ledger (PointLedger), whatever its transactions do to each other,   *)
(* and of the chain that follows it (PointClaim); of the prizes of the     *)
(* Halo draws (Payouts); and of the World raffle's roll-overs (Raffle).    *)
(***************************************************************************)
EXTENDS Raffle, Payouts, PointClaim, SequenceTheorems, Sums

-----------------------------------------------------------------------------
(* The points.  The rows of one wallet, as a set on its own.               *)

IsRows(L) ==
    /\ IsFiniteSet(L)
    /\ \A l \in L : l.at \in Nat /\ l.diff \in Int /\ l.after \in Int /\ l.accumulated \in Int
    /\ \A l, k \in L : l.at = k.at => l = k

LastRow(L) == CHOOSE l \in {l \in L : \A k \in L : k.at <= l.at} : TRUE
BalanceIn(L) == IF L = {} THEN 0 ELSE LastRow(L).after
EarnedIn(L) == IF L = {} THEN 0 ELSE LastRow(L).accumulated
Older(l, L) == {k \in L : k.at < l.at}
Newer(l, L) == {k \in L : k.at > l.at}
Gain(n) == IF n < 0 THEN 0 ELSE n

\* Every row leads from the balance of the row before it to its own.
LeadsOn(L) == \A l \in L : l.after - l.diff = BalanceIn(Older(l, L))

LEMMA GainIsMax == \A n \in Int : Max({n, 0}) = Gain(n)
<1> SUFFICES ASSUME NEW n \in Int PROVE Max({n, 0}) = Gain(n)
  OBVIOUS
<1>1. Gain(n) \in {n, 0} /\ \A y \in {n, 0} : Gain(n) >= y
  BY DEF Gain
<1>2. \A x \in {n, 0} : (\A y \in {n, 0} : x >= y) => x = Gain(n)
  BY DEF Gain
<1> QED BY <1>1, <1>2, Zenon DEF Max

LEMMA LastIs ==
  ASSUME NEW L, IsRows(L), NEW l \in L, \A k \in L : k.at <= l.at
  PROVE  LastRow(L) = l
<1>1. {k \in L : \A j \in L : j.at <= k.at} = {l}
  BY DEF IsRows
<1> QED BY <1>1 DEF LastRow

LEMMA LastIsIn ==
  ASSUME NEW L, IsRows(L), L # {}
  PROVE  LastRow(L) \in L /\ \A k \in L : k.at <= LastRow(L).at
<1> DEFINE Short(s) == s \in SUBSET L /\ s # {} /\ ~\E l \in s : \A k \in s : k.at <= l.at
           Sizes == {n \in Nat : \E s \in SUBSET L : Short(s) /\ Cardinality(s) = n}
<1>1. \A s \in SUBSET L : IsFiniteSet(s) /\ Cardinality(s) \in Nat
  BY FS_Subset, FS_CardinalityType DEF IsRows
<1>2. \A l \in L : l.at \in Nat
  BY DEF IsRows
<1>3. \E l \in L : \A k \in L : k.at <= l.at
  <2> SUFFICES ASSUME Short(L) PROVE FALSE
    BY <1>1
  <2>1. PICK n \in Sizes : \A m \in Sizes : n <= m
    <3>1. Sizes # {} /\ Sizes \in SUBSET Nat
      BY <1>1
    <3> HIDE DEF Sizes
    <3> QED BY <3>1, Least
  <2>2. PICK s \in SUBSET L : Short(s) /\ Cardinality(s) = n
    BY <2>1
  <2>3. PICK x \in s : TRUE
    BY <2>2
  <2> DEFINE r == s \ {x}
  <2>4. Cardinality(r) \in Nat /\ Cardinality(r) = n - 1 /\ r \in SUBSET L
    BY <1>1, <2>2, Smaller
  <2>5. ~Short(r)
    <3>1. Cardinality(r) < n
      BY <2>4, <2>1
    <3> HIDE DEF Short, r
    <3> QED BY <2>1, <2>4, <3>1
  <2>6. CASE r = {}
    BY <1>2, <2>2, <2>3, <2>6
  <2>7. CASE \E l \in r : \A k \in r : k.at <= l.at
    <3>1. PICK l \in r : \A k \in r : k.at <= l.at
      BY <2>7
    <3>2. l.at \in Nat /\ x.at \in Nat /\ \A k \in s : k.at \in Nat
      BY <1>2, <2>2, <2>3, <3>1
    <3>3. \E y \in s : \A k \in s : k.at <= y.at
      <4>1. CASE x.at <= l.at
        BY <2>3, <3>1, <3>2, <4>1
      <4>2. CASE l.at <= x.at
        <5>1. \A k \in s : k = x \/ k \in s \ {x}
          OBVIOUS
        <5>2. \A k \in s : k.at <= x.at
          BY <3>1, <3>2, <4>2, <5>1
        <5> QED BY <2>3, <5>2
      <4> QED BY <3>2, <4>1, <4>2
    <3> QED BY <2>2, <3>3
  <2> QED BY <2>4, <2>5, <2>6, <2>7
<1>4. PICK l \in L : \A k \in L : k.at <= l.at
  BY <1>3
<1> QED BY <1>4, LastIs

LEMMA BalanceIsInt ==
  ASSUME NEW L, IsRows(L)
  PROVE  BalanceIn(L) \in Int /\ EarnedIn(L) \in Int
<1>1. CASE L = {}
  BY <1>1 DEF BalanceIn, EarnedIn
<1>2. CASE L # {}
  BY <1>2, LastIsIn DEF BalanceIn, EarnedIn, IsRows
<1> QED BY <1>1, <1>2

\* One row more, newer than the others.
LEMMA RowAdded ==
  ASSUME NEW L, IsRows(L), NEW row, row.at \in Nat, row.diff \in Int, row.after \in Int,
         row.accumulated \in Int, \A l \in L : l.at < row.at
  PROVE  /\ row \notin L /\ IsRows(L \cup {row})
         /\ BalanceIn(L \cup {row}) = row.after /\ EarnedIn(L \cup {row}) = row.accumulated
         /\ \A l \in L : Older(l, L \cup {row}) = Older(l, L)
         /\ Older(row, L \cup {row}) = L
<1>1. \A l \in L : l.at \in Nat /\ l.at < row.at
  BY DEF IsRows
<1>2. row \notin L
  BY <1>1
<1>3. IsRows(L \cup {row})
  <2>1. IsFiniteSet(L \cup {row})
    BY FS_AddElement DEF IsRows
  <2>2. \A l \in L \cup {row} : l.at \in Nat /\ l.diff \in Int /\ l.after \in Int /\ l.accumulated \in Int
    BY DEF IsRows
  <2>3. \A l, k \in L \cup {row} : l.at = k.at => l = k
    BY <1>1 DEF IsRows
  <2> QED BY <2>1, <2>2, <2>3 DEF IsRows
<1>4. LastRow(L \cup {row}) = row
  <2>1. \A k \in L \cup {row} : k.at <= row.at
    BY <1>1
  <2> QED BY <1>3, <2>1, LastIs
<1>5. \A l \in L : Older(l, L \cup {row}) = Older(l, L)
  BY <1>1 DEF Older
<1>6. Older(row, L \cup {row}) = L
  BY <1>1 DEF Older
<1> QED BY <1>2, <1>3, <1>4, <1>5, <1>6 DEF BalanceIn, EarnedIn

\* What was moved and what was earned, with one row more.
LEMMA MovedMore ==
  ASSUME NEW L, IsRows(L), NEW row, row \notin L, row.diff \in Int
  PROVE  /\ SumFunction([l \in L |-> l.diff]) \in Int
         /\ SumFunction([l \in L \cup {row} |-> l.diff]) = SumFunction([l \in L |-> l.diff]) + row.diff
         /\ SumFunction([l \in L |-> Max({l.diff, 0})]) \in Int
         /\ SumFunction([l \in L \cup {row} |-> Max({l.diff, 0})])
               = SumFunction([l \in L |-> Max({l.diff, 0})]) + Gain(row.diff)
<1>0. PICK T : T = L \cup {row}
  OBVIOUS
<1> DEFINE f == [l \in L |-> l.diff]
           g == [l \in T |-> l.diff]
           e == [l \in L |-> Max({l.diff, 0})]
           d == [l \in T |-> Max({l.diff, 0})]
<1>1. /\ IsFiniteSet(L) /\ \A l \in L : l.diff \in Int
      /\ IsFiniteSet(T) /\ row \in T /\ T \ {row} = L /\ \A l \in T : l.diff \in Int
  BY <1>0, FS_AddElement DEF IsRows
<1>2. \A n \in Int : Max({n, 0}) = Gain(n) /\ Gain(n) \in Int
  BY GainIsMax DEF Gain
<1>3. /\ f \in [T \ {row} -> Int] /\ g \in [T -> Int]
      /\ \A l \in T \ {row} : f[l] = g[l]
      /\ g[row] = row.diff
  BY <1>1
<1>4. /\ e \in [T \ {row} -> Int] /\ d \in [T -> Int]
      /\ \A l \in T \ {row} : e[l] = d[l]
      /\ d[row] = Gain(row.diff)
  BY <1>1, <1>2
<1> HIDE DEF f, g, e, d
<1>5. SumFunction(f) \in Int /\ SumFunction(g) = SumFunction(f) + row.diff
  <2>1. IsFiniteSet(T) /\ g \in [T -> Int]
    BY <1>1, <1>3
  <2>2. \A x \in T : \A h \in [T \ {x} -> Int] :
            (\A y \in T \ {x} : h[y] = g[y]) =>
                SumFunction(h) \in Int /\ SumFunction(g) = SumFunction(h) + g[x]
    BY <2>1, SumLess
  <2> QED BY <1>1, <1>3, <2>2
<1>6. SumFunction(e) \in Int /\ SumFunction(d) = SumFunction(e) + Gain(row.diff)
  <2>1. IsFiniteSet(T) /\ d \in [T -> Int]
    BY <1>1, <1>4
  <2>2. \A x \in T : \A h \in [T \ {x} -> Int] :
            (\A y \in T \ {x} : h[y] = d[y]) =>
                SumFunction(h) \in Int /\ SumFunction(d) = SumFunction(h) + d[x]
    BY <2>1, SumLess
  <2> QED BY <1>1, <1>4, <2>2
<1> QED BY <1>0, <1>5, <1>6 DEF f, g, e, d

LEMMA NothingMoved ==
  SumFunction([l \in {} |-> l.diff]) = 0 /\ SumFunction([l \in {} |-> Max({l.diff, 0})]) = 0
BY SumEmpty DEF SumFunction

-----------------------------------------------------------------------------
(* The ledger's invariant.  Transactions are told apart by the number they *)
(* drew when they began; on a quiet wallet one is open at most, it is      *)
(* newer than every row there is, and the row it builds on is the newest.  *)

ItType == [pc: {"new", "checked", "open", "based", "done", "failed"},
           source: Source, wallet: Wallet \cup {NoOne}, receipts: SUBSET Receipt,
           amount: Int, date: Day, at: Nat, day: Day, base: Int, earned: Int]

LedgerType ==
    /\ clock \in Nat /\ day \in Day
    /\ logs \subseteq LogRow /\ IsFiniteSet(logs)
    /\ req \in [Request -> ItType]
    /\ \A q \in Request : ~At(q, "new") => req[q].wallet \in Wallet
    /\ DOMAIN open = Wallet /\ quiet \subseteq Wallet

Active(q) == req[q].pc \in {"open", "based"}
Numbered(q) == req[q].pc \in {"open", "based", "done"}

NumbersInv ==
    /\ \A q \in Request : Numbered(q) => req[q].wallet \in Wallet /\ req[q].at < clock
    /\ \A q, x \in Request : Numbered(q) /\ Numbered(x) /\ req[q].at = req[x].at => q = x
    /\ \A q \in Request : Active(q) => req[q].at \in open[req[q].wallet]
    /\ \A l, k \in logs : l.at = k.at /\ l.wallet = k.wallet => l = k
    /\ \A l \in logs : l.at < clock /\ \A q \in Request : Active(q) => l.at # req[q].at

QuietInv ==
    \A a \in quiet :
        /\ \A q, x \in Request : Active(q) /\ Active(x) /\ req[q].wallet = a /\ req[x].wallet = a => q = x
        /\ \A q \in Request : Active(q) /\ req[q].wallet = a => \A l \in LogsOf(a) : l.at < req[q].at
        /\ \A q \in Request : At(q, "based") /\ req[q].wallet = a =>
               req[q].base = Balance(a) /\ req[q].earned = Accumulated(a)

RowsInv ==
    \A a \in quiet : /\ Balance(a) = Moved(a) /\ Accumulated(a) = Earned(a)
                     /\ LeadsOn(LogsOf(a))

LedgerInv == LedgerType /\ NumbersInv /\ QuietInv /\ RowsInv

(* What a step may do to the transactions.                                 *)
Others(q) == \A x \in Request \ {q} : req'[x] = req[x]

Rests ==
    /\ UNCHANGED <<logs, clock, open, quiet>>
    /\ \A q \in Request : \/ req'[q] = req[q]
                          \/ ~Numbered(q) /\ ~Numbered(q)'

Opens(q) ==
    /\ ~Numbered(q) /\ Others(q) /\ UNCHANGED logs
    /\ Active(q)' /\ req'[q].at = clock
    /\ req'[q].wallet \in Wallet /\ Begins(req'[q].wallet)
    /\ At(q, "based")' => /\ req'[q].base = Balance(req'[q].wallet)
                          /\ req'[q].earned = Accumulated(req'[q].wallet)

Reads(q) ==
    /\ At(q, "open") /\ At(q, "based")' /\ Others(q) /\ UNCHANGED <<logs, clock, open, quiet>>
    /\ req'[q].wallet = req[q].wallet /\ req'[q].at = req[q].at
    /\ req'[q].base = Balance(req[q].wallet) /\ req'[q].earned = Accumulated(req[q].wallet)

Appends(q, diff) ==
    /\ At(q, "based") /\ At(q, "done")' /\ Others(q)
    /\ req'[q].wallet = req[q].wallet /\ req'[q].at = req[q].at
    /\ logs' = logs \cup {Row(req[q], diff)}
    /\ Ends(req[q].wallet, req[q].at)

Drops(q) ==
    /\ Active(q) /\ At(q, "failed")' /\ Others(q) /\ UNCHANGED logs
    /\ Ends(req[q].wallet, req[q].at)

LEMMA RowsOfAWallet ==
  ASSUME LedgerType, NumbersInv
  PROVE  /\ \A a \in Wallet : IsRows(LogsOf(a)) /\ \A l \in LogsOf(a) : l \in logs /\ l.wallet = a
         /\ \A a : Balance(a) = BalanceIn(LogsOf(a)) /\ Accumulated(a) = EarnedIn(LogsOf(a))
<1>1. ASSUME NEW a \in Wallet PROVE IsRows(LogsOf(a))
  <2>1. LogsOf(a) \subseteq logs
    BY DEF LogsOf
  <2>2. IsFiniteSet(LogsOf(a))
    BY <2>1, FS_Subset DEF LedgerType
  <2>3. \A l \in logs : l.at \in Nat /\ l.diff \in Int /\ l.after \in Int /\ l.accumulated \in Int
    BY DEF LedgerType, LogRow
  <2>4. \A l \in LogsOf(a) : l \in logs /\ l.wallet = a
    BY DEF LogsOf
  <2>5. \A l, k \in LogsOf(a) : l.at = k.at => l = k
    BY <2>4 DEF NumbersInv
  <2> QED BY <2>1, <2>2, <2>3, <2>5 DEF IsRows
<1>2. ASSUME NEW a PROVE Balance(a) = BalanceIn(LogsOf(a)) /\ Accumulated(a) = EarnedIn(LogsOf(a))
  BY DEF Balance, Accumulated, BalanceIn, EarnedIn, Newest, LastRow
<1> QED BY <1>1, <1>2 DEF LogsOf

\* What is true of a wallet's rows stays so while the rows do.
LEMMA RowsStand ==
  ASSUME NEW a, LogsOf(a)' = LogsOf(a)
  PROVE  /\ Balance(a)' = Balance(a) /\ Accumulated(a)' = Accumulated(a)
         /\ Moved(a)' = Moved(a) /\ Earned(a)' = Earned(a)
BY DEF Balance, Accumulated, Newest, Moved, Earned

LEMMA SameLogs ==
  ASSUME logs' = logs, quiet' \subseteq quiet, RowsInv
  PROVE  RowsInv' /\ \A a : LogsOf(a)' = LogsOf(a)
<1>1. \A a : LogsOf(a)' = LogsOf(a)
  BY DEF LogsOf
<1> QED BY <1>1, RowsStand DEF RowsInv

LEMMA RestsHolds ==
  ASSUME LedgerInv, LedgerType', Rests
  PROVE  LedgerInv'
<1>1. RowsInv' /\ \A a : LogsOf(a)' = LogsOf(a)
  BY SameLogs DEF LedgerInv, Rests
<1>2. \A a : Balance(a)' = Balance(a) /\ Accumulated(a)' = Accumulated(a)
  BY <1>1, RowsStand
<1>3. \A q \in Request : Numbered(q)' => Numbered(q) /\ req'[q] = req[q]
  BY DEF Rests, Numbered
<1>4. \A q \in Request : Active(q)' => Active(q) /\ Numbered(q)' /\ req'[q] = req[q]
  BY <1>3 DEF Active, Numbered
<1>5. \A q \in Request : At(q, "based")' => At(q, "based") /\ req'[q] = req[q]
  BY <1>3 DEF At, Numbered
<1>6. NumbersInv'
  BY <1>3, <1>4 DEF LedgerInv, NumbersInv, Rests
<1>7. QuietInv'
  BY <1>1, <1>2, <1>4, <1>5 DEF LedgerInv, QuietInv, Rests
<1> QED BY <1>1, <1>6, <1>7 DEF LedgerInv

LEMMA OpensHolds ==
  ASSUME LedgerInv, LedgerType', NEW q \in Request, Opens(q)
  PROVE  LedgerInv'
<1>1. RowsInv' /\ \A a : LogsOf(a)' = LogsOf(a)
  BY SameLogs DEF LedgerInv, Opens, Begins
<1>2. \A a : Balance(a)' = Balance(a) /\ Accumulated(a)' = Accumulated(a)
  BY <1>1, RowsStand
<1>3. PICK a \in Wallet : /\ a = req'[q].wallet /\ clock' = clock + 1
                          /\ open' = [open EXCEPT ![a] = @ \cup {clock}]
                          /\ quiet' = IF open[a] = {} THEN quiet ELSE quiet \ {a}
  BY DEF Opens, Begins
<1>4. clock \in Nat /\ DOMAIN open = Wallet /\ \A x \in Request : req[x].at \in Nat
  BY DEF LedgerInv, LedgerType, ItType
<1>5. /\ ~Numbered(q) /\ ~Active(q) /\ Active(q)' /\ Numbered(q)' /\ req'[q].at = clock
      /\ \A x \in Request \ {q} : /\ Numbered(x)' <=> Numbered(x)
                                  /\ Active(x)' <=> Active(x)
                                  /\ At(x, "based")' <=> At(x, "based")
                                  /\ req'[x] = req[x]
      /\ logs' = logs
  BY DEF Opens, Others, Numbered, Active, At
<1>6. NumbersInv'
  <2>1. ASSUME NEW x \in Request, Numbered(x)'
        PROVE  req'[x].wallet \in Wallet /\ req'[x].at < clock'
    BY <1>3, <1>4, <1>5, <2>1 DEF LedgerInv, NumbersInv
  <2>2. ASSUME NEW x \in Request, NEW y \in Request, Numbered(x)', Numbered(y)', req'[x].at = req'[y].at
        PROVE  x = y
    BY <1>4, <1>5, <2>2 DEF LedgerInv, NumbersInv
  <2>3. ASSUME NEW x \in Request, Active(x)' PROVE req'[x].at \in open'[req'[x].wallet]
    <3>1. CASE x = q
      BY <1>3, <1>4, <1>5, <3>1
    <3>2. CASE x # q
      <4>1. Active(x) /\ Numbered(x) /\ req'[x] = req[x]
        BY <1>5, <2>3, <3>2 DEF Active, Numbered
      <4> QED BY <1>3, <1>4, <4>1 DEF LedgerInv, NumbersInv
    <3> QED BY <3>1, <3>2
  <2>4. \A l \in logs : l.at \in Nat
    BY DEF LedgerInv, LedgerType, LogRow
  <2>5. ASSUME NEW l \in logs' PROVE l.at < clock' /\ \A x \in Request : Active(x)' => l.at # req'[x].at
    <3>1. l \in logs /\ l.at < clock
      BY <1>5 DEF LedgerInv, NumbersInv
    <3> QED BY <1>3, <1>4, <1>5, <2>4, <3>1 DEF LedgerInv, NumbersInv
  <2> QED BY <1>5, <2>1, <2>2, <2>3, <2>5 DEF LedgerInv, NumbersInv
<1>7. QuietInv'
  <2> SUFFICES ASSUME NEW b \in quiet'
               PROVE  /\ \A x, y \in Request :
                            Active(x)' /\ Active(y)' /\ req'[x].wallet = b /\ req'[y].wallet = b => x = y
                      /\ \A x \in Request : Active(x)' /\ req'[x].wallet = b =>
                            \A l \in LogsOf(b)' : l.at < req'[x].at
                      /\ \A x \in Request : At(x, "based")' /\ req'[x].wallet = b =>
                            req'[x].base = Balance(b)' /\ req'[x].earned = Accumulated(b)'
    BY Zenon DEF QuietInv
  <2>1. b \in quiet /\ (b = a => open[a] = {})
    BY <1>3
  <2>2. b = a => \A x \in Request : Active(x) => req[x].wallet # b
    BY <2>1 DEF LedgerInv, NumbersInv
  <2>3. \A x, y \in Request : Active(x)' /\ Active(y)' /\ req'[x].wallet = b /\ req'[y].wallet = b => x = y
    BY <1>3, <1>5, <2>1, <2>2 DEF LedgerInv, QuietInv
  <2>4. ASSUME NEW x \in Request, Active(x)', req'[x].wallet = b, NEW l \in LogsOf(b)'
        PROVE  l.at < req'[x].at
    <3>1. l \in LogsOf(b) /\ l \in logs
      BY <1>1 DEF LogsOf
    <3> QED BY <1>5, <2>1, <2>4, <3>1 DEF LedgerInv, QuietInv, NumbersInv
  <2>5. ASSUME NEW x \in Request, At(x, "based")', req'[x].wallet = b
        PROVE  req'[x].base = Balance(b)' /\ req'[x].earned = Accumulated(b)'
    <3>1. CASE x = q
      BY <1>2, <2>5, <3>1 DEF Opens
    <3>2. CASE x # q
      BY <1>2, <1>5, <2>1, <2>5, <3>2 DEF LedgerInv, QuietInv
    <3> QED BY <3>1, <3>2
  <2> QED BY <2>3, <2>4, <2>5
<1> QED BY <1>1, <1>6, <1>7 DEF LedgerInv

LEMMA ReadsHolds ==
  ASSUME LedgerInv, LedgerType', NEW q \in Request, Reads(q)
  PROVE  LedgerInv'
<1>1. RowsInv' /\ \A a : LogsOf(a)' = LogsOf(a)
  BY SameLogs DEF LedgerInv, Reads
<1>2. \A a : Balance(a)' = Balance(a) /\ Accumulated(a)' = Accumulated(a)
  BY <1>1, RowsStand
<1>3. /\ \A x \in Request : /\ Numbered(x)' <=> Numbered(x)
                            /\ Active(x)' <=> Active(x)
                            /\ req'[x].wallet = req[x].wallet /\ req'[x].at = req[x].at
      /\ UNCHANGED <<logs, clock, open, quiet>>
  BY DEF Reads, Others, Numbered, Active, At
<1>4. NumbersInv'
  BY <1>3 DEF LedgerInv, NumbersInv
<1>5. ASSUME NEW x \in Request, At(x, "based")', NEW a \in quiet', req'[x].wallet = a
      PROVE  req'[x].base = Balance(a)' /\ req'[x].earned = Accumulated(a)'
  <2>1. CASE x = q
    BY <1>2, <1>3, <1>5, <2>1 DEF Reads
  <2>2. CASE x # q
    <3>1. req'[x] = req[x] /\ At(x, "based")
      BY <1>5, <2>2 DEF Reads, Others, At
    <3> QED BY <1>2, <1>3, <1>5, <3>1 DEF LedgerInv, QuietInv
  <2> QED BY <2>1, <2>2
<1>6. QuietInv'
  BY <1>1, <1>3, <1>5 DEF LedgerInv, QuietInv
<1> QED BY <1>1, <1>4, <1>6 DEF LedgerInv

LEMMA DropsHolds ==
  ASSUME LedgerInv, LedgerType', NEW q \in Request, Drops(q)
  PROVE  LedgerInv'
<1>1. RowsInv' /\ \A a : LogsOf(a)' = LogsOf(a)
  BY SameLogs DEF LedgerInv, Drops, Ends
<1>2. \A a : Balance(a)' = Balance(a) /\ Accumulated(a)' = Accumulated(a)
  BY <1>1, RowsStand
<1>3. /\ Active(q) /\ Numbered(q) /\ ~Active(q)' /\ ~Numbered(q)' /\ ~At(q, "based")'
      /\ \A x \in Request \ {q} : /\ Numbered(x)' <=> Numbered(x)
                                  /\ Active(x)' <=> Active(x)
                                  /\ At(x, "based")' <=> At(x, "based")
                                  /\ req'[x] = req[x]
      /\ open' = [open EXCEPT ![req[q].wallet] = @ \ {req[q].at}]
      /\ UNCHANGED <<logs, clock, quiet>>
  BY DEF Drops, Ends, Others, Numbered, Active, At
<1>4. NumbersInv'
  <2>1. ASSUME NEW x \in Request, Active(x)' PROVE req'[x].at \in open'[req'[x].wallet]
    <3>1. x # q /\ Active(x) /\ Numbered(x) /\ req'[x] = req[x]
      BY <1>3, <2>1 DEF Active, Numbered
    <3>2. req[x].at \in open[req[x].wallet] /\ req[x].at # req[q].at /\ req[x].wallet \in Wallet
      BY <1>3, <3>1 DEF LedgerInv, NumbersInv
    <3> QED BY <1>3, <3>1, <3>2 DEF LedgerInv, LedgerType
  <2> QED BY <1>3, <2>1 DEF LedgerInv, NumbersInv
<1>5. QuietInv'
  BY <1>1, <1>2, <1>3 DEF LedgerInv, QuietInv
<1> QED BY <1>1, <1>4, <1>5 DEF LedgerInv

LEMMA AppendsHolds ==
  ASSUME LedgerInv, LedgerType', NEW q \in Request, NEW d \in Int, Appends(q, d)
  PROVE  /\ LedgerInv'
         /\ Row(req[q], d) \notin logs /\ logs' = logs \cup {Row(req[q], d)}
         /\ LogsOf(req[q].wallet)' = LogsOf(req[q].wallet) \cup {Row(req[q], d)}
         /\ \A b : b # req[q].wallet => LogsOf(b)' = LogsOf(b)
<1>1. PICK a, row : a = req[q].wallet /\ row = Row(req[q], d)
  OBVIOUS
<1>2. /\ a \in Wallet /\ req[q].at \in Nat /\ req[q].at < clock
      /\ req[q].base \in Int /\ req[q].earned \in Int
      /\ \A x \in Request : req[x].at \in Nat
  BY <1>1 DEF LedgerInv, LedgerType, NumbersInv, ItType, Appends, Numbered, At
<1>3. /\ row.at = req[q].at /\ row.wallet = a /\ row.diff = d
      /\ row.after = req[q].base + d /\ row.accumulated = req[q].earned + Gain(d)
      /\ Gain(d) \in Int
  <2>1. Max({d, 0}) = Gain(d)
    BY GainIsMax
  <2>2. row.accumulated = req[q].earned + Max({d, 0})
    BY <1>1 DEF Row
  <2>3. row.at = req[q].at /\ row.wallet = a /\ row.diff = d /\ row.after = req[q].base + d
    BY <1>1 DEF Row
  <2> QED BY <2>1, <2>2, <2>3 DEF Gain
<1>4. /\ Active(q) /\ Numbered(q) /\ Numbered(q)' /\ ~Active(q)' /\ ~At(q, "based")' /\ At(q, "based")
      /\ req'[q].wallet = a /\ req'[q].at = req[q].at
      /\ \A x \in Request \ {q} : /\ Numbered(x)' <=> Numbered(x)
                                  /\ Active(x)' <=> Active(x)
                                  /\ At(x, "based")' <=> At(x, "based")
                                  /\ req'[x] = req[x]
      /\ open' = [open EXCEPT ![a] = @ \ {req[q].at}]
      /\ logs' = logs \cup {row} /\ UNCHANGED <<clock, quiet>>
  BY <1>1 DEF Appends, Ends, Others, Numbered, Active, At
<1>5. /\ LogsOf(a)' = LogsOf(a) \cup {row}
      /\ \A b : b # a => LogsOf(b)' = LogsOf(b)
  BY <1>3, <1>4 DEF LogsOf
<1>6. row \notin logs
  BY <1>3, <1>4 DEF LedgerInv, NumbersInv
<1>7. NumbersInv'
  <2>1. ASSUME NEW x \in Request, Active(x)' PROVE req'[x].at \in open'[req'[x].wallet]
    <3>1. x # q /\ Active(x) /\ Numbered(x) /\ req'[x] = req[x]
      BY <1>4, <2>1 DEF Active, Numbered
    <3>2. req[x].at \in open[req[x].wallet] /\ req[x].at # req[q].at /\ req[x].wallet \in Wallet
      BY <1>4, <3>1 DEF LedgerInv, NumbersInv
    <3> QED BY <1>2, <1>4, <3>1, <3>2 DEF LedgerInv, LedgerType
  <2>2. \A x \in Request : Numbered(x)' => Numbered(x) /\ req'[x].wallet = req[x].wallet
                                           /\ req'[x].at = req[x].at
    BY <1>1, <1>4
  <2>3. \A x \in Request : Numbered(x)' => req'[x].wallet \in Wallet /\ req'[x].at < clock'
    BY <1>4, <2>2 DEF LedgerInv, NumbersInv
  <2>4. \A x, y \in Request : Numbered(x)' /\ Numbered(y)' /\ req'[x].at = req'[y].at => x = y
    BY <2>2 DEF LedgerInv, NumbersInv
  <2>5. \A l, k \in logs' : l.at = k.at /\ l.wallet = k.wallet => l = k
    BY <1>3, <1>4 DEF LedgerInv, NumbersInv
  <2>6. ASSUME NEW l \in logs' PROVE l.at < clock' /\ \A x \in Request : Active(x)' => l.at # req'[x].at
    <3>1. CASE l = row
      <4>1. \A x \in Request : Active(x)' => x # q /\ Numbered(x) /\ req'[x] = req[x]
        BY <1>4 DEF Active, Numbered
      <4> QED BY <1>2, <1>3, <1>4, <3>1, <4>1 DEF LedgerInv, NumbersInv
    <3>2. CASE l \in logs
      BY <1>4, <3>2 DEF LedgerInv, NumbersInv
    <3> QED BY <1>4, <3>1, <3>2
  <2> QED BY <2>1, <2>3, <2>4, <2>5, <2>6 DEF NumbersInv
<1>8. \A b : b # a => Balance(b)' = Balance(b) /\ Accumulated(b)' = Accumulated(b)
                      /\ Moved(b)' = Moved(b) /\ Earned(b)' = Earned(b)
  BY <1>5, RowsStand
<1>9. QuietInv'
  <2> SUFFICES ASSUME NEW b \in quiet'
               PROVE  /\ \A x, y \in Request :
                            Active(x)' /\ Active(y)' /\ req'[x].wallet = b /\ req'[y].wallet = b => x = y
                      /\ \A x \in Request : Active(x)' /\ req'[x].wallet = b =>
                            \A l \in LogsOf(b)' : l.at < req'[x].at
                      /\ \A x \in Request : At(x, "based")' /\ req'[x].wallet = b =>
                            req'[x].base = Balance(b)' /\ req'[x].earned = Accumulated(b)'
    BY Zenon DEF QuietInv
  <2>1. b \in quiet
    BY <1>4
  <2>2. CASE b # a
    BY <1>4, <1>5, <1>8, <2>1, <2>2 DEF LedgerInv, QuietInv
  <2>3. CASE b = a
    <3>1. ASSUME NEW x \in Request, Active(x)', req'[x].wallet = b PROVE FALSE
      <4>1. x # q /\ Active(x) /\ req[x].wallet = a
        BY <1>4, <2>3, <3>1
      <4> QED BY <1>1, <1>4, <2>1, <2>3, <4>1 DEF LedgerInv, QuietInv
    <3>2. \A x \in Request : At(x, "based")' => Active(x)'
      BY DEF At, Active
    <3> QED BY <3>1, <3>2
  <2> QED BY <2>2, <2>3
<1>10. RowsInv'
  <2> SUFFICES ASSUME NEW b \in quiet'
               PROVE  /\ Balance(b)' = Moved(b)' /\ Accumulated(b)' = Earned(b)'
                      /\ LeadsOn(LogsOf(b)')
    BY Zenon DEF RowsInv
  <2>1. b \in quiet /\ Balance(b) = Moved(b) /\ Accumulated(b) = Earned(b) /\ LeadsOn(LogsOf(b))
    BY <1>4 DEF LedgerInv, RowsInv
  <2>2. CASE b # a
    BY <1>5, <1>8, <2>1, <2>2
  <2>3. CASE b = a
    <3>1. PICK L : L = LogsOf(a)
      OBVIOUS
    <3>2. /\ IsRows(L) /\ Balance(a) = BalanceIn(L) /\ Accumulated(a) = EarnedIn(L)
          /\ \A l \in L : l \in logs
      BY <1>2, <3>1, RowsOfAWallet DEF LedgerInv
    <3>3. \A l \in L : l.at < row.at
      BY <1>1, <1>3, <1>4, <2>1, <2>3, <3>1 DEF LedgerInv, QuietInv
    <3>4. req[q].base = BalanceIn(L) /\ req[q].earned = EarnedIn(L)
      BY <1>1, <1>4, <2>1, <2>3, <3>1, <3>2 DEF LedgerInv, QuietInv
    <3>5. row.at \in Nat /\ row.diff \in Int /\ row.after \in Int /\ row.accumulated \in Int
      BY <1>2, <1>3
    <3>6. /\ row \notin L
          /\ BalanceIn(L \cup {row}) = row.after /\ EarnedIn(L \cup {row}) = row.accumulated
          /\ \A l \in L : Older(l, L \cup {row}) = Older(l, L)
          /\ Older(row, L \cup {row}) = L
      BY <3>2, <3>3, <3>5, RowAdded
    <3>7. LeadsOn(L \cup {row})
      <4>1. row.after - row.diff = BalanceIn(L)
        BY <1>2, <1>3, <3>4
      <4> QED BY <2>1, <2>3, <3>1, <3>6, <4>1 DEF LeadsOn
    <3>8. PICK m, e : /\ m = SumFunction([l \in L |-> l.diff])
                      /\ e = SumFunction([l \in L |-> Max({l.diff, 0})])
      OBVIOUS
    <3>9. /\ SumFunction([l \in L \cup {row} |-> l.diff]) = m + row.diff
          /\ SumFunction([l \in L \cup {row} |-> Max({l.diff, 0})]) = e + Gain(row.diff)
      BY <3>2, <3>5, <3>6, <3>8, MovedMore
    <3>10. BalanceIn(L) = m /\ EarnedIn(L) = e
      BY <2>1, <2>3, <3>1, <3>2, <3>8 DEF Moved, Earned
    <3>11. LogsOf(a)' = L \cup {row}
      BY <1>5, <3>1
    <3>12. Balance(a)' = BalanceIn(LogsOf(a)') /\ Accumulated(a)' = EarnedIn(LogsOf(a)')
      BY DEF Balance, Accumulated, BalanceIn, EarnedIn, Newest, LastRow
    <3>13. Moved(a)' = m + row.diff /\ Earned(a)' = e + Gain(row.diff)
      BY <3>9, <3>11 DEF Moved, Earned
    <3> QED BY <1>3, <2>3, <3>4, <3>6, <3>7, <3>10, <3>11, <3>12, <3>13
  <2> QED BY <2>2, <2>3
<1> QED BY <1>1, <1>4, <1>5, <1>6, <1>7, <1>9, <1>10 DEF LedgerInv

-----------------------------------------------------------------------------
(* The claims.  A claim under way holds receipts that are still claimable, *)
(* as long as its wallet is quiet and nobody else asks for them, and what  *)
(* it will add to the ledger is what they were assigned.                   *)

ClaimsInv ==
    /\ status \in [Receipt -> Claimable \cup Settled] /\ worth \in [Receipt -> Worth]
    /\ dailyClaims \subseteq Wallet \X Day
    /\ \A q \in Request :
         /\ req[q].pc \in {"new", "checked"} => req[q].source # "receipt-upload"
         /\ req[q].source # "receipt-upload" => req[q].receipts = {}
         /\ req[q].source = "receipt-upload" => req[q].amount = SumFunctionOnSet(worth, req[q].receipts)
    /\ \A l \in logs : l.receipts # {} => l.diff = SumFunctionOnSet(worth, l.receipts)

ReceiptsInv ==
    \A r \in Receipt : owner[r] \in quiet /\ AskedByOwner(r) =>
        /\ \/ status[r] \in Claimable /\ CreditsOf(r) = {}
           \/ status[r] \in Settled /\ \E l : CreditsOf(r) = {l}
        /\ \A q \in Request : Active(q) /\ r \in req[q].receipts => status[r] \in Claimable

\* Every movement the server answers for is in the ledger.
DoneInv ==
    \A q \in Request : At(q, "done") =>
        \E l \in logs : l.at = req[q].at /\ l.wallet = req[q].wallet /\ l.diff = req[q].amount

PointsInv == LedgerInv /\ ClaimsInv /\ ReceiptsInv /\ DailyOncePerDate /\ DoneInv

(* What a step may do to the claims.                                       *)
Fresh(q) ==
    /\ req[q].pc \in {"new", "checked"}
    /\ req'[q].receipts = {} /\ req'[q].source # "receipt-upload"

TakesUp(q) ==
    /\ At(q, "new") /\ req'[q].source = "receipt-upload"
    /\ \A r \in req'[q].receipts : status[r] \in Claimable
    /\ req'[q].amount = SumFunctionOnSet(worth, req'[q].receipts)

Kept(q) == UNCHANGED <<req[q].wallet, req[q].receipts, req[q].source, req[q].amount>>

Marks(q) ==
    IF req[q].source = "receipt-upload"
    THEN status' = [r \in Receipt |-> IF r \in req[q].receipts THEN ClaimedAs(status[r]) ELSE status[r]]
    ELSE UNCHANGED status

Dates(q) ==
    IF req[q].source = "daily-claim"
    THEN /\ <<req[q].wallet, req[q].date>> \notin dailyClaims
         /\ dailyClaims' = dailyClaims \cup {<<req[q].wallet, req[q].date>>}
    ELSE UNCHANGED dailyClaims

Waiting ==
    /\ UNCHANGED <<logs, clock, open, quiet, receiptVars, dailyClaims>>
    /\ \A q \in Request : req'[q] = req[q] \/ (Fresh(q) /\ ~Numbered(q)')

Beginning(q) == Opens(q) /\ (Fresh(q) \/ TakesUp(q)) /\ UNCHANGED <<receiptVars, dailyClaims>>
Reading(q) == Reads(q) /\ Kept(q) /\ UNCHANGED <<receiptVars, dailyClaims>>
Settling(q) ==
    /\ Appends(q, req[q].amount) /\ Kept(q) /\ UNCHANGED <<worth, owner>>
    /\ Marks(q) /\ Dates(q)
Dropping(q) == Drops(q) /\ Kept(q) /\ UNCHANGED <<receiptVars, dailyClaims>>

PointStep ==
    Waiting \/ \E q \in Request : Beginning(q) \/ Reading(q) \/ Settling(q) \/ Dropping(q)

LEMMA AskedBefore ==
  ASSUME PointsInv, PointStep, NEW r \in Receipt, owner'[r] \in quiet', AskedByOwner(r)',
         quiet' \subseteq quiet
  PROVE  owner[r] \in quiet /\ AskedByOwner(r) /\ owner'[r] = owner[r]
<1>1. owner'[r] = owner[r]
  BY DEF PointStep, Waiting, Beginning, Reading, Settling, Dropping, receiptVars
<1>2. ASSUME NEW q \in Request, r \in req[q].receipts
      PROVE  r \in req'[q].receipts /\ req'[q].wallet = req[q].wallet
  <2>1. req[q].source = "receipt-upload" /\ req[q].pc \notin {"new", "checked"}
    BY <1>2 DEF PointsInv, ClaimsInv
  <2>2. CASE Waiting
    BY <1>2, <2>1, <2>2 DEF Waiting, Fresh
  <2>3. CASE \E x \in Request : Beginning(x)
    BY <1>2, <2>1, <2>3 DEF Beginning, Opens, Others, Fresh, TakesUp, At
  <2>4. CASE \E x \in Request : Reading(x)
    BY <1>2, <2>4 DEF Reading, Reads, Others, Kept
  <2>5. CASE \E x \in Request : Settling(x)
    BY <1>2, <2>5 DEF Settling, Appends, Others, Kept
  <2>6. CASE \E x \in Request : Dropping(x)
    BY <1>2, <2>6 DEF Dropping, Drops, Others, Kept
  <2> QED BY <2>2, <2>3, <2>4, <2>5, <2>6 DEF PointStep
<1> QED BY <1>1, <1>2 DEF AskedByOwner

LEMMA RowIs ==
  ASSUME NEW it, NEW d
  PROVE  /\ Row(it, d).at = it.at /\ Row(it, d).wallet = it.wallet /\ Row(it, d).diff = d
         /\ Row(it, d).source = it.source /\ Row(it, d).receipts = it.receipts
BY DEF Row

LEMMA ClaimsHold ==
  ASSUME PointsInv, PointStep
  PROVE  ClaimsInv'
<1> USE DEF PointsInv
<1>1. ASSUME Waiting \/ \E q \in Request : Beginning(q) \/ Reading(q) \/ Dropping(q)
      PROVE  UNCHANGED <<logs, status, worth, owner, dailyClaims>>
  BY <1>1 DEF Waiting, Beginning, Reading, Dropping, Opens, Reads, Drops, receiptVars
<1>2. CASE Waiting
  <2>1. \A q \in Request : req'[q] = req[q] \/ (req'[q].source # "receipt-upload" /\ req'[q].receipts = {})
    BY <1>2 DEF Waiting, Fresh
  <2> QED BY <1>1, <1>2, <2>1 DEF ClaimsInv
<1>3. ASSUME NEW q \in Request, Beginning(q) PROVE ClaimsInv'
  <2>1. \A x \in Request \ {q} : req'[x] = req[x]
    BY <1>3 DEF Beginning, Opens, Others
  <2>2. req'[q].pc \notin {"new", "checked"}
    BY <1>3 DEF Beginning, Opens, Active
  <2>3. \/ req'[q].source # "receipt-upload" /\ req'[q].receipts = {}
        \/ req'[q].source = "receipt-upload" /\ req'[q].amount = SumFunctionOnSet(worth, req'[q].receipts)
    BY <1>3 DEF Beginning, Fresh, TakesUp
  <2> QED BY <1>1, <1>3, <2>1, <2>2, <2>3 DEF ClaimsInv
<1>4. ASSUME NEW q \in Request, Reading(q) \/ Dropping(q) PROVE ClaimsInv'
  <2>1. /\ \A x \in Request \ {q} : req'[x] = req[x]
        /\ req'[q].pc \notin {"new", "checked"}
        /\ Kept(q)
    BY <1>4 DEF Reading, Dropping, Reads, Drops, Others, At
  <2> QED BY <1>1, <1>4, <2>1 DEF ClaimsInv, Kept
<1>5. ASSUME NEW q \in Request, Settling(q) PROVE ClaimsInv'
  <2>1. /\ \A x \in Request \ {q} : req'[x] = req[x]
        /\ req'[q].pc \notin {"new", "checked"}
        /\ req'[q].source = req[q].source /\ req'[q].receipts = req[q].receipts
        /\ req'[q].amount = req[q].amount
        /\ worth' = worth /\ logs' = logs \cup {Row(req[q], req[q].amount)}
    BY <1>5 DEF Settling, Appends, Others, At, Kept
  <2>2. status' \in [Receipt -> Claimable \cup Settled]
    BY <1>5 DEF Settling, Marks, ClaimsInv, ClaimedAs, Claimable, Settled
  <2>3. dailyClaims' \subseteq Wallet \X Day
    <3>1. req[q].wallet \in Wallet /\ req[q].date \in Day
      BY <1>5 DEF Settling, Appends, LedgerInv, LedgerType, ItType, At
    <3> QED BY <1>5, <3>1 DEF Settling, Dates, ClaimsInv
  <2>4. \A l \in logs' : l.receipts # {} => l.diff = SumFunctionOnSet(worth', l.receipts)
    BY <2>1, RowIs DEF ClaimsInv
  <2> QED BY <2>1, <2>2, <2>3, <2>4 DEF ClaimsInv
<1> QED BY <1>2, <1>3, <1>4, <1>5 DEF PointStep

LEMMA ReceiptsHold ==
  ASSUME PointsInv, LedgerInv', PointStep
  PROVE  ReceiptsInv'
<1> USE DEF PointsInv
<1>1. quiet' \subseteq quiet
  BY DEF PointStep, Waiting, Beginning, Opens, Begins, Reading, Reads, Settling, Appends,
         Dropping, Drops, Ends
<1> SUFFICES ASSUME NEW r \in Receipt, owner'[r] \in quiet', AskedByOwner(r)'
             PROVE  /\ \/ status'[r] \in Claimable /\ CreditsOf(r)' = {}
                       \/ status'[r] \in Settled /\ \E l : CreditsOf(r)' = {l}
                    /\ \A q \in Request : Active(q)' /\ r \in req'[q].receipts => status'[r] \in Claimable
  BY Zenon DEF ReceiptsInv
<1>2. owner[r] \in quiet /\ AskedByOwner(r) /\ owner'[r] = owner[r]
  BY <1>1, AskedBefore
<1>3. /\ \/ status[r] \in Claimable /\ CreditsOf(r) = {}
         \/ status[r] \in Settled /\ \E l : CreditsOf(r) = {l}
      /\ \A q \in Request : Active(q) /\ r \in req[q].receipts => status[r] \in Claimable
  BY <1>2 DEF ReceiptsInv
<1>4. ASSUME UNCHANGED <<logs, status>>,
             \A q \in Request : Active(q)' /\ r \in req'[q].receipts => status[r] \in Claimable
      PROVE  /\ \/ status'[r] \in Claimable /\ CreditsOf(r)' = {}
                \/ status'[r] \in Settled /\ \E l : CreditsOf(r)' = {l}
             /\ \A q \in Request : Active(q)' /\ r \in req'[q].receipts => status'[r] \in Claimable
  <2>1. CreditsOf(r)' = CreditsOf(r)
    BY <1>4 DEF CreditsOf
  <2> QED BY <1>3, <1>4, <2>1
<1>5. CASE Waiting
  <2>1. \A q \in Request : Active(q)' /\ r \in req'[q].receipts => Active(q) /\ r \in req[q].receipts
    BY <1>5 DEF Waiting, Fresh, Active
  <2> QED BY <1>3, <1>4, <1>5, <2>1 DEF Waiting, receiptVars
<1>6. ASSUME NEW x \in Request, Beginning(x)
      PROVE  \A q \in Request : Active(q)' /\ r \in req'[q].receipts => status[r] \in Claimable
  BY <1>3, <1>6 DEF Beginning, Opens, Others, Active, Fresh, TakesUp
<1>7. ASSUME NEW x \in Request, Reading(x) \/ Dropping(x)
      PROVE  \A q \in Request : Active(q)' /\ r \in req'[q].receipts => status[r] \in Claimable
  BY <1>3, <1>7 DEF Reading, Dropping, Reads, Drops, Others, Active, At, Kept
<1>8. ASSUME NEW x \in Request, Settling(x)
      PROVE  /\ \/ status'[r] \in Claimable /\ CreditsOf(r)' = {}
                \/ status'[r] \in Settled /\ \E l : CreditsOf(r)' = {l}
             /\ \A q \in Request : Active(q)' /\ r \in req'[q].receipts => status'[r] \in Claimable
  <2> DEFINE row == Row(req[x], req[x].amount)
  <2>1. /\ logs' = logs \cup {row} /\ row.receipts = req[x].receipts
        /\ Active(x) /\ ~Active(x)'
        /\ \A q \in Request \ {x} : req'[q] = req[q] /\ (Active(q)' => Active(q))
    BY <1>8, RowIs DEF Settling, Appends, Others, Active, At
  <2> HIDE DEF row
  <2>2. CASE r \in req[x].receipts
    <3>1. req[x].source = "receipt-upload" /\ status[r] \in Claimable /\ CreditsOf(r) = {}
      BY <1>3, <2>1, <2>2 DEF ClaimsInv, Claimable, Settled
    <3>2. status'[r] = ClaimedAs(status[r])
      BY <1>8, <2>2, <3>1 DEF Settling, Marks
    <3>3. status'[r] \in Settled
      BY <3>1, <3>2 DEF ClaimedAs, Claimable, Settled
    <3>4. CreditsOf(r)' = {row}
      BY <2>1, <2>2, <3>1 DEF CreditsOf
    <3>5. ASSUME NEW q \in Request, Active(q)', r \in req'[q].receipts PROVE FALSE
      <4>1. q # x /\ Active(q) /\ r \in req[q].receipts
        BY <2>1, <3>5
      <4>2. req[q].wallet = owner[r] /\ req[x].wallet = owner[r]
        BY <1>2, <2>2, <4>1 DEF AskedByOwner
      <4> QED BY <1>2, <2>1, <4>1, <4>2 DEF LedgerInv, QuietInv
    <3> QED BY <3>3, <3>4, <3>5
  <2>3. CASE r \notin req[x].receipts
    <3>1. status'[r] = status[r]
      BY <1>8, <2>3 DEF Settling, Marks
    <3>2. CreditsOf(r)' = CreditsOf(r)
      BY <2>1, <2>3 DEF CreditsOf
    <3>3. \A q \in Request : Active(q)' /\ r \in req'[q].receipts => Active(q) /\ r \in req[q].receipts
      BY <2>1, <2>3
    <3> QED BY <1>3, <3>1, <3>2, <3>3
  <2> QED BY <2>2, <2>3
<1>9. CASE \E x \in Request : Beginning(x) \/ Reading(x) \/ Dropping(x)
  <2>1. UNCHANGED <<logs, status>>
    BY <1>9 DEF Beginning, Reading, Dropping, Opens, Reads, Drops, receiptVars
  <2> QED BY <1>4, <1>6, <1>7, <1>9, <2>1
<1> QED BY <1>5, <1>8, <1>9 DEF PointStep

\* A new row belongs to one wallet; a new date is one more.
LEMMA DailyHolds ==
  ASSUME PointsInv, LedgerType', PointStep
  PROVE  DailyOncePerDate'
<1> USE DEF PointsInv
<1> SUFFICES ASSUME NEW a \in Wallet
             PROVE  Cardinality({l \in LogsOf(a)' : l.source = "daily-claim"})
                       = Cardinality({d \in Day : <<a, d>> \in dailyClaims'})
  BY Zenon DEF DailyOncePerDate
<1>1. PICK L, D : /\ L = {l \in LogsOf(a) : l.source = "daily-claim"}
                  /\ D = {d \in Day : <<a, d>> \in dailyClaims}
  OBVIOUS
<1>2. Cardinality(L) = Cardinality(D)
  BY <1>1 DEF DailyOncePerDate
<1>3. ASSUME UNCHANGED <<logs, dailyClaims>>
      PROVE  Cardinality({l \in LogsOf(a)' : l.source = "daily-claim"})
                = Cardinality({d \in Day : <<a, d>> \in dailyClaims'})
  BY <1>1, <1>2, <1>3 DEF LogsOf
<1>4. ASSUME NEW q \in Request, Settling(q)
      PROVE  Cardinality({l \in LogsOf(a)' : l.source = "daily-claim"})
                = Cardinality({d \in Day : <<a, d>> \in dailyClaims'})
  <2>1. PICK row : row = Row(req[q], req[q].amount)
    OBVIOUS
  <2>2. /\ logs' = logs \cup {row} /\ row.at = req[q].at /\ row.wallet = req[q].wallet
        /\ row.source = req[q].source /\ Active(q)
    BY <1>4, <2>1, RowIs DEF Settling, Appends, Active, At
  <2>3. row \notin logs /\ row \notin L
    BY <1>1, <2>2 DEF LedgerInv, NumbersInv, LogsOf
  <2>4. IsFiniteSet(L) /\ IsFiniteSet(D)
    <3>1. L \subseteq logs /\ D \subseteq 0..MaxDay
      BY <1>1 DEF LogsOf, Day
    <3>2. IsFiniteSet(0..MaxDay)
      BY AwardAssumption, FS_Interval
    <3> QED BY <3>1, <3>2, FS_Subset DEF LedgerInv, LedgerType
  <2>5. CASE req[q].source = "daily-claim" /\ req[q].wallet = a
    <3>1. PICK d : d = req[q].date /\ d \in Day
      BY DEF LedgerInv, LedgerType, ItType
    <3>2. /\ {l \in LogsOf(a)' : l.source = "daily-claim"} = L \cup {row}
      BY <1>1, <2>2, <2>5 DEF LogsOf
    <3>3. d \notin D /\ dailyClaims' = dailyClaims \cup {<<a, d>>}
      BY <1>1, <1>4, <2>5, <3>1 DEF Settling, Dates
    <3>4. {e \in Day : <<a, e>> \in dailyClaims'} = D \cup {d}
      BY <1>1, <3>1, <3>3
    <3>5. /\ Cardinality(L \cup {row}) = Cardinality(L) + 1
          /\ Cardinality(D \cup {d}) = Cardinality(D) + 1
      BY <2>3, <2>4, <3>3, FS_AddElement
    <3> QED BY <1>2, <3>2, <3>4, <3>5
  <2>6. CASE ~(req[q].source = "daily-claim" /\ req[q].wallet = a)
    <3>1. {l \in LogsOf(a)' : l.source = "daily-claim"} = L
      BY <1>1, <2>2, <2>6 DEF LogsOf
    <3>2. {e \in Day : <<a, e>> \in dailyClaims'} = D
      BY <1>1, <1>4, <2>6 DEF Settling, Dates
    <3> QED BY <1>2, <3>1, <3>2
  <2> QED BY <2>5, <2>6
<1>5. CASE Waiting \/ \E q \in Request : Beginning(q) \/ Reading(q) \/ Dropping(q)
  <2>1. UNCHANGED <<logs, dailyClaims>>
    BY <1>5 DEF Waiting, Beginning, Reading, Dropping, Opens, Reads, Drops
  <2> QED BY <1>3, <2>1
<1> QED BY <1>4, <1>5 DEF PointStep

LEMMA DoneHolds ==
  ASSUME PointsInv, PointStep
  PROVE  DoneInv'
<1> USE DEF PointsInv
<1>1. \A q \in Request : At(q, "done") =>
          \E l \in logs : l.at = req[q].at /\ l.wallet = req[q].wallet /\ l.diff = req[q].amount
  BY DEF DoneInv
<1>2. ASSUME logs \subseteq logs', \A q \in Request : At(q, "done")' => At(q, "done") /\ req'[q] = req[q]
      PROVE  DoneInv'
  BY <1>1, <1>2 DEF DoneInv
<1>3. CASE Waiting
  <2>1. \A q \in Request : At(q, "done")' => At(q, "done") /\ req'[q] = req[q]
    BY <1>3 DEF Waiting, Numbered, At
  <2> QED BY <1>2, <1>3, <2>1 DEF Waiting
<1>4. ASSUME NEW x \in Request, Beginning(x) \/ Reading(x) \/ Dropping(x) PROVE DoneInv'
  <2>1. \A q \in Request : At(q, "done")' => At(q, "done") /\ req'[q] = req[q]
    BY <1>4 DEF Beginning, Reading, Dropping, Opens, Reads, Drops, Others, Active, At
  <2>2. logs' = logs
    BY <1>4 DEF Beginning, Reading, Dropping, Opens, Reads, Drops
  <2> QED BY <1>2, <2>1, <2>2
<1>5. ASSUME NEW x \in Request, Settling(x) PROVE DoneInv'
  <2>1. PICK row : row = Row(req[x], req[x].amount)
    OBVIOUS
  <2>2. row.at = req[x].at /\ row.wallet = req[x].wallet /\ row.diff = req[x].amount
    BY <2>1, RowIs
  <2>3. /\ logs' = logs \cup {row}
        /\ req'[x].at = req[x].at /\ req'[x].wallet = req[x].wallet /\ req'[x].amount = req[x].amount
        /\ \A q \in Request \ {x} : req'[q] = req[q] /\ (At(q, "done")' => At(q, "done"))
    BY <1>5, <2>1 DEF Settling, Appends, Others, Kept, At
  <2>4. ASSUME NEW q \in Request, At(q, "done")'
        PROVE  \E l \in logs' : l.at = req'[q].at /\ l.wallet = req'[q].wallet /\ l.diff = req'[q].amount
    <3>1. CASE q = x
      BY <2>2, <2>3, <3>1
    <3>2. CASE q # x
      BY <1>1, <2>3, <2>4, <3>2
    <3> QED BY <3>1, <3>2
  <2> QED BY <2>4 DEF DoneInv
<1> QED BY <1>3, <1>4, <1>5 DEF PointStep

LEMMA PointStepHolds ==
  ASSUME PointsInv, LedgerType', PointStep
  PROVE  PointsInv'
<1>1. LedgerInv
  BY DEF PointsInv
<1>2. LedgerInv'
  <2>1. CASE Waiting
    <3>1. Rests
      BY <2>1 DEF Waiting, Rests, Fresh, Numbered
    <3> QED BY <1>1, <3>1, RestsHolds
  <2>2. ASSUME NEW q \in Request, Beginning(q) PROVE LedgerInv'
    BY <1>1, <2>2, OpensHolds DEF Beginning
  <2>3. ASSUME NEW q \in Request, Reading(q) PROVE LedgerInv'
    BY <1>1, <2>3, ReadsHolds DEF Reading
  <2>4. ASSUME NEW q \in Request, Settling(q) PROVE LedgerInv'
    <3>1. req[q].amount \in Int
      BY <1>1 DEF LedgerInv, LedgerType, ItType
    <3>2. Appends(q, req[q].amount)
      BY <2>4 DEF Settling
    <3>3. PICK d \in Int : d = req[q].amount
      BY <3>1
    <3>4. Appends(q, d)
      BY <3>2, <3>3
    <3> QED BY <1>1, <3>4, AppendsHolds
  <2>5. ASSUME NEW q \in Request, Dropping(q) PROVE LedgerInv'
    BY <1>1, <2>5, DropsHolds DEF Dropping
  <2> QED BY <2>1, <2>2, <2>3, <2>4, <2>5 DEF PointStep
<1> QED BY <1>2, ClaimsHold, ReceiptsHold, DailyHolds, DoneHolds DEF PointsInv

-----------------------------------------------------------------------------
(* Every action is such a step.                                            *)

\* A request that has been looked at, and is refused or will be served.
Asks(q) ==
    /\ At(q, "new") /\ UNCHANGED <<day, logs, receiptVars, dailyClaims, openVars>>
    /\ \E a \in Wallet, source \in Source \ {"receipt-upload"}, amount \in Int,
          pc \in {"checked", "failed"} :
           req' = [req EXCEPT ![q] = [NewRequest EXCEPT
                      !.pc = pc, !.source = source, !.wallet = a, !.amount = amount, !.date = day]]

LEMMA AsksWaits ==
  ASSUME PointsInv, NEW q \in Request, Asks(q)
  PROVE  LedgerType' /\ PointStep
<1> USE DEF PointsInv
<1>1. PICK a \in Wallet, source \in Source \ {"receipt-upload"}, amount \in Int,
           pc \in {"checked", "failed"} :
           req' = [req EXCEPT ![q] = [NewRequest EXCEPT
                      !.pc = pc, !.source = source, !.wallet = a, !.amount = amount, !.date = day]]
  BY DEF Asks
<1> DEFINE it == [NewRequest EXCEPT
                      !.pc = pc, !.source = source, !.wallet = a, !.amount = amount, !.date = day]
<1>2. /\ it \in ItType /\ it.pc = pc /\ it.wallet = a /\ it.source = source /\ it.receipts = {}
  <2>1. NewRequest \in ItType /\ NewRequest.receipts = {}
    BY AwardAssumption DEF NewRequest, ItType, Source, Day
  <2>2. day \in Day /\ pc \in {"new", "checked", "open", "based", "done", "failed"}
    BY DEF LedgerInv, LedgerType
  <2> QED BY <2>1, <2>2 DEF ItType
<1> HIDE DEF it
<1>3. req' = [req EXCEPT ![q] = it] /\ req \in [Request -> ItType]
  BY <1>1 DEF it, LedgerInv, LedgerType
<1>4. req'[q] = it /\ \A x \in Request \ {q} : req'[x] = req[x]
  BY <1>3
<1>5. LedgerType'
  BY <1>2, <1>3, <1>4 DEF LedgerInv, LedgerType, Asks, At, openVars
<1>6. Waiting
  BY <1>2, <1>4 DEF Waiting, Fresh, Numbered, Asks, At, openVars
<1> QED BY <1>5, <1>6 DEF PointStep

\* Nothing but the day may have changed.
LEMMA Stands ==
  ASSUME PointsInv, UNCHANGED <<logs, receiptVars, dailyClaims, req, openVars>>, day' \in Day
  PROVE  LedgerType' /\ PointStep
BY DEF PointsInv, LedgerInv, LedgerType, PointStep, Waiting, openVars, At

LEMMA BalancesAreNumbers ==
  ASSUME LedgerInv, NEW a \in Wallet
  PROVE  Balance(a) \in Int /\ Accumulated(a) \in Int
<1>1. PICK L : L = LogsOf(a)
  OBVIOUS
<1>2. IsRows(L) /\ Balance(a) = BalanceIn(L) /\ Accumulated(a) = EarnedIn(L)
  BY <1>1, RowsOfAWallet DEF LedgerInv
<1> QED BY <1>2, BalanceIsInt

LEMMA BeginClaimHolds ==
  ASSUME PointsInv, NEW q \in Request, NEW a \in Wallet, NEW ids \in SUBSET Receipt,
         \A r \in ids : status[r] \in Claimable, BeginClaim(q, a, ids)
  PROVE  LedgerType' /\ PointStep
<1> USE DEF PointsInv
<1>1. PICK sum : sum = SumFunctionOnSet(worth, ids)
  OBVIOUS
<1>2. sum \in Int
  <2>1. IsFiniteSet(ids)
    BY LedgerAssumption, FS_Subset
  <2>2. \A r \in ids : worth[r] \in Int
    <3>1. worth \in [Receipt -> Worth] /\ \A n \in Worth : n \in Int
      BY AwardAssumption DEF ClaimsInv
    <3> QED BY <3>1
  <2> QED BY <1>1, <2>1, <2>2, SumSplit
<1> DEFINE it == [NewRequest EXCEPT
                      !.pc = "open", !.source = "receipt-upload", !.wallet = a, !.receipts = ids,
                      !.amount = sum, !.at = clock, !.day = day]
<1>3. /\ it \in ItType /\ it.pc = "open" /\ it.wallet = a /\ it.source = "receipt-upload"
      /\ it.receipts = ids /\ it.amount = sum /\ it.at = clock
  <2>1. NewRequest \in ItType /\ "receipt-upload" \in Source
    BY AwardAssumption DEF NewRequest, ItType, Source, Day
  <2>2. day \in Day /\ clock \in Nat
    BY DEF LedgerInv, LedgerType
  <2> QED BY <1>2, <2>1, <2>2 DEF ItType
<1>4. req' = [req EXCEPT ![q] = it] /\ req \in [Request -> ItType]
  BY <1>1 DEF BeginClaim, LedgerInv, LedgerType
<1> HIDE DEF it
<1>5. req'[q] = it /\ \A x \in Request \ {q} : req'[x] = req[x]
  BY <1>4
<1>6. /\ At(q, "new") /\ Begins(a)
      /\ UNCHANGED <<day, logs, receiptVars, dailyClaims>>
  BY DEF BeginClaim
<1>7. LedgerType'
  BY <1>3, <1>4, <1>5, <1>6 DEF LedgerInv, LedgerType, Begins, At
<1>8. Beginning(q)
  BY <1>1, <1>3, <1>5, <1>6 DEF Beginning, Opens, TakesUp, Others, Numbered, Active, At
<1> QED BY <1>7, <1>8 DEF PointStep

LEMMA ReadNewestHolds ==
  ASSUME PointsInv, NEW q \in Request, ReadNewest(q)
  PROVE  LedgerType' /\ PointStep
<1> USE DEF PointsInv
<1>1. /\ req \in [Request -> ItType] /\ At(q, "open") /\ req[q].wallet \in Wallet
      /\ UNCHANGED <<day, logs, receiptVars, dailyClaims, openVars>>
  BY DEF ReadNewest, LedgerInv, LedgerType, At
<1>2. PICK b, e \in Int : b = Balance(req[q].wallet) /\ e = Accumulated(req[q].wallet)
  BY <1>1, BalancesAreNumbers
<1> DEFINE it == [req[q] EXCEPT !.pc = "based", !.base = b, !.earned = e]
<1>3. /\ it \in ItType /\ it.pc = "based" /\ it.base = b /\ it.earned = e
      /\ it.wallet = req[q].wallet /\ it.receipts = req[q].receipts /\ it.source = req[q].source
      /\ it.amount = req[q].amount /\ it.at = req[q].at
  BY <1>1, <1>2 DEF ItType
<1>4. req' = [req EXCEPT ![q] = it]
  BY <1>2 DEF ReadNewest
<1> HIDE DEF it
<1>5. req'[q] = it /\ \A x \in Request \ {q} : req'[x] = req[x]
  BY <1>1, <1>4
<1>6. LedgerType'
  BY <1>1, <1>3, <1>4, <1>5 DEF LedgerInv, LedgerType, openVars, At
<1>7. Reading(q)
  BY <1>1, <1>2, <1>3, <1>5 DEF Reading, Reads, Kept, Others, openVars, At
<1> QED BY <1>6, <1>7 DEF PointStep

LEMMA BeginAtNewestHolds ==
  ASSUME PointsInv, NEW q \in Request, BeginAtNewest(q)
  PROVE  LedgerType' /\ PointStep
<1> USE DEF PointsInv
<1>1. /\ req \in [Request -> ItType] /\ At(q, "checked") /\ req[q].wallet \in Wallet
      /\ Begins(req[q].wallet)
      /\ UNCHANGED <<day, logs, receiptVars, dailyClaims>>
      /\ clock \in Nat /\ day \in Day
  BY DEF BeginAtNewest, LedgerInv, LedgerType, At
<1>2. PICK b, e \in Int : b = Balance(req[q].wallet) /\ e = Accumulated(req[q].wallet)
  BY <1>1, BalancesAreNumbers
<1> DEFINE it == [req[q] EXCEPT !.pc = "based", !.base = b, !.earned = e, !.at = clock, !.day = day]
<1>3. /\ it \in ItType /\ it.pc = "based" /\ it.base = b /\ it.earned = e /\ it.at = clock
      /\ it.wallet = req[q].wallet /\ it.receipts = req[q].receipts /\ it.source = req[q].source
  BY <1>1, <1>2 DEF ItType
<1>4. req' = [req EXCEPT ![q] = it]
  BY <1>2 DEF BeginAtNewest
<1> HIDE DEF it
<1>5. req'[q] = it /\ \A x \in Request \ {q} : req'[x] = req[x]
  BY <1>1, <1>4
<1>6. LedgerType'
  BY <1>1, <1>3, <1>4, <1>5 DEF LedgerInv, LedgerType, Begins, At
<1>7. req[q].source # "receipt-upload" /\ req[q].receipts = {}
  BY <1>1 DEF ClaimsInv, At
<1>8. Beginning(q)
  BY <1>1, <1>2, <1>3, <1>5, <1>7 DEF Beginning, Opens, Fresh, Others, Numbered, Active, At
<1> QED BY <1>6, <1>8 DEF PointStep

LEMMA BeginEntryHolds ==
  ASSUME PointsInv, NEW q \in Request, BeginEntry(q)
  PROVE  LedgerType' /\ PointStep
<1> USE DEF PointsInv
<1>1. /\ req \in [Request -> ItType] /\ At(q, "checked") /\ req[q].wallet \in Wallet
      /\ UNCHANGED <<day, logs, receiptVars, dailyClaims>>
      /\ clock \in Nat /\ day \in Day
  BY DEF BeginEntry, LedgerInv, LedgerType, At
<1>2. req[q].source # "receipt-upload" /\ req[q].receipts = {}
  BY <1>1 DEF ClaimsInv, At
<1>3. CASE Begins(req[q].wallet) /\ req' = [req EXCEPT ![q] = [@ EXCEPT !.pc = "open", !.at = clock, !.day = day]]
  <2> DEFINE it == [req[q] EXCEPT !.pc = "open", !.at = clock, !.day = day]
  <2>1. /\ it \in ItType /\ it.pc = "open" /\ it.at = clock
        /\ it.wallet = req[q].wallet /\ it.receipts = req[q].receipts /\ it.source = req[q].source
    BY <1>1 DEF ItType
  <2>2. req' = [req EXCEPT ![q] = it]
    BY <1>3
  <2> HIDE DEF it
  <2>3. req'[q] = it /\ \A x \in Request \ {q} : req'[x] = req[x]
    BY <1>1, <2>2
  <2>4. LedgerType'
    BY <1>1, <1>3, <2>1, <2>2, <2>3 DEF LedgerInv, LedgerType, Begins, At
  <2>5. Beginning(q)
    BY <1>1, <1>2, <1>3, <2>1, <2>3 DEF Beginning, Opens, Fresh, Others, Numbered, Active, At
  <2> QED BY <2>4, <2>5 DEF PointStep
<1>4. CASE Refused(q) /\ UNCHANGED openVars
  <2> DEFINE it == [req[q] EXCEPT !.pc = "failed"]
  <2>1. /\ it \in ItType /\ it.pc = "failed"
        /\ it.wallet = req[q].wallet /\ it.receipts = req[q].receipts /\ it.source = req[q].source
    BY <1>1 DEF ItType
  <2>2. req' = [req EXCEPT ![q] = it]
    BY <1>4 DEF Refused
  <2> HIDE DEF it
  <2>3. req'[q] = it /\ \A x \in Request \ {q} : req'[x] = req[x]
    BY <1>1, <2>2
  <2>4. LedgerType'
    BY <1>1, <1>4, <2>1, <2>2, <2>3 DEF LedgerInv, LedgerType, openVars, At
  <2>5. Waiting
    BY <1>1, <1>2, <1>4, <2>1, <2>3 DEF Waiting, Fresh, Numbered, At, openVars
  <2> QED BY <2>4, <2>5 DEF PointStep
<1> QED BY <1>3, <1>4 DEF BeginEntry

LEMMA RollbackHolds ==
  ASSUME PointsInv, NEW q \in Request, Rollback(q)
  PROVE  LedgerType' /\ PointStep
<1> USE DEF PointsInv
<1>1. /\ req \in [Request -> ItType] /\ Active(q) /\ req[q].wallet \in Wallet
      /\ Ends(req[q].wallet, req[q].at)
      /\ UNCHANGED <<day, logs, receiptVars, dailyClaims>>
  BY DEF Rollback, LedgerInv, LedgerType, At, Active
<1> DEFINE it == [req[q] EXCEPT !.pc = "failed"]
<1>2. /\ it \in ItType /\ it.pc = "failed" /\ it.wallet = req[q].wallet
      /\ it.receipts = req[q].receipts /\ it.source = req[q].source /\ it.amount = req[q].amount
  BY <1>1 DEF ItType
<1>3. req' = [req EXCEPT ![q] = it]
  BY DEF Rollback, Refused
<1> HIDE DEF it
<1>4. req'[q] = it /\ \A x \in Request \ {q} : req'[x] = req[x]
  BY <1>1, <1>3
<1>5. LedgerType'
  BY <1>1, <1>2, <1>3, <1>4 DEF LedgerInv, LedgerType, Ends, At
<1>6. Dropping(q)
  BY <1>1, <1>2, <1>4 DEF Dropping, Drops, Kept, Others, At
<1> QED BY <1>5, <1>6 DEF PointStep

\* The three ways a transaction commits.
LEMMA CommitHolds ==
  ASSUME PointsInv, NEW q \in Request, Commits(q, req[q].amount), UNCHANGED <<day, worth, owner>>,
         Marks(q), Dates(q)
  PROVE  LedgerType' /\ PointStep
<1> USE DEF PointsInv
<1>1. /\ req \in [Request -> ItType] /\ At(q, "based") /\ req[q].wallet \in Wallet
      /\ Ends(req[q].wallet, req[q].at)
      /\ req[q].amount \in Int /\ req[q].base \in Int /\ req[q].earned \in Int
      /\ req[q].at \in Nat /\ req[q].day \in Day /\ req[q].source \in Source
      /\ req[q].receipts \in SUBSET Receipt
  BY DEF Commits, LedgerInv, LedgerType, At, ItType
<1> DEFINE it == [req[q] EXCEPT !.pc = "done"]
<1>2. /\ it \in ItType /\ it.pc = "done" /\ it.wallet = req[q].wallet /\ it.at = req[q].at
      /\ it.receipts = req[q].receipts /\ it.source = req[q].source /\ it.amount = req[q].amount
  BY <1>1 DEF ItType
<1>3. req' = [req EXCEPT ![q] = it]
  BY DEF Commits
<1> HIDE DEF it
<1>4. req'[q] = it /\ \A x \in Request \ {q} : req'[x] = req[x]
  BY <1>1, <1>3
<1>5. PICK row : row = Row(req[q], req[q].amount) /\ logs' = logs \cup {row}
  BY DEF Commits
<1>6. row \in LogRow
  <2>1. PICK d \in Int : d = req[q].amount
    BY <1>1
  <2>2. Max({d, 0}) = Gain(d) /\ Gain(d) \in Int
    BY GainIsMax DEF Gain
  <2>3. req[q].earned + Max({d, 0}) \in Int
    BY <1>1, <2>2
  <2>4. row = [wallet |-> req[q].wallet, at |-> req[q].at, day |-> req[q].day, diff |-> d,
               after |-> req[q].base + d, accumulated |-> req[q].earned + Max({d, 0}),
               source |-> req[q].source, receipts |-> req[q].receipts]
    BY <1>5, <2>1 DEF Row
  <2> HIDE DEF Max
  <2> QED BY <1>1, <2>3, <2>4 DEF LogRow
<1>7. LedgerType'
  <2>1. IsFiniteSet(logs') /\ logs' \subseteq LogRow
    BY <1>5, <1>6, FS_AddElement DEF LedgerInv, LedgerType
  <2> QED BY <1>1, <1>2, <1>3, <1>4, <2>1 DEF LedgerInv, LedgerType, Ends, At
<1>8. Settling(q)
  BY <1>1, <1>2, <1>4, <1>5 DEF Settling, Appends, Kept, Others, At
<1> QED BY <1>7, <1>8 DEF PointStep

LEMMA ServedHolds ==
  ASSUME PointsInv, NEW q \in Request, Serve(q) \/ BeginEntry(q) \/ SettleSpend(q)
  PROVE  LedgerType' /\ PointStep
<1>1. CASE SettleClaim(q)
  <2>1. Commits(q, req[q].amount) /\ UNCHANGED <<day, worth, owner>> /\ Marks(q) /\ Dates(q)
    BY <1>1 DEF SettleClaim, Marks, Dates
  <2> QED BY <2>1, CommitHolds
<1>2. CASE SettleDaily(q)
  <2>1. Commits(q, req[q].amount) /\ UNCHANGED <<day, worth, owner>> /\ Marks(q) /\ Dates(q)
    BY <1>2 DEF SettleDaily, DateIsFree, Marks, Dates, receiptVars
  <2> QED BY <2>1, CommitHolds
<1>3. CASE SettleGrant(q) \/ SettleSpend(q)
  <2>1. Commits(q, req[q].amount) /\ UNCHANGED <<day, worth, owner>> /\ Marks(q) /\ Dates(q)
    BY <1>3 DEF SettleGrant, SettleSpend, Marks, Dates, receiptVars
  <2> QED BY <2>1, CommitHolds
<1> QED BY <1>1, <1>2, <1>3, ReadNewestHolds, BeginAtNewestHolds, RollbackHolds, BeginEntryHolds
        DEF Serve

LEMMA AskedHolds ==
  ASSUME PointsInv, NEW q \in Request, NEW a \in Wallet,
         Ask(q, a) \/ \E cost \in EntryCost : applyHaloRaffle(q, a, cost)
  PROVE  LedgerType' /\ PointStep
<1>1. CASE \E cost \in EntryCost : applyHaloRaffle(q, a, cost)
  <2>1. \A cost \in EntryCost : -cost \in Int
    <3>1. EntryCost \subseteq Nat \ {0}
      BY ClaimAssumption
    <3>2. \A cost \in EntryCost : cost \in Int
      BY <3>1
    <3> QED BY <3>2
  <2>2. Asks(q)
    BY <1>1, <2>1 DEF applyHaloRaffle, Check, Asks, Source
  <2> QED BY <2>2, AsksWaits
<1>2. CASE \E amount \in Award : claimDailyPointCelo(q, a, amount) \/ claimDailyPoint(q, a, amount)
  <2>1. \A amount \in Award : amount \in Int
    BY AwardAssumption
  <2>2. Asks(q)
    BY <1>2, <2>1 DEF claimDailyPointCelo, claimDailyPoint, Check, Asks, Source
  <2> QED BY <2>2, AsksWaits
<1>3. CASE \E amount \in Grant : \/ insertManualPoint(q, a, amount)
                                 \/ \E skipped \in BOOLEAN : insertPointToAll(q, a, amount, skipped)
  <2>1. \A amount \in Grant : amount \in Int
    BY AwardAssumption
  <2>2. PICK amount \in Grant, pc \in {"checked", "failed"}, source \in {"manual", "airdrop"} :
            /\ At(q, "new")
            /\ req' = [req EXCEPT ![q] = [NewRequest EXCEPT
                          !.pc = pc, !.source = source, !.wallet = a, !.amount = amount, !.date = day]]
            /\ UNCHANGED <<day, logs, receiptVars, dailyClaims, openVars>>
    BY <1>3 DEF insertManualPoint, insertPointToAll, Check
  <2>3. Asks(q)
    BY <2>1, <2>2 DEF Asks, Source
  <2> QED BY <2>3, AsksWaits
<1>4. CASE claimPoint(q, a)
  <2>1. PICK ids \in SUBSET Receipt : /\ \A r \in ids : status[r] \in Claimable
                                      /\ BeginClaim(q, a, ids)
    BY <1>4 DEF claimPoint
  <2> QED BY <2>1, BeginClaimHolds
<1>5. CASE \E r \in Receipt : claimSingleCelo(q, a, r)
  <2>1. PICK ids \in SUBSET Receipt : /\ \A r \in ids : status[r] \in Claimable
                                      /\ BeginClaim(q, a, ids)
    BY <1>5 DEF claimSingleCelo
  <2> QED BY <2>1, BeginClaimHolds
<1> QED BY <1>1, <1>2, <1>3, <1>4, <1>5 DEF Ask, AskCelo, AskLedger

LEMMA StepsOfThePoints ==
  ASSUME PointsInv, [ClaimNext]_pointClaimVars
  PROVE  LedgerType' /\ PointStep
<1>1. day \in Day
  BY DEF PointsInv, LedgerInv, LedgerType
<1>2. CASE ServerNext
  <2>1. PICK q \in Request : \/ \E a \in Wallet : Asked(q, a)
                             \/ Serve(q) \/ BeginEntry(q) \/ SettleSpend(q)
    BY <1>2 DEF ServerNext
  <2>2. CASE \E a \in Wallet : Asked(q, a)
    BY <2>2, AskedHolds DEF Asked, Ask
  <2> QED BY <2>1, <2>2, ServedHolds
<1>3. CASE Midnight
  <2>1. day' \in Day
    BY <1>1, <1>3, AwardAssumption DEF Midnight, Day
  <2> QED BY <1>3, <2>1, Stands DEF Midnight
<1>4. CASE UNCHANGED pointVars
  BY <1>1, <1>4, Stands DEF pointVars
<1>5. \/ ServerNext \/ Midnight \/ UNCHANGED pointVars
  BY DEF ClaimNext, pointClaimVars, sign, Send, Expire, Replay, RotateKey, setServerSigner, upgrade
<1> QED BY <1>2, <1>3, <1>4, <1>5

-----------------------------------------------------------------------------
(* Reading the history back.                                               *)

LEMMA RowBefore ==
  ASSUME NEW L, IsRows(L), NEW l \in L
  PROVE  /\ Cardinality(Newer(l, L)) \in Nat
         /\ Older(l, L) = {} => Cardinality(L) = Cardinality(Newer(l, L)) + 1
         /\ Older(l, L) # {} =>
               /\ LastRow(Older(l, L)) \in L
               /\ Cardinality(Newer(LastRow(Older(l, L)), L)) = Cardinality(Newer(l, L)) + 1
               /\ Cardinality(L) > Cardinality(Newer(l, L)) + 1
<1> DEFINE N == Newer(l, L)
           O == Older(l, L)
<1>1. /\ N \subseteq L /\ O \subseteq L /\ l \notin N /\ l \notin O /\ N \cap O = {}
      /\ L = O \cup (N \cup {l})
  BY DEF Newer, Older, IsRows
<1>2. IsFiniteSet(L) /\ IsFiniteSet(N) /\ IsFiniteSet(O) /\ IsRows(O)
  BY <1>1, FS_Subset DEF IsRows
<1>3. /\ Cardinality(N) \in Nat /\ Cardinality(N \cup {l}) = Cardinality(N) + 1
      /\ IsFiniteSet(N \cup {l})
  BY <1>1, <1>2, FS_AddElement, FS_CardinalityType
<1>4. CASE O = {}
  BY <1>1, <1>3, <1>4
<1>5. CASE O # {}
  <2>1. PICK k : k = LastRow(O) /\ k \in O /\ \A j \in O : j.at <= k.at
    BY <1>2, <1>5, LastIsIn
  <2>2. Newer(k, L) = N \cup {l}
    <3>1. l.at \in Nat /\ k \in L /\ k.at \in Nat /\ k.at < l.at /\ \A j \in L : j.at \in Nat
      BY <2>1 DEF Older, IsRows
    <3>2. \A j \in L : j.at < l.at => j.at <= k.at
      BY <2>1 DEF Older
    <3>3. \A j \in L : j.at > k.at <=> j.at > l.at \/ j.at = l.at
      BY <3>1, <3>2
    <3>4. \A j \in L : j.at = l.at <=> j = l
      BY DEF IsRows
    <3> QED BY <3>3, <3>4 DEF Newer
  <2>3. Cardinality(N \cup {l}) < Cardinality(L)
    <3>1. N \cup {l} \in SUBSET L /\ N \cup {l} # L
      BY <1>1, <2>1
    <3>2. Cardinality(N \cup {l}) <= Cardinality(L) /\ Cardinality(N \cup {l}) # Cardinality(L)
      BY <1>2, <3>1, FS_Subset
    <3>3. Cardinality(L) \in Nat /\ Cardinality(N \cup {l}) \in Nat
      BY <1>2, <1>3, FS_CardinalityType
    <3> QED BY <3>2, <3>3
  <2> QED BY <1>1, <1>3, <1>5, <2>1, <2>2, <2>3
<1> QED BY <1>3, <1>4, <1>5

LEMMA ReadsBack ==
  ASSUME LedgerInv
  PROVE  HistoryReadsBack
<1> SUFFICES ASSUME NEW a \in quiet, NEW page \in 0..(Cardinality(LogsOf(a)) - 1),
                    NEW l \in listPointLogs(a, 1, page).list
             PROVE  l.after - l.diff \in IF hasMore(a, page, 1)
                        THEN {older.after : older \in listPointLogs(a, 1, page + 1).list}
                        ELSE {0}
  BY Zenon DEF HistoryReadsBack
<1>1. PICK L : L = LogsOf(a)
  OBVIOUS
<1>2. IsRows(L) /\ LeadsOn(L)
  <2>1. a \in Wallet
    BY DEF LedgerInv, LedgerType
  <2> QED BY <1>1, <2>1, RowsOfAWallet DEF LedgerInv, RowsInv
<1>3. IsFiniteSet(L) /\ Cardinality(L) \in Nat /\ page \in Nat
  <2>1. IsFiniteSet(L) /\ Cardinality(L) \in Nat
    BY <1>2, FS_CardinalityType DEF IsRows
  <2> QED BY <1>1, <2>1
<1>4. \A p, k : k \in listPointLogs(a, 1, p).list
                   <=> k \in L /\ Cardinality(Newer(k, L)) \in p..(p + 1 - 1)
  BY <1>1 DEF listPointLogs, Newer
<1>5. l \in L /\ Cardinality(Newer(l, L)) = page
  BY <1>3, <1>4
<1>6. hasMore(a, page, 1) <=> page + 1 < Cardinality(L)
  BY <1>1, <1>3 DEF hasMore, listPointLogs
<1>7. l.after - l.diff = BalanceIn(Older(l, L))
  BY <1>2, <1>5 DEF LeadsOn
<1>8. CASE Older(l, L) = {}
  BY <1>2, <1>3, <1>5, <1>6, <1>7, <1>8, RowBefore DEF BalanceIn
<1>9. CASE Older(l, L) # {}
  <2>1. PICK k : k = LastRow(Older(l, L)) /\ k \in L /\ Cardinality(Newer(k, L)) = page + 1
                 /\ Cardinality(L) > page + 1
    BY <1>2, <1>5, <1>9, RowBefore
  <2>2. k \in listPointLogs(a, 1, page + 1).list
    BY <1>3, <1>4, <2>1
  <2>3. l.after - l.diff = k.after
    BY <1>7, <1>9, <2>1 DEF BalanceIn
  <2> QED BY <1>6, <1>3, <2>1, <2>2, <2>3
<1> QED BY <1>8, <1>9

LEMMA PointsStart == ASSUME PointInit PROVE PointsInv
<1> USE DEF PointInit
<1>1. LedgerType
  <2>1. NewRequest \in ItType /\ NewRequest.pc = "new" /\ 0 \in Day
    BY AwardAssumption DEF NewRequest, ItType, Source, Day
  <2> QED BY <2>1, FS_EmptySet DEF LedgerType, At
<1>2. \A q \in Request : /\ req[q].pc = "new" /\ req[q].source = "manual" /\ req[q].receipts = {}
  BY DEF NewRequest
<1>3. NumbersInv /\ QuietInv
  BY <1>2 DEF NumbersInv, QuietInv, Numbered, Active, At
<1>4. RowsInv
  <2>1. \A a : LogsOf(a) = {}
    BY DEF LogsOf
  <2> QED BY <2>1, NothingMoved DEF RowsInv, Balance, Accumulated, Moved, Earned, LeadsOn
<1>5. ClaimsInv
  BY <1>2 DEF ClaimsInv
<1>6. ReceiptsInv
  BY <1>2 DEF ReceiptsInv, CreditsOf, Active
<1>7. DailyOncePerDate
  <2>1. \A a \in Wallet : /\ {l \in LogsOf(a) : l.source = "daily-claim"} = {}
                          /\ {d \in Day : <<a, d>> \in dailyClaims} = {}
    BY DEF LogsOf
  <2> QED BY <2>1 DEF DailyOncePerDate
<1>8. DoneInv
  BY <1>2 DEF DoneInv, At
<1> QED BY <1>1, <1>3, <1>4, <1>5, <1>6, <1>7, <1>8 DEF PointsInv, LedgerInv

LEMMA PointsHold == ClaimSpec => []PointsInv
<1>1. ClaimInit => PointsInv
  BY PointsStart DEF ClaimInit
<1>2. PointsInv /\ [ClaimNext]_pointClaimVars => PointsInv'
  BY StepsOfThePoints, PointStepHolds
<1> QED BY <1>1, <1>2, PTL DEF ClaimSpec

LEMMA PointsAddUp == ASSUME PointsInv PROVE LedgerAddsUp
<1>1. QuietLedgerAddsUp
  BY DEF PointsInv, LedgerInv, RowsInv, QuietLedgerAddsUp
<1>2. QuietReceiptsPaidOnce
  <2>1. \A l \in logs : l.receipts # {} => l.diff = SumFunctionOnSet(worth, l.receipts)
    BY DEF PointsInv, ClaimsInv
  <2>2. ASSUME NEW r \in Receipt, owner[r] \in quiet, AskedByOwner(r)
        PROVE  \/ status[r] \in Claimable /\ CreditsOf(r) = {}
               \/ status[r] \in Settled /\ Cardinality(CreditsOf(r)) = 1
    <3>1. \/ status[r] \in Claimable /\ CreditsOf(r) = {}
          \/ status[r] \in Settled /\ \E l : CreditsOf(r) = {l}
      BY <2>2 DEF PointsInv, ReceiptsInv
    <3> QED BY <3>1, FS_Singleton
  <2> QED BY <2>1, <2>2 DEF QuietReceiptsPaidOnce
<1>3. DailyOncePerDate /\ HistoryReadsBack
  BY ReadsBack DEF PointsInv
<1> QED BY <1>1, <1>2, <1>3 DEF LedgerAddsUp

(* lib/point.ts, routes/client/point.ts.  Every balance is what was moved  *)
(* and every history reads back to it, a receipt is credited once and a    *)
(* day once, whatever requests overlap, are checked early, fail or are     *)
(* answered late.                                                          *)
THEOREM LedgerHolds == ClaimSpec => []LedgerAddsUp
BY PointsHold, PointsAddUp, PTL

-----------------------------------------------------------------------------
(* The chain.  A voucher stands for one committed movement of its user,    *)
(* and no signature is recovered for anyone else.                          *)

VouchersInv ==
    /\ signingKey \in SignKey /\ serverSigner \in SignKey
    /\ \A v \in vouchers :
         /\ v.id \in Request /\ At(v.id, "done")
         /\ v.user = req[v.id].wallet
         /\ \/ v.kind = "claim" /\ v.amount = req[v.id].amount
            \/ v.kind = "spend" /\ v.amount = -req[v.id].amount
    /\ \A q \in usedClaimIds : q \in Request /\ At(q, "done")

NumbersOnChain ==
    points \in [Address -> Int] /\ totalPoints \in Int /\ totalPointsSpent \in Int

ChainInv == PointsInv /\ VouchersInv /\ NumbersOnChain /\ ChainAddsUp

UsedBy(a) == {q \in usedClaimIds : req[q].wallet = a}

LEMMA AddressesAreFinite == IsFiniteSet(Address)
BY LedgerAssumption, ClaimAssumption, FS_Union DEF Address

LEMMA ChainStarts == ASSUME ClaimInit PROVE ChainInv
<1> USE DEF ClaimInit
<1>1. PointsInv
  BY PointsStart
<1>2. VouchersInv /\ NumbersOnChain
  BY DEF VouchersInv, NumbersOnChain
<1>3. ChainFollowsLedger
  <2>1. \A a \in Wallet : RowsFor(a, {q \in usedClaimIds : req[q].wallet = a}) = {}
    BY DEF RowsFor
  <2>2. \A a \in Wallet : MovedBy(a, {q \in usedClaimIds : req[q].wallet = a}) = 0
    BY <2>1, NothingMoved DEF MovedBy
  <2> QED BY <2>2 DEF ChainFollowsLedger
<1>4. CirculationAddsUp
  <2>1. \A a \in Address : points[a] = 0
    OBVIOUS
  <2>2. SumFunction(points) = SumFunctionOnSet(points, Address)
    BY DEF SumFunction
  <2>3. SumFunctionOnSet(points, Address) = 0
    <3>1. PICK p : p = points
      OBVIOUS
    <3> QED BY <2>1, <3>1, AddressesAreFinite, SumOfZeros
  <2> QED BY <2>2, <2>3 DEF CirculationAddsUp
<1> QED BY <1>1, <1>2, <1>3, <1>4 DEF ChainInv, ChainAddsUp

\* A movement that has been answered for is never touched again.
LEMMA DoneStands ==
  ASSUME PointStep, NEW q \in Request, At(q, "done")
  PROVE  At(q, "done")' /\ req'[q] = req[q]
BY DEF PointStep, Waiting, Fresh, Beginning, Opens, Numbered, Reading, Reads, Settling, Appends,
       Dropping, Drops, Active, Others, At

\* Requests move on, the chain does not.
LEMMA LedgerStepHolds ==
  ASSUME ChainInv, PointsInv', PointStep, UNCHANGED <<vouchers, signingKey, chainVars>>
  PROVE  ChainInv'
<1> USE DEF ChainInv
<1>1. UNCHANGED <<vouchers, signingKey, serverSigner, points, totalPoints, totalPointsSpent, usedClaimIds>>
  BY DEF chainVars
<1>2. \A q \in usedClaimIds : q \in Request /\ At(q, "done") /\ At(q, "done")' /\ req'[q] = req[q]
  BY DoneStands DEF VouchersInv
<1>3. VouchersInv'
  <2>1. \A v \in vouchers : v.id \in Request /\ At(v.id, "done")' /\ req'[v.id] = req[v.id]
    BY DoneStands DEF VouchersInv
  <2> QED BY <1>1, <1>2, <2>1 DEF VouchersInv
<1>4. NumbersOnChain' /\ CirculationAddsUp'
  BY <1>1 DEF NumbersOnChain, ChainAddsUp, CirculationAddsUp
<1>5. ASSUME NEW a \in Wallet PROVE MovedBy(a, UsedBy(a))' = MovedBy(a, UsedBy(a))
  <2>1. UsedBy(a)' = UsedBy(a)
    BY <1>1, <1>2 DEF UsedBy
  <2>2. \A l \in logs' \ logs : \A q \in usedClaimIds : req[q].at # l.at
    <3>1. CASE logs' = logs
      BY <3>1
    <3>2. ASSUME NEW x \in Request, Settling(x) PROVE \A l \in logs' \ logs : \A q \in usedClaimIds : req[q].at # l.at
      <4>1. PICK row : row = Row(req[x], req[x].amount)
        OBVIOUS
      <4>2. logs' = logs \cup {row} /\ row.at = req[x].at /\ At(x, "based")
        BY <3>2, <4>1, RowIs DEF Settling, Appends
      <4>3. \A q \in usedClaimIds : req[q].at # req[x].at
        BY <1>2, <4>2 DEF PointsInv, LedgerInv, NumbersInv, Numbered, At
      <4> QED BY <4>2, <4>3
    <3>3. logs' = logs \/ \E x \in Request : Settling(x)
      BY DEF PointStep, Waiting, Beginning, Opens, Reading, Reads, Dropping, Drops
    <3> QED BY <3>1, <3>2, <3>3
  <2>3. logs \subseteq logs'
    BY DEF PointStep, Waiting, Beginning, Opens, Reading, Reads, Settling, Appends, Dropping, Drops
  <2>4. RowsFor(a, UsedBy(a))' = RowsFor(a, UsedBy(a))
    <3>1. \A q \in UsedBy(a) : q \in usedClaimIds
      BY DEF UsedBy
    <3>2. RowsFor(a, UsedBy(a)) = {l \in logs : l.wallet = a /\ \E q \in UsedBy(a) : req[q].at = l.at}
      BY <1>2, <3>1 DEF RowsFor, LogsOf
    <3>3. RowsFor(a, UsedBy(a))' = {l \in logs' : l.wallet = a /\ \E q \in UsedBy(a) : req[q].at = l.at}
      BY <1>2, <2>1, <3>1 DEF RowsFor, LogsOf
    <3> QED BY <2>2, <2>3, <3>1, <3>2, <3>3
  <2> QED BY <2>4 DEF MovedBy
<1>6. ChainFollowsLedger'
  <2>1. \A a \in Address : points[a] = IF a \in Wallet THEN MovedBy(a, UsedBy(a)) ELSE 0
    BY DEF ChainAddsUp, ChainFollowsLedger, UsedBy
  <2>2. \A a \in Address : points'[a] = IF a \in Wallet THEN MovedBy(a, UsedBy(a))' ELSE 0
    BY <1>1, <1>5, <2>1
  <2> QED BY <2>2 DEF ChainFollowsLedger, UsedBy
<1> QED BY <1>3, <1>4, <1>6 DEF ChainAddsUp

LEMMA SignHolds ==
  ASSUME ChainInv, PointsInv', NEW q \in Request, sign(q)
  PROVE  ChainInv'
<1> USE DEF ChainInv
<1>1. /\ UNCHANGED <<logs, req, signingKey, serverSigner, points, totalPoints, totalPointsSpent, usedClaimIds>>
      /\ At(q, "done") /\ req[q].amount \in Int
  BY DEF sign, Answerable, chainVars, pointVars, PointsInv, LedgerInv, LedgerType, ItType
<1>2. PICK v : /\ vouchers' = vouchers \cup {v}
               /\ v.id = q /\ v.user = req[q].wallet
               /\ v.kind = IF req[q].source = "raffle" THEN "spend" ELSE "claim"
               /\ v.amount = IF req[q].source = "raffle" THEN -req[q].amount ELSE req[q].amount
  <2> DEFINE v == [kind |-> IF req[q].source = "raffle" THEN "spend" ELSE "claim",
                   user |-> req[q].wallet,
                   amount |-> IF req[q].source = "raffle" THEN -req[q].amount ELSE req[q].amount,
                   id |-> q, key |-> signingKey]
  <2>1. vouchers' = vouchers \cup {v}
    BY DEF sign
  <2>2. /\ v.id = q /\ v.user = req[q].wallet
        /\ v.kind = IF req[q].source = "raffle" THEN "spend" ELSE "claim"
        /\ v.amount = IF req[q].source = "raffle" THEN -req[q].amount ELSE req[q].amount
    OBVIOUS
  <2> HIDE DEF v
  <2> QED BY <2>1, <2>2
<1>3. VouchersInv'
  BY <1>1, <1>2 DEF VouchersInv, At
<1>4. NumbersOnChain' /\ CirculationAddsUp'
  BY <1>1 DEF NumbersOnChain, ChainAddsUp, CirculationAddsUp
<1>5. ChainFollowsLedger'
  BY <1>1 DEF ChainAddsUp, ChainFollowsLedger, MovedBy, RowsFor, LogsOf, At
<1> QED BY <1>3, <1>4, <1>5 DEF ChainAddsUp

\* One voucher is redeemed: its user's points move by its movement.
LEMMA RedeemHolds ==
  ASSUME ChainInv, PointsInv', NEW v \in vouchers, NEW sender \in Address, Redeem(v, sender),
         UNCHANGED <<logs, req, vouchers, signingKey>>
  PROVE  ChainInv'
<1> USE DEF ChainInv
<1>1. /\ sender = v.user /\ v.id \notin usedClaimIds
      /\ usedClaimIds' = usedClaimIds \cup {v.id} /\ UNCHANGED serverSigner
  BY ClaimAssumption DEF Redeem, claimPoints, spendPoints, Accepted, Recovered, VouchersInv
<1>2. PICK q, d : /\ q = v.id /\ q \in Request /\ At(q, "done") /\ req[q].wallet = sender
                  /\ d = req[q].amount
                  /\ \/ v.kind = "claim" /\ v.amount = d
                     \/ v.kind = "spend" /\ v.amount = -d
  BY <1>1 DEF VouchersInv
<1>3. sender \in Wallet /\ d \in Int
  BY <1>2 DEF PointsInv, LedgerInv, LedgerType, ItType, At
<1>4. points' = [points EXCEPT ![sender] = @ + d]
  <2>1. CASE v.kind = "claim"
    BY <1>2, <2>1 DEF Redeem, claimPoints, spendPoints
  <2>2. CASE v.kind = "spend"
    <3>1. points' = [points EXCEPT ![sender] = @ - v.amount] /\ v.amount = -d
      BY <1>2, <2>2 DEF Redeem, claimPoints, spendPoints
    <3>2. points[sender] \in Int
      BY DEF NumbersOnChain
    <3>3. points[sender] - v.amount = points[sender] + d
      BY <1>3, <3>1, <3>2
    <3> QED BY <3>1, <3>3
  <2> QED BY <1>2, <2>1, <2>2
<1>5. /\ totalPoints' \in Int /\ totalPointsSpent' \in Int
      /\ totalPoints' - totalPointsSpent' = totalPoints - totalPointsSpent + d
  <2>1. totalPoints \in Int /\ totalPointsSpent \in Int
    BY DEF NumbersOnChain
  <2>2. CASE v.kind = "claim"
    <3>1. totalPoints' = totalPoints + d /\ totalPointsSpent' = totalPointsSpent
      BY <1>2, <2>2 DEF Redeem, claimPoints, spendPoints
    <3> QED BY <1>3, <2>1, <3>1
  <2>3. CASE v.kind = "spend"
    <3>1. totalPointsSpent' = totalPointsSpent + v.amount /\ totalPoints' = totalPoints /\ v.amount = -d
      BY <1>2, <2>3 DEF Redeem, claimPoints, spendPoints, Debited
    <3> QED BY <1>3, <2>1, <3>1
  <2> QED BY <1>2, <2>2, <2>3
<1>6. points \in [Address -> Int] /\ points' \in [Address -> Int]
  BY <1>3, <1>4 DEF NumbersOnChain
<1>7. NumbersOnChain'
  BY <1>5, <1>6 DEF NumbersOnChain
<1>8. VouchersInv'
  BY <1>1, <1>2 DEF VouchersInv, At
<1>9. CirculationAddsUp'
  <2>1. PICK f, g : f = points /\ g = points' /\ f \in [Address -> Int] /\ g \in [Address -> Int]
    BY <1>6
  <2>2. g[sender] = f[sender] + d /\ \A y \in Address \ {sender} : g[y] = f[y]
    BY <1>4, <2>1
  <2>3. SumFunction(f) \in Int /\ SumFunction(g) = SumFunction(f) + d
    BY <1>3, <2>1, <2>2, AddressesAreFinite, SumRaised
  <2>4. totalPoints - totalPointsSpent = SumFunction(f)
    BY <2>1 DEF ChainAddsUp, CirculationAddsUp
  <2>5. totalPoints' - totalPointsSpent' = SumFunction(g)
    BY <1>5, <2>3, <2>4
  <2> QED BY <2>1, <2>5 DEF CirculationAddsUp
<1>10. \A a \in Wallet : a # sender => MovedBy(a, UsedBy(a))' = MovedBy(a, UsedBy(a))
  <2> SUFFICES ASSUME NEW a \in Wallet, a # sender
               PROVE  MovedBy(a, UsedBy(a))' = MovedBy(a, UsedBy(a))
    OBVIOUS
  <2>1. UsedBy(a)' = UsedBy(a)
    BY <1>1, <1>2 DEF UsedBy
  <2> QED BY <2>1 DEF MovedBy, RowsFor, LogsOf, At
<1>11. MovedBy(sender, UsedBy(sender))' = MovedBy(sender, UsedBy(sender)) + d
  <2>1. PICK row \in logs : row.at = req[q].at /\ row.wallet = sender /\ row.diff = d
    BY <1>2 DEF PointsInv, DoneInv
  <2>2. UsedBy(sender)' = UsedBy(sender) \cup {q}
    BY <1>1, <1>2 DEF UsedBy
  <2>3. PICK L, M : L = RowsFor(sender, UsedBy(sender)) /\ M = RowsFor(sender, UsedBy(sender))'
    OBVIOUS
  <2>4. \A x \in UsedBy(sender) : x \in Request /\ At(x, "done") /\ x # q
    BY <1>1, <1>2 DEF UsedBy, VouchersInv
  <2>5. \A x \in UsedBy(sender) : req[x].at # req[q].at
    BY <1>2, <2>4 DEF PointsInv, LedgerInv, NumbersInv, Numbered, At
  <2>6. row \notin L
    BY <2>1, <2>3, <2>5 DEF RowsFor
  <2>7. M = L \cup {row}
    <3>1. M = {l \in LogsOf(sender) : \E x \in UsedBy(sender) \cup {q} : At(x, "done") /\ req[x].at = l.at}
      BY <2>2, <2>3 DEF RowsFor, LogsOf, At
    <3>2. \A l \in LogsOf(sender) : l.at = row.at => l = row
      BY <2>1 DEF LogsOf, PointsInv, LedgerInv, NumbersInv
    <3>3. row \in LogsOf(sender)
      BY <2>1 DEF LogsOf
    <3> QED BY <1>2, <2>1, <2>3, <3>1, <3>2, <3>3 DEF RowsFor
  <2>8. IsFiniteSet(M) /\ \A l \in M : l.diff \in Int
    <3>1. IsFiniteSet(logs) /\ \A l \in logs : l.diff \in Int
      BY DEF PointsInv, LedgerInv, LedgerType, LogRow
    <3>2. M \subseteq logs
      BY <2>1, <2>3, <2>7 DEF RowsFor, LogsOf
    <3> QED BY <3>1, <3>2, FS_Subset
  <2> DEFINE f == [l \in L |-> l.diff]
             g == [l \in M |-> l.diff]
  <2>9. /\ g \in [M -> Int] /\ f \in [M \ {row} -> Int] /\ row \in M
        /\ \A y \in M \ {row} : f[y] = g[y]
        /\ g[row] = d
    BY <2>1, <2>6, <2>7, <2>8
  <2> HIDE DEF f, g
  <2>10. SumFunction(f) \in Int /\ SumFunction(g) = SumFunction(f) + d
    <3>1. IsFiniteSet(M) /\ g \in [M -> Int]
      BY <2>8, <2>9
    <3>2. \A x \in M : \A h \in [M \ {x} -> Int] :
              (\A y \in M \ {x} : h[y] = g[y]) =>
                  SumFunction(h) \in Int /\ SumFunction(g) = SumFunction(h) + g[x]
      BY <3>1, SumLess
    <3> QED BY <2>9, <3>2
  <2>11. MovedBy(sender, UsedBy(sender)) = SumFunction(f) /\ MovedBy(sender, UsedBy(sender))' = SumFunction(g)
    BY <2>3 DEF MovedBy, f, g
  <2> QED BY <2>10, <2>11
<1>12. ChainFollowsLedger'
  <2>1. \A a \in Address : points[a] = IF a \in Wallet THEN MovedBy(a, UsedBy(a)) ELSE 0
    BY DEF ChainAddsUp, ChainFollowsLedger, UsedBy
  <2>2. ASSUME NEW a \in Address
        PROVE  points'[a] = IF a \in Wallet THEN MovedBy(a, UsedBy(a))' ELSE 0
    <3>1. CASE a = sender
      BY <1>3, <1>4, <1>6, <1>11, <2>1, <3>1
    <3>2. CASE a # sender
      BY <1>4, <1>6, <1>10, <2>1, <3>2
    <3> QED BY <3>1, <3>2
  <2> QED BY <2>2 DEF ChainFollowsLedger, UsedBy
<1> QED BY <1>7, <1>8, <1>9, <1>12 DEF ChainAddsUp

\* Keys, deadlines and the proxy: no points move.
LEMMA UpkeepHolds ==
  ASSUME ChainInv, PointsInv', UNCHANGED <<logs, req, vouchers, points, totalPoints, totalPointsSpent, usedClaimIds>>,
         signingKey' \in SignKey, serverSigner' \in SignKey
  PROVE  ChainInv'
<1> USE DEF ChainInv
<1>1. VouchersInv' /\ NumbersOnChain'
  BY DEF VouchersInv, NumbersOnChain, At
<1>2. ChainFollowsLedger' /\ CirculationAddsUp'
  BY DEF ChainAddsUp, ChainFollowsLedger, CirculationAddsUp, MovedBy, RowsFor, LogsOf, At
<1> QED BY <1>1, <1>2 DEF ChainAddsUp

(* The points of an address on chain are the sum of the movements in its   *)
(* own ledger whose vouchers were redeemed, each counted once, and the     *)
(* contract's two totals differ by what all addresses hold: for any keys,  *)
(* vouchers kept and sent again, and any order of rotations and upgrade.   *)
THEOREM ChainHolds == ClaimSpec => []ChainAddsUp
<1>1. ClaimInit => ChainInv
  BY ChainStarts
<1>2. ChainInv /\ [ClaimNext]_pointClaimVars => ChainInv'
  <2> SUFFICES ASSUME ChainInv, [ClaimNext]_pointClaimVars PROVE ChainInv'
    OBVIOUS
  <2>1. PointsInv
    BY DEF ChainInv
  <2>2. PointsInv' /\ PointStep
    BY <2>1, StepsOfThePoints, PointStepHolds
  <2>3. signingKey \in SignKey /\ serverSigner \in SignKey
    BY DEF ChainInv, VouchersInv
  <2>4. CASE ServerNext \/ (Midnight /\ UNCHANGED claimVars)
    <3>1. UNCHANGED <<vouchers, signingKey, chainVars>>
      BY <2>4 DEF ServerNext, claimVars, serverVars
    <3> QED BY <2>2, <3>1, LedgerStepHolds
  <2>5. CASE \E q \in Request : sign(q)
    BY <2>2, <2>5, SignHolds
  <2>6. ASSUME NEW v \in vouchers, Send(v) PROVE ChainInv'
    <3>1. UNCHANGED <<logs, req, vouchers, signingKey>>
      BY <2>6 DEF Send, pointVars, serverVars
    <3>2. v.user \in Address
      BY DEF ChainInv, VouchersInv, PointsInv, LedgerInv, LedgerType, Address, At
    <3>3. CASE Redeem(v, v.user)
      <4>1. PICK sender \in Address : Redeem(v, sender)
        BY <3>2, <3>3
      <4> QED BY <2>2, <3>1, <4>1, RedeemHolds
    <3>4. CASE UNCHANGED chainVars
      BY <2>2, <2>3, <3>1, <3>4, UpkeepHolds DEF chainVars
    <3> QED BY <2>6, <3>3, <3>4 DEF Send
  <2>7. ASSUME NEW v \in vouchers, NEW sender \in Address, Replay(v, sender) PROVE ChainInv'
    <3>1. UNCHANGED <<logs, req, vouchers, signingKey>> /\ Redeem(v, sender)
      BY <2>7 DEF Replay, pointVars, serverVars
    <3> QED BY <2>2, <3>1, RedeemHolds
  <2>8. CASE \/ \E v \in vouchers : Expire(v)
             \/ RotateKey \/ setServerSigner \/ upgrade \/ UNCHANGED pointClaimVars
    <3>1. /\ UNCHANGED <<logs, req, vouchers, points, totalPoints, totalPointsSpent, usedClaimIds>>
          /\ signingKey' \in SignKey /\ serverSigner' \in SignKey
      BY <2>3, <2>8 DEF Expire, RotateKey, setServerSigner, upgrade, pointClaimVars, pointVars,
         claimVars, serverVars, chainVars, voucherVars
    <3> QED BY <2>2, <3>1, UpkeepHolds
  <2> QED BY <2>4, <2>5, <2>6, <2>7, <2>8 DEF ClaimNext
<1>3. ChainInv => ChainAddsUp
  BY DEF ChainInv
<1> QED BY <1>1, <1>2, <1>3, PTL DEF ClaimSpec

-----------------------------------------------------------------------------
(* The prizes of the Halo draws. *)

Pairs == Pool \X DOMAIN transfers

Sendable == (SUBSET Pool) \ {{}}

CallType == [served: BOOLEAN, asked: SUBSET Pairs, todo: SUBSET Pairs, found: SUBSET Pairs]

PrizesType ==
    /\ winner \in [Pool -> Winner \cup {NoWinner}]
    /\ hash \in [Pool -> DOMAIN transfers \cup {Unpaid}]
    /\ blacklist \subseteq Winner
    /\ transfers \in Seq(Sendable)
    /\ owing \in [Operator -> SUBSET Pool]
    /\ paid \in [Operator -> SUBSET Pairs]
    /\ call \in [Operator -> CallType]
    /\ \A o \in Operator : call[o].served \/ call[o] = NoCall

\* Runs of the script do not overlap: whoever is in the middle of one is alone.
OneAtATime == \A x, y \in Operator : ~Finished(x) /\ ~Finished(y) => x = y

PaidAtMostOnce == \A p \in Pool : \A t, u \in PaidBy(p) : t = u

\* What left the treasury is recorded, or still known to who sent it.
SentIsKnown ==
    \A p \in Pool : \A t \in PaidBy(p) :
        \/ hash[p] = t
        \/ hash[p] = Unpaid /\ \E o \in Operator : <<p, t>> \in paid[o]

OwingIsOwed ==
    \A o \in Operator : \A p \in owing[o] :
        PaidBy(p) = {} /\ winner[p] # NoWinner /\ hash[p] = Unpaid

PaidWasSent ==
    \A o \in Operator : \A pair \in paid[o] :
        pair[1] \in transfers[pair[2]] /\ winner[pair[1]] # NoWinner

OfItsDate(p, t) == \E q \in transfers[t] : DateOf[q] = DateOf[p]

\* What a record call may yet write is no lie: the transfer is of that date, no
\* other paid the pool, and nobody is about to pay it.
CallMayWrite(pair) ==
    /\ winner[pair[1]] # NoWinner
    /\ PaidBy(pair[1]) \subseteq {pair[2]}
    /\ OfItsDate(pair[1], pair[2])
    /\ \A o \in Operator : pair[1] \notin owing[o]

CallsAreTrue ==
    \A o \in Operator : \A pair \in call[o].todo \cup call[o].found : CallMayWrite(pair)

\* What a call was asked is still to be done, or there is a hash.
AskedIsDone ==
    \A o \in Operator : \A pair \in call[o].asked :
        pair \in call[o].todo \cup call[o].found \/ hash[pair[1]] # Unpaid

HashOfItsDate == \A p \in Pool : hash[p] # Unpaid => OfItsDate(p, hash[p])

InTurn ==
    /\ OneAtATime /\ PaidAtMostOnce /\ SentIsKnown /\ OwingIsOwed
    /\ PaidWasSent /\ CallsAreTrue /\ AskedIsDone /\ HashOfItsDate

PrizesInv == PrizesType /\ (inTurns => InTurn)

LEMMA Appended ==
  ASSUME NEW S, NEW s \in Seq(S), NEW e \in S
  PROVE  /\ Append(s, e) \in Seq(S)
         /\ DOMAIN Append(s, e) = DOMAIN s \cup {Len(s) + 1}
         /\ Len(s) + 1 \notin DOMAIN s /\ Unpaid \notin DOMAIN s /\ Len(s) + 1 # Unpaid
         /\ \A t \in DOMAIN s : Append(s, e)[t] = s[t]
         /\ Append(s, e)[Len(s) + 1] = e
BY DEF Unpaid

LEMMA PrizesInvStarts == PayoutsInit => PrizesInv
<1> SUFFICES ASSUME PayoutsInit PROVE PrizesInv
  OBVIOUS
<1>1. PrizesType
  BY DEF PayoutsInit, PrizesType, Pairs, CallType, NoCall
<1>2. DOMAIN transfers = {} /\ \A p \in Pool : PaidBy(p) = {}
  BY DEF PayoutsInit, PaidBy
<1>3. \A o \in Operator : owing[o] = {} /\ paid[o] = {} /\ call[o] = NoCall
  BY DEF PayoutsInit
<1>4. OneAtATime /\ PaidAtMostOnce /\ SentIsKnown
  BY <1>2, <1>3 DEF OneAtATime, PaidAtMostOnce, SentIsKnown, Finished, NoCall
<1>5. OwingIsOwed /\ PaidWasSent /\ CallsAreTrue /\ AskedIsDone
  BY <1>3 DEF OwingIsOwed, PaidWasSent, CallsAreTrue, AskedIsDone, NoCall
<1>6. HashOfItsDate
  BY DEF PayoutsInit, HashOfItsDate
<1> QED BY <1>1, <1>4, <1>5, <1>6 DEF PrizesInv, InTurn

-----------------------------------------------------------------------------
(* The list and the transfers. *)

LEMMA ListKeeps ==
  ASSUME PrizesInv, NEW o \in Operator, NEW date, winners(o, date)
  PROVE  PrizesInv'
<1> USE DEF PrizesInv
<1>1. PrizesType'
  BY DEF winners, PrizesType, Pairs, CallType, Owed
<1>2. UNCHANGED <<winner, hash, transfers, call>> /\ \A p \in Pool : PaidBy(p)' = PaidBy(p)
  BY DEF winners, PaidBy
<1>3. ASSUME inTurns' PROVE InTurn'
  <2>1. InTurn /\ \A x \in Operator : Finished(x)
    BY <1>3 DEF winners
  <2>2. \A x \in Operator : owing[x] = {} /\ paid[x] = {} /\ call[x] = NoCall
    BY <2>1 DEF Finished, PrizesType
  <2>3. /\ paid' = paid /\ \A x \in Operator : x # o => owing'[x] = {}
        /\ \A p \in owing'[o] : p \in Pool /\ winner[p] # NoWinner /\ hash[p] = Unpaid
    BY <2>2 DEF winners, PrizesType, Owed, IsUnpaid
  <2>4. \A p \in Pool : hash[p] = Unpaid => PaidBy(p) = {}
    <3>1. \A p \in Pool : Unpaid \notin PaidBy(p)
      BY DEF PaidBy, PrizesType, Unpaid
    <3> QED BY <2>1, <2>2, <3>1 DEF InTurn, SentIsKnown
  <2>5. OneAtATime' /\ OwingIsOwed'
    <3>1. OwingIsOwed'
      BY <1>2, <2>3, <2>4 DEF OwingIsOwed
    <3>2. \A x \in Operator : x # o => Finished(x)'
      BY <1>2, <2>2, <2>3 DEF Finished, NoCall
    <3> QED BY <3>1, <3>2 DEF OneAtATime
  <2>6. CallsAreTrue' /\ AskedIsDone' /\ PaidWasSent'
    BY <1>2, <2>2, <2>3 DEF CallsAreTrue, AskedIsDone, PaidWasSent, NoCall
  <2>7. PaidAtMostOnce' /\ SentIsKnown' /\ HashOfItsDate'
    BY <1>2, <2>1, <2>3 DEF InTurn, PaidAtMostOnce, SentIsKnown, HashOfItsDate, OfItsDate
  <2> QED BY <2>5, <2>6, <2>7 DEF InTurn
<1> QED BY <1>1, <1>3

LEMMA SendKeeps ==
  ASSUME PrizesInv, NEW o \in Operator, NEW pools_ \in SUBSET owing[o], SendPrize(o, pools_)
  PROVE  PrizesInv'
<1> USE DEF PrizesInv
<1> DEFINE n == Len(transfers) + 1
<1>0. pools_ \in Sendable /\ transfers \in Seq(Sendable)
  BY DEF PrizesType, SendPrize, Sendable
<1>1. /\ transfers' \in Seq(Sendable) /\ DOMAIN transfers' = DOMAIN transfers \cup {n}
      /\ n \notin DOMAIN transfers /\ Unpaid \notin DOMAIN transfers /\ n # Unpaid
      /\ \A t \in DOMAIN transfers : transfers'[t] = transfers[t]
      /\ transfers'[n] = pools_
  BY <1>0, Appended DEF SendPrize
<1>2. UNCHANGED <<winner, hash, blacklist, call, inTurns>>
  BY DEF SendPrize
<1>3. /\ owing' = [owing EXCEPT ![o] = @ \ pools_]
      /\ paid' = [paid EXCEPT ![o] = @ \cup (pools_ \X {n})]
  BY DEF SendPrize
<1> HIDE DEF n
<1>4. PrizesType'
  <2>1. Pairs \subseteq Pairs' /\ pools_ \X {n} \subseteq Pairs'
    BY <1>0, <1>1 DEF Pairs, Sendable
  <2>2. owing' \in [Operator -> SUBSET Pool] /\ paid' \in [Operator -> SUBSET Pairs']
    BY <1>3, <2>1 DEF PrizesType
  <2>3. call \in [Operator -> CallType'] /\ hash \in [Pool -> DOMAIN transfers' \cup {Unpaid}]
    BY <1>1, <2>1 DEF PrizesType, CallType
  <2> QED BY <1>1, <1>2, <2>2, <2>3 DEF PrizesType
<1>5. \A p \in Pool : PaidBy(p)' = PaidBy(p) \cup (IF p \in pools_ THEN {n} ELSE {})
  BY <1>1 DEF PaidBy
<1>6. ASSUME inTurns PROVE InTurn'
  <2>0. InTurn
    BY <1>6
  <2>1. /\ \A p \in pools_ : p \in Pool /\ PaidBy(p) = {} /\ winner[p] # NoWinner /\ hash[p] = Unpaid
        /\ \A x \in Operator : owing'[x] \subseteq owing[x] /\ paid[x] \subseteq paid'[x]
        /\ \A p \in pools_ : p \notin owing'[o] /\ <<p, n>> \in paid'[o]
    BY <1>0, <1>3, <2>0 DEF InTurn, OwingIsOwed, PrizesType
  <2>2. ~Finished(o) /\ \A x \in Operator : x # o => Finished(x) /\ Finished(x)'
    <3>1. owing[o] # {}
      BY <1>0 DEF Sendable
    <3>2. \A x \in Operator : x # o => Finished(x)
      BY <2>0, <3>1 DEF InTurn, OneAtATime, Finished
    <3> QED BY <1>2, <1>3, <3>1, <3>2 DEF Finished, PrizesType
  <2>3. \A x \in Operator : \A p \in owing'[x] : p \in Pool /\ p \notin pools_
    BY <1>0, <2>1, <2>2 DEF Finished, PrizesType
  <2>4. OneAtATime'
    BY <2>2 DEF OneAtATime
  <2>5. PaidAtMostOnce'
    BY <1>5, <2>0, <2>1 DEF InTurn, PaidAtMostOnce
  <2>6. SentIsKnown'
    <3> SUFFICES ASSUME NEW p \in Pool, NEW t \in PaidBy(p)'
                 PROVE  hash[p] = t \/ (hash[p] = Unpaid /\ \E x \in Operator : <<p, t>> \in paid'[x])
      BY <1>2 DEF SentIsKnown
    <3>1. CASE t \in PaidBy(p)
      BY <2>0, <2>1, <3>1 DEF InTurn, SentIsKnown
    <3>2. CASE t \notin PaidBy(p)
      <4>1. p \in pools_ /\ t = n
        BY <1>5, <3>2
      <4> QED BY <2>1, <4>1
    <3> QED BY <3>1, <3>2
  <2>7. OwingIsOwed'
    <3> SUFFICES ASSUME NEW x \in Operator, NEW p \in owing'[x]
                 PROVE  PaidBy(p)' = {} /\ winner[p] # NoWinner /\ hash[p] = Unpaid
      BY <1>2 DEF OwingIsOwed
    <3> QED BY <1>5, <2>0, <2>1, <2>3 DEF InTurn, OwingIsOwed
  <2>8. PaidWasSent'
    <3> SUFFICES ASSUME NEW x \in Operator, NEW pair \in paid'[x]
                 PROVE  pair[1] \in transfers'[pair[2]] /\ winner[pair[1]] # NoWinner
      BY <1>2 DEF PaidWasSent
    <3>1. CASE pair \in paid[x]
      <4>1. pair \in Pairs
        BY <3>1 DEF PrizesType
      <4> QED BY <1>1, <2>0, <3>1, <4>1 DEF InTurn, PaidWasSent, Pairs
    <3>2. CASE pair \notin paid[x]
      <4>1. pair \in pools_ \X {n}
        BY <1>3, <3>2 DEF PrizesType
      <4> QED BY <1>1, <2>1, <4>1
    <3> QED BY <3>1, <3>2
  <2>9. CallsAreTrue'
    <3> SUFFICES ASSUME NEW x \in Operator, NEW pair \in call[x].todo \cup call[x].found
                 PROVE  CallMayWrite(pair)'
      BY <1>2 DEF CallsAreTrue
    <3>1. CallMayWrite(pair) /\ pair[1] \in Pool /\ pair[2] \in DOMAIN transfers
      BY <2>0 DEF InTurn, CallsAreTrue, PrizesType, CallType, Pairs
    <3>2. pair[1] \notin pools_
      BY <1>0, <3>1 DEF CallMayWrite
    <3>3. PaidBy(pair[1])' \subseteq {pair[2]}
      BY <1>5, <3>1, <3>2 DEF CallMayWrite
    <3> QED BY <1>1, <1>2, <2>1, <3>1, <3>3 DEF CallMayWrite, OfItsDate
  <2>10. AskedIsDone' /\ HashOfItsDate'
    <3>1. AskedIsDone'
      BY <1>2, <2>0 DEF InTurn, AskedIsDone
    <3>2. ASSUME NEW p \in Pool, hash[p] # Unpaid PROVE OfItsDate(p, hash[p])'
      <4>1. hash[p] \in DOMAIN transfers /\ OfItsDate(p, hash[p])
        BY <2>0, <3>2 DEF InTurn, HashOfItsDate, PrizesType
      <4> QED BY <1>1, <1>2, <4>1 DEF OfItsDate
    <3> QED BY <1>2, <3>1, <3>2 DEF HashOfItsDate
  <2> QED BY <2>4, <2>5, <2>6, <2>7, <2>8, <2>9, <2>10 DEF InTurn
<1> QED BY <1>2, <1>4, <1>6

-----------------------------------------------------------------------------
(* Recording.  Nothing leaves the treasury and nothing is listed. *)

Books == <<winner, transfers, owing, inTurns>>

LEMMA BooksKept ==
  ASSUME UNCHANGED Books
  PROVE  /\ \A p : PaidBy(p)' = PaidBy(p)
         /\ Pairs' = Pairs /\ CallType' = CallType
         /\ \A pair : CallMayWrite(pair)' <=> CallMayWrite(pair)
         /\ \A p, t : OfItsDate(p, t)' <=> OfItsDate(p, t)
         /\ OwingIsOwed /\ hash' = hash => OwingIsOwed'
BY DEF Books, PaidBy, Pairs, CallType, CallMayWrite, OfItsDate, OwingIsOwed

\* A call that is served has pairs the operator sent, or may still write.
LEMMA AskingKeeps ==
  ASSUME PrizesInv, NEW o \in Operator, recordPayouts(o)
  PROVE  PrizesInv'
<1> USE DEF PrizesInv
<1>1. UNCHANGED <<Books, blacklist>> /\ hash' = hash /\ paid' = paid
  BY DEF recordPayouts, Books, treasury
<1>2. call' = [call EXCEPT ![o] = Serving(paid[o], paid[o], {})] /\ paid[o] # {}
  BY DEF recordPayouts
<1>3. PrizesType'
  <2>1. Serving(paid[o], paid[o], {}) \in CallType
    BY DEF PrizesType, CallType, Serving
  <2> QED BY <1>1, <1>2, <2>1, BooksKept DEF PrizesType, Books, Serving
<1>4. ASSUME inTurns PROVE InTurn'
  <2>0. InTurn
    BY <1>4
  <2>1. OneAtATime'
    <3>1. \A x \in Operator : ~Finished(x)' => ~Finished(x)
      BY <1>1, <1>2 DEF Finished, Books, PrizesType
    <3> QED BY <2>0, <3>1 DEF InTurn, OneAtATime
  <2>2. CallsAreTrue'
    <3>1. \A pair \in paid[o] : CallMayWrite(pair)
      <4> SUFFICES ASSUME NEW pair \in paid[o] PROVE CallMayWrite(pair)
        OBVIOUS
      <4>1. pair[1] \in Pool /\ pair[2] \in DOMAIN transfers
        BY DEF PrizesType, Pairs
      <4>2. pair[1] \in transfers[pair[2]] /\ winner[pair[1]] # NoWinner
        BY <2>0 DEF InTurn, PaidWasSent
      <4>3. pair[2] \in PaidBy(pair[1])
        BY <4>1, <4>2 DEF PaidBy
      <4>4. PaidBy(pair[1]) \subseteq {pair[2]}
        BY <2>0, <4>1, <4>3 DEF InTurn, PaidAtMostOnce
      <4>5. \A x \in Operator : pair[1] \notin owing[x]
        BY <2>0, <4>3 DEF InTurn, OwingIsOwed
      <4> QED BY <4>2, <4>4, <4>5 DEF CallMayWrite, OfItsDate
    <3>2. \A x \in Operator : \A pair \in call'[x].todo \cup call'[x].found :
            pair \in call[x].todo \cup call[x].found \/ pair \in paid[o]
      BY <1>2 DEF PrizesType, Serving
    <3> QED BY <1>1, <2>0, <3>1, <3>2, BooksKept DEF InTurn, CallsAreTrue
  <2>3. AskedIsDone'
    BY <1>1, <1>2, <2>0 DEF InTurn, AskedIsDone, PrizesType, Serving
  <2>4. PaidAtMostOnce' /\ SentIsKnown' /\ OwingIsOwed' /\ HashOfItsDate'
    BY <1>1, <2>0, BooksKept DEF InTurn, PaidAtMostOnce, SentIsKnown, HashOfItsDate
  <2>5. PaidWasSent'
    BY <1>1, <2>0 DEF InTurn, PaidWasSent, Books
  <2> QED BY <2>1, <2>2, <2>3, <2>4, <2>5 DEF InTurn
<1> QED BY <1>1, <1>3, <1>4 DEF Books

LEMMA AskingForAllKeeps ==
  ASSUME PrizesInv, NEW o \in Operator, NEW t \in DOMAIN transfers, NEW date, recordBulk(o, t, date)
  PROVE  PrizesInv'
<1> USE DEF PrizesInv
<1> DEFINE rest == {p \in Pool : DateOf[p] = date /\ winner[p] # NoWinner /\ IsUnpaid(p)} \X {t}
<1>1. UNCHANGED <<Books, blacklist>> /\ hash' = hash /\ paid' = paid
  BY DEF recordBulk, Books, treasury
<1>2. /\ call' = [call EXCEPT ![o] = Serving(paid[o], {}, rest)]
      /\ owing[o] = {} /\ paid[o] # {} /\ paid[o] = transfers[t] \X {t}
      /\ \A p \in transfers[t] : DateOf[p] = date
  BY DEF recordBulk
<1>3. /\ rest \subseteq Pairs
      /\ \A pair \in rest : /\ pair[2] = t /\ pair[1] \in Pool /\ DateOf[pair[1]] = date
                            /\ winner[pair[1]] # NoWinner /\ hash[pair[1]] = Unpaid
  BY DEF Pairs, IsUnpaid
<1>4. \A p \in Pool : DateOf[p] = date /\ winner[p] # NoWinner /\ hash[p] = Unpaid => <<p, t>> \in rest
  BY DEF IsUnpaid
<1> HIDE DEF rest
<1>5. PrizesType'
  <2>1. Serving(paid[o], {}, rest) \in CallType
    BY <1>3 DEF PrizesType, CallType, Serving
  <2> QED BY <1>1, <1>2, <2>1, BooksKept DEF PrizesType, Books, Serving
<1>6. ASSUME inTurns PROVE InTurn'
  <2>0. InTurn
    BY <1>6
  <2>1. ~Finished(o) /\ \A x \in Operator : x # o => Finished(x)
    BY <1>2, <2>0 DEF InTurn, OneAtATime, Finished
  <2>2. OneAtATime'
    BY <1>1, <1>2, <2>1 DEF OneAtATime, Finished, Books, PrizesType
  <2>3. CallsAreTrue'
    <3>1. \A pair \in rest : CallMayWrite(pair)
      <4> SUFFICES ASSUME NEW pair \in rest PROVE CallMayWrite(pair)
        OBVIOUS
      <4>1. \A x \in Operator : owing[x] = {}
        BY <1>2, <2>1 DEF Finished
      <4>2. OfItsDate(pair[1], t)
        BY <1>2, <1>3 DEF OfItsDate
      <4>3. ASSUME NEW u \in PaidBy(pair[1]) PROVE u = t
        <5>1. u # Unpaid
          BY DEF PaidBy, PrizesType, Unpaid
        <5>2. PICK x \in Operator : <<pair[1], u>> \in paid[x]
          BY <1>3, <2>0, <5>1 DEF InTurn, SentIsKnown
        <5>3. x = o
          BY <2>1, <5>2 DEF Finished
        <5> QED BY <1>2, <5>2, <5>3
      <4> QED BY <1>3, <4>1, <4>2, <4>3 DEF CallMayWrite
    <3>2. \A x \in Operator : \A pair \in call'[x].todo \cup call'[x].found :
            pair \in call[x].todo \cup call[x].found \/ pair \in rest
      BY <1>2 DEF PrizesType, Serving
    <3> QED BY <1>1, <2>0, <3>1, <3>2, BooksKept DEF InTurn, CallsAreTrue
  <2>4. AskedIsDone'
    <3>1. \A pair \in paid[o] : pair \in rest \/ hash[pair[1]] # Unpaid
      BY <1>2, <1>4, <2>0 DEF InTurn, PaidWasSent, PrizesType, Pairs
    <3> QED BY <1>1, <1>2, <2>0, <3>1 DEF InTurn, AskedIsDone, PrizesType, Serving
  <2>5. PaidAtMostOnce' /\ SentIsKnown' /\ OwingIsOwed' /\ HashOfItsDate'
    BY <1>1, <2>0, BooksKept DEF InTurn, PaidAtMostOnce, SentIsKnown, HashOfItsDate
  <2>6. PaidWasSent'
    BY <1>1, <2>0 DEF InTurn, PaidWasSent, Books
  <2> QED BY <2>2, <2>3, <2>4, <2>5, <2>6 DEF InTurn
<1> QED BY <1>1, <1>5, <1>6 DEF Books

LEMMA LookUpKeeps ==
  ASSUME PrizesInv, NEW o \in Operator, NEW pair \in call[o].todo, LookUp(o, pair)
  PROVE  PrizesInv'
<1> USE DEF PrizesInv
<1> DEFINE next == Serving(call[o].asked, call[o].todo \ {pair}, IF PassesOver(pair[1]) THEN {} ELSE {pair})
<1>1. UNCHANGED <<Books, blacklist>> /\ hash' = hash /\ paid' = paid
  BY DEF LookUp, Books, treasury
<1>2. call' = [call EXCEPT ![o] = next] /\ call[o].found = {} /\ call[o] \in CallType
  BY DEF LookUp, PrizesType
<1>3. /\ next \in CallType /\ next.served /\ next.asked = call[o].asked
      /\ next.todo \cup next.found \subseteq call[o].todo
      /\ \A x \in call[o].todo : x \in next.todo \cup next.found \/ (x = pair /\ PassesOver(pair[1]))
  BY <1>2 DEF CallType, Serving
<1> HIDE DEF next
<1>4. PrizesType'
  BY <1>1, <1>2, <1>3, BooksKept DEF PrizesType, Books
<1>5. call[o].served
  BY DEF PrizesType, NoCall
<1>6. ASSUME inTurns PROVE InTurn'
  <2>0. InTurn
    BY <1>6
  <2>1. OneAtATime'
    <3>1. \A x \in Operator : ~Finished(x)' => ~Finished(x)
      BY <1>1, <1>2, <1>5 DEF Finished, Books, PrizesType
    <3> QED BY <2>0, <3>1 DEF InTurn, OneAtATime
  <2>2. CallsAreTrue'
    <3>1. \A x \in Operator : call'[x].todo \cup call'[x].found \subseteq call[x].todo \cup call[x].found
      BY <1>2, <1>3 DEF PrizesType
    <3> QED BY <1>1, <2>0, <3>1, BooksKept DEF InTurn, CallsAreTrue
  <2>3. AskedIsDone'
    <3>1. PassesOver(pair[1]) => hash[pair[1]] # Unpaid
      BY <2>0 DEF InTurn, CallsAreTrue, CallMayWrite, PassesOver, IsUnpaid
    <3> SUFFICES ASSUME NEW x \in Operator, NEW y \in call'[x].asked
                 PROVE  y \in call'[x].todo \cup call'[x].found \/ hash[y[1]] # Unpaid
      BY <1>1 DEF AskedIsDone
    <3>2. CASE x = o
      BY <1>2, <1>3, <2>0, <3>1, <3>2 DEF InTurn, AskedIsDone, PrizesType
    <3>3. CASE x # o
      BY <1>2, <2>0, <3>3 DEF InTurn, AskedIsDone, PrizesType
    <3> QED BY <3>2, <3>3
  <2>4. PaidAtMostOnce' /\ SentIsKnown' /\ OwingIsOwed' /\ HashOfItsDate'
    BY <1>1, <2>0, BooksKept DEF InTurn, PaidAtMostOnce, SentIsKnown, HashOfItsDate
  <2>5. PaidWasSent'
    BY <1>1, <2>0 DEF InTurn, PaidWasSent, Books
  <2> QED BY <2>1, <2>2, <2>3, <2>4, <2>5 DEF InTurn
<1> QED BY <1>1, <1>4, <1>6 DEF Books

LEMMA WriteKeeps ==
  ASSUME PrizesInv, NEW o \in Operator, NEW pair \in call[o].found, Write(o, pair)
  PROVE  PrizesInv'
<1> USE DEF PrizesInv
<1>1. UNCHANGED <<Books, blacklist>> /\ paid' = paid
  BY DEF Write, Books, treasury
<1>2. /\ hash' = [hash EXCEPT ![pair[1]] = pair[2]]
      /\ call' = [call EXCEPT ![o].found = @ \ {pair}]
  BY DEF Write
<1>3. pair[1] \in Pool /\ pair[2] \in DOMAIN transfers /\ pair[2] # Unpaid /\ call[o].served
  BY DEF PrizesType, CallType, Pairs, NoCall, Unpaid
<1>4. /\ \A x \in Operator : /\ call'[x].asked = call[x].asked /\ call'[x].served = call[x].served
                             /\ call'[x].todo = call[x].todo /\ call'[x].found \subseteq call[x].found
                             /\ \A y \in call[x].found : y \in call'[x].found \/ y = pair
      /\ call' \in [Operator -> CallType]
      /\ \A x \in Operator : call'[x].served \/ call'[x] = NoCall
  BY <1>2, <1>3 DEF PrizesType, CallType, NoCall
<1>5. hash' \in [Pool -> DOMAIN transfers \cup {Unpaid}] /\ hash'[pair[1]] = pair[2]
      /\ \A p \in Pool : p # pair[1] => hash'[p] = hash[p]
  BY <1>2, <1>3 DEF PrizesType
<1>6. PrizesType'
  BY <1>1, <1>4, <1>5, BooksKept DEF PrizesType, Books
<1>7. ASSUME inTurns PROVE InTurn'
  <2>0. InTurn /\ CallMayWrite(pair)
    BY <1>7 DEF InTurn, CallsAreTrue
  <2>1. OneAtATime'
    BY <1>1, <1>4, <2>0 DEF InTurn, OneAtATime, Finished, Books
  <2>2. CallsAreTrue'
    BY <1>1, <1>4, <2>0, BooksKept DEF InTurn, CallsAreTrue
  <2>3. AskedIsDone'
    <3> SUFFICES ASSUME NEW x \in Operator, NEW y \in call'[x].asked
                 PROVE  y \in call'[x].todo \cup call'[x].found \/ hash'[y[1]] # Unpaid
      BY DEF AskedIsDone
    <3>1. y[1] \in Pool
      BY <1>4 DEF PrizesType, CallType, Pairs
    <3>2. \/ y \in call'[x].todo \cup call'[x].found \/ y = pair
          \/ hash[y[1]] # Unpaid
      BY <1>4, <2>0 DEF InTurn, AskedIsDone
    <3> QED BY <1>3, <1>5, <3>1, <3>2
  <2>4. SentIsKnown'
    <3> SUFFICES ASSUME NEW p \in Pool, NEW u \in PaidBy(p)
                 PROVE  hash'[p] = u \/ (hash'[p] = Unpaid /\ \E x \in Operator : <<p, u>> \in paid[x])
      BY <1>1, BooksKept DEF SentIsKnown
    <3>1. CASE p = pair[1]
      BY <1>5, <2>0, <3>1 DEF CallMayWrite
    <3>2. CASE p # pair[1]
      BY <1>5, <2>0, <3>2 DEF InTurn, SentIsKnown
    <3> QED BY <3>1, <3>2
  <2>5. OwingIsOwed'
    <3> SUFFICES ASSUME NEW x \in Operator, NEW p \in owing[x]
                 PROVE  PaidBy(p) = {} /\ winner[p] # NoWinner /\ hash'[p] = Unpaid
      BY <1>1, BooksKept DEF OwingIsOwed, Books
    <3>1. p \in Pool /\ p # pair[1]
      BY <2>0 DEF PrizesType, CallMayWrite
    <3> QED BY <1>5, <2>0, <3>1 DEF InTurn, OwingIsOwed
  <2>6. HashOfItsDate'
    <3> SUFFICES ASSUME NEW p \in Pool, hash'[p] # Unpaid PROVE OfItsDate(p, hash'[p])
      BY <1>1, BooksKept DEF HashOfItsDate
    <3>1. CASE p = pair[1]
      BY <1>5, <2>0, <3>1 DEF CallMayWrite
    <3>2. CASE p # pair[1]
      BY <1>5, <2>0, <3>2 DEF InTurn, HashOfItsDate
    <3> QED BY <3>1, <3>2
  <2>7. PaidAtMostOnce' /\ PaidWasSent'
    BY <1>1, <2>0, BooksKept DEF InTurn, PaidAtMostOnce, PaidWasSent, Books
  <2> QED BY <2>1, <2>2, <2>3, <2>4, <2>5, <2>6, <2>7 DEF InTurn
<1> QED BY <1>1, <1>6, <1>7 DEF Books

LEMMA EndKeeps ==
  ASSUME PrizesInv, NEW o \in Operator, Recorded(o) \/ BreakOff(o)
  PROVE  PrizesInv'
<1> USE DEF PrizesInv
<1>1. UNCHANGED <<Books, blacklist>> /\ hash' = hash /\ call' = [call EXCEPT ![o] = NoCall]
  BY DEF Recorded, BreakOff, Books, treasury
<1>2. \A x \in Operator : /\ paid'[x] \subseteq paid[x]
                          /\ \A pair \in paid[x] \ paid'[x] :
                               x = o /\ pair \in call[o].asked /\ call[o].todo = {} /\ call[o].found = {}
  BY DEF Recorded, BreakOff, PrizesType, treasury
<1>3. PrizesType'
  <2>1. NoCall \in CallType
    BY DEF NoCall, CallType
  <2>2. paid' \in [Operator -> SUBSET Pairs]
    BY DEF Recorded, BreakOff, PrizesType, treasury
  <2> QED BY <1>1, <2>1, <2>2, BooksKept DEF PrizesType, Books
<1>4. ASSUME inTurns PROVE InTurn'
  <2>0. InTurn
    BY <1>4
  <2>1. OneAtATime'
    <3>1. \A x \in Operator : ~Finished(x)' => ~Finished(x)
      BY <1>1, <1>2 DEF Finished, Books, PrizesType, NoCall
    <3> QED BY <2>0, <3>1 DEF InTurn, OneAtATime
  <2>2. CallsAreTrue' /\ AskedIsDone'
    BY <1>1, <2>0, BooksKept DEF InTurn, CallsAreTrue, AskedIsDone, PrizesType, NoCall
  <2>3. SentIsKnown'
    <3>1. \A x \in Operator : \A pair \in paid[x] \ paid'[x] : hash[pair[1]] # Unpaid
      BY <1>2, <2>0 DEF InTurn, AskedIsDone
    <3> SUFFICES ASSUME NEW p \in Pool, NEW u \in PaidBy(p)
                 PROVE  hash[p] = u \/ (hash[p] = Unpaid /\ \E x \in Operator : <<p, u>> \in paid'[x])
      BY <1>1, BooksKept DEF SentIsKnown
    <3>2. hash[p] = u \/ (hash[p] = Unpaid /\ \E x \in Operator : <<p, u>> \in paid[x])
      BY <2>0 DEF InTurn, SentIsKnown
    <3> QED BY <3>1, <3>2
  <2>4. PaidAtMostOnce' /\ OwingIsOwed' /\ HashOfItsDate'
    BY <1>1, <2>0, BooksKept DEF InTurn, PaidAtMostOnce, HashOfItsDate
  <2>5. PaidWasSent'
    BY <1>1, <1>2, <2>0 DEF InTurn, PaidWasSent, Books
  <2> QED BY <2>1, <2>2, <2>3, <2>4, <2>5 DEF InTurn
<1> QED BY <1>1, <1>3, <1>4 DEF Books

-----------------------------------------------------------------------------
(* The rest of the world, and all together. *)

LEMMA DrawnKeeps ==
  ASSUME PrizesInv, NEW p \in Pool, NEW w \in Winner, Drawn(p, w)
  PROVE  PrizesInv'
<1> USE DEF PrizesInv
<1>1. /\ UNCHANGED <<hash, blacklist, transfers, owing, paid, call, inTurns>>
      /\ winner' = [winner EXCEPT ![p] = w]
  BY DEF Drawn, treasury
<1>2. \A q : winner[q] # NoWinner /\ q \in Pool => winner'[q] # NoWinner
  BY <1>1, PayoutsAssumption DEF PrizesType
<1>3. /\ \A q : PaidBy(q)' = PaidBy(q)
      /\ Pairs' = Pairs /\ CallType' = CallType
      /\ \A q, t : OfItsDate(q, t)' <=> OfItsDate(q, t)
  BY <1>1 DEF PaidBy, Pairs, CallType, OfItsDate
<1>4. PrizesType'
  BY <1>1, <1>3 DEF PrizesType
<1>5. ASSUME inTurns PROVE InTurn'
  <2>0. InTurn
    BY <1>5
  <2>1. OneAtATime' /\ PaidAtMostOnce' /\ SentIsKnown' /\ AskedIsDone' /\ HashOfItsDate'
    BY <1>1, <1>3, <2>0 DEF InTurn, OneAtATime, Finished, PaidAtMostOnce, SentIsKnown, AskedIsDone,
                            HashOfItsDate
  <2>2. OwingIsOwed'
    BY <1>1, <1>2, <1>3, <2>0 DEF InTurn, OwingIsOwed, PrizesType
  <2>3. PaidWasSent'
    BY <1>1, <1>2, <2>0 DEF InTurn, PaidWasSent, PrizesType, Pairs
  <2>4. CallsAreTrue'
    <3>1. \A pair \in Pairs : CallMayWrite(pair) => CallMayWrite(pair)'
      BY <1>1, <1>2, <1>3 DEF CallMayWrite, Pairs
    <3>2. \A o \in Operator : call[o].todo \cup call[o].found \subseteq Pairs
      BY DEF PrizesType, CallType
    <3> QED BY <1>1, <2>0, <3>1, <3>2 DEF InTurn, CallsAreTrue
  <2> QED BY <2>1, <2>2, <2>3, <2>4 DEF InTurn
<1> QED BY <1>1, <1>4, <1>5

LEMMA BlacklistKeeps ==
  ASSUME PrizesInv, NEW w \in Winner, addBlacklist(w) \/ removeBlacklist(w)
  PROVE  PrizesInv'
<1>1. blacklist' \subseteq Winner /\ UNCHANGED <<winner, hash, transfers, owing, paid, call, inTurns>>
  BY DEF addBlacklist, removeBlacklist, treasury, PrizesInv, PrizesType
<1>2. PrizesType' /\ UNCHANGED Books
  <2>1. Pairs' = Pairs /\ CallType' = CallType
    BY <1>1 DEF Pairs, CallType
  <2> QED BY <1>1, <2>1 DEF PrizesInv, PrizesType, Books
<1>3. \A o : Finished(o)' <=> Finished(o)
  BY <1>1 DEF Finished
<1>4. ASSUME inTurns PROVE InTurn'
  <2>1. InTurn
    BY <1>4 DEF PrizesInv
  <2>2. OneAtATime' /\ PaidAtMostOnce' /\ SentIsKnown' /\ OwingIsOwed' /\ HashOfItsDate'
    BY <1>1, <1>2, <1>3, <2>1, BooksKept DEF InTurn, OneAtATime, PaidAtMostOnce, SentIsKnown, HashOfItsDate
  <2>3. PaidWasSent' /\ CallsAreTrue' /\ AskedIsDone'
    BY <1>1, <1>2, <2>1, BooksKept DEF InTurn, PaidWasSent, CallsAreTrue, AskedIsDone
  <2> QED BY <2>2, <2>3 DEF InTurn
<1> QED BY <1>1, <1>2, <1>4 DEF PrizesInv

LEMMA PrizesInvStep == PrizesInv /\ [PayoutsNext]_payoutVars => PrizesInv'
<1> SUFFICES ASSUME PrizesInv, [PayoutsNext]_payoutVars PROVE PrizesInv'
  OBVIOUS
<1>1. CASE \E o \in Operator, p \in Pool : winners(o, DateOf[p])
  BY <1>1, ListKeeps
<1>2. CASE \E o \in Operator : \E pools_ \in SUBSET owing[o] : SendPrize(o, pools_)
  BY <1>2, SendKeeps
<1>3. CASE \E o \in Operator : recordPayouts(o) \/ Recorded(o) \/ BreakOff(o)
  BY <1>3, AskingKeeps, EndKeeps
<1>4. CASE \E o \in Operator, t \in DOMAIN transfers, p \in Pool : recordBulk(o, t, DateOf[p])
  BY <1>4, AskingForAllKeeps
<1>5. CASE \E o \in Operator : \E pair \in call[o].todo : LookUp(o, pair)
  BY <1>5, LookUpKeeps
<1>6. CASE \E o \in Operator : \E pair \in call[o].found : Write(o, pair)
  BY <1>6, WriteKeeps
<1>7. CASE \E p \in Pool, w \in Winner : Drawn(p, w)
  BY <1>7, DrawnKeeps
<1>8. CASE \E w \in Winner : addBlacklist(w) \/ removeBlacklist(w)
  BY <1>8, BlacklistKeeps
<1>9. CASE UNCHANGED payoutVars
  BY <1>9 DEF payoutVars, PrizesInv, PrizesType, Pairs, CallType, InTurn, OneAtATime, Finished,
     PaidAtMostOnce, SentIsKnown, OwingIsOwed, PaidWasSent, CallsAreTrue, CallMayWrite, AskedIsDone,
     HashOfItsDate, OfItsDate, PaidBy
<1> QED BY <1>1, <1>2, <1>3, <1>4, <1>5, <1>6, <1>7, <1>8, <1>9 DEF PayoutsNext

LEMMA PaidOnceHolds == ASSUME PrizesInv PROVE PaidOnce
<1> SUFFICES ASSUME inTurns, NEW p \in Pool
             PROVE  /\ Cardinality(PaidBy(p)) <= 1
                    /\ p \in Payouts /\ PaidBy(p) # {} => hash[p] \in PaidBy(p)
                    /\ p \in Payouts => \E q \in transfers[hash[p]] : DateOf[q] = DateOf[p]
  BY DEF PaidOnce
<1>1. InTurn
  BY DEF PrizesInv
<1>2. Cardinality(PaidBy(p)) <= 1
  <2>1. CASE PaidBy(p) = {}
    BY <2>1, FS_EmptySet
  <2>2. CASE PaidBy(p) # {}
    <3>1. PICK t : t \in PaidBy(p)
      BY <2>2
    <3>2. PaidBy(p) = {t}
      BY <1>1, <3>1 DEF InTurn, PaidAtMostOnce
    <3> QED BY <3>2, FS_Singleton
  <2> QED BY <2>1, <2>2
<1>3. p \in Payouts => hash[p] # Unpaid
  BY DEF Payouts, IsUnpaid
<1>4. p \in Payouts /\ PaidBy(p) # {} => hash[p] \in PaidBy(p)
  BY <1>1, <1>3 DEF InTurn, SentIsKnown
<1>5. p \in Payouts => \E q \in transfers[hash[p]] : DateOf[q] = DateOf[p]
  BY <1>1, <1>3 DEF InTurn, HashOfItsDate, OfItsDate
<1> QED BY <1>2, <1>4, <1>5

LEMMA NoPrizeForgotten == ASSUME PrizesInv PROVE NoPrizeIsForgotten
<1> DEFINE drawn == {p \in Pool : winner[p] # NoWinner}
           settled == {p \in drawn : ~IsUnpaid(p)}
<1>1. /\ winner \in [Pool -> Winner \cup {NoWinner}] /\ blacklist \subseteq Winner /\ NoWinner \notin Winner
      /\ IsFiniteSet(Pool) /\ DateOf \in [Pool -> Nat]
  BY PayoutsAssumption DEF PrizesInv, PrizesType
<1>2. ShownUnpaid = {p \in drawn : IsUnpaid(p)}
  BY <1>1 DEF ShownUnpaid, myRewards
<1>3. \A p \in Pool : p \in ShownUnpaid <=> p \in Owed(DateOf[p]) \/ p \in HeldBack
  BY <1>1, <1>2 DEF Owed, HeldBack
<1>4. settled = Payouts
  BY DEF Payouts
<1>5. Cardinality(drawn) - Cardinality(settled) = Cardinality(ShownUnpaid)
  <2>1. IsFiniteSet(drawn) /\ settled \subseteq drawn
    BY <1>1, FS_Subset
  <2>2. IsFiniteSet(settled)
    BY <2>1, FS_Subset
  <2>3. drawn \cap settled = settled /\ drawn \ settled = ShownUnpaid
    BY <1>2
  <2>4. Cardinality(drawn \ settled) = Cardinality(drawn) - Cardinality(drawn \cap settled)
    BY <2>1, <2>2, FS_Difference
  <2>5. Cardinality(drawn) \in Nat /\ Cardinality(settled) \in Nat
    BY <2>1, <2>2, FS_CardinalityType
  <2> QED BY <2>3, <2>4, <2>5
<1>6. raffleStats.awarded = Cardinality(drawn) /\ raffleStats.paid = Cardinality(settled)
  BY DEF raffleStats
<1> QED BY <1>3, <1>4, <1>5, <1>6 DEF NoPrizeIsForgotten

\* admin/raffle.ts 142-297: however many operators send and record prizes, with
\* calls that break off anywhere and winners drawn or blacklisted meanwhile, no
\* prize is sent twice while they take turns, what is published names a payment
\* of its date, and no prize falls between the lists.
THEOREM PrizesHold == PayoutsSpec => []PrizesAreTrue
<1>1. PrizesInv => PrizesAreTrue
  BY PaidOnceHolds, NoPrizeForgotten DEF PrizesAreTrue
<1> QED BY <1>1, PrizesInvStarts, PrizesInvStep, PTL DEF PayoutsSpec

-----------------------------------------------------------------------------
(* A draw of the World raffle: the wallets in any order, each with its     *)
(* tickets, and the tickets counted off along that order.                  *)

LEMMA LeastIs ==
  ASSUME NEW S \in SUBSET Int, NEW k \in S, \A j \in S : k <= j
  PROVE  Min(S) = k
<1>1. \A x \in S : (\A y \in S : x <= y) => x = k
  OBVIOUS
<1> QED BY <1>1 DEF Min

LEMMA NoTermsBelowZero ==
  ASSUME NEW S, IsFiniteSet(S), NEW f \in [S -> Int], \A x \in S : f[x] >= 0
  PROVE  SumFunction(f) \in Int /\ SumFunction(f) >= 0
<1> DEFINE z == [x \in S |-> 0]
<1>1. \A x \in S : z[x] \in Int /\ f[x] \in Int /\ z[x] <= f[x] /\ z[x] = 0
  OBVIOUS
<1>2. SumFunction(f) = SumFunctionOnSet(f, S) /\ SumFunctionOnSet(f, S) \in Int
  BY <1>1, SumSplit DEF SumFunction
<1> HIDE DEF z
<1>3. SumFunctionOnSet(z, S) = 0
  BY <1>1, SumOfZeros
<1>4. SumFunctionOnSet(z, S) <= SumFunctionOnSet(f, S)
  BY <1>1, SumBelow
<1> QED BY <1>2, <1>3, <1>4

IsCount(n, order, held) ==
    \A i \in 1..n : order[i] \in DOMAIN held /\ held[order[i]] \in Nat

\* One wallet further along the order, so many tickets further.
LEMMA CountedOff ==
  ASSUME NEW n \in Nat, NEW order, NEW held, IsCount(n, order, held)
  PROVE  /\ upTo(0, order, held) = 0
         /\ \A i \in 0..n : upTo(i, order, held) \in Nat
         /\ \A i \in 1..n : upTo(i, order, held) = upTo(i - 1, order, held) + held[order[i]]
<1> DEFINE f(i) == [j \in 1..i |-> held[order[j]]]
<1>1. \A i \in 0..n : IsFiniteSet(1..i) /\ f(i) \in [1..i -> Int] /\ \A j \in 1..i : f(i)[j] >= 0
  <2>1. \A i \in 0..n : IsFiniteSet(1..i)
    BY FS_Interval
  <2>2. \A i \in 0..n : \A j \in 1..i : j \in 1..n
    OBVIOUS
  <2> QED BY <2>1, <2>2 DEF IsCount
<1>2. \A i \in 0..n : upTo(i, order, held) = SumFunction(f(i))
  BY DEF upTo
<1>3. upTo(0, order, held) = 0
  <2>1. f(0) = [j \in {} |-> held[order[j]]] /\ DOMAIN f(0) = {}
    OBVIOUS
  <2>2. SumFunction(f(0)) = SumFunctionOnSet(f(0), {})
    BY <2>1 DEF SumFunction
  <2>3. 0 \in 0..n
    OBVIOUS
  <2> HIDE DEF f
  <2> QED BY <1>2, <2>2, <2>3, SumEmpty
<1>4. ASSUME NEW i \in 0..n PROVE upTo(i, order, held) \in Nat
  <2>1. PICK S, g : S = 1..i /\ g = f(i)
    OBVIOUS
  <2>2. IsFiniteSet(S) /\ g \in [S -> Int] /\ \A j \in S : g[j] >= 0
    BY <1>1, <2>1
  <2> HIDE DEF f
  <2>3. SumFunction(g) \in Int /\ SumFunction(g) >= 0
    BY <2>2, NoTermsBelowZero
  <2> QED BY <1>2, <2>1, <2>3
<1>5. ASSUME NEW i \in 1..n
      PROVE  upTo(i, order, held) = upTo(i - 1, order, held) + held[order[i]]
  <2>1. PICK T, g, e : T = 1..i /\ g = f(i) /\ e = f(i - 1)
    OBVIOUS
  <2>2. /\ i \in 0..n /\ i - 1 \in 0..n /\ i \in T /\ T \ {i} = 1..(i - 1)
        /\ g[i] = held[order[i]] /\ \A j \in 1..(i - 1) : e[j] = g[j]
    BY <2>1
  <2>3. IsFiniteSet(T) /\ g \in [T -> Int] /\ e \in [T \ {i} -> Int] /\ \A y \in T \ {i} : e[y] = g[y]
    BY <1>1, <2>1, <2>2
  <2> HIDE DEF f
  <2>4. \A x \in T : \A h \in [T \ {x} -> Int] :
            (\A y \in T \ {x} : h[y] = g[y]) => SumFunction(g) = SumFunction(h) + g[x]
    BY <2>3, SumLess
  <2>5. SumFunction(g) = SumFunction(e) + g[i]
    BY <2>2, <2>3, <2>4
  <2> QED BY <1>2, <2>1, <2>2, <2>5
<1> QED BY <1>3, <1>4, <1>5

LEMMA CountGrows ==
  ASSUME NEW n \in Nat, NEW order, NEW held, IsCount(n, order, held)
  PROVE  \A i, j \in 0..n : i <= j => upTo(i, order, held) <= upTo(j, order, held)
<1> SUFFICES ASSUME NEW i \in 0..n
             PROVE  \A j \in 0..n : i <= j => upTo(i, order, held) <= upTo(j, order, held)
  OBVIOUS
<1> DEFINE Bad == {j \in 0..n : i <= j /\ ~(upTo(i, order, held) <= upTo(j, order, held))}
<1>1. SUFFICES ASSUME Bad # {} PROVE FALSE
  OBVIOUS
<1>2. PICK j \in Bad : \A m \in Bad : j <= m
  <2>1. Bad \in SUBSET Nat
    OBVIOUS
  <2> HIDE DEF Bad
  <2> QED BY <1>1, <2>1, Least
<1>3. \A k \in 0..n : upTo(k, order, held) \in Nat
  BY CountedOff
<1>4. j # i
  BY <1>2, <1>3
<1>5. j \in 1..n /\ j - 1 \in 0..n /\ i <= j - 1 /\ j - 1 \notin Bad
  BY <1>2, <1>4
<1>6. upTo(i, order, held) <= upTo(j - 1, order, held)
  BY <1>5
<1>7. upTo(j, order, held) = upTo(j - 1, order, held) + held[order[j]] /\ held[order[j]] \in Nat
  BY <1>5, CountedOff DEF IsCount
<1> QED BY <1>2, <1>3, <1>5, <1>6, <1>7

\* weighted-draw.ts: a wallet is drawn by as many numbers as it has tickets.
LEMMA DrawnByItsTickets ==
  ASSUME NEW S, IsFiniteSet(S), NEW held, \A a \in S : a \in DOMAIN held /\ held[a] \in Nat,
         NEW order \in SetToSeqs(S), NEW a \in S
  PROVE  Cardinality({t \in DOMAIN Draws(order, held) : Draws(order, held)[t] = a}) = held[a]
<1>1. PICK n \in Nat : n = Cardinality(S)
  BY FS_CardinalityType
<1>2. order \in [1..n -> S] /\ \A i, j \in 1..n : i # j => order[i] # order[j]
  BY <1>1 DEF SetToSeqs
<1>3. Len(order) = n
  BY <1>2
<1>4. IsCount(n, order, held)
  BY <1>2 DEF IsCount
<1>5. PICK k \in 1..n : order[k] = a
  <2>1. order \in Injection(1..n, S)
    BY <1>2 DEF Injection, IsInjective
  <2>2. Cardinality(1..n) = n
    BY FS_Interval
  <2>3. order \in Surjection(1..n, S)
    BY <1>1, <2>1, <2>2, FS_Injection
  <2> QED BY <2>3 DEF Surjection
<1> DEFINE u(i) == upTo(i, order, held)
<1>6. /\ \A i \in 0..n : u(i) \in Nat
      /\ \A i, j \in 0..n : i <= j => u(i) <= u(j)
      /\ u(k) = u(k - 1) + held[a] /\ u(k) <= u(n)
  BY <1>4, <1>5, CountedOff, CountGrows
<1>7. \A t \in 1..u(n) : WonBy(t, order, held) = a <=> t > u(k - 1) /\ t <= u(k)
  <2> SUFFICES ASSUME NEW t \in 1..u(n)
               PROVE  WonBy(t, order, held) = a <=> t > u(k - 1) /\ t <= u(k)
    OBVIOUS
  <2> DEFINE R == {i \in 1..n : t <= u(i)}
  <2>1. WonBy(t, order, held) = order[Min(R)]
    BY <1>3 DEF WonBy
  <2>2. n \in R /\ R \in SUBSET Nat /\ R \in SUBSET Int
    BY <1>5, <1>6
  <2>3. PICK m \in R : \A j \in R : m <= j
    <3> HIDE DEF R
    <3> QED BY <2>2, Least
  <2>4. Min(R) = m
    <3> HIDE DEF R
    <3> QED BY <2>2, <2>3, LeastIs
  <2>5. WonBy(t, order, held) = a <=> m = k
    BY <1>2, <1>5, <2>1, <2>3, <2>4
  <2>6. ASSUME m = k PROVE t > u(k - 1) /\ t <= u(k)
    <3>1. CASE k = 1
      BY <1>4, <1>6, <2>3, <2>6, <3>1, CountedOff
    <3>2. CASE k # 1
      <4>1. k - 1 \in 1..n /\ k - 1 \notin R
        BY <1>5, <2>3, <2>6, <3>2
      <4> QED BY <1>6, <2>3, <2>6, <4>1
    <3> QED BY <3>1, <3>2
  <2>7. ASSUME t > u(k - 1), t <= u(k) PROVE m = k
    <3>1. k \in R /\ m <= k
      BY <2>3, <2>7
    <3>2. CASE m < k
      <4>1. m \in 0..n /\ k - 1 \in 0..n /\ m <= k - 1
        BY <1>5, <2>3, <3>2
      <4>2. u(m) <= u(k - 1) /\ t <= u(m) /\ u(m) \in Nat /\ u(k - 1) \in Nat
        BY <1>6, <2>3, <4>1
      <4> HIDE DEF u
      <4> QED BY <2>7, <4>2
    <3> QED BY <2>3, <3>1, <3>2
  <2> QED BY <2>5, <2>6, <2>7
<1>8. {t \in DOMAIN Draws(order, held) : Draws(order, held)[t] = a} = (u(k - 1) + 1)..u(k)
  <2>1. DOMAIN Draws(order, held) = 1..u(n)
    BY <1>3 DEF Draws, TicketNumbers
  <2>2. \A t \in 1..u(n) : Draws(order, held)[t] = WonBy(t, order, held)
    BY <1>3 DEF Draws, TicketNumbers
  <2>3. u(k - 1) \in Nat /\ u(k) \in Nat /\ u(n) \in Nat /\ u(k) <= u(n)
    BY <1>5, <1>6
  <2> HIDE DEF u
  <2> QED BY <1>7, <2>1, <2>2, <2>3
<1>9. Cardinality((u(k - 1) + 1)..u(k)) = held[a]
  <2>1. PICK x, y \in Nat : x = u(k - 1) /\ y = u(k)
    BY <1>5, <1>6
  <2>2. y = x + held[a] /\ held[a] \in Nat
    BY <1>6, <2>1
  <2>3. Cardinality((x + 1)..y) = IF x + 1 > y THEN 0 ELSE y - (x + 1) + 1
    BY FS_Interval
  <2> HIDE DEF u
  <2> QED BY <2>1, <2>2, <2>3
<1> QED BY <1>8, <1>9

-----------------------------------------------------------------------------
(* The World raffle.  Its entries are transactions of the point ledger, so *)
(* what holds of the ledger holds of it: every step of the raffle does to  *)
(* the points what a step of the ledger may.                               *)

RunType == [pc: {"idle", "rolling", "drawn", "minted"}, task: {"both", "close", "create"},
            todo: SUBSET Nat, pool: Nat, winner: Wallet \cup {NoOne},
            link: {NoLink} \cup [pool: Nat, receiver: Wallet]]

Raffles(q) == req[q].source = "raffle"

PoolsType ==
    /\ pools \in Seq(PoolRow)
    /\ \A p \in DOMAIN pools : pools[p].max \in Nat \cup {UNLIMITED_ENTRIES}
    /\ IsFiniteSet(entries)
    /\ \A e \in entries : /\ e.id \in Request /\ e.pool \in DOMAIN pools /\ e.wallet \in Wallet
                          /\ e.count \in Nat \ {0} /\ e.spent \in Nat
    /\ entry \in [Request -> [pool: Nat, count: Nat, current: Int]]
    /\ \A q \in Request : Raffles(q) => entry[q].pool \in DOMAIN pools /\ entry[q].count \in Nat \ {0}
    /\ run \in [Runner -> RunType]
    /\ byHand \in Nat

\* A winner that is drawn and not yet recorded holds a ticket of that pool.
HeldInv ==
    \A r \in Runner : run[r].pc \in {"drawn", "minted"} =>
        run[r].pool \in DOMAIN pools /\ run[r].winner \in Entrants(run[r].pool)

LEMMA PoolIs ==
  ASSUME pools \in Seq(PoolRow), NEW p \in DOMAIN pools
  PROVE  /\ pools[p] \in PoolRow /\ pools[p].price \in Nat \ {0} /\ pools[p].total \in Nat
         /\ pools[p].date \in Day /\ p \in Nat
<1>1. DOMAIN pools = 1..Len(pools) /\ pools[p] \in PoolRow
  OBVIOUS
<1> QED BY <1>1 DEF PoolRow

LEMMA CostIsNumber ==
  ASSUME PoolsType, NEW q \in Request, Raffles(q)
  PROVE  Cost(q) \in Nat /\ Cost(q) # 0
<1>1. entry[q].pool \in DOMAIN pools /\ entry[q].count \in Nat \ {0}
  BY DEF PoolsType
<1>2. PICK n \in Nat \ {0}, c \in Nat \ {0} : n = entry[q].count /\ c = pools[entry[q].pool].price
  BY <1>1, PoolIs DEF PoolsType
<1>3. n * c \in Nat /\ n * c # 0
  OBVIOUS
<1> QED BY <1>2, <1>3 DEF Cost

LEMMA RafflePointsStart == ASSUME RaffleInit PROVE PointsInv
<1> DEFINE start(a) == [wallet |-> a, at |-> 0, day |-> 0, diff |-> Purse, after |-> Purse,
                        accumulated |-> Purse, source |-> "manual", receipts |-> {}]
<1>0. /\ day = 0 /\ clock = 1 /\ dailyClaims = {} /\ logs = {start(a) : a \in Wallet}
      /\ status \in [Receipt -> Claimable] /\ worth \in [Receipt -> Worth]
      /\ owner \in [Receipt -> Wallet] /\ req = [q \in Request |-> NewRequest]
      /\ open = [a \in Wallet |-> {}] /\ quiet = Wallet
      /\ Purse \in Nat /\ 0 \in Day
  BY TierAssumption, AwardAssumption DEF RaffleInit, Day
<1>1. LedgerType
  <2>1. NewRequest \in ItType /\ NewRequest.pc = "new"
    BY <1>0 DEF NewRequest, ItType, Source
  <2>2. logs \subseteq LogRow
    BY <1>0 DEF LogRow, Source
  <2>3. IsFiniteSet(logs)
    <3> DEFINE f == [a \in Wallet |-> start(a)]
    <3>1. f \in Surjection(Wallet, logs)
      BY <1>0 DEF Surjection
    <3> HIDE DEF f
    <3> QED BY <3>1, LedgerAssumption, FS_Surjection
  <2> QED BY <1>0, <2>1, <2>2, <2>3 DEF LedgerType, At
<1>2. \A q \in Request : req[q].pc = "new" /\ req[q].source = "manual" /\ req[q].receipts = {}
  BY <1>0 DEF NewRequest
<1>3. \A l \in logs : /\ l.at = 0 /\ l.wallet \in Wallet /\ l = start(l.wallet)
                      /\ l.source = "manual" /\ l.receipts = {}
  BY <1>0
<1>4. NumbersInv
  <2>1. \A l, k \in logs : l.at = k.at /\ l.wallet = k.wallet => l = k
    <3> HIDE DEF start
    <3> QED BY <1>3
  <2> QED BY <1>0, <1>2, <1>3, <2>1 DEF NumbersInv, Numbered, Active
<1>5. QuietInv
  BY <1>2 DEF QuietInv, Active, At
<1>6. RowsInv
  <2> SUFFICES ASSUME NEW a \in Wallet
               PROVE  Balance(a) = Moved(a) /\ Accumulated(a) = Earned(a) /\ LeadsOn(LogsOf(a))
    BY <1>0 DEF RowsInv
  <2>1. PICK L, E, row : L = LogsOf(a) /\ E = {} /\ row = start(a)
    OBVIOUS
  <2>2. /\ L = E \cup {row} /\ row.at = 0 /\ row.diff = Purse /\ row.after = Purse
        /\ row.accumulated = Purse /\ E = {} /\ row \notin E
    BY <1>0, <2>1 DEF LogsOf
  <2>3. IsRows(E)
    BY <2>2, FS_EmptySet DEF IsRows
  <2> HIDE DEF start
  <2>4. BalanceIn(L) = Purse /\ EarnedIn(L) = Purse /\ Older(row, L) = E
    <3>1. /\ row.at \in Nat /\ row.diff \in Int /\ row.after \in Int /\ row.accumulated \in Int
          /\ \A l \in E : l.at < row.at
      BY <1>0, <2>2
    <3>2. /\ BalanceIn(E \cup {row}) = row.after /\ EarnedIn(E \cup {row}) = row.accumulated
          /\ Older(row, E \cup {row}) = E
      BY <2>3, <3>1, RowAdded
    <3> QED BY <2>2, <3>2
  <2>5. /\ SumFunction([l \in L |-> l.diff]) = Purse
        /\ SumFunction([l \in L |-> Max({l.diff, 0})]) = Purse
    <3>1. /\ SumFunction([l \in E \cup {row} |-> l.diff]) = SumFunction([l \in E |-> l.diff]) + row.diff
          /\ SumFunction([l \in E \cup {row} |-> Max({l.diff, 0})])
                = SumFunction([l \in E |-> Max({l.diff, 0})]) + Gain(row.diff)
      <4>1. row \notin E /\ row.diff \in Int
        BY <1>0, <2>2
      <4> QED BY <2>3, <4>1, MovedMore
    <3>2. /\ SumFunction([l \in E |-> l.diff]) = 0
          /\ SumFunction([l \in E |-> Max({l.diff, 0})]) = 0
      BY <2>2, NothingMoved
    <3>3. Gain(row.diff) = Purse
      BY <1>0, <2>2 DEF Gain
    <3> QED BY <1>0, <2>2, <3>1, <3>2, <3>3
  <2>6. Balance(a) = BalanceIn(L) /\ Accumulated(a) = EarnedIn(L)
    BY <2>1 DEF Balance, Accumulated, BalanceIn, EarnedIn, Newest, LastRow
  <2>7. LeadsOn(L)
    <3>1. \A l \in L : l = row
      BY <2>2
    <3>2. row.after - row.diff = 0 /\ BalanceIn(E) = 0
      BY <1>0, <2>2 DEF BalanceIn
    <3> QED BY <2>4, <3>1, <3>2 DEF LeadsOn
  <2> QED BY <2>1, <2>4, <2>5, <2>6, <2>7 DEF Moved, Earned
<1>7. ClaimsInv
  BY <1>0, <1>2, <1>3 DEF ClaimsInv
<1>8. ReceiptsInv
  BY <1>0, <1>2, <1>3 DEF ReceiptsInv, CreditsOf, Active
<1>9. DailyOncePerDate
  <2>1. \A a \in Wallet : /\ {l \in LogsOf(a) : l.source = "daily-claim"} = {}
                          /\ {d \in Day : <<a, d>> \in dailyClaims} = {}
    BY <1>0, <1>3 DEF LogsOf
  <2> QED BY <2>1 DEF DailyOncePerDate
<1>10. DoneInv
  BY <1>2 DEF DoneInv, At
<1> QED BY <1>1, <1>4, <1>5, <1>6, <1>7, <1>8, <1>9, <1>10 DEF PointsInv, LedgerInv

LEMMA ApplyWaits ==
  ASSUME PointsInv, NEW q \in Request, NEW a \in Wallet, NEW p, NEW n, apply(q, a, p, n)
  PROVE  /\ LedgerType' /\ PointStep
         /\ \A x \in Request \ {q} : req'[x] = req[x]
         /\ req[q].pc = "new" /\ req'[q].pc = "checked"
<1> USE DEF PointsInv
<1> DEFINE it == [NewRequest EXCEPT !.pc = "checked", !.source = "raffle", !.wallet = a, !.date = day]
<1>1. it \in ItType /\ it.pc = "checked" /\ it.wallet = a /\ it.source = "raffle" /\ it.receipts = {}
  <2>1. NewRequest \in ItType /\ NewRequest.receipts = {} /\ "raffle" \in Source
    BY AwardAssumption DEF NewRequest, ItType, Source, Day
  <2>2. day \in Day
    BY DEF LedgerInv, LedgerType
  <2> QED BY <2>1, <2>2 DEF ItType
<1>2. /\ At(q, "new") /\ UNCHANGED <<day, logs, receiptVars, dailyClaims, openVars>>
      /\ req' = [req EXCEPT ![q] = it] /\ req \in [Request -> ItType]
  BY DEF apply, LedgerInv, LedgerType
<1> HIDE DEF it
<1>3. req'[q] = it /\ \A x \in Request \ {q} : req'[x] = req[x]
  BY <1>2
<1>4. LedgerType'
  BY <1>1, <1>2, <1>3 DEF LedgerInv, LedgerType, At, openVars
<1>5. Waiting
  BY <1>1, <1>2, <1>3 DEF Waiting, Fresh, Numbered, At, openVars
<1> QED BY <1>1, <1>2, <1>3, <1>4, <1>5 DEF PointStep, At

LEMMA BeginApplyHolds ==
  ASSUME PointsInv, PoolsType, NEW q \in Request, BeginApply(q)
  PROVE  /\ LedgerType' /\ PointStep
         /\ \A x \in Request \ {q} : req'[x] = req[x]
         /\ \/ req'[q].pc = "failed" /\ openVars' = openVars
            \/ /\ req'[q].pc = "open" /\ req'[q].amount = -Cost(q) /\ WithinLimit(q)
               /\ Begins(req[q].wallet)
         /\ req'[q].wallet = req[q].wallet /\ req'[q].source = "raffle"
<1> USE DEF PointsInv
<1>1. /\ req \in [Request -> ItType] /\ At(q, "checked") /\ req[q].wallet \in Wallet
      /\ UNCHANGED <<day, logs, receiptVars, dailyClaims>>
      /\ clock \in Nat /\ day \in Day /\ req[q].source = "raffle"
  BY DEF BeginApply, LedgerInv, LedgerType, At
<1>2. req[q].receipts = {}
  BY <1>1 DEF ClaimsInv, At
<1>3. CASE /\ Begins(req[q].wallet) /\ WithinLimit(q)
           /\ req' = [req EXCEPT ![q] = [@ EXCEPT !.pc = "open", !.amount = -Cost(q),
                                                  !.at = clock, !.day = day]]
  <2>1. PICK c \in Int : c = -Cost(q)
    BY <1>1, CostIsNumber DEF Raffles
  <2> DEFINE it == [req[q] EXCEPT !.pc = "open", !.amount = c, !.at = clock, !.day = day]
  <2>2. /\ it \in ItType /\ it.pc = "open" /\ it.at = clock /\ it.amount = c
        /\ it.wallet = req[q].wallet /\ it.receipts = req[q].receipts /\ it.source = req[q].source
    BY <1>1, <2>1 DEF ItType
  <2>3. req' = [req EXCEPT ![q] = it]
    BY <1>3, <2>1
  <2> HIDE DEF it
  <2>4. req'[q] = it /\ \A x \in Request \ {q} : req'[x] = req[x]
    BY <1>1, <2>3
  <2>5. LedgerType'
    BY <1>1, <1>3, <2>2, <2>3, <2>4 DEF LedgerInv, LedgerType, Begins, At
  <2>6. Beginning(q)
    BY <1>1, <1>2, <1>3, <2>2, <2>4 DEF Beginning, Opens, Fresh, Others, Numbered, Active, At
  <2> QED BY <1>1, <1>3, <2>1, <2>2, <2>4, <2>5, <2>6 DEF PointStep
<1>4. CASE Refused(q) /\ UNCHANGED openVars
  <2> DEFINE it == [req[q] EXCEPT !.pc = "failed"]
  <2>1. /\ it \in ItType /\ it.pc = "failed"
        /\ it.wallet = req[q].wallet /\ it.receipts = req[q].receipts /\ it.source = req[q].source
    BY <1>1 DEF ItType
  <2>2. req' = [req EXCEPT ![q] = it]
    BY <1>4 DEF Refused
  <2> HIDE DEF it
  <2>3. req'[q] = it /\ \A x \in Request \ {q} : req'[x] = req[x]
    BY <1>1, <2>2
  <2>4. LedgerType'
    BY <1>1, <1>4, <2>1, <2>2, <2>3 DEF LedgerInv, LedgerType, openVars, At
  <2>5. Waiting
    BY <1>1, <1>2, <1>4, <2>1, <2>3 DEF Waiting, Fresh, Numbered, At, openVars
  <2> QED BY <1>1, <1>4, <2>1, <2>3, <2>4, <2>5 DEF PointStep
<1> QED BY <1>3, <1>4 DEF BeginApply

LEMMA SettleEntryHolds ==
  ASSUME PointsInv, NEW q \in Request, SettleEntry(q)
  PROVE  LedgerType' /\ PointStep
<1>1. Commits(q, req[q].amount) /\ UNCHANGED <<day, worth, owner>> /\ Marks(q) /\ Dates(q)
  BY DEF SettleEntry, Marks, Dates, receiptVars
<1> QED BY <1>1, CommitHolds

(* The roll-overs and the payout service leave the points alone. *)
RollStep ==
    \/ Fire \/ RunOnDemand
    \/ \E r \in Runner : Roll(r)
    \/ \E link \in links : raffleReceived(link)
    \/ NextDay \/ UNCHANGED vars

LEMMA RollLeavesThePoints ==
  ASSUME RollStep
  PROVE  UNCHANGED <<logs, receiptVars, dailyClaims, req, openVars, entries, entry>>
<1>1. UNCHANGED pointVars \/ Midnight
  BY DEF RollStep, Fire, RunOnDemand, Start, Roll, Draw, Mint, Record, Create, Crash,
         raffleReceived, NextDay, vars
<1>2. UNCHANGED <<entries, entry>>
  BY DEF RollStep, Fire, RunOnDemand, Start, Roll, Draw, Mint, Record, Create, Crash,
         raffleReceived, NextDay, vars, raffleVars
<1> QED BY <1>1, <1>2 DEF pointVars, Midnight

LEMMA RafflePointStep ==
  ASSUME PointsInv, PoolsType, [RaffleNext]_vars
  PROVE  PointsInv'
<1>1. CASE RollStep
  <2>1. UNCHANGED pointVars \/ Midnight
    BY <1>1 DEF RollStep, Fire, RunOnDemand, Start, Roll, Draw, Mint, Record, Create, Crash,
           raffleReceived, NextDay, vars
  <2>2. day' \in Day
    BY <2>1, AwardAssumption DEF PointsInv, LedgerInv, LedgerType, pointVars, Midnight, Day
  <2>3. UNCHANGED <<logs, receiptVars, dailyClaims, req, openVars>>
    BY <1>1, RollLeavesThePoints
  <2> QED BY <2>2, <2>3, Stands, PointStepHolds
<1>2. CASE \E q \in Request, a \in Wallet : \E p \in DOMAIN pools, n \in Count : apply(q, a, p, n)
  BY <1>2, ApplyWaits, PointStepHolds
<1>3. CASE \E q \in Request, a \in Wallet : AskLedger(q, a)
  BY <1>3, AskedHolds, PointStepHolds DEF Ask
<1>4. CASE \E q \in Request : BeginApply(q)
  BY <1>4, BeginApplyHolds, PointStepHolds
<1>5. CASE \E q \in Request : SettleEntry(q)
  BY <1>5, SettleEntryHolds, PointStepHolds
<1>6. CASE \E q \in Request : Serve(q)
  BY <1>6, ServedHolds, PointStepHolds
<1> QED BY <1>1, <1>2, <1>3, <1>4, <1>5, <1>6 DEF RaffleNext, RollStep

\* What a step asks of the ledger, apart from the entries.
Justified(q) == req[q].source = "airdrop" \/ Covers(req[q].base, req[q].amount)

DailyInv == \A q \in Request : req[q].source = "daily-claim" => req[q].amount >= 0

LEMMA AskLedgerMoves ==
  ASSUME PointsInv, NEW q \in Request, NEW a \in Wallet, AskLedger(q, a)
  PROVE  /\ Others(q) /\ At(q, "new") /\ ~Raffles(q)' /\ logs' = logs /\ quiet' \subseteq quiet
         /\ day' = day
         /\ req'[q].source = "daily-claim" => req'[q].amount >= 0
<1>1. req \in [Request -> ItType] /\ NewRequest \in ItType /\ \A m \in Award : m >= 0
  <2>1. Award \subseteq Nat
    BY AwardAssumption
  <2>2. \A m \in Award : m >= 0
    BY <2>1
  <2>3. NewRequest \in ItType
    BY AwardAssumption DEF NewRequest, ItType, Source, Day
  <2> QED BY <2>2, <2>3 DEF PointsInv, LedgerInv, LedgerType
<1>2. CASE claimPoint(q, a)
  <2>1. PICK ids, sum : /\ sum = SumFunctionOnSet(worth, ids)
                        /\ BeginClaim(q, a, ids)
    BY <1>2 DEF claimPoint
  <2>2. /\ req' = [req EXCEPT ![q] = [NewRequest EXCEPT
                       !.pc = "open", !.source = "receipt-upload", !.wallet = a, !.receipts = ids,
                       !.amount = sum, !.at = clock, !.day = day]]
        /\ At(q, "new") /\ logs' = logs /\ day' = day /\ quiet' \subseteq quiet
    BY <2>1 DEF BeginClaim, Begins
  <2>3. req'[q].source = "receipt-upload" /\ Others(q)
    BY <1>1, <2>2 DEF ItType, Others
  <2> QED BY <2>2, <2>3 DEF Raffles
<1>3. CASE \/ \E amount \in Award : claimDailyPoint(q, a, amount)
           \/ \E amount \in Grant : \/ insertManualPoint(q, a, amount)
                                    \/ \E skipped \in BOOLEAN : insertPointToAll(q, a, amount, skipped)
  <2>1. PICK amount \in Award \cup Grant, pc \in {"checked", "failed"},
             source \in {"daily-claim", "manual", "airdrop"} :
            /\ At(q, "new") /\ (source = "daily-claim" => amount >= 0)
            /\ req' = [req EXCEPT ![q] = [NewRequest EXCEPT
                          !.pc = pc, !.source = source, !.wallet = a, !.amount = amount, !.date = day]]
            /\ UNCHANGED <<day, logs, receiptVars, dailyClaims, openVars>>
    BY <1>1, <1>3 DEF claimDailyPoint, insertManualPoint, insertPointToAll, Check
  <2>2. req'[q].source = source /\ req'[q].amount = amount /\ Others(q)
    BY <1>1, <2>1 DEF ItType, Others
  <2> QED BY <2>1, <2>2 DEF Raffles, openVars
<1> QED BY <1>2, <1>3 DEF AskLedger

LEMMA ServeMoves ==
  ASSUME PointsInv, DailyInv, NEW q \in Request, Serve(q)
  PROVE  /\ Others(q) /\ req'[q].source = req[q].source /\ req'[q].wallet = req[q].wallet
         /\ req'[q].amount = req[q].amount
         /\ ~At(q, "done") /\ day' = day
         /\ Raffles(q) /\ Active(q)' => Active(q)
         /\ \/ logs' = logs /\ quiet' \subseteq quiet
            \/ /\ At(q, "based") /\ ~Raffles(q) /\ logs' = logs \cup {Row(req[q], req[q].amount)}
               /\ quiet' = quiet /\ Justified(q)
<1>1. req \in [Request -> ItType] /\ req[q] \in ItType
  BY DEF PointsInv, LedgerInv, LedgerType
<1>2. CASE ReadNewest(q)
  <2>1. PICK b, e : req' = [req EXCEPT ![q] = [@ EXCEPT !.pc = "based", !.base = b, !.earned = e]]
    BY <1>2 DEF ReadNewest
  <2>2. /\ At(q, "open") /\ Others(q) /\ req'[q].source = req[q].source
        /\ req'[q].wallet = req[q].wallet /\ req'[q].amount = req[q].amount
    BY <1>1, <1>2, <2>1 DEF ReadNewest, Others, ItType
  <2> QED BY <1>2, <2>2 DEF ReadNewest, At, Active, openVars
<1>3. CASE BeginAtNewest(q)
  <2>1. PICK b, e : req' = [req EXCEPT ![q] = [@ EXCEPT !.pc = "based", !.base = b, !.earned = e,
                                                        !.at = clock, !.day = day]]
    BY <1>3 DEF BeginAtNewest
  <2>2. /\ At(q, "checked") /\ ~Raffles(q) /\ Others(q) /\ req'[q].source = req[q].source
        /\ req'[q].wallet = req[q].wallet /\ req'[q].amount = req[q].amount
    BY <1>1, <1>3, <2>1 DEF BeginAtNewest, Others, ItType, Raffles
  <2>3. quiet' \subseteq quiet
    BY <1>3 DEF BeginAtNewest, Begins
  <2> QED BY <1>3, <2>2, <2>3 DEF BeginAtNewest, At
<1>4. CASE Rollback(q)
  <2>1. /\ req' = [req EXCEPT ![q].pc = "failed"] /\ Active(q) /\ logs' = logs /\ day' = day
        /\ quiet' = quiet
    BY <1>4 DEF Rollback, Refused, Ends, Active, At
  <2>2. /\ Others(q) /\ req'[q].source = req[q].source
        /\ req'[q].wallet = req[q].wallet /\ req'[q].amount = req[q].amount
    BY <1>1, <2>1 DEF Others, ItType
  <2> QED BY <2>1, <2>2 DEF Active, At
<1>5. ASSUME Commits(q, req[q].amount), day' = day, ~Raffles(q), Justified(q)
      PROVE  /\ Others(q) /\ req'[q].source = req[q].source /\ req'[q].wallet = req[q].wallet
             /\ req'[q].amount = req[q].amount
             /\ At(q, "based") /\ ~At(q, "done") /\ day' = day /\ ~Raffles(q) /\ Justified(q)
             /\ logs' = logs \cup {Row(req[q], req[q].amount)} /\ quiet' = quiet
  <2>1. req' = [req EXCEPT ![q].pc = "done"]
    BY <1>5 DEF Commits
  <2>2. /\ Others(q) /\ req'[q].source = req[q].source
        /\ req'[q].wallet = req[q].wallet /\ req'[q].amount = req[q].amount
    BY <1>1, <2>1 DEF Others, ItType
  <2> QED BY <1>5, <2>2 DEF Commits, Ends, At
<1>6. CASE SettleClaim(q)
  <2>1. req[q].amount >= 0
    <3>1. PICK ids, f : ids = req[q].receipts /\ f = worth
      OBVIOUS
    <3>2. /\ ids \in SUBSET Receipt /\ IsFiniteSet(ids) /\ f \in [Receipt -> Worth]
          /\ req[q].amount = SumFunctionOnSet(f, ids)
      BY <1>1, <1>6, <3>1, LedgerAssumption, FS_Subset DEF PointsInv, ClaimsInv, SettleClaim, ItType
    <3>3. \A r \in ids : f[r] \in Int /\ f[r] >= 0
      <4>1. \A n \in Worth : n \in Int /\ n >= 0
        BY AwardAssumption
      <4> QED BY <3>2, <4>1
    <3> DEFINE z == [r \in ids |-> 0]
    <3>4. \A r \in ids : z[r] = 0 /\ z[r] \in Int /\ z[r] <= f[r]
      BY <3>3
    <3> HIDE DEF z
    <3>5. SumFunctionOnSet(z, ids) = 0
      BY <3>2, <3>4, SumOfZeros
    <3>6. SumFunctionOnSet(z, ids) <= SumFunctionOnSet(f, ids)
      BY <3>2, <3>3, <3>4, SumBelow
    <3> QED BY <3>2, <3>5, <3>6
  <2>2. Justified(q)
    <3>1. req[q].amount \in Int
      BY <1>1 DEF ItType
    <3> QED BY <2>1, <3>1 DEF Justified, Covers
  <2> QED BY <1>5, <1>6, <2>2 DEF SettleClaim, Raffles
<1>7. CASE SettleDaily(q)
  <2>1. req[q].amount >= 0 /\ req[q].amount \in Int
    BY <1>1, <1>7 DEF DailyInv, SettleDaily, ItType
  <2>2. Justified(q)
    BY <2>1 DEF Justified, Covers
  <2> QED BY <1>5, <1>7, <2>2 DEF SettleDaily, Raffles
<1>8. CASE SettleGrant(q)
  BY <1>5, <1>8 DEF SettleGrant, Raffles, Justified
<1> QED BY <1>2, <1>3, <1>4, <1>6, <1>7, <1>8 DEF Serve

-----------------------------------------------------------------------------
(* What a step may do to the pools.                                        *)

LEMMA OnePool ==
  ASSUME NEW s \in Seq(PoolRow), NEW p \in DOMAIN s, NEW row \in PoolRow,
         NEW t, t = [s EXCEPT ![p] = row]
  PROVE  /\ t \in Seq(PoolRow) /\ DOMAIN t = DOMAIN s /\ t[p] = row
         /\ \A x \in DOMAIN s : x # p => t[x] = s[x]
BY LenProperties, ExceptSeq

LEMMA MorePools ==
  ASSUME NEW s \in Seq(PoolRow), NEW d \in Day
  PROVE  /\ s \o NewPools(d) \in Seq(PoolRow) /\ DOMAIN s \subseteq DOMAIN (s \o NewPools(d))
         /\ \A p \in DOMAIN s : (s \o NewPools(d))[p] = s[p]
         /\ \A p \in DOMAIN (s \o NewPools(d)) \ DOMAIN s :
               LET pool == (s \o NewPools(d))[p] IN
                  /\ pool.date = d /\ pool.total = 0 /\ pool.winner = NoOne
                  /\ pool.max \in Nat \cup {UNLIMITED_ENTRIES}
<1> DEFINE tier == [price: Nat \ {0}, max: (Nat \ {0}) \cup {UNLIMITED_ENTRIES}]
<1>1. Tiers \in Seq(tier)
  BY TierAssumption
<1>2. PICK n \in Nat : n = Len(Tiers) /\ \A i \in 1..n : Tiers[i] \in tier
  <2> HIDE DEF tier
  <2>1. Len(Tiers) \in Nat /\ \A i \in 1..Len(Tiers) : Tiers[i] \in tier
    BY <1>1, LenProperties, ElementOfSeq
  <2> QED BY <2>1
<1>3. PICK new : new = NewPools(d)
  OBVIOUS
<1>4. \A i \in 1..n : /\ new[i] \in PoolRow /\ new[i].date = d /\ new[i].total = 0
                      /\ new[i].winner = NoOne
                      /\ new[i].max \in Nat \cup {UNLIMITED_ENTRIES}
  <2>1. \A i \in 1..n : /\ new[i] = NewPool(Tiers[i], d) /\ Tiers[i].price \in Nat \ {0}
                        /\ Tiers[i].max \in Nat \cup {UNLIMITED_ENTRIES}
    BY <1>2, <1>3 DEF NewPools
  <2> SUFFICES ASSUME NEW i \in 1..n
               PROVE  /\ new[i] \in PoolRow /\ new[i].date = d /\ new[i].total = 0
                      /\ new[i].winner = NoOne /\ new[i].max \in Nat \cup {UNLIMITED_ENTRIES}
    OBVIOUS
  <2>2. PICK c \in Nat \ {0}, m \in Nat \cup {UNLIMITED_ENTRIES} :
            c = Tiers[i].price /\ m = Tiers[i].max
    BY <2>1
  <2>3. new[i] = [price |-> c, max |-> m, date |-> d, total |-> 0, winner |-> NoOne,
                  link |-> NoLink, claimed |-> FALSE]
    BY <2>1, <2>2 DEF NewPool
  <2>4. m \in Int
    BY DEF UNLIMITED_ENTRIES
  <2> QED BY <2>3, <2>4 DEF PoolRow
<1>5. new \in Seq(PoolRow) /\ Len(new) = n
  <2>1. new \in [1..n -> PoolRow]
    BY <1>2, <1>3, <1>4 DEF NewPools
  <2> QED BY <2>1
<1>6. PICK t : t = s \o new
  OBVIOUS
<1>m. PICK m \in Nat : m = Len(s)
  BY LenProperties
<1>7. /\ t \in Seq(PoolRow) /\ Len(t) = m + n
      /\ \A i \in 1..(m + n) : t[i] = IF i <= m THEN s[i] ELSE new[i - m]
  BY <1>5, <1>6, <1>m, ConcatProperties
<1>8. DOMAIN s = 1..m /\ DOMAIN t = 1..(m + n)
  BY <1>m, <1>7, LenProperties
<1>9. DOMAIN s \subseteq DOMAIN t /\ \A p \in DOMAIN s : t[p] = s[p]
  BY <1>7, <1>8
<1>10. \A p \in DOMAIN t \ DOMAIN s : p - m \in 1..n /\ t[p] = new[p - m]
  BY <1>7, <1>8
<1> QED BY <1>3, <1>4, <1>6, <1>7, <1>9, <1>10

PoolsGrow ==
    /\ DOMAIN pools \subseteq DOMAIN pools'
    /\ \A p \in DOMAIN pools : /\ pools'[p].price = pools[p].price /\ pools'[p].max = pools[p].max
                               /\ pools'[p].date = pools[p].date

\* No entry is counted, and a new pool has none.
NothingCounted ==
    /\ \A p \in DOMAIN pools : pools'[p].total = pools[p].total
    /\ \A p \in DOMAIN pools' \ DOMAIN pools : pools'[p].total = 0

PoolsAreTyped ==
    pools \in Seq(PoolRow) /\ \A p \in DOMAIN pools : pools[p].max \in Nat \cup {UNLIMITED_ENTRIES}

LEMMA EntrantsAreWallets ==
  ASSUME PoolsType, NEW p, NEW w \in Entrants(p)
  PROVE  w \in Wallet /\ w # NoOne
BY LedgerAssumption DEF PoolsType, Entrants, EntriesOf

LEMMA RecordIs ==
  ASSUME PoolsType, HeldInv, NEW r \in Runner, Record(r)
  PROVE  /\ PoolsAreTyped' /\ PoolsGrow /\ NothingCounted /\ DOMAIN pools' = DOMAIN pools
         /\ run[r].pool \in DOMAIN pools /\ run[r].winner \in Entrants(run[r].pool)
         /\ pools'[run[r].pool].winner = run[r].winner /\ pools'[run[r].pool].link = run[r].link
         /\ \A p \in DOMAIN pools : p # run[r].pool => pools'[p] = pools[p]
<1>1. PICK p, w, k : p = run[r].pool /\ w = run[r].winner /\ k = run[r].link
  OBVIOUS
<1>2. p \in DOMAIN pools /\ w \in Entrants(p) /\ w \in Wallet
  BY <1>1, EntrantsAreWallets DEF Record, Reaches, HeldInv
<1>3. k \in {NoLink} \cup [pool: Nat, receiver: Wallet] /\ pools[p] \in PoolRow
  BY <1>1, <1>2, PoolIs DEF PoolsType, RunType
<1> DEFINE row == [pools[p] EXCEPT !.winner = w, !.link = k]
<1>4. /\ row \in PoolRow /\ row.winner = w /\ row.link = k /\ row.price = pools[p].price
      /\ row.max = pools[p].max /\ row.date = pools[p].date /\ row.total = pools[p].total
  BY <1>2, <1>3 DEF PoolRow
<1>5. pools' = [pools EXCEPT ![p] = row] /\ pools \in Seq(PoolRow)
  BY <1>1 DEF Record, PoolsType
<1> HIDE DEF row
<1>6. /\ pools' \in Seq(PoolRow) /\ DOMAIN pools' = DOMAIN pools /\ pools'[p] = row
      /\ \A x \in DOMAIN pools : x # p => pools'[x] = pools[x]
  BY <1>2, <1>4, <1>5, OnePool
<1>7. \A x \in DOMAIN pools : /\ pools'[x].price = pools[x].price /\ pools'[x].max = pools[x].max
                              /\ pools'[x].date = pools[x].date /\ pools'[x].total = pools[x].total
  BY <1>4, <1>6
<1> QED BY <1>1, <1>2, <1>4, <1>6, <1>7 DEF PoolsAreTyped, PoolsGrow, NothingCounted, PoolsType

LEMMA ReceivedIs ==
  ASSUME PoolsType, NEW link, raffleReceived(link)
  PROVE  /\ PoolsAreTyped' /\ PoolsGrow /\ NothingCounted /\ DOMAIN pools' = DOMAIN pools
         /\ \A p \in DOMAIN pools : pools'[p].winner = pools[p].winner
<1>1. PICK p \in DOMAIN pools : pools' = [pools EXCEPT ![p].claimed = TRUE]
  BY DEF raffleReceived
<1>2. pools \in Seq(PoolRow) /\ pools[p] \in PoolRow
  BY PoolIs DEF PoolsType
<1> DEFINE row == [pools[p] EXCEPT !.claimed = TRUE]
<1>3. /\ row \in PoolRow /\ row.winner = pools[p].winner /\ row.price = pools[p].price
      /\ row.max = pools[p].max /\ row.date = pools[p].date /\ row.total = pools[p].total
  BY <1>2 DEF PoolRow
<1>4. pools' = [pools EXCEPT ![p] = row]
  BY <1>1
<1> HIDE DEF row
<1>5. /\ pools' \in Seq(PoolRow) /\ DOMAIN pools' = DOMAIN pools /\ pools'[p] = row
      /\ \A x \in DOMAIN pools : x # p => pools'[x] = pools[x]
  BY <1>2, <1>3, <1>4, OnePool
<1>6. \A x \in DOMAIN pools : /\ pools'[x].price = pools[x].price /\ pools'[x].max = pools[x].max
                              /\ pools'[x].date = pools[x].date /\ pools'[x].total = pools[x].total
                              /\ pools'[x].winner = pools[x].winner
  BY <1>3, <1>5
<1> QED BY <1>5, <1>6 DEF PoolsAreTyped, PoolsGrow, NothingCounted, PoolsType

LEMMA CreateIs ==
  ASSUME PoolsType, day \in Day, NEW r \in Runner, Create(r)
  PROVE  /\ PoolsAreTyped' /\ PoolsGrow /\ NothingCounted
         /\ \A p \in DOMAIN pools : pools'[p] = pools[p]
         /\ \A p \in DOMAIN pools' \ DOMAIN pools :
               pools'[p].date = day /\ pools'[p].winner = NoOne
<1>1. pools \in Seq(PoolRow) /\ \A p \in DOMAIN pools : pools[p].max \in Nat \cup {UNLIMITED_ENTRIES}
  BY DEF PoolsType
<1>2. CASE pools' = pools
  BY <1>1, <1>2 DEF PoolsAreTyped, PoolsGrow, NothingCounted
<1>3. CASE pools' = pools \o NewPools(day)
  <2>1. PICK s, t, d : s = pools /\ t = pools' /\ d = day /\ d \in Day
    OBVIOUS
  <2>2. s \in Seq(PoolRow) /\ t = s \o NewPools(d)
    BY <1>1, <1>3, <2>1
  <2>3. /\ t \in Seq(PoolRow) /\ DOMAIN s \subseteq DOMAIN t
        /\ \A p \in DOMAIN s : t[p] = s[p]
        /\ \A p \in DOMAIN t \ DOMAIN s :
              /\ t[p].date = d /\ t[p].total = 0 /\ t[p].winner = NoOne
              /\ t[p].max \in Nat \cup {UNLIMITED_ENTRIES}
    BY <2>1, <2>2, MorePools
  <2> QED BY <1>1, <2>1, <2>3 DEF PoolsAreTyped, PoolsGrow, NothingCounted
<1> QED BY <1>2, <1>3 DEF Create

LEMMA PoolsStand ==
  ASSUME PoolsType, pools' = pools
  PROVE  PoolsAreTyped' /\ PoolsGrow /\ NothingCounted
BY DEF PoolsType, PoolsAreTyped, PoolsGrow, NothingCounted

LEMMA RollOfPools ==
  ASSUME PoolsType, HeldInv, day \in Day, RollStep
  PROVE  PoolsAreTyped' /\ PoolsGrow /\ NothingCounted
<1>1. CASE \E r \in Runner : Record(r)
  BY <1>1, RecordIs
<1>2. CASE \E r \in Runner : Create(r)
  BY <1>2, CreateIs
<1>3. CASE \E link \in links : raffleReceived(link)
  BY <1>3, ReceivedIs
<1>4. CASE \/ Fire \/ RunOnDemand \/ NextDay \/ UNCHANGED vars
           \/ \E r \in Runner : Draw(r) \/ Mint(r) \/ Crash(r)
  <2>1. pools' = pools
    BY <1>4 DEF Fire, RunOnDemand, Start, Draw, Mint, Crash, NextDay, vars, raffleVars
  <2> QED BY <2>1, PoolsStand
<1> QED BY <1>1, <1>2, <1>3, <1>4 DEF RollStep, Roll

LEMMA CountedIs ==
  ASSUME PoolsType, NEW q \in Request, Raffles(q), pools' = Counted(q)
  PROVE  /\ PoolsAreTyped' /\ PoolsGrow /\ DOMAIN pools' = DOMAIN pools
         /\ \A p \in DOMAIN pools : pools'[p].winner = pools[p].winner
         /\ pools'[entry[q].pool].total = pools[entry[q].pool].total + entry[q].count
         /\ \A p \in DOMAIN pools : p # entry[q].pool => pools'[p].total = pools[p].total
<1>1. PICK p \in DOMAIN pools, n \in Nat \ {0} : p = entry[q].pool /\ n = entry[q].count
  BY DEF PoolsType
<1>2. /\ pools \in Seq(PoolRow) /\ pools[p] \in PoolRow /\ pools[p].total \in Nat
      /\ pools' = [pools EXCEPT ![p].total = @ + n]
  BY <1>1, PoolIs DEF PoolsType, Counted
<1>t. PICK sum \in Nat : sum = pools[p].total + n
  BY <1>2
<1> DEFINE row == [pools[p] EXCEPT !.total = sum]
<1>3. /\ row \in PoolRow /\ row.winner = pools[p].winner /\ row.price = pools[p].price
      /\ row.max = pools[p].max /\ row.date = pools[p].date /\ row.total = sum
  BY <1>2 DEF PoolRow
<1>4. pools' = [pools EXCEPT ![p] = row]
  BY <1>2, <1>t
<1> HIDE DEF row
<1>5. /\ pools' \in Seq(PoolRow) /\ DOMAIN pools' = DOMAIN pools /\ pools'[p] = row
      /\ \A x \in DOMAIN pools : x # p => pools'[x] = pools[x]
  BY <1>2, <1>3, <1>4, OnePool
<1>6. \A x \in DOMAIN pools : /\ pools'[x].price = pools[x].price /\ pools'[x].max = pools[x].max
                              /\ pools'[x].date = pools[x].date /\ pools'[x].winner = pools[x].winner
  BY <1>3, <1>5
<1> QED BY <1>1, <1>3, <1>5, <1>6, <1>t DEF PoolsAreTyped, PoolsGrow, PoolsType

LEMMA TicketsAreNumbers ==
  ASSUME PoolsType, NEW p, NEW a
  PROVE  /\ IsFiniteSet(EntriesOf(p)) /\ IsFiniteSet(TicketsOf(p, a))
         /\ Tickets(p, a) \in Nat
         /\ a \in Entrants(p) => Tickets(p, a) > 0
<1>1. IsFiniteSet(entries) /\ EntriesOf(p) \subseteq entries /\ TicketsOf(p, a) \subseteq entries
  BY DEF PoolsType, EntriesOf, TicketsOf
<1>2. PICK T, g : T = TicketsOf(p, a) /\ g = [e \in T |-> e.count]
  OBVIOUS
<1>3. IsFiniteSet(EntriesOf(p)) /\ IsFiniteSet(T)
  BY <1>1, <1>2, FS_Subset
<1>4. g \in [T -> Int] /\ \A e \in T : g[e] >= 1
  BY <1>1, <1>2 DEF PoolsType
<1>5. SumFunction(g) \in Int /\ SumFunction(g) >= 0
  BY <1>3, <1>4, NoTermsBelowZero
<1>6. ASSUME NEW e \in T PROVE SumFunction(g) > 0
  <2>1. PICK r, f : r = T \ {e} /\ f = [x \in r |-> g[x]]
    OBVIOUS
  <2>2. IsFiniteSet(r) /\ f \in [r -> Int] /\ \A x \in r : f[x] >= 0 /\ f[x] = g[x]
    BY <1>3, <1>4, <2>1, FS_Subset
  <2>3. SumFunction(f) \in Int /\ SumFunction(f) >= 0
    BY <2>2, NoTermsBelowZero
  <2>4. \A x \in T : \A h \in [T \ {x} -> Int] :
            (\A y \in T \ {x} : h[y] = g[y]) => SumFunction(g) = SumFunction(h) + g[x]
    BY <1>3, <1>4, SumLess
  <2>5. SumFunction(g) = SumFunction(f) + g[e] /\ g[e] >= 1 /\ g[e] \in Int
    BY <1>4, <1>6, <2>1, <2>2, <2>4
  <2> QED BY <2>3, <2>5
<1>7. Tickets(p, a) = SumFunction(g)
  BY <1>2 DEF Tickets
<1>8. a \in Entrants(p) => T # {}
  BY <1>2 DEF Entrants, TicketsOf
<1> QED BY <1>2, <1>3, <1>5, <1>6, <1>7, <1>8

LEMMA HeldIsCounted ==
  ASSUME PoolsType, NEW p
  PROVE  /\ IsFiniteSet(Entrants(p))
         /\ \A a \in Entrants(p) : a \in DOMAIN HeldIn(p) /\ HeldIn(p)[a] \in Nat
                                   /\ HeldIn(p)[a] = Tickets(p, a)
<1>1. Entrants(p) \subseteq Wallet
  BY EntrantsAreWallets
<1>2. \A a \in Wallet : Tickets(p, a) \in Nat
  BY TicketsAreNumbers
<1> QED BY <1>1, <1>2, LedgerAssumption, FS_Subset DEF HeldIn

\* Who is drawn holds a ticket.
LEMMA DrawnIsEntrant ==
  ASSUME NEW S, IsFiniteSet(S), NEW held, \A a \in S : a \in DOMAIN held /\ held[a] \in Nat,
         NEW order \in SetToSeqs(S), NEW w \in Range(Draws(order, held))
  PROVE  w \in S
<1>1. PICK n \in Nat : n = Cardinality(S)
  BY FS_CardinalityType
<1>2. order \in [1..n -> S]
  BY <1>1 DEF SetToSeqs
<1>3. Len(order) = n
  BY <1>2
<1>4. IsCount(n, order, held)
  BY <1>2 DEF IsCount
<1>5. PICK t \in 1..upTo(n, order, held) : w = WonBy(t, order, held)
  BY <1>3 DEF Range, Draws, TicketNumbers
<1> DEFINE R == {i \in 1..n : t <= upTo(i, order, held)}
<1>6. WonBy(t, order, held) = order[Min(R)]
  BY <1>3 DEF WonBy
<1>7. n \in R /\ R \in SUBSET Nat /\ R \in SUBSET Int
  <2>1. upTo(0, order, held) = 0 /\ upTo(n, order, held) \in Nat
    BY <1>4, CountedOff
  <2>2. n # 0
    BY <1>5, <2>1
  <2> QED BY <2>1, <2>2
<1>8. R \subseteq 1..n
  OBVIOUS
<1> HIDE DEF R
<1>9. PICK m \in R : \A j \in R : m <= j
  BY <1>7, Least
<1>10. Min(R) = m
  BY <1>7, <1>9, LeastIs
<1> QED BY <1>2, <1>5, <1>6, <1>8, <1>9, <1>10

Keeps(r) == \A x \in Runner \ {r} : run'[x] = run[x]

LEMMA HoldIs ==
  ASSUME run \in [Runner -> RunType], NEW r \in Runner, NEW state \in RunType, Hold(r, state)
  PROVE  run' \in [Runner -> RunType] /\ run'[r] = state /\ Keeps(r)
BY DEF Hold, Keeps

LEMMA IdleIs == Idle \in RunType /\ Idle.pc = "idle"
BY DEF Idle, RunType, NoLink

LEMMA StartIs ==
  ASSUME PoolsType, NEW r \in Runner, NEW task \in {"both", "close", "create"}, Start(r, task)
  PROVE  /\ run' \in [Runner -> RunType] /\ Keeps(r) /\ run[r].pc = "idle"
         /\ run'[r].pc = "rolling" /\ run'[r].task = task
         /\ run'[r].todo = IF task = "create" THEN {} ELSE Undrawn
<1>1. PICK todo : todo = IF task = "create" THEN {} ELSE Undrawn
  OBVIOUS
<1>2. todo \in SUBSET Nat
  <2>1. DOMAIN pools \subseteq Nat
    BY PoolIs DEF PoolsType
  <2> QED BY <1>1, <2>1 DEF Undrawn
<1> DEFINE state == [Idle EXCEPT !.pc = "rolling", !.task = task, !.todo = todo]
<1>3. state \in RunType /\ state.pc = "rolling" /\ state.task = task /\ state.todo = todo
  BY <1>2, IdleIs DEF RunType
<1>4. Hold(r, state) /\ run[r].pc = "idle"
  BY <1>1 DEF Start, Reaches
<1> HIDE DEF state
<1>5. run' \in [Runner -> RunType] /\ run'[r] = state /\ Keeps(r)
  BY <1>3, <1>4, HoldIs DEF PoolsType
<1> QED BY <1>1, <1>3, <1>4, <1>5

LEMMA DrawIs ==
  ASSUME PoolsType, NEW r \in Runner, Draw(r)
  PROVE  /\ run' \in [Runner -> RunType] /\ Keeps(r) /\ run[r].pc = "rolling"
         /\ run'[r].task = run[r].task
         /\ \E p \in run[r].todo :
               /\ run'[r].todo = run[r].todo \ {p}
               /\ \/ run'[r].pc = "rolling" /\ passedOver' = passedOver \cup {p}
                  \/ /\ run'[r].pc = "drawn" /\ run'[r].pool = p /\ p \in DOMAIN pools
                     /\ run'[r].winner \in Entrants(p) /\ passedOver' = passedOver
<1>1. run[r] \in RunType /\ run[r].pc = "rolling" /\ run \in [Runner -> RunType]
  BY DEF PoolsType, Draw, Reaches
<1>2. PICK p \in run[r].todo :
         IF EntriesOf(p) = {}
         THEN /\ Hold(r, [run[r] EXCEPT !.todo = @ \ {p}])
              /\ passedOver' = passedOver \cup {p}
         ELSE /\ \E order \in SetToSeqs(Entrants(p)) : \E w \in Range(Draws(order, HeldIn(p))) :
                    Hold(r, [run[r] EXCEPT !.pc = "drawn", !.todo = @ \ {p}, !.pool = p, !.winner = w])
              /\ UNCHANGED passedOver
  BY DEF Draw
<1>3. CASE EntriesOf(p) = {}
  <2> DEFINE state == [run[r] EXCEPT !.todo = @ \ {p}]
  <2>1. /\ state \in RunType /\ state.pc = "rolling" /\ state.task = run[r].task
        /\ state.todo = run[r].todo \ {p}
    BY <1>1 DEF RunType
  <2>2. Hold(r, state) /\ passedOver' = passedOver \cup {p}
    BY <1>2, <1>3
  <2> HIDE DEF state
  <2>3. run' \in [Runner -> RunType] /\ run'[r] = state /\ Keeps(r)
    BY <1>1, <2>1, <2>2, HoldIs
  <2> QED BY <1>1, <2>1, <2>2, <2>3
<1>4. CASE EntriesOf(p) # {}
  <2>1. PICK order \in SetToSeqs(Entrants(p)) : \E w \in Range(Draws(order, HeldIn(p))) :
                    Hold(r, [run[r] EXCEPT !.pc = "drawn", !.todo = @ \ {p}, !.pool = p, !.winner = w])
    BY <1>2, <1>4
  <2>2. PICK w \in Range(Draws(order, HeldIn(p))) :
                    Hold(r, [run[r] EXCEPT !.pc = "drawn", !.todo = @ \ {p}, !.pool = p, !.winner = w])
    BY <2>1
  <2>3. w \in Entrants(p)
    <3>1. PICK S, held : S = Entrants(p) /\ held = HeldIn(p)
      OBVIOUS
    <3>2. /\ IsFiniteSet(S) /\ \A a \in S : a \in DOMAIN held /\ held[a] \in Nat
          /\ order \in SetToSeqs(S) /\ w \in Range(Draws(order, held))
      BY <2>2, <3>1, HeldIsCounted
    <3>3. w \in S
      BY <3>2, DrawnIsEntrant
    <3> QED BY <3>1, <3>3
  <2>4. w \in Wallet
    BY <2>3, EntrantsAreWallets
  <2>5. p \in DOMAIN pools /\ p \in Nat
    <3>1. PICK e \in entries : e.pool = p
      BY <1>4 DEF EntriesOf
    <3> QED BY <3>1, PoolIs DEF PoolsType
  <2> DEFINE state == [run[r] EXCEPT !.pc = "drawn", !.todo = @ \ {p}, !.pool = p, !.winner = w]
  <2>6. /\ state \in RunType /\ state.pc = "drawn" /\ state.task = run[r].task
        /\ state.todo = run[r].todo \ {p} /\ state.pool = p /\ state.winner = w
    BY <1>1, <2>4, <2>5 DEF RunType
  <2>7. Hold(r, state) /\ passedOver' = passedOver
    BY <1>2, <1>4, <2>2
  <2> HIDE DEF state
  <2>8. run' \in [Runner -> RunType] /\ run'[r] = state /\ Keeps(r)
    BY <1>1, <2>6, <2>7, HoldIs
  <2> QED BY <1>1, <2>3, <2>5, <2>6, <2>7, <2>8
<1> QED BY <1>3, <1>4

LEMMA MintIs ==
  ASSUME PoolsType, HeldInv, NEW r \in Runner, Mint(r)
  PROVE  /\ run' \in [Runner -> RunType] /\ Keeps(r) /\ run[r].pc = "drawn"
         /\ run'[r].task = run[r].task /\ run'[r].todo = run[r].todo
         /\ run'[r].pc = "minted" /\ run'[r].pool = run[r].pool /\ run'[r].winner = run[r].winner
         /\ run'[r].link \in {NoLink, [pool |-> run[r].pool, receiver |-> run[r].winner]}
<1>1. run[r] \in RunType /\ run[r].pc = "drawn" /\ run \in [Runner -> RunType]
  BY DEF PoolsType, Mint, Reaches
<1>2. PICK k : /\ k \in {NoLink, [pool |-> run[r].pool, receiver |-> run[r].winner]}
               /\ Hold(r, [run[r] EXCEPT !.pc = "minted", !.link = k])
  BY DEF Mint
<1>3. run[r].winner \in Wallet /\ run[r].pool \in Nat
  BY <1>1, EntrantsAreWallets DEF HeldInv, RunType
<1>4. k \in {NoLink} \cup [pool: Nat, receiver: Wallet]
  BY <1>2, <1>3
<1> DEFINE state == [run[r] EXCEPT !.pc = "minted", !.link = k]
<1>5. /\ state \in RunType /\ state.pc = "minted" /\ state.task = run[r].task
      /\ state.todo = run[r].todo /\ state.pool = run[r].pool /\ state.winner = run[r].winner
      /\ state.link = k
  BY <1>1, <1>4 DEF RunType
<1>6. Hold(r, state)
  BY <1>2
<1> HIDE DEF state
<1>7. run' \in [Runner -> RunType] /\ run'[r] = state /\ Keeps(r)
  BY <1>1, <1>5, <1>6, HoldIs
<1> QED BY <1>1, <1>2, <1>5, <1>7

LEMMA RecordLetsGo ==
  ASSUME PoolsType, NEW r \in Runner, Record(r)
  PROVE  /\ run' \in [Runner -> RunType] /\ Keeps(r) /\ run[r].pc = "minted"
         /\ run'[r].task = run[r].task /\ run'[r].todo = run[r].todo /\ run'[r].pc = "rolling"
<1>1. run[r] \in RunType /\ run[r].pc = "minted" /\ run \in [Runner -> RunType]
  BY DEF PoolsType, Record, Reaches
<1> DEFINE state == [run[r] EXCEPT !.pc = "rolling"]
<1>2. /\ state \in RunType /\ state.pc = "rolling" /\ state.task = run[r].task
      /\ state.todo = run[r].todo
  BY <1>1 DEF RunType
<1>3. Hold(r, state)
  BY DEF Record
<1> HIDE DEF state
<1>4. run' \in [Runner -> RunType] /\ run'[r] = state /\ Keeps(r)
  BY <1>1, <1>2, <1>3, HoldIs
<1> QED BY <1>1, <1>2, <1>4

LEMMA EndIs ==
  ASSUME PoolsType, NEW r \in Runner, Create(r) \/ Crash(r)
  PROVE  run' \in [Runner -> RunType] /\ Keeps(r) /\ run[r].pc # "idle" /\ run'[r].pc = "idle"
<1>1. Hold(r, Idle) /\ run[r].pc # "idle"
  BY DEF Create, Crash, Reaches
<1> QED BY <1>1, HoldIs, IdleIs DEF PoolsType

LEMMA HeldStands ==
  ASSUME HeldInv, entries \subseteq entries', DOMAIN pools \subseteq DOMAIN pools',
         \A r \in Runner : run'[r].pc \in {"drawn", "minted"} =>
             /\ run[r].pc \in {"drawn", "minted"}
             /\ run'[r].pool = run[r].pool /\ run'[r].winner = run[r].winner
  PROVE  HeldInv'
<1>1. \A p : Entrants(p) \subseteq Entrants(p)'
  BY DEF Entrants, EntriesOf
<1> QED BY <1>1 DEF HeldInv

LEMMA RollOfRuns ==
  ASSUME PoolsType, HeldInv, day \in Day, RollStep
  PROVE  run' \in [Runner -> RunType] /\ HeldInv'
<1>0. entries' = entries /\ DOMAIN pools \subseteq DOMAIN pools'
  BY RollLeavesThePoints, RollOfPools DEF PoolsGrow
<1>1. CASE Fire \/ RunOnDemand
  <2>1. PICK r \in Runner, task \in {"both", "close", "create"} : Start(r, task)
    BY <1>1, TierAssumption DEF Fire, RunOnDemand
  <2>2. run' \in [Runner -> RunType] /\ Keeps(r) /\ run'[r].pc = "rolling"
    BY <2>1, StartIs
  <2> QED BY <1>0, <2>2, HeldStands DEF Keeps
<1>2. ASSUME NEW r \in Runner, Draw(r) PROVE run' \in [Runner -> RunType] /\ HeldInv'
  <2>1. /\ run' \in [Runner -> RunType] /\ Keeps(r)
        /\ run'[r].pc \in {"drawn", "minted"} =>
              run'[r].pool \in DOMAIN pools /\ run'[r].winner \in Entrants(run'[r].pool)
    BY <1>2, DrawIs
  <2>2. \A p : Entrants(p)' = Entrants(p)
    BY <1>0 DEF Entrants, EntriesOf
  <2> QED BY <1>0, <2>1, <2>2 DEF HeldInv, Keeps
<1>3. ASSUME NEW r \in Runner, Mint(r) PROVE run' \in [Runner -> RunType] /\ HeldInv'
  BY <1>0, <1>3, MintIs, HeldStands DEF Keeps
<1>4. ASSUME NEW r \in Runner, Record(r) PROVE run' \in [Runner -> RunType] /\ HeldInv'
  BY <1>0, <1>4, RecordLetsGo, HeldStands DEF Keeps
<1>5. ASSUME NEW r \in Runner, Create(r) \/ Crash(r) PROVE run' \in [Runner -> RunType] /\ HeldInv'
  BY <1>0, <1>5, EndIs, HeldStands DEF Keeps
<1>6. CASE NextDay \/ UNCHANGED vars \/ \E link \in links : raffleReceived(link)
  <2>1. run' = run
    BY <1>6 DEF NextDay, vars, raffleVars, raffleReceived
  <2> QED BY <1>0, <2>1, HeldStands DEF PoolsType
<1> QED BY <1>1, <1>2, <1>3, <1>4, <1>5, <1>6 DEF RollStep, Roll

-----------------------------------------------------------------------------
(* The entries.                                                            *)

LEMMA SettleEntryIs ==
  ASSUME PointsInv, NEW q \in Request, SettleEntry(q)
  PROVE  /\ Others(q) /\ At(q, "based") /\ Raffles(q) /\ Raffles(q)' /\ At(q, "done")'
         /\ req'[q].wallet = req[q].wallet /\ req'[q].amount = req[q].amount
         /\ logs' = logs \cup {Row(req[q], req[q].amount)} /\ quiet' = quiet
         /\ Appends(q, req[q].amount) /\ Justified(q)
         /\ UNCHANGED <<day, entry, run, byHand>>
<1>1. /\ req \in [Request -> ItType] /\ At(q, "based") /\ Raffles(q)
      /\ req' = [req EXCEPT ![q].pc = "done"]
      /\ logs' = logs \cup {Row(req[q], req[q].amount)} /\ Ends(req[q].wallet, req[q].at)
      /\ CoversEntry(q) /\ UNCHANGED <<day, entry, run, byHand>>
  BY DEF PointsInv, LedgerInv, LedgerType, SettleEntry, Commits, Raffles
<1>2. /\ Others(q) /\ req'[q].source = req[q].source /\ At(q, "done")'
      /\ req'[q].wallet = req[q].wallet /\ req'[q].amount = req[q].amount /\ req'[q].at = req[q].at
  BY <1>1 DEF Others, ItType, At
<1> QED BY <1>1, <1>2 DEF Appends, Raffles, Justified, CoversEntry, Ends

\* Only an operator counts as a hand.
LEMMA HandsCounted ==
  ASSUME RollStep
  PROVE  byHand' = byHand \/ (RunOnDemand /\ byHand' = byHand + 1)
<1>1. Fire => byHand' = byHand
  BY DEF Fire
<1>2. RunOnDemand => byHand' = byHand + 1
  BY DEF RunOnDemand
<1>3. ASSUME NEW r \in Runner, Roll(r) PROVE byHand' = byHand
  BY <1>3 DEF Roll, Draw, Mint, Record, Create, Crash
<1>4. ASSUME NEW link, raffleReceived(link) PROVE byHand' = byHand
  BY <1>4 DEF raffleReceived
<1>5. NextDay \/ UNCHANGED vars => byHand' = byHand
  BY DEF NextDay, vars, raffleVars
<1> QED BY <1>1, <1>2, <1>3, <1>4, <1>5 DEF RollStep

LEMMA PoolsTypeHolds ==
  ASSUME PointsInv, DailyInv, PoolsType, HeldInv, [RaffleNext]_vars
  PROVE  PoolsType' /\ HeldInv'
<1>0. day \in Day /\ req \in [Request -> ItType]
  BY DEF PointsInv, LedgerInv, LedgerType
<1>1. CASE RollStep
  <2>1. PoolsAreTyped' /\ DOMAIN pools \subseteq DOMAIN pools' /\ run' \in [Runner -> RunType] /\ HeldInv'
    BY <1>0, <1>1, RollOfPools, RollOfRuns DEF PoolsGrow
  <2>2. UNCHANGED <<req, entries, entry>>
    BY <1>1, RollLeavesThePoints
  <2>3. byHand' \in Nat
    BY <1>1, HandsCounted DEF PoolsType
  <2> QED BY <2>1, <2>2, <2>3 DEF PoolsType, PoolsAreTyped, Raffles
<1>2. ASSUME UNCHANGED raffleVars, \A x \in Request : Raffles(x)' => Raffles(x)
      PROVE  PoolsType' /\ HeldInv'
  <2>1. PoolsType'
    BY <1>2 DEF PoolsType, raffleVars
  <2>2. HeldInv'
    BY <1>2, HeldStands DEF raffleVars
  <2> QED BY <2>1, <2>2
<1>3. ASSUME NEW q \in Request, NEW a \in Wallet, NEW p \in DOMAIN pools, NEW n \in Count,
             apply(q, a, p, n)
      PROVE  PoolsType' /\ HeldInv'
  <2>1. /\ \A x \in Request \ {q} : req'[x] = req[x]
        /\ UNCHANGED <<pools, entries, run, byHand>>
    BY <1>3, ApplyWaits DEF apply
  <2>2. n \in Nat \ {0} /\ Balance(a) \in Int /\ p \in Nat
    <3>1. Count \subseteq Nat \ {0}
      BY TierAssumption
    <3>2. Balance(a) \in Int
      BY BalancesAreNumbers DEF PointsInv
    <3> QED BY <3>1, <3>2, PoolIs DEF PoolsType
  <2>3. PICK b \in Int : b = Balance(a)
    BY <2>2
  <2>4. entry' = [entry EXCEPT ![q] = [pool |-> p, count |-> n, current |-> b]]
    BY <1>3, <2>3 DEF apply
  <2>5. /\ entry' \in [Request -> [pool: Nat, count: Nat, current: Int]]
        /\ entry'[q].pool = p /\ entry'[q].count = n
        /\ \A x \in Request \ {q} : entry'[x] = entry[x]
    BY <2>2, <2>4 DEF PoolsType
  <2>6. PoolsType'
    BY <2>1, <2>2, <2>5 DEF PoolsType, Raffles
  <2>7. HeldInv'
    BY <2>1, HeldStands
  <2> QED BY <2>6, <2>7
<1>4. CASE \E q \in Request, a \in Wallet : AskLedger(q, a) /\ UNCHANGED raffleVars
  <2>1. PICK q \in Request : Others(q) /\ ~Raffles(q)' /\ UNCHANGED raffleVars
    BY <1>4, AskLedgerMoves
  <2> QED BY <1>2, <2>1 DEF Others, Raffles
<1>5. CASE \E q \in Request : Serve(q) /\ UNCHANGED raffleVars
  <2>1. PICK q \in Request : Others(q) /\ req'[q].source = req[q].source /\ UNCHANGED raffleVars
    BY <1>5, ServeMoves
  <2> QED BY <1>2, <2>1 DEF Others, Raffles
<1>6. CASE \E q \in Request : BeginApply(q)
  <2>1. PICK q \in Request : /\ \A x \in Request \ {q} : req'[x] = req[x]
                             /\ Raffles(q) /\ UNCHANGED raffleVars
    BY <1>6, BeginApplyHolds DEF BeginApply, Raffles
  <2> QED BY <1>2, <2>1 DEF Raffles
<1>7. ASSUME NEW q \in Request, SettleEntry(q) PROVE PoolsType' /\ HeldInv'
  <2>1. Others(q) /\ Raffles(q) /\ At(q, "based") /\ UNCHANGED <<entry, run, byHand>>
    BY <1>7, SettleEntryIs
  <2>2. PICK p \in DOMAIN pools, n \in Nat \ {0}, c \in Nat, w \in Wallet :
            p = entry[q].pool /\ n = entry[q].count /\ c = Cost(q) /\ w = req[q].wallet
    <3>1. req[q].wallet \in Wallet
      BY <2>1 DEF PointsInv, LedgerInv, LedgerType, At
    <3> QED BY <2>1, <3>1, CostIsNumber DEF PoolsType
  <2>3. PoolsAreTyped' /\ DOMAIN pools' = DOMAIN pools
    BY <1>7, <2>1, CountedIs DEF SettleEntry
  <2>4. PICK e : e = [id |-> q, pool |-> p, wallet |-> w, count |-> n, spent |-> c]
    OBVIOUS
  <2>5. entries' = entries \cup {e}
    BY <1>7, <2>2, <2>4 DEF SettleEntry
  <2>6. IsFiniteSet(entries')
    BY <2>5, FS_AddElement DEF PoolsType
  <2>7. \A x \in entries' : /\ x.id \in Request /\ x.pool \in DOMAIN pools /\ x.wallet \in Wallet
                            /\ x.count \in Nat \ {0} /\ x.spent \in Nat
    BY <2>4, <2>5 DEF PoolsType
  <2>8. PoolsType'
    BY <2>1, <2>3, <2>6, <2>7 DEF PoolsType, PoolsAreTyped, Others, Raffles
  <2>9. HeldInv'
    BY <2>1, <2>3, <2>5, HeldStands
  <2> QED BY <2>8, <2>9
<1> QED BY <1>1, <1>3, <1>4, <1>5, <1>6, <1>7 DEF RaffleNext, RollStep

LEMMA DailyInvHolds ==
  ASSUME PointsInv, DailyInv, PoolsType, [RaffleNext]_vars
  PROVE  DailyInv'
<1>0. \A x \in Request : req'[x] = req[x] => (req'[x].source = "daily-claim" => req'[x].amount >= 0)
  BY DEF DailyInv
<1>1. CASE RollStep
  BY <1>0, <1>1, RollLeavesThePoints DEF DailyInv
<1>2. ASSUME NEW q \in Request, NEW a \in Wallet, NEW p, NEW n, apply(q, a, p, n) PROVE DailyInv'
  <2>1. NewRequest \in ItType /\ req \in [Request -> ItType]
    BY AwardAssumption DEF NewRequest, ItType, Source, Day, PointsInv, LedgerInv, LedgerType
  <2>2. req'[q].source = "raffle"
    BY <1>2, <2>1 DEF apply, ItType
  <2>3. \A x \in Request \ {q} : req'[x] = req[x]
    BY <1>2, ApplyWaits
  <2> QED BY <1>0, <2>2, <2>3 DEF DailyInv
<1>3. ASSUME NEW q \in Request, NEW a \in Wallet, AskLedger(q, a) PROVE DailyInv'
  BY <1>0, <1>3, AskLedgerMoves DEF DailyInv, Others
<1>4. ASSUME NEW q \in Request, Serve(q) PROVE DailyInv'
  BY <1>0, <1>4, ServeMoves DEF DailyInv, Others
<1>5. ASSUME NEW q \in Request, BeginApply(q) PROVE DailyInv'
  BY <1>0, <1>5, BeginApplyHolds DEF DailyInv
<1>6. ASSUME NEW q \in Request, SettleEntry(q) PROVE DailyInv'
  BY <1>0, <1>6, SettleEntryIs DEF DailyInv, Others, Raffles
<1> QED BY <1>1, <1>2, <1>3, <1>4, <1>5, <1>6 DEF RaffleNext, RollStep

LEMMA OneMore ==
  ASSUME NEW S, IsFiniteSet(S), NEW e, e \notin S
  PROVE  \A f \in [S -> Int], g \in [S \cup {e} -> Int] : (\A x \in S : g[x] = f[x]) =>
             SumFunction(f) \in Int /\ SumFunction(g) = SumFunction(f) + g[e]
<1> SUFFICES ASSUME NEW f \in [S -> Int], NEW g \in [S \cup {e} -> Int], \A x \in S : g[x] = f[x]
             PROVE  SumFunction(f) \in Int /\ SumFunction(g) = SumFunction(f) + g[e]
  OBVIOUS
<1>1. PICK T : T = S \cup {e}
  OBVIOUS
<1>2. IsFiniteSet(T) /\ e \in T /\ T \ {e} = S /\ g \in [T -> Int]
  BY <1>1, FS_AddElement
<1>3. \A h \in [T \ {e} -> Int] :
          (\A y \in T \ {e} : h[y] = g[y]) => SumFunction(h) \in Int /\ SumFunction(g) = SumFunction(h) + g[e]
  <2>1. /\ SumFunction(g) \in Int
        /\ \A x \in T : \A h \in [T \ {x} -> Int] :
              (\A y \in T \ {x} : h[y] = g[y]) =>
                  SumFunction(h) \in Int /\ SumFunction(g) = SumFunction(h) + g[x]
    <3>1. g \in [T -> Int] /\ IsFiniteSet(T)
      BY <1>2
    <3> QED BY ONLY <3>1, SumLess, Zenon
  <2> QED BY <1>2, <2>1
<1>4. f \in [T \ {e} -> Int] /\ \A y \in T \ {e} : f[y] = g[y]
  BY <1>2
<1> QED BY <1>3, <1>4

LEMMA NoneCounted ==
  /\ SumFunction([x \in {} |-> x.count]) = 0
  /\ SumFunction([x \in {} |-> x.spent]) = 0
  /\ SumFunction([x \in {} |-> x.diff]) = 0
BY SumEmpty DEF SumFunction

LEMMA CountMore ==
  ASSUME NEW S, IsFiniteSet(S), NEW e, e \notin S, \A x \in S \cup {e} : x.count \in Int
  PROVE  SumFunction([x \in S \cup {e} |-> x.count]) = SumFunction([x \in S |-> x.count]) + e.count
<1>1. PICK f, g : f = [x \in S |-> x.count] /\ g = [x \in S \cup {e} |-> x.count]
  OBVIOUS
<1>2. f \in [S -> Int] /\ g \in [S \cup {e} -> Int] /\ (\A x \in S : g[x] = f[x]) /\ g[e] = e.count
  BY <1>1
<1>3. SumFunction(g) = SumFunction(f) + g[e]
  <2>1. \A h \in [S -> Int], k \in [S \cup {e} -> Int] : (\A x \in S : k[x] = h[x]) =>
            SumFunction(h) \in Int /\ SumFunction(k) = SumFunction(h) + k[e]
    BY OneMore, Zenon
  <2> QED BY <1>2, <2>1
<1> QED BY <1>1, <1>2, <1>3

LEMMA SpentMore ==
  ASSUME NEW S, IsFiniteSet(S), NEW e, e \notin S, \A x \in S \cup {e} : x.spent \in Int
  PROVE  /\ SumFunction([x \in S |-> x.spent]) \in Int
         /\ SumFunction([x \in S \cup {e} |-> x.spent]) = SumFunction([x \in S |-> x.spent]) + e.spent
<1>1. PICK f, g : f = [x \in S |-> x.spent] /\ g = [x \in S \cup {e} |-> x.spent]
  OBVIOUS
<1>2. f \in [S -> Int] /\ g \in [S \cup {e} -> Int] /\ (\A x \in S : g[x] = f[x]) /\ g[e] = e.spent
  BY <1>1
<1>3. SumFunction(f) \in Int /\ SumFunction(g) = SumFunction(f) + g[e]
  <2>1. \A h \in [S -> Int], k \in [S \cup {e} -> Int] : (\A x \in S : k[x] = h[x]) =>
            SumFunction(h) \in Int /\ SumFunction(k) = SumFunction(h) + k[e]
    BY OneMore, Zenon
  <2> QED BY <1>2, <2>1
<1> QED BY <1>1, <1>2, <1>3

LEMMA DiffMore ==
  ASSUME NEW S, IsFiniteSet(S), NEW e, e \notin S, \A x \in S \cup {e} : x.diff \in Int
  PROVE  /\ SumFunction([x \in S |-> x.diff]) \in Int
         /\ SumFunction([x \in S \cup {e} |-> x.diff]) = SumFunction([x \in S |-> x.diff]) + e.diff
<1>1. PICK f, g : f = [x \in S |-> x.diff] /\ g = [x \in S \cup {e} |-> x.diff]
  OBVIOUS
<1>2. f \in [S -> Int] /\ g \in [S \cup {e} -> Int] /\ (\A x \in S : g[x] = f[x]) /\ g[e] = e.diff
  BY <1>1
<1>3. SumFunction(f) \in Int /\ SumFunction(g) = SumFunction(f) + g[e]
  <2>1. \A h \in [S -> Int], k \in [S \cup {e} -> Int] : (\A x \in S : k[x] = h[x]) =>
            SumFunction(h) \in Int /\ SumFunction(k) = SumFunction(h) + k[e]
    BY OneMore, Zenon
  <2> QED BY <1>2, <2>1
<1> QED BY <1>1, <1>2, <1>3

(* The entries' invariant: an entry is of a request that is done, and one  *)
(* under way is charged what it costs.                                     *)
EntriesInv ==
    /\ \A e \in entries : At(e.id, "done")
    /\ \A q \in Request : Raffles(q) /\ Active(q) => req[q].amount = -Cost(q)
    /\ TicketsMatchEntries

\* On a quiet wallet, an entry under way still fits within the limit.
LimitInv ==
    /\ QuietWithinLimit
    /\ \A q \in Request : Raffles(q) /\ Active(q) /\ req[q].wallet \in quiet => WithinLimit(q)

RaffleRows(a) == {l \in LogsOf(a) : l.source = "raffle"}
SpentBy(a) == SumFunction([e \in {e \in entries : e.wallet = a} |-> e.spent])

(* What every step but the commit of an entry does to the entries.         *)
EntryStands ==
    /\ entries' = entries /\ PoolsGrow /\ NothingCounted /\ PoolsAreTyped' /\ quiet' \subseteq quiet
    /\ \A q \in Request : At(q, "done") => At(q, "done")'
    /\ \A a \in Wallet : RaffleRows(a)' = RaffleRows(a)
    /\ \A q \in Request : Raffles(q)' /\ Active(q)' =>
          /\ Raffles(q) /\ entry'[q] = entry[q] /\ req'[q].wallet = req[q].wallet
          /\ \/ Active(q) /\ req'[q].amount = req[q].amount
             \/ req'[q].amount = -Cost(q) /\ WithinLimit(q)

LEMMA CostStands ==
  ASSUME PoolsType, PoolsGrow, NEW q \in Request, Raffles(q), entry'[q] = entry[q]
  PROVE  Cost(q)' = Cost(q) /\ pools'[entry'[q].pool].max = pools[entry[q].pool].max
BY DEF PoolsType, PoolsGrow, Cost

LEMMA EntriesStand ==
  ASSUME PoolsType, EntriesInv, LimitInv, EntryStands
  PROVE  EntriesInv' /\ LimitInv'
<1>1. (\A p : EntriesOf(p)' = EntriesOf(p)) /\ (\A p, a : Tickets(p, a)' = Tickets(p, a))
  BY DEF EntryStands, EntriesOf, TicketsOf, Tickets
<1>2. ASSUME NEW q \in Request, Raffles(q)', Active(q)' PROVE req'[q].amount = -(Cost(q)')
  BY <1>2, CostStands DEF EntryStands, EntriesInv
<1>3. \A p \in DOMAIN pools' \ DOMAIN pools : EntriesOf(p) = {} /\ \A a : Tickets(p, a) = 0
  <2>1. SUFFICES ASSUME NEW p \in DOMAIN pools' \ DOMAIN pools, NEW a
                 PROVE  EntriesOf(p) = {} /\ Tickets(p, a) = 0
    OBVIOUS
  <2>2. EntriesOf(p) = {} /\ TicketsOf(p, a) = {}
    BY <2>1 DEF PoolsType, EntriesOf, TicketsOf
  <2> QED BY <2>2, NoneCounted DEF Tickets
<1>4. TicketsMatchEntries'
  <2>1. ASSUME NEW p \in DOMAIN pools' PROVE pools'[p].total = SumFunction([e \in EntriesOf(p) |-> e.count])
    <3>1. CASE p \in DOMAIN pools
      BY <3>1 DEF EntryStands, NothingCounted, EntriesInv, TicketsMatchEntries
    <3>2. CASE p \notin DOMAIN pools
      BY <1>3, <2>1, <3>2, NoneCounted DEF EntryStands, NothingCounted
    <3> QED BY <3>1, <3>2
  <2>2. ASSUME NEW a \in Wallet
        PROVE  SpentBy(a)' + SumFunction([l \in RaffleRows(a)' |-> l.diff]) = 0
    BY DEF EntryStands, EntriesInv, TicketsMatchEntries, SpentBy, RaffleRows
  <2> QED BY <1>1, <2>1, <2>2 DEF TicketsMatchEntries, SpentBy, RaffleRows
<1>5. EntriesInv'
  BY <1>2, <1>4 DEF EntriesInv, EntryStands, PoolsType
<1>6. ASSUME NEW a \in quiet', NEW p \in DOMAIN pools', pools'[p].max # UNLIMITED_ENTRIES
      PROVE  Tickets(p, a) <= pools'[p].max
  <2>1. CASE p \in DOMAIN pools
    BY <1>6, <2>1 DEF EntryStands, PoolsGrow, LimitInv, QuietWithinLimit
  <2>2. CASE p \notin DOMAIN pools
    BY <1>3, <1>6, <2>2 DEF EntryStands, PoolsAreTyped, UNLIMITED_ENTRIES
  <2> QED BY <2>1, <2>2
<1>7. ASSUME NEW q \in Request, Raffles(q)', Active(q)', req'[q].wallet \in quiet'
      PROVE  WithinLimit(q)'
  <2>1. /\ Raffles(q) /\ entry'[q] = entry[q] /\ req'[q].wallet = req[q].wallet /\ WithinLimit(q)
    BY <1>7 DEF EntryStands, LimitInv
  <2>2. pools'[entry'[q].pool].max = pools[entry[q].pool].max
    BY <2>1, CostStands DEF EntryStands
  <2> QED BY <1>1, <2>1, <2>2 DEF WithinLimit
<1> QED BY <1>1, <1>5, <1>6, <1>7 DEF LimitInv, QuietWithinLimit

LEMMA EntryEnters ==
  ASSUME PointsInv, PoolsType, EntriesInv, LimitInv, NEW q \in Request, SettleEntry(q)
  PROVE  EntriesInv' /\ LimitInv'
<1>1. /\ Others(q) /\ At(q, "based") /\ Raffles(q) /\ At(q, "done")' /\ Active(q) /\ ~At(q, "done")
      /\ quiet' = quiet /\ entry' = entry /\ Appends(q, req[q].amount)
  BY SettleEntryIs DEF Active, At
<1>2. /\ PoolsGrow /\ DOMAIN pools' = DOMAIN pools
      /\ pools'[entry[q].pool].total = pools[entry[q].pool].total + entry[q].count
      /\ \A x \in DOMAIN pools : x # entry[q].pool => pools'[x].total = pools[x].total
  BY <1>1, CountedIs DEF SettleEntry
<1>3. PICK p \in DOMAIN pools, n \in Nat \ {0}, c \in Nat, w \in Wallet :
          p = entry[q].pool /\ n = entry[q].count /\ c = Cost(q) /\ w = req[q].wallet
  <2>1. req[q].wallet \in Wallet
    BY <1>1 DEF PointsInv, LedgerInv, LedgerType, At
  <2> QED BY <1>1, <2>1, CostIsNumber DEF PoolsType
<1>4. req[q].amount = -c
  BY <1>1, <1>3 DEF EntriesInv
<1>5. PICK e : e = [id |-> q, pool |-> p, wallet |-> w, count |-> n, spent |-> c]
  OBVIOUS
<1>6. /\ entries' = entries \cup {e} /\ e \notin entries
      /\ e.id = q /\ e.pool = p /\ e.wallet = w /\ e.count = n /\ e.spent = c
  <2>1. entries' = entries \cup {e}
    BY <1>3, <1>5 DEF SettleEntry
  <2>2. e \notin entries
    BY <1>1, <1>5 DEF EntriesInv
  <2> QED BY <1>5, <2>1, <2>2
<1>7. PICK row : row = Row(req[q], req[q].amount)
  OBVIOUS
<1>8. row.wallet = w /\ row.diff = -c /\ row.source = "raffle"
  BY <1>1, <1>3, <1>4, <1>7, RowIs DEF Raffles
<1>9. /\ row \notin logs /\ LogsOf(w)' = LogsOf(w) \cup {row}
      /\ \A b : b # w => LogsOf(b)' = LogsOf(b)
  <2>1. LedgerType' /\ LedgerInv /\ req[q].amount \in Int
    BY <1>4, SettleEntryHolds DEF PointsInv
  <2>2. PICK d \in Int : d = req[q].amount
    BY <2>1
  <2>3. /\ Row(req[q], d) \notin logs
        /\ LogsOf(req[q].wallet)' = LogsOf(req[q].wallet) \cup {Row(req[q], d)}
        /\ \A b : b # req[q].wallet => LogsOf(b)' = LogsOf(b)
    BY <1>1, <2>1, <2>2, AppendsHolds
  <2>4. req'[q].wallet = w
    BY <1>1, <1>3 DEF Appends
  <2>5. \A b : LogsOf(b)' = {l \in logs' : l.wallet = b}
    BY DEF LogsOf
  <2> QED BY <1>3, <1>7, <2>2, <2>3, <2>4, <2>5 DEF LogsOf
<1>10. /\ RaffleRows(w)' = RaffleRows(w) \cup {row} /\ row \notin RaffleRows(w)
       /\ \A b : b # w => RaffleRows(b)' = RaffleRows(b)
  BY <1>8, <1>9 DEF RaffleRows, LogsOf
<1>11. /\ EntriesOf(p)' = EntriesOf(p) \cup {e} /\ TicketsOf(p, w)' = TicketsOf(p, w) \cup {e}
       /\ \A x : x # p => EntriesOf(x)' = EntriesOf(x)
       /\ \A x, a : x # p \/ a # w => TicketsOf(x, a)' = TicketsOf(x, a)
       /\ e \notin EntriesOf(p) /\ e \notin TicketsOf(p, w)
  BY <1>6 DEF EntriesOf, TicketsOf
<1>12. /\ IsFiniteSet(EntriesOf(p)) /\ IsFiniteSet(TicketsOf(p, w)) /\ Tickets(p, w) \in Nat
       /\ \A x \in EntriesOf(p) \cup {e} : x.count \in Int
       /\ \A x \in TicketsOf(p, w) \cup {e} : x.count \in Int
  <2>1. /\ IsFiniteSet(EntriesOf(p)) /\ IsFiniteSet(TicketsOf(p, w)) /\ Tickets(p, w) \in Nat
    BY TicketsAreNumbers
  <2>2. \A x \in entries \cup {e} : x.count \in Int
    BY <1>6 DEF PoolsType
  <2> QED BY <2>1, <2>2 DEF EntriesOf, TicketsOf
<1>13. SumFunction([x \in EntriesOf(p)' |-> x.count]) = SumFunction([x \in EntriesOf(p) |-> x.count]) + n
  BY <1>6, <1>11, <1>12, CountMore
<1>14. /\ Tickets(p, w)' = Tickets(p, w) + n
       /\ \A x, a : x # p \/ a # w => Tickets(x, a)' = Tickets(x, a)
  <2>1. SumFunction([x \in TicketsOf(p, w) \cup {e} |-> x.count])
            = SumFunction([x \in TicketsOf(p, w) |-> x.count]) + e.count
    BY <1>11, <1>12, CountMore
  <2> QED BY <1>6, <1>11, <2>1 DEF Tickets
<1>15. SpentBy(w)' = SpentBy(w) + c /\ SpentBy(w) \in Int
  <2> DEFINE S == {x \in entries : x.wallet = w}
  <2>1. IsFiniteSet(S) /\ e \notin S /\ \A x \in S \cup {e} : x.spent \in Int
    <3>1. S \subseteq entries /\ IsFiniteSet(entries)
      BY DEF PoolsType
    <3>2. IsFiniteSet(S)
      BY <3>1, FS_Subset
    <3> QED BY <1>6, <3>2 DEF PoolsType
  <2>2. {x \in entries' : x.wallet = w} = S \cup {e}
    BY <1>6
  <2> HIDE DEF S
  <2>3. /\ SumFunction([x \in S |-> x.spent]) \in Int
        /\ SumFunction([x \in S \cup {e} |-> x.spent]) = SumFunction([x \in S |-> x.spent]) + e.spent
    BY <2>1, SpentMore
  <2> QED BY <1>6, <2>2, <2>3 DEF SpentBy, S
<1>16. \A b \in Wallet : b # w => SpentBy(b)' = SpentBy(b)
  <2>1. SUFFICES ASSUME NEW b \in Wallet, b # w PROVE SpentBy(b)' = SpentBy(b)
    OBVIOUS
  <2>2. {x \in entries' : x.wallet = b} = {x \in entries : x.wallet = b}
    BY <1>6, <2>1
  <2> QED BY <2>2 DEF SpentBy
<1>17. /\ SumFunction([l \in RaffleRows(w)' |-> l.diff]) = SumFunction([l \in RaffleRows(w) |-> l.diff]) - c
       /\ SumFunction([l \in RaffleRows(w) |-> l.diff]) \in Int
  <2>1. IsFiniteSet(RaffleRows(w)) /\ \A x \in RaffleRows(w) \cup {row} : x.diff \in Int
    <3>1. RaffleRows(w) \subseteq logs /\ IsFiniteSet(logs) /\ logs \subseteq LogRow
      BY DEF RaffleRows, LogsOf, PointsInv, LedgerInv, LedgerType
    <3>2. IsFiniteSet(RaffleRows(w))
      BY <3>1, FS_Subset
    <3> QED BY <1>3, <1>8, <3>1, <3>2 DEF LogRow
  <2>2. /\ SumFunction([x \in RaffleRows(w) |-> x.diff]) \in Int
        /\ SumFunction([x \in RaffleRows(w) \cup {row} |-> x.diff])
              = SumFunction([x \in RaffleRows(w) |-> x.diff]) + row.diff
    BY <1>10, <2>1, DiffMore
  <2> QED BY <1>3, <1>8, <1>10, <2>2
<1>18. ASSUME NEW x \in DOMAIN pools'
       PROVE  pools'[x].total = SumFunction([y \in EntriesOf(x)' |-> y.count])
  <2>1. CASE x = p
    BY <1>2, <1>3, <1>13, <2>1 DEF EntriesInv, TicketsMatchEntries
  <2>2. CASE x # p
    BY <1>2, <1>3, <1>11, <2>2 DEF EntriesInv, TicketsMatchEntries
  <2> QED BY <2>1, <2>2
<1>19. ASSUME NEW b \in Wallet
       PROVE  SpentBy(b)' + SumFunction([l \in RaffleRows(b)' |-> l.diff]) = 0
  <2>1. SpentBy(b) + SumFunction([l \in RaffleRows(b) |-> l.diff]) = 0
    BY DEF EntriesInv, TicketsMatchEntries, SpentBy, RaffleRows
  <2>2. CASE b = w
    BY <1>3, <1>15, <1>17, <2>1, <2>2
  <2>3. CASE b # w
    BY <1>10, <1>16, <2>1, <2>3
  <2> QED BY <2>2, <2>3
<1>20. TicketsMatchEntries'
  BY <1>18, <1>19 DEF TicketsMatchEntries, SpentBy, RaffleRows
<1>21. ASSUME NEW x \in Request, Raffles(x)', Active(x)'
       PROVE  /\ x # q /\ req'[x] = req[x] /\ Raffles(x) /\ Active(x)
              /\ Cost(x)' = Cost(x) /\ pools'[entry'[x].pool].max = pools[entry[x].pool].max
  <2>1. x # q /\ req'[x] = req[x] /\ Raffles(x) /\ Active(x)
    BY <1>1, <1>21 DEF Others, Active, At, Raffles
  <2> QED BY <1>1, <1>2, <2>1, CostStands
<1>22. EntriesInv'
  <2>1. \A y \in entries' : At(y.id, "done")'
    BY <1>1, <1>6 DEF EntriesInv, PoolsType, Others, At
  <2> QED BY <1>20, <1>21, <2>1 DEF EntriesInv
<1>23. ASSUME NEW a \in quiet', NEW x \in DOMAIN pools', pools'[x].max # UNLIMITED_ENTRIES
       PROVE  Tickets(x, a)' <= pools'[x].max
  <2>1. pools'[x].max = pools[x].max /\ (Tickets(x, a) <= pools[x].max) /\ x \in DOMAIN pools
    BY <1>1, <1>2, <1>23 DEF PoolsGrow, LimitInv, QuietWithinLimit
  <2>2. CASE x = p /\ a = w
    <3>1. WithinLimit(q)
      BY <1>1, <1>3, <1>23, <2>2 DEF LimitInv
    <3> QED BY <1>3, <1>14, <1>23, <2>1, <2>2, <3>1 DEF WithinLimit
  <2>3. CASE x # p \/ a # w
    BY <1>14, <2>1, <2>3
  <2> QED BY <2>2, <2>3
<1>24. ASSUME NEW x \in Request, Raffles(x)', Active(x)', req'[x].wallet \in quiet'
       PROVE  WithinLimit(x)'
  <2>1. /\ x # q /\ req'[x] = req[x] /\ Raffles(x) /\ Active(x) /\ req[x].wallet \in quiet
        /\ pools'[entry'[x].pool].max = pools[entry[x].pool].max
    BY <1>1, <1>21, <1>24
  <2>2. WithinLimit(x)
    BY <2>1 DEF LimitInv
  <2>3. req[x].wallet # w
    BY <1>1, <1>3, <2>1 DEF PointsInv, LedgerInv, QuietInv
  <2>4. Tickets(entry[x].pool, req[x].wallet)' = Tickets(entry[x].pool, req[x].wallet)
    BY <1>1, <1>14, <2>1, <2>3
  <2> QED BY <1>1, <2>1, <2>2, <2>4 DEF WithinLimit
<1>25. LimitInv'
  BY <1>23, <1>24 DEF LimitInv, QuietWithinLimit
<1> QED BY <1>22, <1>25

LEMMA RollEntersNothing ==
  ASSUME PointsInv, PoolsType, HeldInv, RollStep
  PROVE  EntryStands
<1>1. UNCHANGED <<logs, req, quiet, entries, entry>>
  BY RollLeavesThePoints DEF openVars
<1>2. PoolsAreTyped' /\ PoolsGrow /\ NothingCounted
  BY RollOfPools DEF PointsInv, LedgerInv, LedgerType
<1>3. \A a \in Wallet : RaffleRows(a)' = RaffleRows(a)
  BY <1>1 DEF RaffleRows, LogsOf
<1> QED BY <1>1, <1>2, <1>3 DEF EntryStands, At, Raffles, Active

LEMMA ApplyEntersNothing ==
  ASSUME PointsInv, PoolsType, NEW q \in Request, NEW a \in Wallet, NEW p, NEW n, apply(q, a, p, n)
  PROVE  EntryStands
<1>1. /\ \A x \in Request \ {q} : req'[x] = req[x]
      /\ req[q].pc = "new" /\ req'[q].pc = "checked"
  BY ApplyWaits
<1>2. UNCHANGED <<logs, quiet, pools, entries>> /\ \A x \in Request \ {q} : entry'[x] = entry[x]
  BY DEF apply, openVars, PoolsType
<1>3. PoolsAreTyped' /\ PoolsGrow /\ NothingCounted
  BY <1>2, PoolsStand
<1>4. \A b \in Wallet : RaffleRows(b)' = RaffleRows(b)
  BY <1>2 DEF RaffleRows, LogsOf
<1> QED BY <1>1, <1>2, <1>3, <1>4 DEF EntryStands, At, Raffles, Active

LEMMA LedgerEntersNothing ==
  ASSUME PointsInv, DailyInv, PoolsType, UNCHANGED raffleVars, NEW q \in Request,
         Serve(q) \/ \E a \in Wallet : AskLedger(q, a)
  PROVE  EntryStands
<1>1. UNCHANGED <<pools, entries, entry>> /\ PoolsAreTyped' /\ PoolsGrow /\ NothingCounted
  BY PoolsStand DEF raffleVars
<1>2. CASE \E a \in Wallet : AskLedger(q, a)
  <2>1. Others(q) /\ At(q, "new") /\ ~Raffles(q)' /\ logs' = logs /\ quiet' \subseteq quiet
    BY <1>2, AskLedgerMoves
  <2>2. \A b \in Wallet : RaffleRows(b)' = RaffleRows(b)
    BY <2>1 DEF RaffleRows, LogsOf
  <2> QED BY <1>1, <2>1, <2>2 DEF EntryStands, Others, At, Raffles, Active
<1>3. CASE Serve(q)
  <2>1. /\ Others(q) /\ req'[q].source = req[q].source /\ req'[q].wallet = req[q].wallet
        /\ req'[q].amount = req[q].amount /\ ~At(q, "done") /\ (Raffles(q) /\ Active(q)' => Active(q))
    BY <1>3, ServeMoves
  <2>2. quiet' \subseteq quiet
    BY <1>3, ServeMoves
  <2>3. ASSUME NEW b \in Wallet PROVE RaffleRows(b)' = RaffleRows(b)
    <3>1. CASE logs' = logs
      BY <3>1 DEF RaffleRows, LogsOf
    <3>2. CASE ~Raffles(q) /\ logs' = logs \cup {Row(req[q], req[q].amount)}
      <4>1. PICK row : row = Row(req[q], req[q].amount)
        OBVIOUS
      <4>2. row.source # "raffle"
        BY <3>2, <4>1, RowIs DEF Raffles
      <4> QED BY <3>2, <4>1, <4>2 DEF RaffleRows, LogsOf
    <3> QED BY <1>3, <3>1, <3>2, ServeMoves
  <2> QED BY <1>1, <2>1, <2>2, <2>3 DEF EntryStands, Others, At, Raffles, Active
<1> QED BY <1>2, <1>3

LEMMA BeginApplyEntersNothing ==
  ASSUME PointsInv, PoolsType, NEW q \in Request, BeginApply(q)
  PROVE  EntryStands
<1>1. /\ Others(q) /\ At(q, "checked") /\ Raffles(q) /\ req'[q].wallet = req[q].wallet
      /\ UNCHANGED <<logs, pools, entries, entry>>
  BY BeginApplyHolds DEF BeginApply, Raffles, raffleVars, Others
<1>2. /\ quiet' \subseteq quiet
      /\ Active(q)' => req'[q].amount = -Cost(q) /\ WithinLimit(q)
  BY BeginApplyHolds DEF openVars, Begins, Active
<1>3. PoolsAreTyped' /\ PoolsGrow /\ NothingCounted
  BY <1>1, PoolsStand
<1>4. \A b \in Wallet : RaffleRows(b)' = RaffleRows(b)
  BY <1>1 DEF RaffleRows, LogsOf
<1> QED BY <1>1, <1>2, <1>3, <1>4 DEF EntryStands, At, Raffles, Active, Others

LEMMA EntriesHoldStep ==
  ASSUME PointsInv, DailyInv, PoolsType, HeldInv, EntriesInv, LimitInv, [RaffleNext]_vars
  PROVE  EntriesInv' /\ LimitInv'
<1>1. CASE RollStep
  BY <1>1, RollEntersNothing, EntriesStand
<1>2. CASE \E q \in Request, a \in Wallet : \E p \in DOMAIN pools, n \in Count : apply(q, a, p, n)
  BY <1>2, ApplyEntersNothing, EntriesStand
<1>3. CASE \E q \in Request, a \in Wallet : AskLedger(q, a) /\ UNCHANGED raffleVars
  BY <1>3, LedgerEntersNothing, EntriesStand
<1>4. CASE \E q \in Request : Serve(q) /\ UNCHANGED raffleVars
  BY <1>4, LedgerEntersNothing, EntriesStand
<1>5. CASE \E q \in Request : BeginApply(q)
  BY <1>5, BeginApplyEntersNothing, EntriesStand
<1>6. CASE \E q \in Request : SettleEntry(q)
  BY <1>6, EntryEnters
<1> QED BY <1>1, <1>2, <1>3, <1>4, <1>5, <1>6 DEF RaffleNext, RollStep

(* What is spent is covered: a row is the newest one its transaction read, *)
(* and the transaction looked at it before it spent.                       *)
LEMMA SpendHolds ==
  ASSUME LedgerInv, QuietSpendIsCovered, NEW q \in Request, At(q, "based"), Justified(q),
         logs' = logs \cup {Row(req[q], req[q].amount)}, quiet' = quiet
  PROVE  QuietSpendIsCovered'
<1>1. PICK w \in Wallet, d \in Int : w = req[q].wallet /\ d = req[q].amount
  BY DEF LedgerInv, LedgerType, At, ItType
<1>2. PICK row : row = Row(req[q], d)
  OBVIOUS
<1>3. LogsOf(w)' = LogsOf(w) \cup {row} /\ \A b : b # w => LogsOf(b)' = LogsOf(b)
  <2>1. logs' = logs \cup {row} /\ row.wallet = w
    BY <1>1, <1>2, RowIs
  <2> QED BY <2>1 DEF LogsOf
<1>4. /\ row.source = req[q].source /\ row.diff = d /\ row.after = req[q].base + d
      /\ req[q].base \in Int
  BY <1>2 DEF Row, LedgerInv, LedgerType, ItType
<1>5. ASSUME w \in quiet, \A l \in LogsOf(w)' : l.source = "airdrop" => l.diff >= 0
      PROVE  row.after >= 0
  <2>1. req[q].base = BalanceIn(LogsOf(w)) /\ IsRows(LogsOf(w))
    BY <1>1, <1>5, RowsOfAWallet DEF LedgerInv, QuietInv
  <2>2. \A l \in LogsOf(w) : l.after >= 0
    BY <1>3, <1>5 DEF QuietSpendIsCovered
  <2>3. BalanceIn(LogsOf(w)) >= 0
    BY <2>1, <2>2, LastIsIn DEF BalanceIn
  <2>4. req[q].source = "airdrop" => d >= 0
    BY <1>3, <1>4, <1>5
  <2> QED BY <1>1, <1>4, <2>1, <2>3, <2>4 DEF Justified, Covers
<1>6. ASSUME NEW a \in quiet, \A l \in LogsOf(a)' : l.source = "airdrop" => l.diff >= 0,
             NEW l \in LogsOf(a)'
      PROVE  l.after >= 0
  <2>1. CASE a = w
    BY <1>3, <1>5, <1>6, <2>1 DEF QuietSpendIsCovered
  <2>2. CASE a # w
    BY <1>3, <1>6, <2>2 DEF QuietSpendIsCovered
  <2> QED BY <2>1, <2>2
<1> QED BY <1>6 DEF QuietSpendIsCovered

LEMMA SpendHoldsStep ==
  ASSUME PointsInv, DailyInv, PoolsType, HeldInv, QuietSpendIsCovered, [RaffleNext]_vars
  PROVE  QuietSpendIsCovered'
<1>1. ASSUME logs' = logs, quiet' \subseteq quiet PROVE QuietSpendIsCovered'
  BY <1>1 DEF QuietSpendIsCovered, LogsOf
<1>2. LedgerInv
  BY DEF PointsInv
<1>3. CASE RollStep
  BY <1>1, <1>3, RollLeavesThePoints DEF openVars
<1>4. ASSUME NEW q \in Request, NEW a \in Wallet, NEW p, NEW n, apply(q, a, p, n)
      PROVE  QuietSpendIsCovered'
  BY <1>1, <1>4 DEF apply, openVars
<1>5. ASSUME NEW q \in Request, NEW a \in Wallet, AskLedger(q, a) PROVE QuietSpendIsCovered'
  BY <1>1, <1>5, AskLedgerMoves
<1>6. ASSUME NEW q \in Request, Serve(q) PROVE QuietSpendIsCovered'
  <2>1. CASE logs' = logs /\ quiet' \subseteq quiet
    BY <1>1, <2>1
  <2>2. CASE At(q, "based") /\ logs' = logs \cup {Row(req[q], req[q].amount)} /\ quiet' = quiet /\ Justified(q)
    BY <1>2, <2>2, SpendHolds
  <2> QED BY <1>6, <2>1, <2>2, ServeMoves
<1>7. ASSUME NEW q \in Request, BeginApply(q) PROVE QuietSpendIsCovered'
  BY <1>1, <1>7, BeginApplyEntersNothing DEF EntryStands, BeginApply
<1>8. ASSUME NEW q \in Request, SettleEntry(q) PROVE QuietSpendIsCovered'
  BY <1>2, <1>8, SettleEntryIs, SpendHolds
<1> QED BY <1>3, <1>4, <1>5, <1>6, <1>7, <1>8 DEF RaffleNext, RollStep

RaffleInv ==
    /\ PointsInv /\ DailyInv /\ PoolsType /\ HeldInv
    /\ EntriesInv /\ LimitInv /\ QuietSpendIsCovered

LEMMA FirstPools ==
  ASSUME RaffleInit
  PROVE  /\ PoolsAreTyped
         /\ \A p \in DOMAIN pools : pools[p].total = 0 /\ pools[p].winner = NoOne /\ pools[p].date = 0
<1>1. PICK s, d : s = <<>> /\ d = 0
  OBVIOUS
<1>2. s \in Seq(PoolRow) /\ d \in Day
  BY <1>1, AwardAssumption DEF Day
<1>3. /\ s \o NewPools(d) \in Seq(PoolRow)
      /\ \A p \in DOMAIN (s \o NewPools(d)) \ DOMAIN s :
            LET pool == (s \o NewPools(d))[p] IN
               /\ pool.date = d /\ pool.total = 0 /\ pool.winner = NoOne
               /\ pool.max \in Nat \cup {UNLIMITED_ENTRIES}
  BY <1>2, MorePools
<1>4. s \o NewPools(d) = NewPools(0) /\ DOMAIN s = {}
  BY <1>1, TierAssumption DEF NewPools
<1> QED BY <1>1, <1>3, <1>4 DEF RaffleInit, PoolsAreTyped

LEMMA RaffleInvStarts == ASSUME RaffleInit PROVE RaffleInv
<1>1. PointsInv
  BY RafflePointsStart
<1>2. PoolsAreTyped /\ \A p \in DOMAIN pools : pools[p].total = 0
  BY FirstPools
<1>3. /\ entries = {} /\ byHand = 0 /\ run = [r \in Runner |-> Idle]
      /\ req = [q \in Request |-> NewRequest] /\ entry = [q \in Request |-> NoEntry]
      /\ quiet = Wallet
  BY DEF RaffleInit
<1>4. \A q \in Request : At(q, "new") /\ ~Raffles(q) /\ ~Active(q) /\ req[q].source # "daily-claim"
  BY <1>3 DEF NewRequest, At, Raffles, Active
<1>5. \A r \in Runner : run[r] = Idle
  BY <1>3
<1>6. PoolsType /\ HeldInv
  <2>1. IsFiniteSet(entries)
    BY <1>3, FS_EmptySet
  <2>2. run \in [Runner -> RunType] /\ HeldInv
    BY <1>3, <1>5, IdleIs DEF HeldInv
  <2>3. entry \in [Request -> [pool: Nat, count: Nat, current: Int]]
    BY <1>3 DEF NoEntry
  <2> QED BY <1>2, <1>3, <1>4, <2>1, <2>2, <2>3 DEF PoolsType, PoolsAreTyped
<1>7. PICK E : E = entries /\ E = {}
  BY <1>3
<1>8. /\ \A p : EntriesOf(p) = {}
      /\ \A p, a : TicketsOf(p, a) = {} /\ Tickets(p, a) = 0
      /\ \A a : SpentBy(a) = 0
  <2>1. \A p : EntriesOf(p) = {}
    BY <1>7 DEF EntriesOf
  <2>2. \A p, a : TicketsOf(p, a) = {}
    BY <2>1 DEF TicketsOf
  <2>3. \A p, a : Tickets(p, a) = 0
    BY <2>2, NoneCounted DEF Tickets
  <2>4. ASSUME NEW a PROVE SpentBy(a) = 0
    <3>1. {e \in entries : e.wallet = a} = {}
      BY <1>7
    <3> QED BY <3>1, NoneCounted DEF SpentBy
  <2> QED BY <2>1, <2>2, <2>3, <2>4
<1>9. \A l \in logs : l.source = "manual" /\ l.after = Purse
  BY DEF RaffleInit
<1>10. ASSUME NEW a \in Wallet PROVE RaffleRows(a) = {} /\ SumFunction([l \in RaffleRows(a) |-> l.diff]) = 0
  <2>1. RaffleRows(a) = {}
    BY <1>9 DEF RaffleRows, LogsOf
  <2> QED BY <2>1, NoneCounted
<1>11. TicketsMatchEntries
  <2>1. \A p \in DOMAIN pools : pools[p].total = SumFunction([e \in EntriesOf(p) |-> e.count])
    BY <1>2, <1>8, NoneCounted
  <2>2. \A a \in Wallet : SpentBy(a) + SumFunction([l \in RaffleRows(a) |-> l.diff]) = 0
    BY <1>8, <1>10
  <2> QED BY <2>1, <2>2 DEF TicketsMatchEntries, SpentBy, RaffleRows
<1>12. EntriesInv
  BY <1>4, <1>7, <1>11 DEF EntriesInv
<1>13. LimitInv
  BY <1>2, <1>4, <1>8 DEF LimitInv, QuietWithinLimit, PoolsAreTyped, UNLIMITED_ENTRIES
<1>14. QuietSpendIsCovered
  BY <1>9, TierAssumption DEF QuietSpendIsCovered, LogsOf
<1> QED BY <1>1, <1>4, <1>6, <1>12, <1>13, <1>14 DEF RaffleInv, DailyInv

LEMMA RaffleInvHolds == RaffleSpec => []RaffleInv
<1>1. RaffleInit => RaffleInv
  BY RaffleInvStarts
<1>2. RaffleInv /\ [RaffleNext]_vars => RaffleInv'
  BY RafflePointStep, DailyInvHolds, PoolsTypeHolds, EntriesHoldStep, SpendHoldsStep DEF RaffleInv
<1> QED BY <1>1, <1>2, PTL DEF RaffleSpec

(* raffle.ts 278-340 with lib/point.ts 41-75.  The ledger is the same with *)
(* the World raffle's entries among its transactions: balances are what    *)
(* was moved, receipts and days are credited once.                         *)
THEOREM RaffleLedgerHolds == RaffleSpec => []LedgerAddsUp
<1>1. RaffleInv => LedgerAddsUp
  BY PointsAddUp DEF RaffleInv
<1> QED BY <1>1, RaffleInvHolds, PTL

(* raffle.ts 278-340 and weighted-draw.ts 3-5.  However many requests      *)
(* enter the pools while others claim, are granted points, fail or roll    *)
(* the pools over, an entry that is paid for is in its pool and in its     *)
(* draw once, every ticket wins by exactly one number, and a wallet whose  *)
(* transactions never overlapped keeps to the tier's limit and to what it  *)
(* has: for any wallets, tiers, prices, limits and counts.                 *)
THEOREM EntriesHold == RaffleSpec => []EntriesAddUp
<1>1. ASSUME RaffleInv PROVE EntriesAddUp
  <2>1. PoolsType /\ TicketsMatchEntries /\ QuietWithinMeans
    BY <1>1 DEF RaffleInv, EntriesInv, LimitInv, QuietWithinMeans
  <2>2. ASSUME NEW p \in DOMAIN pools, NEW order \in SetToSeqs(Entrants(p)), NEW a \in Entrants(p)
        PROVE  Cardinality({t \in DOMAIN Draws(order, HeldIn(p)) : Draws(order, HeldIn(p))[t] = a})
                   = Tickets(p, a)
    <3>1. PICK S, held : S = Entrants(p) /\ held = HeldIn(p)
      OBVIOUS
    <3>2. /\ IsFiniteSet(S) /\ \A b \in S : b \in DOMAIN held /\ held[b] \in Nat
          /\ held[a] = Tickets(p, a)
      BY <2>1, <2>2, <3>1, HeldIsCounted
    <3>3. Cardinality({t \in DOMAIN Draws(order, held) : Draws(order, held)[t] = a}) = held[a]
      BY <2>2, <3>1, <3>2, DrawnByItsTickets
    <3> QED BY <3>1, <3>2, <3>3
  <2>3. EveryTicketWinsOnce
    BY <2>2 DEF EveryTicketWinsOnce
  <2> QED BY <2>1, <2>3 DEF EntriesAddUp, TicketsAddUp
<1> QED BY <1>1, RaffleInvHolds, PTL

-----------------------------------------------------------------------------
(* The roll-over.  As long as the cron alone rolls over, a pool that is    *)
(* neither drawn nor passed over is of the latest date there is, and a     *)
(* roll-over under way still has it before it.                             *)

HeldBy(r) == IF run[r].pc \in {"drawn", "minted"} THEN {run[r].pool} ELSE {}
Pending == run["cron"].todo \cup HeldBy("cron")

DatesInv == \A p \in DOMAIN pools : pools[p].date <= day

LinksInv ==
    \A r \in Runner : run[r].pc = "minted" =>
        run[r].link \in {NoLink, [pool |-> run[r].pool, receiver |-> run[r].winner]}

CronInv ==
    /\ \A r \in Runner : r # "cron" => run[r].pc = "idle"
    /\ due => run["cron"].pc = "idle" /\ \A p \in DOMAIN pools : pools[p].date < day
    /\ run["cron"].pc # "idle" =>
         /\ run["cron"].task = "both"
         /\ \A p \in DOMAIN pools : pools[p].date < day
         /\ \A p \in Pending : p \in DOMAIN pools /\ pools[p].winner = NoOne
         /\ HeldBy("cron") \cap run["cron"].todo = {}
    /\ \A p \in DOMAIN pools : pools[p].winner = NoOne /\ p \notin passedOver =>
         /\ \A x \in DOMAIN pools : pools[x].date <= pools[p].date
         /\ run["cron"].pc # "idle" => p \in Pending

RollInv == DatesInv /\ LinksInv /\ (byHand = 0 => CronInv)

LEMMA LatestOf ==
  ASSUME NEW S \in SUBSET Day, S # {}
  PROVE  Max(S) \in S /\ \A n \in S : n <= Max(S)
<1>1. MaxDay \in Nat /\ \A n \in S : n \in 0..MaxDay
  BY AwardAssumption DEF Day
<1> DEFINE T == {MaxDay - n : n \in S}
<1>2. T \in SUBSET Nat /\ T # {}
  BY <1>1
<1>3. \E k \in T : \A m \in T : k <= m
  <2> HIDE DEF T
  <2> QED BY <1>2, Least
<1>4. \E n \in S : \A m \in S : n >= m
  BY <1>1, <1>3
<1>5. PICK n \in S : \A m \in S : n >= m
  BY <1>4
<1>6. Max(S) \in S /\ \A m \in S : Max(S) >= m
  BY <1>5 DEF Max
<1> QED BY <1>1, <1>6

LEMMA LatestIs ==
  ASSUME PoolsType
  PROVE  /\ LatestDate \in Nat
         /\ \A p \in DOMAIN pools : pools[p].date <= LatestDate
         /\ \A p \in DOMAIN pools : (\A x \in DOMAIN pools : pools[x].date <= pools[p].date)
                                        => pools[p].date = LatestDate
<1> DEFINE S == {pools[p].date : p \in DOMAIN pools} \cup {0}
<1>1. S \in SUBSET Day /\ S # {}
  BY PoolIs, AwardAssumption DEF PoolsType, Day
<1>2. Max(S) \in S /\ \A n \in S : n <= Max(S)
  <2> HIDE DEF S
  <2> QED BY <1>1, LatestOf
<1>3. Max(S) = LatestDate
  BY DEF LatestDate
<1>4. PICK m : m = LatestDate
  OBVIOUS
<1>5. m \in S /\ (\A n \in S : n <= m) /\ \A n \in S : n \in Nat
  <2> HIDE DEF S
  <2>1. \A n \in S : n \in Nat
    BY <1>1 DEF Day
  <2> QED BY <1>2, <1>3, <1>4, <2>1
<1>6. \A p \in DOMAIN pools : pools[p].date \in Nat /\ pools[p].date <= m
  BY <1>5
<1>7. m = 0 \/ \E p \in DOMAIN pools : pools[p].date = m
  BY <1>5
<1>8. m \in Nat
  BY <1>5
<1> HIDE DEF S
<1> QED BY <1>4, <1>6, <1>7, <1>8

LEMMA PoolsUndisturbed ==
  ASSUME PoolsType, RollInv, UNCHANGED <<run, due, passedOver, byHand, day>>,
         DOMAIN pools' = DOMAIN pools,
         \A p \in DOMAIN pools : pools'[p].date = pools[p].date /\ pools'[p].winner = pools[p].winner
  PROVE  RollInv'
<1>1. Pending' = Pending /\ HeldBy("cron")' = HeldBy("cron")
  BY DEF Pending, HeldBy
<1> QED BY <1>1 DEF RollInv, DatesInv, LinksInv, CronInv

LEMMA StartRolls ==
  ASSUME PoolsType, RollInv, Fire
  PROVE  RollInv'
<1>1. /\ "cron" \in Runner /\ run["cron"].pc = "idle" /\ Keeps("cron")
      /\ run'["cron"].pc = "rolling" /\ run'["cron"].task = "both" /\ run'["cron"].todo = Undrawn
  BY TierAssumption, StartIs DEF Fire
<1>2. due /\ ~due' /\ UNCHANGED <<pools, passedOver, byHand, day>>
  BY DEF Fire, Start, pointVars
<1>3. DatesInv' /\ LinksInv'
  BY <1>1, <1>2 DEF RollInv, DatesInv, LinksInv, Keeps
<1>4. ASSUME byHand = 0 PROVE CronInv'
  <2>1. CronInv
    BY <1>4 DEF RollInv
  <2>2. Pending' = Undrawn /\ HeldBy("cron")' = {}
    BY <1>1 DEF Pending, HeldBy
  <2>3. \A p \in DOMAIN pools : pools[p].winner = NoOne /\ p \notin passedOver => p \in Undrawn
    BY <2>1, LatestIs DEF CronInv, Undrawn, TargetDate
  <2> QED BY <1>1, <1>2, <2>1, <2>2, <2>3 DEF CronInv, Keeps, Undrawn
<1> QED BY <1>2, <1>3, <1>4 DEF RollInv

LEMMA HandsRoll ==
  ASSUME PoolsType, RollInv, RunOnDemand
  PROVE  RollInv'
<1>1. PICK task \in {"both", "close", "create"} : Start("ops", task)
  BY TierAssumption DEF RunOnDemand
<1>2. "ops" \in Runner /\ byHand' # 0 /\ UNCHANGED <<pools, day>>
  BY <1>1 DEF RunOnDemand, Start, pointVars, PoolsType
<1>3. Keeps("ops") /\ run'["ops"].pc = "rolling"
  BY <1>1, <1>2, StartIs
<1> QED BY <1>2, <1>3 DEF RollInv, DatesInv, LinksInv, Keeps

LEMMA DrawRolls ==
  ASSUME PoolsType, RollInv, NEW r \in Runner, Draw(r)
  PROVE  RollInv'
<1>1. /\ Keeps(r) /\ run[r].pc = "rolling" /\ run'[r].task = run[r].task
      /\ UNCHANGED <<pools, due, byHand, day>>
  BY DrawIs DEF Draw, pointVars
<1>2. PICK p \in run[r].todo :
         /\ run'[r].todo = run[r].todo \ {p}
         /\ \/ run'[r].pc = "rolling" /\ passedOver' = passedOver \cup {p}
            \/ run'[r].pc = "drawn" /\ run'[r].pool = p /\ passedOver' = passedOver
  BY DrawIs
<1>3. DatesInv' /\ LinksInv'
  BY <1>1, <1>2 DEF RollInv, DatesInv, LinksInv, Keeps
<1>4. ASSUME byHand = 0 PROVE CronInv'
  <2>1. CronInv /\ r = "cron"
    BY <1>1, <1>4 DEF RollInv, CronInv
  <2>2. /\ Pending = run["cron"].todo
        /\ HeldBy("cron")' \subseteq {p}
        /\ \/ Pending' = Pending
           \/ Pending' = Pending \ {p} /\ passedOver' = passedOver \cup {p}
        /\ passedOver \subseteq passedOver'
    BY <1>1, <1>2, <2>1 DEF Pending, HeldBy
  <2>3. run'["cron"].pc # "idle" /\ HeldBy("cron")' \cap run'["cron"].todo = {}
    BY <1>2, <2>1, <2>2
  <2> QED BY <1>1, <2>1, <2>2, <2>3 DEF CronInv, Keeps
<1> QED BY <1>1, <1>3, <1>4 DEF RollInv

LEMMA MintRolls ==
  ASSUME PoolsType, HeldInv, RollInv, NEW r \in Runner, Mint(r)
  PROVE  RollInv'
<1>1. /\ Keeps(r) /\ run[r].pc = "drawn" /\ run'[r].pc = "minted"
      /\ run'[r].task = run[r].task /\ run'[r].todo = run[r].todo
      /\ run'[r].pool = run[r].pool /\ run'[r].winner = run[r].winner
      /\ run'[r].link \in {NoLink, [pool |-> run[r].pool, receiver |-> run[r].winner]}
  BY MintIs
<1>2. UNCHANGED <<pools, due, passedOver, byHand, day>>
  BY DEF Mint, pointVars
<1>3. DatesInv' /\ LinksInv'
  BY <1>1, <1>2 DEF RollInv, DatesInv, LinksInv, Keeps
<1>4. ASSUME byHand = 0 PROVE CronInv'
  <2>1. CronInv /\ r = "cron"
    BY <1>1, <1>4 DEF RollInv, CronInv
  <2>2. Pending' = Pending /\ HeldBy("cron")' = HeldBy("cron")
    BY <1>1, <2>1 DEF Pending, HeldBy
  <2> QED BY <1>1, <1>2, <2>1, <2>2 DEF CronInv, Keeps
<1> QED BY <1>2, <1>3, <1>4 DEF RollInv

LEMMA RecordRolls ==
  ASSUME PoolsType, HeldInv, RollInv, NEW r \in Runner, Record(r)
  PROVE  RollInv'
<1>1. /\ Keeps(r) /\ run[r].pc = "minted" /\ run'[r].pc = "rolling"
      /\ run'[r].task = run[r].task /\ run'[r].todo = run[r].todo
  BY RecordLetsGo
<1>2. UNCHANGED <<due, passedOver, byHand, day>>
  BY DEF Record, pointVars
<1>3. /\ PoolsGrow /\ DOMAIN pools' = DOMAIN pools
      /\ run[r].pool \in DOMAIN pools /\ run[r].winner \in Entrants(run[r].pool)
      /\ pools'[run[r].pool].winner = run[r].winner
      /\ \A p \in DOMAIN pools : p # run[r].pool => pools'[p] = pools[p]
  BY RecordIs
<1>4. run[r].winner # NoOne /\ \A p \in DOMAIN pools : pools'[p].date = pools[p].date
  BY <1>3, EntrantsAreWallets DEF PoolsGrow
<1>5. DatesInv' /\ LinksInv'
  BY <1>1, <1>2, <1>3, <1>4 DEF RollInv, DatesInv, LinksInv, Keeps
<1>6. ASSUME byHand = 0 PROVE CronInv'
  <2>1. CronInv /\ r = "cron"
    BY <1>1, <1>6 DEF RollInv, CronInv
  <2>2. /\ HeldBy("cron") = {run[r].pool} /\ HeldBy("cron")' = {}
        /\ Pending = run["cron"].todo \cup {run[r].pool} /\ Pending' = run["cron"].todo
    BY <1>1, <2>1 DEF Pending, HeldBy
  <2>3. run[r].pool \notin run["cron"].todo
    BY <1>1, <2>1, <2>2 DEF CronInv
  <2>4. \A p \in DOMAIN pools : pools'[p].winner = NoOne => p # run[r].pool /\ pools[p].winner = NoOne
    BY <1>3, <1>4
  <2> QED BY <1>1, <1>2, <1>3, <1>4, <2>1, <2>2, <2>3, <2>4 DEF CronInv, Keeps
<1> QED BY <1>2, <1>5, <1>6 DEF RollInv

LEMMA CreateRolls ==
  ASSUME PoolsType, RollInv, day \in Day, NEW r \in Runner, Create(r)
  PROVE  RollInv'
<1>1. Keeps(r) /\ run[r].pc # "idle" /\ run'[r].pc = "idle"
  BY EndIs
<1>2. UNCHANGED <<due, passedOver, byHand, day>> /\ run[r].pc = "rolling" /\ run[r].todo = {}
  BY DEF Create, pointVars, Reaches
<1>3. /\ DOMAIN pools \subseteq DOMAIN pools' /\ \A p \in DOMAIN pools : pools'[p] = pools[p]
      /\ \A p \in DOMAIN pools' \ DOMAIN pools : pools'[p].date = day
  BY CreateIs DEF PoolsGrow
<1>4. day \in Nat
  BY DEF Day
<1>5. DatesInv' /\ LinksInv'
  BY <1>1, <1>2, <1>3, <1>4 DEF RollInv, DatesInv, LinksInv, Keeps
<1>6. ASSUME byHand = 0 PROVE CronInv'
  <2>1. CronInv /\ r = "cron"
    BY <1>1, <1>6 DEF RollInv, CronInv
  <2>2. Pending = {} /\ ~due /\ \A p \in DOMAIN pools : pools[p].date < day
    BY <1>1, <1>2, <2>1 DEF Pending, HeldBy, CronInv
  <2>3. \A p \in DOMAIN pools : pools[p].winner = NoOne => p \in passedOver
    BY <1>1, <2>1, <2>2 DEF CronInv
  <2>4. ASSUME NEW p \in DOMAIN pools', pools'[p].winner = NoOne, p \notin passedOver
        PROVE  pools'[p].date = day
    BY <1>3, <2>3, <2>4
  <2> QED BY <1>1, <1>2, <1>5, <2>1, <2>2, <2>4 DEF CronInv, DatesInv, Keeps
<1> QED BY <1>2, <1>5, <1>6 DEF RollInv

LEMMA CrashRolls ==
  ASSUME PoolsType, RollInv, NEW r \in Runner, Crash(r)
  PROVE  RollInv'
<1>1. Keeps(r) /\ run[r].pc # "idle" /\ run'[r].pc = "idle"
  BY EndIs
<1>2. UNCHANGED <<pools, due, passedOver, byHand, day>>
  BY DEF Crash, pointVars
<1>3. DatesInv' /\ LinksInv'
  BY <1>1, <1>2 DEF RollInv, DatesInv, LinksInv, Keeps
<1>4. ASSUME byHand = 0 PROVE CronInv'
  <2>1. CronInv /\ r = "cron"
    BY <1>1, <1>4 DEF RollInv, CronInv
  <2> QED BY <1>1, <1>2, <2>1 DEF CronInv, Keeps
<1> QED BY <1>2, <1>3, <1>4 DEF RollInv

LEMMA NextDayRolls ==
  ASSUME PoolsType, RollInv, day \in Day, NextDay
  PROVE  RollInv'
<1>1. day' = day + 1 /\ run["cron"].pc = "idle" /\ UNCHANGED <<pools, run, passedOver, byHand>>
  BY DEF NextDay, Midnight, Reaches
<1>2. day \in Nat /\ \A p \in DOMAIN pools : pools[p].date \in Nat
  BY PoolIs DEF PoolsType, Day
<1>3. \A p \in DOMAIN pools : pools[p].date < day'
  BY <1>1, <1>2 DEF RollInv, DatesInv
<1>4. DatesInv' /\ LinksInv'
  BY <1>1, <1>2, <1>3 DEF RollInv, DatesInv, LinksInv
<1>5. Pending' = Pending /\ HeldBy("cron")' = HeldBy("cron")
  BY <1>1 DEF Pending, HeldBy
<1>6. ASSUME byHand = 0 PROVE CronInv'
  <2>1. CronInv
    BY <1>6 DEF RollInv
  <2> QED BY <1>1, <1>3, <1>5, <2>1 DEF CronInv
<1> QED BY <1>1, <1>4, <1>6 DEF RollInv

LEMMA RollInvStarts == ASSUME RaffleInit PROVE RollInv
<1>1. /\ \A p \in DOMAIN pools : pools[p].date = 0
      /\ day = 0 /\ due = FALSE /\ \A r \in Runner : run[r] = Idle
  BY FirstPools DEF RaffleInit
<1>2. \A r \in Runner : run[r].pc = "idle"
  BY <1>1, IdleIs
<1> QED BY <1>1, <1>2, TierAssumption DEF RollInv, DatesInv, LinksInv, CronInv

\* What is not of the roll-over takes no pool and no date.
LEMMA OthersRollNothing ==
  ASSUME PointsInv, PoolsType, RollInv, NEW q \in Request,
         \/ \E a \in Wallet : \/ \E p, n : apply(q, a, p, n)
                              \/ AskLedger(q, a) /\ UNCHANGED raffleVars
         \/ BeginApply(q) \/ SettleEntry(q) \/ (Serve(q) /\ UNCHANGED raffleVars)
  PROVE  RollInv' /\ \A p \in DOMAIN pools : pools'[p].winner = pools[p].winner
<1>1. CASE \E a \in Wallet : \E p, n : apply(q, a, p, n)
  <2>1. UNCHANGED <<pools, run, due, passedOver, byHand, day>>
    BY <1>1 DEF apply
  <2> QED BY <2>1, PoolsUndisturbed
<1>2. CASE BeginApply(q)
  <2>1. UNCHANGED <<pools, run, due, passedOver, byHand, day>>
    BY <1>2 DEF BeginApply, raffleVars
  <2> QED BY <2>1, PoolsUndisturbed
<1>3. CASE SettleEntry(q)
  <2>1. UNCHANGED <<run, due, passedOver, byHand, day>> /\ pools' = Counted(q) /\ Raffles(q)
    BY <1>3 DEF SettleEntry, Raffles
  <2>2. /\ PoolsGrow /\ DOMAIN pools' = DOMAIN pools
        /\ \A p \in DOMAIN pools : pools'[p].winner = pools[p].winner
    BY <2>1, CountedIs
  <2> QED BY <2>1, <2>2, PoolsUndisturbed DEF PoolsGrow
<1>4. CASE UNCHANGED raffleVars /\ (Serve(q) \/ \E a \in Wallet : AskLedger(q, a))
  <2>1. UNCHANGED <<pools, run, due, passedOver, byHand>>
    BY <1>4 DEF raffleVars
  <2>2. day' = day
    BY <1>4 DEF Serve, ReadNewest, BeginAtNewest, SettleClaim, SettleDaily, SettleGrant, Rollback,
           AskLedger, claimPoint, BeginClaim, claimDailyPoint, insertManualPoint, insertPointToAll, Check
  <2> QED BY <2>1, <2>2, PoolsUndisturbed
<1> QED BY <1>1, <1>2, <1>3, <1>4

LEMMA RollInvStep ==
  ASSUME RaffleInv, RollInv, [RaffleNext]_vars
  PROVE  RollInv'
<1>1. PointsInv /\ PoolsType /\ HeldInv /\ day \in Day
  BY DEF RaffleInv, PointsInv, LedgerInv, LedgerType
<1>2. ASSUME NEW r \in Runner, Roll(r) PROVE RollInv'
  BY <1>1, <1>2, DrawRolls, MintRolls, RecordRolls, CreateRolls, CrashRolls DEF Roll
<1>3. ASSUME NEW link, raffleReceived(link) PROVE RollInv'
  <2>1. UNCHANGED <<run, due, passedOver, byHand, day>>
    BY <1>3 DEF raffleReceived, pointVars
  <2>2. /\ PoolsGrow /\ DOMAIN pools' = DOMAIN pools
        /\ \A p \in DOMAIN pools : pools'[p].winner = pools[p].winner
    BY <1>1, <1>3, ReceivedIs
  <2> QED BY <1>1, <2>1, <2>2, PoolsUndisturbed DEF PoolsGrow
<1>4. CASE UNCHANGED vars
  BY <1>1, <1>4, PoolsUndisturbed DEF vars, raffleVars, pointVars
<1> QED BY <1>1, <1>2, <1>3, <1>4, StartRolls, HandsRoll, NextDayRolls, OthersRollNothing DEF RaffleNext

LEMMA RollInvHolds == RaffleSpec => [](RaffleInv /\ RollInv)
<1>1. RaffleInit => RollInv
  BY RollInvStarts
<1>2. RaffleInv /\ RollInv /\ [RaffleNext]_vars => RollInv'
  BY RollInvStep
<1> QED BY <1>1, <1>2, RaffleInvHolds, PTL DEF RaffleSpec

(* lib/raffle/index.ts 80-82.  With no roll-over but the cron's, whatever  *)
(* days it misses and wherever it is broken off, once there are pools of a *)
(* later day every earlier pool has been drawn, or had no entry when its   *)
(* turn came: for any number of tiers, pools and days.                     *)
THEOREM NoPoolIsLeft == RaffleSpec => []NoPoolLeftBehind
<1>1. ASSUME RaffleInv, RollInv PROVE NoPoolLeftBehind
  <2>1. PoolsType
    BY <1>1 DEF RaffleInv
  <2> SUFFICES ASSUME byHand = 0, NEW p \in DOMAIN pools, pools[p].date < LatestDate,
                      pools[p].winner = NoOne, p \notin passedOver
               PROVE  FALSE
    BY DEF NoPoolLeftBehind
  <2>2. pools[p].date = LatestDate
    BY <1>1, <2>1, LatestIs DEF RollInv, CronInv
  <2>3. LatestDate \in Nat
    BY <2>1, LatestIs
  <2> QED BY <2>2, <2>3
<1> QED BY <1>1, RollInvHolds, PTL

(* lib/raffle/index.ts 84-160.  With no roll-over but the cron's, a winner *)
(* is written over nobody, after the pool's day has ended, holds a ticket  *)
(* of that pool, and is the one whose link was minted for it.              *)
THEOREM DrawnOnce == RaffleSpec => DrawsOnceAfterTheDay
<1> DEFINE DrawnWell ==
      \A p \in DOMAIN pools :
          byHand = 0 /\ pools'[p].winner # pools[p].winner =>
              /\ pools[p].winner = NoOne /\ pools[p].date < day
              /\ Tickets(p, pools'[p].winner) > 0
              /\ pools'[p].link \in {NoLink, [pool |-> p, receiver |-> pools'[p].winner]}
<1>1. ASSUME RaffleInv, RollInv, [RaffleNext]_vars PROVE DrawnWell
  <2>1. PointsInv /\ PoolsType /\ HeldInv /\ day \in Day
    BY <1>1 DEF RaffleInv, PointsInv, LedgerInv, LedgerType
  <2>2. ASSUME NEW r \in Runner, Record(r) PROVE DrawnWell
    <3> SUFFICES ASSUME NEW p \in DOMAIN pools, byHand = 0, pools'[p].winner # pools[p].winner
                 PROVE  /\ pools[p].winner = NoOne /\ pools[p].date < day
                        /\ Tickets(p, pools'[p].winner) > 0
                        /\ pools'[p].link \in {NoLink, [pool |-> p, receiver |-> pools'[p].winner]}
      OBVIOUS
    <3>1. /\ p = run[r].pool /\ run[r].winner \in Entrants(p) /\ pools'[p].winner = run[r].winner
          /\ pools'[p].link = run[r].link
      BY <2>1, <2>2, RecordIs
    <3>2. run[r].pc = "minted" /\ CronInv /\ r = "cron"
      BY <1>1, <2>1, <2>2, RecordLetsGo DEF RollInv, CronInv
    <3>3. pools[p].winner = NoOne /\ pools[p].date < day
      BY <3>1, <3>2 DEF CronInv, Pending, HeldBy
    <3>4. Tickets(p, run[r].winner) > 0
      BY <2>1, <3>1, TicketsAreNumbers
    <3>5. run[r].link \in {NoLink, [pool |-> p, receiver |-> run[r].winner]}
      BY <1>1, <3>1, <3>2 DEF RollInv, LinksInv
    <3> QED BY <3>1, <3>3, <3>4, <3>5
  <2>3. ASSUME \A p \in DOMAIN pools : pools'[p].winner = pools[p].winner PROVE DrawnWell
    BY <2>3
  <2> HIDE DEF DrawnWell
  <2>4. ASSUME NEW r \in Runner, Roll(r) PROVE DrawnWell
    <3>1. CASE Create(r)
      BY <2>1, <2>3, <3>1, CreateIs
    <3>2. CASE Draw(r) \/ Mint(r) \/ Crash(r)
      BY <2>3, <3>2 DEF Draw, Mint, Crash
    <3> QED BY <2>2, <2>4, <3>1, <3>2 DEF Roll
  <2>5. CASE Fire \/ RunOnDemand
    BY <2>3, <2>5 DEF Fire, RunOnDemand, Start
  <2>6. CASE NextDay \/ UNCHANGED vars
    BY <2>3, <2>6 DEF NextDay, vars, raffleVars
  <2>7. ASSUME NEW link, raffleReceived(link) PROVE DrawnWell
    BY <2>1, <2>3, <2>7, ReceivedIs
  <2> QED BY <1>1, <2>1, <2>3, <2>4, <2>5, <2>6, <2>7, OthersRollNothing DEF RaffleNext
<1> QED BY <1>1, RollInvHolds, PTL DEF RaffleSpec, DrawsOnceAfterTheDay

=================================================================================
