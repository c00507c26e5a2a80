------------------------------ MODULE EpochVault ------------------------------
(***************************************************************************)
(* packages/hedge/src/EpochVault.sol and the two OutcomeToken clones of    *)
(* each market, composed with the oracle they settle from: collateral goes *)
(* in as complete sets of HIGH and LOW, the index decides how a unit is    *)
(* divided, and holders redeem what their side is worth.                   *)
(*                                                                         *)
(* split() is two steps.  Between the balance it reads before pulling the  *)
(* collateral and the balance it reads after, the collateral token runs,   *)
(* and whatever the token calls back into may happen: every call of the    *)
(* vault that is not nonReentrant, every call of the oracle, transfers of  *)
(* outcome tokens, and collateral sent to the vault directly.  All of it   *)
(* is inside one transaction, so no block time passes.  merge() and        *)
(* redeem() send the collateral last, so they are single steps.            *)
(***************************************************************************)
EXTENDS HaloIndexOracle, Sequences

CONSTANTS
    Market,     \* markets that may be created: [key, strike, cap]
    Amounts,    \* amounts of collateral, and of outcome tokens, a call may name
    WAD,        \* one WAD, 10^18 in the code
    MaxVault    \* bound of this model: collateral the vault ever holds

ASSUME MarketAssumption == Market \subseteq [key: Key, strike: Int, cap: Int]
ASSUME FiniteMarketAssumption == IsFiniteSet(Market)   \* strike and cap are an int256
ASSUME VaultAmountAssumption == Amounts \subseteq Nat \ {0} /\ MaxVault \in Nat
ASSUME WadAssumption == WAD \in Nat \ {0} /\ WAD % 2 = 0

VARIABLES
    created,        \* markets createMarket has made
    collateral,     \* Market.collateral
    payoutHighWad,  \* Market.payoutHighWad
    settled,        \* markets whose settled flag is set
    voided,         \* markets whose voided flag is set
    high, low,      \* OutcomeToken.balanceOf of each side, per market and holder
    supplyHigh,     \* OutcomeToken.totalSupply
    supplyLow,
    openInterest,   \* _openInterest, per (series, epoch)
    vaultBalance,   \* collateralToken.balanceOf(vault)
    inFlight        \* splits between their two balance reads, innermost first

supplyVars == <<high, low, supplyHigh, supplyLow>>
ledgerVars == <<created, collateral, payoutHighWad, settled, voided, openInterest>>
vaultVars == <<ledgerVars, supplyVars, vaultBalance, inFlight>>
allVars == <<oracleVars, vaultVars>>

VaultInit ==
    /\ OracleInit
    /\ created = {} /\ settled = {} /\ voided = {}
    /\ collateral = [m \in Market |-> 0]
    /\ payoutHighWad = [m \in Market |-> 0]
    /\ high = [m \in Market |-> [a \in Account |-> 0]]
    /\ low = [m \in Market |-> [a \in Account |-> 0]]
    /\ supplyHigh = [m \in Market |-> 0]
    /\ supplyLow = [m \in Market |-> 0]
    /\ openInterest = [k \in Key |-> 0]
    /\ vaultBalance = 0
    /\ inFlight = <<>>

-----------------------------------------------------------------------------
(* Helpers.                                                                *)

(* Mutant of isFrozen: frozen until a value is up, not until it is final.  *)
isFrozenUntilPublished(m) ==
    /\ m \in created
    /\ freezeAt(m.key) # 0
    /\ now >= freezeAt(m.key)
    /\ statusOf(m.key) = "Open"

(* Whether nobody may reprice the market: its epoch has closed and the     *)
(* oracle has not decided it.  closesAt is 0 until the epoch is opened.    *)
isFrozen(m) ==
    /\ m \in created
    /\ freezeAt(m.key) # 0
    /\ now >= freezeAt(m.key)
    /\ statusOf(m.key) \notin Terminal

(* Mutant of Unlocked: no nonReentrant modifier.                           *)
NeverLocked == TRUE

(* The lock of nonReentrant (130-135) is held by a split in flight.        *)
Unlocked == inFlight = <<>>

(* Mutant of Tradeable: the freeze binds the pool, not the vault.          *)
TradeableThroughTheFreeze(m) == m \in created /\ m \notin settled

Tradeable(m) == m \in created /\ m \notin settled /\ ~isFrozen(m)

(* Mutant of payoff: a value at or beyond the cap is not clamped.          *)
payoffUncapped(m, value) ==
    IF value <= m.strike THEN 0
    ELSE ((value - m.strike) * WAD) \div (m.cap - m.strike)

(* The share of a unit HIGH receives for a finalised value.                *)
payoff(m, value) ==
    IF value <= m.strike THEN 0
    ELSE IF value >= m.cap THEN WAD
    ELSE ((value - m.strike) * WAD) \div (m.cap - m.strike)

(* Mutants of redemption: one side is rounded up; one side is handed what  *)
(* the other side's rounding leaves.                                       *)
redemptionRoundingUp(h, l, p) ==
    LET pair == IF h < l THEN h ELSE l
    IN  pair + ((h - pair) * p + WAD - 1) \div WAD + ((l - pair) * (WAD - p)) \div WAD
redemptionOfTheRemainder(h, l, p) ==
    LET pair == IF h < l THEN h ELSE l
    IN  pair + ((h - pair) * p) \div WAD + ((l - pair) - ((l - pair) * p) \div WAD)

(* What redeem pays for h HIGH and l LOW at ratio p: complete sets at one  *)
(* for one, the unmatched rest at the ratio, rounded down.                 *)
redemption(h, l, p) ==
    LET pair == IF h < l THEN h ELSE l
    IN  pair + ((h - pair) * p) \div WAD + ((l - pair) * (WAD - p)) \div WAD

-----------------------------------------------------------------------------
(* OutcomeToken.                                                           *)

mintBoth(m, to, amount) ==
    /\ high' = [high EXCEPT ![m][to] = @ + amount]
    /\ low' = [low EXCEPT ![m][to] = @ + amount]
    /\ supplyHigh' = [supplyHigh EXCEPT ![m] = @ + amount]
    /\ supplyLow' = [supplyLow EXCEPT ![m] = @ + amount]

(* Mutant of burnBoth: the second burn is forgotten.                       *)
burnHighOnly(m, from, h, l) ==
    /\ high[m][from] >= h /\ low[m][from] >= l
    /\ high' = [high EXCEPT ![m][from] = @ - h]
    /\ supplyHigh' = [supplyHigh EXCEPT ![m] = @ - h]
    /\ UNCHANGED <<low, supplyLow>>

burnBoth(m, from, h, l) ==
    /\ high[m][from] >= h /\ low[m][from] >= l
    /\ high' = [high EXCEPT ![m][from] = @ - h]
    /\ low' = [low EXCEPT ![m][from] = @ - l]
    /\ supplyHigh' = [supplyHigh EXCEPT ![m] = @ - h]
    /\ supplyLow' = [supplyLow EXCEPT ![m] = @ - l]

(* Mutant of moved: both balances are read before either is written.       *)
movedReadingFirst(balance, from, to, amount) ==
    [balance EXCEPT ![from] = @ - amount, ![to] = balance[to] + amount]

moved(balance, from, to, amount) ==
    [[balance EXCEPT ![from] = @ - amount] EXCEPT ![to] = @ + amount]

(* transfer, and transferFrom under an allowance: neither looks at the     *)
(* freeze, the lock or the settlement.                                     *)
transferHigh(m, from, to, amount) ==
    /\ m \in created /\ high[m][from] >= amount
    /\ high' = [high EXCEPT ![m] = moved(@, from, to, amount)]
    /\ UNCHANGED <<oracleVars, ledgerVars, low, supplyHigh, supplyLow, vaultBalance, inFlight>>

transferLow(m, from, to, amount) ==
    /\ m \in created /\ low[m][from] >= amount
    /\ low' = [low EXCEPT ![m] = moved(@, from, to, amount)]
    /\ UNCHANGED <<oracleVars, ledgerVars, high, supplyHigh, supplyLow, vaultBalance, inFlight>>

-----------------------------------------------------------------------------
(* The vault's calls.                                                      *)

createMarket(m) ==
    /\ m.cap > m.strike
    /\ m \notin created
    /\ created' = created \cup {m}
    /\ UNCHANGED <<oracleVars, collateral, payoutHighWad, settled, voided, openInterest,
                   supplyVars, vaultBalance, inFlight>>

(* Mutant of book: open interest only ever grows.                          *)
bookDeposits(m, units) ==
    /\ collateral' = [collateral EXCEPT ![m] = @ + units]
    /\ openInterest' = [openInterest EXCEPT ![m.key] = IF units > 0 THEN @ + units ELSE @]

(* What a market holds and what the oracle sees at risk move together.     *)
book(m, units) ==
    /\ collateral' = [collateral EXCEPT ![m] = @ + units]
    /\ openInterest' = [openInterest EXCEPT ![m.key] = @ + units]

(* split, up to and including safeTransferFrom; what arrives may be less   *)
(* than what was asked for, and a deposit of nothing reverts the call.     *)
splitPull(m, who, received) ==
    /\ Unlocked
    /\ Tradeable(m)
    /\ vaultBalance + received <= MaxVault
    /\ inFlight' = <<[market |-> m, who |-> who, before |-> vaultBalance]>> \o inFlight
    /\ vaultBalance' = vaultBalance + received
    /\ UNCHANGED <<oracleVars, ledgerVars, supplyVars>>

(* split, from the second balance on: nothing is checked again.            *)
splitMint ==
    LET flight == Head(inFlight)
        minted == vaultBalance - flight.before
    IN
    /\ inFlight # <<>>
    /\ book(flight.market, minted)
    /\ mintBoth(flight.market, flight.who, minted)
    /\ inFlight' = Tail(inFlight)
    /\ UNCHANGED <<oracleVars, created, payoutHighWad, settled, voided, vaultBalance>>

merge(m, who, amount) ==
    /\ Unlocked
    /\ Tradeable(m)
    /\ burnBoth(m, who, amount, amount)
    /\ collateral[m] >= amount /\ openInterest[m.key] >= amount /\ vaultBalance >= amount
    /\ book(m, -amount)
    /\ vaultBalance' = vaultBalance - amount
    /\ UNCHANGED <<oracleVars, created, payoutHighWad, settled, voided, inFlight>>

settle(m) ==
    /\ m \in created /\ m \notin settled
    /\ Readable(m.key)
    /\ payoutHighWad' = [payoutHighWad EXCEPT ![m] = payoff(m, epochs[m.key].valueBps)]
    /\ settled' = settled \cup {m}
    /\ UNCHANGED <<oracleVars, created, collateral, voided, openInterest,
                   supplyVars, vaultBalance, inFlight>>

settleVoid(m) ==
    /\ m \in created /\ m \notin settled
    /\ isVoided(m.key)
    /\ payoutHighWad' = [payoutHighWad EXCEPT ![m] = WAD \div 2]
    /\ voided' = voided \cup {m}
    /\ settled' = settled \cup {m}
    /\ UNCHANGED <<oracleVars, created, collateral, openInterest,
                   supplyVars, vaultBalance, inFlight>>

(* Open interest is left alone.                                            *)
redeem(m, who) ==
    LET paid == redemption(high[m][who], low[m][who], payoutHighWad[m]) IN
    /\ Unlocked
    /\ m \in settled
    /\ high[m][who] + low[m][who] > 0
    /\ burnBoth(m, who, high[m][who], low[m][who])
    /\ collateral[m] >= paid /\ vaultBalance >= paid
    /\ collateral' = [collateral EXCEPT ![m] = @ - paid]
    /\ vaultBalance' = vaultBalance - paid
    /\ UNCHANGED <<oracleVars, created, payoutHighWad, settled, voided, openInterest, inFlight>>

(* Collateral sent to the vault with no call to it: it belongs to no       *)
(* market, unless a split is measuring its deposit at that moment.         *)
sendCollateral(amount) ==
    /\ vaultBalance + amount <= MaxVault
    /\ vaultBalance' = vaultBalance + amount
    /\ UNCHANGED <<oracleVars, ledgerVars, supplyVars, inFlight>>

-----------------------------------------------------------------------------
(* The system: vault, outcome tokens and oracle on one chain.              *)

Merge(m) == \E who \in Account, amount \in Amounts : merge(m, who, amount)
SplitPull(m) == \E who \in Account, received \in Amounts : splitPull(m, who, received)
Redeem(m) == \E who \in Account : redeem(m, who)
Transfer(m) == \E from, to \in Account, amount \in Amounts :
                   transferHigh(m, from, to, amount) \/ transferLow(m, from, to, amount)

MarketCall(m) ==
    \/ createMarket(m)
    \/ SplitPull(m)
    \/ Merge(m)
    \/ settle(m)
    \/ settleVoid(m)
    \/ Redeem(m)
    \/ Transfer(m)

(* The oracle reads what is at risk from the vault it is wired to.         *)
OracleCall ==
    /\ (\E k \in Key : EpochCall(k, openInterest[k])) \/ GovernanceCall
    /\ UNCHANGED vaultVars

BlockTime == Unlocked /\ Tick /\ UNCHANGED vaultVars

VaultNext ==
    \/ \E m \in Market : MarketCall(m)
    \/ splitMint
    \/ \E amount \in Amounts : sendCollateral(amount)
    \/ OracleCall
    \/ BlockTime

VaultSpec == VaultInit /\ [][VaultNext]_allVars

(* A transaction that has begun runs to its end.  A block holds finitely   *)
(* many transactions, so splits cannot hold time still for ever (strong    *)
(* fairness).  Somebody with a stake voids an overdue epoch and settles a  *)
(* decided market: both calls are open to anyone.                          *)
VaultFairness ==
    /\ WF_allVars(splitMint)
    /\ SF_allVars(BlockTime)
    /\ \A k \in Key : WF_allVars(voidEpoch(k) /\ UNCHANGED vaultVars)
    /\ \A m \in Market : WF_allVars(settle(m)) /\ WF_allVars(settleVoid(m))

FairVaultSpec == VaultSpec /\ VaultFairness

-----------------------------------------------------------------------------
(* Properties.                                                             *)

Flight == [market: Market, who: Account, before: Nat]

VaultTypeOK ==
    /\ OracleTypeOK
    /\ created \subseteq Market /\ settled \subseteq created /\ voided \subseteq settled
    /\ collateral \in [Market -> Nat]
    /\ payoutHighWad \in [Market -> 0..WAD]
    /\ high \in [Market -> [Account -> Nat]]
    /\ low \in [Market -> [Account -> Nat]]
    /\ supplyHigh \in [Market -> Int]
    /\ supplyLow \in [Market -> Int]
    /\ openInterest \in [Key -> Nat]
    /\ vaultBalance \in Nat
    /\ inFlight \in Seq(Flight) /\ Len(inFlight) <= 1
    /\ \A i \in DOMAIN inFlight : inFlight[i].before <= vaultBalance

(* While a value stands or is disputed, its bond is at least twice what    *)
(* every market on that epoch has at stake, at the rate it was priced at:  *)
(* the figure read at publication (requiredBond 291-303) cannot be         *)
(* outgrown by splits afterwards, because publication is only possible     *)
(* after the close and the freeze lasts from the close to the decision     *)
(* (isFrozen 223-232).                                                     *)
BondCoversInterest ==
    \A k \in Key : statusOf(k) \in AwaitingDecision =>
        epochs[k].bond >= openInterest[k] * pricedAt[k] * BOND_MULTIPLE

(* Until a market is settled every unit of its collateral is backed by one *)
(* complete set, through split, merge and the calls a hooked token makes   *)
(* inside a split.                                                         *)
FullyCollateralised ==
    \A m \in Market \ settled :
        collateral[m] = supplyHigh[m] /\ collateral[m] = supplyLow[m]

(* Once it is settled, what it still holds covers every claim still out at *)
(* the ratio that was fixed, whoever redeemed before and however their     *)
(* payouts were rounded - also when the market was settled from inside a   *)
(* split that mints afterwards.                                            *)
Solvent ==
    \A m \in settled :
        WAD * collateral[m] >= supplyHigh[m] * payoutHighWad[m]
                             + supplyLow[m] * (WAD - payoutHighWad[m])

(* Before and after, nothing is claimed of a market that it does not hold. *)
CoversItsClaims == FullyCollateralised /\ Solvent

(* "Rounding both down is what guarantees the last redeemer never reverts" *)
(* (redeem 385): what all remaining holders are owed together, each        *)
(* rounded as redeem rounds it, fits in the collateral of their market.    *)
LastRedeemerIsPaid ==
    \A m \in settled :
        SumFunction([a \in Account |-> redemption(high[m][a], low[m][a], payoutHighWad[m])])
            <= collateral[m]

(* The unchecked arithmetic of OutcomeToken (mint 100, burn 110, _transfer *)
(* 147) keeps a supply equal to what its holders hold.                     *)
SupplyIsHeld ==
    \A m \in Market : /\ supplyHigh[m] = SumFunction(high[m])
                      /\ supplyLow[m] = SumFunction(low[m])

(* Markets never share: the collateral booked to each of them is in the    *)
(* vault at the same time, and no deposit is booked twice although the     *)
(* amount booked is measured as a balance delta.                           *)
VaultHoldsEveryPot == SumFunction(collateral) <= vaultBalance

(* The bond is sized from the sum over every market on an epoch: until one *)
(* of them is settled, open interest is what those markets hold.           *)
InterestIsCollateral ==
    \A k \in Key : (\A m \in settled : m.key # k) =>
        openInterest[k] = SumFunctionOnSet(collateral, {m \in Market : m.key = k})

(* Every claim somebody holds is one the supply counts and is paid, and a  *)
(* HIGH and a LOW together are never worth more than the unit behind them  *)
(* (settle 341-350).                                                       *)
EveryClaimIsPaid ==
    /\ SupplyIsHeld /\ LastRedeemerIsPaid
    /\ \A m \in settled : payoutHighWad[m] \in 0..WAD

(* What the vault keeps once and what it keeps per market agree, and the   *)
(* oracle under it holds the bonds of the undecided epochs, all and only.  *)
PotsAddUp == VaultHoldsEveryPot /\ InterestIsCollateral /\ BondCustody

(* A settled market divides its pot as the oracle's final answer says, and *)
(* two markets on one epoch can never settle on different answers.         *)
SettledAsDecided ==
    \A m \in settled :
        IF m \in voided THEN isVoided(m.key) /\ payoutHighWad[m] = WAD \div 2
        ELSE Readable(m.key) /\ payoutHighWad[m] = payoff(m, epochs[m.key].valueBps)

(* "Until then the position set is fixed" (isFrozen 215-216): between the  *)
(* close and the decision no outcome token is minted or burned.            *)
SupplyFixedWhileFrozen ==
    [][\A m \in Market : isFrozen(m) =>
          supplyHigh'[m] = supplyHigh[m] /\ supplyLow'[m] = supplyLow[m]]_allVars

(* The vault implements the abstract escrow, market by market.             *)
Escrow == INSTANCE CoverEscrow WITH
    Undecided <- -1,
    pot <- collateral,
    ratio <- [m \in Market |-> IF m \in settled THEN payoutHighWad[m] ELSE -1],
    claimsHigh <- supplyHigh,
    claimsLow <- supplyLow

ImplementsEscrow == Escrow!EscrowSpec

(* No collateral is stranded: once its epoch is open, a market becomes     *)
(* redeemable, whatever publishers, governance and holders do or fail to   *)
(* do, and however they keep splitting and merging meanwhile (settle 334,  *)
(* settleVoid 364, voidEpoch 405: all permissionless for this purpose).    *)
CollateralIsReleased ==
    \A m \in Market : (m \in created /\ statusOf(m.key) = "Open") ~> m \in settled

=============================================================================
