-------------------------------- MODULE HaloHook --------------------------------
(***************************************************************************)
(* packages/hedge/src/HaloHook.sol: the Uniswap v4 hook of the pools that  *)
(* trade HIGH tokens against collateral, composed with the vault and the   *)
(* oracle it asks.  The PoolManager calls it inside every swap and every   *)
(* change of liquidity, and a revert of the hook reverts the call.         *)
(*                                                                         *)
(* The PoolManager is outside this repository.  What a pool has is two     *)
(* amounts, its reserves; the price curve is left open, so a swap may give *)
(* any output the reserves can pay, and whose liquidity it is is not kept. *)
(* The PoolManager is an account of the outcome tokens like any other.     *)
(***************************************************************************)
EXTENDS EpochVault

CONSTANTS
    Pool,          \* pools: the market whose HIGH they trade, and a number
    NoMarket,      \* bytes32(0)
    PoolManager,   \* the account of v4's PoolManager
    Dollars,       \* the currency that is not an outcome token
    BASE_FEE, MAX_FEE, RAMP,
    BACKSTOP_FEE, MAX_LP_FEE,
    MaxDollars     \* bound of this model: collateral the pools ever hold

ASSUME PoolAssumption ==
    /\ Pool \subseteq Market \X Nat /\ IsFiniteSet(Pool)
    /\ NoMarket \notin Market /\ Dollars \notin Market /\ PoolManager \in Account
ASSUME FeeAssumption ==
    /\ BASE_FEE \in Nat /\ MAX_FEE \in Nat /\ BASE_FEE <= MAX_FEE /\ RAMP \in Nat \ {0}
    /\ BACKSTOP_FEE \in Nat /\ MAX_LP_FEE \in Nat \ {0} /\ BACKSTOP_FEE <= MAX_LP_FEE
    /\ MaxDollars \in Nat

VARIABLES
    hookGovernance,  \* governance of the hook
    marketOf,        \* the market each pool is bound to
    backstop,        \* claims on the PoolManager, per currency
    reserves,            \* what each pool has: HIGH and dollars
    dollarsHeld      \* collateralToken.balanceOf(PoolManager)

bindingVars == <<hookGovernance, marketOf>>
poolVars == <<backstop, reserves, dollarsHeld>>
hookVars == <<bindingVars, poolVars>>
marketVars == <<allVars, hookVars>>

Currency == Market \cup {Dollars}
Trader == Account \ {PoolManager}

HookInit ==
    /\ VaultInit
    /\ hookGovernance \in Trader \cup {NoOne}
    /\ marketOf = [p \in Pool |-> NoMarket]
    /\ backstop = [c \in Currency |-> 0]
    /\ reserves = [p \in Pool |-> [high |-> 0, dollars |-> 0]]
    /\ dollarsHeld = 0

-----------------------------------------------------------------------------
(* The rules.                                                              *)

(* Mutant of climb: the part of the ramp still ahead, not the part behind. *)
climbDown(remaining) == ((MAX_FEE - BASE_FEE) * remaining) \div RAMP

climb(remaining) == ((MAX_FEE - BASE_FEE) * (RAMP - remaining)) \div RAMP

(* A market that does not exist has no close, like an epoch not yet opened.*)
closesAt(m) == IF m \in created THEN freezeAt(m.key) ELSE 0

(* Mutant of feeFor: a pool that outlives its epoch is not clamped.        *)
feeForUnclamped(m) ==
    IF closesAt(m) = 0 THEN BASE_FEE
    ELSE IF now < closesAt(m) /\ closesAt(m) - now >= RAMP THEN BASE_FEE
    ELSE BASE_FEE + climb(closesAt(m) - now)

feeFor(m) ==
    IF closesAt(m) = 0 THEN BASE_FEE
    ELSE IF now >= closesAt(m) THEN MAX_FEE
    ELSE IF closesAt(m) - now >= RAMP THEN BASE_FEE
    ELSE BASE_FEE + climb(closesAt(m) - now)

Bound(p) == marketOf[p] # NoMarket
MarketIsOpen(p) == Bound(p) /\ ~isFrozen(marketOf[p])

(* Mutant of RemovalAllowed: removals are left open during the window.     *)
RemovalAlwaysAllowed(p) == Bound(p)

RemovalAllowed(p) == MarketIsOpen(p)

(* afterSwap takes its slice from the currency the trader did not pin down,*)
(* and only if that is the output.                                         *)
slice(takes, exactInput) == IF exactInput THEN (takes * BACKSTOP_FEE) \div MAX_LP_FEE ELSE 0

(* Mutant of PaidOut: the hook's address lacks afterSwapReturnDelta, so the*)
(* slice is claimed and the trader is still paid in full.                  *)
PaidOutInFull(takes, exactInput) == takes

(* What reaches the trader once the hook's delta is taken off.             *)
PaidOut(takes, exactInput) == takes - slice(takes, exactInput)

-----------------------------------------------------------------------------
(* Calls of the hook, and of the PoolManager around it.  Each of the latter*)
(* is settled by a transfer of HIGH and one of dollars.                    *)

bindPool(p, m) ==
    /\ hookGovernance # NoOne
    /\ marketOf' = [marketOf EXCEPT ![p] = m]
    /\ UNCHANGED <<allVars, hookGovernance, poolVars>>

setHookGovernance(next) ==
    /\ hookGovernance # NoOne
    /\ hookGovernance' = next
    /\ UNCHANGED <<allVars, marketOf, poolVars>>

accrue(currency, amount) == backstop' = [backstop EXCEPT ![currency] = @ + amount]

buyHigh(p, who, gives, takes, exactInput) ==
    /\ MarketIsOpen(p)
    /\ reserves[p].high >= takes /\ dollarsHeld + gives <= MaxDollars
    /\ reserves' = [reserves EXCEPT ![p].high = @ - takes, ![p].dollars = @ + gives]
    /\ accrue(p[1], slice(takes, exactInput))
    /\ dollarsHeld' = dollarsHeld + gives
    /\ transferHigh(p[1], PoolManager, who, PaidOut(takes, exactInput))
    /\ UNCHANGED bindingVars

sellHigh(p, who, gives, takes, exactInput) ==
    /\ MarketIsOpen(p)
    /\ reserves[p].dollars >= takes
    /\ reserves' = [reserves EXCEPT ![p].high = @ + gives, ![p].dollars = @ - takes]
    /\ accrue(Dollars, slice(takes, exactInput))
    /\ dollarsHeld' = dollarsHeld - PaidOut(takes, exactInput)
    /\ transferHigh(p[1], who, PoolManager, gives)
    /\ UNCHANGED bindingVars

addLiquidity(p, who, units, dollars) ==
    /\ MarketIsOpen(p)
    /\ dollarsHeld + dollars <= MaxDollars
    /\ reserves' = [reserves EXCEPT ![p].high = @ + units, ![p].dollars = @ + dollars]
    /\ dollarsHeld' = dollarsHeld + dollars
    /\ transferHigh(p[1], who, PoolManager, units)
    /\ UNCHANGED <<bindingVars, backstop>>

removeLiquidity(p, who, units, dollars) ==
    /\ RemovalAllowed(p)
    /\ reserves[p].high >= units /\ reserves[p].dollars >= dollars
    /\ reserves' = [reserves EXCEPT ![p].high = @ - units, ![p].dollars = @ - dollars]
    /\ dollarsHeld' = dollarsHeld - dollars
    /\ transferHigh(p[1], PoolManager, who, units)
    /\ UNCHANGED <<bindingVars, backstop>>

-----------------------------------------------------------------------------
(* The system: pools, vault and oracle on one chain.  The PoolManager never*)
(* deposits, redeems or sends tokens of its own accord.                    *)

Trade(p, who) ==
    \E gives, takes \in Amounts, exactInput \in BOOLEAN :
        buyHigh(p, who, gives, takes, exactInput) \/ sellHigh(p, who, gives, takes, exactInput)

ChangeLiquidity(p, who) ==
    \E units, dollars \in Amounts :
        addLiquidity(p, who, units, dollars) \/ removeLiquidity(p, who, units, dollars)

PoolCall == \E p \in Pool, who \in Trader : Trade(p, who) \/ ChangeLiquidity(p, who)

HookGovernanceCall ==
    \/ \E p \in Pool, m \in Market \cup {NoMarket} : bindPool(p, m)
    \/ \E next \in Trader : setHookGovernance(next)

VaultCall ==
    \/ \E m \in Market : createMarket(m) \/ settle(m) \/ settleVoid(m)
    \/ \E m \in Market, who \in Trader, amount \in Amounts :
           \/ splitPull(m, who, amount) \/ merge(m, who, amount)
           \/ \E to \in Account : transferHigh(m, who, to, amount)
    \/ \E m \in Market, who \in Trader : redeem(m, who)
    \/ splitMint

HookNext ==
    \/ PoolCall \/ HookGovernanceCall
    \/ (VaultCall \/ OracleCall \/ BlockTime) /\ UNCHANGED hookVars

HookSpec == HookInit /\ [][HookNext]_marketVars

-----------------------------------------------------------------------------
(* Properties.                                                             *)

(* A fee outside its bounds is one v4 may reject, and bricks the pool.     *)
HookTypeOK ==
    /\ hookGovernance \in Trader \cup {NoOne}
    /\ marketOf \in [Pool -> Market \cup {NoMarket}]
    /\ backstop \in [Currency -> Nat]
    /\ reserves \in [Pool -> [high: Nat, dollars: Nat]]
    /\ dollarsHeld \in Nat
    /\ \A m \in Market : feeFor(m) \in BASE_FEE..MAX_FEE

(* "The fee rises with it.  The input is time and nothing else" (HaloHook  *)
(* 38-46): no call to the oracle, the vault, the hook or the pool - an     *)
(* epoch opened late, a market created in the ramp, a dispute that reopens *)
(* the epoch, a settlement - ever makes a market cheaper to trade than it  *)
(* was.                                                                    *)
FeeNeverFalls == [][\A m \in Market : feeFor(m) <= feeFor(m)']_marketVars

(* "The pool hook and this check are the same rule applied at both doors"  *)
(* (EpochVault 218-221): while its market is frozen, no HIGH enters or     *)
(* leaves the reserves of a pool bound to it, and none is made or          *)
(* destroyed through the vault.                                            *)
BookStandsWhileFrozen ==
    [][\A p \in Pool : marketOf[p] = p[1] /\ isFrozen(p[1]) =>
          reserves'[p] = reserves[p] /\ supplyHigh'[p[1]] = supplyHigh[p[1]]]_marketVars

(* "It accrues as ERC-6909 claims on the PoolManager" (HaloHook 49-54): the*)
(* PoolManager holds enough of every currency to pay out all pools and the *)
(* backstop together, whichever side of a swap the slice was taken from.   *)
BackstopIsHeld ==
    /\ dollarsHeld = backstop[Dollars] + SumFunction([p \in Pool |-> reserves[p].dollars])
    /\ \A m \in Market :
         high[m][PoolManager] >=
             backstop[m] + SumFunctionOnSet([p \in Pool |-> reserves[p].high],
                                            {p \in Pool : p[1] = m})

=============================================================================
