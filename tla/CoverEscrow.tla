----------------------------- MODULE CoverEscrow -----------------------------
(***************************************************************************)
(* What EpochVault promises, without saying how: every market is a pot of  *)
(* its own.  Complete sets go in and out one for one, the split between    *)
(* the two sides is decided once, and a claim is never paid more than its  *)
(* side is worth, so the pot always covers what is still claimed on it     *)
(* (packages/hedge/src/EpochVault.sol 26-35).                              *)
(***************************************************************************)
EXTENDS Integers

CONSTANTS Market, WAD, Undecided

VARIABLES
    pot,        \* collateral held for each market
    ratio,      \* share of a unit HIGH receives, in WAD, or Undecided
    claimsHigh, \* outstanding claims on the HIGH side
    claimsLow

escrowVars == <<pot, ratio, claimsHigh, claimsLow>>

EscrowInit ==
    /\ pot = [m \in Market |-> 0]
    /\ ratio = [m \in Market |-> Undecided]
    /\ claimsHigh = [m \in Market |-> 0]
    /\ claimsLow = [m \in Market |-> 0]

(* The three amounts of m change by these, those of no other market do.    *)
Moves(m, units, high, low) ==
    /\ pot' = [pot EXCEPT ![m] = @ + units]
    /\ claimsHigh' = [claimsHigh EXCEPT ![m] = @ + high]
    /\ claimsLow' = [claimsLow EXCEPT ![m] = @ + low]

(* A complete set for every unit that comes in.                            *)
Deposit(m) ==
    LET n == pot'[m] - pot[m] IN
    /\ n > 0
    /\ Moves(m, n, n, n)
    /\ UNCHANGED ratio

(* A unit for every complete set handed back while nothing is decided.     *)
Withdraw(m) ==
    LET n == pot[m] - pot'[m] IN
    /\ n > 0
    /\ ratio[m] = Undecided
    /\ Moves(m, -n, -n, -n)
    /\ UNCHANGED ratio

Decide(m) ==
    /\ ratio[m] = Undecided
    /\ ratio'[m] \in 0..WAD
    /\ ratio' = [ratio EXCEPT ![m] = ratio'[m]]
    /\ UNCHANGED <<pot, claimsHigh, claimsLow>>

(* Claims are burned for at most what they are worth, rounded down.        *)
Pay(m) ==
    LET paid == pot[m] - pot'[m]
        h == claimsHigh[m] - claimsHigh'[m]
        l == claimsLow[m] - claimsLow'[m]
    IN
    /\ ratio[m] # Undecided
    /\ h >= 0 /\ l >= 0 /\ h + l > 0 /\ paid >= 0
    /\ WAD * paid <= h * ratio[m] + l * (WAD - ratio[m])
    /\ Moves(m, -paid, -h, -l)
    /\ UNCHANGED ratio

EscrowNext == \E m \in Market : Deposit(m) \/ Withdraw(m) \/ Decide(m) \/ Pay(m)

EscrowSpec == EscrowInit /\ [][EscrowNext]_escrowVars

=============================================================================
