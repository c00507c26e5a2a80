----------------------------- MODULE MCEpochVault -----------------------------
(* Small instances of EpochVault for TLC.                                  *)
EXTENDS EpochVault, TLC

CONSTANTS ann, bob

MCAccount == {ann, bob}
MCValues == {1, 4}
MCSymmetry == Permutations(MCAccount)

Fuel == <<"fuel", 1>>

(* A market an in-between value splits unevenly, one it settles at the cap,*)
(* and an inverted one createMarket refuses.                               *)
Wide == [key |-> Fuel, strike |-> 0, cap |-> 3]
Narrow == [key |-> Fuel, strike |-> -1, cap |-> 1]
Inverted == [key |-> Fuel, strike |-> 2, cap |-> 2]

MCOneMarket == {Wide, Inverted}
MCTwoMarkets == {Wide, Narrow}

=============================================================================
