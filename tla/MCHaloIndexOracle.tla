-------------------------- MODULE MCHaloIndexOracle --------------------------
(* Small instances of HaloIndexOracle for TLC.                             *)
EXTENDS HaloIndexOracle

CONSTANTS ann, bob

MCAccount == {ann, bob}
MCRefusing == {bob}
MCValues == {-1, 1}

=============================================================================
