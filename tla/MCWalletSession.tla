---------------------------- MODULE MCWalletSession ----------------------------
(* A small instance of WalletSession for TLC.                              *)
EXTENDS WalletSession, TLC
CONSTANTS ann, bob, n1

(* Messages that must buy nothing: in ann's name by another's wallet and   *)
(* for another site.                                                       *)
Good == [signer |-> ann, address |-> ann, nonce |-> n1, domain |-> "halo", chain |-> "celo",
         issued |-> 0, notBefore |-> 0, expires |-> 1]
MCForeign == {
    [Good EXCEPT !.signer = bob],
    [Good EXCEPT !.domain = "elsewhere"]}
=============================================================================
