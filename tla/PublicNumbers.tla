----------------------------- MODULE PublicNumbers -----------------------------
(***************************************************************************)
(* What must not move the numbers the app shows: the ledger of a wallet,   *)
(* the prices of a country and the index of an epoch, side by side over    *)
(* one corpus, and over that corpus with some of it undone.                *)
(***************************************************************************)
EXTENDS SpendLedger, MatchedIndex

(* The corpus had nobody claimed anything, and had nothing been made up.   *)
BeforeClaim(status) ==
    CASE status = "claimed" -> "claimable" [] status = "rejected-claimed" -> "rejected" [] OTHER -> status
AsSettled == {[r EXCEPT !.status = BeforeClaim(@)] : r \in receipts}
Read(r) == {i \in DOMAIN r.lines : r.lines[i].source = "vision"}
AsRead == {[r EXCEPT !.lines = Restrict(@, Read(r))] : r \in receipts}

UnclaimedIndex == INSTANCE MatchedIndex WITH receipts <- AsSettled
UnclaimedLedger == INSTANCE SpendLedger WITH receipts <- AsSettled
Unseeded == INSTANCE MatchedIndex WITH receipts <- AsRead

(* Claiming the points of a receipt, the consolation for a rejected one    *)
(* included, changes no amount, no price and no index: had nobody claimed, *)
(* every screen would say the same.                                        *)
ClaimsMoveNoNumber ==
    /\ \A w \in Wallet :
          /\ \A m \in Month : monthRoute(w, m) = UnclaimedLedger!monthRoute(w, m)
          /\ \A c \in Sold, since \in {0, today} : itemRoute(w, c, since) = UnclaimedLedger!itemRoute(w, c, since)
    /\ \A country \in Countries :
          /\ marketBoard(country) = UnclaimedLedger!marketBoard(country)
          /\ \A t \in Closes : computeEpochIndex(country, t) = UnclaimedIndex!computeEpochIndex(country, t)

(* Lines the operator's script made up are spending of the wallet they     *)
(* were made up for; every public price and index is what it would be      *)
(* without them.                                                           *)
SeedsMoveNoPrice ==
    \A country \in Countries :
        /\ marketBoard(country) = Unseeded!marketBoard(country)
        /\ \A t \in Closes : computeEpochIndex(country, t) = Unseeded!computeEpochIndex(country, t)

(* Public prices and indices follow what was read and judged, and nothing  *)
(* that is done with it afterwards.                                        *)
PricesFollowTheVerdict == ClaimsMoveNoNumber /\ SeedsMoveNoPrice

(* A public price is everyone's: it follows what was read and judged, and  *)
(* no one's share in it is larger than one person's (IndexIsFair).         *)
PublicPricesAreFair == PricesFollowTheVerdict /\ IndexIsFair

(* The screens of one wallet agree: a month with its rows and its drill-   *)
(* downs, the two sides of every comparison with each other, a receipt     *)
(* with the market it is held against.                                     *)
ScreensAgree == MonthAddsUp /\ NothingOnBothSides /\ ComparedAtTheMarket

(* An index stands once its window is closed, an open one moves only with  *)
(* products that have a price on both sides, and what others pay does not  *)
(* move with one's own receipts.                                           *)
ShownNumbersStand ==
    [][ClosedWindowStands /\ NewcomersMoveNothing /\ OwnReceiptsNeverCount]_corpusVars

=============================================================================
