-------------------------------- MODULE MCRaffle --------------------------------
(***************************************************************************)
(* Small instances of the World raffle from the entry to the link (Raffle) *)
(* and of what follows a Halo draw (Payouts).  The two share no table, so  *)
(* a behaviour is about one of them.                                       *)
(***************************************************************************)
EXTENDS Raffle, Payouts, TLC

CONSTANTS q1, q2, ann, bob, p1, p2, p3

VARIABLE topic

MCTwoRequests == {q1, q2}
MCTwoWallets == {ann, bob}
MCSymmetry == Permutations(MCTwoRequests) \cup Permutations(MCTwoWallets)

MCOneTier == <<[price |-> 1, max |-> 2]>>
MCDates == (p1 :> 1) @@ (p2 :> 1) @@ (p3 :> 2)

\* Entries of one ticket are explored where nobody rolls the pools over by hand,
\* entries of two everywhere.
NobodyBuysOne == \A q \in Request : entry[q].count # 1

PrizesInit == topic \in {"tickets", "prizes"} /\ RaffleInit /\ PayoutsInit

PrizesNext ==
    /\ UNCHANGED topic
    /\ \/ topic = "tickets" /\ RaffleNext /\ UNCHANGED payoutVars /\ (byHand' = 0 \/ NobodyBuysOne')
       \/ topic = "prizes" /\ PayoutsNext /\ UNCHANGED vars

PrizesSpec == PrizesInit /\ [][PrizesNext]_<<topic, vars, payoutVars>>
=============================================================================
