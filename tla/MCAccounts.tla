------------------------------- MODULE MCAccounts -------------------------------
(***************************************************************************)
(* Small instances of what is kept of one account, one after another: its  *)
(* points, in the ledger and on the chain (PointClaim); its entries and    *)
(* its past draws on the screens (RaffleScreens); the lists of its         *)
(* receipts (ReceiptLists); the history an operator makes up for it        *)
(* (TestReceipts); and, beyond the account, the contract its points are    *)
(* claimed from (ContractDeployment) and those that sell cover             *)
(* (HedgeDeployment).  These share no state, so a behaviour is about one   *)
(* of them and leaves the others as they began.                            *)
(***************************************************************************)
EXTENDS PointClaim, RaffleScreens, ReceiptLists, TestReceipts, ContractDeployment, HedgeDeployment,
        TLC

CONSTANTS q1, q2, k1, k2

VARIABLE topic

operatorVars == <<testVars, deploymentVars, seedVars>>
vars == <<topic, pointClaimVars, raffleScreenVars, listVars, operatorVars>>

MCTwoRequests == {q1, q2}
MCTwoKeys == {k1, k2}
MCGrant == {-1}
MCSymmetry == Permutations(MCTwoRequests) \cup Permutations(MCTwoKeys)

\* Two receipts from before, one of them scanned weeks late, and two to come.
MCEarlier == <<"x", "y">>
MCPrinted == ("x" :> 0) @@ ("y" :> 3) @@ ("z" :> 1) @@ ("w" :> 7)
MCFrom == ("x" :> "KR") @@ ("y" :> "NG") @@ ("z" :> "KR") @@ ("w" :> "NG")
Against(kr, ng) == ("KR" :> kr) @@ ("NG" :> ng)
MCCame == ("x" :> Against(1, -1)) @@ ("y" :> Against(1, -1)) @@ ("z" :> Against(0, 1)) @@ ("w" :> Against(1, 1))

\* One state of an idle part is enough.
AccountsInit ==
    /\ topic \in {"points", "draws", "past draws", "lists", "test data", "contract", "cover"}
    /\ ClaimInit /\ ScreensInit /\ ListInit /\ TestInit /\ DeploymentInit /\ SeedInit
    /\ topic # "points" => status = [r \in Receipt |-> "claimable"]
    /\ topic \notin {"draws", "past draws"} => verified /\ platform = "celo"
    /\ topic # "test data" => production
    /\ topic # "cover" => chain.done = {}
    /\ date = CHOOSE d \in Round : TRUE

Draws == ScreensNext /\ page' # "history" /\ UNCHANGED settledAt
PastDraws == ScreensNext /\ page' # "draws" /\ UNCHANGED roundOpen

AccountsNext ==
    /\ UNCHANGED topic
    /\ \/ /\ topic = "points" /\ ClaimNext
          /\ UNCHANGED <<raffleScreenVars, listVars, operatorVars>>
       \/ /\ (topic = "draws" /\ Draws) \/ (topic = "past draws" /\ PastDraws)
          /\ UNCHANGED <<pointClaimVars, listVars, operatorVars>>
       \/ /\ topic = "lists" /\ ListNext
          /\ UNCHANGED <<pointClaimVars, raffleScreenVars, operatorVars>>
       \/ /\ topic = "test data" /\ TestNext
          /\ UNCHANGED <<pointClaimVars, raffleScreenVars, listVars, deploymentVars, seedVars>>
       \/ /\ topic = "contract" /\ DeploymentNext
          /\ UNCHANGED <<pointClaimVars, raffleScreenVars, listVars, testVars, seedVars>>
       \/ /\ topic = "cover" /\ SeedNext
          /\ UNCHANGED <<pointClaimVars, raffleScreenVars, listVars, testVars, deploymentVars>>

AccountsSpec == AccountsInit /\ [][AccountsNext]_vars

(* What the scripts of both packages leave behind: the file of the point   *)
(* claim contract tells what its proxy runs (deployments.ts), and the pools*)
(* of SeedPool.s.sol trade on markets that close.                          *)
DeploymentsHold == RecordTellsTheChain /\ SeedingHolds
=============================================================================
