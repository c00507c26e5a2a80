------------------------------- MODULE PointClaim -------------------------------
(***************************************************************************)
(* packages/onchain: the contract that holds the points of Celo wallets    *)
(* (CeloPointClaimUpgradable behind its proxy, then V2), composed with the *)
(* ledger of the server, which moves first.  A Celo claim or a Celo raffle *)
(* entry commits its row of the ledger; then the server signs a voucher    *)
(* for the same amount (signCeloClaim, applyHaloRaffle); then the mini app *)
(* sends the voucher to the contract, once (usePointClaim,                 *)
(* RaffleEntrySheet).                                                      *)
(*                                                                         *)
(* Each of the three may be the last: the server may stop between commit   *)
(* and signature, the person may decline the transaction, a voucher may be *)
(* too late.  And a voucher is not a secret: whoever holds one may send it *)
(* again, or send it from a wallet of their own.                           *)
(***************************************************************************)
EXTENDS PointLedger

CONSTANTS
    Outsider,  \* addresses that have no account with the server
    EntryCost, \* what a raffle entry may cost
    SignKey    \* keys the server may sign with

ASSUME ClaimAssumption ==
    /\ EntryCost \subseteq Nat \ {0} /\ SignKey # {} /\ "another key" \notin SignKey
    /\ Outsider \cap Wallet = {} /\ IsFiniteSet(Outsider)

VARIABLES
    celo,             \* requests that are answered with a signature
    vouchers,         \* signatures the server has given out
    inHand,           \* vouchers the mini app is about to send
    expired,          \* vouchers whose deadline has passed
    signingKey,       \* SERVER_SIGNER_PRIVATE_KEY of the server
    serverSigner,     \* the key the contract accepts
    implementation,   \* what the proxy runs: "V1", "V2"
    points,           \* _points
    totalPoints,
    totalPointsSpent,
    usedClaimIds

serverVars == <<celo, vouchers, signingKey>>
chainVars == <<serverSigner, implementation, points, totalPoints, totalPointsSpent, usedClaimIds>>
voucherVars == <<inHand, expired>>
claimVars == <<serverVars, voucherVars, chainVars>>
pointClaimVars == <<pointVars, claimVars>>

Address == Wallet \cup Outsider

ClaimInit ==
    /\ PointInit
    /\ celo = {} /\ vouchers = {} /\ inHand = {} /\ expired = {}
    /\ signingKey \in SignKey /\ serverSigner = signingKey
    /\ implementation = "V1"
    /\ points = [a \in Address |-> 0]
    /\ totalPoints = 0 /\ totalPointsSpent = 0
    /\ usedClaimIds = {}

-----------------------------------------------------------------------------
(* The server.                                                             *)

(* A raffle entry of a Celo wallet: the balance is read first, the pool    *)
(* is looked up in the transaction, which may refuse.                      *)
applyHaloRaffle(q, a, cost) == Check(q, a, "raffle", -cost, Balance(a) >= cost)

BeginEntry(q) ==
    /\ At(q, "checked") /\ req[q].source = "raffle"
    /\ \/ /\ Begins(req[q].wallet)
          /\ req' = [req EXCEPT ![q] = [@ EXCEPT !.pc = "open", !.at = clock, !.day = day]]
       \/ Refused(q) /\ UNCHANGED openVars
    /\ UNCHANGED <<day, logs, receiptVars, dailyClaims>>

SettleSpend(q) ==
    /\ req[q].source = "raffle" /\ Covers(req[q].base, req[q].amount)
    /\ Commits(q, req[q].amount)
    /\ UNCHANGED <<day, receiptVars, dailyClaims>>

(* Mutant of Answerable: the signature is made before the transaction ends.*)
AnswerableAtOnce(q) == req[q].pc \in {"open", "based", "done"}

Answerable(q) == At(q, "done")

(* The id is fresh for every request, so no two vouchers share one.  The   *)
(* server answers a request once.                                          *)
sign(q) ==
    LET voucher == [kind |-> IF req[q].source = "raffle" THEN "spend" ELSE "claim",
                    user |-> req[q].wallet,
                    amount |-> IF req[q].source = "raffle" THEN -req[q].amount ELSE req[q].amount,
                    id |-> q, key |-> signingKey]
    IN
    /\ q \in celo /\ Answerable(q)
    /\ celo' = celo \ {q}
    /\ vouchers' = vouchers \cup {voucher}
    /\ inHand' = inHand \cup {voucher}
    /\ UNCHANGED <<pointVars, signingKey, expired, chainVars>>

(* The key is a secret of the deployment: a new one comes with a deploy.   *)
RotateKey ==
    /\ \E key \in SignKey \ {signingKey} : signingKey' = key
    /\ UNCHANGED <<pointVars, celo, vouchers, voucherVars, chainVars>>

-----------------------------------------------------------------------------
(* The contract.                                                           *)

Live(v) == v \in vouchers /\ v \notin expired

(* ECDSA.recover over the fields of the call, msg.sender among them.       *)
Recovered(v, sender) == IF sender = v.user THEN v.key ELSE "another key"

Accepted(v, sender) ==
    /\ v.amount > 0
    /\ Live(v)
    /\ v.id \notin usedClaimIds
    /\ Recovered(v, sender) = serverSigner

claimPoints(v, sender) ==
    /\ v.kind = "claim" /\ Accepted(v, sender)
    /\ usedClaimIds' = usedClaimIds \cup {v.id}
    /\ points' = [points EXCEPT ![sender] = @ + v.amount]
    /\ totalPoints' = totalPoints + v.amount
    /\ UNCHANGED <<serverSigner, implementation, totalPointsSpent>>

(* Mutant of Debited: what is spent is taken off what was ever claimed.    *)
DebitedTwice(amount) ==
    /\ totalPoints' = totalPoints - amount
    /\ totalPointsSpent' = totalPointsSpent + amount

Debited(amount) ==
    /\ totalPointsSpent' = totalPointsSpent + amount
    /\ UNCHANGED totalPoints

(* Mutant of Affords: the signature is trusted to cover the balance.       *)
AffordsAnything(sender, amount) == TRUE

Affords(sender, amount) == points[sender] >= amount

spendPoints(v, sender) ==
    /\ implementation = "V2"
    /\ v.kind = "spend" /\ Affords(sender, v.amount) /\ Accepted(v, sender)
    /\ usedClaimIds' = usedClaimIds \cup {v.id}
    /\ points' = [points EXCEPT ![sender] = @ - v.amount]
    /\ Debited(v.amount)
    /\ UNCHANGED <<serverSigner, implementation>>

Redeem(v, sender) == claimPoints(v, sender) \/ spendPoints(v, sender)

setServerSigner ==
    /\ \E key \in SignKey \ {serverSigner} : serverSigner' = key
    /\ UNCHANGED <<pointVars, serverVars, voucherVars>>
    /\ UNCHANGED <<implementation, points, totalPoints, totalPointsSpent, usedClaimIds>>

(* upgradeToAndCall: V2 takes its total from the storage gap, still zero.  *)
upgrade ==
    /\ implementation = "V1" /\ implementation' = "V2"
    /\ UNCHANGED <<pointVars, serverVars, voucherVars>>
    /\ UNCHANGED <<serverSigner, points, totalPoints, totalPointsSpent, usedClaimIds>>

-----------------------------------------------------------------------------
(* The mini app, and time.                                                 *)

(* writeContract, once.  Whether the person declines, the contract reverts *)
(* or the network fails, the voucher is let go of.                         *)
Send(v) ==
    /\ v \in inHand /\ inHand' = inHand \ {v}
    /\ Redeem(v, v.user) \/ UNCHANGED chainVars
    /\ UNCHANGED <<pointVars, serverVars, expired>>

(* Someone who kept a voucher sends it themselves.                         *)
Replay(v, sender) ==
    /\ Redeem(v, sender)
    /\ UNCHANGED <<pointVars, serverVars, voucherVars>>

Expire(v) ==
    /\ Live(v) /\ expired' = expired \cup {v}
    /\ UNCHANGED <<pointVars, serverVars, inHand, chainVars>>

Asked(q, a) ==
    \/ AskCelo(q, a) /\ celo' = celo \cup {q}
    \/ (\E cost \in EntryCost : applyHaloRaffle(q, a, cost)) /\ celo' = celo \cup {q}
    \/ AskLedger(q, a) /\ UNCHANGED celo

ServerNext ==
    /\ \E q \in Request :
         \/ \E a \in Wallet : Asked(q, a)
         \/ (Serve(q) \/ BeginEntry(q) \/ SettleSpend(q)) /\ UNCHANGED celo
    /\ UNCHANGED <<vouchers, signingKey, voucherVars, chainVars>>

ClaimNext ==
    \/ ServerNext
    \/ Midnight /\ UNCHANGED claimVars
    \/ \E q \in Request : sign(q)
    \/ \E v \in vouchers : Send(v) \/ Expire(v) \/ \E sender \in Address : Replay(v, sender)
    \/ RotateKey \/ setServerSigner \/ upgrade

ClaimSpec == ClaimInit /\ [][ClaimNext]_pointClaimVars

-----------------------------------------------------------------------------
(* Properties.                                                             *)

Voucher == [kind: {"claim", "spend"}, user: Wallet, amount: Nat, id: Request, key: SignKey]

ClaimTypeOK ==
    /\ celo \subseteq Request /\ vouchers \subseteq Voucher
    /\ \A v \in vouchers, u \in vouchers : v.id = u.id => v = u
    /\ inHand \subseteq vouchers /\ expired \subseteq vouchers
    /\ signingKey \in SignKey /\ serverSigner \in SignKey /\ implementation \in {"V1", "V2"}
    /\ points \in [Address -> Nat] /\ totalPoints \in Nat /\ totalPointsSpent \in Nat
    /\ usedClaimIds \subseteq {v.id : v \in vouchers}

(* What the requests with these ids moved in the ledger of a wallet.       *)
RowsFor(a, ids) == {l \in LogsOf(a) : \E q \in ids : At(q, "done") /\ req[q].at = l.at}
MovedBy(a, ids) == SumFunction([l \in RowsFor(a, ids) |-> l.diff])

(* "A leaked signature" (point.ts 746-747), a replay, a claim id spent and *)
(* a spend id claimed, keys rotated on either side, an upgrade in between: *)
(* whatever is sent by whomever, the points of an address on chain are the *)
(* sum of the movements in its own ledger whose vouchers were redeemed -   *)
(* each of them committed, and each counted once.                          *)
ChainFollowsLedger ==
    \A a \in Address :
        points[a] = IF a \in Wallet THEN MovedBy(a, {q \in usedClaimIds : req[q].wallet = a}) ELSE 0

(* netPointsInCirculation: the two totals, one of them from before the     *)
(* upgrade and one from after it, differ by what all addresses hold.       *)
CirculationAddsUp ==
    totalPoints - totalPointsSpent = SumFunction(points)

(* The chain, account by account and in total, shows what was redeemed.    *)
ChainAddsUp == ChainFollowsLedger /\ CirculationAddsUp

=============================================================================
