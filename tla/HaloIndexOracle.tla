--------------------------- MODULE HaloIndexOracle ---------------------------
(***************************************************************************)
(* packages/hedge/src/HaloIndexOracle.sol: an index value is published     *)
(* under a bond, may be challenged for a window, and only then may settle  *)
(* cover.  An epoch nobody settles in time may be voided by anyone.        *)
(*                                                                         *)
(* A transaction is one atomic step; a call that reverts is a step that is *)
(* not enabled.  The rules hash, the Merkle root and the CID are only      *)
(* compared with zero by the code, so a call that lacks one of them is a   *)
(* call that reverts and carries no state here.                            *)
(***************************************************************************)
EXTENDS Integers, FiniteSets, Functions

CONSTANTS
    Account,      \* addresses that may call the contract
    NoOne,        \* address(0)
    Refusing,     \* accounts whose receive() reverts when they are paid
    Series,       \* series identifiers
    EpochNumber,  \* epoch numbers
    Values,       \* index changes, in signed basis points
    Wei,          \* amounts of native currency a call may carry
    Rates,        \* values governance sets bondPerCollateralUnit to
    Windows,      \* challenge and void windows governance may ask for
    Exposures,    \* what openInterestOf may answer when no vault is modelled
    MaxU64,       \* type(uint64).max
    MaxU256,      \* type(uint256).max
    MaxNow        \* bound of this model: the last block.timestamp explored

ASSUME AddressAssumption == NoOne \notin Account /\ Refusing \subseteq Account
ASSUME AmountAssumption ==
    /\ Wei \subseteq Nat /\ Rates \subseteq Nat /\ Windows \subseteq Nat
    /\ Exposures \subseteq Nat /\ Values \subseteq Int
\* An address is 20 bytes, a series 32, an epoch number a uint64.
ASSUME FiniteAssumption ==
    IsFiniteSet(Account) /\ IsFiniteSet(Series) /\ IsFiniteSet(EpochNumber)
ASSUME WidthAssumption == MaxU64 \in Nat /\ MaxU256 \in Nat /\ MaxNow \in Nat

VARIABLES
    now,          \* block.timestamp
    governance,   \* the multisig, or NoOne if it was deployed with address(0)
    wired,        \* whether openInterest has been set to the vault
    minBond,      \* per series
    rate,         \* bondPerCollateralUnit, per series
    epochs,       \* the Epoch record of every (series, epoch)
    etherHeld,    \* native currency this contract holds
    pricedAt      \* history: the rate the standing publication was priced at

oracleVars == <<now, governance, wired, minBond, rate, epochs, etherHeld, pricedAt>>

Key == Series \X EpochNumber

Status == {"None", "Open", "Published", "Disputed", "Finalized", "Voided"}
Terminal == {"Finalized", "Voided"}
AwaitingDecision == {"Published", "Disputed"}

Uint64 == 0..MaxU64

(* An Epoch together with the challenge window, disputer and dispute bond  *)
(* the contract keeps for it in mappings of their own.                     *)
Epoch == [status: Status, closesAt: Uint64, challengeWindow: Nat, voidAfter: Uint64,
          valueBps: Int, publisher: Account \cup {NoOne}, bond: Nat,
          publishedAt: Uint64, challengeEnd: Uint64,
          disputer: Account \cup {NoOne}, disputeBond: Nat]

BlankEpoch == [status |-> "None", closesAt |-> 0, challengeWindow |-> 0, voidAfter |-> 0,
               valueBps |-> 0, publisher |-> NoOne, bond |-> 0,
               publishedAt |-> 0, challengeEnd |-> 0,
               disputer |-> NoOne, disputeBond |-> 0]

BOND_MULTIPLE == 2

OracleInit ==
    /\ now = 0
    /\ governance \in Account \cup {NoOne}
    /\ wired = FALSE
    /\ minBond = [s \in Series |-> 0]
    /\ rate = [s \in Series |-> 0]
    /\ epochs = [k \in Key |-> BlankEpoch]
    /\ etherHeld = 0
    /\ pricedAt = [k \in Key |-> 0]

-----------------------------------------------------------------------------
(* Helpers.                                                                *)

statusOf(k) == epochs[k].status
freezeAt(k) == epochs[k].closesAt

(* Mutant of Readable: a value can be read as soon as it is published.     *)
ReadableOncePublished(k) == statusOf(k) \in {"Published", "Finalized"}

(* read() reverts in every state but Finalized, so its callers are guarded *)
(* by Readable and see epochs[k].valueBps.                                 *)
Readable(k) == statusOf(k) = "Finalized"
isVoided(k) == statusOf(k) = "Voided"

(* The rate that applies to a publication now: no source is no rate.       *)
RateInForce(s) == IF wired THEN rate[s] ELSE 0

requiredBond(k, atRisk) ==
    LET scaled == atRisk * RateInForce(k[1]) * BOND_MULTIPLE
        floor == minBond[k[1]]
    IN  IF scaled > floor THEN scaled ELSE floor

(* The product is a checked multiplication; requiredBond reverts beyond it. *)
BondComputes(k, atRisk) == atRisk * RateInForce(k[1]) * BOND_MULTIPLE <= MaxU256

(* _pay: nothing to send succeeds, a payee that refuses reverts the call.  *)
PaySucceeds(to, amount) == amount = 0 \/ to \notin Refusing

OnlyGovernance == governance # NoOne

(* Sums of timestamps and windows are checked uint64 additions.            *)
FitsUint64(t) == t <= MaxU64

(* Mutant of ChallengeEnd: the window runs from the close, not from the    *)
(* publication.                                                            *)
WindowFromClose(k) == epochs[k].closesAt + epochs[k].challengeWindow

ChallengeEnd(k) == now + epochs[k].challengeWindow

(* Mutant of Pot: the bonds are symmetric, so twice the later one.         *)
TwiceTheDispute(k) == 2 * epochs[k].disputeBond

(* Both bonds on an epoch.                                                 *)
Pot(k) == epochs[k].bond + epochs[k].disputeBond

(* Mutant of Wiped: the disproven value stays readable on the record.      *)
WipedButTheValue(e) == [e EXCEPT
    !.status = "Open", !.publisher = NoOne, !.bond = 0,
    !.publishedAt = 0, !.challengeEnd = 0, !.disputer = NoOne, !.disputeBond = 0]

(* An epoch whose publication lost its dispute.                            *)
Wiped(e) == [e EXCEPT
    !.valueBps = 0, !.status = "Open", !.publisher = NoOne, !.bond = 0,
    !.publishedAt = 0, !.challengeEnd = 0, !.disputer = NoOne, !.disputeBond = 0]

(* Mutants of Voidable: everything that was ever opened; an epoch nobody   *)
(* published, and nothing else.                                            *)
EverOpened == Status \ {"None", "Voided"}
NeverPublished == {"Open"}

Voidable == {"Open", "Published", "Disputed"}

-----------------------------------------------------------------------------
(* The calls.                                                              *)

openEpoch(k, closesAt, challengeWindow, voidWindow) ==
    /\ OnlyGovernance
    /\ closesAt > now
    /\ voidWindow > challengeWindow
    /\ statusOf(k) = "None"
    /\ FitsUint64(closesAt + voidWindow)
    /\ epochs' = [epochs EXCEPT ![k] = [@ EXCEPT
                      !.status = "Open", !.closesAt = closesAt,
                      !.voidAfter = closesAt + voidWindow,
                      !.challengeWindow = challengeWindow]]
    /\ UNCHANGED <<now, governance, wired, minBond, rate, etherHeld, pricedAt>>

publish(k, value, by, sent, atRisk) ==
    /\ statusOf(k) = "Open"
    /\ now >= epochs[k].closesAt
    /\ now < epochs[k].voidAfter
    /\ BondComputes(k, atRisk)
    /\ sent >= requiredBond(k, atRisk)
    /\ FitsUint64(ChallengeEnd(k))
    /\ epochs' = [epochs EXCEPT ![k] = [@ EXCEPT
                      !.status = "Published", !.valueBps = value,
                      !.publisher = by, !.bond = sent, !.publishedAt = now,
                      !.challengeEnd = ChallengeEnd(k)]]
    /\ etherHeld' = etherHeld + sent
    /\ pricedAt' = [pricedAt EXCEPT ![k] = RateInForce(k[1])]
    /\ UNCHANGED <<now, governance, wired, minBond, rate>>

dispute(k, by, sent) ==
    /\ statusOf(k) = "Published"
    /\ now < epochs[k].challengeEnd
    /\ sent >= epochs[k].bond
    /\ epochs' = [epochs EXCEPT ![k] = [@ EXCEPT
                      !.status = "Disputed", !.disputer = by, !.disputeBond = sent]]
    /\ etherHeld' = etherHeld + sent
    /\ UNCHANGED <<now, governance, wired, minBond, rate, pricedAt>>

resolveForPublisher(k) ==
    /\ OnlyGovernance
    /\ statusOf(k) = "Disputed"
    /\ PaySucceeds(epochs[k].publisher, Pot(k))
    /\ epochs' = [epochs EXCEPT ![k] = [@ EXCEPT
                      !.status = "Finalized", !.bond = 0,
                      !.disputer = NoOne, !.disputeBond = 0]]
    /\ etherHeld' = etherHeld - Pot(k)
    /\ UNCHANGED <<now, governance, wired, minBond, rate, pricedAt>>

resolveForChallenger(k) ==
    /\ OnlyGovernance
    /\ statusOf(k) = "Disputed"
    /\ PaySucceeds(epochs[k].disputer, Pot(k))
    /\ epochs' = [epochs EXCEPT ![k] = Wiped(@)]
    /\ etherHeld' = etherHeld - Pot(k)
    /\ UNCHANGED <<now, governance, wired, minBond, rate, pricedAt>>

finalize(k) ==
    /\ statusOf(k) = "Published"
    /\ now >= epochs[k].challengeEnd
    /\ PaySucceeds(epochs[k].publisher, epochs[k].bond)
    /\ epochs' = [epochs EXCEPT ![k] = [@ EXCEPT !.status = "Finalized", !.bond = 0]]
    /\ etherHeld' = etherHeld - epochs[k].bond
    /\ UNCHANGED <<now, governance, wired, minBond, rate, pricedAt>>

(* The value, publisher and disputer stay on the record of a voided epoch. *)
voidEpoch(k) ==
    /\ statusOf(k) \in Voidable
    /\ now >= epochs[k].voidAfter
    /\ PaySucceeds(epochs[k].publisher, epochs[k].bond)
    /\ PaySucceeds(epochs[k].disputer, epochs[k].disputeBond)
    /\ epochs' = [epochs EXCEPT ![k] = [@ EXCEPT
                      !.status = "Voided", !.bond = 0, !.disputeBond = 0]]
    /\ etherHeld' = etherHeld - Pot(k)
    /\ UNCHANGED <<now, governance, wired, minBond, rate, pricedAt>>

setGovernance(next) ==
    /\ OnlyGovernance
    /\ governance' = next
    /\ UNCHANGED <<now, wired, minBond, rate, epochs, etherHeld, pricedAt>>

setMinBond(s, amount) ==
    /\ OnlyGovernance
    /\ minBond' = [minBond EXCEPT ![s] = amount]
    /\ UNCHANGED <<now, governance, wired, rate, epochs, etherHeld, pricedAt>>

setOpenInterest(source) ==
    /\ OnlyGovernance
    /\ wired' = source
    /\ UNCHANGED <<now, governance, minBond, rate, epochs, etherHeld, pricedAt>>

setBondPerCollateralUnit(s, weiPerUnit) ==
    /\ OnlyGovernance
    /\ rate' = [rate EXCEPT ![s] = weiPerUnit]
    /\ UNCHANGED <<now, governance, wired, minBond, epochs, etherHeld, pricedAt>>

(* Block time moves on, up to the bound.                                   *)
Tick ==
    /\ now < MaxNow
    /\ now' = now + 1
    /\ UNCHANGED <<governance, wired, minBond, rate, epochs, etherHeld, pricedAt>>

-----------------------------------------------------------------------------
(* What may happen to one epoch, given what the vault has at risk on it.   *)

Open(k) == \E closesAt \in 0..MaxNow, cw \in Windows, vw \in Windows : openEpoch(k, closesAt, cw, vw)
Publish(k, atRisk) ==
    \E value \in Values, by \in Account, sent \in Wei : publish(k, value, by, sent, atRisk)
Dispute(k) == \E by \in Account, sent \in Wei : dispute(k, by, sent)

EpochCall(k, atRisk) ==
    \/ Open(k)
    \/ Publish(k, atRisk)
    \/ Dispute(k)
    \/ resolveForPublisher(k)
    \/ resolveForChallenger(k)
    \/ finalize(k)
    \/ voidEpoch(k)

GovernanceCall ==
    \/ \E next \in Account : setGovernance(next)
    \/ \E s \in Series, amount \in Wei : setMinBond(s, amount)
    \/ \E source \in BOOLEAN : setOpenInterest(source)
    \/ \E s \in Series, weiPerUnit \in Rates : setBondPerCollateralUnit(s, weiPerUnit)

OracleNext ==
    \/ \E k \in Key, atRisk \in Exposures : EpochCall(k, atRisk)
    \/ GovernanceCall
    \/ Tick

OracleSpec == OracleInit /\ [][OracleNext]_oracleVars

(* voidEpoch is open to anyone, so somebody with a stake in an overdue     *)
(* epoch is assumed to call it in the end; nothing else is assumed to be   *)
(* called, neither by governance nor by a publisher.                       *)
OracleFairness ==
    /\ WF_oracleVars(Tick)
    /\ \A k \in Key : WF_oracleVars(voidEpoch(k))

FairOracleSpec == OracleSpec /\ OracleFairness

-----------------------------------------------------------------------------
(* Properties.                                                             *)

OracleTypeOK ==
    /\ now \in Nat
    /\ governance \in Account \cup {NoOne}
    /\ wired \in BOOLEAN
    /\ minBond \in [Series -> Nat]
    /\ rate \in [Series -> Nat]
    /\ epochs \in [Key -> Epoch]
    /\ etherHeld \in Int
    /\ pricedAt \in [Key -> Nat]

(* Custody: the contract holds exactly the bonds of the publications and   *)
(* disputes that are still undecided, whatever path decided the others     *)
(* (resolve 344-376, finalize 379-391, voidEpoch 405-426 each zero the     *)
(* bonds they pay out; a bond paid twice, or left behind, breaks it).      *)
BondsAt(k) ==
    CASE statusOf(k) = "Published" -> epochs[k].bond
      [] statusOf(k) = "Disputed" -> epochs[k].bond + epochs[k].disputeBond
      [] OTHER -> 0
BondCustody == etherHeld = SumFunction([k \in Key |-> BondsAt(k)])

(* A reopened epoch keeps nothing of the publication that lost: no value,  *)
(* no bond, nobody to pay at the next resolve or void (resolve 362-372),   *)
(* however many rounds of publication and dispute it has been through.     *)
ReopenedIsBlank ==
    \A k \in Key : statusOf(k) = "Open" =>
        epochs[k] = [BlankEpoch EXCEPT !.status = "Open", !.closesAt = epochs[k].closesAt,
                                       !.voidAfter = epochs[k].voidAfter,
                                       !.challengeWindow = epochs[k].challengeWindow]

(* A settled answer is final: once Finalized or Voided, neither the status *)
(* nor the value read() returns ever changes again (the vault settles its  *)
(* markets one by one and at different times, from what it reads then).    *)
DecisionIsFinal ==
    [][\A k \in Key : statusOf(k) \in Terminal =>
          statusOf(k)' = statusOf(k) /\ epochs'[k].valueBps = epochs[k].valueBps]_oracleVars

(* A value that nobody had to rule on stood open to challenge for the      *)
(* whole window after its own publication, even if an earlier publication  *)
(* of the same epoch was challenged and lost; and no publication predates  *)
(* the close of the epoch (publish 262-276, finalize 379-382).             *)
FullWindowBeforeFinal ==
    [][\A k \in Key : statusOf(k) = "Published" /\ statusOf(k)' = "Finalized" =>
          now >= epochs[k].closesAt + epochs[k].challengeWindow
          /\ now >= epochs[k].publishedAt + epochs[k].challengeWindow]_oracleVars

(* What a market may rely on: a decision that comes late enough to be      *)
(* challenged, and is the last.                                            *)
DecisionsHold == DecisionIsFinal /\ FullWindowBeforeFinal

(* Somebody who is owed a bond of the epoch refuses to be paid.            *)
PayeeRefuses(k) == \/ epochs[k].publisher \in Refusing
                   \/ epochs[k].disputer \in Refusing

(* No epoch is stranded: once it is open it is eventually finalised or     *)
(* voided, with no help from governance or the publisher (394-405).  Only  *)
(* a contract that cannot be paid its own bond back keeps it from that.    *)
NoEpochStranded ==
    \A k \in Key : statusOf(k) = "Open" ~> statusOf(k) \in Terminal \/ PayeeRefuses(k)

=============================================================================
