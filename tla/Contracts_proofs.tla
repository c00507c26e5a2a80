---------------------------- MODULE Contracts_proofs ---------------------------
(***************************************************************************)
(* Safety of the oracle, of the vault and its oracle together, and of what *)
(* the outside sees of a settled index: the pools that trade on it and the *)
(* names that are resolved to it; for any number of markets, epochs,       *)
(* accounts, pools and readers and any amounts, fees and ramps.            *)
(*                                                                         *)
(* The facts about the oracle's calls are about one call at a time, so     *)
(* that the theorems of the oracle alone and those of the composed systems *)
(* all rest on them.                                                       *)
(***************************************************************************)
EXTENDS HaloHook, HaloResolver, Sums

-----------------------------------------------------------------------------
(* The oracle.                                                             *)


(* What every call on an epoch leaves alone, and the one record it writes. *)
LEMMA EpochCallFrame ==
  ASSUME NEW k \in Key, NEW atRisk, EpochCall(k, atRisk)
  PROVE  /\ UNCHANGED <<now, governance, wired, minBond, rate>>
         /\ \E r : epochs' = [epochs EXCEPT ![k] = r]
         /\ pricedAt' = pricedAt \/ Publish(k, atRisk)
<1> USE DEF openEpoch, publish, dispute, resolveForPublisher, resolveForChallenger,
            finalize, voidEpoch
<1>1. CASE Open(k)
  BY <1>1 DEF Open
<1>2. CASE Publish(k, atRisk)
  BY <1>2 DEF Publish
<1>3. CASE Dispute(k)
  BY <1>3 DEF Dispute
<1>4. CASE resolveForPublisher(k)
  BY <1>4
<1>5. CASE resolveForChallenger(k)
  BY <1>5
<1>6. CASE finalize(k)
  BY <1>6
<1>7. CASE voidEpoch(k)
  BY <1>7
<1> QED BY <1>1, <1>2, <1>3, <1>4, <1>5, <1>6, <1>7 DEF EpochCall

(* A reopened epoch is still an epoch.                                     *)
LEMMA WipedType ==
  ASSUME NEW e \in Epoch
  PROVE  Wiped(e) \in Epoch
<1> DEFINE e1 == [e EXCEPT !.valueBps = 0]
           e2 == [e1 EXCEPT !.status = "Open", !.publisher = NoOne, !.bond = 0]
           e3 == [e2 EXCEPT !.publishedAt = 0, !.challengeEnd = 0]
           e4 == [e3 EXCEPT !.disputer = NoOne, !.disputeBond = 0]
<1>1. 0 \in Uint64
  BY WidthAssumption DEF Uint64
<1>2. e1 \in Epoch
  BY DEF Epoch
<1>3. e2 \in Epoch
  <2> HIDE DEF e1
  <2> QED BY <1>2 DEF Epoch, Status
<1>4. e3 \in Epoch
  <2> HIDE DEF e2
  <2> QED BY <1>1, <1>3 DEF Epoch
<1>5. e4 \in Epoch
  <2> HIDE DEF e3
  <2> QED BY <1>4 DEF Epoch
<1> QED BY <1>5 DEF Wiped

(* A call on an epoch keeps the types: in particular every timestamp it    *)
(* stores fits in a uint64, the checked additions seeing to the sums.      *)
LEMMA EpochCallType ==
  ASSUME OracleTypeOK, NEW k \in Key, NEW atRisk, EpochCall(k, atRisk)
  PROVE  OracleTypeOK'
<1> USE AmountAssumption, AddressAssumption, WidthAssumption
<1>0. /\ epochs \in [Key -> Epoch] /\ epochs[k] \in Epoch
      /\ etherHeld \in Int /\ now \in Nat
  BY DEF OracleTypeOK
<1>1. (etherHeld' \in Int /\ epochs' \in [Key -> Epoch] /\ pricedAt' \in [Key -> Nat])
        => OracleTypeOK'
  BY EpochCallFrame DEF OracleTypeOK
<1>2. pricedAt' \in [Key -> Nat]
  <2>1. RateInForce(k[1]) \in Nat
    BY DEF RateInForce, OracleTypeOK, Key
  <2>2. CASE Publish(k, atRisk)
    BY <2>1, <2>2 DEF Publish, publish, OracleTypeOK
  <2> QED BY <2>2, EpochCallFrame DEF OracleTypeOK
<1>3. CASE Open(k)
  <2>1. PICK at \in 0..MaxNow, cw \in Windows, vw \in Windows :
               openEpoch(k, at, cw, vw)
    BY <1>3 DEF Open
  <2> DEFINE e == [epochs[k] EXCEPT !.status = "Open", !.closesAt = at,
                                    !.voidAfter = at + vw, !.challengeWindow = cw]
  <2>2. at + vw \in Uint64 /\ at \in Uint64 /\ cw \in Nat
    BY <2>1 DEF openEpoch, FitsUint64, Uint64
  <2>3. e \in Epoch
    BY <1>0, <2>2 DEF Epoch, Status
  <2>4. epochs' = [epochs EXCEPT ![k] = e] /\ etherHeld' = etherHeld
    BY <2>1 DEF openEpoch
  <2>5. epochs' \in [Key -> Epoch]
    BY <1>0, <2>3, <2>4
  <2> QED BY <1>0, <1>1, <1>2, <2>4, <2>5
<1>4. CASE Publish(k, atRisk)
  <2>1. PICK value \in Values, by \in Account, sent \in Wei : publish(k, value, by, sent, atRisk)
    BY <1>4 DEF Publish
  <2> DEFINE e == [epochs[k] EXCEPT
                      !.status = "Published", !.valueBps = value,
                      !.publisher = by, !.bond = sent, !.publishedAt = now,
                      !.challengeEnd = ChallengeEnd(k)]
  <2>2. ChallengeEnd(k) \in Uint64 /\ now \in Uint64 /\ value \in Int /\ sent \in Nat
    BY <1>0, <2>1 DEF publish, FitsUint64, ChallengeEnd, Uint64, Epoch
  <2>3. e \in Epoch
    BY <1>0, <2>2 DEF Epoch, Status
  <2>4. epochs' = [epochs EXCEPT ![k] = e] /\ etherHeld' = etherHeld + sent
    BY <2>1 DEF publish
  <2>5. epochs' \in [Key -> Epoch]
    BY <1>0, <2>3, <2>4
  <2> QED BY <1>0, <1>1, <1>2, <2>2, <2>4, <2>5
<1>5. CASE Dispute(k)
  <2>1. PICK by \in Account, sent \in Wei : dispute(k, by, sent)
    BY <1>5 DEF Dispute
  <2> DEFINE e == [epochs[k] EXCEPT !.status = "Disputed", !.disputer = by,
                                    !.disputeBond = sent]
  <2>2. sent \in Nat /\ e \in Epoch
    BY <1>0 DEF Epoch, Status
  <2>3. epochs' = [epochs EXCEPT ![k] = e] /\ etherHeld' = etherHeld + sent
    BY <2>1 DEF dispute
  <2>4. epochs' \in [Key -> Epoch]
    BY <1>0, <2>2, <2>3
  <2> QED BY <1>0, <1>1, <1>2, <2>2, <2>3, <2>4
<1>6. Pot(k) \in Int
  BY <1>0 DEF Pot, Epoch
<1>7. CASE resolveForPublisher(k)
  <2> DEFINE e == [epochs[k] EXCEPT !.status = "Finalized", !.bond = 0,
                                    !.disputer = NoOne, !.disputeBond = 0]
  <2>1. e \in Epoch
    BY <1>0 DEF Epoch, Status
  <2>2. epochs' = [epochs EXCEPT ![k] = e] /\ etherHeld' = etherHeld - Pot(k)
    BY <1>7 DEF resolveForPublisher
  <2>3. epochs' \in [Key -> Epoch]
    BY <1>0, <2>1, <2>2
  <2> QED BY <1>0, <1>1, <1>2, <1>6, <2>2, <2>3
<1>8. CASE resolveForChallenger(k)
  <2>1. Wiped(epochs[k]) \in Epoch
    BY <1>0, WipedType
  <2>2. epochs' = [epochs EXCEPT ![k] = Wiped(epochs[k])] /\ etherHeld' = etherHeld - Pot(k)
    BY <1>8 DEF resolveForChallenger
  <2>3. epochs' \in [Key -> Epoch]
    BY <1>0, <2>1, <2>2
  <2> QED BY <1>0, <1>1, <1>2, <1>6, <2>2, <2>3
<1>9. CASE finalize(k)
  <2> DEFINE e == [epochs[k] EXCEPT !.status = "Finalized", !.bond = 0]
  <2>1. e \in Epoch /\ epochs[k].bond \in Nat
    BY <1>0 DEF Epoch, Status
  <2>2. epochs' = [epochs EXCEPT ![k] = e] /\ etherHeld' = etherHeld - epochs[k].bond
    BY <1>9 DEF finalize
  <2>3. epochs' \in [Key -> Epoch]
    BY <1>0, <2>1, <2>2
  <2> QED BY <1>0, <1>1, <1>2, <2>1, <2>2, <2>3
<1>10. CASE voidEpoch(k)
  <2> DEFINE e == [epochs[k] EXCEPT !.status = "Voided", !.bond = 0, !.disputeBond = 0]
  <2>1. e \in Epoch
    BY <1>0 DEF Epoch, Status
  <2>2. epochs' = [epochs EXCEPT ![k] = e] /\ etherHeld' = etherHeld - Pot(k)
    BY <1>10 DEF voidEpoch
  <2>3. epochs' \in [Key -> Epoch]
    BY <1>0, <2>1, <2>2
  <2> QED BY <1>0, <1>1, <1>2, <1>6, <2>2, <2>3
<1> QED BY <1>3, <1>4, <1>5, <1>7, <1>8, <1>9, <1>10 DEF EpochCall

(* Governance's setters and the clock keep the types and touch no epoch.   *)
LEMMA OtherCallType ==
  ASSUME OracleTypeOK, GovernanceCall \/ Tick
  PROVE  OracleTypeOK' /\ epochs' = epochs /\ pricedAt' = pricedAt /\ now' >= now
<1> USE AmountAssumption, AddressAssumption, WidthAssumption DEF OracleTypeOK
<1>1. CASE Tick
  BY <1>1 DEF Tick
<1>2. ASSUME NEW next \in Account, setGovernance(next)
      PROVE  OracleTypeOK' /\ epochs' = epochs /\ pricedAt' = pricedAt /\ now' >= now
  BY <1>2 DEF setGovernance
<1>3. ASSUME NEW s \in Series, NEW amount \in Wei, setMinBond(s, amount)
      PROVE  OracleTypeOK' /\ epochs' = epochs /\ pricedAt' = pricedAt /\ now' >= now
  BY <1>3 DEF setMinBond
<1>4. ASSUME NEW source \in BOOLEAN, setOpenInterest(source)
      PROVE  OracleTypeOK' /\ epochs' = epochs /\ pricedAt' = pricedAt /\ now' >= now
  BY <1>4 DEF setOpenInterest
<1>5. ASSUME NEW s \in Series, NEW r \in Rates, setBondPerCollateralUnit(s, r)
      PROVE  OracleTypeOK' /\ epochs' = epochs /\ pricedAt' = pricedAt /\ now' >= now
  BY <1>5 DEF setBondPerCollateralUnit
<1> QED BY <1>1, <1>2, <1>3, <1>4, <1>5 DEF GovernanceCall

LEMMA OracleInitType == OracleInit => OracleTypeOK
<1> SUFFICES ASSUME OracleInit PROVE OracleTypeOK
  OBVIOUS
<1>1. BlankEpoch \in Epoch
  BY WidthAssumption DEF BlankEpoch, Epoch, Status, Uint64
<1>2. epochs \in [Key -> Epoch]
  BY <1>1 DEF OracleInit
<1>3. /\ minBond \in [Series -> Nat] /\ rate \in [Series -> Nat]
      /\ pricedAt \in [Key -> Nat]
  BY DEF OracleInit
<1>4. now \in Nat /\ governance \in Account \cup {NoOne} /\ etherHeld \in Int
  BY DEF OracleInit
<1>5. wired \in BOOLEAN
  BY Zenon DEF OracleInit
<1> QED BY <1>2, <1>3, <1>4, <1>5, Zenon DEF OracleTypeOK

(* The type invariant of the oracle standing alone.                        *)
THEOREM OracleTypeCorrect == OracleSpec => []OracleTypeOK
<1>1. OracleTypeOK /\ [OracleNext]_oracleVars => OracleTypeOK'
  <2> SUFFICES ASSUME OracleTypeOK, [OracleNext]_oracleVars PROVE OracleTypeOK'
    OBVIOUS
  <2>1. CASE UNCHANGED oracleVars
    BY <2>1 DEF oracleVars, OracleTypeOK
  <2>2. ASSUME NEW k \in Key, NEW atRisk \in Exposures, EpochCall(k, atRisk)
        PROVE  OracleTypeOK'
    BY <2>2, EpochCallType, AmountAssumption
  <2>3. CASE GovernanceCall \/ Tick
    BY <2>3, OtherCallType
  <2> QED BY <2>1, <2>2, <2>3 DEF OracleNext
<1> QED BY <1>1, OracleInitType, PTL DEF OracleSpec

-----------------------------------------------------------------------------
(* How a call moves the one epoch it is about: where it may come from,     *)
(* where it may go, and what becomes of the close, the bond and the value. *)
EpochMove(k, atRisk) ==
    /\ \A j \in Key \ {k} : epochs'[j] = epochs[j] /\ pricedAt'[j] = pricedAt[j]
    /\ statusOf(k) \notin Terminal
    /\ \/ /\ statusOf(k) = "None" /\ statusOf(k)' = "Open"
          /\ freezeAt(k)' > now
       \/ /\ statusOf(k) = "Open" /\ statusOf(k)' = "Published"
          /\ freezeAt(k)' = freezeAt(k) /\ freezeAt(k) <= now
          /\ epochs'[k].bond >= atRisk * pricedAt'[k] * BOND_MULTIPLE
       \/ /\ statusOf(k) = "Published" /\ statusOf(k)' = "Disputed"
          /\ freezeAt(k)' = freezeAt(k) /\ pricedAt' = pricedAt
          /\ epochs'[k].bond = epochs[k].bond
       \/ /\ statusOf(k) # "None" /\ statusOf(k)' \in Terminal \cup {"Open"}
          /\ freezeAt(k)' = freezeAt(k)

LEMMA EpochCallMove ==
  ASSUME OracleTypeOK, NEW k \in Key, NEW atRisk \in Nat, EpochCall(k, atRisk)
  PROVE  EpochMove(k, atRisk)
<1> USE DEF EpochMove, statusOf, freezeAt, Terminal
<1>0. /\ epochs \in [Key -> Epoch] /\ epochs[k] \in Epoch
      /\ pricedAt \in [Key -> Nat] /\ now \in Nat
  BY DEF OracleTypeOK
<1>1. \A j \in Key \ {k} : epochs'[j] = epochs[j] /\ pricedAt'[j] = pricedAt[j]
  BY <1>0, EpochCallFrame DEF Publish, publish
<1>2. CASE Open(k)
  <2>1. PICK at \in 0..MaxNow, cw \in Windows, vw \in Windows :
               openEpoch(k, at, cw, vw)
    BY <1>2 DEF Open
  <2>2. /\ statusOf(k) = "None" /\ at > now
        /\ epochs'[k].status = "Open" /\ epochs'[k].closesAt = at
    BY <1>0, <2>1 DEF openEpoch, Epoch
  <2> QED BY <1>1, <2>2
<1>3. CASE Publish(k, atRisk)
  <2>1. PICK value \in Values, by \in Account, sent \in Wei : publish(k, value, by, sent, atRisk)
    BY <1>3 DEF Publish
  <2>2. /\ statusOf(k) = "Open" /\ freezeAt(k) <= now
        /\ epochs'[k].status = "Published" /\ epochs'[k].closesAt = epochs[k].closesAt
        /\ epochs'[k].bond = sent /\ pricedAt'[k] = RateInForce(k[1])
    BY <1>0, <2>1 DEF publish, Epoch, Uint64
  <2>3. sent >= atRisk * RateInForce(k[1]) * BOND_MULTIPLE
    <3>1. RateInForce(k[1]) \in Nat /\ minBond[k[1]] \in Nat
      BY DEF RateInForce, OracleTypeOK, Key
    <3>2. atRisk * RateInForce(k[1]) * BOND_MULTIPLE \in Nat
      BY <3>1 DEF BOND_MULTIPLE
    <3>3. sent >= requiredBond(k, atRisk) /\ sent \in Nat
      BY <2>1, AmountAssumption DEF publish
    <3> QED BY <3>1, <3>2, <3>3 DEF requiredBond
  <2> QED BY <1>1, <2>2, <2>3
<1>4. CASE Dispute(k)
  <2>1. PICK by \in Account, sent \in Wei : dispute(k, by, sent)
    BY <1>4 DEF Dispute
  <2>2. /\ statusOf(k) = "Published" /\ pricedAt' = pricedAt
        /\ epochs'[k].status = "Disputed" /\ epochs'[k].closesAt = epochs[k].closesAt
        /\ epochs'[k].bond = epochs[k].bond
    BY <1>0, <2>1 DEF dispute, Epoch
  <2> QED BY <1>1, <2>2
<1>5. CASE resolveForPublisher(k)
  <2>1. /\ statusOf(k) = "Disputed"
        /\ epochs'[k].status = "Finalized" /\ epochs'[k].closesAt = epochs[k].closesAt
    BY <1>0, <1>5 DEF resolveForPublisher, Epoch
  <2> QED BY <1>1, <2>1
<1>6. CASE resolveForChallenger(k)
  <2>1. /\ statusOf(k) = "Disputed"
        /\ epochs'[k].status = "Open" /\ epochs'[k].closesAt = epochs[k].closesAt
    BY <1>0, <1>6 DEF resolveForChallenger, Wiped, Epoch
  <2> QED BY <1>1, <2>1
<1>7. CASE finalize(k)
  <2>1. /\ statusOf(k) = "Published"
        /\ epochs'[k].status = "Finalized" /\ epochs'[k].closesAt = epochs[k].closesAt
    BY <1>0, <1>7 DEF finalize, Epoch
  <2> QED BY <1>1, <2>1
<1>8. CASE voidEpoch(k)
  <2>1. /\ statusOf(k) \in Voidable
        /\ epochs'[k].status = "Voided" /\ epochs'[k].closesAt = epochs[k].closesAt
    BY <1>0, <1>8 DEF voidEpoch, Epoch
  <2> QED BY <1>1, <2>1 DEF Voidable
<1> QED BY <1>2, <1>3, <1>4, <1>5, <1>6, <1>7, <1>8 DEF EpochCall

(* Once an epoch is finalised or voided no call changes anything of its    *)
(* record: the value a market settles on is the value every later market   *)
(* settles on (DecisionIsFinal), with any number of epochs and accounts.   *)
THEOREM OracleDecisionIsFinal == OracleSpec => DecisionIsFinal
<1>1. OracleTypeOK /\ [OracleNext]_oracleVars =>
        [\A k \in Key : statusOf(k) \in Terminal =>
          statusOf(k)' = statusOf(k) /\ epochs'[k].valueBps = epochs[k].valueBps]_oracleVars
  <2> SUFFICES ASSUME OracleTypeOK, OracleNext, NEW j \in Key, statusOf(j) \in Terminal
               PROVE  epochs'[j] = epochs[j]
    BY DEF statusOf
  <2>1. ASSUME NEW k \in Key, NEW atRisk \in Exposures, EpochCall(k, atRisk)
        PROVE  epochs'[j] = epochs[j]
    BY <2>1, EpochCallMove, AmountAssumption DEF EpochMove
  <2>2. CASE GovernanceCall \/ Tick
    BY <2>2, OtherCallType
  <2> QED BY <2>1, <2>2 DEF OracleNext
<1> QED BY <1>1, OracleTypeCorrect, PTL DEF OracleSpec, DecisionIsFinal

-----------------------------------------------------------------------------
(* What a record carries in each status, through any number of rounds of   *)
(* publication, dispute and re-publication.  Neither property below is     *)
(* inductive: that a reopened record is blank needs that one never opened  *)
(* is, and that a window was full needs to know, from the publication on,  *)
(* that it was counted from there.  That a publication nobody disputed has *)
(* no second bond is what voidEpoch, which pays both, relies on.           *)

Opened(e) == [BlankEpoch EXCEPT !.status = "Open", !.closesAt = e.closesAt,
                                !.voidAfter = e.voidAfter, !.challengeWindow = e.challengeWindow]

Fits(e) ==
    /\ e.status = "None" => e = BlankEpoch
    /\ e.status = "Open" => e = Opened(e)
    /\ e.status = "Published" => /\ e.closesAt <= e.publishedAt
                                 /\ e.challengeEnd = e.publishedAt + e.challengeWindow
                                 /\ e.disputeBond = 0

RecordInv == OracleTypeOK /\ \A k \in Key : Fits(epochs[k])

LEMMA SameFields ==
  ASSUME NEW e \in Epoch, NEW f \in Epoch, e.status = f.status, e.closesAt = f.closesAt,
         e.challengeWindow = f.challengeWindow, e.voidAfter = f.voidAfter,
         e.valueBps = f.valueBps, e.publisher = f.publisher, e.bond = f.bond,
         e.publishedAt = f.publishedAt, e.challengeEnd = f.challengeEnd,
         e.disputer = f.disputer, e.disputeBond = f.disputeBond
  PROVE  e = f
BY DEF Epoch

(* resolve clears its fields one by one: all but the status and three.     *)
LEMMA WipedIsOpened ==
  ASSUME NEW e \in Epoch
  PROVE  Wiped(e) = Opened(e)
<1> DEFINE w == Wiped(e)
           o == Opened(e)
<1>1. w \in Epoch
  BY WipedType
<1>2. o \in Epoch
  <2>1. BlankEpoch \in Epoch
    BY WidthAssumption DEF BlankEpoch, Epoch, Status, Uint64
  <2>2. e.closesAt \in Uint64 /\ e.voidAfter \in Uint64 /\ e.challengeWindow \in Nat
    BY DEF Epoch
  <2> QED BY <2>1, <2>2 DEF Opened, Epoch, Status
<1>3. /\ w.closesAt = e.closesAt /\ w.voidAfter = e.voidAfter
      /\ w.challengeWindow = e.challengeWindow
      /\ w.status = "Open" /\ w.valueBps = 0 /\ w.publisher = NoOne /\ w.bond = 0
      /\ w.publishedAt = 0 /\ w.challengeEnd = 0 /\ w.disputer = NoOne /\ w.disputeBond = 0
  BY DEF Wiped, Epoch
<1>4. /\ o.closesAt = e.closesAt /\ o.voidAfter = e.voidAfter
      /\ o.challengeWindow = e.challengeWindow
      /\ o.status = "Open" /\ o.valueBps = 0 /\ o.publisher = NoOne /\ o.bond = 0
      /\ o.publishedAt = 0 /\ o.challengeEnd = 0 /\ o.disputer = NoOne /\ o.disputeBond = 0
  BY DEF Opened, BlankEpoch
<1>5. w = o
  <2> HIDE DEF w, o
  <2> QED BY <1>1, <1>2, <1>3, <1>4, SameFields
<1> QED BY <1>5

LEMMA EpochCallFits ==
  ASSUME RecordInv, NEW k \in Key, NEW atRisk, EpochCall(k, atRisk)
  PROVE  Fits(epochs'[k])
<1> USE DEF Fits, statusOf
<1>0. /\ epochs \in [Key -> Epoch] /\ epochs[k] \in Epoch /\ now \in Nat
      /\ Fits(epochs[k])
  BY DEF RecordInv, OracleTypeOK
<1>1. CASE Open(k)
  <2>1. PICK at \in 0..MaxNow, cw \in Windows, vw \in Windows :
               openEpoch(k, at, cw, vw)
    BY <1>1 DEF Open
  <2>2. epochs[k] = BlankEpoch
    BY <1>0, <2>1 DEF openEpoch
  <2>3. epochs'[k] = [BlankEpoch EXCEPT !.status = "Open", !.closesAt = at,
                                        !.voidAfter = at + vw, !.challengeWindow = cw]
    BY <1>0, <2>1, <2>2 DEF openEpoch
  <2> QED BY <2>3 DEF Opened, BlankEpoch
<1>2. CASE Publish(k, atRisk)
  <2>1. PICK value \in Values, by \in Account, sent \in Wei : publish(k, value, by, sent, atRisk)
    BY <1>2 DEF Publish
  <2>2. /\ epochs'[k].status = "Published" /\ epochs'[k].publishedAt = now
        /\ epochs'[k].closesAt = epochs[k].closesAt /\ epochs[k].closesAt <= now
        /\ epochs'[k].challengeWindow = epochs[k].challengeWindow
        /\ epochs'[k].challengeEnd = now + epochs[k].challengeWindow
        /\ epochs'[k].disputeBond = epochs[k].disputeBond
    BY <1>0, <2>1 DEF publish, ChallengeEnd, Epoch, Uint64
  <2>3. epochs[k].disputeBond = 0
    <3>1. epochs[k] = Opened(epochs[k])
      BY <1>0, <2>1 DEF publish
    <3> QED BY <3>1 DEF Opened, BlankEpoch
  <2> QED BY <2>2, <2>3
<1>3. CASE Dispute(k)
  BY <1>0, <1>3 DEF Dispute, dispute, Epoch
<1>4. CASE resolveForPublisher(k)
  BY <1>0, <1>4 DEF resolveForPublisher, Epoch
<1>5. CASE resolveForChallenger(k)
  <2>1. epochs'[k] = Wiped(epochs[k])
    BY <1>0, <1>5 DEF resolveForChallenger
  <2>2. Wiped(epochs[k]) = Opened(epochs[k])
    BY <1>0, WipedIsOpened
  <2>3. /\ Opened(epochs[k]).status = "Open" /\ Opened(Opened(epochs[k])) = Opened(epochs[k])
    BY DEF Opened, BlankEpoch
  <2> QED BY <2>1, <2>2, <2>3
<1>6. CASE finalize(k)
  BY <1>0, <1>6 DEF finalize, Epoch
<1>7. CASE voidEpoch(k)
  BY <1>0, <1>7 DEF voidEpoch, Epoch
<1> QED BY <1>1, <1>2, <1>3, <1>4, <1>5, <1>6, <1>7 DEF EpochCall

LEMMA RecordStep == RecordInv /\ [OracleNext]_oracleVars => RecordInv'
<1> SUFFICES ASSUME RecordInv, [OracleNext]_oracleVars PROVE RecordInv'
  OBVIOUS
<1>1. CASE UNCHANGED oracleVars
  BY <1>1 DEF oracleVars, RecordInv, OracleTypeOK
<1>2. ASSUME NEW k \in Key, NEW atRisk \in Exposures, EpochCall(k, atRisk)
      PROVE  RecordInv'
  <2>1. OracleTypeOK' /\ Fits(epochs'[k])
    BY <1>2, EpochCallType, EpochCallFits DEF RecordInv
  <2>2. \A j \in Key \ {k} : epochs'[j] = epochs[j]
    BY <1>2, EpochCallFrame DEF RecordInv, OracleTypeOK
  <2> QED BY <2>1, <2>2 DEF RecordInv
<1>3. CASE GovernanceCall \/ Tick
  <2>1. OracleTypeOK' /\ epochs' = epochs
    BY <1>3, OtherCallType DEF RecordInv
  <2> QED BY <2>1 DEF RecordInv
<1> QED BY <1>1, <1>2, <1>3 DEF OracleNext

LEMMA RecordInvariant == OracleSpec => []RecordInv
<1>1. OracleInit => RecordInv
  <2> SUFFICES ASSUME OracleInit PROVE RecordInv
    OBVIOUS
  <2>1. \A k \in Key : epochs[k] = BlankEpoch
    BY DEF OracleInit
  <2>2. Fits(BlankEpoch)
    BY DEF Fits, BlankEpoch
  <2> QED BY <2>1, <2>2, OracleInitType DEF RecordInv
<1> QED BY <1>1, RecordStep, PTL DEF OracleSpec

(* A publication that loses its dispute leaves nothing behind, in however  *)
(* many rounds (resolve 362-372, ReopenedIsBlank).                         *)
THEOREM OracleReopenedIsBlank == OracleSpec => []ReopenedIsBlank
<1>1. RecordInv => ReopenedIsBlank
  BY DEF RecordInv, Fits, Opened, ReopenedIsBlank, statusOf
<1> QED BY <1>1, RecordInvariant, PTL

(* What becomes final without a ruling was open to challenge for a whole   *)
(* window after its own publication and the close (publish 262-276,        *)
(* finalize 379-382, FullWindowBeforeFinal).                               *)
THEOREM OracleFullWindowBeforeFinal == OracleSpec => FullWindowBeforeFinal
<1>1. RecordInv /\ [OracleNext]_oracleVars =>
        [\A k \in Key : statusOf(k) = "Published" /\ statusOf(k)' = "Finalized" =>
          now >= epochs[k].closesAt + epochs[k].challengeWindow
          /\ now >= epochs[k].publishedAt + epochs[k].challengeWindow]_oracleVars
  <2> SUFFICES ASSUME RecordInv, OracleNext, NEW k \in Key,
                      statusOf(k) = "Published", statusOf(k)' = "Finalized"
               PROVE  /\ now >= epochs[k].closesAt + epochs[k].challengeWindow
                      /\ now >= epochs[k].publishedAt + epochs[k].challengeWindow
    OBVIOUS
  <2>0. epochs \in [Key -> Epoch] /\ epochs[k] \in Epoch /\ now \in Nat
    BY DEF RecordInv, OracleTypeOK
  <2>1. now >= epochs[k].challengeEnd
    <3>1. ASSUME NEW j \in Key, NEW atRisk \in Exposures, EpochCall(j, atRisk)
          PROVE  finalize(k)
      <4>1. j = k
        BY <3>1, <2>0, EpochCallFrame DEF statusOf
      <4>2. CASE Open(k)
        BY <4>2 DEF Open, openEpoch
      <4>3. CASE Publish(k, atRisk)
        BY <4>3 DEF Publish, publish
      <4>4. CASE Dispute(k)
        BY <2>0, <4>4 DEF Dispute, dispute, statusOf, Epoch
      <4>5. CASE resolveForPublisher(k) \/ resolveForChallenger(k)
        BY <4>5 DEF resolveForPublisher, resolveForChallenger
      <4>6. CASE voidEpoch(k)
        BY <2>0, <4>6 DEF voidEpoch, statusOf, Epoch
      <4> QED BY <3>1, <4>1, <4>2, <4>3, <4>4, <4>5, <4>6 DEF EpochCall
    <3>2. CASE GovernanceCall \/ Tick
      BY <3>2, OtherCallType DEF RecordInv, statusOf
    <3> QED BY <3>1, <3>2 DEF OracleNext, finalize
  <2>2. /\ epochs[k].closesAt <= epochs[k].publishedAt
        /\ epochs[k].challengeEnd = epochs[k].publishedAt + epochs[k].challengeWindow
    BY DEF RecordInv, Fits, statusOf
  <2>3. /\ epochs[k].closesAt \in Nat /\ epochs[k].publishedAt \in Nat
        /\ epochs[k].challengeWindow \in Nat
    BY <2>0 DEF Epoch, Uint64
  <2> QED BY <2>0, <2>1, <2>2, <2>3
<1> QED BY <1>1, RecordInvariant, PTL DEF OracleSpec, FullWindowBeforeFinal

(* A decision comes late enough to be challenged, and is the last.         *)
THEOREM OracleDecisionsHold == OracleSpec => DecisionsHold
BY OracleDecisionIsFinal, OracleFullWindowBeforeFinal DEF DecisionsHold


-----------------------------------------------------------------------------
(* Custody.                                                                *)

Bonds == [k \in Key |-> BondsAt(k)]

LEMMA KeysAreFinite == IsFiniteSet(Key)
BY FiniteAssumption, FS_Product DEF Key

LEMMA BondsAreCounted ==
  ASSUME RecordInv
  PROVE  Bonds \in [Key -> Int] /\ \A k \in Key : Bonds[k] = BondsAt(k)
<1> SUFFICES ASSUME NEW k \in Key PROVE BondsAt(k) \in Int
  BY DEF Bonds
<1>1. epochs[k].bond \in Nat /\ epochs[k].disputeBond \in Nat
  BY DEF RecordInv, OracleTypeOK, Epoch
<1> QED BY <1>1 DEF BondsAt

(* What a call takes in or pays out is the change of the epoch's bonds.    *)
LEMMA EpochCallPays ==
  ASSUME RecordInv, NEW k \in Key, NEW atRisk, EpochCall(k, atRisk)
  PROVE  etherHeld' = etherHeld + (BondsAt(k)' - BondsAt(k))
<1> USE DEF BondsAt, statusOf
<1>0. /\ epochs \in [Key -> Epoch] /\ epochs[k] \in Epoch /\ etherHeld \in Int
      /\ epochs[k].bond \in Nat /\ epochs[k].disputeBond \in Nat
      /\ Fits(epochs[k])
  BY DEF RecordInv, OracleTypeOK, Epoch
<1>1. CASE Open(k)
  <2>1. PICK at \in 0..MaxNow, cw \in Windows, vw \in Windows :
               openEpoch(k, at, cw, vw)
    BY <1>1 DEF Open
  <2>2. epochs[k].status = "None" /\ epochs'[k].status = "Open" /\ etherHeld' = etherHeld
    BY <1>0, <2>1 DEF openEpoch, Epoch
  <2>3. BondsAt(k) = 0 /\ BondsAt(k)' = 0
    BY <2>2
  <2> QED BY <1>0, <2>2, <2>3
<1>2. CASE Publish(k, atRisk)
  <2>1. PICK value \in Values, by \in Account, sent \in Wei : publish(k, value, by, sent, atRisk)
    BY <1>2 DEF Publish
  <2>2. /\ epochs[k].status = "Open" /\ epochs'[k].status = "Published"
        /\ epochs'[k].bond = sent /\ etherHeld' = etherHeld + sent /\ sent \in Nat
    BY <1>0, <2>1, AmountAssumption DEF publish, Epoch
  <2>3. BondsAt(k) = 0 /\ BondsAt(k)' = sent
    BY <2>2
  <2> QED BY <1>0, <2>2, <2>3
<1>3. CASE Dispute(k)
  <2>1. PICK by \in Account, sent \in Wei : dispute(k, by, sent)
    BY <1>3 DEF Dispute
  <2>2. /\ epochs[k].status = "Published" /\ epochs'[k].status = "Disputed"
        /\ epochs'[k].bond = epochs[k].bond /\ epochs'[k].disputeBond = sent
        /\ etherHeld' = etherHeld + sent /\ sent \in Nat
    BY <1>0, <2>1, AmountAssumption DEF dispute, Epoch
  <2>3. BondsAt(k) = epochs[k].bond /\ BondsAt(k)' = epochs[k].bond + sent
    BY <2>2
  <2> QED BY <1>0, <2>2, <2>3
<1>4. CASE resolveForPublisher(k)
  <2>1. /\ epochs[k].status = "Disputed" /\ epochs'[k].status = "Finalized"
        /\ etherHeld' = etherHeld - (epochs[k].bond + epochs[k].disputeBond)
    BY <1>0, <1>4 DEF resolveForPublisher, Pot, Epoch
  <2>2. BondsAt(k) = epochs[k].bond + epochs[k].disputeBond /\ BondsAt(k)' = 0
    BY <2>1
  <2> QED BY <1>0, <2>1, <2>2
<1>5. CASE resolveForChallenger(k)
  <2>1. /\ epochs[k].status = "Disputed" /\ epochs'[k].status = "Open"
        /\ etherHeld' = etherHeld - (epochs[k].bond + epochs[k].disputeBond)
    BY <1>0, <1>5 DEF resolveForChallenger, Pot, Wiped, Epoch
  <2>2. BondsAt(k) = epochs[k].bond + epochs[k].disputeBond /\ BondsAt(k)' = 0
    BY <2>1
  <2> QED BY <1>0, <2>1, <2>2
<1>6. CASE finalize(k)
  <2>1. /\ epochs[k].status = "Published" /\ epochs'[k].status = "Finalized"
        /\ etherHeld' = etherHeld - epochs[k].bond
    BY <1>0, <1>6 DEF finalize, Epoch
  <2>2. BondsAt(k) = epochs[k].bond /\ BondsAt(k)' = 0
    BY <2>1
  <2> QED BY <1>0, <2>1, <2>2
<1>7. CASE voidEpoch(k)
  <2>1. /\ epochs[k].status \in Voidable /\ epochs'[k].status = "Voided"
        /\ etherHeld' = etherHeld - (epochs[k].bond + epochs[k].disputeBond)
    BY <1>0, <1>7 DEF voidEpoch, Pot, Epoch
  <2>2. CASE epochs[k].status = "Open"
    <3>1. epochs[k].bond = 0 /\ epochs[k].disputeBond = 0
      <4>1. epochs[k] = Opened(epochs[k])
        BY <1>0, <2>2 DEF Fits
      <4> QED BY <4>1 DEF Opened, BlankEpoch
    <3>2. BondsAt(k) = 0 /\ BondsAt(k)' = 0
      BY <2>1, <2>2
    <3> QED BY <1>0, <2>1, <3>1, <3>2
  <2>3. CASE epochs[k].status = "Published"
    <3>1. epochs[k].disputeBond = 0
      BY <1>0, <2>3 DEF Fits
    <3>2. BondsAt(k) = epochs[k].bond /\ BondsAt(k)' = 0
      BY <2>1, <2>3
    <3> QED BY <1>0, <2>1, <3>1, <3>2
  <2>4. CASE epochs[k].status = "Disputed"
    <3>1. BondsAt(k) = epochs[k].bond + epochs[k].disputeBond /\ BondsAt(k)' = 0
      BY <2>1, <2>4
    <3> QED BY <1>0, <2>1, <3>1
  <2> QED BY <2>1, <2>2, <2>3, <2>4 DEF Voidable
<1> QED BY <1>1, <1>2, <1>3, <1>4, <1>5, <1>6, <1>7 DEF EpochCall

CustodyInv == RecordInv /\ BondCustody

LEMMA EpochCallCustody ==
  ASSUME CustodyInv, NEW k \in Key, NEW atRisk, EpochCall(k, atRisk)
  PROVE  CustodyInv'
<1>1. RecordInv'
  <2>1. OracleTypeOK' /\ Fits(epochs'[k])
    BY EpochCallType, EpochCallFits DEF CustodyInv, RecordInv
  <2>2. \A j \in Key \ {k} : epochs'[j] = epochs[j]
    BY EpochCallFrame DEF CustodyInv, RecordInv, OracleTypeOK
  <2> QED BY <2>1, <2>2 DEF CustodyInv, RecordInv
<1>2. PICK b : b = Bonds
  OBVIOUS
<1>3. PICK c : c = Bonds'
  OBVIOUS
<1>4. b \in [Key -> Int] /\ c \in [Key -> Int]
  <2>1. Bonds \in [Key -> Int]
    BY BondsAreCounted DEF CustodyInv
  <2>2. Bonds' \in [Key -> Int]
    <3> SUFFICES ASSUME NEW j \in Key PROVE BondsAt(j)' \in Int
      BY DEF Bonds
    <3>1. epochs'[j].bond \in Nat /\ epochs'[j].disputeBond \in Nat
      BY <1>1 DEF RecordInv, OracleTypeOK, Epoch
    <3> QED BY <3>1 DEF BondsAt, statusOf
  <2> QED BY <1>2, <1>3, <2>1, <2>2
<1>5. \A j \in Key \ {k} : c[j] = b[j]
  <2>1. \A j \in Key \ {k} : epochs'[j] = epochs[j]
    BY EpochCallFrame DEF CustodyInv, RecordInv, OracleTypeOK
  <2> QED BY <1>2, <1>3, <2>1 DEF Bonds, BondsAt, statusOf
<1>6. etherHeld' = etherHeld + (c[k] - b[k])
  BY <1>2, <1>3, EpochCallPays DEF CustodyInv, Bonds
<1>7. etherHeld = SumFunctionOnSet(b, Key)
  BY <1>2 DEF CustodyInv, BondCustody, Bonds, SumFunction
<1>8. SumFunctionOnSet(c, Key) = SumFunctionOnSet(b, Key) + (c[k] - b[k])
  BY <1>4, <1>5, KeysAreFinite, SumChange
<1>9. etherHeld' = SumFunctionOnSet(c, Key)
  BY <1>6, <1>7, <1>8
<1>10. BondCustody'
  BY <1>3, <1>9 DEF BondCustody, Bonds, SumFunction
<1> QED BY <1>1, <1>10 DEF CustodyInv

LEMMA OtherCallCustody ==
  ASSUME CustodyInv, GovernanceCall \/ Tick \/ UNCHANGED oracleVars
  PROVE  CustodyInv'
<1>1. epochs' = epochs /\ etherHeld' = etherHeld
  BY DEF GovernanceCall, setGovernance, setMinBond, setOpenInterest, setBondPerCollateralUnit,
         Tick, oracleVars
<1>2. OracleTypeOK'
  BY OtherCallType DEF CustodyInv, RecordInv, oracleVars, OracleTypeOK
<1>3. Bonds' = Bonds
  BY <1>1 DEF Bonds, BondsAt, statusOf
<1> QED BY <1>1, <1>2, <1>3 DEF CustodyInv, RecordInv, BondCustody, Bonds

LEMMA CustodyInit == OracleInit => CustodyInv
<1> SUFFICES ASSUME OracleInit PROVE CustodyInv
  OBVIOUS
<1>1. \A k \in Key : epochs[k] = BlankEpoch
  BY DEF OracleInit
<1>2. Fits(BlankEpoch)
  BY DEF Fits, BlankEpoch
<1>3. \A k \in Key : Bonds[k] = 0
  BY <1>1 DEF Bonds, BondsAt, statusOf, BlankEpoch
<1>4. SumFunctionOnSet(Bonds, Key) = 0
  BY <1>3, KeysAreFinite, SumOfZeros
<1>5. BondCustody
  BY <1>4 DEF BondCustody, Bonds, SumFunction, OracleInit
<1> QED BY <1>1, <1>2, <1>5, OracleInitType DEF CustodyInv, RecordInv

(* The contract holds the bonds of the undecided publications and disputes *)
(* and nothing else, whichever way each of the others was decided, with    *)
(* any number of epochs and any bonds (resolve 344-376, finalize 379-391,  *)
(* voidEpoch 405-426).                                                     *)
THEOREM OracleBondCustody == OracleSpec => []BondCustody
<1>1. CustodyInv /\ [OracleNext]_oracleVars => CustodyInv'
  BY EpochCallCustody, OtherCallCustody DEF OracleNext
<1>2. CustodyInv => BondCustody
  BY DEF CustodyInv
<1> QED BY <1>1, <1>2, CustodyInit, PTL DEF OracleSpec


-----------------------------------------------------------------------------
(* Arithmetic: what floor division does, and the two places the vault      *)
(* relies on it.                                                           *)

LEMMA DivSpec ==
  ASSUME NEW n \in Int, NEW d \in Nat \ {0}
  PROVE  n \div d \in Int /\ d * (n \div d) <= n /\ n < d * (n \div d) + d
OBVIOUS

LEMMA MulMonotone ==
  ASSUME NEW a \in Int, NEW b \in Int, NEW w \in Nat, a <= b
  PROVE  a * w <= b * w
OBVIOUS

(* A part of a whole, scaled by w, divided by the whole, is within 0..w.   *)
LEMMA ShareInRange ==
  ASSUME NEW a \in Nat, NEW b \in Nat \ {0}, NEW w \in Nat, a <= b
  PROVE  (a * w) \div b \in 0..w
<1> DEFINE q == (a * w) \div b
<1>1. a * w \in Nat /\ a * w <= b * w
  BY MulMonotone
<1>2. q \in Int /\ b * q <= a * w /\ a * w < b * q + b
  BY <1>1, DivSpec
<1>3. q >= 0
  <2>1. SUFFICES ASSUME q <= -1 PROVE FALSE
    BY <1>2
  <2>2. b * q + b <= 0
    BY <1>2, <2>1
  <2> QED BY <1>1, <1>2, <2>2
<1>4. q <= w
  <2>1. SUFFICES ASSUME w + 1 <= q PROVE FALSE
    BY <1>2
  <2>2. (w + 1) * b <= q * b
    BY <1>2, <2>1, MulMonotone
  <2> QED BY <1>1, <1>2, <2>2
<1> QED BY <1>2, <1>3, <1>4

(* Whatever the finalised value, HIGH's share is a fraction of a unit.     *)
LEMMA PayoffInRange ==
  ASSUME NEW m \in Market, m.cap > m.strike, NEW value \in Int
  PROVE  payoff(m, value) \in 0..WAD
<1>1. m.cap \in Int /\ m.strike \in Int /\ WAD \in Nat
  BY MarketAssumption, WadAssumption
<1>2. CASE value <= m.strike \/ value >= m.cap
  BY <1>1, <1>2 DEF payoff
<1>3. CASE m.strike < value /\ value < m.cap
  <2> DEFINE a == value - m.strike
             b == m.cap - m.strike
  <2>1. (a * WAD) \div b \in 0..WAD
    <3>1. a \in Nat /\ b \in Nat \ {0} /\ a <= b
      BY <1>1, <1>3
    <3> HIDE DEF a, b
    <3> QED BY <1>1, <3>1, ShareInRange
  <2> QED BY <1>1, <1>3, <2>1 DEF payoff
<1> QED BY <1>1, <1>2, <1>3

(* A redemption is never worth more than the two sides it burns, because   *)
(* both unmatched remainders are rounded down.                             *)
LEMMA RedemptionIsCovered ==
  ASSUME NEW h \in Nat, NEW l \in Nat, NEW p \in 0..WAD
  PROVE  /\ redemption(h, l, p) \in Nat
         /\ WAD * redemption(h, l, p) <= h * p + l * (WAD - p)
<1> DEFINE pair == IF h < l THEN h ELSE l
           x == (h - pair) * p
           y == (l - pair) * (WAD - p)
           qx == x \div WAD
           qy == y \div WAD
<1>1. pair \in Nat /\ h - pair \in Nat /\ l - pair \in Nat /\ WAD \in Nat \ {0}
      /\ p \in Nat /\ WAD - p \in Nat
  BY WadAssumption
<1>2. x \in Nat /\ y \in Nat
  BY <1>1
<1>3. qx \in Nat /\ qy \in Nat /\ WAD * qx <= x /\ WAD * qy <= y
  BY <1>1, <1>2, DivSpec
<1>4. redemption(h, l, p) = pair + qx + qy
  BY DEF redemption
<1>5. WAD * (pair + qx + qy) <= WAD * pair + x + y
  BY <1>1, <1>2, <1>3
<1>6. WAD * pair + x + y = h * p + l * (WAD - p)
  BY <1>1
<1> QED BY <1>1, <1>3, <1>4, <1>5, <1>6

-----------------------------------------------------------------------------
(* The inductive invariant.  Solvent needs FullyCollateralised, which it   *)
(* starts from at settlement, and both need to know that created markets   *)
(* are upright, for payoff to be a share.  BondCoversInterest needs to     *)
(* know that an epoch awaiting a decision has closed, hence is frozen, and *)
(* that no split in flight is about to mint into a frozen market.          *)

ClosedBeforeDecision ==
    \A k \in Key : /\ statusOf(k) # "None" => freezeAt(k) > 0
                   /\ statusOf(k) \in AwaitingDecision => freezeAt(k) <= now

CreatedIsUpright == \A m \in created : m.cap > m.strike

FlightIsNotFrozen ==
    \A i \in DOMAIN inFlight :
        inFlight[i].market \in created /\ ~isFrozen(inFlight[i].market)

VaultInv ==
    /\ VaultTypeOK
    /\ ClosedBeforeDecision
    /\ CreatedIsUpright
    /\ FlightIsNotFrozen
    /\ BondCoversInterest
    /\ FullyCollateralised
    /\ Solvent
    /\ SettledAsDecided

LEMMA VaultInitInv == VaultInit => VaultInv
<1> SUFFICES ASSUME VaultInit PROVE VaultInv
  OBVIOUS
<1> USE DEF VaultInit
<1>1. OracleTypeOK
  BY OracleInitType
<1>2. \A k \in Key : statusOf(k) = "None"
  BY DEF OracleInit, BlankEpoch, statusOf
<1>3. VaultTypeOK
  BY <1>1, WadAssumption DEF VaultTypeOK
<1>4. ClosedBeforeDecision /\ BondCoversInterest
  BY <1>2 DEF ClosedBeforeDecision, BondCoversInterest, AwaitingDecision
<1>5. CreatedIsUpright /\ FlightIsNotFrozen /\ Solvent /\ SettledAsDecided
  BY DEF CreatedIsUpright, FlightIsNotFrozen, Solvent, SettledAsDecided
<1>6. FullyCollateralised
  BY DEF FullyCollateralised
<1> QED BY <1>3, <1>4, <1>5, <1>6 DEF VaultInv

(* A call to the oracle.                                                   *)
LEMMA OracleCallInv ==
  ASSUME VaultInv, NEW k \in Key, EpochCall(k, openInterest[k]), UNCHANGED vaultVars
  PROVE  VaultInv'
<1> USE DEF VaultInv, statusOf, freezeAt
<1>0. openInterest[k] \in Nat /\ OracleTypeOK
  BY DEF VaultTypeOK
<1>1. EpochMove(k, openInterest[k]) /\ OracleTypeOK' /\ now' = now
  BY <1>0, EpochCallMove, EpochCallType, EpochCallFrame
<1>2. /\ UNCHANGED <<created, collateral, payoutHighWad, settled, voided, openInterest>>
      /\ UNCHANGED <<high, low, supplyHigh, supplyLow, vaultBalance, inFlight>>
  BY DEF vaultVars, ledgerVars, supplyVars
<1>3. VaultTypeOK'
  BY <1>1, <1>2 DEF VaultTypeOK
<1>4. CreatedIsUpright' /\ FullyCollateralised' /\ Solvent'
  BY <1>2 DEF CreatedIsUpright, FullyCollateralised, Solvent
<1>5. /\ now \in Nat /\ \A j \in Key : epochs[j].closesAt \in Nat /\ epochs'[j].closesAt \in Nat
  BY <1>0, <1>1 DEF OracleTypeOK, Epoch, Uint64
<1>6. ClosedBeforeDecision'
  <2> SUFFICES ASSUME NEW j \in Key
               PROVE  /\ epochs'[j].status # "None" => epochs'[j].closesAt > 0
                      /\ epochs'[j].status \in AwaitingDecision => epochs'[j].closesAt <= now
    BY <1>1 DEF ClosedBeforeDecision
  <2>1. CASE j # k
    BY <1>1, <2>1 DEF EpochMove, ClosedBeforeDecision
  <2>2. CASE j = k
    BY <1>1, <1>5, <2>2 DEF EpochMove, ClosedBeforeDecision, AwaitingDecision, Terminal
  <2> QED BY <2>1, <2>2
<1>7. FlightIsNotFrozen'
  <2> SUFFICES ASSUME NEW m \in created, ~isFrozen(m), isFrozen(m)' PROVE FALSE
    BY <1>2 DEF FlightIsNotFrozen
  <2>1. m.key \in Key
    BY MarketAssumption DEF VaultTypeOK
  <2>2. CASE m.key # k
    BY <1>1, <1>2, <2>1, <2>2 DEF EpochMove, isFrozen
  <2>3. CASE m.key = k
    BY <1>1, <1>2, <1>5, <2>1, <2>3 DEF EpochMove, isFrozen, Terminal, ClosedBeforeDecision
  <2> QED BY <2>2, <2>3
<1>8. BondCoversInterest'
  <2> SUFFICES ASSUME NEW j \in Key, epochs'[j].status \in AwaitingDecision
               PROVE  epochs'[j].bond >= openInterest[j] * pricedAt'[j] * BOND_MULTIPLE
    BY <1>2 DEF BondCoversInterest
  <2>1. CASE j # k
    BY <1>1, <2>1 DEF EpochMove, BondCoversInterest
  <2>2. CASE j = k
    BY <1>1, <2>2 DEF EpochMove, BondCoversInterest, AwaitingDecision, Terminal
  <2> QED BY <2>1, <2>2
<1>9. SettledAsDecided'
  <2> SUFFICES ASSUME NEW m \in settled PROVE epochs'[m.key] = epochs[m.key]
    BY <1>2 DEF SettledAsDecided, isVoided, Readable
  <2>1. m.key \in Key
    BY MarketAssumption DEF VaultTypeOK
  <2>2. statusOf(m.key) \in Terminal
    BY DEF SettledAsDecided, isVoided, Readable, Terminal
  <2> QED BY <1>1, <2>1, <2>2 DEF EpochMove
<1> QED BY <1>3, <1>4, <1>6, <1>7, <1>8, <1>9

(* Governance's setters, and block time: no record changes.  Time may      *)
(* freeze a market, but none a split is in flight for, since no split is.  *)
LEMMA OtherCallInv ==
  ASSUME VaultInv, GovernanceCall \/ (Tick /\ inFlight = <<>>), UNCHANGED vaultVars
  PROVE  VaultInv'
<1> USE DEF VaultInv, statusOf, freezeAt
<1>1. OracleTypeOK' /\ epochs' = epochs /\ pricedAt' = pricedAt /\ now' >= now
  BY OtherCallType DEF VaultTypeOK
<1>2. /\ UNCHANGED <<created, collateral, payoutHighWad, settled, voided, openInterest>>
      /\ UNCHANGED <<high, low, supplyHigh, supplyLow, vaultBalance, inFlight>>
  BY DEF vaultVars, ledgerVars, supplyVars
<1>3. VaultTypeOK'
  BY <1>1, <1>2 DEF VaultTypeOK
<1>4. CreatedIsUpright' /\ FullyCollateralised' /\ Solvent'
  BY <1>2 DEF CreatedIsUpright, FullyCollateralised, Solvent
<1>5. now \in Nat /\ now' \in Nat /\ \A j \in Key : epochs[j].closesAt \in Nat
  BY <1>1 DEF VaultTypeOK, OracleTypeOK, Epoch, Uint64
<1>6. ClosedBeforeDecision'
  BY <1>1, <1>5 DEF ClosedBeforeDecision
<1>7. FlightIsNotFrozen'
  <2>1. CASE GovernanceCall
    <3>1. now' = now
      BY <2>1 DEF GovernanceCall, setGovernance, setMinBond, setOpenInterest,
                  setBondPerCollateralUnit
    <3> QED BY <1>1, <1>2, <3>1 DEF FlightIsNotFrozen, isFrozen
  <2>2. CASE inFlight = <<>>
    BY <1>2, <2>2 DEF FlightIsNotFrozen
  <2> QED BY <2>1, <2>2
<1>8. BondCoversInterest'
  BY <1>1, <1>2 DEF BondCoversInterest
<1>9. SettledAsDecided'
  BY <1>1, <1>2 DEF SettledAsDecided, isVoided, Readable
<1> QED BY <1>3, <1>4, <1>6, <1>7, <1>8, <1>9

-----------------------------------------------------------------------------
(* The vault's own calls leave the oracle alone, so what is said of epochs *)
(* alone stays true.                                                       *)
LEMMA OracleUnchanged ==
  ASSUME VaultInv, UNCHANGED oracleVars
  PROVE  /\ OracleTypeOK' /\ ClosedBeforeDecision'
         /\ UNCHANGED <<now, epochs, pricedAt>>
<1>1. UNCHANGED <<now, governance, wired, minBond, rate, epochs, etherHeld, pricedAt>>
  BY DEF oracleVars
<1>2. OracleTypeOK'
  BY <1>1 DEF VaultInv, VaultTypeOK, OracleTypeOK
<1>3. ClosedBeforeDecision'
  BY <1>1 DEF VaultInv, ClosedBeforeDecision, statusOf, freezeAt
<1> QED BY <1>1, <1>2, <1>3

LEMMA CreateMarketInv ==
  ASSUME VaultInv, NEW m \in Market, createMarket(m)
  PROVE  VaultInv'
<1> USE DEF VaultInv, createMarket, statusOf, freezeAt
<1>1. /\ UNCHANGED <<now, epochs, pricedAt>> /\ OracleTypeOK' /\ ClosedBeforeDecision'
  BY OracleUnchanged
<1>2. UNCHANGED <<high, low, supplyHigh, supplyLow>>
  BY DEF supplyVars
<1>3. VaultTypeOK'
  BY <1>1, <1>2 DEF VaultTypeOK
<1>4. CreatedIsUpright'
  BY DEF CreatedIsUpright
<1>5. FlightIsNotFrozen'
  BY <1>1 DEF FlightIsNotFrozen, isFrozen
<1>6. BondCoversInterest'
  BY <1>1 DEF BondCoversInterest
<1>7. FullyCollateralised' /\ Solvent'
  BY <1>2 DEF FullyCollateralised, Solvent
<1>8. SettledAsDecided'
  BY <1>1 DEF SettledAsDecided, isVoided, Readable
<1> QED BY <1>1, <1>3, <1>4, <1>5, <1>6, <1>7, <1>8

LEMMA TransferInv ==
  ASSUME VaultInv, NEW m \in Market, Transfer(m)
  PROVE  VaultInv'
<1> USE DEF VaultInv, statusOf, freezeAt
<1>1. PICK from \in Account, to \in Account, amount \in Amounts :
             transferHigh(m, from, to, amount) \/ transferLow(m, from, to, amount)
  BY DEF Transfer
<1>2. UNCHANGED oracleVars /\ UNCHANGED ledgerVars
      /\ UNCHANGED <<supplyHigh, supplyLow, vaultBalance, inFlight>>
  BY <1>1 DEF transferHigh, transferLow
<1>3. UNCHANGED <<created, collateral, payoutHighWad, settled, voided, openInterest>>
  BY <1>2 DEF ledgerVars
<1>4. /\ UNCHANGED <<now, epochs, pricedAt>> /\ OracleTypeOK' /\ ClosedBeforeDecision'
  BY <1>2, OracleUnchanged
<1>5. ASSUME NEW b \in [Account -> Nat], b[from] >= amount
      PROVE  moved(b, from, to, amount) \in [Account -> Nat]
  BY <1>5, VaultAmountAssumption DEF moved
<1>6. high' \in [Market -> [Account -> Nat]] /\ low' \in [Market -> [Account -> Nat]]
  <2>1. high[m] \in [Account -> Nat] /\ low[m] \in [Account -> Nat]
    BY DEF VaultTypeOK
  <2>2. CASE transferHigh(m, from, to, amount)
    <3>1. moved(high[m], from, to, amount) \in [Account -> Nat]
      BY <1>5, <2>1, <2>2 DEF transferHigh
    <3> QED BY <2>2, <3>1 DEF transferHigh, VaultTypeOK
  <2>3. CASE transferLow(m, from, to, amount)
    <3>1. moved(low[m], from, to, amount) \in [Account -> Nat]
      BY <1>5, <2>1, <2>3 DEF transferLow
    <3> QED BY <2>3, <3>1 DEF transferLow, VaultTypeOK
  <2> QED BY <1>1, <2>2, <2>3
<1>7. VaultTypeOK'
  BY <1>2, <1>3, <1>4, <1>6 DEF VaultTypeOK
<1>8. CreatedIsUpright' /\ FlightIsNotFrozen' /\ BondCoversInterest'
  BY <1>2, <1>3, <1>4 DEF CreatedIsUpright, FlightIsNotFrozen, isFrozen, BondCoversInterest
<1>9. FullyCollateralised' /\ Solvent' /\ SettledAsDecided'
  BY <1>2, <1>3, <1>4 DEF FullyCollateralised, Solvent, SettledAsDecided, isVoided, Readable
<1> QED BY <1>4, <1>7, <1>8, <1>9

LEMMA SplitPullInv ==
  ASSUME VaultInv, NEW m \in Market, SplitPull(m)
  PROVE  VaultInv'
<1> USE DEF VaultInv, statusOf, freezeAt
<1>1. PICK who \in Account, received \in Amounts : splitPull(m, who, received)
  BY DEF SplitPull
<1> DEFINE flight == [market |-> m, who |-> who, before |-> vaultBalance]
<1>2. UNCHANGED oracleVars /\ UNCHANGED ledgerVars /\ UNCHANGED supplyVars
  BY <1>1 DEF splitPull
<1>3. /\ UNCHANGED <<created, collateral, payoutHighWad, settled, voided, openInterest>>
      /\ UNCHANGED <<high, low, supplyHigh, supplyLow>>
  BY <1>2 DEF ledgerVars, supplyVars
<1>4. /\ UNCHANGED <<now, epochs, pricedAt>> /\ OracleTypeOK' /\ ClosedBeforeDecision'
  BY <1>2, OracleUnchanged
<1>5. inFlight' = <<flight>> /\ flight \in Flight /\ m \in created /\ ~isFrozen(m)
  BY <1>1 DEF splitPull, Unlocked, Tradeable, Flight, VaultTypeOK
<1>6. vaultBalance' \in Nat /\ vaultBalance <= vaultBalance'
  BY <1>1, VaultAmountAssumption DEF splitPull, VaultTypeOK
<1>7. VaultTypeOK'
  <2>1. inFlight' \in Seq(Flight) /\ Len(inFlight') <= 1
    BY <1>5
  <2>2. \A i \in DOMAIN inFlight' : inFlight'[i].before <= vaultBalance'
    BY <1>5, <1>6
  <2> QED BY <1>3, <1>4, <1>6, <2>1, <2>2 DEF VaultTypeOK
<1>8. CreatedIsUpright' /\ BondCoversInterest'
  BY <1>3, <1>4 DEF CreatedIsUpright, BondCoversInterest
<1>9. FlightIsNotFrozen'
  BY <1>3, <1>4, <1>5 DEF FlightIsNotFrozen, isFrozen
<1>10. FullyCollateralised' /\ Solvent' /\ SettledAsDecided'
  BY <1>3, <1>4 DEF FullyCollateralised, Solvent, SettledAsDecided, isVoided, Readable
<1> QED BY <1>4, <1>7, <1>8, <1>9, <1>10

LEMMA AtMostOne ==
  ASSUME NEW S, NEW s \in Seq(S), Len(s) <= 1, s # <<>>
  PROVE  /\ 1 \in DOMAIN s /\ Head(s) = s[1] /\ s[1] \in S
         /\ Tail(s) = <<>>
OBVIOUS

(* A market that is not frozen has no publication standing on its epoch.   *)
LEMMA NotFrozenNotAwaiting ==
  ASSUME VaultInv, NEW m \in created, ~isFrozen(m)
  PROVE  statusOf(m.key) \notin AwaitingDecision
<1>1. m.key \in Key
  BY MarketAssumption DEF VaultInv, VaultTypeOK
<1> SUFFICES ASSUME statusOf(m.key) \in AwaitingDecision PROVE FALSE
  OBVIOUS
<1>2. freezeAt(m.key) > 0 /\ freezeAt(m.key) <= now
  BY <1>1 DEF VaultInv, ClosedBeforeDecision, AwaitingDecision
<1>3. freezeAt(m.key) \in Nat /\ now \in Nat
  BY <1>1 DEF VaultInv, VaultTypeOK, OracleTypeOK, Epoch, Uint64, freezeAt
<1> QED BY <1>2, <1>3 DEF isFrozen, AwaitingDecision, Terminal

(* Both sides and the collateral of one market move by the same amount.    *)
LEMMA SameMoveKeepsBacking ==
  ASSUME VaultTypeOK, FullyCollateralised, Solvent, NEW m \in Market, NEW n \in Int,
         collateral' = [collateral EXCEPT ![m] = @ + n],
         supplyHigh' = [supplyHigh EXCEPT ![m] = @ + n],
         supplyLow' = [supplyLow EXCEPT ![m] = @ + n],
         UNCHANGED <<settled, payoutHighWad>>
  PROVE  FullyCollateralised' /\ Solvent'
<1>0. /\ collateral \in [Market -> Nat] /\ payoutHighWad \in [Market -> 0..WAD]
      /\ supplyHigh \in [Market -> Int] /\ supplyLow \in [Market -> Int] /\ settled \subseteq Market
      /\ WAD \in Nat
  BY WadAssumption DEF VaultTypeOK
<1>1. FullyCollateralised'
  BY <1>0 DEF FullyCollateralised
<1>2. Solvent'
  <2> SUFFICES ASSUME NEW j \in settled
               PROVE  WAD * collateral'[j] >= supplyHigh'[j] * payoutHighWad[j]
                                            + supplyLow'[j] * (WAD - payoutHighWad[j])
    BY DEF Solvent
  <2> DEFINE p == payoutHighWad[j]
             c == collateral[j]
             h == supplyHigh[j]
             l == supplyLow[j]
  <2>1. /\ c \in Int /\ h \in Int /\ l \in Int /\ p \in Int
        /\ WAD * c >= h * p + l * (WAD - p)
    BY <1>0 DEF Solvent
  <2>2. CASE j # m
    BY <1>0, <2>1, <2>2
  <2>3. CASE j = m
    <3>1. collateral'[j] = c + n /\ supplyHigh'[j] = h + n /\ supplyLow'[j] = l + n
      BY <1>0, <2>3
    <3>2. WAD * (c + n) - (h + n) * p - (l + n) * (WAD - p) = WAD * c - h * p - l * (WAD - p)
      <4> HIDE DEF p, c, h, l
      <4> QED BY <1>0, <2>1
    <3>3. WAD * (c + n) >= (h + n) * p + (l + n) * (WAD - p)
      <4> HIDE DEF p, c, h, l
      <4> QED BY <1>0, <2>1, <3>2
    <3> QED BY <3>1, <3>3
  <2> QED BY <2>2, <2>3
<1> QED BY <1>1, <1>2

(* The mint at the end of a split.  The market may have been settled while *)
(* the collateral token was running; it cannot have been frozen.           *)
LEMMA SplitMintInv ==
  ASSUME VaultInv, splitMint
  PROVE  VaultInv'
<1> USE DEF VaultInv, statusOf, freezeAt
<1> DEFINE flight == Head(inFlight)
           m == flight.market
           n == vaultBalance - flight.before
<1>1. /\ inFlight # <<>> /\ inFlight' = Tail(inFlight)
      /\ book(m, n) /\ mintBoth(m, flight.who, n)
      /\ UNCHANGED <<oracleVars, created, payoutHighWad, settled, voided, vaultBalance>>
  BY DEF splitMint
<1>2. /\ flight \in Flight /\ n \in Nat /\ inFlight' = <<>>
      /\ m \in created /\ ~isFrozen(m)
  <2>0. inFlight \in Seq(Flight) /\ Len(inFlight) <= 1
    BY DEF VaultTypeOK
  <2>1. 1 \in DOMAIN inFlight /\ flight = inFlight[1] /\ flight \in Flight
        /\ Tail(inFlight) = <<>>
    BY <1>1, <2>0, AtMostOne
  <2>2. flight.before <= vaultBalance /\ vaultBalance \in Nat
    BY <2>1 DEF VaultTypeOK
  <2>3. n \in Nat
    BY <2>1, <2>2 DEF Flight
  <2>4. inFlight' = <<>>
    BY <1>1, <2>1
  <2> QED BY <2>1, <2>2, <2>3, <2>4 DEF FlightIsNotFrozen
<1>3. /\ UNCHANGED <<now, epochs, pricedAt>> /\ OracleTypeOK' /\ ClosedBeforeDecision'
  BY <1>1, OracleUnchanged
<1>4. m \in Market /\ m.key \in Key /\ flight.who \in Account
  BY <1>2, MarketAssumption DEF Flight
<1> HIDE DEF flight, m, n
<1>5. /\ collateral' = [collateral EXCEPT ![m] = @ + n]
      /\ openInterest' = [openInterest EXCEPT ![m.key] = @ + n]
      /\ supplyHigh' = [supplyHigh EXCEPT ![m] = @ + n]
      /\ supplyLow' = [supplyLow EXCEPT ![m] = @ + n]
      /\ high' = [high EXCEPT ![m][flight.who] = @ + n]
      /\ low' = [low EXCEPT ![m][flight.who] = @ + n]
  BY <1>1 DEF book, mintBoth
<1>6. VaultTypeOK'
  <2>1. /\ collateral' \in [Market -> Nat] /\ openInterest' \in [Key -> Nat]
        /\ supplyHigh' \in [Market -> Int] /\ supplyLow' \in [Market -> Int]
    <3>1. collateral' \in [Market -> Nat]
      BY <1>2, <1>4, <1>5 DEF VaultTypeOK
    <3>2. openInterest' \in [Key -> Nat]
      BY <1>2, <1>4, <1>5 DEF VaultTypeOK
    <3>3. supplyHigh' \in [Market -> Int] /\ supplyLow' \in [Market -> Int]
      BY <1>2, <1>4, <1>5 DEF VaultTypeOK
    <3> QED BY <3>1, <3>2, <3>3
  <2>2. high' \in [Market -> [Account -> Nat]]
    BY <1>2, <1>4, <1>5 DEF VaultTypeOK
  <2>3. low' \in [Market -> [Account -> Nat]]
    BY <1>2, <1>4, <1>5 DEF VaultTypeOK
  <2>4. inFlight' \in Seq(Flight) /\ Len(inFlight') <= 1 /\ DOMAIN inFlight' = {}
    BY <1>2
  <2> QED BY <1>1, <1>3, <2>1, <2>2, <2>3, <2>4 DEF VaultTypeOK
<1>7. CreatedIsUpright' /\ FlightIsNotFrozen'
  BY <1>1, <1>2 DEF CreatedIsUpright, FlightIsNotFrozen
<1>8. FullyCollateralised' /\ Solvent'
  <2>1. n \in Int /\ UNCHANGED <<settled, payoutHighWad>>
    BY <1>1, <1>2
  <2> QED BY <1>4, <1>5, <2>1, SameMoveKeepsBacking
<1>9. BondCoversInterest'
  <2> SUFFICES ASSUME NEW k \in Key, epochs[k].status \in AwaitingDecision
               PROVE  epochs[k].bond >= openInterest'[k] * pricedAt[k] * BOND_MULTIPLE
    BY <1>3 DEF BondCoversInterest
  <2>1. k # m.key
    BY <1>2, NotFrozenNotAwaiting
  <2>2. openInterest'[k] = openInterest[k]
    BY <1>5, <2>1 DEF VaultTypeOK
  <2> QED BY <2>2 DEF BondCoversInterest
<1>10. SettledAsDecided'
  BY <1>1, <1>3 DEF SettledAsDecided, isVoided, Readable
<1> QED BY <1>3, <1>6, <1>7, <1>8, <1>9, <1>10

LEMMA MergeInv ==
  ASSUME VaultInv, NEW m \in Market, Merge(m)
  PROVE  VaultInv'
<1> USE DEF VaultInv, statusOf, freezeAt
<1>1. PICK who \in Account, amount \in Amounts : merge(m, who, amount)
  BY DEF Merge
<1>2. /\ UNCHANGED oracleVars
      /\ UNCHANGED <<created, payoutHighWad, settled, voided, inFlight>>
      /\ m \in created /\ ~isFrozen(m) /\ amount \in Nat /\ inFlight = <<>>
      /\ collateral[m] >= amount /\ openInterest[m.key] >= amount /\ vaultBalance >= amount
      /\ high[m][who] >= amount /\ low[m][who] >= amount
      /\ vaultBalance' = vaultBalance - amount
  BY <1>1, VaultAmountAssumption DEF merge, Tradeable, Unlocked, burnBoth
<1>3. /\ collateral' = [collateral EXCEPT ![m] = @ + (-amount)]
      /\ openInterest' = [openInterest EXCEPT ![m.key] = @ + (-amount)]
      /\ supplyHigh' = [supplyHigh EXCEPT ![m] = @ - amount]
      /\ supplyLow' = [supplyLow EXCEPT ![m] = @ - amount]
      /\ high' = [high EXCEPT ![m][who] = @ - amount]
      /\ low' = [low EXCEPT ![m][who] = @ - amount]
  BY <1>1 DEF merge, book, burnBoth
<1>4. /\ UNCHANGED <<now, epochs, pricedAt>> /\ OracleTypeOK' /\ ClosedBeforeDecision'
  BY <1>2, OracleUnchanged
<1>5. m.key \in Key
  BY MarketAssumption
<1>6. VaultTypeOK'
  <2>1. /\ collateral' \in [Market -> Nat] /\ openInterest' \in [Key -> Nat]
        /\ supplyHigh' \in [Market -> Int] /\ supplyLow' \in [Market -> Int]
        /\ vaultBalance' \in Nat
    <3>1. collateral' \in [Market -> Nat]
      BY <1>2, <1>3, <1>5 DEF VaultTypeOK
    <3>2. openInterest' \in [Key -> Nat]
      BY <1>2, <1>3, <1>5 DEF VaultTypeOK
    <3>3. supplyHigh' \in [Market -> Int] /\ supplyLow' \in [Market -> Int]
      BY <1>2, <1>3, <1>5 DEF VaultTypeOK
    <3>4. vaultBalance' \in Nat
      BY <1>2 DEF VaultTypeOK
    <3> QED BY <3>1, <3>2, <3>3, <3>4
  <2>2. high' \in [Market -> [Account -> Nat]]
    BY <1>2, <1>3 DEF VaultTypeOK
  <2>3. low' \in [Market -> [Account -> Nat]]
    BY <1>2, <1>3 DEF VaultTypeOK
  <2>4. inFlight' \in Seq(Flight) /\ Len(inFlight') <= 1 /\ DOMAIN inFlight' = {}
    BY <1>2
  <2> QED BY <1>2, <1>4, <2>1, <2>2, <2>3, <2>4 DEF VaultTypeOK
<1>7. CreatedIsUpright' /\ FlightIsNotFrozen'
  BY <1>2 DEF CreatedIsUpright, FlightIsNotFrozen
<1>8. FullyCollateralised' /\ Solvent'
  <2> DEFINE n == -amount
  <2>1. n \in Int
    BY <1>2
  <2>2. /\ supplyHigh' = [supplyHigh EXCEPT ![m] = @ + n]
        /\ supplyLow' = [supplyLow EXCEPT ![m] = @ + n]
    BY <1>2, <1>3 DEF VaultTypeOK
  <2>3. collateral' = [collateral EXCEPT ![m] = @ + n]
    BY <1>3
  <2> HIDE DEF n
  <2> QED BY <1>2, <2>1, <2>2, <2>3, SameMoveKeepsBacking
<1>9. BondCoversInterest'
  <2> SUFFICES ASSUME NEW k \in Key, epochs[k].status \in AwaitingDecision
               PROVE  epochs[k].bond >= openInterest'[k] * pricedAt[k] * BOND_MULTIPLE
    BY <1>4 DEF BondCoversInterest
  <2>1. k # m.key
    BY <1>2, NotFrozenNotAwaiting
  <2>2. openInterest'[k] = openInterest[k]
    BY <1>3, <2>1 DEF VaultTypeOK
  <2> QED BY <2>2 DEF BondCoversInterest
<1>10. SettledAsDecided'
  BY <1>2, <1>4 DEF SettledAsDecided, isVoided, Readable
<1> QED BY <1>4, <1>6, <1>7, <1>8, <1>9, <1>10

(* A market settled at ratio p while it is fully collateralised is solvent *)
(* at that ratio, whichever it is.                                         *)
LEMMA SettlementIsSolvent ==
  ASSUME VaultInv, NEW m \in created, m \notin settled, NEW p \in 0..WAD,
         payoutHighWad' = [payoutHighWad EXCEPT ![m] = p],
         settled' = settled \cup {m},
         UNCHANGED <<created, collateral, supplyHigh, supplyLow, high, low>>,
         UNCHANGED <<openInterest, vaultBalance, inFlight, now, epochs, pricedAt>>
  PROVE  /\ payoutHighWad' \in [Market -> 0..WAD]
         /\ CreatedIsUpright' /\ FlightIsNotFrozen' /\ BondCoversInterest'
         /\ FullyCollateralised' /\ Solvent'
         /\ \A j \in settled : payoutHighWad'[j] = payoutHighWad[j]
         /\ payoutHighWad'[m] = p
<1>0. /\ collateral \in [Market -> Nat] /\ payoutHighWad \in [Market -> 0..WAD]
      /\ m \in Market /\ settled \subseteq Market /\ WAD \in Nat
  BY WadAssumption DEF VaultInv, VaultTypeOK
<1>1. payoutHighWad' \in [Market -> 0..WAD] /\ payoutHighWad'[m] = p
      /\ \A j \in settled : payoutHighWad'[j] = payoutHighWad[j]
  BY <1>0
<1>2. CreatedIsUpright' /\ FlightIsNotFrozen' /\ BondCoversInterest'
  BY DEF VaultInv, CreatedIsUpright, FlightIsNotFrozen, isFrozen, BondCoversInterest,
         statusOf, freezeAt
<1>3. FullyCollateralised'
  BY DEF VaultInv, FullyCollateralised
<1>4. Solvent'
  <2> SUFFICES ASSUME NEW j \in settled'
               PROVE  WAD * collateral[j] >= supplyHigh[j] * payoutHighWad'[j]
                                           + supplyLow[j] * (WAD - payoutHighWad'[j])
    BY DEF Solvent
  <2>1. CASE j \in settled
    BY <1>1, <2>1 DEF VaultInv, Solvent
  <2>2. CASE j = m
    <3>1. supplyHigh[m] = collateral[m] /\ supplyLow[m] = collateral[m] /\ collateral[m] \in Nat
      BY <1>0 DEF VaultInv, FullyCollateralised
    <3>2. WAD * collateral[m] = collateral[m] * p + collateral[m] * (WAD - p)
      BY <1>0, <3>1
    <3>3. payoutHighWad'[j] = p /\ j = m
      BY <1>1, <2>2
    <3>4. supplyHigh[j] * payoutHighWad'[j] + supplyLow[j] * (WAD - payoutHighWad'[j])
            = collateral[m] * p + collateral[m] * (WAD - p)
      BY <3>1, <3>3
    <3>5. collateral[j] = collateral[m] /\ WAD * collateral[m] \in Int
      BY <1>0, <3>1, <3>3
    <3> QED BY <3>2, <3>4, <3>5
  <2> QED BY <2>1, <2>2
<1> QED BY <1>1, <1>2, <1>3, <1>4

LEMMA SettleInv ==
  ASSUME VaultInv, NEW m \in Market, settle(m) \/ settleVoid(m)
  PROVE  VaultInv'
<1>1. /\ m \in created /\ m \notin settled /\ settled' = settled \cup {m}
      /\ UNCHANGED <<created, collateral, openInterest, vaultBalance, inFlight>>
      /\ UNCHANGED <<high, low, supplyHigh, supplyLow>> /\ UNCHANGED oracleVars
  BY DEF settle, settleVoid, supplyVars
<1>2. /\ UNCHANGED <<now, epochs, pricedAt>> /\ OracleTypeOK' /\ ClosedBeforeDecision'
  BY <1>1, OracleUnchanged
<1> DEFINE p == IF isVoided(m.key) THEN WAD \div 2 ELSE payoff(m, epochs[m.key].valueBps)
<1>3. /\ payoutHighWad' = [payoutHighWad EXCEPT ![m] = p]
      /\ voided' = IF isVoided(m.key) THEN voided \cup {m} ELSE voided
      /\ isVoided(m.key) \/ Readable(m.key)
  BY DEF settle, settleVoid, isVoided, Readable
<1>4. p \in 0..WAD
  <2>1. WAD \div 2 \in 0..WAD
    BY WadAssumption
  <2>2. m.cap > m.strike /\ epochs[m.key].valueBps \in Int
    BY <1>1, MarketAssumption DEF VaultInv, CreatedIsUpright, VaultTypeOK, OracleTypeOK, Epoch
  <2>3. payoff(m, epochs[m.key].valueBps) \in 0..WAD
    BY <2>2, PayoffInRange
  <2> QED BY <2>1, <2>3
<1> HIDE DEF p
<1>5. /\ payoutHighWad' \in [Market -> 0..WAD]
      /\ CreatedIsUpright' /\ FlightIsNotFrozen' /\ BondCoversInterest'
      /\ FullyCollateralised' /\ Solvent'
      /\ \A j \in settled : payoutHighWad'[j] = payoutHighWad[j]
      /\ payoutHighWad'[m] = p
  BY <1>1, <1>2, <1>3, <1>4, SettlementIsSolvent
<1>6. settled' \subseteq created' /\ voided' \subseteq settled'
  BY <1>1, <1>3 DEF VaultInv, VaultTypeOK
<1>7. VaultTypeOK'
  BY <1>1, <1>2, <1>5, <1>6 DEF VaultInv, VaultTypeOK
<1>8. SettledAsDecided'
  <2> SUFFICES ASSUME NEW j \in settled'
               PROVE  IF j \in voided'
                        THEN isVoided(j.key) /\ payoutHighWad'[j] = WAD \div 2
                        ELSE Readable(j.key)
                             /\ payoutHighWad'[j] = payoff(j, epochs[j.key].valueBps)
    BY <1>2 DEF SettledAsDecided, isVoided, Readable, statusOf
  <2>1. CASE j \in settled
    <3>1. j \in voided' <=> j \in voided
      BY <1>1, <1>3, <2>1
    <3> QED BY <1>5, <2>1, <3>1 DEF VaultInv, SettledAsDecided
  <2>2. CASE j = m
    <3>1. m \in voided' <=> isVoided(m.key)
      BY <1>1, <1>3 DEF VaultInv, VaultTypeOK
    <3> QED BY <1>3, <1>5, <2>2, <3>1 DEF p
  <2> QED BY <1>1, <2>1, <2>2
<1> QED BY <1>2, <1>5, <1>7, <1>8 DEF VaultInv

LEMMA RedeemInv ==
  ASSUME VaultInv, NEW m \in Market, Redeem(m)
  PROVE  VaultInv'
<1>1. PICK who \in Account : redeem(m, who)
  BY DEF Redeem
<1> DEFINE h == high[m][who]
           l == low[m][who]
           p == payoutHighWad[m]
           paid == redemption(h, l, p)
<1>2. /\ m \in settled /\ inFlight = <<>> /\ collateral[m] >= paid /\ vaultBalance >= paid
      /\ collateral' = [collateral EXCEPT ![m] = @ - paid]
      /\ vaultBalance' = vaultBalance - paid
      /\ UNCHANGED <<created, payoutHighWad, settled, voided, openInterest, inFlight>>
      /\ UNCHANGED oracleVars
      /\ burnBoth(m, who, h, l)
  BY <1>1 DEF redeem, Unlocked
<1>3. h \in Nat /\ l \in Nat /\ p \in 0..WAD /\ WAD \in Nat
  BY WadAssumption DEF VaultInv, VaultTypeOK
<1>4. paid \in Nat /\ WAD * paid <= h * p + l * (WAD - p)
  BY <1>3, RedemptionIsCovered
<1>5. /\ UNCHANGED <<now, epochs, pricedAt>> /\ OracleTypeOK' /\ ClosedBeforeDecision'
  BY <1>2, OracleUnchanged
<1>6. /\ supplyHigh' = [supplyHigh EXCEPT ![m] = @ - h]
      /\ supplyLow' = [supplyLow EXCEPT ![m] = @ - l]
      /\ high' = [high EXCEPT ![m][who] = @ - h]
      /\ low' = [low EXCEPT ![m][who] = @ - l]
  BY <1>2 DEF burnBoth
<1>7. VaultTypeOK'
  <2> USE DEF VaultInv, VaultTypeOK
  <2>1. high' \in [Market -> [Account -> Nat]]
    BY <1>3, <1>6
  <2>2. low' \in [Market -> [Account -> Nat]]
    BY <1>3, <1>6
  <2> HIDE DEF paid, h, l, p
  <2>3. collateral' \in [Market -> Nat]
    BY <1>2, <1>4
  <2>4. supplyHigh' \in [Market -> Int] /\ supplyLow' \in [Market -> Int]
    BY <1>3, <1>6
  <2>5. vaultBalance' \in Nat
    BY <1>2, <1>4
  <2>6. inFlight' \in Seq(Flight) /\ Len(inFlight') <= 1 /\ DOMAIN inFlight' = {}
    BY <1>2
  <2> QED BY <1>2, <1>5, <2>1, <2>2, <2>3, <2>4, <2>5, <2>6
<1>8. CreatedIsUpright' /\ FlightIsNotFrozen' /\ BondCoversInterest'
  BY <1>2, <1>5 DEF VaultInv, CreatedIsUpright, FlightIsNotFrozen, BondCoversInterest, statusOf
<1>9. SettledAsDecided'
  BY <1>2, <1>5 DEF VaultInv, SettledAsDecided, isVoided, Readable, statusOf
<1>10. \A j \in Market \ {m} : /\ collateral'[j] = collateral[j]
                              /\ supplyHigh'[j] = supplyHigh[j] /\ supplyLow'[j] = supplyLow[j]
  BY <1>2, <1>6 DEF VaultInv, VaultTypeOK
<1>11. FullyCollateralised'
  BY <1>2, <1>10 DEF VaultInv, FullyCollateralised
<1>12. Solvent'
  <2> SUFFICES ASSUME NEW j \in settled
               PROVE  WAD * collateral'[j] >= supplyHigh'[j] * payoutHighWad[j]
                                            + supplyLow'[j] * (WAD - payoutHighWad[j])
    BY <1>2 DEF Solvent
  <2>1. j \in Market
    BY DEF VaultInv, VaultTypeOK
  <2>2. CASE j # m
    BY <1>10, <2>1, <2>2 DEF VaultInv, Solvent
  <2>3. CASE j = m
    <3> DEFINE c == collateral[m]
               sh == supplyHigh[m]
               sl == supplyLow[m]
    <3>1. /\ c \in Nat /\ sh \in Int /\ sl \in Int
          /\ WAD * c >= sh * p + sl * (WAD - p)
      BY <1>2 DEF VaultInv, VaultTypeOK, Solvent
    <3>2. collateral'[m] = c - paid /\ supplyHigh'[m] = sh - h /\ supplyLow'[m] = sl - l
      BY <1>2, <1>6 DEF VaultInv, VaultTypeOK
    <3> HIDE DEF c, sh, sl, h, l, p, paid
    <3>3. WAD * (c - paid) = WAD * c - WAD * paid
      BY <1>3, <1>4, <3>1
    <3>4. (sh - h) * p + (sl - l) * (WAD - p) = sh * p + sl * (WAD - p) - (h * p + l * (WAD - p))
      BY <1>3, <3>1
    <3>5. WAD * (c - paid) >= (sh - h) * p + (sl - l) * (WAD - p)
      BY <1>3, <1>4, <3>1, <3>3, <3>4
    <3> QED BY <2>3, <3>2, <3>5 DEF p
  <2> QED BY <2>2, <2>3
<1> QED BY <1>5, <1>7, <1>8, <1>9, <1>11, <1>12 DEF VaultInv

LEMMA SendCollateralInv ==
  ASSUME VaultInv, NEW amount \in Amounts, sendCollateral(amount)
  PROVE  VaultInv'
<1>1. /\ UNCHANGED <<created, collateral, payoutHighWad, settled, voided, openInterest>>
      /\ UNCHANGED <<high, low, supplyHigh, supplyLow, inFlight>> /\ UNCHANGED oracleVars
      /\ vaultBalance' = vaultBalance + amount
  BY DEF sendCollateral, ledgerVars, supplyVars
<1>2. /\ UNCHANGED <<now, epochs, pricedAt>> /\ OracleTypeOK' /\ ClosedBeforeDecision'
  BY <1>1, OracleUnchanged
<1>3. VaultTypeOK'
  <2>1. vaultBalance' \in Nat /\ vaultBalance' >= vaultBalance
    BY <1>1, VaultAmountAssumption DEF VaultInv, VaultTypeOK
  <2>2. \A i \in DOMAIN inFlight : inFlight[i].before <= vaultBalance'
    <3> SUFFICES ASSUME NEW i \in DOMAIN inFlight PROVE inFlight[i].before <= vaultBalance'
      OBVIOUS
    <3>1. inFlight[i] \in Flight
      <4>1. inFlight \in Seq(Flight)
        BY DEF VaultInv, VaultTypeOK
      <4> QED BY <4>1
    <3>2. inFlight[i].before \in Nat
      BY <3>1 DEF Flight
    <3>3. inFlight[i].before <= vaultBalance /\ vaultBalance \in Nat
      BY DEF VaultInv, VaultTypeOK
    <3> QED BY <2>1, <3>2, <3>3
  <2> QED BY <1>1, <1>2, <2>1, <2>2 DEF VaultInv, VaultTypeOK
<1>4. CreatedIsUpright' /\ FlightIsNotFrozen' /\ BondCoversInterest'
  BY <1>1, <1>2 DEF VaultInv, CreatedIsUpright, FlightIsNotFrozen, isFrozen,
                    BondCoversInterest, statusOf, freezeAt
<1>5. FullyCollateralised' /\ Solvent' /\ SettledAsDecided'
  BY <1>1, <1>2 DEF VaultInv, FullyCollateralised, Solvent, SettledAsDecided,
                    isVoided, Readable, statusOf
<1> QED BY <1>2, <1>3, <1>4, <1>5 DEF VaultInv

-----------------------------------------------------------------------------
(* The theorems.                                                           *)

LEMMA VaultStepInv == VaultInv /\ [VaultNext]_allVars => VaultInv'
<1> SUFFICES ASSUME VaultInv, [VaultNext]_allVars PROVE VaultInv'
  OBVIOUS
<1>1. CASE UNCHANGED allVars
  <2>1. UNCHANGED oracleVars /\ UNCHANGED <<created, collateral, payoutHighWad, settled, voided>>
        /\ UNCHANGED <<openInterest, high, low, supplyHigh, supplyLow, vaultBalance, inFlight>>
    BY <1>1 DEF allVars, vaultVars, ledgerVars, supplyVars
  <2>2. /\ UNCHANGED <<now, epochs, pricedAt>> /\ OracleTypeOK' /\ ClosedBeforeDecision'
    BY <2>1, OracleUnchanged
  <2>3. VaultTypeOK'
    BY <2>1, <2>2 DEF VaultInv, VaultTypeOK
  <2>4. CreatedIsUpright' /\ FlightIsNotFrozen' /\ BondCoversInterest'
    BY <2>1, <2>2 DEF VaultInv, CreatedIsUpright, FlightIsNotFrozen, isFrozen,
                      BondCoversInterest, statusOf, freezeAt
  <2>5. FullyCollateralised' /\ Solvent' /\ SettledAsDecided'
    BY <2>1, <2>2 DEF VaultInv, FullyCollateralised, Solvent, SettledAsDecided,
                      isVoided, Readable, statusOf
  <2> QED BY <2>2, <2>3, <2>4, <2>5 DEF VaultInv
<1>2. ASSUME NEW m \in Market, MarketCall(m) PROVE VaultInv'
  BY <1>2, CreateMarketInv, SplitPullInv, MergeInv, SettleInv, RedeemInv, TransferInv
     DEF MarketCall
<1>3. CASE splitMint
  BY <1>3, SplitMintInv
<1>4. ASSUME NEW amount \in Amounts, sendCollateral(amount) PROVE VaultInv'
  BY <1>4, SendCollateralInv
<1>5. CASE OracleCall
  BY <1>5, OracleCallInv, OtherCallInv DEF OracleCall
<1>6. CASE BlockTime
  BY <1>6, OtherCallInv DEF BlockTime, Unlocked
<1> QED BY <1>1, <1>2, <1>3, <1>4, <1>5, <1>6 DEF VaultNext

(* The parts of the vault's invariant hold together, in every reachable    *)
(* state of vault and oracle (EpochVault.sol, HaloIndexOracle.sol).        *)
THEOREM VaultInvariant == VaultSpec => []VaultInv
BY VaultInitInv, VaultStepInv, PTL DEF VaultSpec

(* The composed system keeps its types, the uint64 ranges of the oracle's  *)
(* timestamps and the range of the payout ratio among them.                *)
THEOREM VaultTypeCorrect == VaultSpec => []VaultTypeOK
<1>1. VaultInv => VaultTypeOK
  BY DEF VaultInv
<1> QED BY <1>1, VaultInvariant, PTL

(* A standing or disputed publication is always backed by a bond of twice  *)
(* the collateral that depends on it, at the rate it was published under.  *)
THEOREM VaultBondCoversInterest == VaultSpec => []BondCoversInterest
<1>1. VaultInv => BondCoversInterest
  BY DEF VaultInv
<1> QED BY <1>1, VaultInvariant, PTL

(* Every unit of collateral of an unsettled market backs one complete set. *)
THEOREM VaultFullyCollateralised == VaultSpec => []FullyCollateralised
<1>1. VaultInv => FullyCollateralised
  BY DEF VaultInv
<1> QED BY <1>1, VaultInvariant, PTL

(* A settled market covers all outstanding claims at its ratio, whatever   *)
(* was redeemed and rounded before.                                        *)
THEOREM VaultSolvent == VaultSpec => []Solvent
<1>1. VaultInv => Solvent
  BY DEF VaultInv
<1> QED BY <1>1, VaultInvariant, PTL

(* Nothing is claimed of a market that it does not hold, before it is      *)
(* settled or after.                                                       *)
THEOREM VaultCoversItsClaims == VaultSpec => []CoversItsClaims
<1>1. FullyCollateralised /\ Solvent => CoversItsClaims
  BY DEF CoversItsClaims
<1> QED BY <1>1, VaultFullyCollateralised, VaultSolvent, PTL

(* Every market settles on what the oracle finally decided.                *)
THEOREM VaultSettledAsDecided == VaultSpec => []SettledAsDecided
<1>1. VaultInv => SettledAsDecided
  BY DEF VaultInv
<1> QED BY <1>1, VaultInvariant, PTL

-----------------------------------------------------------------------------
(* The refinement of CoverEscrow, step by step.  Only the end of a split,  *)
(* a merge, a settlement and a redemption are steps of the escrow; all     *)
(* else the vault, its tokens, the oracle and time do is a stutter.        *)

(* What the escrow is told of the ratios.                                  *)
DecidedRatio == [m \in Market |-> IF m \in settled THEN payoutHighWad[m] ELSE -1]

LEMMA EscrowStutters ==
  ASSUME UNCHANGED <<collateral, payoutHighWad, settled, supplyHigh, supplyLow>>
  PROVE  UNCHANGED Escrow!escrowVars
BY DEF Escrow!escrowVars

(* A call that changes no amount and settles nothing.                      *)
LEMMA IdleCallsStutter ==
  ASSUME \/ \E m \in Market : createMarket(m) \/ SplitPull(m) \/ Transfer(m)
         \/ \E amount \in Amounts : sendCollateral(amount)
         \/ OracleCall \/ BlockTime \/ UNCHANGED allVars
  PROVE  UNCHANGED Escrow!escrowVars
<1> USE DEF ledgerVars, supplyVars
<1>1. ASSUME NEW m \in Market, createMarket(m) \/ SplitPull(m) \/ Transfer(m)
      PROVE  UNCHANGED <<collateral, payoutHighWad, settled, supplyHigh, supplyLow>>
  BY <1>1 DEF createMarket, SplitPull, splitPull, Transfer, transferHigh, transferLow
<1>2. ASSUME NEW amount \in Amounts, sendCollateral(amount)
      PROVE  UNCHANGED <<collateral, payoutHighWad, settled, supplyHigh, supplyLow>>
  BY <1>2 DEF sendCollateral
<1>3. CASE OracleCall \/ BlockTime \/ UNCHANGED allVars
  BY <1>3, EscrowStutters DEF OracleCall, BlockTime, allVars, vaultVars
<1> QED BY <1>1, <1>2, <1>3, EscrowStutters

(* The end of a split is a deposit of what arrived, if anything did.       *)
LEMMA SplitMintDeposits ==
  ASSUME VaultInv, splitMint
  PROVE  (\E m \in Market : Escrow!Deposit(m)) \/ UNCHANGED Escrow!escrowVars
<1> DEFINE flight == Head(inFlight)
           m == flight.market
           n == vaultBalance - flight.before
<1>1. /\ collateral' = [collateral EXCEPT ![m] = @ + n]
      /\ supplyHigh' = [supplyHigh EXCEPT ![m] = @ + n]
      /\ supplyLow' = [supplyLow EXCEPT ![m] = @ + n]
      /\ UNCHANGED <<payoutHighWad, settled>> /\ inFlight # <<>>
  BY DEF splitMint, book, mintBoth
<1>2. m \in Market /\ n \in Nat
  <2>0. inFlight \in Seq(Flight) /\ Len(inFlight) <= 1
    BY DEF VaultInv, VaultTypeOK
  <2>1. 1 \in DOMAIN inFlight /\ flight = inFlight[1] /\ flight \in Flight
    BY <1>1, <2>0, AtMostOne
  <2>2. flight.before <= vaultBalance /\ vaultBalance \in Nat
    BY <2>1 DEF VaultInv, VaultTypeOK
  <2> QED BY <2>1, <2>2 DEF Flight
<1> HIDE DEF flight, m, n
<1>3. /\ collateral \in [Market -> Nat]
      /\ supplyHigh \in [Market -> Int] /\ supplyLow \in [Market -> Int]
  BY DEF VaultInv, VaultTypeOK
<1>4. CASE n = 0
  BY <1>1, <1>2, <1>3, <1>4, EscrowStutters
<1>5. CASE n > 0
  <2>1. collateral'[m] - collateral[m] = n
    BY <1>1, <1>2, <1>3
  <2>2. Escrow!Deposit(m)
    BY <1>1, <1>5, <2>1 DEF Escrow!Deposit, Escrow!Moves
  <2> QED BY <1>2, <2>2
<1> QED BY <1>2, <1>4, <1>5

(* A merge takes complete sets out while nothing is decided.               *)
LEMMA MergeWithdraws ==
  ASSUME VaultInv, NEW m \in Market, Merge(m)
  PROVE  Escrow!Withdraw(m)
<1>1. PICK who \in Account, amount \in Amounts : merge(m, who, amount)
  BY DEF Merge
<1>2. /\ collateral \in [Market -> Nat] /\ amount \in Nat /\ amount > 0
      /\ supplyHigh \in [Market -> Int] /\ supplyLow \in [Market -> Int]
  BY VaultAmountAssumption DEF VaultInv, VaultTypeOK
<1>3. /\ collateral' = [collateral EXCEPT ![m] = @ + (-amount)]
      /\ supplyHigh' = [supplyHigh EXCEPT ![m] = @ - amount]
      /\ supplyLow' = [supplyLow EXCEPT ![m] = @ - amount]
      /\ UNCHANGED <<payoutHighWad, settled>> /\ m \notin settled
  BY <1>1 DEF merge, book, burnBoth, Tradeable
<1>4. collateral[m] - collateral'[m] = amount
  BY <1>2, <1>3
<1>5. /\ supplyHigh' = [supplyHigh EXCEPT ![m] = @ + (-amount)]
      /\ supplyLow' = [supplyLow EXCEPT ![m] = @ + (-amount)]
  BY <1>2, <1>3
<1>6. DecidedRatio[m] = -1
  BY <1>3 DEF DecidedRatio
<1> QED BY <1>2, <1>3, <1>4, <1>5, <1>6 DEF Escrow!Withdraw, Escrow!Moves, DecidedRatio

(* A settlement decides the ratio, within one unit, and moves nothing.     *)
LEMMA SettlementDecides ==
  ASSUME VaultInv, VaultInv', NEW m \in Market, settle(m) \/ settleVoid(m)
  PROVE  Escrow!Decide(m)
<1>1. /\ m \notin settled /\ settled' = settled \cup {m}
      /\ UNCHANGED <<collateral, supplyHigh, supplyLow>>
      /\ \A j \in Market \ {m} : payoutHighWad'[j] = payoutHighWad[j]
  BY DEF settle, settleVoid, supplyVars, VaultInv, VaultTypeOK
<1>2. payoutHighWad'[m] \in 0..WAD
  BY DEF VaultInv, VaultTypeOK
<1>3. DecidedRatio[m] = -1 /\ DecidedRatio'[m] = payoutHighWad'[m]
  BY <1>1 DEF DecidedRatio
<1>4. DecidedRatio' = [DecidedRatio EXCEPT ![m] = DecidedRatio'[m]]
  BY <1>1 DEF DecidedRatio
<1> QED BY <1>1, <1>2, <1>3, <1>4 DEF Escrow!Decide, DecidedRatio

(* A redemption pays no more than the claims it burns are worth.           *)
LEMMA RedemptionPays ==
  ASSUME VaultInv, NEW m \in Market, Redeem(m)
  PROVE  Escrow!Pay(m)
<1>1. PICK who \in Account : redeem(m, who)
  BY DEF Redeem
<1> DEFINE h == high[m][who]
           l == low[m][who]
           p == payoutHighWad[m]
           paid == redemption(h, l, p)
<1>2. /\ m \in settled /\ h + l > 0
      /\ collateral' = [collateral EXCEPT ![m] = @ - paid]
      /\ supplyHigh' = [supplyHigh EXCEPT ![m] = @ - h]
      /\ supplyLow' = [supplyLow EXCEPT ![m] = @ - l]
      /\ UNCHANGED <<payoutHighWad, settled>>
  BY <1>1 DEF redeem, burnBoth
<1>3. /\ h \in Nat /\ l \in Nat /\ p \in 0..WAD /\ WAD \in Nat
      /\ collateral \in [Market -> Nat]
      /\ supplyHigh \in [Market -> Int] /\ supplyLow \in [Market -> Int]
  BY WadAssumption DEF VaultInv, VaultTypeOK
<1>4. paid \in Nat /\ WAD * paid <= h * p + l * (WAD - p)
  BY <1>3, RedemptionIsCovered
<1>5. DecidedRatio[m] = p
  BY <1>2 DEF DecidedRatio
<1> HIDE DEF h, l, p, paid
<1>6. /\ collateral[m] - collateral'[m] = paid
      /\ supplyHigh[m] - supplyHigh'[m] = h /\ supplyLow[m] - supplyLow'[m] = l
  BY <1>2, <1>3, <1>4
<1>7. /\ collateral' = [collateral EXCEPT ![m] = @ + (-paid)]
      /\ supplyHigh' = [supplyHigh EXCEPT ![m] = @ + (-h)]
      /\ supplyLow' = [supplyLow EXCEPT ![m] = @ + (-l)]
  BY <1>2, <1>3, <1>4
<1>8. p # -1 /\ h >= 0 /\ l >= 0 /\ paid >= 0
  BY <1>3, <1>4
<1>9. DecidedRatio' = DecidedRatio
  BY <1>2 DEF DecidedRatio
<1>10. Escrow!Moves(m, -paid, -h, -l)
  BY <1>7 DEF Escrow!Moves
<1> DEFINE r == DecidedRatio[m]
           c == collateral[m] - collateral'[m]
           sh == supplyHigh[m] - supplyHigh'[m]
           sl == supplyLow[m] - supplyLow'[m]
<1>11. r = p /\ c = paid /\ sh = h /\ sl = l
  BY <1>5, <1>6
<1>12. Escrow!Pay(m) <=> /\ r # -1
                         /\ sh >= 0 /\ sl >= 0 /\ sh + sl > 0 /\ c >= 0
                         /\ WAD * c <= sh * r + sl * (WAD - r)
                         /\ Escrow!Moves(m, -c, -sh, -sl)
                         /\ DecidedRatio' = DecidedRatio
  BY DEF Escrow!Pay, Escrow!Moves, DecidedRatio
<1> HIDE DEF r, c, sh, sl
<1> QED BY <1>2, <1>4, <1>8, <1>9, <1>10, <1>11, <1>12, Zenon

LEMMA VaultInitEscrow == VaultInit => Escrow!EscrowInit
BY DEF VaultInit, Escrow!EscrowInit

LEMMA VaultStepEscrow ==
  VaultInv /\ VaultInv' /\ [VaultNext]_allVars => [Escrow!EscrowNext]_(Escrow!escrowVars)
<1> SUFFICES ASSUME VaultInv, VaultInv', [VaultNext]_allVars
             PROVE  Escrow!EscrowNext \/ UNCHANGED Escrow!escrowVars
  OBVIOUS
<1>1. ASSUME NEW m \in Market, MarketCall(m)
      PROVE  Escrow!EscrowNext \/ UNCHANGED Escrow!escrowVars
  BY <1>1, MergeWithdraws, SettlementDecides, RedemptionPays, IdleCallsStutter
     DEF MarketCall, Escrow!EscrowNext
<1>2. CASE splitMint
  BY <1>2, SplitMintDeposits DEF Escrow!EscrowNext
<1>3. CASE (\E amount \in Amounts : sendCollateral(amount)) \/ OracleCall \/ BlockTime
           \/ UNCHANGED allVars
  BY <1>3, IdleCallsStutter
<1> QED BY <1>1, <1>2, <1>3 DEF VaultNext

(* The vault implements the abstract escrow (EpochVault.sol 26-35): every  *)
(* behaviour of vault, tokens and oracle, callbacks inside a split among   *)
(* them, is one of pots that never share, are divided once, and never pay  *)
(* a claim more than it is worth.                                          *)
THEOREM VaultImplementsEscrow == VaultSpec => ImplementsEscrow
<1>1. VaultSpec => Escrow!EscrowInit
  BY VaultInitEscrow DEF VaultSpec
<1>2. VaultSpec => [][Escrow!EscrowNext]_(Escrow!escrowVars)
  BY VaultInvariant, VaultStepEscrow, PTL DEF VaultSpec
<1> QED BY <1>1, <1>2 DEF ImplementsEscrow, Escrow!EscrowSpec

-----------------------------------------------------------------------------
(* The sums.  That the vault holds every pot is not inductive: what a      *)
(* split in flight is about to book was measured from the balance it read  *)
(* first, so all pots together must fit in that balance, and what is sent  *)
(* to the vault meanwhile is on top of it.                                 *)

Booked == IF inFlight = <<>> THEN vaultBalance ELSE inFlight[1].before

MarketsOn(k) == {m \in Market : m.key = k}

PotsInv ==
    /\ CustodyInv
    /\ SupplyIsHeld
    /\ InterestIsCollateral
    /\ SumFunction(collateral) <= Booked

(* What n more units of m do to the sums of a market and of an epoch.      *)
LEMMA PotsMove ==
  ASSUME VaultTypeOK, NEW m \in Market, NEW n \in Int,
         collateral' = [collateral EXCEPT ![m] = @ + n]
  PROVE  /\ SumFunction(collateral) \in Int
         /\ SumFunction(collateral') = SumFunction(collateral) + n
         /\ \A k \in Key \ {m.key} :
                SumFunctionOnSet(collateral', MarketsOn(k)) = SumFunctionOnSet(collateral, MarketsOn(k))
         /\ SumFunctionOnSet(collateral', MarketsOn(m.key))
                = SumFunctionOnSet(collateral, MarketsOn(m.key)) + n
<1> USE FiniteMarketAssumption
<1>1. PICK c : c = collateral
  OBVIOUS
<1>2. PICK d : d = [c EXCEPT ![m] = @ + n]
  OBVIOUS
<1>3. c \in [Market -> Int] /\ d \in [Market -> Int] /\ d[m] = c[m] + n
      /\ \A j \in Market \ {m} : d[j] = c[j]
  BY <1>1, <1>2 DEF VaultTypeOK
<1>4. SumFunction(c) \in Int
  BY <1>3, SumRaised
<1>5. SumFunction(d) = SumFunction(c) + n
  BY <1>3, SumRaised
<1>6. \A k \in Key : IsFiniteSet(MarketsOn(k)) /\ MarketsOn(k) \subseteq Market
  BY FS_Subset DEF MarketsOn
<1>7. ASSUME NEW k \in Key \ {m.key}
      PROVE  SumFunctionOnSet(d, MarketsOn(k)) = SumFunctionOnSet(c, MarketsOn(k))
  <2>1. \A j \in MarketsOn(k) : d[j] = c[j]
    BY <1>3 DEF MarketsOn
  <2> QED BY <1>6, <2>1, SumSame
<1>8. SumFunctionOnSet(d, MarketsOn(m.key)) = SumFunctionOnSet(c, MarketsOn(m.key)) + n
  <2>1. m \in MarketsOn(m.key) /\ m.key \in Key
    BY MarketAssumption DEF MarketsOn
  <2>2. \A j \in MarketsOn(m.key) : c[j] \in Int /\ d[j] \in Int
    BY <1>3, <1>6, <2>1
  <2>3. \A j \in MarketsOn(m.key) \ {m} : d[j] = c[j]
    BY <1>3, <1>6, <2>1
  <2>4. SumFunctionOnSet(d, MarketsOn(m.key))
           = SumFunctionOnSet(c, MarketsOn(m.key)) + (d[m] - c[m])
    BY <1>6, <2>1, <2>2, <2>3, SumChange
  <2>5. d[m] - c[m] = n
    BY <1>3
  <2> QED BY <2>4, <2>5
<1> QED BY <1>1, <1>2, <1>4, <1>5, <1>7, <1>8

(* Collateral and open interest of one market move together.               *)
LEMMA BookKeepsInterest ==
  ASSUME VaultTypeOK, InterestIsCollateral, NEW m \in Market, NEW n \in Int,
         collateral' = [collateral EXCEPT ![m] = @ + n],
         openInterest' = [openInterest EXCEPT ![m.key] = @ + n],
         UNCHANGED settled
  PROVE  InterestIsCollateral'
<1> SUFFICES ASSUME NEW k \in Key, \A j \in settled : j.key # k
             PROVE  openInterest'[k] = SumFunctionOnSet(collateral', MarketsOn(k))
  BY DEF InterestIsCollateral, MarketsOn
<1>1. openInterest[k] = SumFunctionOnSet(collateral, MarketsOn(k)) /\ openInterest[k] \in Nat
  BY DEF InterestIsCollateral, MarketsOn, VaultTypeOK
<1>2. CASE k = m.key
  <2>1. openInterest'[k] = openInterest[k] + n
    BY <1>2 DEF VaultTypeOK
  <2> QED BY <1>1, <1>2, <2>1, PotsMove
<1>3. CASE k # m.key
  <2>1. openInterest'[k] = openInterest[k]
    BY <1>3 DEF VaultTypeOK
  <2> QED BY <1>1, <1>3, <2>1, PotsMove
<1> QED BY <1>2, <1>3

(* Minting to, or burning from, one holder.                                *)
LEMMA BothSidesKeepSupply ==
  ASSUME VaultTypeOK, SupplyIsHeld, NEW m \in Market, NEW a \in Account,
         NEW x \in Int, NEW y \in Int,
         high' = [high EXCEPT ![m][a] = @ + x], low' = [low EXCEPT ![m][a] = @ + y],
         supplyHigh' = [supplyHigh EXCEPT ![m] = @ + x],
         supplyLow' = [supplyLow EXCEPT ![m] = @ + y]
  PROVE  SupplyIsHeld'
<1> SUFFICES ASSUME NEW j \in Market
             PROVE  supplyHigh'[j] = SumFunction(high'[j]) /\ supplyLow'[j] = SumFunction(low'[j])
  BY DEF SupplyIsHeld
<1>1. supplyHigh[j] = SumFunction(high[j]) /\ supplyLow[j] = SumFunction(low[j])
  BY DEF SupplyIsHeld
<1>2. CASE j # m
  <2>1. high'[j] = high[j] /\ low'[j] = low[j]
    BY <1>2 DEF VaultTypeOK
  <2>2. supplyHigh'[j] = supplyHigh[j] /\ supplyLow'[j] = supplyLow[j]
    BY <1>2 DEF VaultTypeOK
  <2> QED BY <1>1, <2>1, <2>2
<1>3. CASE j = m
  <2>1. PICK h : h = high[m]
    OBVIOUS
  <2>2. PICK l : l = low[m]
    OBVIOUS
  <2>3. h \in [Account -> Int] /\ l \in [Account -> Int]
    BY <2>1, <2>2 DEF VaultTypeOK
  <2>4. PICK g : g = high'[m]
    OBVIOUS
  <2>5. PICK e : e = low'[m]
    OBVIOUS
  <2>6. /\ g \in [Account -> Int] /\ g[a] = h[a] + x /\ \A b \in Account \ {a} : g[b] = h[b]
    BY <2>1, <2>3, <2>4 DEF VaultTypeOK
  <2>7. /\ e \in [Account -> Int] /\ e[a] = l[a] + y /\ \A b \in Account \ {a} : e[b] = l[b]
    BY <2>2, <2>3, <2>5 DEF VaultTypeOK
  <2>8. supplyHigh'[m] = supplyHigh[m] + x /\ supplyLow'[m] = supplyLow[m] + y
    BY DEF VaultTypeOK
  <2>9. SumFunction(g) = SumFunction(h) + x /\ SumFunction(e) = SumFunction(l) + y
    BY <2>3, <2>6, <2>7, FiniteAssumption, SumRaised
  <2> QED BY <1>1, <1>3, <2>1, <2>2, <2>4, <2>5, <2>8, <2>9
<1> QED BY <1>2, <1>3

(* A transfer moves what it moves, to another holder or to its own sender. *)
LEMMA TransferKeepsSum ==
  ASSUME NEW balance \in [Account -> Nat], NEW from \in Account, NEW to \in Account,
         NEW amount \in Nat
  PROVE  SumFunction(moved(balance, from, to, amount)) = SumFunction(balance)
<1> DEFINE taken == [balance EXCEPT ![from] = @ - amount]
           given == [taken EXCEPT ![to] = @ + amount]
<1>1. balance \in [Account -> Int] /\ -amount \in Int /\ IsFiniteSet(Account)
  BY FiniteAssumption
<1>2. /\ taken \in [Account -> Int] /\ taken[from] = balance[from] + (-amount)
      /\ \A b \in Account \ {from} : taken[b] = balance[b]
  OBVIOUS
<1> HIDE DEF taken
<1>3. SumFunction(taken) = SumFunction(balance) + (-amount) /\ SumFunction(balance) \in Int
  BY <1>1, <1>2, SumRaised
<1>4. /\ given \in [Account -> Int] /\ given[to] = taken[to] + amount
      /\ \A b \in Account \ {to} : given[b] = taken[b]
  BY <1>2
<1> HIDE DEF given
<1>6. SumFunction(given) = SumFunction(taken) + amount
  BY <1>1, <1>2, <1>4, SumRaised
<1>5. moved(balance, from, to, amount) = given
  BY DEF moved, given, taken
<1> QED BY <1>3, <1>5, <1>6

LEMMA TransferPots ==
  ASSUME VaultTypeOK, PotsInv, NEW m \in Market, Transfer(m)
  PROVE  SupplyIsHeld'
<1>1. PICK from \in Account, to \in Account, amount \in Amounts :
             transferHigh(m, from, to, amount) \/ transferLow(m, from, to, amount)
  BY DEF Transfer
<1>2. SupplyIsHeld /\ amount \in Nat
  BY VaultAmountAssumption DEF PotsInv
<1>3. high[m] \in [Account -> Nat] /\ low[m] \in [Account -> Nat]
  BY DEF VaultTypeOK
<1>4. PICK h : h = high[m]
  OBVIOUS
<1>5. PICK l : l = low[m]
  OBVIOUS
<1>6. CASE transferHigh(m, from, to, amount)
  <2>1. SumFunction(moved(h, from, to, amount)) = SumFunction(h)
    BY <1>2, <1>3, <1>4, TransferKeepsSum
  <2>2. /\ high'[m] = moved(h, from, to, amount)
        /\ \A j \in Market \ {m} : high'[j] = high[j]
        /\ UNCHANGED <<low, supplyHigh, supplyLow>>
    BY <1>4, <1>6 DEF transferHigh, VaultTypeOK
  <2> QED BY <1>2, <1>4, <2>1, <2>2 DEF SupplyIsHeld
<1>7. CASE transferLow(m, from, to, amount)
  <2>1. SumFunction(moved(l, from, to, amount)) = SumFunction(l)
    BY <1>2, <1>3, <1>5, TransferKeepsSum
  <2>2. /\ low'[m] = moved(l, from, to, amount)
        /\ \A j \in Market \ {m} : low'[j] = low[j]
        /\ UNCHANGED <<high, supplyHigh, supplyLow>>
    BY <1>5, <1>7 DEF transferLow, VaultTypeOK
  <2> QED BY <1>2, <1>5, <2>1, <2>2 DEF SupplyIsHeld
<1> QED BY <1>1, <1>6, <1>7

(* The end of a split books what came in since the balance it read first.  *)
LEMMA SplitMintPots ==
  ASSUME VaultInv, PotsInv, splitMint
  PROVE  SupplyIsHeld' /\ InterestIsCollateral' /\ SumFunction(collateral') <= Booked'
<1>0. VaultTypeOK /\ SupplyIsHeld /\ InterestIsCollateral
  BY DEF VaultInv, PotsInv
<1> DEFINE flight == inFlight[1]
           m == flight.market
           n == vaultBalance - flight.before
<1>1. inFlight # <<>> /\ inFlight \in Seq(Flight) /\ Len(inFlight) <= 1
  BY <1>0 DEF splitMint, VaultTypeOK
<1>2. /\ 1 \in DOMAIN inFlight /\ Head(inFlight) = flight /\ flight \in Flight
      /\ Tail(inFlight) = <<>>
  BY <1>1, AtMostOne
<1>3. /\ m \in Market /\ flight.who \in Account /\ flight.before \in Nat
      /\ vaultBalance \in Nat /\ n \in Int
  BY <1>0, <1>2 DEF Flight, VaultTypeOK
<1>4. /\ collateral' = [collateral EXCEPT ![m] = @ + n]
      /\ openInterest' = [openInterest EXCEPT ![m.key] = @ + n]
      /\ supplyHigh' = [supplyHigh EXCEPT ![m] = @ + n]
      /\ supplyLow' = [supplyLow EXCEPT ![m] = @ + n]
      /\ high' = [high EXCEPT ![m][flight.who] = @ + n]
      /\ low' = [low EXCEPT ![m][flight.who] = @ + n]
      /\ inFlight' = <<>> /\ UNCHANGED <<settled, vaultBalance>>
  BY <1>2 DEF splitMint, book, mintBoth
<1>5. SumFunction(collateral) <= flight.before
  BY <1>1 DEF PotsInv, Booked
<1>8. flight.before + n = vaultBalance
  BY <1>3
<1>9. Booked' = vaultBalance
  BY <1>4 DEF Booked
<1> HIDE DEF flight, m, n
<1>6. InterestIsCollateral'
  BY <1>0, <1>3, <1>4, BookKeepsInterest
<1>7. SupplyIsHeld'
  BY <1>0, <1>3, <1>4, BothSidesKeepSupply
<1>10. SumFunction(collateral) \in Int /\ SumFunction(collateral') = SumFunction(collateral) + n
  BY <1>0, <1>3, <1>4, PotsMove
<1> QED BY <1>3, <1>5, <1>6, <1>7, <1>8, <1>9, <1>10

LEMMA MergePots ==
  ASSUME VaultInv, PotsInv, NEW m \in Market, Merge(m)
  PROVE  SupplyIsHeld' /\ InterestIsCollateral' /\ SumFunction(collateral') <= Booked'
<1>0. VaultTypeOK /\ SupplyIsHeld /\ InterestIsCollateral
  BY DEF VaultInv, PotsInv
<1>1. PICK who \in Account, amount \in Amounts : merge(m, who, amount)
  BY DEF Merge
<1>2. PICK n \in Int : n = -amount
  BY VaultAmountAssumption
<1>3. amount \in Nat /\ m.key \in Key
  BY VaultAmountAssumption, MarketAssumption
<1>4. /\ collateral' = [collateral EXCEPT ![m] = @ + n]
      /\ openInterest' = [openInterest EXCEPT ![m.key] = @ + n]
      /\ inFlight = <<>> /\ inFlight' = <<>> /\ settled' = settled
      /\ vaultBalance' = vaultBalance - amount
  BY <1>1, <1>2 DEF merge, book, Unlocked
<1>5. /\ supplyHigh' = [supplyHigh EXCEPT ![m] = @ - amount]
      /\ supplyLow' = [supplyLow EXCEPT ![m] = @ - amount]
      /\ high' = [high EXCEPT ![m][who] = @ - amount]
      /\ low' = [low EXCEPT ![m][who] = @ - amount]
  BY <1>1 DEF merge, burnBoth
<1>6. /\ supplyHigh' = [supplyHigh EXCEPT ![m] = @ + n]
      /\ supplyLow' = [supplyLow EXCEPT ![m] = @ + n]
      /\ high' = [high EXCEPT ![m][who] = @ + n]
      /\ low' = [low EXCEPT ![m][who] = @ + n]
  <2>1. supplyHigh[m] - amount = supplyHigh[m] + n /\ supplyLow[m] - amount = supplyLow[m] + n
    BY <1>0, <1>2, <1>3 DEF VaultTypeOK
  <2>2. high[m][who] - amount = high[m][who] + n /\ low[m][who] - amount = low[m][who] + n
    BY <1>0, <1>2, <1>3 DEF VaultTypeOK
  <2> QED BY <1>5, <2>1, <2>2, Zenon
<1>7. InterestIsCollateral'
  BY <1>0, <1>4, BookKeepsInterest
<1>8. SupplyIsHeld'
  BY <1>0, <1>6, BothSidesKeepSupply
<1>9. SumFunction(collateral) \in Int /\ SumFunction(collateral') = SumFunction(collateral) + n
  BY <1>0, <1>4, PotsMove
<1>10. SumFunction(collateral) <= vaultBalance /\ Booked' = vaultBalance - amount
  BY <1>4 DEF PotsInv, Booked
<1>11. vaultBalance \in Nat
  BY <1>0 DEF VaultTypeOK
<1> QED BY <1>2, <1>3, <1>7, <1>8, <1>9, <1>10, <1>11

(* A redemption leaves open interest standing, and the epoch has a settled *)
(* market.                                                                 *)
LEMMA RedeemPots ==
  ASSUME VaultInv, PotsInv, NEW m \in Market, Redeem(m)
  PROVE  SupplyIsHeld' /\ InterestIsCollateral' /\ SumFunction(collateral') <= Booked'
<1>0. VaultTypeOK /\ SupplyIsHeld /\ InterestIsCollateral
  BY DEF VaultInv, PotsInv
<1>1. PICK who \in Account : redeem(m, who)
  BY DEF Redeem
<1>2. PICK h : h = high[m][who]
  OBVIOUS
<1>3. PICK l : l = low[m][who]
  OBVIOUS
<1>4. PICK paid : paid = redemption(h, l, payoutHighWad[m])
  OBVIOUS
<1>5. h \in Nat /\ l \in Nat /\ payoutHighWad[m] \in 0..WAD /\ vaultBalance \in Nat
  BY <1>0, <1>2, <1>3 DEF VaultTypeOK
<1>6. paid \in Nat
  BY <1>4, <1>5, RedemptionIsCovered
<1>7. /\ collateral' = [collateral EXCEPT ![m] = @ - paid]
      /\ vaultBalance' = vaultBalance - paid
      /\ inFlight = <<>> /\ inFlight' = <<>> /\ m \in settled
      /\ UNCHANGED <<settled, openInterest>>
      /\ supplyHigh' = [supplyHigh EXCEPT ![m] = @ - h]
      /\ supplyLow' = [supplyLow EXCEPT ![m] = @ - l]
      /\ high' = [high EXCEPT ![m][who] = @ - h]
      /\ low' = [low EXCEPT ![m][who] = @ - l]
  BY <1>1, <1>2, <1>3, <1>4 DEF redeem, burnBoth, Unlocked
<1>8. PICK n \in Int : n = -paid
  BY <1>6
<1>9. PICK x \in Int : x = -h
  BY <1>5
<1>10. PICK y \in Int : y = -l
  BY <1>5
<1>11. collateral' = [collateral EXCEPT ![m] = @ + n]
  <2>1. collateral[m] - paid = collateral[m] + n
    BY <1>0, <1>6, <1>8 DEF VaultTypeOK
  <2> QED BY <1>7, <2>1, Zenon
<1>12. /\ supplyHigh' = [supplyHigh EXCEPT ![m] = @ + x]
       /\ supplyLow' = [supplyLow EXCEPT ![m] = @ + y]
       /\ high' = [high EXCEPT ![m][who] = @ + x]
       /\ low' = [low EXCEPT ![m][who] = @ + y]
  <2>1. supplyHigh[m] - h = supplyHigh[m] + x /\ supplyLow[m] - l = supplyLow[m] + y
    BY <1>0, <1>5, <1>9, <1>10 DEF VaultTypeOK
  <2>2. high[m][who] - h = high[m][who] + x /\ low[m][who] - l = low[m][who] + y
    BY <1>0, <1>5, <1>9, <1>10 DEF VaultTypeOK
  <2> QED BY <1>7, <2>1, <2>2, Zenon
<1>13. SupplyIsHeld'
  BY <1>0, <1>12, BothSidesKeepSupply
<1>14. /\ SumFunction(collateral) \in Int /\ SumFunction(collateral') = SumFunction(collateral) + n
       /\ \A k \in Key \ {m.key} :
              SumFunctionOnSet(collateral', MarketsOn(k)) = SumFunctionOnSet(collateral, MarketsOn(k))
  BY <1>0, <1>11, PotsMove
<1>15. InterestIsCollateral'
  BY <1>0, <1>7, <1>14 DEF InterestIsCollateral, MarketsOn
<1>16. SumFunction(collateral) <= vaultBalance /\ Booked' = vaultBalance - paid
  BY <1>7 DEF PotsInv, Booked
<1> QED BY <1>5, <1>6, <1>8, <1>13, <1>14, <1>15, <1>16

LEMMA PotsStepInv == VaultInv /\ PotsInv /\ [VaultNext]_allVars => PotsInv'
<1> SUFFICES ASSUME VaultInv, PotsInv, [VaultNext]_allVars PROVE PotsInv'
  OBVIOUS
<1> USE DEF ledgerVars, supplyVars
<1>0. VaultTypeOK /\ CustodyInv /\ SupplyIsHeld /\ InterestIsCollateral
      /\ SumFunction(collateral) <= Booked
  BY DEF VaultInv, PotsInv
<1>1. CustodyInv'
  <2>1. ASSUME NEW k \in Key, EpochCall(k, openInterest[k]) PROVE CustodyInv'
    BY <1>0, <2>1, EpochCallCustody
  <2>2. CASE GovernanceCall \/ Tick \/ UNCHANGED oracleVars
    BY <1>0, <2>2, OtherCallCustody
  <2>3. ASSUME NEW m \in Market, MarketCall(m) PROVE UNCHANGED oracleVars
    BY <2>3 DEF MarketCall, createMarket, SplitPull, splitPull, Merge, merge, settle, settleVoid,
                Redeem, redeem, Transfer, transferHigh, transferLow
  <2>4. splitMint => UNCHANGED oracleVars
    BY DEF splitMint
  <2>5. ASSUME NEW amount \in Amounts, sendCollateral(amount) PROVE UNCHANGED oracleVars
    BY <2>5 DEF sendCollateral
  <2> QED BY <2>1, <2>2, <2>3, <2>4, <2>5 DEF VaultNext, OracleCall, BlockTime, allVars
<1>2. CASE UNCHANGED <<collateral, openInterest, high, low, supplyHigh, supplyLow, vaultBalance, inFlight>>
           /\ settled \subseteq settled'
  BY <1>0, <1>1, <1>2 DEF PotsInv, SupplyIsHeld, InterestIsCollateral, Booked
<1>3. CASE UNCHANGED allVars \/ OracleCall \/ BlockTime
  BY <1>2, <1>3 DEF allVars, vaultVars, OracleCall, BlockTime
<1>4. ASSUME NEW m \in Market, createMarket(m) \/ settle(m) \/ settleVoid(m) PROVE PotsInv'
  BY <1>2, <1>4 DEF createMarket, settle, settleVoid
<1>5. ASSUME NEW m \in Market, SplitPull(m) PROVE PotsInv'
  <2>1. PICK who \in Account, received \in Amounts : splitPull(m, who, received)
    BY <1>5 DEF SplitPull
  <2>2. /\ inFlight = <<>> /\ inFlight' # <<>> /\ inFlight'[1].before = vaultBalance
        /\ UNCHANGED <<collateral, openInterest, high, low, supplyHigh, supplyLow, settled>>
    BY <2>1 DEF splitPull, Unlocked
  <2>3. Booked' = Booked
    BY <2>2 DEF Booked
  <2> QED BY <1>0, <1>1, <2>2, <2>3 DEF PotsInv, SupplyIsHeld, InterestIsCollateral
<1>6. ASSUME NEW m \in Market, Transfer(m) PROVE PotsInv'
  <2>1. UNCHANGED <<collateral, openInterest, settled, vaultBalance, inFlight>>
    BY <1>6 DEF Transfer, transferHigh, transferLow
  <2>2. SupplyIsHeld'
    BY <1>0, <1>6, TransferPots
  <2> QED BY <1>0, <1>1, <2>1, <2>2 DEF PotsInv, InterestIsCollateral, Booked
<1>7. ASSUME NEW amount \in Amounts, sendCollateral(amount) PROVE PotsInv'
  <2>1. /\ vaultBalance' = vaultBalance + amount
        /\ UNCHANGED <<collateral, openInterest, high, low, supplyHigh, supplyLow, settled, inFlight>>
    BY <1>7 DEF sendCollateral
  <2>2. SumFunction(collateral) <= Booked'
    <3>1. CASE inFlight # <<>>
      BY <1>0, <2>1, <3>1 DEF Booked
    <3>2. CASE inFlight = <<>>
      <4>1. SumFunction(collateral) <= vaultBalance /\ Booked' = vaultBalance + amount
        BY <1>0, <2>1, <3>2 DEF Booked
      <4>2. SumFunction(collateral) \in Int
        <5>1. collateral \in [Market -> Int]
          BY <1>0 DEF VaultTypeOK
        <5> QED BY <5>1, FiniteMarketAssumption, SumSplit DEF SumFunction
      <4>3. vaultBalance \in Nat /\ amount \in Nat
        BY <1>0, VaultAmountAssumption DEF VaultTypeOK
      <4> QED BY <4>1, <4>2, <4>3
    <3> QED BY <3>1, <3>2
  <2> QED BY <1>0, <1>1, <2>1, <2>2 DEF PotsInv, SupplyIsHeld, InterestIsCollateral
<1>8. CASE splitMint
  BY <1>1, <1>8, SplitMintPots DEF PotsInv
<1>9. ASSUME NEW m \in Market, Merge(m) \/ Redeem(m) PROVE PotsInv'
  BY <1>1, <1>9, MergePots, RedeemPots DEF PotsInv
<1> QED BY <1>3, <1>4, <1>5, <1>6, <1>7, <1>8, <1>9 DEF VaultNext, MarketCall

LEMMA PotsInitInv == VaultInit => PotsInv
<1> SUFFICES ASSUME VaultInit PROVE PotsInv
  OBVIOUS
<1>1. CustodyInv
  BY CustodyInit DEF VaultInit
<1>2. SupplyIsHeld
  <2> SUFFICES ASSUME NEW m \in Market
               PROVE  supplyHigh[m] = SumFunction(high[m]) /\ supplyLow[m] = SumFunction(low[m])
    BY DEF SupplyIsHeld
  <2>1. PICK z : z = [a \in Account |-> 0]
    OBVIOUS
  <2>2. SumFunction(z) = 0
    BY <2>1, FiniteAssumption, SumOfZeros DEF SumFunction
  <2> QED BY <2>1, <2>2 DEF VaultInit
<1>3. PICK c : c = collateral
  OBVIOUS
<1>4. \A m \in Market : c[m] = 0
  BY <1>3 DEF VaultInit
<1>5. InterestIsCollateral
  <2> SUFFICES ASSUME NEW k \in Key
               PROVE  openInterest[k] = SumFunctionOnSet(collateral, MarketsOn(k))
    BY DEF InterestIsCollateral, MarketsOn
  <2>1. IsFiniteSet(MarketsOn(k)) /\ \A m \in MarketsOn(k) : c[m] = 0
    BY <1>4, FiniteMarketAssumption, FS_Subset DEF MarketsOn
  <2> QED BY <1>3, <2>1, SumOfZeros DEF VaultInit
<1>6. SumFunction(collateral) = 0
  <2>1. SumFunctionOnSet(c, Market) = 0 /\ DOMAIN c = Market
    BY <1>3, <1>4, FiniteMarketAssumption, SumOfZeros DEF VaultInit
  <2> QED BY <1>3, <2>1 DEF SumFunction
<1>7. SumFunction(collateral) <= Booked
  BY <1>6 DEF VaultInit, Booked
<1> QED BY <1>1, <1>2, <1>5, <1>7 DEF PotsInv

LEMMA PotsInvariant == VaultSpec => []PotsInv
BY PotsInitInv, PotsStepInv, VaultInvariant, PTL DEF VaultSpec

(* All that the vault keeps once and all that it keeps per market agree,   *)
(* through split, the calls inside a split, merge and redeem, for any      *)
(* number of markets and epochs (book 293-304, splitMint's balance delta), *)
(* and so do the bonds the oracle under it holds.                          *)
THEOREM VaultPotsAddUp == VaultSpec => []PotsAddUp
<1>1. VaultInv /\ PotsInv => PotsAddUp
  <2> SUFFICES ASSUME VaultInv, PotsInv PROVE VaultHoldsEveryPot
    BY DEF PotsAddUp, PotsInv, CustodyInv
  <2>1. SumFunction(collateral) <= Booked
    BY DEF PotsInv
  <2>2. CASE inFlight = <<>>
    BY <2>1, <2>2 DEF Booked, VaultHoldsEveryPot
  <2>3. CASE inFlight # <<>>
    <3>1. inFlight \in Seq(Flight) /\ Len(inFlight) <= 1 /\ vaultBalance \in Nat
      BY DEF VaultInv, VaultTypeOK
    <3>2. 1 \in DOMAIN inFlight /\ inFlight[1] \in Flight
      BY <2>3, <3>1, AtMostOne
    <3>3. inFlight[1].before \in Nat /\ inFlight[1].before <= vaultBalance
      BY <3>2 DEF VaultInv, VaultTypeOK, Flight
    <3>4. SumFunction(collateral) \in Int
      <4>1. collateral \in [Market -> Int]
        BY DEF VaultInv, VaultTypeOK
      <4> QED BY <4>1, FiniteMarketAssumption, SumSplit DEF SumFunction
    <3> QED BY <2>1, <2>3, <3>1, <3>3, <3>4 DEF Booked, VaultHoldsEveryPot
  <2> QED BY <2>2, <2>3
<1> QED BY <1>1, VaultInvariant, PotsInvariant, PTL

(* What all holders of a settled market are owed together fits in its pot: *)
(* term by term a redemption is worth no more than the claims it burns,    *)
(* the claims add up to the supplies, and those are covered (Solvent).     *)
LEMMA OwedTogether ==
  ASSUME VaultInv, SupplyIsHeld, NEW m \in settled
  PROVE  SumFunction([a \in Account |-> redemption(high[m][a], low[m][a], payoutHighWad[m])])
            <= collateral[m]
<1>1. PICK h : h = high[m]
  OBVIOUS
<1>2. PICK l : l = low[m]
  OBVIOUS
<1>3. PICK p : p = payoutHighWad[m]
  OBVIOUS
<1>4. PICK q : q = WAD - p
  OBVIOUS
<1>5. /\ h \in [Account -> Nat] /\ l \in [Account -> Nat] /\ p \in 0..WAD /\ m \in Market
      /\ collateral[m] \in Nat
  BY <1>1, <1>2, <1>3 DEF VaultInv, VaultTypeOK
<1>6. WAD \in Nat \ {0} /\ q \in Nat /\ p \in Nat /\ IsFiniteSet(Account)
  BY <1>4, <1>5, WadAssumption, FiniteAssumption
<1>7. PICK paid : paid = [a \in Account |-> redemption(h[a], l[a], p)]
  OBVIOUS
<1>8. PICK worth : worth = Combined(h, p, l, q)
  OBVIOUS
<1>9. PICK scaled : scaled = Combined(paid, WAD, paid, 0)
  OBVIOUS
<1>10. \A a \in Account : /\ paid[a] \in Int /\ scaled[a] \in Int /\ worth[a] \in Int
                          /\ scaled[a] <= worth[a]
  <2> SUFFICES ASSUME NEW a \in Account
               PROVE  /\ paid[a] \in Int /\ scaled[a] \in Int /\ worth[a] \in Int
                      /\ scaled[a] <= worth[a]
    OBVIOUS
  <2>1. h[a] \in Nat /\ l[a] \in Nat
    BY <1>5
  <2>2. /\ redemption(h[a], l[a], p) \in Nat
        /\ WAD * redemption(h[a], l[a], p) <= h[a] * p + l[a] * (WAD - p)
    BY <1>5, <2>1, RedemptionIsCovered
  <2>3. paid[a] \in Nat /\ WAD * paid[a] <= h[a] * p + l[a] * q
    BY <1>4, <1>7, <2>2
  <2>4. scaled[a] = paid[a] * WAD /\ worth[a] = h[a] * p + l[a] * q
    BY <1>5, <1>6, <1>7, <1>8, <1>9, <2>3 DEF Combined
  <2>5. paid[a] * WAD = WAD * paid[a]
    BY <1>6, <2>3
  <2> QED BY <1>6, <2>1, <2>3, <2>4, <2>5
<1>11. SumFunctionOnSet(worth, Account)
          = SumFunctionOnSet(h, Account) * p + SumFunctionOnSet(l, Account) * q
  <2>1. h \in [Account -> Int] /\ l \in [Account -> Int] /\ p \in Int /\ q \in Int
    BY <1>5, <1>6
  <2> QED BY <1>6, <1>8, <2>1, SumLinear
<1>12. SumFunctionOnSet(scaled, Account)
          = SumFunctionOnSet(paid, Account) * WAD + SumFunctionOnSet(paid, Account) * 0
  <2>1. paid \in [Account -> Int] /\ WAD \in Int /\ 0 \in Int
    BY <1>6, <1>7, <1>10
  <2> QED BY <1>6, <1>9, <2>1, SumLinear
<1>13. SumFunctionOnSet(scaled, Account) <= SumFunctionOnSet(worth, Account)
  <2>1. \A a \in Account : scaled[a] \in Int /\ worth[a] \in Int /\ scaled[a] <= worth[a]
    BY <1>10
  <2> QED BY <1>6, <2>1, SumBelow
<1>14. supplyHigh[m] = SumFunctionOnSet(h, Account) /\ supplyLow[m] = SumFunctionOnSet(l, Account)
  BY <1>1, <1>2, <1>5 DEF SupplyIsHeld, SumFunction
<1>15. WAD * collateral[m] >= supplyHigh[m] * p + supplyLow[m] * q
  BY <1>3, <1>4 DEF VaultInv, Solvent
<1>16. SumFunctionOnSet(paid, Account) \in Int
  BY <1>6, <1>10, SumSplit
<1>17. PICK s : s = SumFunctionOnSet(paid, Account)
  OBVIOUS
<1>18. /\ SumFunctionOnSet(h, Account) * p + SumFunctionOnSet(l, Account) * q \in Int
       /\ SumFunctionOnSet(scaled, Account) \in Int
  <2>1. /\ \A a \in Account : h[a] \in Int
        /\ \A a \in Account : l[a] \in Int
    BY <1>5
  <2>2. SumFunctionOnSet(h, Account) \in Int /\ SumFunctionOnSet(l, Account) \in Int
    BY <1>6, <2>1, SumSplit
  <2>3. SumFunctionOnSet(scaled, Account) \in Int
    BY <1>6, <1>10, SumSplit
  <2> QED BY <1>6, <2>2, <2>3
<1>19. s * WAD <= WAD * collateral[m]
  <2>1. s * WAD + s * 0 = s * WAD
    BY <1>6, <1>16, <1>17
  <2>2. SumFunctionOnSet(scaled, Account) = s * WAD
    BY <1>12, <1>17, <2>1
  <2>3. s * WAD <= supplyHigh[m] * p + supplyLow[m] * q
    BY <1>11, <1>13, <1>14, <2>2
  <2>4. s * WAD \in Int /\ WAD * collateral[m] \in Int /\ supplyHigh[m] * p + supplyLow[m] * q \in Int
    BY <1>5, <1>6, <1>14, <1>16, <1>17, <1>18
  <2> QED BY <1>15, <2>3, <2>4
<1>20. s <= collateral[m]
  <2> SUFFICES ASSUME collateral[m] + 1 <= s PROVE FALSE
    BY <1>5, <1>16, <1>17
  <2>1. (collateral[m] + 1) * WAD <= s * WAD
    BY <1>5, <1>6, <1>16, <1>17, MulMonotone
  <2> QED BY <1>5, <1>6, <1>16, <1>17, <1>19, <2>1
<1> QED BY <1>1, <1>2, <1>3, <1>7, <1>17, <1>20 DEF SumFunction

(* Every claim held is one the supply counts, and the last to redeem is    *)
(* paid like the first, whatever was transferred, redeemed and rounded     *)
(* before, for any number of holders and any amounts (redeem 379-398).     *)
THEOREM VaultPaysEveryClaim == VaultSpec => []EveryClaimIsPaid
<1>1. VaultInv /\ PotsInv => EveryClaimIsPaid
  <2> SUFFICES ASSUME VaultInv, PotsInv PROVE EveryClaimIsPaid
    OBVIOUS
  <2>1. SupplyIsHeld
    BY DEF PotsInv
  <2>2. LastRedeemerIsPaid
    BY <2>1, OwedTogether DEF LastRedeemerIsPaid
  <2>3. \A m \in settled : payoutHighWad[m] \in 0..WAD
    BY DEF VaultInv, VaultTypeOK
  <2> QED BY <2>1, <2>2, <2>3 DEF EveryClaimIsPaid
<1> QED BY <1>1, VaultInvariant, PotsInvariant, PTL

-----------------------------------------------------------------------------
(* The hook.  For the fee two things have to come together.  The schedule  *)
(* is monotone in time for one close, floor division included              *)
(* (FeeAtRises).  And a market has one close: none before its epoch is     *)
(* opened, and then the same through disputes, re-publications and         *)
(* decisions (CloseIsFixed).                                               *)
(*                                                                         *)
(* For the freeze every door asks the same question, but two calls of the  *)
(* vault do not ask: a split in flight, and a redemption (FreezeInv).      *)
(*                                                                         *)
(* The schedule.                                                           *)

(* The fee of a market that closes at c, at time t.                        *)
FeeAt(c, t) ==
    IF c = 0 THEN BASE_FEE
    ELSE IF t >= c THEN MAX_FEE
    ELSE IF c - t >= RAMP THEN BASE_FEE
    ELSE BASE_FEE + climb(c - t)

(* Division by the same divisor keeps the order.                           *)
LEMMA DivMonotone ==
  ASSUME NEW x \in Int, NEW y \in Int, NEW d \in Nat \ {0}, x <= y
  PROVE  x \div d <= y \div d
<1> DEFINE q == x \div d
           r == y \div d
<1>1. q \in Int /\ d * q <= x
  BY DivSpec
<1>2. r \in Int /\ y < d * r + d
  BY DivSpec
<1> HIDE DEF q, r
<1>3. SUFFICES ASSUME r + 1 <= q PROVE FALSE
  BY <1>1, <1>2 DEF q, r
<1>4. (r + 1) * d <= q * d
  BY <1>1, <1>2, <1>3, MulMonotone
<1> QED BY <1>1, <1>2, <1>4

(* Inside the ramp the climb stays between the floor and the ceiling.      *)
LEMMA ClimbInRange ==
  ASSUME NEW r \in Nat, r <= RAMP
  PROVE  climb(r) \in 0..(MAX_FEE - BASE_FEE)
<1> DEFINE w == MAX_FEE - BASE_FEE
           a == RAMP - r
<1>1. w \in Nat /\ a \in Nat /\ RAMP \in Nat \ {0} /\ a <= RAMP
  BY FeeAssumption
<1>2. climb(r) = (w * a) \div RAMP
  BY DEF climb
<1>3. w * a = a * w
  BY <1>1
<1> HIDE DEF w, a
<1>4. (a * w) \div RAMP \in 0..w
  BY <1>1, ShareInRange
<1> QED BY <1>2, <1>3, <1>4 DEF w

(* The nearer the close, the higher the climb.                             *)
LEMMA ClimbRises ==
  ASSUME NEW r \in Nat, NEW s \in Nat, s <= r, r <= RAMP
  PROVE  climb(r) <= climb(s)
<1> DEFINE w == MAX_FEE - BASE_FEE
           a == RAMP - r
           b == RAMP - s
<1>1. w \in Nat /\ a \in Nat /\ b \in Nat /\ RAMP \in Nat \ {0} /\ a <= b
  BY FeeAssumption
<1>2. climb(r) = (w * a) \div RAMP /\ climb(s) = (w * b) \div RAMP
  BY DEF climb
<1> HIDE DEF w, a, b
<1>3. a * w <= b * w
  BY <1>1, MulMonotone
<1>4. w * a \in Int /\ w * b \in Int /\ w * a <= w * b
  BY <1>1, <1>3
<1> QED BY <1>1, <1>2, <1>4, DivMonotone

LEMMA FeeAtInRange ==
  ASSUME NEW c \in Nat, NEW t \in Nat
  PROVE  FeeAt(c, t) \in BASE_FEE..MAX_FEE
<1>1. CASE c = 0 \/ t >= c \/ c - t >= RAMP
  BY <1>1, FeeAssumption DEF FeeAt
<1>2. CASE t < c /\ c - t < RAMP
  <2>1. c - t \in Nat /\ c - t <= RAMP /\ c # 0 /\ ~(t >= c) /\ ~(c - t >= RAMP)
    BY <1>2, FeeAssumption
  <2>2. climb(c - t) \in 0..(MAX_FEE - BASE_FEE)
    BY <2>1, ClimbInRange
  <2> QED BY <2>1, <2>2, FeeAssumption DEF FeeAt
<1> QED BY <1>1, <1>2, FeeAssumption

LEMMA FeeAtRises ==
  ASSUME NEW c \in Nat, c # 0, NEW t \in Nat, NEW u \in Nat, t <= u
  PROVE  FeeAt(c, t) <= FeeAt(c, u)
<1>1. /\ FeeAt(c, t) \in BASE_FEE..MAX_FEE /\ FeeAt(c, u) \in BASE_FEE..MAX_FEE
      /\ BASE_FEE \in Nat /\ MAX_FEE \in Nat /\ RAMP \in Nat
  BY FeeAtInRange, FeeAssumption
<1>2. CASE c - t >= RAMP
  <2>1. FeeAt(c, t) = BASE_FEE
    BY <1>1, <1>2, FeeAssumption DEF FeeAt
  <2> QED BY <1>1, <2>1
<1>3. CASE u >= c
  <2>1. FeeAt(c, u) = MAX_FEE
    BY <1>3 DEF FeeAt
  <2> QED BY <1>1, <2>1
<1>4. CASE c - t < RAMP /\ u < c
  <2>1. /\ c - t \in Nat /\ c - u \in Nat /\ c - u <= c - t /\ c - t <= RAMP
        /\ ~(t >= c) /\ ~(u >= c) /\ ~(c - t >= RAMP) /\ ~(c - u >= RAMP)
    BY <1>1, <1>4
  <2>2. climb(c - t) <= climb(c - u)
    BY <2>1, ClimbRises
  <2>3. FeeAt(c, t) = BASE_FEE + climb(c - t) /\ FeeAt(c, u) = BASE_FEE + climb(c - u)
    BY <2>1 DEF FeeAt
  <2>4. climb(c - t) \in Int /\ climb(c - u) \in Int
    BY <2>1, ClimbInRange, <1>1
  <2> QED BY <1>1, <2>2, <2>3, <2>4
<1> QED BY <1>1, <1>2, <1>3, <1>4

-----------------------------------------------------------------------------
(* The close.                                                              *)

(* The inductive invariant: an epoch nobody opened has no close.  Without  *)
(* it opening an epoch could move a close, and with it the fee.            *)
CloseInv ==
    /\ OracleTypeOK
    /\ \A k \in Key : statusOf(k) = "None" => freezeAt(k) = 0

(* What a step may do to the closes: set one that was not set, no more.    *)
ClosesStand ==
    /\ now <= now'
    /\ created \subseteq created'
    /\ \A k \in Key : freezeAt(k) # 0 => freezeAt(k)' = freezeAt(k)

(* The record a call on an epoch is about, and all the others.             *)
LEMMA EpochCallRecord ==
  ASSUME CloseInv, NEW j \in Key, NEW atRisk, EpochCall(j, atRisk)
  PROVE  /\ now' = now /\ \A k \in Key \ {j} : epochs'[k] = epochs[k]
         /\ epochs[j].status \notin Terminal /\ epochs'[j].status # "None"
         /\ epochs[j].status = "None" => epochs'[j].closesAt > now
         /\ epochs[j].status # "None" => epochs'[j].closesAt = epochs[j].closesAt
<1> USE DEF statusOf, freezeAt, Terminal
<1>0. epochs \in [Key -> Epoch] /\ epochs[j] \in Epoch /\ now' = now
  BY EpochCallFrame DEF CloseInv, OracleTypeOK
<1>1. \A k \in Key \ {j} : epochs'[k] = epochs[k]
  BY <1>0, EpochCallFrame
<1>2. CASE Open(j)
  BY <1>0, <1>1, <1>2 DEF Open, openEpoch, Epoch
<1>3. CASE Publish(j, atRisk)
  BY <1>0, <1>1, <1>3 DEF Publish, publish, Epoch
<1>4. CASE Dispute(j)
  BY <1>0, <1>1, <1>4 DEF Dispute, dispute, Epoch
<1>5. CASE resolveForPublisher(j)
  BY <1>0, <1>1, <1>5 DEF resolveForPublisher, Epoch
<1>6. CASE resolveForChallenger(j)
  BY <1>0, <1>1, <1>6 DEF resolveForChallenger, Wiped, Epoch
<1>7. CASE finalize(j)
  BY <1>0, <1>1, <1>7 DEF finalize, Epoch
<1>8. CASE voidEpoch(j)
  BY <1>0, <1>1, <1>8 DEF voidEpoch, Voidable, Epoch
<1> QED BY <1>2, <1>3, <1>4, <1>5, <1>6, <1>7, <1>8 DEF EpochCall

LEMMA EpochCallCloses ==
  ASSUME CloseInv, NEW j \in Key, NEW atRisk, EpochCall(j, atRisk), UNCHANGED created
  PROVE  CloseInv' /\ ClosesStand
<1>1. OracleTypeOK' /\ now \in Nat
  BY EpochCallType DEF CloseInv, OracleTypeOK
<1>2. CloseInv'
  BY <1>1, EpochCallRecord DEF CloseInv, statusOf, freezeAt
<1>3. ClosesStand
  BY <1>1, EpochCallRecord DEF CloseInv, ClosesStand, statusOf, freezeAt
<1> QED BY <1>2, <1>3

(* Everything but a call on an epoch: records stand, and time may pass.    *)
LEMMA RecordsStand ==
  ASSUME CloseInv, OracleTypeOK', epochs' = epochs, now' >= now, created \subseteq created'
  PROVE  CloseInv' /\ ClosesStand
BY DEF CloseInv, ClosesStand, statusOf, freezeAt, OracleTypeOK

LEMMA OracleAlone ==
  ASSUME CloseInv, UNCHANGED oracleVars
  PROVE  OracleTypeOK' /\ epochs' = epochs /\ now' >= now
<1>1. UNCHANGED <<now, governance, wired, minBond, rate, epochs, etherHeld, pricedAt>>
  BY DEF oracleVars
<1> QED BY <1>1 DEF CloseInv, OracleTypeOK

(* The pools and the vault: the oracle is read and never written.          *)
LEMMA PoolCallAlone ==
  ASSUME PoolCall \/ HookGovernanceCall \/ VaultCall
  PROVE  UNCHANGED oracleVars /\ created \subseteq created'
<1> USE DEF transferHigh, ledgerVars
<1>1. CASE PoolCall
  <2>1. PICK p \in Pool, who \in Trader : Trade(p, who) \/ ChangeLiquidity(p, who)
    BY <1>1 DEF PoolCall
  <2>2. CASE Trade(p, who)
    BY <2>2 DEF Trade, buyHigh, sellHigh
  <2>3. CASE ChangeLiquidity(p, who)
    BY <2>3 DEF ChangeLiquidity, addLiquidity, removeLiquidity
  <2> QED BY <2>1, <2>2, <2>3
<1>2. CASE HookGovernanceCall
  BY <1>2 DEF HookGovernanceCall, bindPool, setHookGovernance, allVars, vaultVars
<1>3. CASE VaultCall
  <2>1. ASSUME NEW m \in Market, createMarket(m) \/ settle(m) \/ settleVoid(m)
        PROVE  UNCHANGED oracleVars /\ created \subseteq created'
    BY <2>1 DEF createMarket, settle, settleVoid
  <2>2. ASSUME NEW m \in Market, NEW who \in Trader, NEW amount \in Amounts,
               \/ splitPull(m, who, amount) \/ merge(m, who, amount)
               \/ \E to \in Account : transferHigh(m, who, to, amount)
        PROVE  UNCHANGED oracleVars /\ created \subseteq created'
    BY <2>2 DEF splitPull, merge
  <2>3. ASSUME NEW m \in Market, NEW who \in Trader, redeem(m, who)
        PROVE  UNCHANGED oracleVars /\ created \subseteq created'
    BY <2>3 DEF redeem
  <2>4. CASE splitMint
    BY <2>4 DEF splitMint
  <2> QED BY <1>3, <2>1, <2>2, <2>3, <2>4 DEF VaultCall
<1> QED BY <1>1, <1>2, <1>3

LEMMA InitCloses == HookInit => CloseInv
<1> SUFFICES ASSUME HookInit PROVE CloseInv
  OBVIOUS
<1>1. OracleInit
  BY DEF HookInit, VaultInit
<1>2. \A k \in Key : freezeAt(k) = 0
  BY <1>1 DEF OracleInit, BlankEpoch, freezeAt
<1> QED BY <1>1, <1>2, OracleInitType DEF CloseInv

(* One close per market, whatever is called.                               *)
LEMMA CloseIsFixed ==
  ASSUME CloseInv, [HookNext]_marketVars
  PROVE  CloseInv' /\ ClosesStand
<1>1. CASE UNCHANGED marketVars
  <2>1. UNCHANGED oracleVars /\ created' = created
    BY <1>1 DEF marketVars, allVars, vaultVars, ledgerVars
  <2> QED BY <2>1, OracleAlone, RecordsStand
<1>2. CASE PoolCall \/ HookGovernanceCall \/ VaultCall
  BY <1>2, PoolCallAlone, OracleAlone, RecordsStand
<1>3. CASE OracleCall
  <2>1. created' = created
    BY <1>3 DEF OracleCall, vaultVars, ledgerVars
  <2>2. ASSUME NEW k \in Key, EpochCall(k, openInterest[k])
        PROVE  CloseInv' /\ ClosesStand
    BY <2>1, <2>2, EpochCallCloses
  <2>3. CASE GovernanceCall
    BY <2>1, <2>3, OtherCallType, RecordsStand DEF CloseInv
  <2> QED BY <1>3, <2>2, <2>3 DEF OracleCall
<1>4. CASE BlockTime
  <2>1. created' = created /\ Tick
    BY <1>4 DEF BlockTime, vaultVars, ledgerVars
  <2> QED BY <2>1, OtherCallType, RecordsStand DEF CloseInv
<1> QED BY <1>1, <1>2, <1>3, <1>4 DEF HookNext

-----------------------------------------------------------------------------

(* HaloHook 38-46: no call to the oracle, the vault, the hook or a pool    *)
(* ever makes a market cheaper to trade than it was (FeeNeverFalls).       *)
THEOREM HookFeeNeverFalls == HookSpec => FeeNeverFalls
<1>1. HookInit => CloseInv
  BY InitCloses
<1>2. CloseInv /\ [HookNext]_marketVars => CloseInv'
  BY CloseIsFixed
<1>3. CloseInv /\ [HookNext]_marketVars =>
        [\A m \in Market : feeFor(m) <= feeFor(m)']_marketVars
  <2> SUFFICES ASSUME CloseInv, [HookNext]_marketVars, NEW m \in Market
               PROVE  feeFor(m) <= feeFor(m)'
    OBVIOUS
  <2> DEFINE c == closesAt(m)
             d == closesAt(m)'
  <2>1. m.key \in Key
    BY MarketAssumption
  <2>2. ClosesStand /\ OracleTypeOK /\ OracleTypeOK'
    BY CloseIsFixed DEF CloseInv
  <2>3. feeFor(m) = FeeAt(c, now) /\ feeFor(m)' = FeeAt(d, now')
    BY DEF feeFor, FeeAt
  <2>4. c \in Nat /\ d \in Nat /\ now \in Nat /\ now' \in Nat /\ now <= now'
    BY <2>1, <2>2 DEF closesAt, freezeAt, OracleTypeOK, Epoch, Uint64, ClosesStand
  <2>5. c # 0 => d = c
    BY <2>1, <2>2 DEF closesAt, ClosesStand
  <2> HIDE DEF c, d
  <2>6. CASE c = 0
    <3>1. FeeAt(c, now) = BASE_FEE /\ FeeAt(d, now') \in BASE_FEE..MAX_FEE
      BY <2>4, <2>6, FeeAtInRange DEF FeeAt
    <3> QED BY <2>3, <3>1, FeeAssumption
  <2>7. CASE c # 0
    BY <2>3, <2>4, <2>5, <2>7, FeeAtRises
  <2> QED BY <2>6, <2>7
<1> QED BY <1>1, <1>2, <1>3, PTL DEF HookSpec, FeeNeverFalls

-----------------------------------------------------------------------------
(* The freeze.                                                             *)

(* The inductive invariant.  A split in flight mints without asking again, *)
(* so its market must not freeze meanwhile; a redemption burns, so no      *)
(* settled market may count as frozen.                                     *)
FlightInv ==
    \/ inFlight = <<>>
    \/ \E f : /\ inFlight = <<f>>
              /\ f.market \in created /\ ~isFrozen(f.market)

FreezeInv ==
    /\ CloseInv
    /\ created \subseteq Market
    /\ \A m \in settled : m \in created /\ statusOf(m.key) \in Terminal
    /\ FlightInv
    /\ DOMAIN supplyHigh = Market /\ DOMAIN reserves = Pool

(* No call on an epoch freezes a market, and none undoes a decision.       *)
LEMMA EpochCallThaws ==
  ASSUME FreezeInv, NEW j \in Key, NEW atRisk, EpochCall(j, atRisk), UNCHANGED created,
         NEW m \in Market
  PROVE  /\ ~isFrozen(m) => ~isFrozen(m)'
         /\ statusOf(m.key) \in Terminal => statusOf(m.key)' \in Terminal
<1>1. m.key \in Key /\ now \in Nat /\ CloseInv
  BY MarketAssumption DEF FreezeInv, CloseInv, OracleTypeOK
<1>2. CASE m.key = j
  <2>1. freezeAt(j)' \in Nat
    BY EpochCallCloses, <1>1 DEF CloseInv, OracleTypeOK, Epoch, Uint64, freezeAt
  <2> QED BY <1>1, <1>2, <2>1, EpochCallRecord DEF isFrozen, statusOf, freezeAt
<1>3. CASE m.key # j
  BY <1>1, <1>3, EpochCallRecord DEF isFrozen, statusOf, freezeAt
<1> QED BY <1>2, <1>3

(* What is left alone by a step keeps its part of the invariant.           *)
LEMMA FlightStands ==
  ASSUME FreezeInv, inFlight' = inFlight, created \subseteq created',
         \A m \in Market : m \in created /\ ~isFrozen(m) => ~isFrozen(m)'
  PROVE  FlightInv'
<1>1. CASE inFlight = <<>>
  BY <1>1 DEF FlightInv
<1>2. ASSUME NEW f, inFlight = <<f>>, f.market \in created, ~isFrozen(f.market)
      PROVE  FlightInv'
  <2>1. f.market \in created' /\ ~isFrozen(f.market)'
    BY <1>2 DEF FreezeInv
  <2>2. inFlight' = <<f>>
    BY <1>2
  <2> QED BY <2>1, <2>2 DEF FlightInv
<1> QED BY <1>1, <1>2 DEF FreezeInv, FlightInv

(* A call that does not write the oracle, nor create a market.             *)
LEMMA FreezeStands ==
  ASSUME FreezeInv, UNCHANGED oracleVars, NEW m \in created, created \subseteq created'
  PROVE  isFrozen(m)' = isFrozen(m) /\ statusOf(m.key)' = statusOf(m.key)
BY DEF oracleVars, isFrozen, statusOf, freezeAt

(* The body of BookStandsWhileFrozen.                                      *)
BookStands ==
    \A p \in Pool : marketOf[p] = p[1] /\ isFrozen(p[1]) =>
        reserves'[p] = reserves[p] /\ supplyHigh'[p[1]] = supplyHigh[p[1]]

(* The pools' side: every door asks whether the market is frozen.          *)
LEMMA PoolCallFreeze ==
  ASSUME FreezeInv, PoolCall
  PROVE  FreezeInv' /\ BookStands
<1> USE DEF transferHigh, ledgerVars
<1>1. PICK p \in Pool, who \in Trader : Trade(p, who) \/ ChangeLiquidity(p, who)
  BY DEF PoolCall
<1>2. /\ MarketIsOpen(p) /\ UNCHANGED oracleVars
      /\ UNCHANGED <<created, settled, inFlight, supplyHigh>>
      /\ \E r : reserves' = [reserves EXCEPT ![p] = r]
  <2>1. CASE Trade(p, who)
    BY <2>1 DEF Trade, buyHigh, sellHigh
  <2>2. CASE ChangeLiquidity(p, who)
    BY <2>2 DEF ChangeLiquidity, addLiquidity, removeLiquidity, RemovalAllowed
  <2> QED BY <1>1, <2>1, <2>2
<1>3. CloseInv'
  BY <1>2, OracleAlone, RecordsStand DEF FreezeInv
<1>4. FlightInv'
  BY <1>2, FreezeStands, FlightStands
<1>5. FreezeInv'
  BY <1>2, <1>3, <1>4, FreezeStands DEF FreezeInv
<1>6. BookStands
  BY <1>2 DEF BookStands, MarketIsOpen, FreezeInv
<1> QED BY <1>5, <1>6

(* The vault's side: split and merge ask, a split in flight has asked, and *)
(* redemption needs a decision.                                            *)
LEMMA VaultCallFreeze ==
  ASSUME FreezeInv, VaultCall, UNCHANGED hookVars
  PROVE  FreezeInv' /\ BookStands
<1>1. UNCHANGED oracleVars /\ created \subseteq created'
  BY PoolCallAlone
<1>2. CloseInv'
  BY <1>1, OracleAlone, RecordsStand DEF FreezeInv
<1>3. UNCHANGED <<marketOf, reserves>>
  BY DEF hookVars, bindingVars, poolVars
<1> DEFINE Kept ==
      /\ created' \subseteq Market
      /\ \A m \in settled' : m \in created' /\ statusOf(m.key)' \in Terminal
      /\ FlightInv' /\ DOMAIN supplyHigh' = Market
      /\ \A m \in Market : isFrozen(m) => supplyHigh'[m] = supplyHigh[m]
<1>4. SUFFICES Kept
  BY <1>2, <1>3, PoolAssumption DEF FreezeInv, BookStands
<1>5. ASSUME UNCHANGED <<settled, supplyHigh, inFlight>>, created' \subseteq Market
      PROVE  Kept
  <2>1. FlightInv'
    BY <1>1, <1>5, FreezeStands, FlightStands
  <2> QED BY <1>1, <1>5, <2>1, FreezeStands DEF FreezeInv
<1>6. ASSUME NEW m \in Market, createMarket(m)
      PROVE  Kept
  BY <1>5, <1>6 DEF createMarket, supplyVars, FreezeInv
<1>7. ASSUME NEW m \in Market, settle(m) \/ settleVoid(m)
      PROVE  Kept
  <2>1. /\ UNCHANGED <<created, supplyHigh, inFlight>> /\ settled' = settled \cup {m}
        /\ m \in created /\ statusOf(m.key) \in Terminal
    BY <1>7 DEF settle, settleVoid, supplyVars, Readable, isVoided, Terminal
  <2>2. FlightInv'
    BY <1>1, <2>1, FreezeStands, FlightStands
  <2> QED BY <1>1, <2>1, <2>2, FreezeStands DEF FreezeInv
<1>8. ASSUME NEW m \in Market, NEW who, NEW received, splitPull(m, who, received)
      PROVE  Kept
  <2> DEFINE f == [market |-> m, who |-> who, before |-> vaultBalance]
  <2>1. /\ UNCHANGED <<created, settled, supplyHigh>>
        /\ inFlight' = <<f>> /\ m \in created /\ ~isFrozen(m)
    BY <1>8 DEF splitPull, Unlocked, Tradeable, ledgerVars, supplyVars
  <2>2. f.market \in created' /\ ~isFrozen(f.market)'
    BY <1>1, <2>1, FreezeStands
  <2>3. FlightInv'
    BY <2>1, <2>2 DEF FlightInv
  <2> QED BY <1>1, <2>1, <2>3, FreezeStands DEF FreezeInv
<1>9. ASSUME splitMint
      PROVE  Kept
  <2>1. PICK f : inFlight = <<f>> /\ f.market \in created /\ ~isFrozen(f.market)
    BY <1>9 DEF FreezeInv, FlightInv, splitMint
  <2>2. Head(inFlight) = f /\ Tail(inFlight) = <<>>
    BY <2>1
  <2>3. /\ UNCHANGED <<created, settled>> /\ inFlight' = <<>>
        /\ \E n : supplyHigh' = [supplyHigh EXCEPT ![f.market] = n]
    BY <1>9, <2>2 DEF splitMint, mintBoth
  <2> QED BY <1>1, <2>1, <2>3, FreezeStands DEF FreezeInv, FlightInv
<1>10. ASSUME NEW m \in Market, NEW who, NEW amount, merge(m, who, amount)
       PROVE  Kept
  <2>1. /\ UNCHANGED <<created, settled, inFlight>> /\ ~isFrozen(m)
        /\ \E n : supplyHigh' = [supplyHigh EXCEPT ![m] = n]
    BY <1>10 DEF merge, Tradeable, burnBoth
  <2>2. FlightInv'
    BY <1>1, <2>1, FreezeStands, FlightStands
  <2> QED BY <1>1, <2>1, <2>2, FreezeStands DEF FreezeInv
<1>11. ASSUME NEW m \in Market, NEW who, redeem(m, who)
       PROVE  Kept
  <2>1. /\ UNCHANGED <<created, settled, inFlight>> /\ m \in settled
        /\ \E n : supplyHigh' = [supplyHigh EXCEPT ![m] = n]
    BY <1>11 DEF redeem, burnBoth
  <2>2. ~isFrozen(m)
    BY <2>1 DEF FreezeInv, isFrozen
  <2>3. FlightInv'
    BY <1>1, <2>1, FreezeStands, FlightStands
  <2> QED BY <1>1, <2>1, <2>2, <2>3, FreezeStands DEF FreezeInv
<1>12. ASSUME NEW m \in Market, NEW who, NEW to, NEW amount, transferHigh(m, who, to, amount)
       PROVE  Kept
  BY <1>5, <1>12 DEF transferHigh, ledgerVars, FreezeInv
<1> QED BY <1>6, <1>7, <1>8, <1>9, <1>10, <1>11, <1>12 DEF VaultCall

LEMMA FreezeStep ==
  ASSUME FreezeInv, [HookNext]_marketVars
  PROVE  FreezeInv' /\ BookStands
<1>1. CloseInv'
  BY CloseIsFixed DEF FreezeInv
<1>2. ASSUME UNCHANGED <<created, settled, inFlight, supplyHigh, reserves>>,
             FlightInv', \A m \in Market : statusOf(m.key) \in Terminal => statusOf(m.key)' \in Terminal
      PROVE  FreezeInv' /\ BookStands
  BY <1>1, <1>2 DEF FreezeInv, BookStands
<1>3. ASSUME UNCHANGED <<oracleVars, created, settled, inFlight, supplyHigh, reserves>>
      PROVE  FreezeInv' /\ BookStands
  <2>1. FlightInv'
    BY <1>3, FreezeStands, FlightStands
  <2>2. \A m \in Market : statusOf(m.key)' = statusOf(m.key)
    BY <1>3 DEF oracleVars, statusOf
  <2> QED BY <1>2, <1>3, <2>1, <2>2
<1>4. CASE UNCHANGED marketVars
  BY <1>3, <1>4 DEF marketVars, allVars, vaultVars, ledgerVars, supplyVars, hookVars, poolVars
<1>5. CASE PoolCall
  BY <1>5, PoolCallFreeze
<1>6. CASE HookGovernanceCall
  BY <1>3, <1>6 DEF HookGovernanceCall, bindPool, setHookGovernance, allVars, vaultVars,
                    ledgerVars, supplyVars, poolVars
<1>7. CASE VaultCall /\ UNCHANGED hookVars
  BY <1>7, VaultCallFreeze
<1>8. CASE (OracleCall \/ BlockTime) /\ UNCHANGED hookVars
  <2>1. UNCHANGED <<created, settled, inFlight, supplyHigh, reserves>>
    BY <1>8 DEF OracleCall, BlockTime, vaultVars, ledgerVars, supplyVars, hookVars, poolVars
  <2>2. ASSUME NEW k \in Key, EpochCall(k, openInterest[k])
        PROVE  FreezeInv' /\ BookStands
    <3>1. \A m \in Market : /\ ~isFrozen(m) => ~isFrozen(m)'
                            /\ statusOf(m.key) \in Terminal => statusOf(m.key)' \in Terminal
      BY <2>1, <2>2, EpochCallThaws
    <3>2. FlightInv'
      BY <2>1, <3>1, FlightStands
    <3> QED BY <1>2, <2>1, <3>1, <3>2
  <2>3. CASE GovernanceCall
    <3>1. now' = now
      BY <2>3 DEF GovernanceCall, setGovernance, setMinBond, setOpenInterest,
                  setBondPerCollateralUnit
    <3>2. epochs' = epochs
      BY <2>3, OtherCallType DEF FreezeInv, CloseInv
    <3>3. \A m \in Market : isFrozen(m)' = isFrozen(m) /\ statusOf(m.key)' = statusOf(m.key)
      BY <2>1, <3>1, <3>2 DEF isFrozen, statusOf, freezeAt
    <3>4. FlightInv'
      BY <2>1, <3>3, FlightStands
    <3> QED BY <1>2, <2>1, <3>3, <3>4
  <2>4. CASE BlockTime
    <3>1. inFlight = <<>> /\ epochs' = epochs
      BY <2>4, OtherCallType DEF BlockTime, Unlocked, FreezeInv, CloseInv
    <3>2. FlightInv'
      BY <2>1, <3>1 DEF FlightInv
    <3> QED BY <1>2, <2>1, <3>1, <3>2 DEF statusOf
  <2> QED BY <1>8, <2>2, <2>3, <2>4 DEF OracleCall
<1> QED BY <1>4, <1>5, <1>6, <1>7, <1>8 DEF HookNext

(* EpochVault 218-221: the pool's door and the vault's door shut together  *)
(* (BookStandsWhileFrozen), with a collateral token that may call anything *)
(* back and any number of pools on any number of markets.                  *)
THEOREM HookBookStandsWhileFrozen == HookSpec => BookStandsWhileFrozen
<1>1. HookInit => FreezeInv
  BY InitCloses DEF HookInit, VaultInit, FreezeInv, FlightInv
<1>2. FreezeInv /\ [HookNext]_marketVars => FreezeInv'
  BY FreezeStep
<1>3. FreezeInv /\ [HookNext]_marketVars =>
        [\A p \in Pool : marketOf[p] = p[1] /\ isFrozen(p[1]) =>
           reserves'[p] = reserves[p] /\ supplyHigh'[p[1]] = supplyHigh[p[1]]]_marketVars
  BY FreezeStep DEF BookStands
<1> QED BY <1>1, <1>2, <1>3, PTL DEF HookSpec, BookStandsWhileFrozen

-----------------------------------------------------------------------------
(* The backstop.  The PoolManager is asked for HIGH only by the pools, so  *)
(* the invariant has to say that nobody burns, sends or is minted HIGH in  *)
(* its name: a split in flight is somebody else's.                         *)

DollarsIn == [p \in Pool |-> reserves[p].dollars]
HighIn == [p \in Pool |-> reserves[p].high]
PoolsOf(m) == {p \in Pool : p[1] = m}

SplitIsATraders == inFlight = <<>> \/ \E f : inFlight = <<f>> /\ f.who # PoolManager

HoldingsType ==
    /\ reserves \in [Pool -> [high: Int, dollars: Int]]
    /\ backstop \in [Currency -> Int]
    /\ dollarsHeld \in Int
    /\ DOMAIN high = Market
    /\ \A m \in Market : DOMAIN high[m] = Account /\ high[m][PoolManager] \in Int

HoldingsInv == HoldingsType /\ SplitIsATraders /\ BackstopIsHeld

(* What a change of one pool's reserves does to the sums.                  *)
LEMMA ReservesMove ==
  ASSUME HoldingsType, HoldingsType', NEW p \in Pool, NEW x \in Int, NEW y \in Int,
         reserves'[p].high = reserves[p].high + x, reserves'[p].dollars = reserves[p].dollars + y,
         \A q \in Pool \ {p} : reserves'[q] = reserves[q]
  PROVE  /\ SumFunction(DollarsIn) \in Int
         /\ SumFunction(DollarsIn)' = SumFunction(DollarsIn) + y
         /\ \A m \in Market : SumFunctionOnSet(HighIn, PoolsOf(m)) \in Int
         /\ \A m \in Market \ {p[1]} :
                SumFunctionOnSet(HighIn, PoolsOf(m))' = SumFunctionOnSet(HighIn, PoolsOf(m))
         /\ SumFunctionOnSet(HighIn, PoolsOf(p[1]))' = SumFunctionOnSet(HighIn, PoolsOf(p[1])) + x
<1> USE PoolAssumption
<1>1. PICK d : d = DollarsIn
  OBVIOUS
<1>2. PICK e : e = DollarsIn'
  OBVIOUS
<1>3. PICK f : f = HighIn
  OBVIOUS
<1>4. PICK g : g = HighIn'
  OBVIOUS
<1>5. d \in [Pool -> Int] /\ f \in [Pool -> Int]
  BY <1>1, <1>3 DEF HoldingsType, DollarsIn, HighIn
<1>6. e \in [Pool -> Int] /\ g \in [Pool -> Int]
  BY <1>2, <1>4 DEF HoldingsType, DollarsIn, HighIn
<1>7. /\ e[p] = d[p] + y /\ \A q \in Pool \ {p} : e[q] = d[q]
      /\ g[p] = f[p] + x /\ \A q \in Pool \ {p} : g[q] = f[q]
  BY <1>1, <1>2, <1>3, <1>4 DEF DollarsIn, HighIn
<1>8. SumFunction(d) \in Int /\ SumFunction(e) = SumFunction(d) + y
  <2>1. IsFiniteSet(Pool)
    OBVIOUS
  <2>2. d \in [Pool -> Int] /\ e \in [Pool -> Int]
    BY <1>5, <1>6
  <2>3. e[p] = d[p] + y /\ \A q \in Pool \ {p} : e[q] = d[q]
    BY <1>7
  <2> HIDE PoolAssumption
  <2>4. /\ SumFunction(d) \in Int
        /\ \A q \in Pool, n \in Int :
               (e[q] = d[q] + n /\ \A z \in Pool \ {q} : e[z] = d[z]) =>
                   SumFunction(e) = SumFunction(d) + n
    BY <2>1, <2>2, SumRaised
  <2> QED BY <2>3, <2>4
<1>9. \A m \in Market : IsFiniteSet(PoolsOf(m)) /\ PoolsOf(m) \subseteq Pool
  BY FS_Subset DEF PoolsOf
<1>10. \A m \in Market : SumFunctionOnSet(f, PoolsOf(m)) \in Int
  <2> SUFFICES ASSUME NEW m \in Market PROVE SumFunctionOnSet(f, PoolsOf(m)) \in Int
    OBVIOUS
  <2>1. \A q \in PoolsOf(m) : f[q] \in Int
    BY <1>5, <1>9
  <2> QED BY <1>9, <2>1, SumSplit
<1>11. \A m \in Market \ {p[1]} : SumFunctionOnSet(g, PoolsOf(m)) = SumFunctionOnSet(f, PoolsOf(m))
  <2> SUFFICES ASSUME NEW m \in Market \ {p[1]}
               PROVE  SumFunctionOnSet(g, PoolsOf(m)) = SumFunctionOnSet(f, PoolsOf(m))
    OBVIOUS
  <2>1. \A q \in PoolsOf(m) : g[q] = f[q]
    BY <1>7 DEF PoolsOf
  <2> QED BY <1>9, <2>1, SumSame
<1>12. SumFunctionOnSet(g, PoolsOf(p[1])) = SumFunctionOnSet(f, PoolsOf(p[1])) + x
  <2>1. p \in PoolsOf(p[1]) /\ IsFiniteSet(PoolsOf(p[1])) /\ PoolsOf(p[1]) \subseteq Pool
    BY <1>9, FS_Subset DEF PoolsOf
  <2>2. \A q \in PoolsOf(p[1]) : f[q] \in Int /\ g[q] \in Int
    BY <1>5, <1>6, <2>1
  <2>3. \A q \in PoolsOf(p[1]) \ {p} : g[q] = f[q]
    BY <1>7, <2>1
  <2>4. SumFunctionOnSet(g, PoolsOf(p[1]))
           = SumFunctionOnSet(f, PoolsOf(p[1])) + (g[p] - f[p])
    BY <2>1, <2>2, <2>3, SumChange
  <2> QED BY <1>5, <1>7, <2>4
<1> QED BY <1>1, <1>2, <1>3, <1>4, <1>8, <1>10, <1>11, <1>12 DEF PoolsOf

(* A swap, or a change of liquidity: the pool gets x HIGH and y dollars,   *)
(* and what is claimed of either stays with the PoolManager.               *)
LEMMA PoolMove ==
  ASSUME HoldingsInv, HoldingsType', NEW p \in Pool,
         NEW x \in Int, NEW y \in Int, NEW hs \in Int, NEW ds \in Int,
         reserves'[p].high = reserves[p].high + x, reserves'[p].dollars = reserves[p].dollars + y,
         \A q \in Pool \ {p} : reserves'[q] = reserves[q],
         backstop'[p[1]] = backstop[p[1]] + hs, backstop'[Dollars] = backstop[Dollars] + ds,
         \A m \in Market \ {p[1]} : backstop'[m] = backstop[m] /\ high'[m] = high[m],
         high'[p[1]][PoolManager] = high[p[1]][PoolManager] + x + hs,
         dollarsHeld' = dollarsHeld + y + ds
  PROVE  BackstopIsHeld'
<1>1. HoldingsType /\ PoolManager \in Account /\ p[1] \in Market
  BY PoolAssumption DEF HoldingsInv
<1>2. /\ SumFunction(DollarsIn) \in Int
      /\ SumFunction(DollarsIn)' = SumFunction(DollarsIn) + y
      /\ \A m \in Market : SumFunctionOnSet(HighIn, PoolsOf(m)) \in Int
      /\ \A m \in Market \ {p[1]} :
             SumFunctionOnSet(HighIn, PoolsOf(m))' = SumFunctionOnSet(HighIn, PoolsOf(m))
      /\ SumFunctionOnSet(HighIn, PoolsOf(p[1]))' = SumFunctionOnSet(HighIn, PoolsOf(p[1])) + x
  BY <1>1, ReservesMove
<1>3. /\ dollarsHeld = backstop[Dollars] + SumFunction(DollarsIn)
      /\ \A m \in Market : high[m][PoolManager]
                              >= backstop[m] + SumFunctionOnSet(HighIn, PoolsOf(m))
  BY DEF HoldingsInv, BackstopIsHeld, DollarsIn, HighIn, PoolsOf
<1>4. /\ \A c \in Currency : backstop[c] \in Int
      /\ \A m \in Market : m \in Currency /\ high[m][PoolManager] \in Int
      /\ Dollars \in Currency /\ dollarsHeld \in Int
  BY <1>1 DEF HoldingsType, Currency
<1>5. dollarsHeld' = backstop'[Dollars] + SumFunction(DollarsIn)'
  BY <1>2, <1>3, <1>4
<1>6. ASSUME NEW m \in Market
      PROVE  high'[m][PoolManager] >= backstop'[m] + SumFunctionOnSet(HighIn, PoolsOf(m))'
  <2>1. CASE m # p[1]
    BY <1>2, <1>3, <2>1
  <2>2. CASE m = p[1]
    BY <1>1, <1>2, <1>3, <1>4, <2>2
  <2> QED BY <2>1, <2>2
<1> QED BY <1>5, <1>6 DEF BackstopIsHeld, DollarsIn, HighIn, PoolsOf

(* What a transfer of HIGH does to the holder PoolManager.                 *)
LEMMA HighMoves ==
  ASSUME HoldingsType, NEW m \in Market, NEW from \in Account, NEW to \in Account,
         NEW amount \in Int, transferHigh(m, from, to, amount)
  PROVE  /\ DOMAIN high' = Market /\ \A j \in Market : DOMAIN high'[j] = Account
         /\ \A j \in Market \ {m} : high'[j] = high[j]
         /\ from # PoolManager /\ to = PoolManager =>
                high'[m][PoolManager] = high[m][PoolManager] + amount
         /\ from = PoolManager /\ to # PoolManager =>
                high'[m][PoolManager] = high[m][PoolManager] - amount
         /\ from # PoolManager /\ to # PoolManager =>
                high'[m][PoolManager] = high[m][PoolManager]
         /\ inFlight' = inFlight
BY PoolAssumption DEF transferHigh, moved, HoldingsType

(* A pool's reserves set to two new figures.                               *)
WithReserves(r, p, a, b) == [r EXCEPT ![p].high = a, ![p].dollars = b]

LEMMA WithReservesGives ==
  ASSUME NEW p \in Pool, NEW r \in [Pool -> [high: Int, dollars: Int]]
  PROVE  \A a \in Int, b \in Int :
            /\ WithReserves(r, p, a, b) \in [Pool -> [high: Int, dollars: Int]]
            /\ WithReserves(r, p, a, b)[p].high = a /\ WithReserves(r, p, a, b)[p].dollars = b
            /\ \A q \in Pool \ {p} : WithReserves(r, p, a, b)[q] = r[q]
<1> SUFFICES ASSUME NEW a \in Int, NEW b \in Int
             PROVE  /\ WithReserves(r, p, a, b) \in [Pool -> [high: Int, dollars: Int]]
                    /\ WithReserves(r, p, a, b)[p].high = a /\ WithReserves(r, p, a, b)[p].dollars = b
                    /\ \A q \in Pool \ {p} : WithReserves(r, p, a, b)[q] = r[q]
  OBVIOUS
<1>1. PICK r1 : r1 = [r EXCEPT ![p] = [r[p] EXCEPT !.high = a]]
  OBVIOUS
<1>2. /\ r1 \in [Pool -> [high: Int, dollars: Int]] /\ r1[p].high = a
      /\ \A q \in Pool \ {p} : r1[q] = r[q]
  BY <1>1
<1>3. WithReserves(r, p, a, b) = [r1 EXCEPT ![p] = [r1[p] EXCEPT !.dollars = b]]
  BY <1>1 DEF WithReserves
<1> QED BY <1>2, <1>3

LEMMA SliceIsInt ==
  ASSUME NEW takes \in Amounts, NEW exactInput \in BOOLEAN
  PROVE  slice(takes, exactInput) \in Int /\ takes \in Nat
<1>1. takes \in Nat /\ BACKSTOP_FEE \in Nat /\ MAX_LP_FEE \in Nat \ {0}
  BY VaultAmountAssumption, FeeAssumption
<1>2. (takes * BACKSTOP_FEE) \in Int
  BY <1>1
<1>3. (takes * BACKSTOP_FEE) \div MAX_LP_FEE \in Int
  BY <1>1, <1>2, DivSpec
<1> QED BY <1>1, <1>3 DEF slice

LEMMA BuyHolds ==
  ASSUME HoldingsInv, NEW p \in Pool, NEW who \in Trader, NEW gives \in Amounts,
         NEW takes \in Amounts, NEW exactInput \in BOOLEAN, buyHigh(p, who, gives, takes, exactInput)
  PROVE  HoldingsInv'
<1>1. PICK s \in Int : s = slice(takes, exactInput)
  BY SliceIsInt
<1>2. /\ takes \in Nat /\ gives \in Nat /\ p[1] \in Market /\ PoolManager \in Account
      /\ who \in Account /\ who # PoolManager /\ Dollars \notin Market
  BY VaultAmountAssumption, PoolAssumption DEF Trader
<1>3. HoldingsType /\ SplitIsATraders
  BY DEF HoldingsInv
<1>4. /\ reserves' = [reserves EXCEPT ![p].high = @ - takes, ![p].dollars = @ + gives]
      /\ backstop' = [backstop EXCEPT ![p[1]] = @ + s] /\ dollarsHeld' = dollarsHeld + gives
      /\ transferHigh(p[1], PoolManager, who, takes - s)
  BY <1>1 DEF buyHigh, accrue, PaidOut
<1>5. /\ reserves' \in [Pool -> [high: Int, dollars: Int]]
      /\ reserves'[p].high = reserves[p].high + (-takes)
      /\ reserves'[p].dollars = reserves[p].dollars + gives
      /\ \A q \in Pool \ {p} : reserves'[q] = reserves[q]
  <2>1. /\ reserves \in [Pool -> [high: Int, dollars: Int]]
       /\ reserves[p].high \in Int /\ reserves[p].dollars \in Int
    BY <1>3 DEF HoldingsType
  <2>2. PICK a \in Int, b \in Int : a = reserves[p].high - takes /\ b = reserves[p].dollars + gives
    BY <1>2, <2>1
  <2>3. reserves' = WithReserves(reserves, p, a, b)
    BY <1>4, <2>1, <2>2 DEF WithReserves
  <2>4. /\ reserves' \in [Pool -> [high: Int, dollars: Int]]
       /\ reserves'[p].high = a /\ reserves'[p].dollars = b
       /\ \A q \in Pool \ {p} : reserves'[q] = reserves[q]
    BY <2>1, <2>3, WithReservesGives
  <2> QED BY <1>2, <2>1, <2>2, <2>4
<1>6. /\ backstop' \in [Currency -> Int]
      /\ backstop'[p[1]] = backstop[p[1]] + s /\ backstop'[Dollars] = backstop[Dollars] + 0
      /\ \A m \in Market \ {p[1]} : backstop'[m] = backstop[m]
  BY <1>2, <1>3, <1>4 DEF HoldingsType, Currency
<1>7. takes - s \in Int
  BY <1>2
<1>8. /\ DOMAIN high' = Market /\ \A j \in Market : DOMAIN high'[j] = Account
      /\ \A j \in Market \ {p[1]} : high'[j] = high[j]
      /\ high'[p[1]][PoolManager] = high[p[1]][PoolManager] - (takes - s)
      /\ inFlight' = inFlight
  BY <1>2, <1>3, <1>4, <1>7, HighMoves
<1>9. /\ high'[p[1]][PoolManager] = high[p[1]][PoolManager] + (-takes) + s
      /\ dollarsHeld' = dollarsHeld + gives + 0 /\ dollarsHeld' \in Int
  BY <1>2, <1>3, <1>4, <1>8 DEF HoldingsType
<1>10. HoldingsType'
  BY <1>2, <1>3, <1>5, <1>6, <1>8, <1>9 DEF HoldingsType
<1>11. -takes \in Int /\ gives \in Int
  BY <1>2
<1>12. BackstopIsHeld'
  BY <1>5, <1>6, <1>8, <1>9, <1>10, <1>11, PoolMove
<1> QED BY <1>3, <1>8, <1>10, <1>12 DEF HoldingsInv, SplitIsATraders

LEMMA SellHolds ==
  ASSUME HoldingsInv, NEW p \in Pool, NEW who \in Trader, NEW gives \in Amounts,
         NEW takes \in Amounts, NEW exactInput \in BOOLEAN, sellHigh(p, who, gives, takes, exactInput)
  PROVE  HoldingsInv'
<1>1. PICK s \in Int : s = slice(takes, exactInput)
  BY SliceIsInt
<1>2. /\ takes \in Nat /\ gives \in Nat /\ p[1] \in Market /\ PoolManager \in Account
      /\ who \in Account /\ who # PoolManager /\ Dollars \notin Market
  BY VaultAmountAssumption, PoolAssumption DEF Trader
<1>3. HoldingsType /\ SplitIsATraders
  BY DEF HoldingsInv
<1>4. /\ reserves' = [reserves EXCEPT ![p].high = @ + gives, ![p].dollars = @ - takes]
      /\ backstop' = [backstop EXCEPT ![Dollars] = @ + s]
      /\ dollarsHeld' = dollarsHeld - (takes - s)
      /\ transferHigh(p[1], who, PoolManager, gives)
  BY <1>1 DEF sellHigh, accrue, PaidOut
<1>5. /\ reserves' \in [Pool -> [high: Int, dollars: Int]]
      /\ reserves'[p].high = reserves[p].high + gives
      /\ reserves'[p].dollars = reserves[p].dollars + (-takes)
      /\ \A q \in Pool \ {p} : reserves'[q] = reserves[q]
  <2>1. /\ reserves \in [Pool -> [high: Int, dollars: Int]]
       /\ reserves[p].high \in Int /\ reserves[p].dollars \in Int
    BY <1>3 DEF HoldingsType
  <2>2. PICK a \in Int, b \in Int : a = reserves[p].high + gives /\ b = reserves[p].dollars - takes
    BY <1>2, <2>1
  <2>3. reserves' = WithReserves(reserves, p, a, b)
    BY <1>4, <2>1, <2>2 DEF WithReserves
  <2>4. /\ reserves' \in [Pool -> [high: Int, dollars: Int]]
       /\ reserves'[p].high = a /\ reserves'[p].dollars = b
       /\ \A q \in Pool \ {p} : reserves'[q] = reserves[q]
    BY <2>1, <2>3, WithReservesGives
  <2> QED BY <1>2, <2>1, <2>2, <2>4
<1>6. /\ backstop' \in [Currency -> Int]
      /\ backstop'[p[1]] = backstop[p[1]] + 0 /\ backstop'[Dollars] = backstop[Dollars] + s
      /\ \A m \in Market \ {p[1]} : backstop'[m] = backstop[m]
  BY <1>2, <1>3, <1>4 DEF HoldingsType, Currency
<1>7. gives \in Int /\ -takes \in Int
  BY <1>2
<1>8. /\ DOMAIN high' = Market /\ \A j \in Market : DOMAIN high'[j] = Account
      /\ \A j \in Market \ {p[1]} : high'[j] = high[j]
      /\ high'[p[1]][PoolManager] = high[p[1]][PoolManager] + gives
      /\ inFlight' = inFlight
  BY <1>2, <1>3, <1>4, <1>7, HighMoves
<1>9. /\ high'[p[1]][PoolManager] = high[p[1]][PoolManager] + gives + 0
      /\ dollarsHeld' = dollarsHeld + (-takes) + s /\ dollarsHeld' \in Int
  BY <1>2, <1>3, <1>4, <1>8 DEF HoldingsType
<1>10. HoldingsType'
  BY <1>2, <1>3, <1>5, <1>6, <1>8, <1>9 DEF HoldingsType
<1>11. BackstopIsHeld'
  BY <1>5, <1>6, <1>7, <1>8, <1>9, <1>10, PoolMove
<1> QED BY <1>3, <1>8, <1>10, <1>11 DEF HoldingsInv, SplitIsATraders

LEMMA LiquidityHolds ==
  ASSUME HoldingsInv, NEW p \in Pool, NEW who \in Trader, NEW units \in Amounts, NEW dollars \in Amounts,
         addLiquidity(p, who, units, dollars) \/ removeLiquidity(p, who, units, dollars)
  PROVE  HoldingsInv'
<1>1. /\ units \in Int /\ dollars \in Int /\ p[1] \in Market /\ PoolManager \in Account
      /\ who \in Account /\ who # PoolManager
  BY VaultAmountAssumption, PoolAssumption DEF Trader
<1>2. HoldingsType /\ SplitIsATraders
  BY DEF HoldingsInv
<1>3. backstop' = backstop
  BY DEF addLiquidity, removeLiquidity
<1>4. PICK x \in Int, y \in Int :
         /\ reserves' \in [Pool -> [high: Int, dollars: Int]]
         /\ reserves'[p].high = reserves[p].high + x
         /\ reserves'[p].dollars = reserves[p].dollars + y
         /\ \A q \in Pool \ {p} : reserves'[q] = reserves[q]
         /\ DOMAIN high' = Market /\ \A j \in Market : DOMAIN high'[j] = Account
         /\ \A j \in Market \ {p[1]} : high'[j] = high[j]
         /\ high'[p[1]][PoolManager] = high[p[1]][PoolManager] + x
         /\ dollarsHeld' = dollarsHeld + y /\ inFlight' = inFlight
  <2>1. CASE addLiquidity(p, who, units, dollars)
    <3>1. /\ reserves' = [reserves EXCEPT ![p].high = @ + units, ![p].dollars = @ + dollars]
          /\ dollarsHeld' = dollarsHeld + dollars
          /\ transferHigh(p[1], who, PoolManager, units)
      BY <2>1 DEF addLiquidity
    <3>2. /\ reserves' \in [Pool -> [high: Int, dollars: Int]]
          /\ reserves'[p].high = reserves[p].high + units
          /\ reserves'[p].dollars = reserves[p].dollars + dollars
          /\ \A q \in Pool \ {p} : reserves'[q] = reserves[q]
      <4>1. /\ reserves \in [Pool -> [high: Int, dollars: Int]]
           /\ reserves[p].high \in Int /\ reserves[p].dollars \in Int
        BY <1>2 DEF HoldingsType
      <4>2. PICK a \in Int, b \in Int : a = reserves[p].high + units /\ b = reserves[p].dollars + dollars
        BY <1>1, <4>1
      <4>3. reserves' = WithReserves(reserves, p, a, b)
        BY <3>1, <4>1, <4>2 DEF WithReserves
      <4>4. /\ reserves' \in [Pool -> [high: Int, dollars: Int]]
           /\ reserves'[p].high = a /\ reserves'[p].dollars = b
           /\ \A q \in Pool \ {p} : reserves'[q] = reserves[q]
        BY <4>1, <4>3, WithReservesGives
      <4> QED BY <1>1, <4>1, <4>2, <4>4
    <3> QED BY <1>1, <1>2, <3>1, <3>2, HighMoves
  <2>2. CASE removeLiquidity(p, who, units, dollars)
    <3>1. /\ reserves' = [reserves EXCEPT ![p].high = @ - units, ![p].dollars = @ - dollars]
          /\ dollarsHeld' = dollarsHeld - dollars
          /\ transferHigh(p[1], PoolManager, who, units)
      BY <2>2 DEF removeLiquidity
    <3>2. PICK x \in Int, y \in Int : x = -units /\ y = -dollars
      BY <1>1
    <3>3. /\ reserves' \in [Pool -> [high: Int, dollars: Int]]
          /\ reserves'[p].high = reserves[p].high + x
          /\ reserves'[p].dollars = reserves[p].dollars + y
          /\ \A q \in Pool \ {p} : reserves'[q] = reserves[q]
      <4>1. /\ reserves \in [Pool -> [high: Int, dollars: Int]]
           /\ reserves[p].high \in Int /\ reserves[p].dollars \in Int
        BY <1>2 DEF HoldingsType
      <4>2. PICK a \in Int, b \in Int : a = reserves[p].high - units /\ b = reserves[p].dollars - dollars
        BY <1>1, <4>1
      <4>3. reserves' = WithReserves(reserves, p, a, b)
        BY <3>1, <4>1, <4>2 DEF WithReserves
      <4>4. /\ reserves' \in [Pool -> [high: Int, dollars: Int]]
           /\ reserves'[p].high = a /\ reserves'[p].dollars = b
           /\ \A q \in Pool \ {p} : reserves'[q] = reserves[q]
        BY <4>1, <4>3, WithReservesGives
      <4> QED BY <1>1, <3>2, <4>1, <4>2, <4>4
    <3>4. /\ DOMAIN high' = Market /\ \A j \in Market : DOMAIN high'[j] = Account
          /\ \A j \in Market \ {p[1]} : high'[j] = high[j]
          /\ high'[p[1]][PoolManager] = high[p[1]][PoolManager] - units
          /\ inFlight' = inFlight
      BY <1>1, <1>2, <3>1, HighMoves
    <3>5. high'[p[1]][PoolManager] = high[p[1]][PoolManager] + x /\ dollarsHeld' = dollarsHeld + y
      BY <1>1, <1>2, <3>1, <3>2, <3>4 DEF HoldingsType
    <3> QED BY <3>3, <3>4, <3>5
  <2> QED BY <2>1, <2>2
<1>5. /\ backstop'[p[1]] = backstop[p[1]] + 0 /\ backstop'[Dollars] = backstop[Dollars] + 0
      /\ \A m \in Market \ {p[1]} : backstop'[m] = backstop[m]
  BY <1>1, <1>2, <1>3 DEF HoldingsType, Currency
<1>6. /\ high'[p[1]][PoolManager] = high[p[1]][PoolManager] + x + 0
      /\ dollarsHeld' = dollarsHeld + y + 0 /\ dollarsHeld' \in Int
  BY <1>1, <1>2, <1>4 DEF HoldingsType
<1>7. HoldingsType'
  BY <1>1, <1>2, <1>3, <1>4, <1>6 DEF HoldingsType
<1>8. BackstopIsHeld'
  BY <1>4, <1>5, <1>6, <1>7, PoolMove
<1> QED BY <1>2, <1>4, <1>7, <1>8 DEF HoldingsInv, SplitIsATraders

(* Outside the pools the PoolManager can only be sent HIGH.                *)
LEMMA NothingTaken ==
  ASSUME HoldingsInv, UNCHANGED <<backstop, reserves, dollarsHeld>>, SplitIsATraders',
         DOMAIN high' = Market,
         \A m \in Market : /\ DOMAIN high'[m] = Account /\ high'[m][PoolManager] \in Int
                           /\ high'[m][PoolManager] >= high[m][PoolManager]
  PROVE  HoldingsInv'
<1>1. HoldingsType'
  BY DEF HoldingsInv, HoldingsType
<1>2. DollarsIn' = DollarsIn /\ HighIn' = HighIn
  BY DEF DollarsIn, HighIn
<1>3. ASSUME NEW m \in Market
      PROVE  SumFunctionOnSet(HighIn, PoolsOf(m)) \in Int /\ backstop[m] \in Int
             /\ high[m][PoolManager] \in Int
  <2>1. PICK f : f = HighIn
    OBVIOUS
  <2>2. IsFiniteSet(PoolsOf(m)) /\ \A q \in PoolsOf(m) : f[q] \in Int
    BY <2>1, FS_Subset, PoolAssumption DEF HoldingsInv, HoldingsType, PoolsOf, HighIn
  <2>3. SumFunctionOnSet(f, PoolsOf(m)) \in Int
    BY <2>2, SumSplit
  <2> QED BY <2>1, <2>3 DEF HoldingsInv, HoldingsType, Currency
<1>4. BackstopIsHeld'
  <2>1. /\ dollarsHeld = backstop[Dollars] + SumFunction(DollarsIn)
        /\ \A m \in Market : high[m][PoolManager]
                                >= backstop[m] + SumFunctionOnSet(HighIn, PoolsOf(m))
    BY DEF HoldingsInv, BackstopIsHeld, DollarsIn, HighIn, PoolsOf
  <2>2. ASSUME NEW m \in Market
        PROVE  high'[m][PoolManager] >= backstop[m] + SumFunctionOnSet(HighIn, PoolsOf(m))
    BY <1>3, <2>1
  <2> QED BY <1>2, <2>1, <2>2 DEF BackstopIsHeld, DollarsIn, HighIn, PoolsOf
<1> QED BY <1>1, <1>4 DEF HoldingsInv

LEMMA VaultCallHolds ==
  ASSUME HoldingsInv, VaultCall, UNCHANGED hookVars
  PROVE  HoldingsInv'
<1>0. /\ HoldingsType /\ SplitIsATraders /\ PoolManager \in Account
      /\ UNCHANGED <<backstop, reserves, dollarsHeld>>
  BY PoolAssumption DEF HoldingsInv, hookVars, poolVars
<1>1. ASSUME DOMAIN high' = Market, \A m \in Market : DOMAIN high'[m] = Account,
             \A m \in Market : high'[m][PoolManager] = high[m][PoolManager], SplitIsATraders'
      PROVE  HoldingsInv'
  <2>1. \A m \in Market : /\ DOMAIN high'[m] = Account /\ high'[m][PoolManager] \in Int
                          /\ high'[m][PoolManager] >= high[m][PoolManager]
    BY <1>0, <1>1 DEF HoldingsType
  <2> QED BY <1>0, <1>1, <2>1, NothingTaken
<1>2. ASSUME NEW m \in Market, createMarket(m) \/ settle(m) \/ settleVoid(m)
      PROVE  HoldingsInv'
  <2>1. UNCHANGED <<high, inFlight>>
    BY <1>2 DEF createMarket, settle, settleVoid, supplyVars
  <2> QED BY <1>0, <1>1, <2>1 DEF HoldingsType, SplitIsATraders
<1>3. ASSUME NEW m \in Market, NEW who \in Trader, NEW amount \in Amounts, splitPull(m, who, amount)
      PROVE  HoldingsInv'
  <2> DEFINE f == [market |-> m, who |-> who, before |-> vaultBalance]
  <2>1. high' = high /\ inFlight' = <<f>>
    BY <1>3 DEF splitPull, supplyVars, Unlocked
  <2>2. f.who # PoolManager
    BY DEF Trader
  <2>3. SplitIsATraders'
    BY <2>1, <2>2 DEF SplitIsATraders
  <2> QED BY <1>0, <1>1, <2>1, <2>3 DEF HoldingsType
<1>4. ASSUME NEW m \in Market, NEW who \in Trader, NEW n, SplitIsATraders',
             high' = [high EXCEPT ![m][who] = n]
      PROVE  HoldingsInv'
  <2>1. who # PoolManager
    BY DEF Trader
  <2> QED BY <1>0, <1>1, <1>4, <2>1 DEF HoldingsType
<1>5. ASSUME NEW m \in Market, NEW who \in Trader, NEW amount \in Amounts, merge(m, who, amount)
      PROVE  HoldingsInv'
  <2>1. high' = [high EXCEPT ![m][who] = @ - amount] /\ inFlight' = inFlight
    BY <1>5 DEF merge, burnBoth
  <2> QED BY <1>0, <1>4, <2>1 DEF SplitIsATraders
<1>6. ASSUME NEW m \in Market, NEW who \in Trader, redeem(m, who)
      PROVE  HoldingsInv'
  <2>1. high' = [high EXCEPT ![m][who] = @ - high[m][who]] /\ inFlight' = inFlight
    BY <1>6 DEF redeem, burnBoth
  <2> QED BY <1>0, <1>4, <2>1 DEF SplitIsATraders
<1>7. CASE splitMint
  <2>1. PICK f : inFlight = <<f>> /\ f.who # PoolManager
    BY <1>0, <1>7 DEF SplitIsATraders, splitMint
  <2>2. Head(inFlight) = f /\ Tail(inFlight) = <<>>
    BY <2>1
  <2>3. /\ inFlight' = <<>>
        /\ \E n : high' = [high EXCEPT ![f.market][f.who] = n]
    BY <1>7, <2>2 DEF splitMint, mintBoth
  <2>4. /\ DOMAIN high' = Market /\ \A m \in Market : DOMAIN high'[m] = Account
        /\ \A m \in Market : high'[m][PoolManager] = high[m][PoolManager]
    BY <1>0, <2>1, <2>3 DEF HoldingsType
  <2> QED BY <1>1, <2>3, <2>4 DEF SplitIsATraders
<1>8. ASSUME NEW m \in Market, NEW who \in Trader, NEW amount \in Amounts, NEW to \in Account,
             transferHigh(m, who, to, amount)
      PROVE  HoldingsInv'
  <2>1. who \in Account /\ who # PoolManager /\ amount \in Int /\ amount >= 0
    BY VaultAmountAssumption DEF Trader
  <2>2. /\ DOMAIN high' = Market /\ \A j \in Market : DOMAIN high'[j] = Account
        /\ \A j \in Market \ {m} : high'[j] = high[j]
        /\ \/ high'[m][PoolManager] = high[m][PoolManager] + amount
           \/ high'[m][PoolManager] = high[m][PoolManager]
        /\ inFlight' = inFlight
    BY <1>0, <1>8, <2>1, HighMoves
  <2>3. SplitIsATraders'
    BY <1>0, <2>2 DEF SplitIsATraders
  <2>4. \A j \in Market : high[j][PoolManager] \in Int
    BY <1>0 DEF HoldingsType
  <2>5. \A j \in Market : /\ DOMAIN high'[j] = Account /\ high'[j][PoolManager] \in Int
                          /\ high'[j][PoolManager] >= high[j][PoolManager]
    BY <2>1, <2>2, <2>4
  <2> QED BY <1>0, <2>2, <2>3, <2>5, NothingTaken
<1> QED BY <1>2, <1>3, <1>5, <1>6, <1>7, <1>8 DEF VaultCall

LEMMA HoldingsStep == HoldingsInv /\ [HookNext]_marketVars => HoldingsInv'
<1> SUFFICES ASSUME HoldingsInv, [HookNext]_marketVars PROVE HoldingsInv'
  OBVIOUS
<1>1. CASE UNCHANGED <<high, inFlight, backstop, reserves, dollarsHeld>>
  <2>1. HoldingsType'
    BY <1>1 DEF HoldingsInv, HoldingsType
  <2>2. SplitIsATraders'
    BY <1>1 DEF HoldingsInv, SplitIsATraders
  <2>3. /\ DollarsIn' = DollarsIn /\ HighIn' = HighIn
        /\ backstop' = backstop /\ dollarsHeld' = dollarsHeld /\ high' = high
    BY <1>1 DEF DollarsIn, HighIn
  <2>4. BackstopIsHeld'
    <3>1. /\ dollarsHeld = backstop[Dollars] + SumFunction(DollarsIn)
          /\ \A m \in Market : high[m][PoolManager]
                                  >= backstop[m] + SumFunctionOnSet(HighIn, PoolsOf(m))
      BY DEF HoldingsInv, BackstopIsHeld, DollarsIn, HighIn, PoolsOf
    <3>2. /\ dollarsHeld' = backstop'[Dollars] + SumFunction(DollarsIn')
          /\ \A m \in Market : high'[m][PoolManager]
                                  >= backstop'[m] + SumFunctionOnSet(HighIn', PoolsOf(m))
      BY <2>3, <3>1
    <3> QED BY <3>2 DEF BackstopIsHeld, DollarsIn, HighIn, PoolsOf
  <2> QED BY <2>1, <2>2, <2>4 DEF HoldingsInv
<1>2. CASE UNCHANGED marketVars \/ HookGovernanceCall
  <2>1. UNCHANGED <<high, inFlight, backstop, reserves, dollarsHeld>>
    BY <1>2 DEF marketVars, allVars, vaultVars, supplyVars, hookVars, poolVars,
                HookGovernanceCall, bindPool, setHookGovernance
  <2> QED BY <1>1, <2>1
<1>3. CASE (OracleCall \/ BlockTime) /\ UNCHANGED hookVars
  <2>1. UNCHANGED <<high, inFlight, backstop, reserves, dollarsHeld>>
    BY <1>3 DEF OracleCall, BlockTime, vaultVars, supplyVars, hookVars, poolVars
  <2> QED BY <1>1, <2>1
<1>4. CASE PoolCall
  BY <1>4, BuyHolds, SellHolds, LiquidityHolds DEF PoolCall, Trade, ChangeLiquidity
<1> QED BY <1>2, <1>3, <1>4, VaultCallHolds DEF HookNext

LEMMA HoldingsInit == HookInit => HoldingsInv
<1> SUFFICES ASSUME HookInit PROVE HoldingsInv
  OBVIOUS
<1>1. HoldingsType /\ SplitIsATraders
  BY PoolAssumption DEF HookInit, VaultInit, HoldingsType, SplitIsATraders, Currency
<1>2. PICK f : f = HighIn
  OBVIOUS
<1>3. PICK d : d = DollarsIn
  OBVIOUS
<1>4. (\A p \in Pool : f[p] = 0 /\ d[p] = 0) /\ DOMAIN d = Pool
  BY <1>2, <1>3 DEF HookInit, HighIn, DollarsIn
<1>5. SumFunction(d) = 0
  BY <1>4, PoolAssumption, SumOfZeros DEF SumFunction
<1>6. ASSUME NEW m \in Market PROVE SumFunctionOnSet(f, PoolsOf(m)) = 0
  <2>1. IsFiniteSet(PoolsOf(m)) /\ \A p \in PoolsOf(m) : f[p] = 0
    BY <1>4, FS_Subset, PoolAssumption DEF PoolsOf
  <2> QED BY <2>1, SumOfZeros
<1>7. /\ dollarsHeld = 0 /\ \A c \in Currency : backstop[c] = 0
      /\ \A m \in Market : m \in Currency /\ high[m][PoolManager] = 0
      /\ Dollars \in Currency
  BY PoolAssumption DEF HookInit, VaultInit, Currency
<1>8. BackstopIsHeld
  BY <1>2, <1>3, <1>5, <1>6, <1>7 DEF BackstopIsHeld, HighIn, DollarsIn, PoolsOf
<1> QED BY <1>1, <1>8 DEF HoldingsInv

(* The PoolManager can pay out all pools and the backstop at once, in      *)
(* dollars exactly, for any fees, any number of pools on a market and any  *)
(* order of swaps, splits and redemptions (HaloHook 49-54, afterSwap).     *)
THEOREM HookBackstopIsHeld == HookSpec => []BackstopIsHeld
<1>1. HoldingsInv => BackstopIsHeld
  BY DEF HoldingsInv
<1> QED BY <1>1, HoldingsInit, HoldingsStep, PTL DEF HookSpec

-----------------------------------------------------------------------------
(* The names: what a reader of a name under halo.eth can rely on, for any  *)
(* number of readers, names, gateways, keys and figures, any lifetime of   *)
(* an answer, and any orders of the resolver's governance.  That a final   *)
(* answer stays the oracle's rests on the oracle's own proofs.             *)

Shown == Figure \ {Absent}

(* The figure was the index of the name less than a lifetime before t.     *)
Recent(n, v, t) == LastMomentOf(n, v) \in Nat /\ t <= LastMomentOf(n, v) + TTL_SECONDS

CorpusType ==
    /\ figure \in [Name -> Figure \cup {Absent}]
    /\ lastHeld \in [Name \X Figure -> Int]
    /\ \A h \in Name \X Figure : lastHeld[h] <= now

LookupType ==
    /\ \E D : lookup \in [Reader -> [name : Name \cup {Absent}, urls : D]]
    /\ \A r \in Reader : lookup[r] = NoLookup \/ lookup[r].name \in Name

(* An answer expires a lifetime after a moment its figure was the index.   *)
Signed(a) ==
    /\ a.name \in Name /\ a.result \in Shown /\ a.expires \in Int
    /\ Recent(a.name, a.result, a.expires)

(* An answer a reader has accepted was alive then.                         *)
Accepted(g) ==
    /\ g.name \in Name /\ g.result \in Shown /\ g.at \in Int
    /\ Recent(g.name, g.result, g.at + 1)
    /\ g.final => IsFinal(g.name) /\ g.result = epochs[AsksFor(g.name)].valueBps

ResolverInv ==
    /\ OracleTypeOK
    /\ CorpusType
    /\ LookupType
    /\ \A a \in signed : Signed(a)
    /\ got = [r \in Reader |-> got[r]]
    /\ \A r \in Reader : got[r] # Absent => Accepted(got[r])

(* What a step leaves standing: the last moment of a figure never goes     *)
(* back, and what the oracle has settled stays settled.                    *)
MomentsGrow ==
    \A n \in Name, v \in Shown : LastMomentOf(n, v) \in Nat =>
        LastMomentOf(n, v)' \in Nat /\ LastMomentOf(n, v)' >= LastMomentOf(n, v)

FinalStays ==
    \A k \in Key : statusOf(k) = "Finalized" =>
        statusOf(k)' = "Finalized" /\ epochs'[k].valueBps = epochs[k].valueBps

LEMMA SignedStays ==
  ASSUME MomentsGrow, NEW a, Signed(a)
  PROVE  Signed(a)'
BY ResolverAssumption DEF MomentsGrow, Signed, Recent

LEMMA AcceptedStays ==
  ASSUME MomentsGrow, FinalStays, NEW g, Accepted(g)
  PROVE  Accepted(g)'
<1>1. Recent(g.name, g.result, g.at + 1)'
  BY ResolverAssumption DEF MomentsGrow, Accepted, Recent
<1>2. ASSUME g.final PROVE IsFinal(g.name)' /\ g.result = epochs'[AsksFor(g.name)].valueBps
  BY <1>2 DEF Accepted, FinalStays, IsFinal
<1> QED BY <1>1, <1>2 DEF Accepted

LEMMA CorpusStands ==
  ASSUME CorpusType, now \in Nat, now' \in Nat, now' >= now, UNCHANGED <<figure, lastHeld>>
  PROVE  CorpusType' /\ MomentsGrow
<1>1. CorpusType'
  BY DEF CorpusType
<1>2. MomentsGrow
  BY DEF MomentsGrow, LastMomentOf
<1> QED BY <1>1, <1>2

LEMMA CorpusMoves ==
  ASSUME CorpusType, now \in Nat, UNCHANGED now, NEW n \in Name, NEW v \in Figure \cup {Absent}, Move(n, v)
  PROVE  CorpusType' /\ MomentsGrow
<1>1. /\ figure \in [Name -> Figure \cup {Absent}] /\ lastHeld \in [Name \X Figure -> Int]
      /\ figure' = [figure EXCEPT ![n] = v]
  BY DEF CorpusType, Move
<1>2. CASE figure[n] = Absent
  <2>1. lastHeld' = lastHeld
    BY <1>2 DEF Move
  <2>2. CorpusType'
    BY <1>1, <2>1 DEF CorpusType
  <2>3. MomentsGrow
    BY <1>1, <1>2, <2>1 DEF MomentsGrow, LastMomentOf, CorpusType, Shown
  <2> QED BY <2>2, <2>3
<1>3. CASE figure[n] # Absent
  <2> DEFINE h == <<n, figure[n]>>
  <2>1. h \in Name \X Figure /\ lastHeld' = [lastHeld EXCEPT ![h] = now]
    BY <1>1, <1>3 DEF Move
  <2> HIDE DEF h
  <2>2. /\ lastHeld' \in [Name \X Figure -> Int] /\ lastHeld'[h] = now
        /\ \A i \in (Name \X Figure) \ {h} : lastHeld'[i] = lastHeld[i]
    BY <1>1, <2>1
  <2>3. \A i \in Name \X Figure : lastHeld'[i] <= now' /\ lastHeld'[i] >= lastHeld[i]
    BY <2>2 DEF CorpusType
  <2>4. CorpusType'
    BY <1>1, <2>2, <2>3 DEF CorpusType
  <2>5. ASSUME NEW m \in Name, NEW u \in Shown, LastMomentOf(m, u) \in Nat
        PROVE  LastMomentOf(m, u)' \in Nat /\ LastMomentOf(m, u)' >= LastMomentOf(m, u)
    <3> DEFINE i == <<m, u>>
    <3>1. i \in Name \X Figure
      BY DEF Shown
    <3>2. lastHeld[i] <= now /\ lastHeld'[i] <= now' /\ lastHeld'[i] >= lastHeld[i]
          /\ lastHeld[i] \in Int /\ lastHeld'[i] \in Int
      BY <1>1, <2>2, <2>3, <3>1 DEF CorpusType
    <3>3. CASE figure[m] = u /\ figure'[m] # u
      <4>1. i = h
        BY <1>1, <3>3 DEF h
      <4>2. LastMomentOf(m, u) = now /\ LastMomentOf(m, u)' = now
        BY <2>2, <3>3, <4>1 DEF LastMomentOf
      <4> QED BY <4>2
    <3>4. CASE figure[m] = u /\ figure'[m] = u
      BY <3>4 DEF LastMomentOf
    <3>5. CASE figure[m] # u
      <4>1. LastMomentOf(m, u) = lastHeld[i]
        BY <3>5 DEF LastMomentOf
      <4>2. LastMomentOf(m, u)' \in {now', lastHeld'[i]}
        BY DEF LastMomentOf
      <4> QED BY <2>5, <3>2, <4>1, <4>2
    <3> QED BY <3>3, <3>4, <3>5
  <2> QED BY <2>4, <2>5 DEF MomentsGrow
<1> QED BY <1>2, <1>3

LEMMA OracleStands ==
  ASSUME UNCHANGED oracleVars, OracleTypeOK
  PROVE  OracleTypeOK' /\ FinalStays /\ now \in Nat /\ now' = now
BY DEF oracleVars, OracleTypeOK, FinalStays, statusOf

LEMMA OracleMoves ==
  ASSUME OracleTypeOK, OracleNext
  PROVE  OracleTypeOK' /\ FinalStays /\ now \in Nat /\ now' \in Nat /\ now' >= now
<1>1. ASSUME NEW k \in Key, NEW atRisk \in Exposures, EpochCall(k, atRisk)
      PROVE  OracleTypeOK' /\ FinalStays /\ now' = now
  <2>1. OracleTypeOK' /\ now' = now
    BY <1>1, EpochCallType, EpochCallFrame, AmountAssumption
  <2>2. EpochMove(k, atRisk)
    BY <1>1, EpochCallMove, AmountAssumption
  <2>3. \A j \in Key : statusOf(j) \in Terminal => epochs'[j] = epochs[j]
    BY <2>2 DEF EpochMove
  <2> QED BY <2>1, <2>3 DEF FinalStays, statusOf, Terminal
<1>2. CASE GovernanceCall \/ Tick
  <2>1. OracleTypeOK' /\ epochs' = epochs /\ now' >= now
    BY <1>2, OtherCallType
  <2>2. FinalStays /\ now \in Nat /\ now' \in Nat
    BY <2>1 DEF FinalStays, statusOf, OracleTypeOK
  <2> QED BY <2>1, <2>2
<1>3. now \in Nat /\ (OracleTypeOK' => now' \in Nat)
  BY DEF OracleTypeOK
<1> QED BY <1>1, <1>2, <1>3 DEF OracleNext

-----------------------------------------------------------------------------
(* The invariant.                                                          *)

LEMMA ResolverInitInv == OracleInit /\ ResolverInit => ResolverInv
<1> SUFFICES ASSUME OracleInit, ResolverInit PROVE ResolverInv
  OBVIOUS
<1>1. OracleTypeOK /\ now = 0
  BY OracleInitType DEF OracleInit
<1>2. CorpusType
  BY <1>1 DEF ResolverInit, CorpusType, Never
<1>3. LookupType
  <2>1. lookup \in [Reader -> [name : Name \cup {Absent}, urls : {<<>>}]]
    BY DEF ResolverInit, NoLookup
  <2> QED BY <2>1 DEF LookupType, ResolverInit
<1> QED BY <1>1, <1>2, <1>3 DEF ResolverInv, ResolverInit

(* All that is left to show of a step that changes no answer.              *)
LEMMA AnswersStand ==
  ASSUME ResolverInv, MomentsGrow, FinalStays, OracleTypeOK', CorpusType', LookupType',
         UNCHANGED <<signed, got>>
  PROVE  ResolverInv'
<1>1. \A a \in signed : Signed(a)'
  BY SignedStays DEF ResolverInv
<1>2. \A r \in Reader : got[r] # Absent => Accepted(got[r])'
  BY AcceptedStays DEF ResolverInv
<1>3. \A r \in Reader : got'[r] # Absent => Accepted(got[r])' /\ got'[r] = got[r]
  BY <1>2
<1> QED BY <1>1, <1>3 DEF ResolverInv

LEMMA LookupOpens ==
  ASSUME LookupType, NEW r \in Reader, NEW n \in Name, resolve(r, n)
  PROVE  LookupType'
<1>1. PICK D : lookup \in [Reader -> [name : Name \cup {Absent}, urls : D]]
  BY DEF LookupType
<1> DEFINE asked == [name |-> n, urls |-> gateways]
<1>2. asked \in [name : Name \cup {Absent}, urls : D \cup {gateways}] /\ asked.name = n
  OBVIOUS
<1>3. lookup' = [lookup EXCEPT ![r] = asked]
  BY DEF resolve
<1> HIDE DEF asked
<1>4. lookup' \in [Reader -> [name : Name \cup {Absent}, urls : D \cup {gateways}]]
  BY <1>1, <1>2, <1>3
<1>5. \A q \in Reader : lookup'[q] = lookup[q] \/ lookup'[q] = asked
  BY <1>1, <1>3
<1> QED BY <1>2, <1>4, <1>5 DEF LookupType

LEMMA LookupFallsBack ==
  ASSUME LookupType, NEW r \in Reader, NextGateway(r)
  PROVE  LookupType'
<1>1. PICK D : lookup \in [Reader -> [name : Name \cup {Absent}, urls : D]]
  BY DEF LookupType
<1> DEFINE rest == Tail(lookup[r].urls)
<1>2. lookup' = [lookup EXCEPT ![r].urls = rest] /\ lookup[r].name \in Name
  BY DEF NextGateway, LookupType
<1> HIDE DEF rest
<1>3. lookup' \in [Reader -> [name : Name \cup {Absent}, urls : D \cup {rest}]]
  BY <1>1, <1>2
<1>4. \A q \in Reader : lookup'[q].name = lookup[q].name /\ (q # r => lookup'[q] = lookup[q])
  BY <1>1, <1>2
<1> QED BY <1>2, <1>3, <1>4 DEF LookupType

LEMMA LookupCloses ==
  ASSUME LookupType, NEW r \in Reader, lookup' = [lookup EXCEPT ![r] = NoLookup]
  PROVE  LookupType'
<1>1. PICK D : lookup \in [Reader -> [name : Name \cup {Absent}, urls : D]]
  BY DEF LookupType
<1>2. NoLookup \in [name : Name \cup {Absent}, urls : D \cup {<<>>}]
  BY DEF NoLookup
<1>3. lookup' \in [Reader -> [name : Name \cup {Absent}, urls : D \cup {<<>>}]]
  BY <1>1, <1>2
<1>4. \A q \in Reader : lookup'[q] = lookup[q] \/ lookup'[q] = NoLookup
  BY <1>1
<1> QED BY <1>3, <1>4 DEF LookupType

(* A gateway signs the figure of this moment.                              *)
LEMMA GatewaySigns ==
  ASSUME ResolverInv, UNCHANGED oracleVars, NEW r \in Reader, NEW g \in Gateway, ensGateway(r, g)
  PROVE  ResolverInv'
<1>1. OracleTypeOK' /\ FinalStays /\ now \in Nat /\ now' = now
  BY OracleStands DEF ResolverInv
<1>2. UNCHANGED <<figure, lastHeld, lookup, got>>
  BY DEF ensGateway, corpus
<1>3. CorpusType' /\ MomentsGrow
  BY <1>1, <1>2, CorpusStands DEF ResolverInv
<1>4. PICK n \in Name : n = lookup[r].name /\ figure[n] # Absent
  BY DEF ensGateway, HasAnswer, ResolverInv, LookupType
<1>5. signed' = signed \cup {Sign(g, n)} /\ figure[n] \in Shown
  BY <1>4 DEF ensGateway, ResolverInv, CorpusType, Shown
<1>6. Signed(Sign(g, n))
  <2>1. /\ Sign(g, n).name = n /\ Sign(g, n).result = figure[n]
        /\ Sign(g, n).expires = now + TTL_SECONDS
    BY DEF Sign
  <2>2. LastMomentOf(n, figure[n]) = now
    BY DEF LastMomentOf
  <2> QED BY <1>1, <1>5, <2>1, <2>2, ResolverAssumption DEF Signed, Recent
<1>7. \A a \in signed' : Signed(a)'
  <2>1. ASSUME NEW a, Signed(a) PROVE Signed(a)'
    BY <1>3, <2>1, SignedStays
  <2>2. \A a \in signed' : Signed(a)
    BY <1>5, <1>6 DEF ResolverInv
  <2> QED BY <2>1, <2>2
<1>8. \A q \in Reader : got[q] # Absent => Accepted(got[q])'
  BY <1>1, <1>2, <1>3, AcceptedStays DEF ResolverInv
<1>9. LookupType'
  BY <1>2 DEF ResolverInv, LookupType
<1> QED BY <1>1, <1>2, <1>3, <1>7, <1>8, <1>9 DEF ResolverInv

(* The callback takes an answer that is alive, and one of a final epoch    *)
(* only if the oracle says the same.                                       *)
LEMMA CallbackAccepts ==
  ASSUME ResolverInv, UNCHANGED oracleVars, NEW r \in Reader, NEW a \in signed, resolveCallback(r, a)
  PROVE  ResolverInv'
<1>1. OracleTypeOK' /\ FinalStays /\ now \in Nat /\ now' = now
  BY OracleStands DEF ResolverInv
<1>2. UNCHANGED <<figure, lastHeld, signed>> /\ lookup' = [lookup EXCEPT ![r] = NoLookup]
  BY DEF resolveCallback, corpus
<1>3. CorpusType' /\ MomentsGrow
  BY <1>1, <1>2, CorpusStands DEF ResolverInv
<1>4. Signed(a) /\ now < a.expires /\ AgreesWithOracle(a)
  BY <1>1 DEF resolveCallback, IsStale, ResolverInv, Signed
<1> DEFINE accepted == [name |-> a.name, result |-> a.result, at |-> now, final |-> IsFinal(a.name)]
<1>5. Accepted(accepted)
  <2>1. /\ accepted.name = a.name /\ accepted.result = a.result /\ accepted.at = now
        /\ accepted.final = IsFinal(a.name)
    OBVIOUS
  <2> HIDE DEF accepted
  <2>2. Recent(a.name, a.result, now + 1)
    BY <1>1, <1>4, ResolverAssumption DEF Signed, Recent
  <2> QED BY <1>1, <1>4, <2>1, <2>2 DEF Signed, Accepted, AgreesWithOracle
<1>6. got' = [got EXCEPT ![r] = accepted]
  BY DEF resolveCallback
<1> HIDE DEF accepted
<1>7. got' = [q \in Reader |-> got'[q]] /\ \A q \in Reader : got'[q] = accepted \/ got'[q] = got[q]
  BY <1>6 DEF ResolverInv
<1>8. \A q \in Reader : got'[q] # Absent => Accepted(got'[q])
  BY <1>5, <1>7 DEF ResolverInv
<1>9. ASSUME NEW q \in Reader, got'[q] # Absent PROVE Accepted(got[q])'
  <2>1. PICK g : g = got'[q]
    OBVIOUS
  <2>2. Accepted(g)
    BY <1>8, <1>9, <2>1
  <2>3. Accepted(g)'
    BY <1>1, <1>3, <2>2, AcceptedStays
  <2> QED BY <2>1, <2>3
<1>10. \A b \in signed : Signed(b)'
  BY <1>3, SignedStays DEF ResolverInv
<1>11. LookupType'
  BY <1>2, LookupCloses DEF ResolverInv
<1> QED BY <1>1, <1>2, <1>3, <1>7, <1>9, <1>10, <1>11 DEF ResolverInv

LEMMA ResolverStepInv ==
  ASSUME ResolverInv, UNCHANGED oracleVars, ResolverStep
  PROVE  ResolverInv'
<1>1. OracleTypeOK' /\ FinalStays /\ now \in Nat /\ now' = now
  BY OracleStands DEF ResolverInv
<1>2. ASSUME UNCHANGED <<figure, lastHeld, signed, got>>, LookupType' PROVE ResolverInv'
  <2>1. CorpusType' /\ MomentsGrow
    BY <1>1, <1>2, CorpusStands DEF ResolverInv
  <2> QED BY <1>1, <1>2, <2>1, AnswersStand
<1>3. ASSUME UNCHANGED lookup PROVE LookupType'
  BY <1>3 DEF ResolverInv, LookupType
<1>4. ASSUME NEW r \in Reader, NEW n \in Name, resolve(r, n) PROVE ResolverInv'
  BY <1>2, <1>4, LookupOpens DEF ResolverInv, resolve, corpus
<1>5. ASSUME NEW r \in Reader, NextGateway(r) PROVE ResolverInv'
  BY <1>2, <1>5, LookupFallsBack DEF ResolverInv, NextGateway, corpus
<1>6. ASSUME NEW r \in Reader, GiveUp(r) PROVE ResolverInv'
  BY <1>2, <1>6, LookupCloses DEF ResolverInv, GiveUp, corpus
<1>7. ASSUME NEW by \in Account, NEW k \in SignerKey, NEW trusted \in BOOLEAN, setSigner(by, k, trusted)
      PROVE  ResolverInv'
  BY <1>2, <1>3, <1>7 DEF setSigner, corpus
<1>8. ASSUME NEW by \in Account, NEW g \in Gateway, setGateways(by, <<g>>) PROVE ResolverInv'
  BY <1>2, <1>3, <1>8 DEF setGateways, corpus
<1>9. ASSUME NEW by \in Account, NEW next \in Account, setOwner(by, next) PROVE ResolverInv'
  BY <1>2, <1>3, <1>9 DEF setOwner, corpus
<1>10. ASSUME NEW g \in Gateway, NEW k \in SignerKey \cup {Absent}, Rotate(g, k) PROVE ResolverInv'
  BY <1>2, <1>3, <1>10 DEF Rotate, corpus
<1>11. ASSUME NEW n \in Name, NEW v \in Figure \cup {Absent}, Move(n, v) PROVE ResolverInv'
  <2>1. CorpusType' /\ MomentsGrow
    BY <1>1, <1>11, CorpusMoves DEF ResolverInv
  <2> QED BY <1>1, <1>3, <1>11, <2>1, AnswersStand DEF Move
<1> QED BY <1>4, <1>5, <1>6, <1>7, <1>8, <1>9, <1>10, <1>11, GatewaySigns, CallbackAccepts DEF ResolverStep

LEMMA ResolverNextInv == ResolverInv /\ [ResolverNext]_<<oracleVars, resolverVars>> => ResolverInv'
<1> SUFFICES ASSUME ResolverInv, [ResolverNext]_<<oracleVars, resolverVars>> PROVE ResolverInv'
  OBVIOUS
<1>1. CASE ResolverStep /\ UNCHANGED oracleVars
  BY <1>1, ResolverStepInv
<1>2. ASSUME UNCHANGED resolverVars, OracleTypeOK', FinalStays, now \in Nat, now' \in Nat, now' >= now
      PROVE  ResolverInv'
  <2>1. UNCHANGED <<figure, lastHeld, lookup, signed, got>>
    BY <1>2 DEF resolverVars, corpus
  <2>2. CorpusType' /\ MomentsGrow
    BY <1>2, <2>1, CorpusStands DEF ResolverInv
  <2>3. LookupType'
    BY <2>1 DEF ResolverInv, LookupType
  <2> QED BY <1>2, <2>1, <2>2, <2>3, AnswersStand
<1>3. CASE OracleNext /\ UNCHANGED resolverVars
  BY <1>2, <1>3, OracleMoves DEF ResolverInv
<1>4. CASE UNCHANGED <<oracleVars, resolverVars>>
  BY <1>2, <1>4, OracleStands DEF ResolverInv
<1> QED BY <1>1, <1>3, <1>4 DEF ResolverNext

(* The head comments of HaloResolver.sol and ens-gateway.ts, for any       *)
(* lifetime of an answer and any number of readers and names: a reader was *)
(* given an index of that name less than a lifetime old, and the oracle's  *)
(* own value, then and for ever, once the epoch was final.                 *)
THEOREM ResolverAnswersHold == ResolverSpec => []AnswersHold
<1>1. ResolverInv => AnswersHold
  <2> SUFFICES ASSUME ResolverInv, NEW r \in Reader, got[r] # Absent
               PROVE  LET n == got[r].name  v == got[r].result IN
                        /\ LastMomentOf(n, v) # Never /\ got[r].at < LastMomentOf(n, v) + TTL_SECONDS
                        /\ got[r].final => IsFinal(n) /\ v = epochs[AsksFor(n)].valueBps
    BY DEF AnswersHold
  <2>1. Accepted(got[r])
    BY DEF ResolverInv
  <2> QED BY <2>1, ResolverAssumption DEF Accepted, Recent, Never
<1> QED BY <1>1, ResolverInitInv, ResolverNextInv, PTL DEF ResolverSpec

================================================================================
