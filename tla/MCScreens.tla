------------------------------- MODULE MCScreens -------------------------------
(***************************************************************************)
(* One small instance for the screens of the mini app: a visit scans       *)
(* receipts (Scanner) or claims points (Rewards).  The two share no state, *)
(* so a behaviour is one visit and leaves the variables of the other as    *)
(* they began; there none of its fair actions is ever enabled.             *)
(***************************************************************************)
EXTENDS Scanner, Rewards

VARIABLE visit

vars == <<visit, scanVars, rewardVars>>

ScreensInit ==
    /\ visit \in {"scan", "rewards"}
    /\ ScanInit /\ RewardsInit
    /\ visit = "scan" => host = "world"

ScreensNext ==
    /\ UNCHANGED visit
    /\ \/ visit = "scan" /\ ScanNext /\ UNCHANGED rewardVars
       \/ visit = "rewards" /\ RewardsNext /\ UNCHANGED scanVars

ScreensSpec == ScreensInit /\ [][ScreensNext]_vars /\ ScanFairness /\ RewardsFairness

(* What a person waits for comes: an upload's verdict or its end           *)
(* (ScanResult.tsx), and the button of a claim, whatever became of the     *)
(* proof, the wallet or the request (usePointClaim.ts).                    *)
NothingWaitsForEver == WaitEnds /\ ButtonsComeBack
=============================================================================
