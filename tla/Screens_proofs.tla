----------------------------- MODULE Screens_proofs ----------------------------
(***************************************************************************)
(* What holds of the screens of the mini app for any number of shots,      *)
(* receipts and taps: of the scanner and its uploads (Scanner), and of the *)
(* screens that claim points (Rewards).                                    *)
(***************************************************************************)
EXTENDS Scanner, Rewards, FiniteSetTheorems, TLAPS

-----------------------------------------------------------------------------
(* The scanner.  Types, with the pages told apart.                         *)

Uploads == [at : {"unused", "drawn", "blank", "posted", "admitted", "weighed", "filed", "refused", "over"},
            mount : 0 .. MaxMounts, token : {Nothing} \cup Nat, day : Nat, points : {-1, 0}]
Rows == [status : {"none", "pending", "claimable", "rejected"}, points : {-1, 0}, day : Nat]
Scanners == [camera : {"loading", "ready", "error"}, isReviewing : BOOLEAN, turnstileToken : {Nothing} \cup Nat]

ServerTyped == today \in Nat /\ row \in [Shot -> Rows] /\ upload \in [Shot -> Uploads] /\ crossed \in BOOLEAN
CameraTyped == /\ mount \in 0 .. MaxMounts /\ tokens \in Nat /\ scanner \in Scanners
               /\ stream \in [1 .. MaxMounts -> {"none", "asked", "live"}]
PageTyped == /\ page \in {Home, Camera} \cup {Result(s) : s \in Shot}
             /\ board \in [fresh : BOOLEAN, behind : SUBSET Shot] /\ shown \subseteq Shot
ScanType == ServerTyped /\ CameraTyped /\ PageTyped

LEMMA PagesDiffer ==
  /\ Home # Camera /\ \A s \in Shot : Result(s) # Home /\ Result(s) # Camera
  /\ \A s, r \in Shot : Result(s) = Result(r) => s = r
BY DEF Home, Camera, Result

LEMMA ScanTypeStarts == ScanInit => ScanType
<1> SUFFICES ASSUME ScanInit PROVE ScanType
  OBVIOUS
<1>1. ServerTyped
  <2>1. Unused \in Uploads /\ NoRow \in Rows
    BY ScannerAssumption DEF Unused, NoRow, Uploads, Rows
  <2> QED BY <2>1 DEF ScanInit, ServerTyped
<1>2. CameraTyped
  BY ScannerAssumption DEF ScanInit, CameraTyped, Scanners, Closed
<1>3. PageTyped
  BY DEF ScanInit, PageTyped, Stale
<1> QED BY <1>1, <1>2, <1>3 DEF ScanType

LEMMA ServerTypeKept ==
  ASSUME ScanType, NEW s \in Shot, UploadServer(s) \/ AnswerIsLost(s)
  PROVE  ScanType'
<1> USE DEF ScanType, ServerTyped, Uploads, Rows
<1>1. UNCHANGED <<page, cameraVars, resultVars>> => CameraTyped' /\ PageTyped'
  BY DEF CameraTyped, PageTyped, cameraVars, resultVars
<1>2. CASE RefuseUpload(s) \/ UploadBreaks(s) \/ AnswerIsLost(s)
  BY <1>1, <1>2 DEF RefuseUpload, UploadBreaks, AnswerIsLost, Upload, serverVars
<1>3. CASE AdmitUpload(s)
  <2>1. crossed' \in BOOLEAN
    BY <1>3 DEF AdmitUpload
  <2>2. upload' \in [Shot -> Uploads]
    <3>1. CASE UnderTheCap(today)
      BY <1>3, <3>1 DEF AdmitUpload
    <3>2. CASE ~ UnderTheCap(today)
      BY <1>3, <3>2 DEF AdmitUpload, Upload
    <3> QED BY <3>1, <3>2
  <2> QED BY <1>1, <1>3, <2>1, <2>2 DEF AdmitUpload, serverVars
<1>4. CASE WeighUpload(s)
  <2>1. PICK p \in {-1, 0} : upload' = [upload EXCEPT ![s].at = "weighed", ![s].points = p]
    BY <1>4 DEF WeighUpload
  <2>2. upload' \in [Shot -> Uploads]
    BY <2>1
  <2>3. UNCHANGED <<today, row, crossed, page, cameraVars, resultVars>>
    BY <1>4 DEF WeighUpload, serverVars
  <2> QED BY <1>1, <2>2, <2>3
<1>5. CASE FileReceipt(s)
  BY <1>1, <1>5 DEF FileReceipt, Upload
<1> QED BY <1>2, <1>3, <1>4, <1>5 DEF UploadServer

LEMMA PhoneTypeKept ==
  ASSUME ScanType, ScanNext,
         ~ \E s \in Shot : UploadServer(s) \/ AnswerIsLost(s)
  PROVE  ScanType'
<1> USE DEF ScanType
<1>1. ASSUME NEW s \in Shot, NEW blob \in BOOLEAN, getFile(s, blob) PROVE ScanType'
  BY <1>1 DEF ServerTyped, CameraTyped, PageTyped, Uploads, getFile, Upload, serverVars, cameraVars, resultVars
<1>2. ASSUME NEW s \in Shot, uploadFails(s) PROVE ScanType'
  <2>1. Recovered(upload[s].mount) \in Scanners
    BY DEF CameraTyped, Recovered, Scanners
  <2> QED BY <1>2, <2>1 DEF ServerTyped, CameraTyped, PageTyped, Uploads, uploadFails, Upload, serverVars, resultVars
<1>3. Closed \in Scanners /\ Released \in [1 .. MaxMounts -> {"none", "asked", "live"}] /\ Stale \in [fresh : BOOLEAN, behind : SUBSET Shot]
  BY DEF Closed, Scanners, Released, CameraTyped, Stale
<1>4. LeaveCamera => scanner' \in Scanners /\ stream' \in [1 .. MaxMounts -> {"none", "asked", "live"}]
  BY <1>3 DEF LeaveCamera, CameraTyped
<1>5. ASSUME NEW s \in Shot, uploadSucceeds(s) PROVE ScanType'
  <2>1. ServerTyped'
    BY <1>5 DEF ServerTyped, Uploads, uploadSucceeds, Upload, serverVars
  <2>2. CameraTyped' /\ PageTyped'
    BY <1>4, <1>5 DEF CameraTyped, PageTyped, uploadSucceeds
  <2> QED BY <2>1, <2>2
<1>6. ASSUME NEW s \in Shot, NEW verdict \in {"claimable", "rejected"}, SettleReceipt(s, verdict) PROVE ScanType'
  BY <1>6 DEF ServerTyped, CameraTyped, PageTyped, Rows, SettleReceipt, cameraVars, resultVars
<1>7. ASSUME NEW s \in Shot, handleCapture(s) PROVE ScanType'
  <2>1. upload[s] \in Uploads /\ scanner \in Scanners /\ mount \in 0 .. MaxMounts
    BY DEF ServerTyped, CameraTyped
  <2>2. PICK x : x = [upload[s] EXCEPT !.at = "drawn", !.mount = mount, !.token = scanner.turnstileToken]
    OBVIOUS
  <2>3. x \in Uploads
    BY <2>1, <2>2 DEF Uploads, Scanners
  <2>4. upload' = [upload EXCEPT ![s] = x]
    BY <1>7, <2>2 DEF handleCapture
  <2>5. scanner' \in Scanners
    BY <1>7, <2>1 DEF handleCapture, Scanners
  <2>6. UNCHANGED <<today, row, page, mount, stream, tokens, board, shown, crossed>>
    BY <1>7 DEF handleCapture, serverVars, resultVars
  <2>7. upload' \in [Shot -> Uploads]
    BY <2>3, <2>4 DEF ServerTyped
  <2> QED BY <2>5, <2>6, <2>7 DEF ServerTyped, CameraTyped, PageTyped
<1>8. ASSUME NEW s \in Shot, byId(s) \/ byIdFails(s) PROVE ScanType'
  BY <1>3, <1>8 DEF ServerTyped, CameraTyped, PageTyped, byId, byIdFails, Verdict, serverVars, cameraVars
<1>9. ASSUME NEW m \in 1 .. MaxMounts, NEW granted \in BOOLEAN, startCamera(m, granted) PROVE ScanType'
  BY <1>9 DEF ServerTyped, CameraTyped, PageTyped, Scanners, startCamera, serverVars, resultVars
<1>10. ASSUME NEW loaded \in BOOLEAN, videoLoads(loaded) PROVE ScanType'
  BY <1>10 DEF ServerTyped, CameraTyped, PageTyped, Scanners, videoLoads, serverVars, resultVars
<1>11. CASE openScanner
  BY <1>3, <1>11, ScannerAssumption DEF ServerTyped, CameraTyped, PageTyped, openScanner, serverVars
<1>12. CASE retry
  BY <1>12 DEF ServerTyped, CameraTyped, PageTyped, Scanners, retry, serverVars, resultVars
<1>13. CASE TokenArrives \/ TokenExpires
  BY <1>13 DEF ServerTyped, CameraTyped, PageTyped, Scanners, TokenArrives, TokenExpires, serverVars, resultVars
<1>14. CASE goHome
  BY <1>4, <1>14 DEF ServerTyped, CameraTyped, PageTyped, goHome, Filed, serverVars
<1>15. CASE boardAges
  BY <1>3, <1>15 DEF ServerTyped, CameraTyped, PageTyped, boardAges, serverVars, cameraVars
<1>16. CASE DayTurns
  BY <1>16 DEF ServerTyped, CameraTyped, PageTyped, DayTurns, cameraVars, resultVars
<1> QED BY <1>1, <1>2, <1>5, <1>6, <1>7, <1>8, <1>9, <1>10, <1>11, <1>12, <1>13, <1>14, <1>15, <1>16 DEF ScanNext, UploadPhone

LEMMA ScanTypeKept ==
  ASSUME ScanType, [ScanNext]_scanVars
  PROVE  ScanType'
<1>1. CASE UNCHANGED scanVars
  BY <1>1 DEF scanVars, serverVars, cameraVars, resultVars, ScanType, ServerTyped, CameraTyped, PageTyped
<1> QED BY <1>1, ServerTypeKept, PhoneTypeKept

(* Every reachable state of the scanner is well typed (receipt.ts,         *)
(* CameraScan.tsx, ScanResult.tsx).                                        *)
THEOREM ScanTypes == ScanSpec => []ScanType
<1> QED BY ScanTypeStarts, ScanTypeKept, PTL DEF ScanSpec

-----------------------------------------------------------------------------
(* The camera: live only for the screen that is mounted.                   *)

CameraInv == CameraIsReleased /\ (page = Camera => mount >= 1)

LEMMA CameraKept ==
  ASSUME ScanType, CameraInv, [ScanNext]_scanVars
  PROVE  CameraInv'
<1> USE PagesDiffer DEF CameraInv, CameraIsReleased, OnCamera
<1>1. UNCHANGED <<page, mount, stream>> => CameraInv'
  OBVIOUS
<1>2. LeaveCamera /\ page' # Camera => CameraInv'
  BY DEF LeaveCamera, Released, ScanType, CameraTyped
<1>3. ASSUME NEW s \in Shot, uploadSucceeds(s) PROVE CameraInv'
  BY <1>2, <1>3 DEF uploadSucceeds
<1>4. CASE goHome
  BY <1>2, <1>4 DEF goHome
<1>5. CASE openScanner
  BY <1>5 DEF openScanner, ScanType, CameraTyped
<1>6. ASSUME NEW m \in 1 .. MaxMounts, NEW granted \in BOOLEAN, startCamera(m, granted) PROVE CameraInv'
  BY <1>6 DEF startCamera, ScanType, CameraTyped
<1>7. CASE retry
  BY <1>7 DEF retry, ScanType, CameraTyped
<1>8. ASSUME NEW s \in Shot, UploadServer(s) \/ AnswerIsLost(s) PROVE CameraInv'
  BY <1>1, <1>8 DEF UploadServer, AnswerIsLost, RefuseUpload, AdmitUpload, WeighUpload, FileReceipt, UploadBreaks, cameraVars
<1>9. ASSUME NEW s \in Shot, NEW blob \in BOOLEAN, getFile(s, blob) PROVE CameraInv'
  BY <1>1, <1>9 DEF getFile, cameraVars
<1>10. ASSUME NEW s \in Shot, uploadFails(s) \/ handleCapture(s) PROVE CameraInv'
  BY <1>1, <1>10 DEF uploadFails, handleCapture
<1>11. ASSUME NEW s \in Shot, NEW verdict \in {"claimable", "rejected"}, SettleReceipt(s, verdict) PROVE CameraInv'
  BY <1>1, <1>11 DEF SettleReceipt, cameraVars
<1>12. ASSUME NEW s \in Shot, byId(s) \/ byIdFails(s) PROVE CameraInv'
  BY <1>1, <1>12 DEF byId, byIdFails, cameraVars
<1>13. ASSUME NEW loaded \in BOOLEAN, videoLoads(loaded) PROVE CameraInv'
  BY <1>1, <1>13 DEF videoLoads
<1>14. CASE TokenArrives \/ TokenExpires \/ boardAges \/ DayTurns
  BY <1>1, <1>14 DEF TokenArrives, TokenExpires, boardAges, DayTurns, cameraVars
<1>15. CASE UNCHANGED scanVars
  BY <1>1, <1>15 DEF scanVars, cameraVars
<1> QED BY <1>3, <1>4, <1>5, <1>6, <1>7, <1>8, <1>9, <1>10, <1>11, <1>12, <1>13, <1>14, <1>15 DEF ScanNext, UploadPhone

-----------------------------------------------------------------------------
(* The board: what was shown settled is settled, and stays behind prices   *)
(* taken for fresh.                                                        *)

BoardInv ==
    /\ \A s \in Shot :
          /\ upload[s].at \in {"unused", "drawn", "blank", "posted", "admitted", "weighed"} => row[s].status = "none"
          /\ upload[s].at = "filed" \/ page = Result(s) => row[s].status # "none"
    /\ \A s \in shown : row[s].status \in {"claimable", "rejected"}
    /\ BoardFollowsScan

LEMMA BoardKept ==
  ASSUME ScanType, BoardInv, [ScanNext]_scanVars
  PROVE  BoardInv'
<1> USE PagesDiffer DEF BoardInv, BoardFollowsScan
<1>1. /\ row \in [Shot -> Rows] /\ upload \in [Shot -> Uploads] /\ shown \subseteq Shot
      /\ board \in [fresh : BOOLEAN, behind : SUBSET Shot] /\ page \in {Home, Camera} \cup {Result(s) : s \in Shot}
  BY DEF ScanType, ServerTyped, PageTyped
<1>2. ASSUME UNCHANGED <<row, board, shown>>, UNCHANGED page \/ page' = Home \/ page' = Camera,
             NEW s \in Shot, NEW a, upload' = [upload EXCEPT ![s].at = a] \/ UNCHANGED upload,
             a \in {"unused", "drawn", "blank", "posted", "admitted", "weighed"} =>
                 upload[s].at \in {"unused", "drawn", "blank", "posted", "admitted", "weighed"},
             a = "filed" => row[s].status # "none"
      PROVE  BoardInv'
  BY <1>1, <1>2 DEF Uploads
<1>3. UNCHANGED <<row, upload, page, board, shown>> => BoardInv'
  OBVIOUS
<1>4. ASSUME NEW s \in Shot, RefuseUpload(s) \/ UploadBreaks(s) \/ AnswerIsLost(s) PROVE BoardInv'
  BY <1>2, <1>4 DEF RefuseUpload, UploadBreaks, AnswerIsLost, Upload, serverVars, resultVars
<1>5. ASSUME NEW s \in Shot, AdmitUpload(s) \/ WeighUpload(s) PROVE BoardInv'
  <2>1. /\ UNCHANGED <<row, page, board, shown>> /\ \A r \in Shot \ {s} : upload'[r] = upload[r]
        /\ row[s].status = "none" /\ upload'[s].at \in {"admitted", "weighed", "refused"}
    BY <1>1, <1>5 DEF AdmitUpload, WeighUpload, Upload, serverVars, resultVars, Uploads
  <2> QED BY <1>1, <2>1
<1>6. ASSUME NEW s \in Shot, FileReceipt(s) PROVE BoardInv'
  <2>1. /\ UNCHANGED <<page, board, shown>> /\ row[s].status = "none" /\ row'[s].status = "pending"
        /\ upload'[s].at = "filed"
        /\ \A r \in Shot \ {s} : upload'[r] = upload[r] /\ row'[r] = row[r]
    BY <1>1, <1>6 DEF FileReceipt, Upload, resultVars, Uploads
  <2> QED BY <1>1, <2>1
<1>7. ASSUME NEW s \in Shot, NEW blob \in BOOLEAN, getFile(s, blob) PROVE BoardInv'
  BY <1>2, <1>7 DEF getFile, Upload, serverVars, resultVars
<1>8. ASSUME NEW s \in Shot, uploadFails(s) PROVE BoardInv'
  BY <1>2, <1>8 DEF uploadFails, Upload, serverVars, resultVars
<1>9. ASSUME NEW s \in Shot, uploadSucceeds(s) PROVE BoardInv'
  <2>1. /\ UNCHANGED <<row, board, shown>> /\ page' = Result(s) /\ row[s].status # "none"
        /\ upload'[s].at = "over" /\ \A r \in Shot \ {s} : upload'[r] = upload[r]
    BY <1>1, <1>9 DEF uploadSucceeds, Upload, serverVars, Uploads
  <2> QED BY <1>1, <2>1
<1>10. ASSUME NEW s \in Shot, NEW verdict \in {"claimable", "rejected"}, SettleReceipt(s, verdict) PROVE BoardInv'
  <2>1. /\ UNCHANGED <<upload, page, board, shown>> /\ row[s].status = "pending" /\ row'[s].status = verdict
        /\ \A r \in Shot \ {s} : row'[r] = row[r]
    BY <1>1, <1>10 DEF SettleReceipt, resultVars, Rows
  <2> QED BY <1>1, <2>1
<1>11. ASSUME NEW s \in Shot, handleCapture(s) PROVE BoardInv'
  <2>1. /\ UNCHANGED <<row, page, board, shown>> /\ row[s].status = "none"
        /\ upload'[s].at = "drawn" /\ \A r \in Shot \ {s} : upload'[r] = upload[r]
    BY <1>1, <1>11 DEF handleCapture, serverVars, resultVars, Uploads
  <2> QED BY <1>1, <2>1
<1>12. ASSUME NEW s \in Shot, byId(s) PROVE BoardInv'
  <2>1. UNCHANGED <<row, upload, page>> /\ page = Result(s)
    BY <1>12 DEF byId, serverVars
  <2>2. CASE row[s].status # "pending"
    <3>1. shown' = shown \cup {s} /\ ~ board'.fresh /\ row[s].status \in {"claimable", "rejected"}
      BY <1>1, <1>12, <2>1, <2>2 DEF byId, Verdict, Stale, Rows
    <3> QED BY <1>1, <2>1, <3>1
  <2>3. CASE row[s].status = "pending"
    BY <1>3, <1>12, <2>1, <2>3 DEF byId
  <2> QED BY <2>2, <2>3
<1>13. ASSUME NEW s \in Shot, byIdFails(s) PROVE BoardInv'
  BY <1>3, <1>13 DEF byIdFails, serverVars
<1>14. CASE goHome
  <2>1. /\ UNCHANGED <<row, upload, shown>> /\ page' = Home
        /\ board' = IF board.fresh THEN board ELSE [fresh |-> TRUE, behind |-> {s \in Filed : row[s].status # "pending"}]
    BY <1>14 DEF goHome, serverVars
  <2>2. board'.fresh => shown \subseteq board'.behind
    BY <1>1, <2>1 DEF Filed
  <2> QED BY <1>1, <2>1, <2>2
<1>15. CASE boardAges
  BY <1>1, <1>15 DEF boardAges, Stale, serverVars
<1>16. CASE openScanner
  BY <1>1, <1>16 DEF openScanner, serverVars
<1>17. ASSUME NEW m \in 1 .. MaxMounts, NEW granted \in BOOLEAN, startCamera(m, granted) PROVE BoardInv'
  BY <1>3, <1>17 DEF startCamera, serverVars, resultVars
<1>18. ASSUME NEW loaded \in BOOLEAN, videoLoads(loaded) PROVE BoardInv'
  BY <1>3, <1>18 DEF videoLoads, serverVars, resultVars
<1>19. CASE retry \/ TokenArrives \/ TokenExpires \/ DayTurns
  BY <1>3, <1>19 DEF retry, TokenArrives, TokenExpires, DayTurns, serverVars, resultVars
<1>20. CASE UNCHANGED scanVars
  BY <1>3, <1>20 DEF scanVars, serverVars, resultVars
<1> QED BY <1>4, <1>5, <1>6, <1>7, <1>8, <1>9, <1>10, <1>11, <1>12, <1>13, <1>14, <1>15, <1>16, <1>17, <1>18, <1>19, <1>20
        DEF ScanNext, UploadServer, UploadPhone

(* useCameraStream.ts, queries.ts: however the camera screen is left no    *)
(* stream stays on, and fresh prices are behind no verdict already shown.  *)
THEOREM ScannerLetsGo == ScanSpec => []NothingIsLeftOn
<1>1. ScanInit => CameraInv /\ BoardInv
  <2> SUFFICES ASSUME ScanInit PROVE CameraInv /\ BoardInv
    OBVIOUS
  <2>1. \A s \in Shot : upload[s].at = "unused" /\ row[s].status = "none"
    BY DEF ScanInit, Unused, NoRow
  <2>2. page = Home /\ shown = {} /\ \A m \in 1 .. MaxMounts : stream[m] = "none"
    BY DEF ScanInit
  <2> QED BY <2>1, <2>2, PagesDiffer DEF CameraInv, CameraIsReleased, BoardInv, BoardFollowsScan
<1>2. ScanType /\ CameraInv /\ BoardInv /\ [ScanNext]_scanVars => CameraInv' /\ BoardInv'
  BY CameraKept, BoardKept
<1>3. CameraInv /\ BoardInv => NothingIsLeftOn
  BY DEF CameraInv, BoardInv, NothingIsLeftOn
<1> QED BY <1>1, <1>2, <1>3, ScanTypes, PTL DEF ScanSpec

-----------------------------------------------------------------------------
(* The tokens: the one on the screen was posted with no shot, as long as   *)
(* nothing is under review.                                                *)

TokenInv ==
    /\ \A s \in Shot : upload[s].token # Nothing => upload[s].token \in 1 .. tokens
    /\ scanner.turnstileToken # Nothing => scanner.turnstileToken \in 1 .. tokens
    /\ scanner.turnstileToken # Nothing /\ ~ scanner.isReviewing =>
          \A s \in Shot : upload[s].token # scanner.turnstileToken
    /\ TokensAreSpentOnce

LEMMA TokenKept ==
  ASSUME ScanType, TokenInv, [ScanNext]_scanVars
  PROVE  TokenInv'
<1> USE DEF TokenInv, TokensAreSpentOnce
<1>1. upload \in [Shot -> Uploads] /\ scanner \in Scanners /\ tokens \in Nat
  BY DEF ScanType, ServerTyped, CameraTyped
<1>2. ASSUME \A s \in Shot : upload'[s].token = upload[s].token, UNCHANGED tokens,
             \/ scanner'.turnstileToken = scanner.turnstileToken /\ scanner'.isReviewing = scanner.isReviewing
             \/ scanner'.turnstileToken = Nothing
      PROVE  TokenInv'
  BY <1>2
<1>3. ASSUME NEW s \in Shot, UploadServer(s) \/ AnswerIsLost(s) PROVE TokenInv'
  <2>1. UNCHANGED <<scanner, tokens>>
    BY <1>3 DEF UploadServer, AnswerIsLost, RefuseUpload, AdmitUpload, WeighUpload, FileReceipt, UploadBreaks, cameraVars
  <2>2. \A r \in Shot : upload'[r].token = upload[r].token
    <3>1. CASE RefuseUpload(s) \/ FileReceipt(s) \/ UploadBreaks(s) \/ AnswerIsLost(s)
      BY <1>1, <3>1 DEF AnswerIsLost, RefuseUpload, FileReceipt, UploadBreaks, Upload, Uploads
    <3>2. CASE AdmitUpload(s) \/ WeighUpload(s)
      BY <1>1, <3>2 DEF AdmitUpload, WeighUpload, Upload, Uploads
    <3> QED BY <1>3, <3>1, <3>2 DEF UploadServer
  <2> QED BY <1>2, <2>1, <2>2
<1>4. ASSUME NEW s \in Shot, NEW blob \in BOOLEAN, getFile(s, blob) PROVE TokenInv'
  BY <1>1, <1>2, <1>4 DEF getFile, Upload, Uploads, cameraVars
<1>5. ASSUME NEW s \in Shot, uploadFails(s) PROVE TokenInv'
  <2>1. UNCHANGED tokens /\ scanner' = Recovered(upload[s].mount) /\ \A r \in Shot : upload'[r].token = upload[r].token
    BY <1>1, <1>5 DEF uploadFails, Upload, Uploads
  <2>2. \/ scanner' = scanner
        \/ scanner'.turnstileToken = Nothing
    BY <1>1, <2>1 DEF Recovered, Scanners
  <2> QED BY <1>2, <2>1, <2>2
<1>6. LeaveCamera => scanner' = scanner \/ scanner'.turnstileToken = Nothing
  BY DEF LeaveCamera, Closed
<1>7. ASSUME NEW s \in Shot, uploadSucceeds(s) PROVE TokenInv'
  <2>1. UNCHANGED tokens /\ LeaveCamera /\ \A r \in Shot : upload'[r].token = upload[r].token
    BY <1>1, <1>7 DEF uploadSucceeds, Upload, Uploads
  <2> QED BY <1>2, <1>6, <2>1
<1>8. ASSUME NEW s \in Shot, handleCapture(s) PROVE TokenInv'
  <2>1. /\ UNCHANGED tokens /\ scanner'.isReviewing /\ scanner'.turnstileToken = scanner.turnstileToken
        /\ ~ scanner.isReviewing /\ scanner.turnstileToken # Nothing
        /\ upload'[s].token = scanner.turnstileToken /\ \A r \in Shot \ {s} : upload'[r] = upload[r]
    <3>1. upload[s] \in Uploads
      BY <1>1
    <3>2. PICK x : x = [upload[s] EXCEPT !.at = "drawn", !.mount = mount, !.token = scanner.turnstileToken]
      OBVIOUS
    <3>3. x.token = scanner.turnstileToken
      BY <3>1, <3>2 DEF Uploads
    <3>4. upload' = [upload EXCEPT ![s] = x]
      BY <1>8, <3>2 DEF handleCapture
    <3>5. scanner' = [scanner EXCEPT !.isReviewing = TRUE] /\ ~ scanner.isReviewing /\ scanner.turnstileToken # Nothing /\ UNCHANGED tokens
      BY <1>8 DEF handleCapture
    <3> QED BY <1>1, <3>3, <3>4, <3>5 DEF Scanners
  <2> QED BY <1>1, <2>1
<1>9. CASE TokenArrives
  <2>1. /\ tokens' = tokens + 1 /\ UNCHANGED upload /\ scanner'.turnstileToken = tokens + 1
    BY <1>1, <1>9 DEF TokenArrives, Scanners
  <2> QED BY <1>1, <2>1
<1>10. CASE TokenExpires
  BY <1>1, <1>2, <1>10 DEF TokenExpires, Scanners
<1>11. ASSUME NEW m \in 1 .. MaxMounts, NEW granted \in BOOLEAN, startCamera(m, granted) PROVE TokenInv'
  BY <1>1, <1>2, <1>11 DEF startCamera, Scanners
<1>12. ASSUME NEW loaded \in BOOLEAN, videoLoads(loaded) PROVE TokenInv'
  BY <1>1, <1>2, <1>12 DEF videoLoads, Scanners
<1>13. CASE retry
  BY <1>1, <1>2, <1>13 DEF retry, Scanners
<1>14. CASE openScanner
  BY <1>2, <1>14 DEF openScanner, Closed
<1>15. CASE goHome
  BY <1>2, <1>6, <1>15 DEF goHome
<1>16. UNCHANGED <<upload, scanner, tokens>> => TokenInv'
  OBVIOUS
<1>17. ASSUME NEW s \in Shot, byId(s) \/ byIdFails(s) PROVE TokenInv'
  BY <1>16, <1>17 DEF byId, byIdFails, cameraVars
<1>18. ASSUME NEW s \in Shot, NEW verdict \in {"claimable", "rejected"}, SettleReceipt(s, verdict) PROVE TokenInv'
  BY <1>16, <1>18 DEF SettleReceipt, cameraVars
<1>19. CASE boardAges \/ DayTurns \/ UNCHANGED scanVars
  BY <1>16, <1>19 DEF boardAges, DayTurns, scanVars, cameraVars
<1> QED BY <1>3, <1>4, <1>5, <1>7, <1>8, <1>9, <1>10, <1>11, <1>12, <1>13, <1>14, <1>15, <1>17, <1>18, <1>19
        DEF ScanNext, UploadPhone

-----------------------------------------------------------------------------
(* The caps.  While uploads come one after the other, the one under way    *)
(* was weighed against every receipt there is, and none is of a later day. *)

OnDay(d) == {s \in Filed : row[s].day = d}
InWeek(d) == {s \in Filed : WeekOf(row[s].day) = WeekOf(d)}
PaidInWeek(d) == {s \in Filed : WeekOf(row[s].day) = WeekOf(d) /\ row[s].points # -1}

(* What an upload under way was weighed against.                           *)
Fits(s) ==
    /\ \A r \in Filed : row[r].day <= upload[s].day
    /\ dailyScanCount(upload[s].day) < DAILY_UPLOAD_LIMIT
    /\ upload[s].at = "weighed" /\ upload[s].points # -1 =>
          weeklyScanCount(upload[s].day) < WEEKLY_POINT_ELIGIBLE_LIMIT

Caps == \A d \in Nat : /\ dailyScanCount(d) <= DAILY_UPLOAD_LIMIT
                       /\ Cardinality(PaidInWeek(d)) <= WEEKLY_POINT_ELIGIBLE_LIMIT

CapInv ==
    /\ IsFiniteSet(Filed)
    /\ \A s \in Filed : row[s].day <= today
    /\ \A s \in UnderWay : upload[s].day <= today /\ s \notin Filed
    /\ ~ crossed => (\A s, r \in UnderWay : s = r) /\ (\A s \in UnderWay : Fits(s)) /\ Caps

LEMMA WeeksInOrder ==
  /\ \A d \in Nat : WeekOf(d) \in Nat
  /\ \A d, e \in Nat : d <= e => WeekOf(d) <= WeekOf(e)
BY ScannerAssumption DEF WeekOf

(* A subset of one more than a small set.                                  *)
LEMMA OneMore ==
  ASSUME NEW S, NEW T, NEW x, IsFiniteSet(S), T \subseteq S \cup {x}
  PROVE  /\ IsFiniteSet(T) /\ Cardinality(T) \in Nat /\ Cardinality(S) \in Nat
         /\ Cardinality(T) <= Cardinality(S) + 1
         /\ x \notin T => Cardinality(T) <= Cardinality(S)
         /\ S = {} => Cardinality(T) <= 1
<1>1. IsFiniteSet(S \cup {x}) /\ Cardinality(S \cup {x}) <= Cardinality(S) + 1 /\ Cardinality(S) \in Nat
  BY FS_AddElement, FS_CardinalityType
<1>2. IsFiniteSet(T) /\ Cardinality(T) <= Cardinality(S \cup {x}) /\ Cardinality(T) \in Nat /\ Cardinality(S \cup {x}) \in Nat
  BY <1>1, FS_Subset, FS_CardinalityType
<1>3. x \notin T => Cardinality(T) <= Cardinality(S)
  BY FS_Subset
<1>4. S = {} => Cardinality(T) <= 1
  BY <1>1, <1>2, FS_EmptySet
<1> QED BY <1>1, <1>2, <1>3, <1>4

(* A step that files nothing and lets no new upload in.                    *)
LEMMA CapFrame ==
  ASSUME ScanType, CapInv, today' >= today, today' \in Nat, crossed' = crossed, Filed' = Filed,
         \A s \in Filed : row'[s].day = row[s].day /\ row'[s].points = row[s].points,
         UnderWay' \subseteq UnderWay, \A s \in UnderWay' : upload'[s] = upload[s]
  PROVE  CapInv'
<1>1. /\ \A d \in Nat : dailyScanCount(d)' = dailyScanCount(d) /\ weeklyScanCount(d)' = weeklyScanCount(d)
      /\ \A d \in Nat : PaidInWeek(d)' = PaidInWeek(d)
  <2>1. ASSUME NEW d \in Nat
        PROVE  /\ {s \in Filed' : row'[s].day = d} = {s \in Filed : row[s].day = d}
               /\ {s \in Filed' : WeekOf(row'[s].day) = WeekOf(d)} = {s \in Filed : WeekOf(row[s].day) = WeekOf(d)}
               /\ {s \in Filed' : WeekOf(row'[s].day) = WeekOf(d) /\ row'[s].points # -1} = PaidInWeek(d)
    BY DEF PaidInWeek
  <2> QED BY <2>1 DEF dailyScanCount, weeklyScanCount, PaidInWeek
<1>2. (\A s \in Filed : row[s].day \in Nat) /\ today \in Nat /\ \A s \in UnderWay : upload[s].day \in Nat
  BY DEF ScanType, ServerTyped, Rows, Uploads, Filed, UnderWay
<1>3. IsFiniteSet(Filed)' /\ (\A s \in Filed : row[s].day <= today)'
  BY <1>2 DEF CapInv
<1>4. (\A s \in UnderWay : upload[s].day <= today /\ s \notin Filed)'
  BY <1>2 DEF CapInv
<1>5. ASSUME ~ crossed, NEW s \in UnderWay' PROVE Fits(s)'
  <2>1. upload'[s] = upload[s] /\ s \in UnderWay
    OBVIOUS
  <2>2. PICK d \in Nat : d = upload[s].day
    BY <1>2, <2>1
  <2>3. dailyScanCount(d)' = dailyScanCount(d) /\ weeklyScanCount(d)' = weeklyScanCount(d)
    BY <1>1
  <2>4. dailyScanCount(upload[s].day)' = dailyScanCount(upload[s].day) /\ weeklyScanCount(upload[s].day)' = weeklyScanCount(upload[s].day)
    BY <2>1, <2>2, <2>3 DEF dailyScanCount, weeklyScanCount
  <2>5. Fits(s)
    BY <1>5, <2>1 DEF CapInv
  <2> QED BY <2>1, <2>4, <2>5 DEF Fits
<1>6. ~ crossed => (\A s, r \in UnderWay : s = r)'
  BY DEF CapInv
<1>7. ~ crossed => Caps'
  BY <1>1 DEF CapInv, Caps
<1>8. ~ crossed => (\A s \in UnderWay : Fits(s))'
  BY <1>5
<1> QED BY <1>3, <1>4, <1>6, <1>7, <1>8 DEF CapInv

LEMMA CountsAreCounts ==
  ASSUME CapInv
  PROVE  \A d \in Nat : /\ IsFiniteSet(OnDay(d)) /\ IsFiniteSet(InWeek(d)) /\ IsFiniteSet(PaidInWeek(d))
                        /\ dailyScanCount(d) = Cardinality(OnDay(d)) /\ dailyScanCount(d) \in Nat
                        /\ weeklyScanCount(d) = Cardinality(InWeek(d)) /\ weeklyScanCount(d) \in Nat
                        /\ Cardinality(PaidInWeek(d)) \in Nat /\ Cardinality(PaidInWeek(d)) <= weeklyScanCount(d)
<1> SUFFICES ASSUME NEW d \in Nat
             PROVE  /\ IsFiniteSet(OnDay(d)) /\ IsFiniteSet(InWeek(d)) /\ IsFiniteSet(PaidInWeek(d))
                    /\ dailyScanCount(d) = Cardinality(OnDay(d)) /\ dailyScanCount(d) \in Nat
                    /\ weeklyScanCount(d) = Cardinality(InWeek(d)) /\ weeklyScanCount(d) \in Nat
                    /\ Cardinality(PaidInWeek(d)) \in Nat /\ Cardinality(PaidInWeek(d)) <= weeklyScanCount(d)
  OBVIOUS
<1>1. IsFiniteSet(Filed) /\ OnDay(d) \subseteq Filed /\ InWeek(d) \subseteq Filed /\ PaidInWeek(d) \subseteq InWeek(d)
  BY DEF CapInv, OnDay, InWeek, PaidInWeek
<1>2. IsFiniteSet(OnDay(d)) /\ IsFiniteSet(InWeek(d))
  BY <1>1, FS_Subset
<1>3. IsFiniteSet(PaidInWeek(d)) /\ Cardinality(PaidInWeek(d)) <= Cardinality(InWeek(d))
  BY <1>1, <1>2, FS_Subset
<1>4. Cardinality(OnDay(d)) \in Nat /\ Cardinality(InWeek(d)) \in Nat /\ Cardinality(PaidInWeek(d)) \in Nat
  BY <1>2, <1>3, FS_CardinalityType
<1>5. dailyScanCount(d) = Cardinality(OnDay(d)) /\ weeklyScanCount(d) = Cardinality(InWeek(d))
  BY DEF dailyScanCount, weeklyScanCount, OnDay, InWeek
<1> QED BY <1>2, <1>3, <1>4, <1>5

(* The cap is read when the upload is admitted, the week when it is stored.*)
LEMMA AdmitKeepsCaps ==
  ASSUME ScanType, CapInv, BoardInv, NEW s \in Shot, AdmitUpload(s)
  PROVE  CapInv'
<1>1. UNCHANGED <<row, today>> /\ upload \in [Shot -> Uploads] /\ today \in Nat /\ crossed \in BOOLEAN
  BY DEF AdmitUpload, serverVars, ScanType, ServerTyped
<1>2. Filed' = Filed /\ s \notin UnderWay
  BY <1>1 DEF Filed, AdmitUpload, UnderWay
<1>3. s \notin Filed
  BY DEF AdmitUpload, BoardInv, Filed
<1>4. CASE UnderTheCap(today)
  <2>1. /\ upload'[s].at = "admitted" /\ upload'[s].day = today /\ \A r \in Shot \ {s} : upload'[r] = upload[r]
        /\ crossed' = (crossed \/ UnderWay # {})
    BY <1>1, <1>4 DEF AdmitUpload, Uploads
  <2>2. UnderWay' = UnderWay \cup {s}
    BY <1>2, <2>1 DEF UnderWay
  <2>3. IsFiniteSet(Filed)' /\ (\A r \in Filed : row[r].day <= today)'
    BY <1>1, <1>2 DEF CapInv
  <2>4. (\A r \in UnderWay : upload[r].day <= today /\ r \notin Filed)'
    <3>1. \A r \in UnderWay : r # s /\ r \in Shot
      BY <1>2 DEF UnderWay
    <3> QED BY <1>1, <1>2, <1>3, <2>1, <2>2, <3>1 DEF CapInv
  <2>5. ASSUME ~ crossed' PROVE (\A r, q \in UnderWay : r = q)' /\ (\A r \in UnderWay : Fits(r))' /\ Caps'
    <3>1. ~ crossed /\ UnderWay' = {s}
      BY <2>1, <2>2, <2>5
    <3>2. Caps'
      BY <1>1, <1>2, <3>1 DEF CapInv, Caps, dailyScanCount, PaidInWeek
    <3>3. dailyScanCount(upload[s].day)' = dailyScanCount(today)
      BY <1>1, <1>2, <2>1 DEF dailyScanCount
    <3>4. dailyScanCount(today) < DAILY_UPLOAD_LIMIT
      BY <1>4 DEF UnderTheCap
    <3>5. Fits(s)'
      BY <1>1, <1>2, <2>1, <3>3, <3>4 DEF Fits, CapInv
    <3> QED BY <3>1, <3>2, <3>5
  <2> QED BY <2>3, <2>4, <2>5 DEF CapInv
<1>5. CASE ~ UnderTheCap(today)
  <2>1. upload' = [upload EXCEPT ![s].at = "refused"] /\ UNCHANGED crossed
    BY <1>5 DEF AdmitUpload, Upload
  <2>2. UnderWay' \subseteq UnderWay /\ \A r \in UnderWay' : upload'[r] = upload[r]
    BY <1>1, <2>1 DEF UnderWay, Uploads
  <2> QED BY <1>1, <1>2, <2>1, <2>2, CapFrame
<1> QED BY <1>4, <1>5

LEMMA WeighKeepsCaps ==
  ASSUME ScanType, CapInv, NEW s \in Shot, WeighUpload(s)
  PROVE  CapInv'
<1>1. UNCHANGED <<row, today, crossed>> /\ upload \in [Shot -> Uploads] /\ today \in Nat
  BY DEF WeighUpload, serverVars, ScanType, ServerTyped
<1>2. Filed' = Filed /\ s \in UnderWay /\ upload[s].day \in Nat
  BY <1>1 DEF Filed, WeighUpload, UnderWay, Uploads
<1>3. PICK p : /\ p = IF weeklyScanCount(upload[s].day) >= WEEKLY_POINT_ELIGIBLE_LIMIT THEN -1 ELSE 0
               /\ upload' = [upload EXCEPT ![s].at = "weighed", ![s].points = p]
  BY DEF WeighUpload
<1>4. /\ upload'[s].at = "weighed" /\ upload'[s].day = upload[s].day /\ upload'[s].points = p
      /\ \A r \in Shot \ {s} : upload'[r] = upload[r]
  BY <1>1, <1>3 DEF Uploads
<1>5. UnderWay' = UnderWay
  BY <1>2, <1>4 DEF UnderWay
<1>6. IsFiniteSet(Filed)' /\ (\A r \in Filed : row[r].day <= today)'
  BY <1>1, <1>2 DEF CapInv
<1>7. (\A r \in UnderWay : upload[r].day <= today /\ r \notin Filed)'
  <2>1. \A r \in UnderWay : upload'[r].day = upload[r].day
    BY <1>4 DEF UnderWay
  <2> QED BY <1>1, <1>2, <1>5, <2>1 DEF CapInv
<1>8. ASSUME ~ crossed PROVE (\A r, q \in UnderWay : r = q)' /\ (\A r \in UnderWay : Fits(r))' /\ Caps'
  <2>1. UnderWay = {s} /\ Fits(s)
    BY <1>2, <1>8 DEF CapInv
  <2>2. Caps'
    BY <1>1, <1>2, <1>8 DEF CapInv, Caps, dailyScanCount, PaidInWeek
  <2>3. /\ dailyScanCount(upload[s].day)' = dailyScanCount(upload[s].day)
        /\ weeklyScanCount(upload[s].day)' = weeklyScanCount(upload[s].day)
    BY <1>1, <1>2, <1>4 DEF dailyScanCount, weeklyScanCount
  <2>4. p # -1 => weeklyScanCount(upload[s].day) < WEEKLY_POINT_ELIGIBLE_LIMIT
    BY <1>2, <1>3, CountsAreCounts, ScannerAssumption
  <2>5. Fits(s)'
    BY <1>1, <1>2, <1>4, <2>1, <2>3, <2>4 DEF Fits
  <2> QED BY <1>5, <2>1, <2>2, <2>5
<1> QED BY <1>1, <1>5, <1>6, <1>7, <1>8 DEF CapInv

(* The receipt is filed under the day the statement runs, which may be a   *)
(* later one than the upload was weighed on.                               *)
LEMMA FileKeepsCaps ==
  ASSUME ScanType, CapInv, NEW s \in Shot, FileReceipt(s)
  PROVE  CapInv'
<1>1. /\ UNCHANGED <<today, crossed>> /\ today \in Nat /\ upload \in [Shot -> Uploads] /\ row \in [Shot -> Rows]
      /\ \A r \in Filed : row[r].day \in Nat
  BY DEF FileReceipt, ScanType, ServerTyped, Filed, Rows
<1>2. s \in UnderWay /\ s \notin Filed /\ upload[s].day <= today
  BY DEF FileReceipt, UnderWay, CapInv
<1>3. PICK u \in Nat : u = upload[s].day
  BY <1>1 DEF Uploads
<1>4. /\ row'[s].status = "pending" /\ row'[s].day = today /\ row'[s].points = upload[s].points
      /\ \A r \in Shot \ {s} : row'[r] = row[r]
  BY <1>1 DEF FileReceipt
<1>5. upload'[s].at = "filed" /\ \A r \in Shot \ {s} : upload'[r] = upload[r]
  BY <1>1 DEF FileReceipt, Upload, Uploads
<1>6. Filed' = Filed \cup {s} /\ \A r \in Filed : row'[r] = row[r]
  BY <1>2, <1>4 DEF Filed
<1>7. UnderWay' = UnderWay \ {s}
  BY <1>5 DEF UnderWay
<1>8. IsFiniteSet(Filed)'
  BY <1>6, FS_AddElement DEF CapInv
<1>9. (\A r \in Filed : row[r].day <= today)'
  BY <1>1, <1>4, <1>6 DEF CapInv
<1>10. (\A r \in UnderWay : upload[r].day <= today /\ r \notin Filed)'
  <2>1. \A r \in UnderWay' : r # s /\ upload'[r] = upload[r]
    BY <1>5, <1>7 DEF UnderWay
  <2> QED BY <1>1, <1>6, <1>7, <2>1 DEF CapInv
<1>11. ASSUME ~ crossed PROVE (\A r, q \in UnderWay : r = q)' /\ (\A r \in UnderWay : Fits(r))' /\ Caps'
  <2>1. UnderWay' = {} /\ Fits(s) /\ Caps
    BY <1>2, <1>7, <1>11 DEF CapInv
  <2>2. \A r \in Filed : row[r].day <= u
    BY <1>3, <2>1 DEF Fits
  <2>3. DAILY_UPLOAD_LIMIT \in Nat /\ DAILY_UPLOAD_LIMIT >= 1 /\ WEEKLY_POINT_ELIGIBLE_LIMIT \in Nat /\ WEEKLY_POINT_ELIGIBLE_LIMIT >= 1
    BY ScannerAssumption
  <2>4. ASSUME NEW d \in Nat PROVE (dailyScanCount(d) <= DAILY_UPLOAD_LIMIT)'
    <3>1. PICK T : T = {r \in Filed' : row'[r].day = d}
      OBVIOUS
    <3>2. dailyScanCount(d)' = Cardinality(T)
      BY <3>1 DEF dailyScanCount
    <3>3. T \subseteq OnDay(d) \cup {s} /\ (s \in T => d = today)
      BY <1>4, <1>6, <3>1 DEF OnDay
    <3>4. IsFiniteSet(OnDay(d)) /\ Cardinality(OnDay(d)) \in Nat /\ Cardinality(OnDay(d)) <= DAILY_UPLOAD_LIMIT
      BY <2>1, CountsAreCounts DEF Caps
    <3>5. d = today /\ u = today => Cardinality(OnDay(d)) < DAILY_UPLOAD_LIMIT
      BY <1>3, <2>1, CountsAreCounts DEF Fits
    <3>6. d = today /\ u # today => OnDay(d) = {}
      BY <1>1, <1>2, <1>3, <2>2 DEF OnDay
    <3>7. /\ Cardinality(T) \in Nat /\ Cardinality(T) <= Cardinality(OnDay(d)) + 1
          /\ s \notin T => Cardinality(T) <= Cardinality(OnDay(d))
          /\ OnDay(d) = {} => Cardinality(T) <= 1
      BY <3>3, <3>4, OneMore
    <3> QED BY <2>3, <3>2, <3>3, <3>4, <3>5, <3>6, <3>7
  <2>5. ASSUME NEW d \in Nat PROVE (Cardinality(PaidInWeek(d)) <= WEEKLY_POINT_ELIGIBLE_LIMIT)'
    <3>1. PICK T : T = {r \in Filed' : WeekOf(row'[r].day) = WeekOf(d) /\ row'[r].points # -1}
      OBVIOUS
    <3>2. Cardinality(PaidInWeek(d))' = Cardinality(T)
      BY <3>1 DEF PaidInWeek
    <3>3. T \subseteq PaidInWeek(d) \cup {s} /\ (s \in T => WeekOf(d) = WeekOf(today) /\ upload[s].points # -1)
      BY <1>4, <1>6, <3>1 DEF PaidInWeek
    <3>4. /\ IsFiniteSet(PaidInWeek(d)) /\ Cardinality(PaidInWeek(d)) \in Nat
          /\ Cardinality(PaidInWeek(d)) <= WEEKLY_POINT_ELIGIBLE_LIMIT
      BY <2>1, CountsAreCounts DEF Caps
    <3>5. /\ Cardinality(T) \in Nat /\ Cardinality(T) <= Cardinality(PaidInWeek(d)) + 1
          /\ s \notin T => Cardinality(T) <= Cardinality(PaidInWeek(d))
          /\ PaidInWeek(d) = {} => Cardinality(T) <= 1
      BY <3>3, <3>4, OneMore
    <3>6. CASE s \in T /\ WeekOf(u) = WeekOf(today)
      <4>1. weeklyScanCount(u) < WEEKLY_POINT_ELIGIBLE_LIMIT
        BY <1>3, <2>1, <3>3, <3>6 DEF Fits, FileReceipt
      <4>2. weeklyScanCount(d) = weeklyScanCount(u)
        BY <3>3, <3>6 DEF weeklyScanCount
      <4>3. Cardinality(PaidInWeek(d)) <= weeklyScanCount(d) /\ weeklyScanCount(d) \in Nat
        BY CountsAreCounts
      <4> QED BY <2>3, <3>2, <3>4, <3>5, <4>1, <4>2, <4>3
    <3>7. CASE s \in T /\ WeekOf(u) # WeekOf(today)
      <4>1. WeekOf(u) < WeekOf(today)
        BY <1>1, <1>2, <1>3, <3>7, WeeksInOrder
      <4>2. \A r \in Filed : WeekOf(row[r].day) \in Nat /\ WeekOf(row[r].day) <= WeekOf(u)
        BY <1>1, <2>2, WeeksInOrder
      <4>3. PaidInWeek(d) = {}
        <5>1. WeekOf(d) = WeekOf(today) /\ WeekOf(u) \in Nat /\ WeekOf(today) \in Nat
          BY <1>1, <3>3, <3>7, WeeksInOrder
        <5> QED BY <4>1, <4>2, <5>1 DEF PaidInWeek
      <4> QED BY <2>3, <3>2, <3>5, <4>3
    <3>8. CASE s \notin T
      BY <2>3, <3>2, <3>4, <3>5, <3>8
    <3> QED BY <3>6, <3>7, <3>8
  <2> QED BY <2>1, <2>4, <2>5 DEF Caps
<1> QED BY <1>1, <1>8, <1>9, <1>10, <1>11 DEF CapInv

LEMMA CapKept ==
  ASSUME ScanType, CapInv, BoardInv, [ScanNext]_scanVars
  PROVE  CapInv'
<1>1. upload \in [Shot -> Uploads] /\ row \in [Shot -> Rows] /\ today \in Nat
  BY DEF ScanType, ServerTyped
<1>2. ASSUME UNCHANGED <<today, row, crossed>>, UnderWay' \subseteq UnderWay, \A s \in UnderWay' : upload'[s] = upload[s]
      PROVE  CapInv'
  BY <1>1, <1>2, CapFrame DEF Filed
<1>3. UNCHANGED <<today, row, crossed, upload>> => CapInv'
  BY <1>2 DEF UnderWay
<1>4. ASSUME NEW s \in Shot, NEW a, upload[s].at # a, a \notin {"admitted", "weighed"},
             upload' = [upload EXCEPT ![s].at = a], UNCHANGED <<today, row, crossed>>
      PROVE  CapInv'
  <2>1. upload'[s].at = a /\ \A r \in Shot \ {s} : upload'[r] = upload[r]
    BY <1>1, <1>4 DEF Uploads
  <2>2. UnderWay' \subseteq UnderWay /\ \A r \in UnderWay' : upload'[r] = upload[r]
    BY <1>4, <2>1 DEF UnderWay
  <2> QED BY <1>2, <1>4, <2>2
<1>5. ASSUME NEW s \in Shot, RefuseUpload(s) \/ UploadBreaks(s) \/ AnswerIsLost(s) PROVE CapInv'
  BY <1>4, <1>5 DEF RefuseUpload, UploadBreaks, AnswerIsLost, UnderWay, Upload, serverVars
<1>6. ASSUME NEW s \in Shot, AdmitUpload(s) \/ WeighUpload(s) \/ FileReceipt(s) PROVE CapInv'
  BY <1>6, AdmitKeepsCaps, WeighKeepsCaps, FileKeepsCaps
<1>7. ASSUME NEW s \in Shot, NEW blob \in BOOLEAN, getFile(s, blob) PROVE CapInv'
  <2>1. PICK a : a = IF blob THEN "posted" ELSE "blank"
    OBVIOUS
  <2>2. upload[s].at # a /\ a \notin {"admitted", "weighed"} /\ upload' = [upload EXCEPT ![s].at = a]
        /\ UNCHANGED <<today, row, crossed>>
    BY <1>7, <2>1 DEF getFile, Upload, serverVars
  <2> QED BY <1>4, <2>2
<1>8. ASSUME NEW s \in Shot, uploadFails(s) \/ uploadSucceeds(s) PROVE CapInv'
  BY <1>4, <1>8 DEF uploadFails, uploadSucceeds, Upload, serverVars
<1>9. ASSUME NEW s \in Shot, handleCapture(s) PROVE CapInv'
  <2>1. UNCHANGED <<today, row, crossed>> /\ upload'[s].at = "drawn" /\ \A r \in Shot \ {s} : upload'[r] = upload[r]
    BY <1>1, <1>9 DEF handleCapture, serverVars, Uploads
  <2>2. UnderWay' \subseteq UnderWay /\ \A r \in UnderWay' : upload'[r] = upload[r]
    BY <2>1 DEF UnderWay
  <2> QED BY <1>2, <2>1, <2>2
<1>10. ASSUME NEW s \in Shot, NEW verdict \in {"claimable", "rejected"}, SettleReceipt(s, verdict) PROVE CapInv'
  <2>1. /\ UNCHANGED <<today, crossed, upload>> /\ row[s].status = "pending" /\ row'[s].status = verdict
        /\ row'[s].day = row[s].day /\ row'[s].points = row[s].points /\ \A r \in Shot \ {s} : row'[r] = row[r]
    BY <1>1, <1>10 DEF SettleReceipt, Rows
  <2>2. Filed' = Filed /\ UnderWay' = UnderWay
    BY <2>1 DEF Filed, UnderWay
  <2>3. \A r \in Filed : row'[r].day = row[r].day /\ row'[r].points = row[r].points
    BY <2>1 DEF Filed
  <2> QED BY <1>1, <2>1, <2>2, <2>3, CapFrame
<1>11. CASE DayTurns
  <2>1. UNCHANGED <<row, upload, crossed>> /\ today' = today + 1
    BY <1>11 DEF DayTurns
  <2>2. Filed' = Filed /\ UnderWay' = UnderWay
    BY <2>1 DEF Filed, UnderWay
  <2> QED BY <1>1, <2>1, <2>2, CapFrame
<1>12. ASSUME NEW s \in Shot, byId(s) \/ byIdFails(s) PROVE CapInv'
  BY <1>3, <1>12 DEF byId, byIdFails, serverVars
<1>13. ASSUME NEW m \in 1 .. MaxMounts, NEW granted \in BOOLEAN, startCamera(m, granted) PROVE CapInv'
  BY <1>3, <1>13 DEF startCamera, serverVars
<1>14. ASSUME NEW loaded \in BOOLEAN, videoLoads(loaded) PROVE CapInv'
  BY <1>3, <1>14 DEF videoLoads, serverVars
<1>15. CASE openScanner \/ retry \/ TokenArrives \/ TokenExpires
  BY <1>3, <1>15 DEF openScanner, retry, TokenArrives, TokenExpires, serverVars
<1>16. CASE goHome \/ boardAges \/ UNCHANGED scanVars
  BY <1>3, <1>16 DEF goHome, boardAges, scanVars, serverVars
<1> QED BY <1>5, <1>6, <1>7, <1>8, <1>9, <1>10, <1>11, <1>12, <1>13, <1>14, <1>15, <1>16 DEF ScanNext, UploadServer, UploadPhone

(* receipt.ts 39-43, CameraScan.tsx: while uploads come one after the      *)
(* other a day takes no more of them than its cap and a week pays no more  *)
(* than its budget, also over a midnight; no CAPTCHA token is sent twice.  *)
THEOREM UploadsHold == ScanSpec => []UploadsAddUp
<1>1. ScanInit => CapInv /\ BoardInv /\ TokenInv
  <2> SUFFICES ASSUME ScanInit PROVE CapInv /\ BoardInv /\ TokenInv
    OBVIOUS
  <2>1. \A s \in Shot : upload[s].at = "unused" /\ upload[s].token = Nothing /\ row[s].status = "none"
    BY DEF ScanInit, Unused, NoRow
  <2>2. Filed = {} /\ UnderWay = {}
    BY <2>1 DEF Filed, UnderWay
  <2>3. page = Home /\ shown = {} /\ ~ board.fresh /\ scanner.turnstileToken = Nothing
    BY DEF ScanInit, Stale, Closed
  <2>4. BoardInv
    BY <2>1, <2>3, PagesDiffer DEF BoardInv, BoardFollowsScan
  <2>5. TokenInv
    BY <2>1, <2>3 DEF TokenInv, TokensAreSpentOnce
  <2>6. Caps
    <3>1. \A d \in Nat : /\ {s \in Filed : row[s].day = d} = {} /\ PaidInWeek(d) = {}
      BY <2>2 DEF PaidInWeek
    <3> QED BY <3>1, FS_EmptySet, ScannerAssumption DEF Caps, dailyScanCount
  <2> QED BY <2>2, <2>4, <2>5, <2>6, FS_EmptySet DEF CapInv
<1>2. ScanType /\ CapInv /\ BoardInv /\ TokenInv /\ [ScanNext]_scanVars => CapInv' /\ BoardInv' /\ TokenInv'
  BY CapKept, BoardKept, TokenKept
<1>3. CapInv /\ TokenInv => UploadsAddUp
  <2>1. CapInv => CapsHold
    BY DEF CapInv, Caps, CapsHold, PaidInWeek
  <2> QED BY <2>1 DEF TokenInv, UploadsAddUp
<1> QED BY <1>1, <1>2, <1>3, ScanTypes, PTL DEF ScanSpec

-----------------------------------------------------------------------------
(* The screens that claim points.  Where each paper is: owed, claimed on   *)
(* another device, or in the one call that took it.                        *)

Calls == [at : {"free", "proving", "posted", "settled", "refused", "already claimed", "signing", "over"},
          kind : {"all", "single", "offchain", "onchain"}, visit : Nat, paper : SUBSET Paper, got : SUBSET Paper]

RewardsType ==
    /\ date \in Nat /\ owed \subseteq Paper /\ others \in Seq(SUBSET Paper) /\ opened \in Nat
    /\ call \in [Tap -> Calls] /\ notes \in [Once -> Nat \cup {NeverNoted}]
    /\ offered \subseteq Paper /\ fetch \in [at : {"none", "asked", "served", "failed"}, papers : SUBSET Paper]
    /\ told \subseteq Tap /\ steady \in BOOLEAN

PapersInv ==
    /\ \A c \in Tap : /\ call[c].got \cap owed = {}
                      /\ call[c].at \in {"free", "proving", "posted"} \/ call[c].kind \in Once => call[c].got = {}
    /\ \A c, d \in Tap : c # d => call[c].got \cap call[d].got = {}
    /\ \A p \in Paper : \/ p \in owed
                        \/ \E i \in DOMAIN others : p \in others[i]
                        \/ \E c \in Tap : p \in call[c].got

(* What is reported is over and, where points are minted, was sent.        *)
ToldInv == \A c \in told : /\ call[c].at = "over"
                           /\ call[c].kind \in {"single", "onchain"} => c \in sent

(* A list read since a claim ended does not offer what the claim took.     *)
ListsInv == \A c \in Tap : Alive(c) /\ call[c].at = "over" =>
                /\ fetch.at = "none" => call[c].got \cap offered = {}
                /\ fetch.at = "served" => call[c].got \cap fetch.papers = {}

(* While no midnight fell into a claim, an answer still on its way to the  *)
(* note is about today.                                                    *)
NotesInv ==
    /\ \A k \in Once : notes[k] <= date
    /\ NotesMeanTaken
    /\ steady => \A c \in Tap :
          call[c].kind \in Once /\ call[c].at \in {"settled", "already claimed", "signing"} =>
              <<call[c].kind, date>> \in taken

RewardsInv == PapersInv /\ ToldInv /\ ListsInv /\ NotesInv

LEMMA BecomesDoes ==
  ASSUME call \in [Tap -> Calls], NEW c \in Tap, NEW a, Becomes(c, a)
  PROVE  /\ call'[c].at = a /\ call'[c].kind = call[c].kind /\ call'[c].visit = call[c].visit
         /\ call'[c].paper = call[c].paper /\ call'[c].got = call[c].got
         /\ \A d \in Tap \ {c} : call'[d] = call[d]
         /\ a \in {"free", "proving", "posted", "settled", "refused", "already claimed", "signing", "over"} =>
               call' \in [Tap -> Calls]
BY DEF Becomes, Calls

LEMMA SettlesDoes ==
  ASSUME call \in [Tap -> Calls], NEW c \in Tap, NEW P, Settles(c, P)
  PROVE  /\ call'[c].at = "settled" /\ call'[c].kind = call[c].kind /\ call'[c].visit = call[c].visit
         /\ call'[c].got = P
         /\ \A d \in Tap \ {c} : call'[d] = call[d]
         /\ P \subseteq Paper => call' \in [Tap -> Calls]
<1>1. PICK x : x = [call[c] EXCEPT !.at = "settled", !.got = P]
  OBVIOUS
<1>2. /\ x.at = "settled" /\ x.kind = call[c].kind /\ x.visit = call[c].visit /\ x.got = P
      /\ P \subseteq Paper => x \in Calls
  BY <1>1 DEF Calls
<1>3. call' = [call EXCEPT ![c] = x]
  BY <1>1 DEF Settles
<1> QED BY <1>2, <1>3

LEMMA BeginDoes ==
  ASSUME call \in [Tap -> Calls], opened \in Nat, NEW c \in Tap, NEW h, NEW a \in {"proving", "posted"},
         NEW k \in {"all", "single", "offchain", "onchain"}, NEW P \in SUBSET Paper, Begin(c, h, a, k, P)
  PROVE  /\ call[c].at = "free" /\ call'[c].at = a /\ call'[c].got = {}
         /\ \A d \in Tap \ {c} : call'[d] = call[d]
         /\ call' \in [Tap -> Calls]
         /\ UNCHANGED <<accountVars, tab, opened, notes, cacheVars, sent, told, steady>>
<1>1. [at |-> a, kind |-> k, visit |-> opened, paper |-> P, got |-> {}] \in Calls
  BY DEF Calls
<1> QED BY <1>1 DEF Begin, NextTap

(* A tap begins a call, whatever is tapped.                                *)
LEMMA TapsBegin ==
  ASSUME RewardsType, NEW c \in Tap, claimAll(c) \/ claimDaily(c) \/ \E p \in Paper : claimReceipt(c, p)
  PROVE  \E h \in Hook, a \in {"proving", "posted"}, k \in {"all", "single", "offchain", "onchain"}, P \in SUBSET Paper :
            Begin(c, h, a, k, P)
<1>1. CASE claimAll(c)
  BY <1>1 DEF claimAll, Hook
<1>2. CASE claimDaily(c)
  BY <1>2 DEF claimDaily, Hook
<1>3. ASSUME NEW p \in Paper, claimReceipt(c, p)
      PROVE \E h \in Hook, a \in {"proving", "posted"}, k \in {"all", "single", "offchain", "onchain"}, P \in SUBSET Paper :
            Begin(c, h, a, k, P)
  BY <1>3 DEF claimReceipt, Hook
<1> QED BY <1>1, <1>2, <1>3

(* The ways an answer moves a call on: to its next wait, or to its end.    *)
MovesOn(c) ==
    /\ \E a \in {"posted", "signing"} : Becomes(c, a)
    /\ call[c].at \in {"proving", "settled"} /\ (call[c].at = "proving" => call'[c].at = "posted")
    /\ (call[c].at = "settled" => call'[c].at = "signing")
    /\ UNCHANGED <<accountVars, opened, notes, cacheVars, sent, told, steady>>
Closes(c) ==
    /\ Becomes(c, "over") /\ UNCHANGED <<accountVars, opened, offered, steady>>
    /\ sent \subseteq sent'
    /\ \/ told' = told
       \/ told' = told \cup {c} /\ (call[c].kind \in {"single", "onchain"} => c \in sent')
ClosesClaim(c) == Closes(c) /\ UNCHANGED notes /\ fetch' = AskAgain
ClosesDaily(c) ==
    /\ Closes(c) /\ call[c].kind \in Once /\ (fetch' = fetch \/ fetch' = AskAgain)
    /\ \/ UNCHANGED notes
       \/ /\ notes' = [notes EXCEPT ![call[c].kind] = date]
          /\ call[c].at \in {"settled", "already claimed", "signing"}

LEMMA AnswersDo ==
  ASSUME RewardsType, NEW c \in Tap, Return(c)
  PROVE  MovesOn(c) \/ ClosesClaim(c) \/ ClosesDaily(c)
<1>1. call \in [Tap -> Calls]
  BY DEF RewardsType
<1>2. ASSUME NEW claimed \in BOOLEAN, ClaimEnds(c, claimed), sent \subseteq sent',
             claimed /\ call[c].kind \in {"single", "onchain"} => c \in sent'
      PROVE  ClosesClaim(c)
  BY <1>2 DEF ClaimEnds, ClosesClaim, Closes, Refreshed
<1>3. ASSUME NEW noted \in BOOLEAN, NEW claimed \in BOOLEAN, NEW refetch \in BOOLEAN, DailyEnds(c, noted, claimed, refetch),
             sent \subseteq sent', claimed /\ call[c].kind \in {"single", "onchain"} => c \in sent',
             noted => call[c].at \in {"settled", "already claimed", "signing"}, call[c].kind \in Once
      PROVE  ClosesDaily(c)
  <2>1. Closes(c) /\ (fetch' = fetch \/ fetch' = AskAgain)
    BY <1>3 DEF DailyEnds, Closes, Refreshed
  <2>2. \/ UNCHANGED notes
        \/ /\ notes' = [notes EXCEPT ![call[c].kind] = date]
           /\ call[c].at \in {"settled", "already claimed", "signing"}
    BY <1>3 DEF DailyEnds
  <2> QED BY <1>3, <2>1, <2>2 DEF ClosesDaily
<1>4. CASE verify(c)
  <2>1. CASE Becomes(c, "posted") /\ UNCHANGED accountVars /\ PhoneWaits
    BY <1>1, <1>4, <2>1, BecomesDoes DEF verify, At, MovesOn, PhoneWaits, screenVars
  <2>2. CASE ClaimEnds(c, FALSE) /\ UNCHANGED sent
    BY <1>2, <2>2
  <2> QED BY <1>4, <2>1, <2>2 DEF verify
<1>5. CASE claimAnswered(c)
  <2>1. CASE At(c, "settled") /\ Announces(c) /\ ClaimEnds(c, TRUE)
    BY <1>2, <1>5, <2>1 DEF claimAnswered, Announces
  <2>2. CASE At(c, "refused") /\ ClaimEnds(c, FALSE)
    BY <1>2, <1>5, <2>2 DEF claimAnswered
  <2> QED BY <1>5, <2>1, <2>2 DEF claimAnswered
<1>6. CASE toWallet(c)
  BY <1>1, <1>6, BecomesDoes DEF toWallet, At, MovesOn, PhoneWaits, screenVars
<1>7. CASE dailyAnswered(c)
  <2>1. UNCHANGED sent /\ call[c].kind \in Once
    BY <1>7 DEF dailyAnswered, Daily
  <2>2. CASE At(c, "settled") /\ call[c].kind = "offchain" /\ DailyEnds(c, TRUE, TRUE, TRUE)
    BY <1>3, <2>1, <2>2 DEF At
  <2>3. CASE At(c, "settled") /\ call[c].kind = "onchain" /\ DailyEnds(c, FALSE, FALSE, FALSE)
    BY <1>3, <2>1, <2>3
  <2>4. CASE (At(c, "already claimed") \/ At(c, "refused")) /\ DailyEnds(c, NotedOn(c), FALSE, FALSE)
    <3>1. NotedOn(c) \in BOOLEAN
      BY DEF NotedOn
    <3>2. PICK noted \in BOOLEAN : noted = NotedOn(c)
      BY <3>1
    <3>3. DailyEnds(c, noted, FALSE, FALSE)
      BY <2>4, <3>2
    <3>4. noted => call[c].at \in {"settled", "already claimed", "signing"}
      BY <3>2 DEF NotedOn
    <3> QED BY <1>3, <2>1, <3>3, <3>4
  <2> QED BY <1>7, <2>2, <2>3, <2>4 DEF dailyAnswered
<1>8. ASSUME NEW ok \in BOOLEAN, claimWritten(c, ok) PROVE ClosesClaim(c)
  <2>1. sent \subseteq sent' /\ (ok => c \in sent')
    BY <1>8 DEF claimWritten
  <2> QED BY <1>2, <1>8, <2>1 DEF claimWritten
<1>9. ASSUME NEW ok \in BOOLEAN, dailyWritten(c, ok) PROVE ClosesDaily(c)
  <2>1. sent \subseteq sent' /\ (ok => c \in sent') /\ call[c].kind \in Once
    BY <1>9 DEF dailyWritten, Daily
  <2> QED BY <1>3, <1>9, <2>1 DEF dailyWritten, At
<1> QED BY <1>4, <1>5, <1>6, <1>7, <1>8, <1>9 DEF Return

(* A request ends without being done, or is done in full.                  *)
LEMMA ServerDoes ==
  ASSUME RewardsType, NEW c \in Tap, Serve(c)
  PROVE  /\ UNCHANGED <<opened, notes, cacheVars, sent, told, steady, date, others>>
         /\ \/ /\ Becomes(c, "refused") /\ call[c].at \in {"posted", "settled"} /\ UNCHANGED <<owed, taken>>
            \/ /\ call[c].at = "posted" /\ call[c].kind \notin Once /\ UNCHANGED taken
               /\ \E P \in SUBSET owed : Settles(c, P) /\ owed' = owed \ P
            \/ /\ call[c].at = "posted" /\ call[c].kind \in Once /\ UNCHANGED owed /\ taken \subseteq taken'
               /\ <<call[c].kind, date>> \in taken'
               /\ Becomes(c, "already claimed") \/ Settles(c, {})
<1>1. CASE postClaim(c)
  <2>1. Settles(c, owed) /\ owed' = {} /\ call[c].at = "posted" /\ call[c].kind \notin Once /\ UNCHANGED taken
    BY <1>1 DEF postClaim, At, Once
  <2>2. owed' = owed \ owed
    BY <2>1
  <2>3. UNCHANGED <<opened, notes, cacheVars, sent, told, steady, date, others>>
    BY <1>1 DEF postClaim, PhoneWaits, screenVars
  <2> QED BY <2>1, <2>2, <2>3
<1>2. CASE postClaimSingleCelo(c)
  <2>1. UNCHANGED <<opened, notes, cacheVars, sent, told, steady, date, others>>
    BY <1>2 DEF postClaimSingleCelo, PhoneWaits, screenVars
  <2> QED BY <1>2, <2>1 DEF postClaimSingleCelo, At, Once
<1>3. CASE postClaimDaily(c)
  <2>1. UNCHANGED <<opened, notes, cacheVars, sent, told, steady, date, others>>
    BY <1>3 DEF postClaimDaily, PhoneWaits, screenVars
  <2> QED BY <1>3, <2>1 DEF postClaimDaily, At
<1>4. CASE postFails(c)
  BY <1>4 DEF postFails, PhoneWaits, screenVars, accountVars, At
<1> QED BY <1>1, <1>2, <1>3, <1>4 DEF Serve

LEMMA RewardsTypeKept ==
  ASSUME RewardsType, [RewardsNext]_rewardVars
  PROVE  RewardsType'
<1>0. call \in [Tap -> Calls] /\ opened \in Nat /\ owed \subseteq Paper
  BY DEF RewardsType
<1>1. AskAgain \in [at : {"none", "asked", "served", "failed"}, papers : SUBSET Paper]
      /\ NoFetch \in [at : {"none", "asked", "served", "failed"}, papers : SUBSET Paper]
  BY DEF AskAgain, NoFetch
<1>2. ASSUME NEW t \in {"rewards", "receipts"}, openTab(t) PROVE RewardsType'
  BY <1>1, <1>2 DEF openTab, accountVars, RewardsType
<1>3. CASE reload
  <2>1. call' \in [Tap -> Calls]
    <3>1. \A c \in Tap : [call[c] EXCEPT !.visit = 0] \in Calls
      BY <1>0 DEF Calls
    <3> QED BY <1>3, <3>1 DEF reload
  <2> QED BY <1>1, <1>3, <2>1 DEF reload, accountVars, RewardsType
<1>4. CASE render
  BY <1>4 DEF render, accountVars, cacheVars, RewardsType
<1>5. ASSUME NEW c \in Tap, claimAll(c) \/ claimDaily(c) \/ \E p \in Paper : claimReceipt(c, p) PROVE RewardsType'
  <2>1. PICK h \in Hook, a \in {"proving", "posted"}, k \in {"all", "single", "offchain", "onchain"}, P \in SUBSET Paper :
            Begin(c, h, a, k, P)
    BY <1>5, TapsBegin
  <2>2. call' \in [Tap -> Calls] /\ UNCHANGED <<accountVars, opened, notes, cacheVars, told, steady>>
    BY <1>0, <2>1, BeginDoes
  <2> QED BY <2>2 DEF accountVars, cacheVars, RewardsType
<1>6. ASSUME NEW c \in Tap, Serve(c) PROVE RewardsType'
  <2>1. UNCHANGED <<opened, notes, cacheVars, told, steady, date, others>>
    BY <1>6, ServerDoes
  <2>2. call' \in [Tap -> Calls] /\ owed' \subseteq Paper
    <3>1. CASE Becomes(c, "refused") /\ UNCHANGED owed
      BY <1>0, <3>1, BecomesDoes
    <3>2. ASSUME NEW P \in SUBSET owed, Settles(c, P), owed' = owed \ P
          PROVE  call' \in [Tap -> Calls] /\ owed' \subseteq Paper
      BY <1>0, <3>2, SettlesDoes
    <3>3. CASE (Becomes(c, "already claimed") \/ Settles(c, {})) /\ UNCHANGED owed
      <4>1. Becomes(c, "already claimed") => call' \in [Tap -> Calls]
        BY <1>0, BecomesDoes
      <4>2. {} \subseteq Paper /\ (Settles(c, {}) => call' \in [Tap -> Calls])
        BY <1>0, SettlesDoes
      <4> QED BY <1>0, <3>3, <4>1, <4>2
    <3> QED BY <1>6, <3>1, <3>2, <3>3, ServerDoes
  <2> QED BY <2>1, <2>2 DEF cacheVars, RewardsType
<1>7. ASSUME NEW c \in Tap, Return(c) PROVE RewardsType'
  <2>1. CASE MovesOn(c)
    BY <1>0, <2>1, BecomesDoes DEF MovesOn, accountVars, cacheVars, RewardsType
  <2>2. CASE Closes(c) /\ (fetch' = fetch \/ fetch' = AskAgain)
              /\ notes' \in [Once -> Nat \cup {NeverNoted}]
    BY <1>0, <1>1, <2>2, BecomesDoes DEF Closes, accountVars, RewardsType
  <2>3. CASE ClosesClaim(c)
    BY <2>2, <2>3 DEF ClosesClaim, RewardsType
  <2>4. CASE ClosesDaily(c)
    BY <2>2, <2>4 DEF ClosesDaily, RewardsType
  <2> QED BY <1>7, <2>1, <2>3, <2>4, AnswersDo
<1>8. CASE claimElsewhere
  BY <1>8 DEF claimElsewhere, screenVars, cacheVars, RewardsType
<1>9. ASSUME NEW k \in Once, dailyElsewhere(k) PROVE RewardsType'
  BY <1>9 DEF dailyElsewhere, screenVars, cacheVars, RewardsType
<1>10. CASE statServed
  <2>1. fetch' \in [at : {"none", "asked", "served", "failed"}, papers : SUBSET Paper]
    BY <1>0, <1>10 DEF statServed
  <2> QED BY <1>10, <2>1 DEF statServed, accountVars, screenVars, RewardsType
<1>11. CASE statArrives
  BY <1>1, <1>11 DEF statArrives, accountVars, screenVars, RewardsType
<1>12. CASE statFails
  BY <1>12 DEF statFails, accountVars, screenVars, RewardsType
<1>13. CASE Midnight
  BY <1>13 DEF Midnight, screenVars, cacheVars, RewardsType
<1>14. CASE UNCHANGED rewardVars
  BY <1>14 DEF rewardVars, accountVars, screenVars, cacheVars, RewardsType
<1> QED BY <1>2, <1>3, <1>4, <1>5, <1>6, <1>7, <1>8, <1>9, <1>10, <1>11, <1>12, <1>13, <1>14 DEF RewardsNext

LEMMA PapersKept ==
  ASSUME RewardsType, PapersInv, [RewardsNext]_rewardVars
  PROVE  PapersInv'
<1>1. call \in [Tap -> Calls] /\ owed \subseteq Paper /\ others \in Seq(SUBSET Paper) /\ opened \in Nat
  BY DEF RewardsType
<1>2. ASSUME UNCHANGED <<owed, others>>,
             \A d \in Tap : /\ call'[d].got = call[d].got /\ call'[d].kind = call[d].kind
                            /\ call'[d].at \in {"free", "proving", "posted"} => call'[d].got = {}
      PROVE  PapersInv'
  BY <1>2 DEF PapersInv
<1>3. UNCHANGED <<owed, others, call>> => PapersInv'
  BY <1>2 DEF PapersInv
<1>4. ASSUME NEW t \in {"rewards", "receipts"}, openTab(t) PROVE PapersInv'
  BY <1>3, <1>4 DEF openTab, accountVars
<1>5. CASE reload
  <2>1. \A d \in Tap : call'[d].got = call[d].got /\ call'[d].kind = call[d].kind /\ call'[d].at = call[d].at
    BY <1>1, <1>5 DEF reload, Calls
  <2> QED BY <1>2, <1>5, <2>1 DEF reload, accountVars, PapersInv
<1>6. ASSUME NEW c \in Tap, claimAll(c) \/ claimDaily(c) \/ \E p \in Paper : claimReceipt(c, p) PROVE PapersInv'
  <2>1. PICK h \in Hook, a \in {"proving", "posted"}, k \in {"all", "single", "offchain", "onchain"}, P \in SUBSET Paper :
            Begin(c, h, a, k, P)
    BY <1>6, TapsBegin
  <2>2. /\ call[c].at = "free" /\ call'[c].got = {} /\ \A d \in Tap \ {c} : call'[d] = call[d]
        /\ UNCHANGED <<owed, others>>
    BY <1>1, <2>1, BeginDoes DEF accountVars
  <2>3. call[c].got = {}
    BY <2>2 DEF PapersInv
  <2> QED BY <2>2, <2>3 DEF PapersInv
<1>7. ASSUME NEW c \in Tap, Serve(c) PROVE PapersInv'
  <2>1. UNCHANGED others
    BY <1>7, ServerDoes
  <2>2. CASE Becomes(c, "refused") /\ UNCHANGED owed
    <3>1. /\ call'[c].at = "refused" /\ call'[c].kind = call[c].kind /\ call'[c].got = call[c].got
          /\ \A d \in Tap \ {c} : call'[d] = call[d]
      BY <1>1, <2>2, BecomesDoes
    <3> QED BY <1>2, <2>1, <2>2, <3>1 DEF PapersInv
  <2>3. ASSUME call[c].at = "posted", call[c].kind \notin Once, NEW P \in SUBSET owed, Settles(c, P), owed' = owed \ P PROVE PapersInv'
    <3>1. /\ call'[c].at = "settled" /\ call'[c].kind = call[c].kind /\ call'[c].got = P
          /\ \A d \in Tap \ {c} : call'[d] = call[d]
      BY <1>1, <2>3, SettlesDoes
    <3>2. call[c].got = {} /\ \A d \in Tap : call[d].got \cap owed = {}
      BY <2>3 DEF PapersInv
    <3>3. \A d \in Tap : /\ call'[d].got \cap owed' = {}
                         /\ call'[d].at \in {"free", "proving", "posted"} \/ call'[d].kind \in Once => call'[d].got = {}
      BY <2>3, <3>1, <3>2 DEF PapersInv
    <3>4. \A d, e \in Tap : d # e => call'[d].got \cap call'[e].got = {}
      BY <2>3, <3>1, <3>2 DEF PapersInv
    <3>5. \A p \in Paper : \/ p \in owed'
                           \/ \E i \in DOMAIN others : p \in others[i]
                           \/ \E d \in Tap : p \in call'[d].got
      BY <2>3, <3>1, <3>2 DEF PapersInv
    <3> QED BY <2>1, <3>3, <3>4, <3>5 DEF PapersInv
  <2>4. CASE call[c].at = "posted" /\ call[c].kind \in Once /\ UNCHANGED owed /\ (Becomes(c, "already claimed") \/ Settles(c, {}))
    <3>1. call[c].got = {}
      BY <2>4 DEF PapersInv
    <3>2. /\ call'[c].kind = call[c].kind /\ call'[c].got = {} /\ \A d \in Tap \ {c} : call'[d] = call[d]
      BY <1>1, <2>4, <3>1, BecomesDoes, SettlesDoes
    <3> QED BY <1>2, <2>1, <2>4, <3>1, <3>2 DEF PapersInv
  <2> QED BY <1>7, <2>2, <2>3, <2>4, ServerDoes
<1>8. ASSUME NEW c \in Tap, Return(c) PROVE PapersInv'
  <2>1. PICK a : Becomes(c, a) /\ UNCHANGED <<owed, others>> /\ (a = "posted" => call[c].at = "proving") /\ a \in {"posted", "signing", "over"}
    <3>1. CASE MovesOn(c)
      <4>1. PICK a \in {"posted", "signing"} : Becomes(c, a)
        BY <3>1 DEF MovesOn
      <4>2. call'[c].at = a
        BY <1>1, <4>1, BecomesDoes
      <4> QED BY <3>1, <4>1, <4>2 DEF MovesOn, accountVars
    <3>2. CASE Closes(c)
      BY <3>2 DEF Closes, accountVars
    <3> QED BY <1>8, <3>1, <3>2, AnswersDo DEF ClosesClaim, ClosesDaily
  <2>2. /\ call'[c].at = a /\ call'[c].kind = call[c].kind /\ call'[c].got = call[c].got
        /\ \A d \in Tap \ {c} : call'[d] = call[d]
    BY <1>1, <2>1, BecomesDoes
  <2> QED BY <1>2, <2>1, <2>2 DEF PapersInv
<1>9. CASE claimElsewhere
  <2>1. UNCHANGED call /\ owed' = {} /\ others' = Append(others, owed)
    BY <1>9 DEF claimElsewhere
  <2>2. /\ \A i \in DOMAIN others : i \in DOMAIN others' /\ others'[i] = others[i]
        /\ Len(others) + 1 \in DOMAIN others' /\ others'[Len(others) + 1] = owed
    BY <1>1, <2>1
  <2> QED BY <2>1, <2>2 DEF PapersInv
<1>10. ASSUME NEW k \in Once, dailyElsewhere(k) PROVE PapersInv'
  <2>1. UNCHANGED <<call, owed>> /\ others' = Append(others, {})
    BY <1>10 DEF dailyElsewhere
  <2>2. \A i \in DOMAIN others : i \in DOMAIN others' /\ others'[i] = others[i]
    BY <1>1, <2>1
  <2> QED BY <2>1, <2>2 DEF PapersInv
<1>11. CASE render \/ statServed \/ statArrives \/ statFails \/ Midnight
  BY <1>3, <1>11 DEF render, statServed, statArrives, statFails, Midnight, accountVars
<1>12. CASE UNCHANGED rewardVars
  BY <1>3, <1>12 DEF rewardVars, accountVars
<1> QED BY <1>4, <1>5, <1>6, <1>7, <1>8, <1>9, <1>10, <1>11, <1>12 DEF RewardsNext

LEMMA ToldKept ==
  ASSUME RewardsType, ToldInv, [RewardsNext]_rewardVars
  PROVE  ToldInv'
<1>1. call \in [Tap -> Calls] /\ opened \in Nat /\ told \subseteq Tap
  BY DEF RewardsType
<1>2. ASSUME UNCHANGED told, sent \subseteq sent',
             \A d \in Tap : call[d].at = "over" => call'[d].at = "over" /\ call'[d].kind = call[d].kind
      PROVE  ToldInv'
  BY <1>1, <1>2 DEF ToldInv
<1>3. UNCHANGED <<told, sent, call>> => ToldInv'
  BY <1>2
<1>4. ASSUME NEW t \in {"rewards", "receipts"}, openTab(t) PROVE ToldInv'
  BY <1>3, <1>4 DEF openTab
<1>5. CASE reload
  <2>1. \A d \in Tap : call'[d].at = call[d].at /\ call'[d].kind = call[d].kind
    BY <1>1, <1>5 DEF reload, Calls
  <2> QED BY <1>2, <1>5, <2>1 DEF reload
<1>6. ASSUME NEW c \in Tap, claimAll(c) \/ claimDaily(c) \/ \E p \in Paper : claimReceipt(c, p) PROVE ToldInv'
  <2>1. PICK h \in Hook, a \in {"proving", "posted"}, k \in {"all", "single", "offchain", "onchain"}, P \in SUBSET Paper :
            Begin(c, h, a, k, P)
    BY <1>6, TapsBegin
  <2>2. call[c].at = "free" /\ (\A d \in Tap \ {c} : call'[d] = call[d]) /\ UNCHANGED <<told, sent>>
    BY <1>1, <2>1, BeginDoes
  <2> QED BY <1>2, <2>2
<1>7. ASSUME NEW c \in Tap, Serve(c) PROVE ToldInv'
  <2>1. UNCHANGED <<told, sent>> /\ call[c].at # "over"
    BY <1>7, ServerDoes
  <2>2. \A d \in Tap \ {c} : call'[d] = call[d]
    <3>1. ASSUME NEW P, Settles(c, P) PROVE \A d \in Tap \ {c} : call'[d] = call[d]
      BY <1>1, <3>1, SettlesDoes
    <3>2. ASSUME NEW a, Becomes(c, a) PROVE \A d \in Tap \ {c} : call'[d] = call[d]
      BY <1>1, <3>2, BecomesDoes
    <3> QED BY <1>7, <3>1, <3>2, ServerDoes
  <2> QED BY <1>2, <2>1, <2>2
<1>8. ASSUME NEW c \in Tap, Return(c) PROVE ToldInv'
  <2>1. CASE MovesOn(c)
    <3>1. PICK a \in {"posted", "signing"} : Becomes(c, a)
      BY <2>1 DEF MovesOn
    <3>2. \A d \in Tap \ {c} : call'[d] = call[d]
      BY <1>1, <3>1, BecomesDoes
    <3> QED BY <1>2, <2>1, <3>2 DEF MovesOn
  <2>2. CASE Closes(c)
    <3>1. call'[c].at = "over" /\ call'[c].kind = call[c].kind /\ \A d \in Tap \ {c} : call'[d] = call[d]
      BY <1>1, <2>2, BecomesDoes DEF Closes
    <3>2. CASE told' = told
      BY <1>2, <2>2, <3>1, <3>2 DEF Closes
    <3>3. CASE told' = told \cup {c} /\ (call[c].kind \in {"single", "onchain"} => c \in sent')
      BY <1>1, <2>2, <3>1, <3>3 DEF Closes, ToldInv
    <3> QED BY <2>2, <3>2, <3>3 DEF Closes
  <2> QED BY <1>8, <2>1, <2>2, AnswersDo DEF ClosesClaim, ClosesDaily
<1>9. CASE claimElsewhere \/ \E k \in Once : dailyElsewhere(k)
  BY <1>3, <1>9 DEF claimElsewhere, dailyElsewhere
<1>10. CASE render \/ statServed \/ statArrives \/ statFails \/ Midnight \/ UNCHANGED rewardVars
  BY <1>3, <1>10 DEF render, statServed, statArrives, statFails, Midnight, rewardVars
<1> QED BY <1>4, <1>5, <1>6, <1>7, <1>8, <1>9, <1>10 DEF RewardsNext

LEMMA ListsKept ==
  ASSUME RewardsType, PapersInv, ListsInv, [RewardsNext]_rewardVars
  PROVE  ListsInv'
<1>1. call \in [Tap -> Calls] /\ opened \in Nat
  BY DEF RewardsType
<1>2. ASSUME UNCHANGED <<fetch, offered>>,
             \A d \in Tap : call'[d].at = "over" => call'[d] = call[d]
      PROVE  ListsInv'
  BY <1>2 DEF ListsInv, Alive
<1>3. fetch'.at \in {"asked", "failed"} => ListsInv'
  BY DEF ListsInv
<1>4. ASSUME NEW t \in {"rewards", "receipts"}, openTab(t) PROVE ListsInv'
  BY <1>2, <1>3, <1>4 DEF openTab, AskAgain
<1>5. CASE reload
  <2>1. \A d \in Tap : call'[d].visit = 0
    BY <1>1, <1>5 DEF reload, Calls
  <2> QED BY <2>1 DEF ListsInv, Alive
<1>6. ASSUME NEW c \in Tap, claimAll(c) \/ claimDaily(c) \/ \E p \in Paper : claimReceipt(c, p) PROVE ListsInv'
  <2>1. PICK h \in Hook, a \in {"proving", "posted"}, k \in {"all", "single", "offchain", "onchain"}, P \in SUBSET Paper :
            Begin(c, h, a, k, P)
    BY <1>6, TapsBegin
  <2>2. call'[c].at = a /\ (\A d \in Tap \ {c} : call'[d] = call[d]) /\ UNCHANGED cacheVars
    BY <1>1, <2>1, BeginDoes
  <2> QED BY <1>2, <2>2 DEF cacheVars
<1>7. ASSUME NEW c \in Tap, Serve(c) PROVE ListsInv'
  <2>1. UNCHANGED cacheVars
    BY <1>7, ServerDoes
  <2>2. call'[c].at # "over" /\ \A d \in Tap \ {c} : call'[d] = call[d]
    <3>1. ASSUME NEW P, Settles(c, P) PROVE call'[c].at # "over" /\ \A d \in Tap \ {c} : call'[d] = call[d]
      BY <1>1, <3>1, SettlesDoes
    <3>2. ASSUME NEW a \in {"refused", "already claimed"}, Becomes(c, a)
          PROVE call'[c].at # "over" /\ \A d \in Tap \ {c} : call'[d] = call[d]
      BY <1>1, <3>2, BecomesDoes
    <3> QED BY <1>7, <3>1, <3>2, ServerDoes
  <2> QED BY <1>2, <2>1, <2>2 DEF cacheVars
<1>8. ASSUME NEW c \in Tap, Return(c) PROVE ListsInv'
  <2>1. CASE MovesOn(c)
    <3>1. PICK a \in {"posted", "signing"} : Becomes(c, a)
      BY <2>1 DEF MovesOn
    <3>2. call'[c].at = a /\ \A d \in Tap \ {c} : call'[d] = call[d]
      BY <1>1, <3>1, BecomesDoes
    <3> QED BY <1>2, <2>1, <3>2 DEF MovesOn, cacheVars
  <2>2. CASE ClosesClaim(c)
    BY <1>3, <2>2 DEF ClosesClaim, AskAgain
  <2>3. CASE ClosesDaily(c) /\ UNCHANGED fetch
    <3>1. Becomes(c, "over") /\ UNCHANGED offered /\ call[c].got = {}
      BY <2>3 DEF ClosesDaily, Closes, PapersInv
    <3>2. call'[c].got = {} /\ \A d \in Tap \ {c} : call'[d] = call[d]
      BY <1>1, <3>1, BecomesDoes
    <3> QED BY <2>3, <3>1, <3>2 DEF ListsInv, Alive
  <2>4. CASE ClosesDaily(c) /\ fetch' = AskAgain
    BY <1>3, <2>4 DEF AskAgain
  <2> QED BY <1>8, <2>1, <2>2, <2>3, <2>4, AnswersDo DEF ClosesDaily
<1>9. CASE statServed
  <2>1. UNCHANGED call /\ fetch'.at = "served" /\ fetch'.papers = owed
    BY <1>9 DEF statServed
  <2> QED BY <2>1 DEF ListsInv, PapersInv, Alive
<1>10. CASE statArrives
  <2>1. UNCHANGED call /\ fetch.at = "served" /\ offered' = fetch.papers /\ fetch'.at = "none"
    BY <1>10 DEF statArrives, NoFetch
  <2> QED BY <2>1 DEF ListsInv, Alive
<1>11. CASE statFails
  BY <1>3, <1>11 DEF statFails
<1>12. CASE claimElsewhere \/ (\E k \in Once : dailyElsewhere(k)) \/ render \/ Midnight \/ UNCHANGED rewardVars
  BY <1>2, <1>12 DEF claimElsewhere, dailyElsewhere, render, Midnight, rewardVars, cacheVars
<1> QED BY <1>4, <1>5, <1>6, <1>7, <1>8, <1>9, <1>10, <1>11, <1>12 DEF RewardsNext

LEMMA NotesKept ==
  ASSUME RewardsType, NotesInv, [RewardsNext]_rewardVars
  PROVE  NotesInv'
<1>1. /\ call \in [Tap -> Calls] /\ opened \in Nat /\ date \in Nat /\ notes \in [Once -> Nat \cup {NeverNoted}]
      /\ steady \in BOOLEAN
  BY DEF RewardsType
<1>2. ASSUME UNCHANGED <<date, notes, steady>>, taken \subseteq taken',
             \A d \in Tap : \/ call'[d].at \notin {"settled", "already claimed", "signing"}
                            \/ call'[d].kind = call[d].kind /\ call[d].at \in {"settled", "already claimed", "signing"}
                            \/ call'[d].kind \notin Once
                            \/ <<call'[d].kind, date>> \in taken'
      PROVE  NotesInv'
  BY <1>2 DEF NotesInv, NotesMeanTaken, claimedToday
<1>3. UNCHANGED <<date, notes, steady, taken, call>> => NotesInv'
  BY <1>2
<1>4. ASSUME NEW t \in {"rewards", "receipts"}, openTab(t) PROVE NotesInv'
  BY <1>3, <1>4 DEF openTab, accountVars
<1>5. CASE reload
  <2>1. \A d \in Tap : call'[d].at = call[d].at /\ call'[d].kind = call[d].kind
    BY <1>1, <1>5 DEF reload, Calls
  <2> QED BY <1>2, <1>5, <2>1 DEF reload, accountVars
<1>6. ASSUME NEW c \in Tap, claimAll(c) \/ claimDaily(c) \/ \E p \in Paper : claimReceipt(c, p) PROVE NotesInv'
  <2>1. PICK h \in Hook, a \in {"proving", "posted"}, k \in {"all", "single", "offchain", "onchain"}, P \in SUBSET Paper :
            Begin(c, h, a, k, P)
    BY <1>6, TapsBegin
  <2>2. /\ call'[c].at = a /\ \A d \in Tap \ {c} : call'[d] = call[d]
        /\ UNCHANGED <<accountVars, notes, steady>>
    <3>1. call \in [Tap -> Calls] /\ opened \in Nat
      BY <1>1
    <3> QED BY <2>1, <3>1, BeginDoes
  <2> QED BY <1>2, <2>2 DEF accountVars
<1>7. ASSUME NEW c \in Tap, Serve(c) PROVE NotesInv'
  <2>1. UNCHANGED <<date, notes, steady>>
    BY <1>7, ServerDoes
  <2>2. CASE Becomes(c, "refused") /\ UNCHANGED taken
    <3>1. call'[c].at = "refused" /\ \A d \in Tap \ {c} : call'[d] = call[d]
      BY <1>1, <2>2, BecomesDoes
    <3> QED BY <1>2, <2>1, <2>2, <3>1
  <2>3. ASSUME NEW P, Settles(c, P), UNCHANGED taken, call[c].kind \notin Once PROVE NotesInv'
    <3>1. call'[c].kind = call[c].kind /\ \A d \in Tap \ {c} : call'[d] = call[d]
      BY <1>1, <2>3, SettlesDoes
    <3> QED BY <1>2, <2>1, <2>3, <3>1
  <2>4. CASE /\ taken \subseteq taken' /\ <<call[c].kind, date>> \in taken'
             /\ Becomes(c, "already claimed") \/ Settles(c, {})
    <3>1. call'[c].kind = call[c].kind /\ \A d \in Tap \ {c} : call'[d] = call[d]
      BY <1>1, <2>4, BecomesDoes, SettlesDoes
    <3> QED BY <1>2, <2>1, <2>4, <3>1
  <2> QED BY <1>7, <2>2, <2>3, <2>4, ServerDoes
<1>8. ASSUME NEW c \in Tap, Return(c) PROVE NotesInv'
  <2>1. CASE MovesOn(c)
    <3>1. PICK a \in {"posted", "signing"} : Becomes(c, a)
      BY <2>1 DEF MovesOn
    <3>2. /\ call'[c].at = a /\ call'[c].kind = call[c].kind /\ \A d \in Tap \ {c} : call'[d] = call[d]
          /\ a = "signing" => call[c].at = "settled"
      BY <1>1, <2>1, <3>1, BecomesDoes DEF MovesOn
    <3> QED BY <1>2, <2>1, <3>2 DEF MovesOn, accountVars
  <2>2. ASSUME Closes(c),
               \/ UNCHANGED notes
               \/ /\ notes' = [notes EXCEPT ![call[c].kind] = date] /\ call[c].kind \in Once
                  /\ call[c].at \in {"settled", "already claimed", "signing"}
        PROVE  NotesInv'
    <3>1. call'[c].at = "over" /\ \A d \in Tap \ {c} : call'[d] = call[d]
      BY <1>1, <2>2, BecomesDoes DEF Closes
    <3>2. UNCHANGED <<date, taken, steady>>
      BY <2>2 DEF Closes, accountVars
    <3>3. UNCHANGED notes => NotesInv'
      BY <1>2, <3>1, <3>2
    <3>4. ASSUME notes' = [notes EXCEPT ![call[c].kind] = date], call[c].kind \in Once,
                 call[c].at \in {"settled", "already claimed", "signing"}
          PROVE  NotesInv'
      <4>1. PICK k \in Once : k = call[c].kind
        BY <3>4
      <4>2. notes'[k] = date /\ \A j \in Once \ {k} : notes'[j] = notes[j]
        BY <1>1, <3>4, <4>1
      <4>3. steady => <<k, date>> \in taken
        BY <3>4, <4>1 DEF NotesInv
      <4>4. (\A j \in Once : notes[j] <= date)'
        <5>1. \A j \in Once : notes[j] <= date
          BY DEF NotesInv
        <5>2. date <= date
          BY <1>1
        <5> QED BY <3>2, <4>2, <5>1, <5>2
      <4>5. NotesMeanTaken'
        BY <3>2, <4>2, <4>3 DEF NotesInv, NotesMeanTaken, claimedToday
      <4> QED BY <3>1, <3>2, <4>4, <4>5 DEF NotesInv
    <3> QED BY <2>2, <3>3, <3>4
  <2>3. CASE ClosesClaim(c)
    BY <2>2, <2>3 DEF ClosesClaim
  <2>4. CASE ClosesDaily(c)
    BY <2>2, <2>4 DEF ClosesDaily
  <2> QED BY <1>8, <2>1, <2>3, <2>4, AnswersDo
<1>9. CASE claimElsewhere
  BY <1>3, <1>9 DEF claimElsewhere
<1>10. ASSUME NEW k \in Once, dailyElsewhere(k) PROVE NotesInv'
  BY <1>2, <1>10 DEF dailyElsewhere
<1>11. CASE Midnight
  <2>1. UNCHANGED <<notes, taken, call>> /\ date' = date + 1
        /\ (steady' => \A d \in Tap : call[d].kind \in Once => call[d].at \in {"free", "over"})
    BY <1>1, <1>11 DEF Midnight, Running
  <2>2. \A k \in Once : notes[k] <= date
    BY DEF NotesInv
  <2>3. \A k \in Once : notes[k] \in Int
    BY <1>1 DEF NeverNoted
  <2>4. \A k \in Once : notes[k] <= date + 1 /\ notes[k] # date + 1
    BY <1>1, <2>2, <2>3
  <2> QED BY <2>1, <2>4 DEF NotesInv, NotesMeanTaken, claimedToday
<1>12. CASE render \/ statServed \/ statArrives \/ statFails \/ UNCHANGED rewardVars
  BY <1>3, <1>12 DEF render, statServed, statArrives, statFails, rewardVars, accountVars
<1> QED BY <1>4, <1>5, <1>6, <1>7, <1>8, <1>9, <1>10, <1>11, <1>12 DEF RewardsNext

(* usePointClaim.ts 29-43 and 161-163, point.ts 8-12, useDailyClaim.ts     *)
(* 17-20: what the screens report as claimed was credited once and sent by *)
(* the wallet, a note of today's points is true unless midnight fell into  *)
(* a claim, and the lists at rest offer nothing this phone has claimed.    *)
THEOREM ScreensHold == RewardsSpec => []ScreensAreTrue
<1>1. RewardsInit => RewardsType /\ RewardsInv
  <2> SUFFICES ASSUME RewardsInit PROVE RewardsType /\ RewardsInv
    OBVIOUS
  <2>1. Untapped \in Calls
    BY DEF Untapped, Calls
  <2>2. RewardsType
    BY <2>1 DEF RewardsInit, RewardsType, NoFetch
  <2>3. \A c \in Tap : call[c].at = "free" /\ call[c].got = {} /\ call[c].visit = 0
    BY DEF RewardsInit, Untapped
  <2>4. PapersInv
    BY <2>3 DEF RewardsInit, PapersInv
  <2>5. ToldInv /\ ListsInv
    BY <2>3 DEF RewardsInit, ToldInv, ListsInv
  <2>6. date = 0 /\ \A k \in Once : notes[k] = -1
    BY DEF RewardsInit, NeverNoted
  <2>7. NotesInv
    <3>1. \A k \in Once : notes[k] <= date
      BY <2>6
    <3>2. \A k \in Once : notes[k] # date
      BY <2>6
    <3>3. NotesMeanTaken
      BY <3>2 DEF NotesMeanTaken, claimedToday
    <3> QED BY <2>3, <3>1, <3>3 DEF NotesInv
  <2> QED BY <2>2, <2>4, <2>5, <2>7 DEF RewardsInv
<1>2. RewardsType /\ RewardsInv /\ [RewardsNext]_rewardVars => RewardsType' /\ RewardsInv'
  BY RewardsTypeKept, PapersKept, ToldKept, ListsKept, NotesKept DEF RewardsInv
<1>3. RewardsType /\ RewardsInv => ScreensAreTrue
  <2> SUFFICES ASSUME RewardsType, RewardsInv PROVE ScreensAreTrue
    OBVIOUS
  <2>1. ToldIsTrue
    BY DEF RewardsInv, ToldInv, PapersInv, RewardsType, ToldIsTrue
  <2>2. ASSUME AtRest, NEW p \in offered, p \notin owed, p \notin UNION Range(others), p \notin Orphaned
        PROVE  FALSE
    <3>1. p \in Paper /\ fetch.at = "none" /\ call \in [Tap -> Calls]
      BY <2>2 DEF RewardsType, AtRest, NoFetch
    <3>2. PICK c \in Tap : p \in call[c].got
      BY <2>2, <3>1 DEF RewardsInv, PapersInv, Range
    <3>3. Alive(c)
      BY <2>2, <3>2 DEF Orphaned
    <3>4. call[c].kind \notin Once /\ call[c].at # "free"
      BY <3>2 DEF RewardsInv, PapersInv
    <3>5. Receipts(c)
      BY <3>1, <3>3, <3>4 DEF Receipts, Calls, Once
    <3>6. call[c].at = "over"
      BY <2>2, <3>4, <3>5 DEF AtRest, Running
    <3> QED BY <2>2, <3>1, <3>2, <3>3, <3>6 DEF RewardsInv, ListsInv
  <2>3. OffersAreReal
    BY <2>2 DEF OffersAreReal
  <2> QED BY <2>1, <2>3 DEF RewardsInv, NotesInv, ScreensAreTrue
<1> QED BY <1>1, <1>2, <1>3, PTL DEF RewardsSpec

=============================================================================
