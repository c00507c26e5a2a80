-------------------------------- MODULE Scanner --------------------------------
(***************************************************************************)
(* From the shutter to the verdict: the camera screen of the mini app      *)
(* (pages/CameraScan.tsx, hooks/useCameraStream.ts), the upload it sends   *)
(* (routes/client/receipt.ts), and the screen that follows the receipt     *)
(* until it is read (pages/ScanResult.tsx, useReceipt of queries.ts).      *)
(*                                                                         *)
(* An upload is admitted, stored, weighed against the week and filed, each *)
(* a statement of its own; the screens are mounted and left at any moment, *)
(* also while an answer is on its way.  What the consumer makes of a       *)
(* receipt is ReceiptAnalysis's; here it settles some time.                *)
(*                                                                         *)
(* Days stand for moments.  A shot, the image and the receipt it becomes   *)
(* bear one name.  That the waiting screen gives up after POLL_LIMIT polls'*)
(* worth of time is a matter of its text and left out.                     *)
(***************************************************************************)
EXTENDS Integers, FiniteSets

CONSTANTS
    Shot,
    Nothing,                     \* no token, no count yet
    DAILY_UPLOAD_LIMIT, WEEKLY_POINT_ELIGIBLE_LIMIT,
    POLL_LIMIT,
    FirstWeekday,                \* the weekday of day 0; Sunday is 0
    MaxDay, MaxMounts, MaxTokens \* bounds

ASSUME ScannerAssumption ==
    /\ Nothing \notin Nat
    /\ {DAILY_UPLOAD_LIMIT, WEEKLY_POINT_ELIGIBLE_LIMIT, POLL_LIMIT} \subseteq Nat \ {0}
    /\ FirstWeekday \in 0..6
    /\ {MaxDay, MaxMounts, MaxTokens} \subseteq Nat

VARIABLES
    today,
    upload,  \* each shot from the shutter to the answer
    row,     \* the receipts
    page,    \* what the phone shows
    mount,   \* how often the camera screen was opened
    scanner, \* the state of the camera screen that is open
    stream,  \* [mount -> its camera: none, asked for, live]
    tokens,  \* CAPTCHA tokens handed out so far
    stat,    \* the cached scan counts
    detail,  \* what the result screen knows of its receipt
    board,   \* the cached market prices: fresh, and the receipts behind them
    shown,   \* history: receipts whose verdict the result screen has shown
    crossed  \* history: two uploads were under way at once

serverVars == <<today, row>>
cameraVars == <<mount, scanner, stream, tokens, stat>>
resultVars == <<detail, board, shown>>
scanVars == <<serverVars, upload, page, cameraVars, resultVars, crossed>>

Unused == [at |-> "unused", mount |-> 0, token |-> Nothing, day |-> 0, points |-> 0]
NoRow == [status |-> "none", points |-> 0, day |-> 0]
Unasked == [status |-> "none", updates |-> 0, failed |-> FALSE]
Closed == [camera |-> "loading", isReviewing |-> FALSE, turnstileToken |-> Nothing]
Stale == [fresh |-> FALSE, behind |-> {}]
Home == [at |-> "home", of |-> Nothing]
Camera == [at |-> "camera", of |-> Nothing]
Result(s) == [at |-> "result", of |-> s]

ScanInit ==
    /\ today = 0
    /\ upload = [s \in Shot |-> Unused]
    /\ row = [s \in Shot |-> NoRow]
    /\ page = Home
    /\ mount = 0 /\ scanner = Closed /\ stream = [m \in 1..MaxMounts |-> "none"] /\ tokens = 0
    /\ stat = Nothing
    /\ detail = Unasked
    /\ board = Stale
    /\ shown = {}
    /\ crossed = FALSE

-----------------------------------------------------------------------------
(* The upload.                                                             *)

Filed == {s \in Shot : row[s].status # "none"}
UnderWay == {s \in Shot : upload[s].at \in {"admitted", "weighed"}}

(* startOfWeek of date-fns with its default: weeks turn on Sunday.         *)
WeekOf(d) == (FirstWeekday + d) \div 7
dailyScanCount(d) == Cardinality({s \in Filed : row[s].day = d})
weeklyScanCount(d) == Cardinality({s \in Filed : WeekOf(row[s].day) = WeekOf(d)})

Upload(s, at) == upload' = [upload EXCEPT ![s].at = at]

(* The CAPTCHA fails, or the address is restricted.                        *)
RefuseUpload(s) ==
    /\ upload[s].at = "posted"
    /\ Upload(s, "refused")
    /\ UNCHANGED <<serverVars, page, cameraVars, resultVars, crossed>>

(* Mutant of UnderTheCap: one upload too many.                             *)
UnderTheCapByOne(d) == dailyScanCount(d) <= DAILY_UPLOAD_LIMIT

UnderTheCap(d) == dailyScanCount(d) < DAILY_UPLOAD_LIMIT

AdmitUpload(s) ==
    /\ upload[s].at = "posted"
    /\ IF UnderTheCap(today)
       THEN /\ upload' = [upload EXCEPT ![s].at = "admitted", ![s].day = today]
            /\ crossed' = (crossed \/ UnderWay # {})
       ELSE Upload(s, "refused") /\ UNCHANGED crossed
    /\ UNCHANGED <<serverVars, page, cameraVars, resultVars>>

(* The image is in the bucket, and the week is counted.                    *)
WeighUpload(s) ==
    /\ upload[s].at = "admitted"
    /\ upload' = [upload EXCEPT ![s].at = "weighed",
                      ![s].points = IF weeklyScanCount(upload[s].day) >= WEEKLY_POINT_ELIGIBLE_LIMIT
                                    THEN -1 ELSE 0]
    /\ UNCHANGED <<serverVars, page, cameraVars, resultVars, crossed>>

FileReceipt(s) ==
    /\ upload[s].at = "weighed"
    /\ row' = [row EXCEPT ![s] = [status |-> "pending", points |-> upload[s].points, day |-> today]]
    /\ Upload(s, "filed")
    /\ UNCHANGED <<today, page, cameraVars, resultVars, crossed>>

(* The bucket or the database fails, or the worker is killed.              *)
UploadBreaks(s) ==
    /\ s \in UnderWay
    /\ Upload(s, "refused")
    /\ UNCHANGED <<serverVars, page, cameraVars, resultVars, crossed>>

(* The answer to an upload that was filed does not arrive.                 *)
AnswerIsLost(s) ==
    /\ upload[s].at = "filed"
    /\ Upload(s, "refused")
    /\ UNCHANGED <<serverVars, page, cameraVars, resultVars, crossed>>

(* The consumer settles a receipt: what it read, or that it could not.     *)
SettleReceipt(s, verdict) ==
    /\ row[s].status = "pending"
    /\ row' = [row EXCEPT ![s].status = verdict]
    /\ UNCHANGED <<today, upload, page, cameraVars, resultVars, crossed>>

DayTurns ==
    /\ today < MaxDay
    /\ today' = today + 1
    /\ UNCHANGED <<row, upload, page, cameraVars, resultVars, crossed>>

-----------------------------------------------------------------------------
(* The camera screen.                                                      *)

OnCamera(m) == page = Camera /\ mount = m

(* Mutant of Released: only the screen's own state is cleared.             *)
ReleasedLater == stream

(* The effect's clean-up: the tracks of a live stream are stopped.  One    *)
(* still asked for is stopped when it comes.                               *)
Released == [stream EXCEPT ![mount] = IF @ = "live" THEN "none" ELSE @]

(* Whatever is mounted next, the camera screen is not.                     *)
LeaveCamera == IF page = Camera THEN stream' = Released /\ scanner' = Closed
               ELSE UNCHANGED <<stream, scanner>>

(* Mounting the screen asks for the camera and for the counts (stat).      *)
openScanner ==
    /\ page # Camera /\ mount < MaxMounts
    /\ page' = Camera /\ mount' = mount + 1 /\ scanner' = Closed
    /\ stream' = [stream EXCEPT ![mount + 1] = "asked"]
    /\ stat' = [daily |-> dailyScanCount(today), weekly |-> weeklyScanCount(today)]
    /\ detail' = Unasked
    /\ UNCHANGED <<serverVars, upload, tokens, board, shown, crossed>>

(* getUserMedia answers the mount that asked, if it is still there.        *)
startCamera(m, granted) ==
    /\ stream[m] = "asked"
    /\ stream' = [stream EXCEPT ![m] = IF granted /\ OnCamera(m) THEN "live" ELSE "none"]
    /\ scanner' = [scanner EXCEPT !.camera = IF OnCamera(m) /\ ~ granted THEN "error" ELSE @]
    /\ UNCHANGED <<serverVars, upload, page, mount, tokens, stat, resultVars, crossed>>

videoLoads(loaded) ==
    /\ page = Camera /\ scanner.camera = "loading" /\ stream[mount] = "live"
    /\ scanner' = [scanner EXCEPT !.camera = IF loaded THEN "ready" ELSE "error"]
    /\ UNCHANGED <<serverVars, upload, page, mount, stream, tokens, stat, resultVars, crossed>>

retry ==
    /\ page = Camera /\ scanner.camera = "error"
    /\ scanner' = [scanner EXCEPT !.camera = "loading"]
    /\ stream' = [stream EXCEPT ![mount] = "asked"] \* the old one is stopped first
    /\ UNCHANGED <<serverVars, upload, page, mount, tokens, stat, resultVars, crossed>>

TokenArrives ==
    /\ page = Camera /\ scanner.turnstileToken = Nothing /\ tokens < MaxTokens
    /\ tokens' = tokens + 1
    /\ scanner' = [scanner EXCEPT !.turnstileToken = tokens + 1]
    /\ UNCHANGED <<serverVars, upload, page, mount, stream, stat, resultVars, crossed>>

TokenExpires ==
    /\ page = Camera /\ scanner.turnstileToken # Nothing
    /\ scanner' = [scanner EXCEPT !.turnstileToken = Nothing]
    /\ UNCHANGED <<serverVars, upload, page, mount, stream, tokens, stat, resultVars, crossed>>

isScanLimitReached ==
    stat # Nothing /\ (stat.daily >= DAILY_UPLOAD_LIMIT \/ stat.weekly >= WEEKLY_POINT_ELIGIBLE_LIMIT)

handleCapture(s) ==
    /\ page = Camera /\ upload[s].at = "unused"
    /\ scanner.camera = "ready" /\ ~ scanner.isReviewing /\ scanner.turnstileToken # Nothing
    /\ ~ isScanLimitReached
    /\ scanner' = [scanner EXCEPT !.isReviewing = TRUE]
    /\ upload' = [upload EXCEPT ![s].at = "drawn", ![s].mount = mount, ![s].token = scanner.turnstileToken]
    /\ UNCHANGED <<serverVars, page, mount, stream, tokens, stat, resultVars, crossed>>

(* canvas.toBlob makes a file of the frame, or nothing; nothing is not     *)
(* caught.                                                                 *)
getFile(s, blob) ==
    /\ upload[s].at = "drawn"
    /\ Upload(s, IF blob THEN "posted" ELSE "blank")
    /\ UNCHANGED <<serverVars, page, cameraVars, resultVars, crossed>>

(* Mutant of Recovered: the token is kept for the next attempt.            *)
RecoveredWithToken(m) ==
    IF OnCamera(m) THEN [scanner EXCEPT !.isReviewing = FALSE] ELSE scanner

(* A screen that is gone is not told.                                      *)
Recovered(m) ==
    IF OnCamera(m) THEN [scanner EXCEPT !.isReviewing = FALSE, !.turnstileToken = Nothing] ELSE scanner

uploadFails(s) ==
    /\ upload[s].at = "refused"
    /\ Upload(s, "over")
    /\ scanner' = Recovered(upload[s].mount)
    /\ UNCHANGED <<serverVars, page, mount, stream, tokens, stat, resultVars, crossed>>

-----------------------------------------------------------------------------
(* The screen that follows a receipt.                                      *)

(* Mutant of Verdict: the ledger is left as it was.                        *)
VerdictAlone(s) == shown' = shown \cup {s} /\ UNCHANGED board

(* The effect that runs when a receipt is seen settled: everything derived *)
(* from receipts is stale.                                                 *)
Verdict(s) == shown' = shown \cup {s} /\ board' = Stale

Settled(d) == d.status \in {"claimable", "rejected"}

(* Wherever the person is by now, they are taken to the receipt, and the   *)
(* screen asks about it.                                                   *)
uploadSucceeds(s) ==
    /\ upload[s].at = "filed"
    /\ Upload(s, "over")
    /\ page' = Result(s) /\ detail' = Unasked
    /\ LeaveCamera
    /\ UNCHANGED <<serverVars, mount, tokens, stat, board, shown, crossed>>

Polls == detail.status = "pending" /\ detail.updates < POLL_LIMIT

(* Mutant of KeepsAsking: an error ends the polling.                       *)
KeepsAskingUntilItFails == ~ detail.failed /\ (detail.status = "none" \/ Polls)

(* The fetch of a screen just opened, and refetchInterval.                 *)
KeepsAsking == (detail.status = "none" /\ ~ detail.failed) \/ Polls

byId(s) ==
    /\ page = Result(s) /\ KeepsAsking
    /\ detail' = [status |-> row[s].status, updates |-> detail.updates + 1, failed |-> FALSE]
    /\ IF row[s].status # "pending" THEN Verdict(s) ELSE UNCHANGED <<board, shown>>
    /\ UNCHANGED <<serverVars, upload, page, cameraVars, crossed>>

byIdFails(s) ==
    /\ page = Result(s) /\ KeepsAsking
    /\ detail' = [detail EXCEPT !.failed = TRUE]
    /\ UNCHANGED <<serverVars, upload, page, cameraVars, board, shown, crossed>>

(* The ledger, with the country's prices kept for an hour.                 *)
goHome ==
    /\ page # Home
    /\ page' = Home /\ detail' = Unasked
    /\ LeaveCamera
    /\ board' = IF board.fresh THEN board
                ELSE [fresh |-> TRUE, behind |-> {s \in Filed : row[s].status # "pending"}]
    /\ UNCHANGED <<serverVars, upload, mount, tokens, stat, shown, crossed>>

boardAges ==
    /\ board.fresh /\ page # Home
    /\ board' = Stale
    /\ UNCHANGED <<serverVars, upload, page, cameraVars, detail, shown, crossed>>

-----------------------------------------------------------------------------
UploadServer(s) ==
    RefuseUpload(s) \/ AdmitUpload(s) \/ WeighUpload(s) \/ FileReceipt(s) \/ UploadBreaks(s)
UploadPhone(s) == \/ \E blob \in BOOLEAN : getFile(s, blob)
                  \/ uploadFails(s) \/ uploadSucceeds(s)

ScanNext ==
    \/ \E s \in Shot :
        \/ UploadServer(s) \/ UploadPhone(s)
        \/ AnswerIsLost(s)
        \/ \E verdict \in {"claimable", "rejected"} : SettleReceipt(s, verdict)
        \/ handleCapture(s) \/ byId(s) \/ byIdFails(s)
    \/ \E m \in 1..MaxMounts, granted \in BOOLEAN : startCamera(m, granted)
    \/ \E loaded \in BOOLEAN : videoLoads(loaded)
    \/ openScanner \/ retry \/ TokenArrives \/ TokenExpires
    \/ goHome \/ boardAges \/ DayTurns

(* A request is answered or fails, a timer fires, a mounted screen polls.  *)
ScanFairness ==
    /\ \A s \in Shot : /\ WF_scanVars(UploadServer(s)) /\ WF_scanVars(UploadPhone(s))
                       /\ WF_scanVars(byId(s)) \* not every poll fails for ever

ScanSpec == ScanInit /\ [][ScanNext]_scanVars /\ ScanFairness

-----------------------------------------------------------------------------
(* receipt.ts 39-43: as long as uploads come one after the other, a day    *)
(* takes no more of them than the cap and a week pays no more than its     *)
(* budget, also when midnight falls into one.                              *)
CapsHold ==
    ~ crossed => \A d \in 0..MaxDay :
        /\ dailyScanCount(d) <= DAILY_UPLOAD_LIMIT
        /\ Cardinality({s \in Filed : WeekOf(row[s].day) = WeekOf(d) /\ row[s].points # -1})
               <= WEEKLY_POINT_ELIGIBLE_LIMIT

(* CameraScan.tsx: a CAPTCHA token is good once; none is posted twice.     *)
TokensAreSpentOnce ==
    \A s, t \in Shot : upload[s].token = upload[t].token /\ s # t => upload[s].token = Nothing

(* What is uploaded is accounted for: limits and tokens.                   *)
UploadsAddUp == CapsHold /\ TokensAreSpentOnce

(* useCameraStream.ts: however the camera screen is left, also before the  *)
(* permission is answered, no camera stays on.                             *)
CameraIsReleased == \A m \in 1..MaxMounts : stream[m] = "live" => OnCamera(m)

(* queries.ts 268-272: prices on the ledger taken for fresh are behind no  *)
(* receipt whose verdict this phone has shown.                             *)
BoardFollowsScan == board.fresh => shown \subseteq board.behind

(* What the phone keeps from a scan is let go of.                          *)
NothingIsLeftOn == CameraIsReleased /\ BoardFollowsScan

(* CameraScan.tsx: the overlay over the camera goes away, unless the frame *)
(* could not be made a file.                                               *)
ReviewEnds ==
    scanner.isReviewing ~>
        ~ scanner.isReviewing \/ \E s \in Shot : upload[s].at = "blank" /\ upload[s].mount = mount

(* queries.ts 151-158: a receipt that settles while its screen still asks  *)
(* is shown settled, whatever single requests come to.                     *)
VerdictArrives ==
    \A s \in Shot : (page = Result(s) /\ Polls /\ row[s].status # "pending") ~>
                        (Settled(detail) \/ page # Result(s))

WaitEnds == ReviewEnds /\ VerdictArrives
=============================================================================
