-------------------------------- MODULE Rewards --------------------------------
(***************************************************************************)
(* The screens of the mini app that claim points (pages/Rewards.tsx,       *)
(* pages/Receipts.tsx, components/ledger/ReceiptRow.tsx) with their hooks  *)
(* (usePointClaim, useDailyClaim) and cached answers (lib/api/queries.ts). *)
(*                                                                         *)
(* A claim is a chain of waits: for the World ID sheet, for the server, for*)
(* the wallet that sends a voucher.  The screen may be left, opened again  *)
(* or reloaded during any of them, the day may turn, and a second tap may  *)
(* come before the button is drawn disabled.  What the server's            *)
(* transactions do to each other is PointLedger's; here each is one step,  *)
(* done in full or not at all.                                             *)
(***************************************************************************)
EXTENDS Integers, Sequences, Functions

CONSTANTS
    Paper,                        \* receipts that wait to be claimed
    Host,                         \* the platforms considered
    LastDate, MaxTaps, MaxOpens, MaxOthers \* bounds

ASSUME RewardsAssumption ==
    /\ Host \subseteq {"world", "celo", "kaia"}
    /\ LastDate \in Nat /\ MaxTaps \in Nat /\ MaxOpens \in Nat /\ MaxOthers \in Nat

Tap == 1..MaxTaps
Once == {"offchain", "onchain"}    \* KEYS: the two claims of a day
Hook == {"claim", "daily"}

VARIABLES
    date,
    owed,      \* papers the server has as claimable
    taken,     \* the daily claims it has credited: <<key, date>>
    host,      \* the platform the app runs in
    tab,       \* the screen that is mounted
    opened,    \* how many screens were mounted so far
    call,      \* what became of each tap
    busy,      \* isPending of the hooks
    drawn,     \* isPending as the buttons show it
    notes,     \* localStorage: when each daily claim was taken, by this phone
    marks,     \* offchainDone, onchainDone
    offered,   \* the papers the cached stat and lists offer
    fetch,     \* the request that refreshes them
    sent,      \* taps whose voucher the wallet has sent
    told,      \* history: taps reported as claimed
    others, \* history: what each claim on another device took
    steady     \* history: the day never turned on a daily claim

accountVars == <<date, owed, taken, others>>
screenVars == <<tab, opened, busy, drawn, marks>>
cacheVars == <<offered, fetch>>
rewardVars == <<accountVars, host, screenVars, call, notes, cacheVars, sent, told, steady>>

NeverNoted == -1
NoFetch == [at |-> "none", papers |-> {}]
AskAgain == [at |-> "asked", papers |-> {}]
Untapped == [at |-> "free", kind |-> "all", visit |-> 0, paper |-> {}, got |-> {}]
Idling == [h \in Hook |-> FALSE]

RewardsInit ==
    /\ date = 0
    /\ owed = Paper /\ taken = {} /\ others = << >>
    /\ host \in Host
    /\ tab = "away" /\ opened = 0 /\ busy = Idling /\ drawn = Idling
    /\ call = [c \in Tap |-> Untapped]
    /\ notes = [k \in Once |-> NeverNoted] /\ marks = [k \in Once |-> FALSE]
    /\ offered = {} /\ fetch = NoFetch
    /\ sent = {} /\ told = {} /\ steady = TRUE

-----------------------------------------------------------------------------
(* Mounting, leaving, drawing.                                             *)

claimedToday(k) == notes[k] = date

(* A hook's state begins anew with the screen; the notes outlive it.  The  *)
(* queries are asked again, or joined where one is already on its way.     *)
openTab(t) ==
    /\ tab # t /\ opened < MaxOpens
    /\ tab' = t /\ opened' = opened + 1
    /\ busy' = Idling /\ drawn' = Idling
    /\ marks' = [k \in Once |-> claimedToday(k)]
    /\ fetch' = IF fetch.at \in {"none", "failed"} THEN AskAgain ELSE fetch
    /\ UNCHANGED <<accountVars, host, call, notes, offered, sent, told, steady>>

(* The web view is closed: nothing is waited for any more.                 *)
reload ==
    /\ tab # "away"
    /\ tab' = "away" /\ busy' = Idling /\ drawn' = Idling
    /\ marks' = [k \in Once |-> FALSE]
    /\ call' = [c \in Tap |-> [call[c] EXCEPT !.visit = 0]]
    /\ offered' = {} /\ fetch' = NoFetch
    /\ UNCHANGED <<accountVars, host, opened, notes, sent, told, steady>>

render ==
    /\ drawn # busy
    /\ drawn' = busy
    /\ UNCHANGED <<accountVars, host, tab, opened, busy, marks, call, notes, cacheVars, sent, told, steady>>

Mounted(c) == tab # "away" /\ call[c].visit = opened
Alive(c) == call[c].visit # 0

-----------------------------------------------------------------------------
(* Taps.                                                                   *)

hasOnchainBonus == host = "celo"
DailyState ==
    IF ~ marks["offchain"] THEN "ready" ELSE IF hasOnchainBonus /\ ~ marks["onchain"] THEN "bonus" ELSE "done"

NextTap(c) == call[c].at = "free" /\ \A d \in 1..(c - 1) : call[d].at # "free"

Begin(c, hook, at, kind, papers) ==
    /\ NextTap(c) /\ ~ drawn[hook]
    /\ busy' = [busy EXCEPT ![hook] = TRUE]
    /\ call' = [call EXCEPT ![c] = [at |-> at, kind |-> kind, visit |-> opened, paper |-> papers, got |-> {}]]
    /\ UNCHANGED <<accountVars, host, tab, opened, drawn, marks, notes, cacheVars, sent, told, steady>>

claimAll(c) ==
    /\ tab = "rewards" /\ host # "celo" /\ offered # {}
    /\ Begin(c, "claim", IF host = "world" THEN "proving" ELSE "posted", "all", {})

claimReceipt(c, p) ==
    /\ tab = "receipts" /\ host = "celo" /\ p \in offered
    /\ Begin(c, "claim", "posted", "single", {p})

claimDaily(c) ==
    /\ tab = "rewards" /\ DailyState # "done"
    /\ Begin(c, "daily", "posted", IF DailyState = "ready" THEN "offchain" ELSE "onchain", {})

-----------------------------------------------------------------------------
(* The server's part of a claim.                                           *)

At(c, at) == call[c].at = at
Becomes(c, at) == call' = [call EXCEPT ![c].at = at]
Settles(c, papers) == call' = [call EXCEPT ![c].at = "settled", ![c].got = papers]
PhoneWaits == UNCHANGED <<host, screenVars, notes, cacheVars, sent, told, steady>>

(* Every claimable receipt; with none, a claim of zero.                    *)
postClaim(c) ==
    /\ At(c, "posted") /\ call[c].kind = "all"
    /\ Settles(c, owed) /\ owed' = {}
    /\ UNCHANGED <<date, taken, others>> /\ PhoneWaits

postClaimSingleCelo(c) ==
    /\ At(c, "posted") /\ call[c].kind = "single"
    /\ IF call[c].paper \subseteq owed
       THEN Settles(c, call[c].paper) /\ owed' = owed \ call[c].paper
       ELSE Becomes(c, "refused") /\ UNCHANGED owed
    /\ UNCHANGED <<date, taken, others>> /\ PhoneWaits

postClaimDaily(c) ==
    /\ At(c, "posted") /\ call[c].kind \in Once
    /\ IF <<call[c].kind, date>> \in taken
       THEN Becomes(c, "already claimed") /\ UNCHANGED taken
       ELSE Settles(c, {}) /\ taken' = taken \cup {<<call[c].kind, date>>}
    /\ UNCHANGED <<date, owed, others>> /\ PhoneWaits

(* No wallet, World ID rejects the proof or cannot be reached, the         *)
(* transaction rolls back, the request is lost - or the answer is.         *)
postFails(c) ==
    /\ At(c, "posted") \/ At(c, "settled")
    /\ Becomes(c, "refused")
    /\ UNCHANGED accountVars /\ PhoneWaits

(* The same wallet on another device.                                      *)
claimElsewhere ==
    /\ owed # {} /\ Len(others) < MaxOthers
    /\ others' = Append(others, owed) /\ owed' = {}
    /\ UNCHANGED <<date, taken, host, screenVars, call, notes, cacheVars, sent, told, steady>>

dailyElsewhere(k) ==
    /\ <<k, date>> \notin taken /\ Len(others) < MaxOthers
    /\ others' = Append(others, {}) /\ taken' = taken \cup {<<k, date>>}
    /\ UNCHANGED <<date, owed, host, screenVars, call, notes, cacheVars, sent, told, steady>>

Running(c) == call[c].at \notin {"free", "over"}

Midnight ==
    /\ date < LastDate
    /\ date' = date + 1
    /\ steady' = (steady /\ ~ \E c \in Tap : Running(c) /\ call[c].kind \in Once)
    /\ UNCHANGED <<owed, taken, others, host, screenVars, call, notes, cacheVars, sent, told>>

-----------------------------------------------------------------------------
(* usePointClaim: what comes back.                                         *)

(* Mutant of Refreshed: nothing is cancelled, a fetch under way will do.   *)
RefreshedUnlessAsked == IF fetch.at \in {"none", "failed"} THEN AskAgain ELSE fetch

(* refetchQueries cancels what is under way and asks again.                *)
Refreshed == AskAgain

(* Mutant of Freed: a closed sheet returns before the release.             *)
FreedUnlessCancelled(c) ==
    IF Mounted(c) /\ call[c].at # "proving" THEN [busy EXCEPT !["claim"] = FALSE] ELSE busy

(* finally: isPending of a screen that is gone is nobody's.                *)
Freed(c) == IF Mounted(c) THEN [busy EXCEPT !["claim"] = FALSE] ELSE busy

ClaimEnds(c, claimed) ==
    /\ Becomes(c, "over")
    /\ busy' = Freed(c)
    /\ fetch' = Refreshed
    /\ told' = IF claimed /\ Mounted(c) THEN told \cup {c} ELSE told
    /\ UNCHANGED <<accountVars, host, tab, opened, drawn, marks, notes, offered, steady>>

Receipts(c) == Alive(c) /\ call[c].kind \in {"all", "single"}

(* MiniKit's sheet: a proof, or it was closed, or it could not be shown.   *)
verify(c) ==
    /\ Receipts(c) /\ At(c, "proving")
    /\ \/ Becomes(c, "posted") /\ UNCHANGED accountVars /\ PhoneWaits
       \/ ClaimEnds(c, FALSE) /\ UNCHANGED sent

(* Mutant of Announces: the server's answer is enough.                     *)
AnnouncesAnything(c) == TRUE

Announces(c) == call[c].kind = "all"

claimAnswered(c) ==
    /\ Receipts(c)
    /\ \/ At(c, "settled") /\ Announces(c) /\ ClaimEnds(c, TRUE)
       \/ At(c, "refused") /\ ClaimEnds(c, FALSE)
    /\ UNCHANGED sent

(* The voucher goes to the wallet.                                         *)
toWallet(c) ==
    /\ Alive(c) /\ At(c, "settled") /\ call[c].kind \in {"single", "onchain"}
    /\ Becomes(c, "signing")
    /\ UNCHANGED accountVars /\ PhoneWaits

(* writeContract: sent, or declined, or failed.                            *)
claimWritten(c, ok) ==
    /\ Receipts(c) /\ At(c, "signing")
    /\ ClaimEnds(c, ok)
    /\ sent' = IF ok THEN sent \cup {c} ELSE sent

-----------------------------------------------------------------------------
(* useDailyClaim: what comes back.  The callbacks of a mutation run also   *)
(* when the screen is gone; only the last mutation of a screen is watched. *)

LastOfScreen(c) ==
    Mounted(c) /\ \A d \in Tap : d > c /\ call[d].kind \in Once => call[d].visit # call[c].visit

DailyEnds(c, noted, claimed, refetch) ==
    LET k == call[c].kind IN
    /\ Becomes(c, "over")
    /\ busy' = IF LastOfScreen(c) THEN [busy EXCEPT !["daily"] = FALSE] ELSE busy
    /\ notes' = IF noted THEN [notes EXCEPT ![k] = date] ELSE notes
    /\ marks' = IF noted /\ Mounted(c) THEN [marks EXCEPT ![k] = TRUE] ELSE marks
    /\ told' = IF claimed /\ Mounted(c) THEN told \cup {c} ELSE told
    /\ fetch' = IF refetch THEN Refreshed ELSE fetch
    /\ UNCHANGED <<accountVars, host, tab, opened, drawn, offered, steady>>

Daily(c) == Alive(c) /\ call[c].kind \in Once

(* Mutant of NotedOn: any answer is taken for "already claimed".           *)
NotedOnAny(c) == call[c].at \in {"already claimed", "refused"}

NotedOn(c) == call[c].at = "already claimed"

(* With no wallet connected the onchain claim ends with the answer.        *)
dailyAnswered(c) ==
    /\ Daily(c)
    /\ \/ At(c, "settled") /\ call[c].kind = "offchain" /\ DailyEnds(c, TRUE, TRUE, TRUE)
       \/ At(c, "settled") /\ call[c].kind = "onchain" /\ DailyEnds(c, FALSE, FALSE, FALSE)
       \/ (At(c, "already claimed") \/ At(c, "refused")) /\ DailyEnds(c, NotedOn(c), FALSE, FALSE)
    /\ UNCHANGED sent

dailyWritten(c, ok) ==
    /\ Daily(c) /\ At(c, "signing")
    /\ DailyEnds(c, ok, ok, TRUE)
    /\ sent' = IF ok THEN sent \cup {c} ELSE sent

-----------------------------------------------------------------------------
(* The cached stat and lists.                                              *)

statServed ==
    /\ fetch.at = "asked"
    /\ fetch' = [at |-> "served", papers |-> owed]
    /\ UNCHANGED <<accountVars, host, screenVars, call, notes, offered, sent, told, steady>>

statArrives ==
    /\ fetch.at = "served"
    /\ offered' = fetch.papers /\ fetch' = NoFetch
    /\ UNCHANGED <<accountVars, host, screenVars, call, notes, sent, told, steady>>

(* An error takes the data's place on the screen only when there was none; *)
(* what was offered stays, and is known to be old.                         *)
statFails ==
    /\ fetch.at \in {"asked", "served"}
    /\ fetch' = [at |-> "failed", papers |-> {}]
    /\ UNCHANGED <<accountVars, host, screenVars, call, notes, offered, sent, told, steady>>

-----------------------------------------------------------------------------
Serve(c) == postClaim(c) \/ postClaimSingleCelo(c) \/ postClaimDaily(c) \/ postFails(c)
Return(c) ==
    \/ verify(c) \/ claimAnswered(c) \/ toWallet(c) \/ dailyAnswered(c)
    \/ \E ok \in BOOLEAN : claimWritten(c, ok) \/ dailyWritten(c, ok)

RewardsNext ==
    \/ \E t \in {"rewards", "receipts"} : openTab(t)
    \/ \E c \in Tap : \/ claimAll(c) \/ claimDaily(c) \/ \E p \in Paper : claimReceipt(c, p)
                      \/ Serve(c) \/ Return(c)
    \/ claimElsewhere \/ \E k \in Once : dailyElsewhere(k)
    \/ statServed \/ statArrives \/ statFails
    \/ reload \/ render \/ Midnight

(* A request is answered or fails, a sheet and a wallet are attended to,   *)
(* and React draws.                                                        *)
RewardsFairness ==
    /\ \A c \in Tap : WF_rewardVars(Serve(c)) /\ WF_rewardVars(Return(c))
    /\ WF_rewardVars(render)

RewardsSpec == RewardsInit /\ [][RewardsNext]_rewardVars /\ RewardsFairness

-----------------------------------------------------------------------------
(* usePointClaim.ts 29-43, point.ts 8-12: what is reported as claimed was  *)
(* credited and, where points are minted, sent by the wallet; no two       *)
(* reports are of one receipt.                                             *)
ToldIsTrue ==
    \A c \in told :
        /\ call[c].kind \in {"single", "onchain"} => c \in sent
        /\ \A d \in told \ {c} : call[c].got \cap call[d].got = {}

(* useDailyClaim.ts 17-20: a note that today's points were taken is true,  *)
(* whether the answer, a lost answer, a second tap or another device was   *)
(* behind it - unless midnight fell into the claim.                        *)
NotesMeanTaken == steady => \A k \in Once : claimedToday(k) => <<k, date>> \in taken

(* usePointClaim.ts 161-163: once every claim of this phone has ended and  *)
(* the lists were read again, no receipt that was claimed here is offered, *)
(* however the claim ended.  What other devices or a closed web view       *)
(* claimed may still be.                                                   *)
AtRest == fetch = NoFetch /\ \A c \in Tap : ~ (Receipts(c) /\ Running(c))
Orphaned == UNION {call[c].got : c \in {d \in Tap : ~ Alive(d)}}
OffersAreReal == AtRest => offered \subseteq owed \cup Orphaned \cup UNION Range(others)

(* What the screens say was claimed was, and what they offer can be.       *)
ScreensAreTrue == ToldIsTrue /\ NotesMeanTaken /\ OffersAreReal

(* usePointClaim.ts, useDailyClaim.ts: no button stays disabled for good,  *)
(* however a claim ends and whatever was tapped meanwhile.                 *)
ButtonsComeBack == \A h \in Hook : drawn[h] ~> ~ drawn[h]
=============================================================================
