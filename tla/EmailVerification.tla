--------------------------- MODULE EmailVerification ---------------------------
(***************************************************************************)
(* Tying a mailbox to a wallet (routes/client/halo.ts) and the screen that *)
(* does it (stores/emailVerification.ts, pages/VerifyEmail.tsx).           *)
(*                                                                         *)
(* A request for a code leaves a row; the newest unverified row of a       *)
(* wallet is the one its codes are compared with.  Every rule of the table *)
(* is a query made before the write: a handler is modelled as its reads    *)
(* and its write, and handlers interleave between them.                    *)
(***************************************************************************)
EXTENDS Integers, Sequences, FiniteSets

CONSTANTS
    User, Chain,
    Platform,           \* [User -> Chain]: users.platform
    Restricted,         \* users on the blacklist
    Typed,              \* what may be typed into the form
    normalizeEmail,     \* [Typed -> mailboxes]: aliases collapse
    AllowedEmail,       \* mailboxes of an allowed domain
    OTP_EXPIRY, COOLDOWN, RATE_LIMIT_WINDOW, RATE_LIMIT_MAX_OTPS, MAX_OTP_ATTEMPTS,
    Visitor,            \* whose screen it is
    Nobody,             \* no row, no address
    MaxClock, MaxRows, MaxElsewhere, MaxMishaps

ASSUME EmailAssumption ==
    /\ Platform \in [User -> Chain] /\ Visitor \in User /\ Nobody \notin Typed
    /\ {OTP_EXPIRY, COOLDOWN, RATE_LIMIT_WINDOW, RATE_LIMIT_MAX_OTPS, MAX_OTP_ATTEMPTS} \subseteq Nat \ {0}

VARIABLES
    minutes,
    rows,      \* halo_email_verifications, oldest first
    request,   \* the handlers at work: the two of the screen, and one from elsewhere
    email,     \* useEmailVerificationStore
    screen,    \* VerifyEmail: which step, and whether it verified just now
    tries, elsewhere, mishaps \* history: wrong codes by row; requests from elsewhere; overlaps and losses

emailVars == <<minutes, rows, request, email, screen, tries, elsewhere, mishaps>>

Slot == {"status", "form", "other"}
Free == [at |-> "free", kind |-> "none", user |-> Visitor, chain |-> Platform[Visitor], address |-> Nobody, code |-> 0, row |-> 0, seen |-> 0, reply |-> "none"]
Mishap(n) == mishaps + n <= MaxMishaps /\ mishaps' = mishaps + n
calm == mishaps = 0
Quiescent == \A s \in Slot : request[s].at = "free"

Numbers == 1 .. Len(rows)
Verified(chain) == {i \in Numbers : rows[i].chain = chain /\ rows[i].isVerified}
VerifiedBy(user, chain) == {i \in Verified(chain) : rows[i].user = user}
HeldBy(address, chain) == {i \in Verified(chain) : rows[i].email = address}
Pending(user, chain) == {i \in Numbers : rows[i].user = user /\ rows[i].chain = chain /\ ~ rows[i].isVerified}
Latest(set) == IF set = {} THEN 0 ELSE CHOOSE i \in set : \A j \in set : j <= i

-----------------------------------------------------------------------------
(* The handlers.                                                           *)

Goes(s, at) == request' = [request EXCEPT ![s].at = at]
\* of a request from elsewhere only the rows are of interest
Answers(s, reply, row) ==
    request' = [request EXCEPT ![s] = IF s = "other" THEN Free
                ELSE [Free EXCEPT !.at = "back", !.kind = request[s].kind, !.reply = reply, !.row = row]]
Replies(s, reply) == Answers(s, reply, 0)

Mailbox(typed) == normalizeEmail[typed]
isDomainAllowed(address) == address \in AllowedEmail
(* The mail leaves, or the answer says that it did not.                    *)
sendOtpEmail(s) == Answers(s, "ok", Len(rows')) \/ Replies(s, "mail failed")

(* The queries of send-code, one after the other.                          *)
AlreadyVerified(r) == VerifiedBy(r.user, r.chain) # {}
EmailUsed(address, chain) == HeldBy(address, chain) # {}
SentSince(user, chain, t) == {i \in Numbers : rows[i].user = user /\ rows[i].chain = chain /\ rows[i].sentAt > t}
RateLimitedLate(recent) == Cardinality(recent) > RATE_LIMIT_MAX_OTPS \* the mistake: one more
RateLimited(recent) == Cardinality(recent) >= RATE_LIMIT_MAX_OTPS
CoolingDown(recent) == recent # {} /\ minutes - rows[Latest(recent)].sentAt < COOLDOWN

SendAdmits(s) ==
    LET r == request[s] IN
    /\ r.at = "sent" /\ r.kind = "send"
    /\ IF r.user \in Restricted \/ Platform[r.user] # r.chain \/ ~ isDomainAllowed(r.address) \/ AlreadyVerified(r)
       THEN Replies(s, "refused")
       ELSE Goes(s, "admitted")
    /\ UNCHANGED <<rows, tries>>
SendChecksEmail(s) ==
    LET r == request[s] IN
    /\ r.at = "admitted"
    /\ IF EmailUsed(r.address, r.chain) THEN Replies(s, "refused") ELSE Goes(s, "unused")
    /\ UNCHANGED <<rows, tries>>
SendChecksRate(s) ==
    LET r == request[s] IN
    LET recent == SentSince(r.user, r.chain, minutes - RATE_LIMIT_WINDOW) IN
    /\ r.at = "unused"
    /\ IF RateLimited(recent) \/ CoolingDown(recent) THEN Replies(s, "refused") ELSE Goes(s, "allowed")
    /\ UNCHANGED <<rows, tries>>
(* The row is written, then the mail leaves or does not.                   *)
SendWrites(s) ==
    LET r == request[s] IN
    /\ r.at = "allowed" /\ Len(rows) < MaxRows
    /\ rows' = Append(rows, [user |-> r.user, chain |-> r.chain, email |-> r.address, sentAt |-> minutes,
                             expiresAt |-> minutes + OTP_EXPIRY, attempts |-> 0, isVerified |-> FALSE])
    /\ tries' = Append(tries, 0)
    /\ sendOtpEmail(s)

(* verify-code.  The code of a row is its number; 0 is a wrong one.        *)
CodeExpired(row) == row.expiresAt < minutes
Exhausted(row) == row.attempts >= MAX_OTP_ATTEMPTS
VerifyReads(s) ==
    LET r == request[s] IN
    LET i == Latest(Pending(r.user, r.chain)) IN
    /\ r.at = "sent" /\ r.kind = "verify"
    /\ IF i = 0 \/ (i # 0 /\ (CodeExpired(rows[i]) \/ Exhausted(rows[i])))
       THEN Replies(s, "refused")
       ELSE request' = [request EXCEPT ![s] = [r EXCEPT !.at = IF r.code = i THEN "match" ELSE "wrong",
                                                        !.code = 0, !.row = i, !.seen = rows[i].attempts]]
    /\ UNCHANGED <<rows, tries>>
CountedOnce(seen) == 1 \* the mistake: a wrong code is noted, not counted
CountedFrom(seen) == seen + 1
VerifyCounts(s) ==
    LET r == request[s] IN
    /\ r.at = "wrong"
    /\ rows' = [rows EXCEPT ![r.row].attempts = CountedFrom(r.seen)]
    /\ tries' = [tries EXCEPT ![r.row] = @ + 1]
    /\ Replies(s, "invalid")
NeverMindNow(address, chain) == FALSE \* the mistake: the check made when the code was asked for is enough
EmailNowUsed(address, chain) == HeldBy(address, chain) # {}
VerifyRechecks(s) ==
    LET r == request[s] IN
    /\ r.at = "match"
    /\ IF EmailNowUsed(rows[r.row].email, r.chain) THEN Replies(s, "refused") ELSE Goes(s, "free to keep")
    /\ UNCHANGED <<rows, tries>>
VerifyWrites(s) ==
    LET r == request[s] IN
    /\ r.at = "free to keep"
    /\ rows' = [rows EXCEPT ![r.row].isVerified = TRUE]
    /\ Replies(s, "ok")
    /\ UNCHANGED tries

(* GET status: whether there is a verified row.                            *)
ReadStatus(s) ==
    LET r == request[s] IN
    /\ r.at = "sent" /\ r.kind = "status"
    /\ Replies(s, IF AlreadyVerified(r) THEN "ok" ELSE "none")
    /\ UNCHANGED <<rows, tries>>

Handles(s) ==
    /\ \/ SendAdmits(s) \/ SendChecksEmail(s) \/ SendChecksRate(s) \/ SendWrites(s)
       \/ VerifyReads(s) \/ VerifyCounts(s) \/ VerifyRechecks(s) \/ VerifyWrites(s)
       \/ ReadStatus(s)
    /\ UNCHANGED <<minutes, email, screen, elsewhere, mishaps>>

(* The answer never arrives, or the request never did; a handler already   *)
(* at work goes on unheard only as "other".                                *)
LoseAnswer(s) ==
    /\ request[s].at \in {"sent", "back"} /\ request[s].reply # "lost"
    /\ Replies(s, "lost")
    /\ Mishap(1)
    /\ UNCHANGED <<minutes, rows, email, screen, tries, elsewhere>>

-----------------------------------------------------------------------------
(* The screen and its store.                                               *)

\* every handler begins by reading its input: spellings are gone from here on
Asks(s, kind, user, chain, typed, code) ==
    /\ request[s].at = "free"
    /\ request' = [request EXCEPT ![s] = [Free EXCEPT !.at = "sent", !.kind = kind, !.user = user,
                                          !.chain = chain, !.code = code,
                                          !.address = IF typed = Nobody THEN Nobody ELSE Mailbox(typed)]]
    /\ Mishap(IF Quiescent THEN 0 ELSE 1)
Here == Platform[Visitor]
Back(s, kind) == request[s].at = "back" /\ request[s].kind = kind
Frees(s) == request' = [request EXCEPT ![s] = Free]
Outside == <<minutes, rows, tries, elsewhere>>

(* VerifyEmail mounts: the store is the one of the last visit.             *)
Arrive ==
    /\ screen.step = "away"
    /\ screen' = [step |-> "email", justVerified |-> FALSE, mine |-> FALSE]
    /\ email' = [email EXCEPT !.isLoading = TRUE]
    /\ Asks("status", "status", Visitor, Here, Nobody, 0)
    /\ UNCHANGED Outside
checkStatus ==
    LET r == request["status"] IN
    /\ Back("status", "status") /\ Frees("status")
    /\ email' = IF r.reply = "lost" THEN [email EXCEPT !.isLoading = FALSE]
                ELSE [email EXCEPT !.isLoading = FALSE, !.isVerified = (r.reply = "ok")]
    /\ UNCHANGED <<screen, mishaps, Outside>>

(* The buttons and boxes each step shows, and when they are live.          *)
CanSend == screen.step = "email" /\ ~ email.isLoading
CanEnter == screen.step = "otp" /\ ~ email.isLoading

(* handleSendCode, with a CAPTCHA token in hand.                           *)
handleSendCode(typed) ==
    /\ CanSend
    /\ email' = [email EXCEPT !.isLoading = TRUE]
    /\ screen' = [screen EXCEPT !.mine = TRUE]
    /\ Asks("form", "send", Visitor, Here, typed, 0)
    /\ UNCHANGED Outside
RemainingKept == IF email.attemptsRemaining = 0 THEN MAX_OTP_ATTEMPTS ELSE email.attemptsRemaining \* the mistake: only an empty hint is filled
RemainingAfresh == MAX_OTP_ATTEMPTS
sendCode ==
    /\ Back("form", "send") /\ Frees("form")
    /\ IF request["form"].reply = "ok"
       THEN /\ email' = [email EXCEPT !.isLoading = FALSE, !.attemptsRemaining = RemainingAfresh,
                              !.cooldownUntil = rows[request["form"].row].sentAt + COOLDOWN]
            /\ screen' = IF screen.mine THEN [screen EXCEPT !.step = "otp"] ELSE screen
       ELSE email' = [email EXCEPT !.isLoading = FALSE] /\ UNCHANGED screen
    /\ UNCHANGED <<mishaps, Outside>>

(* The sixth digit, or a paste.                                            *)
handleVerifyCode(code) ==
    /\ CanEnter
    /\ email' = [email EXCEPT !.isLoading = TRUE]
    /\ screen' = [screen EXCEPT !.mine = TRUE]
    /\ Asks("form", "verify", Visitor, Here, Nobody, code)
    /\ UNCHANGED Outside
(* The store is told, and then the screen that awaited it.  Whether React  *)
(* runs the effect below in between is not the screen's to say.            *)
OneLess(remaining) == IF remaining = 0 THEN 0 ELSE remaining - 1
verifyCode ==
    LET r == request["form"] IN
    /\ Back("form", "verify")
    /\ IF r.reply = "ok"
       THEN /\ email' = [email EXCEPT !.isLoading = FALSE, !.isVerified = TRUE]
            /\ Goes("form", "resolved")
       ELSE /\ email' = [email EXCEPT !.isLoading = FALSE,
                  !.attemptsRemaining = IF r.reply = "invalid" THEN OneLess(@) ELSE @]
            /\ Frees("form")
    /\ UNCHANGED <<screen, mishaps, Outside>>
VerifyContinues ==
    /\ request["form"].at = "resolved" /\ Frees("form")
    /\ screen' = IF screen.mine THEN [screen EXCEPT !.step = "success", !.justVerified = TRUE] ELSE screen
    /\ UNCHANGED <<email, mishaps, Outside>>

Away == [step |-> "away", justVerified |-> FALSE, mine |-> FALSE]
RedirectWhenVerified ==
    /\ screen.step # "away" /\ email.isVerified /\ ~ screen.justVerified
    /\ screen' = Away
    /\ UNCHANGED <<email, request, mishaps, Outside>>
handleResendCode ==
    /\ CanEnter /\ email.cooldownUntil <= minutes
    /\ screen' = [screen EXCEPT !.step = "email"]
    /\ UNCHANGED <<email, request, mishaps, Outside>>
handleBack ==
    /\ screen.step # "away"
    /\ screen' = IF screen.step = "otp" THEN [screen EXCEPT !.step = "email"] ELSE Away
    /\ UNCHANGED <<email, request, mishaps, Outside>>

(* Another device, or another wallet.                                      *)
Elsewhere(kind, user, chain, typed, code) ==
    /\ elsewhere[user] < MaxElsewhere[user]
    /\ elsewhere' = [elsewhere EXCEPT ![user] = @ + 1]
    /\ Asks("other", kind, user, chain, typed, code)
    /\ UNCHANGED <<minutes, rows, email, screen, tries>>
EmailTick == minutes < MaxClock /\ minutes' = minutes + 1 /\ UNCHANGED <<rows, request, email, screen, tries, elsewhere, mishaps>>

-----------------------------------------------------------------------------
EmailInit ==
    /\ minutes = 0 /\ rows = <<>> /\ tries = <<>>
    /\ request = [s \in Slot |-> Free]
    /\ email = [isVerified |-> FALSE, isLoading |-> FALSE, cooldownUntil |-> 0, attemptsRemaining |-> 0]
    /\ screen = Away
    /\ elsewhere = [u \in User |-> 0] /\ mishaps = 0

EmailNext ==
    \/ \E s \in Slot : Handles(s) \/ LoseAnswer(s)
    \/ Arrive \/ checkStatus \/ sendCode \/ verifyCode \/ VerifyContinues
    \/ RedirectWhenVerified \/ handleResendCode \/ handleBack
    \/ \E t \in Typed : handleSendCode(t)
    \/ \E c \in 0 .. Len(rows) : handleVerifyCode(c)
    \/ \E u \in User, ch \in Chain, t \in Typed : Elsewhere("send", u, ch, t, 0)
    \/ \E u \in User, ch \in Chain, c \in 0 .. Len(rows) : Elsewhere("verify", u, ch, Nobody, c)
    \/ EmailTick

EmailSpec == EmailInit /\ [][EmailNext]_emailVars

-----------------------------------------------------------------------------
(* Properties.  calm: no two requests overlapped and none was lost.        *)

(* halo.ts 557: a mailbox, whatever its spelling, belongs to one wallet on *)
(* a chain.                                                                *)
OneOwnerPerMailbox ==
    calm => \A ch \in Chain, m \in {normalizeEmail[t] : t \in Typed} : Cardinality(HeldBy(m, ch)) <= 1

(* halo.ts 16-25: no code is guessed at more often than allowed, and none  *)
(* is sent too soon, or too often, after the last.                         *)
GuessesWithinLimit == calm => \A i \in Numbers : tries[i] <= MAX_OTP_ATTEMPTS
CodesWithinLimit ==
    calm => \A i \in Numbers :
        LET before == {j \in SentSince(rows[i].user, rows[i].chain, rows[i].sentAt - RATE_LIMIT_WINDOW) : j <= i} IN
        /\ Cardinality(before) <= RATE_LIMIT_MAX_OTPS
        /\ \A j \in before \ {i} : rows[i].sentAt - rows[j].sentAt >= COOLDOWN

(* stores/emailVerification.ts: the number of attempts the screen counts   *)
(* down on its own is the server's, as long as the person uses one device. *)
HintIsTheServers ==
    calm /\ elsewhere[Visitor] = 0 /\ Quiescent /\ screen.step = "otp" =>
        email.attemptsRemaining = MAX_OTP_ATTEMPTS - rows[Latest(Pending(Visitor, Here))].attempts

(* halo.ts 16-25: neither guessing nor asking again gets round the limits, *)
(* and the screen tells how many guesses are left.                         *)
LimitsHold == GuessesWithinLimit /\ CodesWithinLimit /\ HintIsTheServers

(* A mailbox vouches for one wallet, and the codes that prove it are       *)
(* neither guessed nor asked for beyond what halo.ts 16-25 allows.         *)
MailboxRulesHold == OneOwnerPerMailbox /\ LimitsHold

(* schema/halo-email-verifications.ts 55: one verified email per user per  *)
(* chain.                                                                  *)
OneEmailPerWallet ==
    calm => \A u \in User, ch \in Chain : Cardinality(VerifiedBy(u, ch)) <= 1
=============================================================================
