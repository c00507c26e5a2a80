----------------------------- MODULE WalletSession -----------------------------
(***************************************************************************)
(* Signing in with a wallet, from both ends.                               *)
(*                                                                         *)
(* The server (routes/client/auth.ts, lib/siwe.ts, lib/jwt.ts) hands out   *)
(* nonces, turns a message signed by a wallet into a pair of tokens, and a *)
(* refresh token into another pair.  It remembers none of them: a nonce is *)
(* good for ever, a token until it expires.                                *)
(*                                                                         *)
(* The mini app (stores/auth.ts, lib/api/client.ts, App.tsx) keeps what it *)
(* believes of the session in a store that survives a reload, while the    *)
(* cookie lives in the browser.  Its calls overlap, are lost, and renew    *)
(* the session on their way when they are answered 401.                    *)
(***************************************************************************)
EXTENDS Integers, FiniteSets

CONSTANTS
    Wallet,      \* addresses
    Account,     \* those the person's own wallet can sign for
    Contract,    \* the addresses that are contracts
    WorldUser,   \* the addresses World App knows by name
    Host,        \* the one this page runs in
    Nonce,       \* the nonces the server may hand out
    Query,       \* authenticated requests a screen has open beside the session's own
    ACCESS_TTL, REFRESH_TTL,
    MESSAGE_TTL, \* SIWE_MESSAGE_TTL_MS
    MAX_LIFETIME,\* SIWE_MAX_MESSAGE_LIFETIME_MS
    Foreign,     \* messages the wallets have signed for other sites, chains and nonces
    None,        \* no cookie, no user
    MaxNow, MaxBoots

Platform == {"world", "celo", "kaia"}

ASSUME SessionAssumption ==
    /\ {ACCESS_TTL, REFRESH_TTL, MESSAGE_TTL, MAX_LIFETIME} \subseteq Nat \ {0}
    /\ ACCESS_TTL <= REFRESH_TTL /\ MESSAGE_TTL <= MAX_LIFETIME
    /\ Host \in Platform /\ Contract \subseteq Wallet /\ Account \subseteq Wallet /\ None \notin Wallet
    /\ Query \cap {"boot", "enter", "leave"} = {}
    /\ None \notin [sub : Wallet, access : Int, refresh : Int] \* no cookie is no pair of tokens

VARIABLES
    now,
    nonces,    \* nonces handed out
    signed,    \* messages the wallets have signed
    users,     \* addresses with a row in users
    minted,    \* when the server last issued a session to each address; -1: never
    cookie,    \* the browser's pair of cookies
    store,     \* useAuthStore, and what of it is persisted
    task,      \* how far checkSession, signIn and signOut have come
    call,      \* the one apiFetch each of them has open
    exchange,  \* refresh requests in flight, by the call that started each
    url,       \* "deep", "root", "ledger"
    boots, quiet, asked \* history: page loads; no call overlapped another or failed; the link opened, till signing in or out

pageVars == <<store, task, url>>
netVars == <<call, exchange>>
serverVars == <<nonces, users, minted>>
history == <<boots, quiet, asked>>
sessionVars == <<now, serverVars, signed, cookie, pageVars, netVars, history>>

Caller == {"boot", "enter", "leave"} \cup Query

Idle == [at |-> "none", path |-> "none", with |-> None, body |-> None, tried |-> FALSE, reply |-> None]
NoExchange == [at |-> "none", with |-> None, reply |-> None]
Resting == \A c \in Caller : task[c] = "idle"

-----------------------------------------------------------------------------
(* The server.                                                             *)

(* A message names the wallet it speaks for, the nonce, the host that asks *)
(* and the chain, and its times.  chain stands for chain id and statement, *)
(* which go together.                                                      *)
AddressMatches(m, claimed) == m.address = claimed
NonceMatches(m, nonce) == m.nonce = nonce
allowedDomainsFor == {"halo"}
SiteMatches(m, platform) == m.domain \in allowedDomainsFor /\ m.chain = platform
FreshForEver(m) == m.expires - m.issued <= MAX_LIFETIME \* the mistake: no look at the clock
Fresh(m) ==
    /\ m.notBefore <= now /\ now < m.expires
    /\ m.expires - m.issued <= MAX_LIFETIME

(* Everything decided from the text, before any wallet is consulted.       *)
assertSiweFields(m, claimed, nonce, platform) ==
    /\ AddressMatches(m, claimed)
    /\ NonceMatches(m, nonce)
    /\ SiteMatches(m, platform)
    /\ Fresh(m)

(* Did this wallet sign it: World App's wallets are contracts and are      *)
(* asked, MiniPay's are keys and are recovered, Kaia's may be either.      *)
SignatureOfAnyone(m, claimed) == TRUE \* the mistake: a nonce of ours is proof enough
SignatureProves(m, claimed) == m.signer = claimed
verifyWorld(m, claimed, nonce) ==
    assertSiweFields(m, claimed, nonce, "world") /\ claimed \in Contract /\ SignatureProves(m, claimed)
verifyCelo(m, claimed, nonce) ==
    assertSiweFields(m, claimed, nonce, "celo") /\ claimed \notin Contract /\ SignatureProves(m, claimed)
verifyKaia(m, claimed, nonce) ==
    assertSiweFields(m, claimed, nonce, "kaia") /\ SignatureProves(m, claimed)

isNonceOurs(nonce) == nonce \in nonces

(* The three doors.  World also wants to know the address by name.         *)
fetchWorldUser(claimed) == claimed \in WorldUser
worldComplete(m, claimed, nonce) ==
    isNonceOurs(nonce) /\ verifyWorld(m, claimed, nonce) /\ fetchWorldUser(claimed)
celoConnect(m, claimed, nonce) == isNonceOurs(nonce) /\ verifyCelo(m, claimed, nonce)
kaiaComplete(m, claimed, nonce) == isNonceOurs(nonce) /\ verifyKaia(m, claimed, nonce)
Admits(platform, m, claimed, nonce) ==
    \/ platform = "world" /\ worldComplete(m, claimed, nonce)
    \/ platform = "celo" /\ celoConnect(m, claimed, nonce)
    \/ platform = "kaia" /\ kaiaComplete(m, claimed, nonce)

Pair(a) == [sub |-> a, access |-> now + ACCESS_TTL, refresh |-> now + REFRESH_TTL]

(* issueSession, after the row of the user was written.                    *)
issueSession(a) == minted' = [minted EXCEPT ![a] = now]

verifyAccessToken(with) == with # None /\ now < with.access
verifyRefreshToken(with) == with # None /\ now < with.refresh

\* set holds what the answer puts into the jar; None takes the pair out
Answer(code, user, set) == [code |-> code, user |-> user, set |-> set]
Refused(code) == Answer(code, None, {})

(* GET nonce: any that has not been handed out.                            *)
ServeNonce(c) ==
    \E n \in Nonce \ nonces :
        /\ nonces' = nonces \cup {n}
        /\ call' = [call EXCEPT ![c].at = "back", ![c].reply = Answer("ok", n, {})]
        /\ UNCHANGED <<users, minted>>

(* POST complete, connect: the username lookup and the upsert may fail.    *)
ServeComplete(c) ==
    LET b == call[c].body IN
    \/ /\ Admits(Host, b.message, b.claimed, b.nonce)
       /\ users' = users \cup {b.claimed}
       /\ issueSession(b.claimed)
       /\ call' = [call EXCEPT ![c].at = "back", ![c].reply = Answer("ok", None, {Pair(b.claimed)})]
       /\ UNCHANGED nonces
    \/ /\ call' = [call EXCEPT ![c].at = "back", ![c].reply = Refused("400")]
       /\ UNCHANGED serverVars

(* GET status.                                                             *)
ServeStatus(c) ==
    LET w == call[c].with IN
    /\ call' = [call EXCEPT ![c].at = "back", ![c].reply =
          CASE ~ verifyAccessToken(w) -> Refused("401")
            [] verifyAccessToken(w) /\ w.sub \notin users -> Refused("404")
            [] OTHER -> Answer("ok", w.sub, {})]
    /\ UNCHANGED serverVars

(* POST revoke: removes the browser's copy and nothing else.               *)
ServeRevoke(c) ==
    /\ call' = [call EXCEPT ![c].at = "back", ![c].reply =
          IF verifyAccessToken(call[c].with) THEN Answer("ok", None, {None}) ELSE Refused("401")]
    /\ UNCHANGED serverVars

(* Any other authenticated request.                                        *)
ServeQuery(c) ==
    /\ call' = [call EXCEPT ![c].at = "back", ![c].reply =
          IF verifyAccessToken(call[c].with) THEN Answer("ok", None, {}) ELSE Refused("401")]
    /\ UNCHANGED serverVars

Serve(c) ==
    /\ call[c].at = "sent"
    /\ \/ call[c].path = "nonce" /\ ServeNonce(c)
       \/ call[c].path = "complete" /\ ServeComplete(c)
       \/ call[c].path = "status" /\ ServeStatus(c)
       \/ call[c].path = "revoke" /\ ServeRevoke(c)
       \/ call[c].path = "query" /\ ServeQuery(c)
    /\ UNCHANGED <<now, signed, cookie, pageVars, exchange, history>>

(* POST refresh.                                                           *)
ServeRefresh(c) ==
    LET w == exchange[c].with IN
    /\ exchange[c].at = "sent"
    /\ IF verifyRefreshToken(w)
       THEN /\ issueSession(w.sub)
            /\ exchange' = [exchange EXCEPT ![c].at = "back", ![c].reply = Answer("ok", None, {Pair(w.sub)})]
       ELSE /\ exchange' = [exchange EXCEPT ![c].at = "back", ![c].reply = Refused("401")]
            /\ UNCHANGED minted
    /\ UNCHANGED <<now, nonces, users, signed, cookie, pageVars, call, history>>

(* The same endpoint called from elsewhere: another device, a late or      *)
(* repeated submission.  Any signed message, under any claim.              *)
CompleteElsewhere(m, claimed, nonce, platform) ==
    /\ Admits(platform, m, claimed, nonce)
    /\ users' = users \cup {claimed}
    /\ issueSession(claimed)
    /\ UNCHANGED <<now, nonces, signed, cookie, pageVars, netVars, history>>

-----------------------------------------------------------------------------
(* lib/api/client.ts.                                                      *)

(* apiFetch: the request leaves with the cookies of the moment.            *)
Send(c, path, body) ==
    [call EXCEPT ![c] = [Idle EXCEPT !.at = "sent", !.path = path, !.with = cookie, !.body = body]]

(* The browser's part of an answer.                                        *)
Kept(set) == IF set = {} THEN cookie ELSE CHOOSE jar \in set : TRUE

(* refreshSession: join the renewal under way, or start one.               *)
Renewing == {d \in Caller : exchange[d].at # "none"}
JoinsNobody(c) == {c} \* the mistake: each 401 renews for itself
Joins(c) == IF Renewing = {} THEN {c} ELSE Renewing
Renewal(c) ==
    IF c \in Joins(c) /\ exchange[c].at = "none"
    THEN [exchange EXCEPT ![c] = [NoExchange EXCEPT !.at = "sent", !.with = cookie]]
    ELSE exchange

(* An answer arrives.  A first 401 waits for the renewal.                  *)
Receive(c) ==
    LET r == call[c].reply IN
    /\ call[c].at = "back"
    /\ cookie' = Kept(r.set)
    /\ IF r.code = "401" /\ ~ call[c].tried
       THEN /\ call' = [call EXCEPT ![c].at = "waits", ![c].tried = TRUE]
            /\ exchange' = Renewal(c)
       ELSE /\ call' = [call EXCEPT ![c].at = "done"]
            /\ UNCHANGED exchange
    /\ UNCHANGED <<now, serverVars, signed, pageVars, history>>

(* fetch rejects: offline, timed out, cut off on the way there or back.    *)
Lose(c) ==
    /\ call[c].at \in {"sent", "back"}
    /\ call' = [call EXCEPT ![c].at = "done", ![c].reply = Refused("lost")]
    /\ quiet' = FALSE
    /\ UNCHANGED <<now, serverVars, signed, cookie, pageVars, exchange, boots, asked>>

(* The renewal is over: everybody who joined it sends again, or gives up.  *)
Waiting(d) == {c \in Caller : call[c].at = "waits" /\ d \in Joins(c)}
Resume(d, ok, jar) ==
    call' = [c \in Caller |->
        IF c \notin Waiting(d) THEN call[c]
        ELSE IF ok THEN [call[c] EXCEPT !.at = "sent", !.with = jar]
        ELSE [call[c] EXCEPT !.at = "done"]]
Renewed(d) ==
    LET r == exchange[d].reply IN
    /\ exchange[d].at = "back"
    /\ cookie' = Kept(r.set)
    /\ Resume(d, r.code = "ok", Kept(r.set))
    /\ exchange' = [exchange EXCEPT ![d] = NoExchange]
    /\ UNCHANGED <<now, serverVars, signed, pageVars, history>>
RenewalLost(d) ==
    /\ exchange[d].at \in {"sent", "back"}
    /\ Resume(d, FALSE, cookie)
    /\ exchange' = [exchange EXCEPT ![d] = NoExchange]
    /\ quiet' = FALSE
    /\ UNCHANGED <<now, serverVars, signed, cookie, pageVars, boots, asked>>

Done(c) == call[c].at = "done"
Ok(c) == Done(c) /\ call[c].reply.code = "ok"
Failed(c) == Done(c) /\ call[c].reply.code # "ok"

-----------------------------------------------------------------------------
(* App.tsx: what is shown, and where the address bar ends up.              *)

InitialStore == [isLoading |-> FALSE, isAuthenticated |-> FALSE, sessionChecked |-> FALSE, user |-> None]

(* The blank fallback: nothing is routed until there is an answer.         *)
HeldNever(s) == FALSE \* the mistake: unchecked is signed out
Held(s) == ~ s.sessionChecked /\ ~ s.isAuthenticated
Routed(s, at) ==
    CASE Held(s) -> at
      [] ~ Held(s) /\ ~ s.isAuthenticated -> "root"
      [] ~ Held(s) /\ s.isAuthenticated /\ at = "root" -> "ledger"
      [] OTHER -> at

Set(s) == store' = s /\ url' = Routed(s, url)

SignedOutUnanswered(s) == [s EXCEPT !.isAuthenticated = FALSE, !.isLoading = FALSE, !.user = None] \* the mistake: a failed check is no answer
SignedOut(s) == [s EXCEPT !.isAuthenticated = FALSE, !.sessionChecked = TRUE, !.isLoading = FALSE, !.user = None]

(* The end of checkSession.                                                *)
CheckedWithoutUser(c) == \* the mistake: the answer only says that there is a session
    IF Ok(c) THEN Set([store EXCEPT !.isAuthenticated = TRUE, !.sessionChecked = TRUE, !.isLoading = FALSE])
    ELSE Set(SignedOut(store))
Checked(c) ==
    IF Ok(c) THEN Set([store EXCEPT !.isAuthenticated = TRUE, !.sessionChecked = TRUE, !.isLoading = FALSE, !.user = call[c].reply.user])
    ELSE Set(SignedOut(store))

(* A step of a task: from one stage to the next, with a call or without.   *)
Begins(c, stage) ==
    /\ task' = [task EXCEPT ![c] = stage]
    /\ quiet' = (quiet /\ Resting)

(* The page is loaded: the store keeps what was persisted, checkSession    *)
(* starts, and whatever the last page had open is gone.                    *)
Boot(where) ==
    /\ boots < MaxBoots
    /\ boots' = boots + 1 /\ quiet' = TRUE /\ asked' = where
    /\ LET s == [InitialStore EXCEPT !.isAuthenticated = store.isAuthenticated, !.user = store.user] IN
       /\ store' = s
       /\ url' = Routed(s, where)
    /\ task' = [c \in Caller |-> IF c = "boot" THEN "status" ELSE "idle"]
    /\ call' = [c \in Caller |-> IF c = "boot" THEN [Idle EXCEPT !.at = "sent", !.path = "status", !.with = cookie] ELSE Idle]
    /\ exchange' = [c \in Caller |-> NoExchange]
    /\ UNCHANGED <<now, serverVars, signed, cookie>>

checkSession ==
    /\ task["boot"] = "status" /\ Done("boot")
    /\ Checked("boot")
    /\ task' = [task EXCEPT !["boot"] = "idle"]
    /\ call' = [call EXCEPT !["boot"] = Idle]
    /\ UNCHANGED <<now, serverVars, signed, cookie, exchange, history>>

-----------------------------------------------------------------------------
(* signIn.                                                                 *)

(* The login screen's button; signInInFlight is task["enter"].             *)
signIn ==
    /\ url = "root" /\ ~ store.isAuthenticated /\ ~ store.isLoading
    /\ task["enter"] = "idle"
    /\ Begins("enter", "nonce")
    /\ store' = [store EXCEPT !.isLoading = TRUE]
    /\ call' = Send("enter", "nonce", None)
    /\ asked' = "root"
    /\ UNCHANGED <<now, serverVars, signed, cookie, url, exchange, boots>>

(* The wallet: the account it has open signs what the page wrote.          *)
Message(a, n) ==
    [signer |-> a, address |-> a, nonce |-> n, domain |-> "halo", chain |-> Host,
     issued |-> now, notBefore |-> now, expires |-> now + MESSAGE_TTL]
WalletSigns(a) ==
    LET n == call["enter"].reply.user IN
    LET m == Message(a, n) IN
    /\ task["enter"] = "nonce" /\ Ok("enter")
    /\ signed' = signed \cup {m}
    /\ task' = [task EXCEPT !["enter"] = "complete"]
    /\ call' = Send("enter", "complete", [message |-> m, claimed |-> a, nonce |-> n])
    /\ UNCHANGED <<now, serverVars, cookie, store, url, exchange, history>>

(* submitSignIn succeeded: on to checkSession.                             *)
SignInCompleted ==
    /\ task["enter"] = "complete" /\ Ok("enter")
    /\ task' = [task EXCEPT !["enter"] = "status"]
    /\ call' = Send("enter", "status", None)
    /\ UNCHANGED <<now, serverVars, signed, cookie, store, url, exchange, history>>

SignInChecked ==
    /\ task["enter"] = "status" /\ Done("enter")
    /\ Checked("enter")
    /\ task' = [task EXCEPT !["enter"] = "idle"]
    /\ call' = [call EXCEPT !["enter"] = Idle]
    /\ UNCHANGED <<now, serverVars, signed, cookie, exchange, history>>

(* The catch: no nonce, a prompt declined, a message refused.              *)
GivesUp ==
    /\ Set([store EXCEPT !.isAuthenticated = FALSE, !.isLoading = FALSE])
    /\ task' = [task EXCEPT !["enter"] = "idle"]
    /\ call' = [call EXCEPT !["enter"] = Idle]
    /\ UNCHANGED <<now, serverVars, signed, cookie, exchange, history>>
SignInFailed == task["enter"] \in {"nonce", "complete"} /\ Failed("enter") /\ GivesUp
WalletDeclines == task["enter"] = "nonce" /\ Ok("enter") /\ GivesUp

-----------------------------------------------------------------------------
(* signOut.                                                                *)

signOut ==
    /\ store.isAuthenticated /\ task["leave"] = "idle"
    /\ Begins("leave", "disconnect")
    /\ asked' = "root"
    /\ store' = [store EXCEPT !.isLoading = TRUE]
    /\ UNCHANGED <<now, serverVars, signed, cookie, url, netVars, boots>>

(* The race is over: the wallet let go, would not, or five seconds passed. *)
Disconnected ==
    /\ task["leave"] = "disconnect"
    /\ task' = [task EXCEPT !["leave"] = "revoke"]
    /\ call' = Send("leave", "revoke", None)
    /\ UNCHANGED <<now, serverVars, signed, cookie, store, url, exchange, history>>

Revoked ==
    /\ task["leave"] = "revoke" /\ Done("leave")
    /\ Set(SignedOut(store))
    /\ task' = [task EXCEPT !["leave"] = "idle"]
    /\ call' = [call EXCEPT !["leave"] = Idle]
    /\ UNCHANGED <<now, serverVars, signed, cookie, exchange, history>>

(* A screen asks for its data.                                             *)
Ask(q) ==
    /\ store.isAuthenticated /\ task[q] = "idle"
    /\ Begins(q, "query")
    /\ call' = Send(q, "query", None)
    /\ UNCHANGED <<now, serverVars, signed, cookie, store, url, exchange, boots, asked>>
Asked(q) ==
    /\ task[q] = "query" /\ Done(q)
    /\ task' = [task EXCEPT ![q] = "idle"]
    /\ call' = [call EXCEPT ![q] = Idle]
    /\ UNCHANGED <<now, serverVars, signed, cookie, store, url, exchange, history>>

-----------------------------------------------------------------------------
SessionTick ==
    /\ now < MaxNow /\ now' = now + 1
    \* a unit is days: no token expires between a renewal and the retry it was for
    /\ quiet' = (quiet /\ \A c \in Caller : ~ call[c].tried)
    /\ UNCHANGED <<serverVars, signed, cookie, pageVars, netVars, boots, asked>>

SessionInit ==
    /\ now = 0
    /\ nonces = {} /\ signed = Foreign /\ users = {} /\ minted = [a \in Wallet |-> -1]
    /\ cookie = None
    /\ store = [InitialStore EXCEPT !.sessionChecked = TRUE]
    /\ url = "root"
    /\ task = [c \in Caller |-> "idle"]
    /\ call = [c \in Caller |-> Idle]
    /\ exchange = [c \in Caller |-> NoExchange]
    /\ boots = 0 /\ quiet = TRUE /\ asked = "root"

Network == \E c \in Caller : Serve(c) \/ Receive(c) \/ Lose(c) \/ ServeRefresh(c) \/ Renewed(c) \/ RenewalLost(c)
Page ==
    \/ checkSession \/ signIn \/ SignInCompleted \/ SignInChecked \/ SignInFailed
    \/ WalletDeclines \/ signOut \/ Disconnected \/ Revoked
    \/ \E q \in Query : Ask(q) \/ Asked(q)

SessionNext ==
    \/ Network
    \/ Page
    \/ \E a \in Account : WalletSigns(a)
    \/ \E m \in signed, a \in Wallet, n \in Nonce, p \in Platform : CompleteElsewhere(m, a, n, p)
    \/ \E w \in {"deep", "root"} : Boot(w)
    \/ SessionTick

SessionSpec == SessionInit /\ [][SessionNext]_sessionVars

(* Every fetch settles, one way or the other, the page runs what awaited   *)
(* it, and the person answers a prompt.  A disconnect is only waited for   *)
(* so long.  Nothing is asked of the server.                               *)
Answered(c) == Receive(c) \/ Lose(c) \/ Renewed(c) \/ RenewalLost(c)
Continued(c) ==
    \/ c = "boot" /\ checkSession
    \/ c = "enter" /\ (SignInCompleted \/ SignInChecked \/ SignInFailed \/ WalletDeclines)
    \/ c = "leave" /\ (Disconnected \/ Revoked)
SessionFairness == \A c \in Caller : WF_sessionVars(Answered(c) \/ Continued(c))
FairSessionSpec == SessionSpec /\ SessionFairness

-----------------------------------------------------------------------------
(* Properties.                                                             *)

(* auth.ts, siwe.ts: a session is issued to a wallet that signed, for this *)
(* app and over a nonce of ours, a message still alive; or to one whose    *)
(* last session can still be renewed.                                      *)
SessionIsTraced ==
    [][\A a \in Wallet : minted'[a] # minted[a] =>
        \/ \E m \in signed : m.signer = a /\ m.domain = "halo" /\ m.nonce \in nonces /\ now < m.expires
        \/ minted[a] >= 0 /\ now < minted[a] + REFRESH_TTL]_sessionVars

(* client.ts 78-87: however many calls find the access token expired, one  *)
(* renewal is in flight, and none of them is left behind by it.            *)
OneRenewalForAll ==
    /\ Cardinality(Renewing) <= 1
    /\ \A c \in Caller : call[c].at = "waits" => Renewing # {}

(* stores/auth.ts: on a page whose calls did not overlap and were all      *)
(* answered, the store believes in a session exactly when the browser      *)
(* holds one, and names the wallet it belongs to.                          *)
Alive == cookie # None /\ now < cookie.refresh
QuietStoreIsTrue ==
    quiet /\ Resting /\ boots > 0 =>
        /\ store.isAuthenticated => cookie # None /\ store.user = cookie.sub
        /\ ~ store.isAuthenticated => ~ Alive

(* App.tsx 108-119: a page opened on a deep link stays there as long as    *)
(* the browser holds a session.                                            *)
DeepLinkKept == quiet /\ asked = "deep" /\ Alive => url = "deep"

(* The client's own copies of the session never contradict it.             *)
ClientFollowsSession == OneRenewalForAll /\ QuietStoreIsTrue /\ DeepLinkKept

(* stores/auth.ts: no spinner is for ever, and a loaded page is answered.  *)
NeverStuckLoading ==
    (store.isLoading \/ ~ store.sessionChecked) ~> (~ store.isLoading /\ store.sessionChecked)

=============================================================================
