------------------------- MODULE WalletSession_proofs -------------------------
(***************************************************************************)
(* What holds of signing in for any number of wallets, nonces, tokens'     *)
(* lifetimes and requests of a screen, whatever is lost, late or repeated. *)
(***************************************************************************)
EXTENDS WalletSession, FiniteSetTheorems, TLAPS

-----------------------------------------------------------------------------
(* The types.  A pair of tokens is one the server made: its wallet has a   *)
(* row, and was issued a session no more than a lifetime before the pair   *)
(* can last be renewed.  A message on its way was signed.                  *)

Subject == Wallet \cup Nonce \cup {None}
Tokens == [sub : Wallet, access : Int, refresh : Int]
Cookies == {None} \cup {p \in Tokens : /\ p.sub \in users /\ minted[p.sub] >= 0
                                       /\ p.refresh <= minted[p.sub] + REFRESH_TTL}
Bodies == [message : signed, claimed : Wallet, nonce : Subject]
Replies == [code : {"ok", "400", "401", "404", "lost"}, user : Subject, set : SUBSET Cookies]
Calls == {x \in [at : {"none", "sent", "back", "waits", "done"},
                 path : {"none", "nonce", "complete", "status", "revoke", "query"},
                 with : Cookies, body : {None} \cup Bodies, tried : BOOLEAN,
                 reply : {None} \cup Replies] :
             /\ x.at \in {"back", "waits", "done"} => x.reply \in Replies
             /\ x.path = "complete" => x.body \in Bodies}
Exchanges == {x \in [at : {"none", "sent", "back"}, with : Cookies, reply : {None} \cup Replies] :
                 x.at = "back" => x.reply \in Replies}

ServerType == now \in Nat /\ minted \in [Wallet -> Int] /\ \A a \in Wallet : minted[a] <= now
NetType == cookie \in Cookies /\ call \in [Caller -> Calls] /\ exchange \in [Caller -> Exchanges]

(* One renewal at a time, and nobody waits for none.                       *)
Shared ==
    /\ \A c, d \in Caller : exchange[c].at # "none" /\ exchange[d].at # "none" => c = d
    /\ \A c \in Caller : call[c].at = "waits" => \E d \in Caller : exchange[d].at # "none"

SessionInv == ServerType /\ NetType /\ Shared

(* What the server and the wallets do to the types: they only widen.       *)
Grows == /\ users \subseteq users' /\ signed \subseteq signed'
         /\ minted' \in [Wallet -> Int] /\ \A a \in Wallet : minted'[a] >= minted[a]

LEMMA TypesGrow ==
  ASSUME ServerType, Grows
  PROVE  /\ Cookies \subseteq Cookies' /\ Replies \subseteq Replies' /\ Bodies \subseteq Bodies'
         /\ Calls \subseteq Calls' /\ Exchanges \subseteq Exchanges'
<1>1. Cookies \subseteq Cookies'
  BY SessionAssumption DEF Cookies, Tokens, ServerType, Grows
<1>2. Replies \subseteq Replies'
  BY <1>1 DEF Replies
<1>3. Bodies \subseteq Bodies'
  BY DEF Bodies, Grows
<1>4. Calls \subseteq Calls'
  <2> SUFFICES ASSUME NEW x \in Calls PROVE x \in Calls'
    OBVIOUS
  <2>1. /\ x \in [at : {"none", "sent", "back", "waits", "done"},
                  path : {"none", "nonce", "complete", "status", "revoke", "query"},
                  with : Cookies, body : {None} \cup Bodies, tried : BOOLEAN,
                  reply : {None} \cup Replies]
        /\ x.at \in {"back", "waits", "done"} => x.reply \in Replies
        /\ x.path = "complete" => x.body \in Bodies
    BY DEF Calls
  <2>2. x \in [at : {"none", "sent", "back", "waits", "done"},
               path : {"none", "nonce", "complete", "status", "revoke", "query"},
               with : Cookies', body : {None} \cup Bodies', tried : BOOLEAN,
               reply : {None} \cup Replies']
    BY <1>1, <1>2, <1>3, <2>1
  <2> QED BY <1>2, <1>3, <2>1, <2>2 DEF Calls
<1>5. Exchanges \subseteq Exchanges'
  <2> SUFFICES ASSUME NEW x \in Exchanges PROVE x \in Exchanges'
    OBVIOUS
  <2>1. /\ x \in [at : {"none", "sent", "back"}, with : Cookies, reply : {None} \cup Replies]
        /\ x.at = "back" => x.reply \in Replies
    BY DEF Exchanges
  <2>2. x \in [at : {"none", "sent", "back"}, with : Cookies', reply : {None} \cup Replies']
    BY <1>1, <1>2, <2>1
  <2> QED BY <1>2, <2>1, <2>2 DEF Exchanges
<1> QED BY <1>1, <1>2, <1>3, <1>4, <1>5

LEMMA IdleTyped == Idle \in Calls /\ NoExchange \in Exchanges /\ Idle.at = "none" /\ NoExchange.at = "none"
<1>1. None \in Cookies
  BY DEF Cookies
<1>2. Idle \in Calls /\ Idle.at = "none"
  BY <1>1 DEF Idle, Calls
<1>3. NoExchange \in Exchanges /\ NoExchange.at = "none"
  BY <1>1 DEF NoExchange, Exchanges
<1> QED BY <1>2, <1>3

(* The shapes a call takes.                                                *)
LEMMA CallShapes ==
  ASSUME NEW x \in Calls
  PROVE  /\ \A r \in Replies : [x EXCEPT !.at = "back", !.reply = r] \in Calls
         /\ \A r \in Replies : [x EXCEPT !.at = "done", !.reply = r] \in Calls
         /\ \A jar \in Cookies : [x EXCEPT !.at = "sent", !.with = jar] \in Calls
         /\ x.at = "back" => [x EXCEPT !.at = "waits", !.tried = TRUE] \in Calls
         /\ x.at \in {"back", "waits"} => [x EXCEPT !.at = "done"] \in Calls
BY DEF Calls

LEMMA ExchangeShapes ==
  ASSUME NEW x \in Exchanges
  PROVE  /\ \A r \in Replies : [x EXCEPT !.at = "back", !.reply = r] \in Exchanges
         /\ \A jar \in Cookies : [x EXCEPT !.at = "sent", !.with = jar] \in Exchanges
BY DEF Exchanges

Sent(path, with, body) == [Idle EXCEPT !.at = "sent", !.path = path, !.with = with, !.body = body]

(* One call changes, to one of the right type that does not wait.          *)
LEMMA OneCallChanges ==
  ASSUME SessionInv, Grows, NEW c \in Caller, NEW x, x \in Calls', call' = [call EXCEPT ![c] = x]
  PROVE  /\ call' \in [Caller -> Calls']
         /\ x.at # "waits" => \A d \in Caller : call'[d].at = "waits" => call[d].at = "waits"
<1>1. Calls \subseteq Calls'
  BY TypesGrow DEF SessionInv
<1>2. call' \in [Caller -> Calls'] /\ \A d \in Caller : call'[d] = x \/ call'[d] = call[d]
  BY <1>1 DEF SessionInv, NetType
<1> QED BY <1>2

(* Who is issued a session, and for what.                                  *)
Traced ==
    \A a \in Wallet : minted'[a] # minted[a] =>
        \/ \E m \in signed : m.signer = a /\ m.domain = "halo" /\ m.nonce \in nonces /\ now < m.expires
        \/ minted[a] >= 0 /\ now < minted[a] + REFRESH_TTL

LEMMA StoodGrows ==
  ASSUME SessionInv, UNCHANGED <<users, minted>>, signed \subseteq signed'
  PROVE  Grows /\ Traced
BY DEF SessionInv, ServerType, Grows, Traced

(* A step of the page, or of the network before anything comes back.       *)
LEMMA PageStep ==
  ASSUME SessionInv, UNCHANGED <<now, users, minted, cookie, exchange>>, signed \subseteq signed',
         call' \in [Caller -> Calls'],
         \A c \in Caller : call'[c].at = "waits" => call[c].at = "waits"
  PROVE  SessionInv' /\ Traced
<1>1. Grows /\ Traced
  BY StoodGrows
<1>2. Cookies \subseteq Cookies' /\ Exchanges \subseteq Exchanges'
  BY <1>1, TypesGrow DEF SessionInv
<1>3. NetType'
  BY <1>2 DEF SessionInv, NetType
<1>4. ServerType'
  BY DEF SessionInv, ServerType
<1>5. Shared'
  BY DEF SessionInv, Shared
<1> QED BY <1>1, <1>3, <1>4, <1>5 DEF SessionInv

LEMMA SendStep ==
  ASSUME SessionInv, UNCHANGED <<now, users, minted, cookie, exchange>>, signed \subseteq signed',
         NEW c \in Caller, NEW path \in {"nonce", "complete", "status", "revoke", "query"}, NEW body,
         body \in {None} \cup Bodies', path = "complete" => body \in Bodies', call' = Send(c, path, body)
  PROVE  SessionInv' /\ Traced
<1>1. Grows
  BY StoodGrows
<1>2. PICK x : x = Sent(path, cookie, body)
  OBVIOUS
<1>3. x \in Calls' /\ x.at = "sent"
  <2>1. None \in Cookies' /\ cookie \in Cookies'
    BY <1>1, TypesGrow DEF SessionInv, NetType, Cookies
  <2> QED BY <1>2, <2>1 DEF Sent, Idle, Calls
<1>4. call' = [call EXCEPT ![c] = x]
  BY <1>2 DEF Send, Sent
<1>5. call' \in [Caller -> Calls'] /\ \A d \in Caller : call'[d].at = "waits" => call[d].at = "waits"
  BY <1>1, <1>3, <1>4, OneCallChanges
<1> QED BY <1>5, PageStep

LEMMA RestStep ==
  ASSUME SessionInv, UNCHANGED <<now, users, minted, cookie, exchange, signed>>,
         NEW c \in Caller, call' = [call EXCEPT ![c] = Idle]
  PROVE  SessionInv' /\ Traced
<1>1. Grows
  BY StoodGrows
<1>2. PICK x : x = Idle
  OBVIOUS
<1>3. x \in Calls' /\ x.at = "none"
  BY <1>1, <1>2, IdleTyped, TypesGrow DEF SessionInv
<1>4. call' = [call EXCEPT ![c] = x]
  BY <1>2
<1>5. call' \in [Caller -> Calls'] /\ \A d \in Caller : call'[d].at = "waits" => call[d].at = "waits"
  BY <1>1, <1>3, <1>4, OneCallChanges
<1> QED BY <1>5, PageStep

LEMMA LoseStep ==
  ASSUME SessionInv, NEW c \in Caller, Lose(c)
  PROVE  SessionInv' /\ Traced
<1>1. UNCHANGED <<now, users, minted, cookie, exchange, signed>>
  BY DEF Lose, serverVars
<1>2. Grows
  BY <1>1, StoodGrows
<1>3. PICK x : x = [call[c] EXCEPT !.at = "done", !.reply = Refused("lost")]
  OBVIOUS
<1>4. Refused("lost") \in Replies
  BY DEF Refused, Answer, Replies, Subject
<1>5. x \in Calls /\ x.at = "done"
  <2>1. call[c] \in Calls
    BY DEF SessionInv, NetType
  <2>2. x \in Calls
    BY <1>3, <1>4, <2>1, CallShapes
  <2> QED BY <1>3, <2>1, <2>2 DEF Calls
<1>6. call' = [call EXCEPT ![c] = x]
  BY <1>3 DEF Lose
<1>7. x \in Calls'
  BY <1>2, <1>5, TypesGrow DEF SessionInv
<1>8. call' \in [Caller -> Calls'] /\ \A d \in Caller : call'[d].at = "waits" => call[d].at = "waits"
  BY <1>2, <1>5, <1>6, <1>7, OneCallChanges
<1> QED BY <1>1, <1>8, PageStep

-----------------------------------------------------------------------------
(* What the server answers.                                                *)

(* An answer to a call, from a server that may have issued a session.      *)
LEMMA ReplyStep ==
  ASSUME SessionInv, Grows, Traced, UNCHANGED <<now, cookie, exchange>>, \A a \in Wallet : minted'[a] <= now,
         NEW c \in Caller, NEW r, r \in Replies',
         call' = [call EXCEPT ![c].at = "back", ![c].reply = r]
  PROVE  SessionInv'
<1>1. PICK x : x = [call[c] EXCEPT !.at = "back", !.reply = r]
  OBVIOUS
<1>2. Calls \subseteq Calls' /\ Exchanges \subseteq Exchanges' /\ Cookies \subseteq Cookies'
  BY TypesGrow DEF SessionInv
<1>3. x \in Calls' /\ x.at = "back"
  <2>1. call[c] \in Calls'
    BY <1>2 DEF SessionInv, NetType
  <2> QED BY <1>1, <2>1 DEF Calls
<1>4. call' = [call EXCEPT ![c] = x]
  BY <1>1
<1>5. call' \in [Caller -> Calls'] /\ \A d \in Caller : call'[d].at = "waits" => call[d].at = "waits"
  BY <1>3, <1>4, OneCallChanges
<1>6. NetType'
  BY <1>2, <1>5 DEF SessionInv, NetType
<1>7. ServerType'
  BY DEF SessionInv, ServerType, Grows
<1>8. Shared'
  BY <1>5 DEF SessionInv, Shared
<1> QED BY <1>6, <1>7, <1>8 DEF SessionInv

LEMMA RefusedTyped == \A code \in {"400", "401", "404", "lost"} : Refused(code) \in Replies
BY DEF Refused, Answer, Replies, Subject

(* The pair a wallet is issued, once it has a row.                         *)
LEMMA IssuedPair ==
  ASSUME ServerType, NEW a \in Wallet, issueSession(a), users' = users \cup {a}, UNCHANGED <<now, signed>>
  PROVE  /\ Grows /\ \A b \in Wallet : minted'[b] <= now
         /\ Pair(a) \in Cookies' /\ Answer("ok", None, {Pair(a)}) \in Replies'
         /\ \A b \in Wallet \ {a} : minted'[b] = minted[b]
<1>1. minted' = [minted EXCEPT ![a] = now]
  BY DEF issueSession
<1>2. /\ minted' \in [Wallet -> Int] /\ minted'[a] = now
      /\ \A b \in Wallet \ {a} : minted'[b] = minted[b]
  BY <1>1 DEF ServerType
<1>3. Grows /\ \A b \in Wallet : minted'[b] <= now
  BY <1>2 DEF ServerType, Grows
<1>4. Pair(a) \in Cookies'
  BY <1>2, SessionAssumption DEF ServerType, Pair, Cookies, Tokens
<1>5. Answer("ok", None, {Pair(a)}) \in Replies'
  BY <1>4 DEF Answer, Replies, Subject
<1> QED BY <1>2, <1>3, <1>4, <1>5

(* A door that opens has seen a message of that wallet, alive and for us.  *)
LEMMA AdmissionIsTraced ==
  ASSUME NEW p \in Platform, NEW m \in signed, NEW a \in Wallet, NEW nonce, Admits(p, m, a, nonce)
  PROVE  m.signer = a /\ m.domain = "halo" /\ m.nonce \in nonces /\ now < m.expires
<1> USE DEF assertSiweFields, NonceMatches, SiteMatches, allowedDomainsFor, Fresh, SignatureProves, isNonceOurs
<1>1. CASE worldComplete(m, a, nonce)
  BY <1>1 DEF worldComplete, verifyWorld
<1>2. CASE celoConnect(m, a, nonce)
  BY <1>2 DEF celoConnect, verifyCelo
<1>3. CASE kaiaComplete(m, a, nonce)
  BY <1>3 DEF kaiaComplete, verifyKaia
<1> QED BY <1>1, <1>2, <1>3 DEF Admits

LEMMA ServeNonceStep ==
  ASSUME SessionInv, NEW c \in Caller, ServeNonce(c), UNCHANGED <<now, signed, cookie, exchange>>
  PROVE  SessionInv' /\ Traced
<1>1. Grows /\ Traced
  BY StoodGrows DEF ServeNonce
<1>2. PICK n \in Nonce : call' = [call EXCEPT ![c].at = "back", ![c].reply = Answer("ok", n, {})]
  BY DEF ServeNonce
<1>3. Answer("ok", n, {}) \in Replies'
  BY DEF Answer, Replies, Subject
<1>4. \A a \in Wallet : minted'[a] <= now
  BY DEF ServeNonce, SessionInv, ServerType
<1> QED BY <1>1, <1>2, <1>3, <1>4, ReplyStep

LEMMA ServeCompleteStep ==
  ASSUME SessionInv, NEW c \in Caller, ServeComplete(c), call[c].path = "complete",
         UNCHANGED <<now, signed, cookie, exchange>>
  PROVE  SessionInv' /\ Traced
<1>1. PICK b \in Bodies : b = call[c].body
  BY DEF SessionInv, NetType, Calls
<1>2. b.claimed \in Wallet /\ b.message \in signed
  BY DEF Bodies
<1>3. CASE /\ Admits(Host, b.message, b.claimed, b.nonce)
           /\ users' = users \cup {b.claimed} /\ issueSession(b.claimed)
           /\ call' = [call EXCEPT ![c].at = "back", ![c].reply = Answer("ok", None, {Pair(b.claimed)})]
  <2>1. /\ Grows /\ \A a \in Wallet : minted'[a] <= now
        /\ Answer("ok", None, {Pair(b.claimed)}) \in Replies'
        /\ \A a \in Wallet \ {b.claimed} : minted'[a] = minted[a]
    BY <1>2, <1>3, IssuedPair DEF SessionInv
  <2>2. Traced
    BY <1>2, <1>3, <2>1, AdmissionIsTraced, SessionAssumption DEF Traced
  <2>3. PICK r : r = Answer("ok", None, {Pair(b.claimed)})
    OBVIOUS
  <2> QED BY <1>3, <2>1, <2>2, <2>3, ReplyStep
<1>4. CASE /\ call' = [call EXCEPT ![c].at = "back", ![c].reply = Refused("400")] /\ UNCHANGED serverVars
  <2>1. Grows /\ Traced /\ \A a \in Wallet : minted'[a] <= now
    BY <1>4, StoodGrows DEF serverVars, SessionInv, ServerType
  <2>2. Refused("400") \in Replies'
    BY <2>1, RefusedTyped, TypesGrow DEF SessionInv
  <2> QED BY <1>4, <2>1, <2>2, ReplyStep
<1> QED BY <1>1, <1>3, <1>4 DEF ServeComplete

(* An answer that issues nothing.                                          *)
LEMMA AnswerStep ==
  ASSUME SessionInv, NEW c \in Caller, NEW r \in Replies, UNCHANGED <<now, signed, cookie, exchange, serverVars>>,
         call' = [call EXCEPT ![c].at = "back", ![c].reply = r]
  PROVE  SessionInv' /\ Traced
<1>1. Grows /\ Traced /\ \A a \in Wallet : minted'[a] <= now
  BY StoodGrows DEF serverVars, SessionInv, ServerType
<1>2. r \in Replies'
  BY <1>1, TypesGrow DEF SessionInv
<1> QED BY <1>1, <1>2, ReplyStep

LEMMA CheckedToken ==
  ASSUME NEW with \in Cookies, verifyAccessToken(with) \/ verifyRefreshToken(with)
  PROVE  /\ with.sub \in Wallet \cap users /\ minted[with.sub] >= 0
         /\ with.refresh \in Int /\ with.refresh <= minted[with.sub] + REFRESH_TTL
BY DEF verifyAccessToken, verifyRefreshToken, Cookies, Tokens

LEMMA ServeStep ==
  ASSUME SessionInv, NEW c \in Caller, Serve(c)
  PROVE  SessionInv' /\ Traced
<1>1. UNCHANGED <<now, signed, cookie, exchange>>
  BY DEF Serve
<1>2. call[c].with \in Cookies
  BY DEF SessionInv, NetType, Calls
<1>3. CASE call[c].path = "nonce" /\ ServeNonce(c)
  BY <1>1, <1>3, ServeNonceStep
<1>4. CASE call[c].path = "complete" /\ ServeComplete(c)
  BY <1>1, <1>4, ServeCompleteStep
<1>5. CASE ServeStatus(c)
  <2>1. PICK r : /\ call' = [call EXCEPT ![c].at = "back", ![c].reply = r]
                 /\ r \in {Refused("401"), Refused("404")} \/ (r = Answer("ok", call[c].with.sub, {}) /\ verifyAccessToken(call[c].with))
    BY <1>5 DEF ServeStatus
  <2>2. r \in Replies
    <3>1. ASSUME verifyAccessToken(call[c].with) PROVE Answer("ok", call[c].with.sub, {}) \in Replies
      BY <1>2, <3>1, CheckedToken DEF Answer, Replies, Subject
    <3> QED BY <2>1, <3>1, RefusedTyped
  <2> QED BY <1>1, <1>5, <2>1, <2>2, AnswerStep DEF ServeStatus
<1>6. CASE ServeRevoke(c)
  <2>1. Answer("ok", None, {None}) \in Replies
    BY DEF Answer, Replies, Subject, Cookies
  <2> QED BY <1>1, <1>6, <2>1, RefusedTyped, AnswerStep DEF ServeRevoke
<1>7. CASE ServeQuery(c)
  <2>1. Answer("ok", None, {}) \in Replies
    BY DEF Answer, Replies, Subject
  <2> QED BY <1>1, <1>7, <2>1, RefusedTyped, AnswerStep DEF ServeQuery
<1> QED BY <1>3, <1>4, <1>5, <1>6, <1>7 DEF Serve

LEMMA ServeRefreshStep ==
  ASSUME SessionInv, NEW c \in Caller, ServeRefresh(c)
  PROVE  SessionInv' /\ Traced
<1>1. PICK w : w = exchange[c].with
  OBVIOUS
<1>2. /\ w \in Cookies /\ exchange[c].at = "sent"
      /\ UNCHANGED <<now, users, signed, cookie, call>>
  BY <1>1 DEF ServeRefresh, SessionInv, NetType, Exchanges
<1>3. SUFFICES ASSUME NEW r, r \in Replies', Grows, Traced, \A a \in Wallet : minted'[a] <= now,
                      exchange' = [exchange EXCEPT ![c].at = "back", ![c].reply = r]
               PROVE  SessionInv'
  <2>1. CASE verifyRefreshToken(w)
    <3>1. /\ w.sub \in Wallet \cap users /\ minted[w.sub] >= 0
          /\ w.refresh \in Int /\ w.refresh <= minted[w.sub] + REFRESH_TTL
      BY <1>2, <2>1, CheckedToken
    <3>2. issueSession(w.sub) /\ users' = users \cup {w.sub}
      BY <1>1, <1>2, <2>1, <3>1 DEF ServeRefresh
    <3>3. PICK a \in Wallet : a = w.sub
      BY <3>1
    <3>4. /\ Grows /\ \A b \in Wallet : minted'[b] <= now
          /\ Answer("ok", None, {Pair(a)}) \in Replies'
          /\ \A b \in Wallet \ {a} : minted'[b] = minted[b]
      BY <1>2, <3>2, <3>3, IssuedPair DEF SessionInv
    <3>5. minted[a] >= 0 /\ now < minted[a] + REFRESH_TTL
      BY <2>1, <3>1, <3>3, SessionAssumption DEF SessionInv, ServerType, verifyRefreshToken
    <3>6. Traced
      BY <3>4, <3>5 DEF Traced
    <3>7. PICK r : r = Answer("ok", None, {Pair(a)})
      OBVIOUS
    <3>8. exchange' = [exchange EXCEPT ![c].at = "back", ![c].reply = r]
      BY <1>1, <2>1, <3>3, <3>7 DEF ServeRefresh
    <3> QED BY <1>3, <3>4, <3>6, <3>7, <3>8
  <2>2. CASE ~ verifyRefreshToken(w)
    <3>1. /\ exchange' = [exchange EXCEPT ![c].at = "back", ![c].reply = Refused("401")]
          /\ UNCHANGED minted
      BY <1>1, <2>2 DEF ServeRefresh
    <3>2. Grows /\ Traced /\ \A a \in Wallet : minted'[a] <= now
      BY <1>2, <3>1, StoodGrows DEF SessionInv, ServerType
    <3>3. Refused("401") \in Replies'
      BY <3>2, RefusedTyped, TypesGrow DEF SessionInv
    <3> QED BY <1>3, <3>1, <3>2, <3>3
  <2> QED BY <2>1, <2>2
<1>4. PICK x : x = [exchange[c] EXCEPT !.at = "back", !.reply = r]
  OBVIOUS
<1>5. Calls \subseteq Calls' /\ Exchanges \subseteq Exchanges' /\ Cookies \subseteq Cookies'
  BY <1>3, TypesGrow DEF SessionInv
<1>6. x \in Exchanges' /\ x.at = "back"
  <2>1. exchange[c] \in Exchanges'
    BY <1>5 DEF SessionInv, NetType
  <2> QED BY <1>3, <1>4, <2>1 DEF Exchanges
<1>7. /\ exchange' \in [Caller -> Exchanges'] /\ exchange'[c].at = "back"
      /\ \A d \in Caller \ {c} : exchange'[d] = exchange[d]
  <2>1. exchange' = [exchange EXCEPT ![c] = x]
    BY <1>3, <1>4
  <2> QED BY <1>5, <1>6, <2>1 DEF SessionInv, NetType
<1>8. NetType'
  BY <1>2, <1>5, <1>7 DEF SessionInv, NetType
<1>9. ServerType'
  BY <1>2, <1>3 DEF SessionInv, ServerType, Grows
<1>10. Shared'
  BY <1>2, <1>7 DEF SessionInv, Shared
<1> QED BY <1>8, <1>9, <1>10 DEF SessionInv

LEMMA CompleteElsewhereStep ==
  ASSUME SessionInv, NEW m \in signed, NEW a \in Wallet, NEW n \in Nonce, NEW p \in Platform,
         CompleteElsewhere(m, a, n, p)
  PROVE  SessionInv' /\ Traced
<1>1. /\ Admits(p, m, a, n) /\ issueSession(a) /\ users' = users \cup {a}
      /\ UNCHANGED <<now, signed, cookie, call, exchange>>
  BY DEF CompleteElsewhere, netVars
<1>2. /\ Grows /\ \A b \in Wallet : minted'[b] <= now
      /\ \A b \in Wallet \ {a} : minted'[b] = minted[b]
  BY <1>1, IssuedPair DEF SessionInv
<1>3. Traced
  BY <1>1, <1>2, AdmissionIsTraced DEF Traced
<1>4. NetType'
  BY <1>1, <1>2, TypesGrow DEF SessionInv, NetType
<1>5. ServerType'
  BY <1>1, <1>2 DEF SessionInv, ServerType, Grows
<1>6. Shared'
  BY <1>1 DEF SessionInv, Shared
<1> QED BY <1>3, <1>4, <1>5, <1>6 DEF SessionInv

-----------------------------------------------------------------------------
(* What the client does with an answer.                                    *)

LEMMA KeptTyped ==
  ASSUME NetType, NEW set \in SUBSET Cookies
  PROVE  Kept(set) \in Cookies
<1>1. CASE set = {}
  BY <1>1 DEF Kept, NetType
<1>2. CASE set # {}
  <2>1. (CHOOSE jar \in set : TRUE) \in set
    BY <1>2
  <2> QED BY <1>2, <2>1 DEF Kept
<1> QED BY <1>1, <1>2

(* A step of the client that leaves the server alone.                      *)
LEMMA ClientStep ==
  ASSUME SessionInv, UNCHANGED <<now, users, minted, signed>>, cookie' \in Cookies,
         call' \in [Caller -> Calls], exchange' \in [Caller -> Exchanges], Shared'
  PROVE  SessionInv' /\ Traced
<1>1. Grows /\ Traced
  BY StoodGrows
<1>2. NetType'
  BY <1>1, TypesGrow DEF SessionInv, NetType
<1>3. ServerType'
  BY DEF SessionInv, ServerType
<1> QED BY <1>1, <1>2, <1>3 DEF SessionInv

LEMMA ReceiveStep ==
  ASSUME SessionInv, NEW c \in Caller, Receive(c)
  PROVE  SessionInv' /\ Traced
<1>1. /\ call[c] \in Calls /\ call[c].at = "back" /\ call[c].reply \in Replies
      /\ UNCHANGED <<now, users, minted, signed>>
  BY DEF Receive, serverVars, SessionInv, NetType, Calls
<1>2. cookie' \in Cookies
  BY <1>1, KeptTyped DEF Receive, SessionInv, Replies
<1>3. CASE /\ call' = [call EXCEPT ![c].at = "waits", ![c].tried = TRUE] /\ exchange' = Renewal(c)
  <2>1. PICK x : x = [call[c] EXCEPT !.at = "waits", !.tried = TRUE]
    OBVIOUS
  <2>2. x \in Calls
    BY <1>1, <2>1, CallShapes
  <2>3. call' = [call EXCEPT ![c] = x]
    BY <1>3, <2>1
  <2>4. call' \in [Caller -> Calls]
    BY <2>2, <2>3 DEF SessionInv, NetType
  <2>5. CASE Renewing = {}
    <3>1. PICK y : y = [NoExchange EXCEPT !.at = "sent", !.with = cookie]
      OBVIOUS
    <3>2. y \in Exchanges /\ y.at = "sent"
      <4>1. cookie \in Cookies /\ NoExchange \in Exchanges
        BY IdleTyped DEF SessionInv, NetType
      <4>2. y \in Exchanges
        BY <3>1, <4>1, ExchangeShapes
      <4> QED BY <3>1, <4>1, <4>2 DEF NoExchange
    <3>3. exchange' = [exchange EXCEPT ![c] = y]
      BY <1>3, <2>5, <3>1 DEF Renewal, Joins, Renewing
    <3>4. exchange' \in [Caller -> Exchanges] /\ exchange'[c].at = "sent" /\ \A d \in Caller \ {c} : exchange'[d].at = "none"
      BY <2>5, <3>2, <3>3 DEF SessionInv, NetType, Renewing
    <3>5. Shared'
      BY <3>4 DEF Shared
    <3> QED BY <1>1, <1>2, <2>4, <3>4, <3>5, ClientStep
  <2>6. CASE Renewing # {}
    <3>1. UNCHANGED exchange
      BY <1>3, <2>6 DEF Renewal, Joins, Renewing
    <3>2. Shared'
      BY <2>6, <3>1 DEF SessionInv, Shared, Renewing
    <3> QED BY <1>1, <1>2, <2>4, <3>1, <3>2, ClientStep DEF SessionInv, NetType
  <2> QED BY <2>5, <2>6
<1>4. CASE call' = [call EXCEPT ![c].at = "done"] /\ UNCHANGED exchange
  <2>1. PICK x : x = [call[c] EXCEPT !.at = "done"]
    OBVIOUS
  <2>2. x \in Calls
    BY <1>1, <2>1, CallShapes
  <2>3. x.at = "done"
    BY <1>1, <2>1, <2>2 DEF Calls
  <2>4. call' = [call EXCEPT ![c] = x]
    BY <1>4, <2>1
  <2>5. call' \in [Caller -> Calls] /\ \A d \in Caller : call'[d].at = "waits" => call[d].at = "waits"
    BY <2>2, <2>3, <2>4 DEF SessionInv, NetType
  <2>6. Shared'
    BY <1>4, <2>5 DEF SessionInv, Shared
  <2> QED BY <1>1, <1>2, <1>4, <2>5, <2>6, ClientStep DEF SessionInv, NetType
<1> QED BY <1>3, <1>4 DEF Receive

(* The end of a renewal: nobody is left waiting for it.                    *)
LEMMA ResumeStep ==
  ASSUME SessionInv, NEW d \in Caller, exchange[d].at # "none", NEW ok, NEW jar \in Cookies,
         Resume(d, ok, jar), cookie' \in Cookies, exchange' = [exchange EXCEPT ![d] = NoExchange],
         UNCHANGED <<now, users, minted, signed>>
  PROVE  SessionInv' /\ Traced
<1>1. \A c \in Caller : d \in Joins(c)
  BY DEF Joins, Renewing
<1>2. Waiting(d) = {c \in Caller : call[c].at = "waits"}
  BY <1>1 DEF Waiting
<1>3. ASSUME NEW c \in Caller PROVE call'[c] \in Calls /\ call'[c].at # "waits"
  <2>1. call[c] \in Calls
    BY DEF SessionInv, NetType
  <2>2. CASE call[c].at # "waits"
    BY <1>2, <2>1, <2>2 DEF Resume
  <2>3. CASE call[c].at = "waits" /\ ok
    <3>1. call'[c] = [call[c] EXCEPT !.at = "sent", !.with = jar]
      BY <1>2, <2>3 DEF Resume
    <3>2. call'[c] \in Calls
      BY <2>1, <3>1, CallShapes
    <3> QED BY <2>1, <3>1, <3>2 DEF Calls
  <2>4. CASE call[c].at = "waits" /\ ~ ok
    <3>1. call'[c] = [call[c] EXCEPT !.at = "done"]
      BY <1>2, <2>4 DEF Resume
    <3>2. call'[c] \in Calls
      BY <2>1, <2>4, <3>1, CallShapes
    <3> QED BY <2>1, <3>1, <3>2 DEF Calls
  <2> QED BY <2>2, <2>3, <2>4
<1>4. call' \in [Caller -> Calls]
  BY <1>3 DEF Resume
<1>5. exchange' \in [Caller -> Exchanges] /\ \A c \in Caller : exchange'[c].at = "none"
  <2>1. exchange \in [Caller -> Exchanges] /\ \A c \in Caller \ {d} : exchange[c].at = "none"
    BY DEF SessionInv, NetType, Shared
  <2> QED BY <2>1, IdleTyped
<1>6. Shared'
  BY <1>3, <1>5 DEF Shared
<1> QED BY <1>4, <1>5, <1>6, ClientStep

LEMMA RenewedStep ==
  ASSUME SessionInv, NEW d \in Caller, Renewed(d)
  PROVE  SessionInv' /\ Traced
<1>1. exchange[d].reply \in Replies /\ exchange[d].at = "back"
  BY DEF Renewed, SessionInv, NetType, Exchanges
<1>2. Kept(exchange[d].reply.set) \in Cookies
  BY <1>1, KeptTyped DEF SessionInv, Replies
<1>3. PICK ok, jar : ok = (exchange[d].reply.code = "ok") /\ jar = Kept(exchange[d].reply.set)
  OBVIOUS
<1>4. Resume(d, ok, jar) /\ cookie' = jar /\ exchange' = [exchange EXCEPT ![d] = NoExchange]
  BY <1>3 DEF Renewed
<1>5. UNCHANGED <<now, users, minted, signed>>
  BY DEF Renewed, serverVars
<1> QED BY <1>1, <1>2, <1>3, <1>4, <1>5, ResumeStep

LEMMA RenewalLostStep ==
  ASSUME SessionInv, NEW d \in Caller, RenewalLost(d)
  PROVE  SessionInv' /\ Traced
<1>1. exchange[d].at # "none" /\ cookie \in Cookies
  BY DEF RenewalLost, SessionInv, NetType
<1>2. PICK jar : jar = cookie
  OBVIOUS
<1>3. Resume(d, FALSE, jar) /\ cookie' = jar
  BY <1>2 DEF RenewalLost
<1>4. exchange' = [exchange EXCEPT ![d] = NoExchange] /\ UNCHANGED <<now, users, minted, signed>>
  BY DEF RenewalLost, serverVars
<1> QED BY <1>1, <1>2, <1>3, <1>4, ResumeStep

-----------------------------------------------------------------------------
(* The page.                                                               *)

LEMMA BootStep ==
  ASSUME SessionInv, NEW where, Boot(where)
  PROVE  SessionInv' /\ Traced
<1>1. UNCHANGED <<now, users, minted, signed, cookie>>
  BY DEF Boot, serverVars
<1>2. PICK x : x = [Idle EXCEPT !.at = "sent", !.path = "status", !.with = cookie]
  OBVIOUS
<1>3. x \in Calls /\ x.at = "sent"
  <2>1. cookie \in Cookies /\ None \in Cookies
    BY DEF SessionInv, NetType, Cookies
  <2> QED BY <1>2, <2>1 DEF Idle, Calls
<1>4. call' = [c \in Caller |-> IF c = "boot" THEN x ELSE Idle]
  BY <1>2 DEF Boot
<1>5. call' \in [Caller -> Calls] /\ \A c \in Caller : call'[c].at # "waits"
  BY <1>3, <1>4, IdleTyped
<1>6. exchange' \in [Caller -> Exchanges] /\ \A c \in Caller : exchange'[c].at = "none"
  <2>1. exchange' = [c \in Caller |-> NoExchange]
    BY DEF Boot
  <2> QED BY <2>1, IdleTyped
<1>7. Shared'
  BY <1>5, <1>6 DEF Shared
<1> QED BY <1>1, <1>5, <1>6, <1>7, ClientStep DEF SessionInv, NetType

LEMMA WalletSignsStep ==
  ASSUME SessionInv, NEW a \in Account, WalletSigns(a)
  PROVE  SessionInv' /\ Traced
<1>1. PICK m, n : n = call["enter"].reply.user /\ m = Message(a, n)
  OBVIOUS
<1>2. /\ Ok("enter") /\ signed' = signed \cup {m}
      /\ call' = Send("enter", "complete", [message |-> m, claimed |-> a, nonce |-> n])
      /\ UNCHANGED <<now, users, minted, cookie, exchange>>
  BY <1>1 DEF WalletSigns, serverVars
<1>3. n \in Subject
  BY <1>1, <1>2 DEF Ok, Done, SessionInv, NetType, Calls, Replies, Caller
<1>4. PICK b : b = [message |-> m, claimed |-> a, nonce |-> n]
  OBVIOUS
<1>5. b \in Bodies'
  BY <1>2, <1>3, <1>4, SessionAssumption DEF Bodies, Subject
<1> QED BY <1>2, <1>4, <1>5, SendStep DEF Caller

LEMMA PageActs ==
  ASSUME SessionInv, Page
  PROVE  SessionInv' /\ Traced
<1> USE DEF Caller, serverVars
<1>1. CASE checkSession
  BY <1>1, RestStep DEF checkSession
<1>2. CASE signIn
  BY <1>2, SendStep DEF signIn
<1>3. CASE SignInCompleted
  BY <1>3, SendStep DEF SignInCompleted
<1>4. CASE SignInChecked
  BY <1>4, RestStep DEF SignInChecked
<1>5. CASE SignInFailed \/ WalletDeclines
  BY <1>5, RestStep DEF SignInFailed, WalletDeclines, GivesUp
<1>6. CASE signOut
  BY <1>6, ClientStep DEF signOut, netVars, SessionInv, NetType, Shared
<1>7. CASE Disconnected
  BY <1>7, SendStep DEF Disconnected
<1>8. CASE Revoked
  BY <1>8, RestStep DEF Revoked
<1>9. ASSUME NEW q \in Query, Ask(q) PROVE SessionInv' /\ Traced
  BY <1>9, SendStep DEF Ask
<1>10. ASSUME NEW q \in Query, Asked(q) PROVE SessionInv' /\ Traced
  BY <1>10, RestStep DEF Asked
<1> QED BY <1>1, <1>2, <1>3, <1>4, <1>5, <1>6, <1>7, <1>8, <1>9, <1>10 DEF Page

-----------------------------------------------------------------------------
(* The invariant, and what follows from it.                                *)

LEMMA SessionStarts == SessionInit => SessionInv
<1> SUFFICES ASSUME SessionInit PROVE SessionInv
  OBVIOUS
<1>1. ServerType
  BY DEF SessionInit, ServerType
<1>2. call \in [Caller -> Calls] /\ exchange \in [Caller -> Exchanges]
  <2>1. call = [c \in Caller |-> Idle] /\ exchange = [c \in Caller |-> NoExchange]
    BY DEF SessionInit
  <2> QED BY <2>1, IdleTyped
<1>3. NetType
  BY <1>2 DEF SessionInit, NetType, Cookies
<1>4. Shared
  <2>1. \A c \in Caller : call[c] = Idle /\ exchange[c] = NoExchange
    BY DEF SessionInit
  <2> QED BY <2>1, IdleTyped DEF Shared
<1> QED BY <1>1, <1>3, <1>4 DEF SessionInv

LEMMA SessionSteps ==
  ASSUME SessionInv, [SessionNext]_sessionVars
  PROVE  SessionInv' /\ Traced
<1>1. ASSUME NEW c \in Caller, Serve(c) \/ Receive(c) \/ Lose(c) \/ ServeRefresh(c) \/ Renewed(c) \/ RenewalLost(c)
      PROVE  SessionInv' /\ Traced
  BY <1>1, ServeStep, ReceiveStep, LoseStep, ServeRefreshStep, RenewedStep, RenewalLostStep
<1>2. CASE Page
  BY <1>2, PageActs
<1>3. ASSUME NEW a \in Account, WalletSigns(a) PROVE SessionInv' /\ Traced
  BY <1>3, WalletSignsStep
<1>4. ASSUME NEW m \in signed, NEW a \in Wallet, NEW n \in Nonce, NEW p \in Platform, CompleteElsewhere(m, a, n, p)
      PROVE  SessionInv' /\ Traced
  BY <1>4, CompleteElsewhereStep
<1>5. ASSUME NEW w \in {"deep", "root"}, Boot(w) PROVE SessionInv' /\ Traced
  BY <1>5, BootStep
<1>6. CASE SessionTick
  <2>1. now' \in Nat /\ now' = now + 1 /\ UNCHANGED <<users, minted, signed, cookie, call, exchange>>
    BY <1>6 DEF SessionTick, serverVars, netVars, SessionInv, ServerType
  <2>2. Grows /\ Traced
    BY <2>1, StoodGrows
  <2>3. ServerType'
    BY <2>1 DEF SessionInv, ServerType
  <2>4. NetType'
    BY <2>1, <2>2, TypesGrow DEF SessionInv, NetType
  <2>5. Shared'
    BY <2>1 DEF SessionInv, Shared
  <2> QED BY <2>2, <2>3, <2>4, <2>5 DEF SessionInv
<1>7. CASE UNCHANGED sessionVars
  BY <1>7, ClientStep DEF sessionVars, serverVars, netVars, SessionInv, NetType, Shared
<1> QED BY <1>1, <1>2, <1>3, <1>4, <1>5, <1>6, <1>7 DEF SessionNext, Network

(* Every cookie, in the jar or on the wire, is a pair the server made for  *)
(* a wallet with a row, and a renewal is shared.                           *)
THEOREM SessionInvariant == SessionSpec => []SessionInv
<1>1. SessionInv /\ [SessionNext]_sessionVars => SessionInv'
  BY SessionSteps
<1> QED BY <1>1, SessionStarts, PTL DEF SessionSpec

(* auth.ts, siwe.ts: whoever is issued a session signed for it, for this   *)
(* app, over a nonce of ours, or still holds one that can be renewed.      *)
THEOREM SessionTraced == SessionSpec => SessionIsTraced
<1>1. SessionInv /\ [SessionNext]_sessionVars => [Traced]_sessionVars
  BY SessionSteps
<1> QED BY <1>1, SessionInvariant, PTL DEF SessionSpec, SessionIsTraced, Traced

(* One renewal is in flight however many calls were answered 401.          *)
LEMMA OneRenewal ==
  ASSUME SessionInv
  PROVE  OneRenewalForAll
<1>1. Cardinality(Renewing) <= 1
  <2>1. CASE Renewing = {}
    BY <2>1, FS_EmptySet
  <2>2. ASSUME NEW d \in Renewing PROVE Cardinality(Renewing) <= 1
    <3>1. Renewing = {d}
      BY <2>2 DEF SessionInv, Shared, Renewing
    <3> QED BY <3>1, FS_Singleton
  <2> QED BY <2>1, <2>2
<1>2. \A c \in Caller : call[c].at = "waits" => Renewing # {}
  BY DEF SessionInv, Shared, Renewing
<1> QED BY <1>1, <1>2 DEF OneRenewalForAll

-----------------------------------------------------------------------------
(* What a page believes while its calls neither overlap nor get lost.  One *)
(* task at a time has a call open, the call carries the jar's cookie, and  *)
(* the answers it can still receive fit that cookie: a renewed token is    *)
(* good for the retry, a renewal is only refused to a session that is      *)
(* over.  At rest nothing is in flight, and the store says what the jar    *)
(* holds.                                                                  *)

StoreType == store \in [isLoading : BOOLEAN, isAuthenticated : BOOLEAN, sessionChecked : BOOLEAN, user : Subject]

Stages(c) ==
    CASE c = "boot" -> {"idle", "status"}
      [] c = "enter" -> {"idle", "nonce", "complete", "status"}
      [] c = "leave" -> {"idle", "disconnect", "revoke"}
      [] OTHER -> {"idle", "query"}

(* Each task's stage is the path of its call.                              *)
Staged ==
    /\ task \in [Caller -> {"idle", "status", "nonce", "complete", "disconnect", "revoke", "query"}]
    /\ \A c \in Caller :
          /\ task[c] \in Stages(c)
          /\ call[c].at = "none" <=> task[c] \in {"idle", "disconnect"}
          /\ call[c].at # "none" => call[c].path = task[c]
          /\ exchange[c].at # "none" => call[c].at = "waits"

(* A link that was opened stays the page's until somebody signs in or out. *)
Undisturbed == asked = "deep" => task["enter"] = "idle" /\ task["leave"] = "idle"

Alone == \A c, d \in Caller : task[c] # "idle" /\ task[d] # "idle" => c = d

(* What is on its way to the server is the jar's, and what comes back from *)
(* a renewal is either a pair for the same wallet or the end of it.        *)
Current(c) ==
    /\ call[c].at = "sent" => call[c].with = cookie /\ (call[c].tried => verifyAccessToken(cookie))
    /\ exchange[c].at = "sent" => exchange[c].with = cookie
    /\ exchange[c].at = "back" =>
          IF exchange[c].reply.code = "ok"
          THEN cookie # None /\ \E pair \in Tokens :
                   exchange[c].reply.set = {pair} /\ pair.sub = cookie.sub /\ now < pair.access
          ELSE exchange[c].reply.set = {} /\ ~ Alive

(* The answers a task can be given at its stage.                           *)
Fits(c, r) ==
    IF r.code = "ok"
    THEN /\ task[c] \in {"nonce", "query", "status"} => r.set = {}
         /\ task[c] = "status" => cookie # None /\ r.user = cookie.sub
         /\ task[c] = "revoke" => r.set = {None}
    ELSE /\ r.set = {}
         /\ \/ r.code = "400" /\ task[c] = "complete"
            \/ r.code = "401" /\ task[c] \in {"status", "revoke", "query"}
Told(c) ==
    call[c].at \in {"back", "waits", "done"} =>
        /\ task[c] # "revoke" \/ call[c].at # "done" => Fits(c, call[c].reply)
        /\ task[c] = "revoke" /\ call[c].at = "done" => ~ Alive
        /\ call[c].at = "back" /\ call[c].reply.code = "401" => ~ call[c].tried
        /\ call[c].at = "waits" => call[c].reply.code = "401" /\ call[c].tried
        /\ call[c].at = "done" /\ call[c].reply.code = "401" => ~ Alive

TrueUser == cookie # None /\ store.user = cookie.sub
Believed ==
    /\ Resting => IF store.isAuthenticated THEN TrueUser ELSE ~ Alive
    /\ \A q \in Query : task[q] = "query" => store.isAuthenticated /\ TrueUser
    /\ task["enter"] = "nonce" => ~ Alive
    /\ task["enter"] = "complete" /\ Alive =>
          call["enter"].at \in {"back", "done"} /\ call["enter"].reply.code = "ok"
    /\ asked = "deep" => url = "deep" \/ (Resting /\ ~ store.isAuthenticated)

Orderly == Alone /\ Believed /\ \A c \in Caller : Current(c) /\ Told(c)
PageInv == StoreType /\ Staged /\ Undisturbed /\ (quiet => Orderly)

LEMMA Callers ==
  /\ {"boot", "enter", "leave"} \subseteq Caller /\ Query \subseteq Caller
  /\ \A q \in Query : q \notin {"boot", "enter", "leave"}
  /\ Stages("boot") = {"idle", "status"} /\ Stages("enter") = {"idle", "nonce", "complete", "status"}
  /\ Stages("leave") = {"idle", "disconnect", "revoke"} /\ \A q \in Query : Stages(q) = {"idle", "query"}
BY SessionAssumption DEF Caller, Stages

(* Nothing is asked of a task at rest.                                     *)
LEMMA OthersSilent ==
  ASSUME Staged, Alone, NEW c \in Caller, task[c] # "idle"
  PROVE  \A d \in Caller \ {c} : task[d] = "idle" /\ call[d].at = "none" /\ exchange[d].at = "none"
BY DEF Staged, Alone

LEMMA AtRest ==
  ASSUME Staged', NEW c \in Caller, task'[c] = "idle"
  PROVE  Current(c)' /\ Told(c)'
BY DEF Staged, Current, Told

LEMMA ElapsedStays ==
  ASSUME ServerType, NetType, ~ Alive, cookie' = cookie, now' \in Nat, now' >= now
  PROVE  ~ Alive'
BY DEF ServerType, NetType, Alive, Cookies, Tokens

(* An answer that fits the call it is to.                                  *)
LEMMA AnswerFits ==
  ASSUME SessionInv, PageInv, NEW c \in Caller, NEW r, call[c].at = "sent",
         call' = [call EXCEPT ![c].at = "back", ![c].reply = r],
         UNCHANGED <<now, cookie, store, task, url, exchange, quiet, asked>>,
         quiet => Fits(c, r) /\ (r.code = "401" => ~ call[c].tried)
  PROVE  PageInv'
<1>1. PICK x : x = [call[c] EXCEPT !.at = "back", !.reply = r]
  OBVIOUS
<1>2. x.at = "back" /\ x.reply = r /\ x.path = call[c].path /\ x.tried = call[c].tried
  BY <1>1 DEF SessionInv, NetType, Calls
<1>3. call'[c] = x /\ \A d \in Caller \ {c} : call'[d] = call[d]
  BY <1>1 DEF SessionInv, NetType
<1>4. StoreType' /\ Undisturbed'
  BY DEF PageInv, StoreType, Undisturbed, Subject
<1>5. Staged'
  BY <1>2, <1>3 DEF PageInv, Staged
<1>6. ASSUME quiet' PROVE Orderly'
  <2>1. quiet /\ Orderly /\ Fits(c, r) /\ (r.code = "401" => ~ call[c].tried)
    BY <1>6 DEF PageInv
  <2>2. Alone'
    BY <2>1 DEF Orderly, Alone
  <2>3. task[c] # "idle"
    BY DEF PageInv, Staged
  <2>4. Believed'
    BY <1>2, <1>3, <2>1, <2>3, Callers DEF Orderly, Believed, Resting, TrueUser, Alive
  <2>5. Current(c)'
    BY <1>2, <1>3, <2>1 DEF Orderly, Current, PageInv, Staged, Alive, verifyAccessToken
  <2>6. Told(c)'
    BY <1>2, <1>3, <2>1 DEF Told, Fits
  <2>7. \A d \in Caller \ {c} : Current(d)' /\ Told(d)'
    BY <2>1, <2>3, OthersSilent, <1>5, AtRest DEF Orderly, PageInv
  <2> QED BY <2>2, <2>4, <2>5, <2>6, <2>7 DEF Orderly
<1> QED BY <1>4, <1>5, <1>6 DEF PageInv

LEMMA ServeKeepsPage ==
  ASSUME SessionInv, PageInv, NEW c \in Caller, Serve(c)
  PROVE  PageInv'
<1>1. /\ UNCHANGED <<now, cookie, store, task, url, exchange, quiet, asked>>
      /\ call[c].at = "sent" /\ call[c].path = task[c]
  BY DEF Serve, pageVars, history, PageInv, Staged
<1>2. quiet => call[c].with = cookie /\ (call[c].tried => verifyAccessToken(cookie))
  BY <1>1 DEF PageInv, Orderly, Current
<1>3. \A code \in {"400", "401", "404"} : Refused(code).code = code /\ Refused(code).set = {}
  BY DEF Refused, Answer
<1>4. CASE call[c].path = "nonce" /\ ServeNonce(c)
  <2>1. PICK n \in Nonce : call' = [call EXCEPT ![c].at = "back", ![c].reply = Answer("ok", n, {})]
    BY <1>4 DEF ServeNonce
  <2>2. PICK r : r = Answer("ok", n, {})
    OBVIOUS
  <2>3. Fits(c, r) /\ r.code # "401"
    BY <1>1, <1>4, <2>2 DEF Fits, Answer
  <2> QED BY <1>1, <2>1, <2>2, <2>3, AnswerFits
<1>5. CASE call[c].path = "complete" /\ ServeComplete(c)
  <2>1. PICK paid, refused : paid = Answer("ok", None, {Pair(call[c].body.claimed)}) /\ refused = Refused("400")
    OBVIOUS
  <2>2. \/ call' = [call EXCEPT ![c].at = "back", ![c].reply = paid]
        \/ call' = [call EXCEPT ![c].at = "back", ![c].reply = refused]
    BY <1>5, <2>1 DEF ServeComplete
  <2>3. paid.code = "ok" /\ Fits(c, paid) /\ refused.code = "400" /\ Fits(c, refused)
    BY <1>1, <1>3, <1>5, <2>1 DEF Fits, Answer
  <2> QED BY <1>1, <2>2, <2>3, AnswerFits
<1>6. CASE call[c].path = "status" /\ ServeStatus(c)
  <2>1. PICK r : /\ call' = [call EXCEPT ![c].at = "back", ![c].reply = r]
                 /\ \/ r = Refused("401") /\ ~ verifyAccessToken(call[c].with)
                    \/ /\ r = Answer("ok", call[c].with.sub, {}) /\ verifyAccessToken(call[c].with)
    <3>1. call[c].with \in Cookies
      BY DEF SessionInv, NetType, Calls
    <3>2. ~ (verifyAccessToken(call[c].with) /\ call[c].with.sub \notin users)
      BY <3>1, CheckedToken
    <3> QED BY <1>6, <3>2 DEF ServeStatus
  <2>2. quiet => Fits(c, r) /\ (r.code = "401" => ~ call[c].tried)
    <3>1. CASE r = Refused("401") /\ ~ verifyAccessToken(call[c].with)
      BY <1>1, <1>2, <1>3, <1>6, <3>1 DEF Fits
    <3>2. CASE r = Answer("ok", call[c].with.sub, {}) /\ verifyAccessToken(call[c].with)
      BY <1>1, <1>2, <1>6, <3>2 DEF Fits, Answer, verifyAccessToken
    <3> QED BY <2>1, <3>1, <3>2
  <2> QED BY <1>1, <2>1, <2>2, AnswerFits
<1>7. CASE call[c].path = "revoke" /\ ServeRevoke(c)
  <2>1. PICK r : /\ call' = [call EXCEPT ![c].at = "back", ![c].reply = r]
                 /\ r = IF verifyAccessToken(call[c].with) THEN Answer("ok", None, {None}) ELSE Refused("401")
    BY <1>7 DEF ServeRevoke
  <2>2. quiet => Fits(c, r) /\ (r.code = "401" => ~ call[c].tried)
    BY <1>1, <1>2, <1>3, <1>7, <2>1 DEF Fits, Answer
  <2> QED BY <1>1, <2>1, <2>2, AnswerFits
<1>8. CASE call[c].path = "query" /\ ServeQuery(c)
  <2>1. PICK r : /\ call' = [call EXCEPT ![c].at = "back", ![c].reply = r]
                 /\ r = IF verifyAccessToken(call[c].with) THEN Answer("ok", None, {}) ELSE Refused("401")
    BY <1>8 DEF ServeQuery
  <2>2. quiet => Fits(c, r) /\ (r.code = "401" => ~ call[c].tried)
    BY <1>1, <1>2, <1>3, <1>8, <2>1 DEF Fits, Answer
  <2> QED BY <1>1, <2>1, <2>2, AnswerFits
<1> QED BY <1>4, <1>5, <1>6, <1>7, <1>8 DEF Serve

LEMMA ServeRefreshKeepsPage ==
  ASSUME SessionInv, PageInv, NEW c \in Caller, ServeRefresh(c)
  PROVE  PageInv'
<1>1. /\ UNCHANGED <<now, cookie, store, task, url, call, quiet, asked>>
      /\ exchange[c].at = "sent" /\ exchange[c] \in Exchanges /\ exchange[c].with \in Cookies
  BY DEF ServeRefresh, pageVars, history, SessionInv, NetType, Exchanges
<1>2. PICK r : /\ exchange' = [exchange EXCEPT ![c].at = "back", ![c].reply = r]
               /\ r = IF verifyRefreshToken(exchange[c].with) THEN Answer("ok", None, {Pair(exchange[c].with.sub)})
                      ELSE Refused("401")
  BY DEF ServeRefresh
<1>3. /\ exchange'[c].at = "back" /\ exchange'[c].reply = r
      /\ \A d \in Caller \ {c} : exchange'[d] = exchange[d]
  BY <1>1, <1>2 DEF SessionInv, NetType, Exchanges
<1>4. StoreType' /\ Undisturbed'
  BY <1>1 DEF PageInv, StoreType, Undisturbed, Subject
<1>5. Staged'
  BY <1>1, <1>3 DEF PageInv, Staged
<1>6. ASSUME quiet' PROVE Orderly'
  <2>1. quiet /\ Orderly /\ exchange[c].with = cookie
    BY <1>1, <1>6 DEF PageInv, Orderly, Current
  <2>2. Alone' /\ Believed'
    BY <1>1, <2>1 DEF Orderly, Alone, Believed, Resting, TrueUser, Alive
  <2>3. call[c].at = "waits" /\ task[c] # "idle"
    BY <1>1 DEF PageInv, Staged
  <2>4. Told(c)'
    BY <1>1, <2>1 DEF Orderly, Told, Fits, Alive
  <2>5. Current(c)'
    <3>1. CASE verifyRefreshToken(cookie)
      <4>1. cookie # None /\ cookie.sub \in Wallet
        BY <1>1, <2>1, <3>1, CheckedToken DEF verifyRefreshToken
      <4>2. PICK pair : pair = Pair(cookie.sub)
        OBVIOUS
      <4>3. pair \in Tokens /\ pair.sub = cookie.sub /\ now < pair.access
        BY <4>1, <4>2, SessionAssumption DEF Pair, Tokens, SessionInv, ServerType
      <4>4. r.code = "ok" /\ r.set = {pair}
        BY <1>2, <2>1, <3>1, <4>2 DEF Answer
      <4> QED BY <1>1, <1>3, <2>3, <4>1, <4>3, <4>4 DEF Current
    <3>2. CASE ~ verifyRefreshToken(cookie)
      <4>1. r.code # "ok" /\ r.set = {}
        BY <1>2, <2>1, <3>2 DEF Refused, Answer
      <4>2. ~ Alive'
        BY <1>1, <3>2 DEF verifyRefreshToken, Alive
      <4> QED BY <1>1, <1>3, <2>3, <4>1, <4>2 DEF Current
    <3> QED BY <3>1, <3>2
  <2>6. \A d \in Caller \ {c} : Current(d)' /\ Told(d)'
    BY <1>1, <2>1, <2>3, OthersSilent, <1>5, AtRest DEF Orderly, PageInv
  <2> QED BY <2>2, <2>4, <2>5, <2>6 DEF Orderly
<1> QED BY <1>4, <1>5, <1>6 DEF PageInv

(* Nothing the server does elsewhere reaches the page.                     *)
LEMMA ElsewhereKeepsPage ==
  ASSUME PageInv, UNCHANGED <<now, cookie, store, task, url, call, exchange, quiet, asked>>
  PROVE  PageInv'
<1>1. StoreType' /\ Undisturbed' /\ Staged'
  BY DEF PageInv, StoreType, Undisturbed, Subject, Staged
<1>2. Orderly => Orderly'
  BY DEF Orderly, Alone, Believed, Resting, TrueUser, Alive, Current, Told, Fits, verifyAccessToken, Tokens
<1> QED BY <1>1, <1>2 DEF PageInv

LEMMA LoseKeepsPage ==
  ASSUME SessionInv, PageInv, NEW c \in Caller, Lose(c)
  PROVE  PageInv'
<1>1. UNCHANGED <<store, task, url, exchange, asked>> /\ ~ quiet' /\ call[c].at \in {"sent", "back"}
  BY DEF Lose, pageVars
<1>2. call' = [call EXCEPT ![c].at = "done", ![c].reply = Refused("lost")]
  BY DEF Lose
<1>3. /\ call'[c].at = "done" /\ call'[c].path = call[c].path
      /\ \A d \in Caller \ {c} : call'[d] = call[d]
  BY <1>2 DEF SessionInv, NetType, Calls
<1>4. StoreType' /\ Undisturbed'
  BY <1>1 DEF PageInv, StoreType, Undisturbed, Subject
<1>5. Staged'
  BY <1>1, <1>3 DEF PageInv, Staged
<1> QED BY <1>1, <1>4, <1>5 DEF PageInv

-----------------------------------------------------------------------------
(* Answers, and the end of a renewal.                                      *)

LEMMA ReceiveKeepsPage ==
  ASSUME SessionInv, PageInv, NEW c \in Caller, Receive(c)
  PROVE  PageInv'
<1>1. /\ call[c].at = "back" /\ task[c] # "idle"
      /\ UNCHANGED <<now, store, task, url, quiet, asked>>
  BY DEF Receive, pageVars, history, PageInv, Staged
<1>2. PICK r : r = call[c].reply
  OBVIOUS
<1>3. cookie' = Kept(r.set)
  BY <1>2 DEF Receive
<1>4. StoreType' /\ Undisturbed'
  BY <1>1 DEF PageInv, StoreType, Undisturbed, Subject
<1>5. ASSUME quiet, Orderly
      PROVE  /\ Fits(c, r) /\ (r.code = "401" => ~ call[c].tried)
             /\ \A d \in Caller : exchange[d].at = "none"
             /\ \A d \in Caller \ {c} : task[d] = "idle" /\ call[d].at = "none"
             /\ Alone' /\ ~ Resting /\ ~ Resting'
  <2>1. Fits(c, r) /\ (r.code = "401" => ~ call[c].tried)
    BY <1>1, <1>2, <1>5 DEF Orderly, Told
  <2>2. \A d \in Caller \ {c} : task[d] = "idle" /\ call[d].at = "none" /\ exchange[d].at = "none"
    BY <1>1, <1>5, OthersSilent DEF Orderly, PageInv
  <2>3. exchange[c].at = "none"
    BY <1>1 DEF PageInv, Staged
  <2> QED BY <1>1, <1>5, <2>1, <2>2, <2>3 DEF Orderly, Alone, Resting
<1>6. CASE r.code = "401" /\ ~ call[c].tried
  <2>1. call' = [call EXCEPT ![c].at = "waits", ![c].tried = TRUE] /\ exchange' = Renewal(c)
    BY <1>2, <1>6 DEF Receive
  <2>2. /\ call'[c].at = "waits" /\ call'[c].tried /\ call'[c].path = call[c].path /\ call'[c].reply = r
        /\ \A d \in Caller \ {c} : call'[d] = call[d]
    BY <1>2, <2>1 DEF SessionInv, NetType, Calls
  <2>3. PICK y : y = [NoExchange EXCEPT !.at = "sent", !.with = cookie]
    OBVIOUS
  <2>4. y.at = "sent" /\ y.with = cookie
    BY <2>3 DEF NoExchange
  <2>5. \A d \in Caller \ {c} : exchange'[d] = exchange[d]
    BY <2>1, <2>3 DEF Renewal, SessionInv, NetType
  <2>6. Staged'
    BY <1>1, <2>2, <2>5 DEF PageInv, Staged
  <2>7. ASSUME quiet' PROVE Orderly'
    <3>1. quiet /\ Orderly
      BY <1>1, <2>7 DEF PageInv
    <3>2. cookie' = cookie
      BY <1>3, <1>5, <1>6, <3>1 DEF Fits, Kept
    <3>3. exchange'[c] = y
      BY <1>5, <2>1, <2>3, <3>1 DEF Renewal, Joins, Renewing, SessionInv, NetType
    <3>4. Current(c)' /\ Told(c)'
      BY <1>1, <1>5, <1>6, <2>2, <2>4, <3>1, <3>2, <3>3 DEF Current, Told, Fits
    <3>5. Believed'
      BY <1>1, <1>5, <1>6, <2>2, <3>1, <3>2, Callers DEF Orderly, Believed, TrueUser, Alive, Fits
    <3>6. \A d \in Caller \ {c} : Current(d)' /\ Told(d)'
      BY <1>1, <1>5, <2>6, <3>1, AtRest
    <3> QED BY <1>5, <3>1, <3>4, <3>5, <3>6 DEF Orderly
  <2> QED BY <1>4, <2>6, <2>7 DEF PageInv
<1>7. CASE ~ (r.code = "401" /\ ~ call[c].tried)
  <2>1. call' = [call EXCEPT ![c].at = "done"] /\ UNCHANGED exchange
    BY <1>2, <1>7 DEF Receive
  <2>2. /\ call'[c].at = "done" /\ call'[c].path = call[c].path /\ call'[c].reply = r
        /\ \A d \in Caller \ {c} : call'[d] = call[d]
    BY <1>2, <2>1 DEF SessionInv, NetType, Calls
  <2>3. Staged'
    BY <1>1, <2>1, <2>2 DEF PageInv, Staged
  <2>4. ASSUME quiet' PROVE Orderly'
    <3>1. quiet /\ Orderly
      BY <1>1, <2>4 DEF PageInv
    <3>2. r.code = "ok" \/ (r.code = "400" /\ task[c] = "complete")
      BY <1>5, <1>7, <3>1 DEF Fits
    <3>3. task[c] \notin {"revoke", "complete"} \/ r.code # "ok" => cookie' = cookie
      <4>1. r.set = {} => cookie' = cookie
        BY <1>3 DEF Kept
      <4>2. task[c] \in {"status", "nonce", "query", "complete", "revoke"}
        <5>1. task[c] \in {"idle", "status", "nonce", "complete", "disconnect", "revoke", "query"}
          BY DEF PageInv, Staged
        <5>2. task[c] # "disconnect"
          BY <1>1 DEF PageInv, Staged
        <5> QED BY <1>1, <5>1, <5>2
      <4> QED BY <1>5, <3>1, <3>2, <4>1, <4>2 DEF Fits
    <3>4. task[c] = "revoke" => ~ Alive'
      <4>1. (CHOOSE jar \in {None} : TRUE) = None
        OBVIOUS
      <4> QED BY <1>3, <1>5, <3>1, <3>2, <4>1 DEF Fits, Kept, Alive
    <3>5. Told(c)'
      BY <1>1, <1>5, <2>2, <3>1, <3>2, <3>3, <3>4 DEF Told, Fits
    <3>6. Current(c)'
      BY <1>5, <2>1, <2>2, <3>1 DEF Current
    <3>7. Believed'
      <4>1. CASE task[c] \notin {"revoke", "complete"}
        BY <1>1, <1>5, <2>2, <3>1, <3>3, <4>1, Callers DEF Orderly, Believed, TrueUser, Alive
      <4>2. CASE task[c] = "revoke"
        BY <1>1, <1>5, <3>1, <4>2, Callers DEF Orderly, Believed
      <4>3. CASE task[c] = "complete"
        <5>1. c = "enter"
          BY <4>3, Callers DEF PageInv, Staged, Caller
        <5>2. CASE r.code = "ok"
          BY <1>1, <1>5, <2>2, <3>1, <4>3, <5>1, <5>2, Callers DEF Orderly, Believed
        <5>3. CASE r.code # "ok"
          <6>1. cookie' = cookie /\ ~ Alive
            BY <1>2, <3>1, <3>3, <4>3, <5>1, <5>3 DEF Orderly, Believed
          <6>2. ~ Alive'
            BY <1>1, <6>1 DEF Alive
          <6> QED BY <1>1, <1>5, <3>1, <4>3, <5>1, <6>2, Callers DEF Orderly, Believed
        <5> QED BY <5>2, <5>3
      <4> QED BY <4>1, <4>2, <4>3
    <3>8. \A d \in Caller \ {c} : Current(d)' /\ Told(d)'
      BY <1>1, <1>5, <2>3, <3>1, AtRest
    <3> QED BY <1>5, <3>1, <3>5, <3>6, <3>7, <3>8 DEF Orderly
  <2> QED BY <1>4, <2>3, <2>4 DEF PageInv
<1> QED BY <1>6, <1>7

(* What the end of a renewal does to everybody's call.                     *)
LEMMA Resumed ==
  ASSUME SessionInv, NEW d \in Caller, exchange[d].at # "none", NEW ok \in BOOLEAN, NEW jar, Resume(d, ok, jar),
         exchange' = [exchange EXCEPT ![d] = NoExchange]
  PROVE  /\ \A c \in Caller : exchange'[c].at = "none"
         /\ \A c \in Caller : call[c].at # "waits" => call'[c] = call[c]
         /\ \A c \in Caller : call[c].at = "waits" =>
               /\ call'[c].path = call[c].path /\ call'[c].tried = call[c].tried
               /\ call'[c].reply = call[c].reply
               /\ ok => call'[c].at = "sent" /\ call'[c].with = jar
               /\ ~ ok => call'[c].at = "done"
<1>1. Waiting(d) = {c \in Caller : call[c].at = "waits"}
  BY DEF Waiting, Joins, Renewing
<1>2. \A c \in Caller : exchange'[c].at = "none"
  <2>1. exchange \in [Caller -> Exchanges] /\ \A c \in Caller \ {d} : exchange[c].at = "none"
    BY DEF SessionInv, NetType, Shared
  <2> QED BY <2>1, IdleTyped
<1>3. \A c \in Caller : call[c].at # "waits" => call'[c] = call[c]
  BY <1>1 DEF Resume
<1>4. ASSUME NEW c \in Caller, call[c].at = "waits"
      PROVE  /\ call'[c].path = call[c].path /\ call'[c].tried = call[c].tried
             /\ call'[c].reply = call[c].reply
             /\ ok => call'[c].at = "sent" /\ call'[c].with = jar
             /\ ~ ok => call'[c].at = "done"
  <2>1. call[c] \in Calls
    BY DEF SessionInv, NetType
  <2>2. CASE ok
    <3>1. call'[c] = [call[c] EXCEPT !.at = "sent", !.with = jar]
      BY <1>1, <1>4, <2>2 DEF Resume
    <3> QED BY <2>1, <2>2, <3>1 DEF Calls
  <2>3. CASE ~ ok
    <3>1. call'[c] = [call[c] EXCEPT !.at = "done"]
      BY <1>1, <1>4, <2>3 DEF Resume
    <3> QED BY <2>1, <2>3, <3>1 DEF Calls
  <2> QED BY <2>2, <2>3
<1> QED BY <1>2, <1>3, <1>4

LEMMA RenewalLostKeepsPage ==
  ASSUME SessionInv, PageInv, NEW d \in Caller, RenewalLost(d)
  PROVE  PageInv'
<1>1. UNCHANGED <<store, task, url, asked>> /\ ~ quiet' /\ exchange[d].at # "none"
  BY DEF RenewalLost, pageVars
<1>2. PICK ok \in BOOLEAN : ok = FALSE
  OBVIOUS
<1>3. PICK jar : jar = cookie
  OBVIOUS
<1>4. Resume(d, ok, jar) /\ exchange' = [exchange EXCEPT ![d] = NoExchange]
  BY <1>2, <1>3 DEF RenewalLost
<1>5. /\ \A c \in Caller : exchange'[c].at = "none"
      /\ \A c \in Caller : call[c].at # "waits" => call'[c] = call[c]
      /\ \A c \in Caller : call[c].at = "waits" => call'[c].path = call[c].path /\ call'[c].at = "done"
  BY <1>1, <1>2, <1>4, Resumed
<1>6. StoreType' /\ Undisturbed'
  BY <1>1 DEF PageInv, StoreType, Undisturbed, Subject
<1>7. Staged'
  BY <1>1, <1>5 DEF PageInv, Staged
<1> QED BY <1>1, <1>6, <1>7 DEF PageInv

LEMMA RenewedKeepsPage ==
  ASSUME SessionInv, PageInv, NEW d \in Caller, Renewed(d)
  PROVE  PageInv'
<1>1. /\ UNCHANGED <<now, store, task, url, quiet, asked>> /\ exchange[d].at = "back"
      /\ call[d].at = "waits" /\ task[d] # "idle"
  BY DEF Renewed, pageVars, history, PageInv, Staged
<1>2. PICK r, jar : r = exchange[d].reply /\ jar = Kept(r.set)
  OBVIOUS
<1>3. PICK ok \in BOOLEAN : ok = (r.code = "ok")
  OBVIOUS
<1>4. Resume(d, ok, jar) /\ exchange' = [exchange EXCEPT ![d] = NoExchange] /\ cookie' = jar
  BY <1>2, <1>3 DEF Renewed
<1>5. /\ \A c \in Caller : exchange'[c].at = "none"
      /\ \A c \in Caller : call[c].at # "waits" => call'[c] = call[c]
      /\ \A c \in Caller : call[c].at = "waits" =>
            /\ call'[c].path = call[c].path /\ call'[c].tried = call[c].tried
            /\ call'[c].reply = call[c].reply
            /\ ok => call'[c].at = "sent" /\ call'[c].with = jar
            /\ ~ ok => call'[c].at = "done"
  BY <1>1, <1>4, Resumed
<1>6. StoreType' /\ Undisturbed'
  BY <1>1 DEF PageInv, StoreType, Undisturbed, Subject
<1>7. Staged'
  BY <1>1, <1>5 DEF PageInv, Staged
<1>8. ASSUME quiet' PROVE Orderly'
  <2>1. quiet /\ Orderly
    BY <1>1, <1>8 DEF PageInv
  <2>2. \A c \in Caller \ {d} : task[c] = "idle"
    BY <1>1, <2>1, OthersSilent DEF Orderly, PageInv
  <2>3. ~ Resting /\ ~ Resting' /\ Alone'
    BY <1>1, <2>1 DEF Resting, Orderly, Alone
  <2>4. /\ Fits(d, call[d].reply) /\ call[d].reply.code = "401" /\ call[d].tried
        /\ task[d] \in {"status", "revoke", "query"}
    <3>1. Told(d)
      BY <2>1 DEF Orderly
    <3> QED BY <1>1, <3>1 DEF Told, Fits
  <2>5. CASE r.code = "ok"
    <3>1. PICK pair \in Tokens : /\ r.set = {pair} /\ pair.sub = cookie.sub /\ now < pair.access
                                 /\ cookie # None
      BY <1>1, <1>2, <2>1, <2>5 DEF Orderly, Current
    <3>2. cookie' = pair
      <4>1. (CHOOSE j \in {pair} : TRUE) = pair
        OBVIOUS
      <4> QED BY <1>2, <1>4, <3>1, <4>1 DEF Kept
    <3>3. cookie' # None /\ verifyAccessToken(cookie)' /\ cookie'.sub = cookie.sub
      BY <1>1, <3>1, <3>2, SessionAssumption DEF verifyAccessToken, Tokens
    <3>4. Current(d)' /\ Told(d)'
      BY <1>1, <1>3, <1>4, <1>5, <2>5, <3>3 DEF Current, Told
    <3>5. Believed'
      BY <1>1, <2>1, <2>2, <2>3, <2>4, <3>1, <3>3, Callers DEF Orderly, Believed, TrueUser
    <3>6. \A c \in Caller \ {d} : Current(c)' /\ Told(c)'
      BY <1>1, <1>7, <2>2, AtRest
    <3> QED BY <2>3, <3>4, <3>5, <3>6 DEF Orderly
  <2>6. CASE r.code # "ok"
    <3>1. r.set = {} /\ ~ Alive
      BY <1>1, <1>2, <2>1, <2>6 DEF Orderly, Current
    <3>2. cookie' = cookie /\ ~ Alive'
      BY <1>1, <1>2, <1>4, <3>1 DEF Kept, Alive
    <3>3. Current(d)' /\ Told(d)'
      BY <1>1, <1>3, <1>5, <2>4, <2>6, <3>2 DEF Current, Told, Fits
    <3>4. Believed'
      BY <1>1, <2>1, <2>2, <2>3, <2>4, <3>2, Callers DEF Orderly, Believed, TrueUser
    <3>5. \A c \in Caller \ {d} : Current(c)' /\ Told(c)'
      BY <1>1, <1>7, <2>2, AtRest
    <3> QED BY <2>3, <3>3, <3>4, <3>5 DEF Orderly
  <2> QED BY <2>5, <2>6
<1> QED BY <1>6, <1>7, <1>8 DEF PageInv

-----------------------------------------------------------------------------
(* The page's own steps.                                                   *)

(* A task comes to a stage, with the call x.                               *)
Comes(c, stage, x) ==
    /\ task' = [task EXCEPT ![c] = stage] /\ call' = [call EXCEPT ![c] = x] /\ UNCHANGED exchange
    /\ stage \in {"idle", "status", "nonce", "complete", "disconnect", "revoke", "query"}
    /\ stage \in Stages(c)
    /\ x.at = "none" <=> stage \in {"idle", "disconnect"}
    /\ x.at # "none" => x.path = stage

LEMMA StageMoves ==
  ASSUME SessionInv, PageInv, NEW c \in Caller, NEW stage, NEW x, Comes(c, stage, x), exchange[c].at = "none"
  PROVE  /\ Staged' /\ task'[c] = stage /\ call'[c] = x
         /\ \A d \in Caller \ {c} : task'[d] = task[d] /\ call'[d] = call[d]
<1> USE DEF Comes
<1>1. task'[c] = stage /\ \A d \in Caller \ {c} : task'[d] = task[d]
  BY DEF PageInv, Staged
<1>2. call'[c] = x /\ \A d \in Caller \ {c} : call'[d] = call[d]
  BY DEF SessionInv, NetType
<1>3. task' \in [Caller -> {"idle", "status", "nonce", "complete", "disconnect", "revoke", "query"}]
  BY DEF PageInv, Staged
<1>4. Staged'
  BY <1>1, <1>2, <1>3 DEF PageInv, Staged
<1> QED BY <1>1, <1>2, <1>4

(* A call leaves with the cookie of the moment.                            *)
Departs(c, stage, body) ==
    /\ task' = [task EXCEPT ![c] = stage] /\ call' = Send(c, stage, body)
    /\ UNCHANGED <<now, cookie, exchange>>
    /\ stage \in {"status", "nonce", "complete", "revoke", "query"} \cap Stages(c)

LEMMA Leaves ==
  ASSUME SessionInv, PageInv, NEW c \in Caller, NEW stage, NEW body, Departs(c, stage, body),
         exchange[c].at = "none", quiet' => \A d \in Caller \ {c} : task[d] = "idle"
  PROVE  /\ Staged' /\ task'[c] = stage /\ call'[c].at = "sent"
         /\ \A d \in Caller \ {c} : task'[d] = task[d]
         /\ quiet' => Alone' /\ \A d \in Caller : Current(d)' /\ Told(d)'
<1>1. PICK x : x = Sent(stage, cookie, body)
  OBVIOUS
<1>2. x.at = "sent" /\ x.path = stage /\ x.with = cookie /\ ~ x.tried
  BY <1>1 DEF Sent, Idle
<1>3. Comes(c, stage, x)
  BY <1>1, <1>2 DEF Departs, Send, Sent, Comes
<1>4. /\ Staged' /\ task'[c] = stage /\ call'[c] = x
      /\ \A d \in Caller \ {c} : task'[d] = task[d]
  BY <1>3, StageMoves
<1>5. ASSUME quiet' PROVE Alone' /\ \A d \in Caller : Current(d)' /\ Told(d)'
  <2>1. \A d \in Caller \ {c} : task'[d] = "idle"
    BY <1>4, <1>5
  <2>2. Alone'
    BY <2>1 DEF Alone
  <2>3. Current(c)' /\ Told(c)'
    BY <1>2, <1>4 DEF Current, Told, Departs
  <2> QED BY <1>4, <2>1, <2>2, <2>3, AtRest
<1> QED BY <1>2, <1>4, <1>5

(* A task is over.                                                         *)
LEMMA Rests ==
  ASSUME SessionInv, PageInv, NEW c \in Caller, Done(c), StoreType',
         task' = [task EXCEPT ![c] = "idle"], call' = [call EXCEPT ![c] = Idle],
         UNCHANGED <<now, cookie, exchange, quiet, asked>>,
         quiet /\ Orderly =>
            /\ IF store'.isAuthenticated THEN cookie # None /\ store'.user = cookie.sub ELSE ~ Alive
            /\ asked = "deep" => url' = "deep" \/ ~ store'.isAuthenticated
  PROVE  PageInv'
<1>1. PICK x : x = Idle
  OBVIOUS
<1>2. x.at = "none"
  BY <1>1, IdleTyped
<1>3. exchange[c].at = "none" /\ task[c] # "idle"
  BY DEF Done, PageInv, Staged
<1>4. "idle" \in Stages(c)
  BY DEF Stages
<1>5. Comes(c, "idle", x)
  BY <1>1, <1>2, <1>4 DEF Comes
<1>6. /\ Staged' /\ task'[c] = "idle"
      /\ \A d \in Caller \ {c} : task'[d] = task[d]
  BY <1>3, <1>5, StageMoves
<1>7. Undisturbed'
  BY <1>6, Callers DEF PageInv, Undisturbed
<1>8. ASSUME quiet' PROVE Orderly'
  <2>1. quiet /\ Orderly
    BY <1>8 DEF PageInv
  <2>2. \A d \in Caller : task'[d] = "idle"
    BY <1>3, <1>6, <2>1, OthersSilent DEF Orderly, PageInv
  <2>3. Alone' /\ Resting'
    BY <2>2 DEF Alone, Resting
  <2>4. Believed'
    BY <2>1, <2>2, <2>3, Callers DEF Believed, TrueUser, Alive
  <2> QED BY <1>6, <2>2, <2>3, <2>4, AtRest DEF Orderly
<1> QED BY <1>6, <1>7, <1>8 DEF PageInv

(* The end of checkSession: the answer's user, or nobody.                  *)
LEMMA CheckedRests ==
  ASSUME SessionInv, PageInv, NEW c \in Caller, Done(c), task[c] = "status", Checked(c),
         task' = [task EXCEPT ![c] = "idle"], call' = [call EXCEPT ![c] = Idle],
         UNCHANGED <<now, cookie, exchange, quiet, asked>>
  PROVE  PageInv'
<1>1. call[c] \in Calls /\ call[c].reply \in Replies /\ store \in [isLoading : BOOLEAN, isAuthenticated : BOOLEAN, sessionChecked : BOOLEAN, user : Subject]
  BY DEF Done, SessionInv, NetType, Calls, PageInv, StoreType
<1>2. CASE Ok(c)
  <2>1. /\ store' = [store EXCEPT !.isAuthenticated = TRUE, !.sessionChecked = TRUE, !.isLoading = FALSE, !.user = call[c].reply.user]
        /\ url' = Routed(store', url)
    BY <1>2 DEF Checked, Set
  <2>2. store'.isAuthenticated /\ store'.sessionChecked /\ store'.user = call[c].reply.user
    BY <1>1, <2>1
  <2>3. StoreType'
    BY <1>1, <2>1 DEF StoreType, Replies, Subject
  <2>4. ASSUME quiet, Orderly
        PROVE  /\ cookie # None /\ store'.user = cookie.sub
               /\ asked = "deep" => url' = "deep"
    <3>1. cookie # None /\ store'.user = cookie.sub
      BY <1>2, <2>2, <2>4 DEF Orderly, Told, Fits, Ok, Done
    <3>2. asked = "deep" => url = "deep"
      BY <2>4 DEF Orderly, Believed, Resting
    <3> QED BY <2>1, <2>2, <3>1, <3>2 DEF Routed, Held
  <2> QED BY <2>2, <2>3, <2>4, Rests
<1>3. CASE ~ Ok(c)
  <2>1. store' = SignedOut(store)
    BY <1>3 DEF Checked, Set
  <2>2. ~ store'.isAuthenticated
    BY <1>1, <2>1 DEF SignedOut
  <2>3. StoreType'
    BY <1>1, <2>1 DEF StoreType, SignedOut, Subject
  <2>4. quiet /\ Orderly => ~ Alive
    BY <1>3 DEF Orderly, Told, Fits, Ok, Done
  <2> QED BY <2>2, <2>3, <2>4, Rests
<1> QED BY <1>2, <1>3

(* A sign-in given up: it had not bought a session.                        *)
LEMMA GivesUpRests ==
  ASSUME SessionInv, PageInv, SignInFailed \/ WalletDeclines
  PROVE  PageInv'
<1>1. /\ Done("enter") /\ "enter" \in Caller /\ GivesUp
      /\ task["enter"] = "nonce" \/ (task["enter"] = "complete" /\ call["enter"].reply.code # "ok")
  BY Callers DEF SignInFailed, WalletDeclines, Failed, Ok, Done
<1>2. /\ task' = [task EXCEPT !["enter"] = "idle"] /\ call' = [call EXCEPT !["enter"] = Idle]
      /\ UNCHANGED <<now, cookie, exchange, quiet, asked>>
      /\ store' = [store EXCEPT !.isAuthenticated = FALSE, !.isLoading = FALSE]
  BY <1>1 DEF GivesUp, Set, history
<1>3. ~ store'.isAuthenticated /\ StoreType'
  BY <1>2 DEF PageInv, StoreType, Subject
<1>4. quiet /\ Orderly => ~ Alive
  BY <1>1 DEF Orderly, Believed
<1> QED BY <1>1, <1>2, <1>3, <1>4, Rests

LEMMA RevokedRests ==
  ASSUME SessionInv, PageInv, Revoked
  PROVE  PageInv'
<1>1. /\ Done("leave") /\ "leave" \in Caller /\ task["leave"] = "revoke"
      /\ task' = [task EXCEPT !["leave"] = "idle"] /\ call' = [call EXCEPT !["leave"] = Idle]
      /\ UNCHANGED <<now, cookie, exchange, quiet, asked>>
      /\ store' = SignedOut(store)
  BY Callers DEF Revoked, Set, history
<1>2. ~ store'.isAuthenticated /\ StoreType'
  BY <1>1 DEF PageInv, StoreType, Subject, SignedOut
<1>3. quiet /\ Orderly => ~ Alive
  BY <1>1 DEF Orderly, Told, Done
<1> QED BY <1>1, <1>2, <1>3, Rests

LEMMA signInKeepsPage ==
  ASSUME SessionInv, PageInv, signIn
  PROVE  PageInv'
<1>1. /\ task["enter"] = "idle" /\ ~ store.isAuthenticated /\ asked' = "root"
      /\ task' = [task EXCEPT !["enter"] = "nonce"] /\ call' = Send("enter", "nonce", None)
      /\ UNCHANGED <<now, cookie, exchange>> /\ quiet' = (quiet /\ Resting)
      /\ store' = [store EXCEPT !.isLoading = TRUE]
  BY DEF signIn, Begins
<1>2. "enter" \in Caller /\ exchange["enter"].at = "none"
  BY <1>1, Callers DEF PageInv, Staged
<1>3. quiet' => quiet /\ Orderly /\ \A d \in Caller : task[d] = "idle"
  BY <1>1 DEF Resting, PageInv
<1>4. /\ Staged' /\ task'["enter"] = "nonce" /\ \A d \in Caller \ {"enter"} : task'[d] = task[d]
      /\ quiet' => Alone' /\ \A d \in Caller : Current(d)' /\ Told(d)'
  <2>1. Departs("enter", "nonce", None)
    BY <1>1, Callers DEF Departs
  <2> QED BY <1>2, <1>3, <2>1, Leaves
<1>5. StoreType' /\ Undisturbed'
  BY <1>1 DEF PageInv, StoreType, Undisturbed, Subject
<1>6. quiet' => Believed'
  <2> SUFFICES ASSUME quiet' PROVE Believed'
    OBVIOUS
  <2>1. ~ Alive'
    BY <1>1, <1>3 DEF Orderly, Believed, Resting, Alive
  <2>2. ~ Resting' /\ \A q \in Query : task'[q] # "query"
    BY <1>2, <1>3, <1>4, Callers DEF Resting
  <2> QED BY <1>1, <1>4, <2>1, <2>2 DEF Believed
<1> QED BY <1>4, <1>5, <1>6 DEF PageInv, Orderly

(* Signing in goes on: the message to the server, the cookie to the page.  *)
LEMMA SignInGoesOn ==
  ASSUME SessionInv, PageInv, NEW stage \in {"complete", "status"}, NEW body,
         Done("enter"), stage = "complete" => task["enter"] = "nonce",
         task' = [task EXCEPT !["enter"] = stage], call' = Send("enter", stage, body),
         UNCHANGED <<now, cookie, exchange, store, url, quiet, asked>>
  PROVE  PageInv'
<1>1. "enter" \in Caller /\ exchange["enter"].at = "none" /\ task["enter"] # "idle"
  BY Callers DEF Done, PageInv, Staged
<1>2. quiet' => quiet /\ Orderly /\ \A d \in Caller \ {"enter"} : task[d] = "idle"
  BY <1>1, OthersSilent DEF PageInv, Orderly
<1>3. /\ Staged' /\ task'["enter"] = stage /\ \A d \in Caller \ {"enter"} : task'[d] = task[d]
      /\ quiet' => Alone' /\ \A d \in Caller : Current(d)' /\ Told(d)'
  <2>1. Departs("enter", stage, body)
    BY Callers DEF Departs
  <2> QED BY <1>1, <1>2, <2>1, Leaves
<1>4. StoreType' /\ Undisturbed' /\ asked' # "deep"
  BY <1>1 DEF PageInv, StoreType, Undisturbed, Subject
<1>5. quiet' => Believed'
  <2> SUFFICES ASSUME quiet' PROVE Believed'
    OBVIOUS
  <2>1. stage = "complete" => ~ Alive'
    BY <1>2 DEF Orderly, Believed, Alive
  <2>2. ~ Resting' /\ \A q \in Query : task'[q] # "query"
    BY <1>1, <1>2, <1>3, Callers DEF Resting
  <2> QED BY <1>3, <1>4, <2>1, <2>2 DEF Believed
<1> QED BY <1>3, <1>4, <1>5 DEF PageInv, Orderly

LEMMA SignOutKeepsPage ==
  ASSUME SessionInv, PageInv, signOut \/ Disconnected
  PROVE  PageInv'
<1>1. CASE signOut
  <2>1. /\ task["leave"] = "idle" /\ asked' = "root"
        /\ task' = [task EXCEPT !["leave"] = "disconnect"]
        /\ UNCHANGED <<now, cookie, call, exchange>> /\ quiet' = (quiet /\ Resting)
        /\ store' = [store EXCEPT !.isLoading = TRUE]
    BY <1>1 DEF signOut, Begins, netVars
  <2>2. PICK x : x = call["leave"]
    OBVIOUS
  <2>3. "leave" \in Caller /\ exchange["leave"].at = "none" /\ x.at = "none" /\ call' = [call EXCEPT !["leave"] = x]
    BY <2>1, <2>2, Callers DEF PageInv, Staged, SessionInv, NetType
  <2>4. /\ Staged' /\ task'["leave"] = "disconnect" /\ \A d \in Caller \ {"leave"} : task'[d] = task[d]
    <3>1. Comes("leave", "disconnect", x)
      BY <2>1, <2>3, Callers DEF Comes
    <3> QED BY <2>3, <3>1, StageMoves
  <2>5. StoreType' /\ Undisturbed'
    BY <2>1 DEF PageInv, StoreType, Undisturbed, Subject
  <2>6. ASSUME quiet' PROVE Orderly'
    <3>1. \A d \in Caller : task[d] = "idle" /\ call[d].at = "none" /\ exchange[d].at = "none"
      BY <2>1, <2>6 DEF Resting, PageInv, Staged
    <3>2. Alone' /\ ~ Resting' /\ \A c \in Caller : Current(c)' /\ Told(c)'
      BY <2>1, <2>3, <2>4, <3>1 DEF Alone, Resting, Current, Told
    <3>3. Believed'
      BY <2>1, <2>4, <3>1, <3>2, Callers DEF Believed
    <3> QED BY <3>2, <3>3 DEF Orderly
  <2> QED BY <2>4, <2>5, <2>6 DEF PageInv
<1>2. CASE Disconnected
  <2>1. /\ task["leave"] = "disconnect"
        /\ task' = [task EXCEPT !["leave"] = "revoke"] /\ call' = Send("leave", "revoke", None)
        /\ UNCHANGED <<now, cookie, exchange, store, url, quiet, asked>>
    BY <1>2 DEF Disconnected, history
  <2>2. "leave" \in Caller /\ exchange["leave"].at = "none"
    BY <2>1, Callers DEF PageInv, Staged
  <2>3. quiet' => quiet /\ Orderly /\ \A d \in Caller \ {"leave"} : task[d] = "idle"
    BY <2>1, <2>2, OthersSilent DEF PageInv, Orderly
  <2>4. /\ Staged' /\ task'["leave"] = "revoke" /\ \A d \in Caller \ {"leave"} : task'[d] = task[d]
        /\ quiet' => Alone' /\ \A d \in Caller : Current(d)' /\ Told(d)'
    <3>1. Departs("leave", "revoke", None)
      BY <2>1, Callers DEF Departs
    <3> QED BY <2>2, <2>3, <3>1, Leaves
  <2>5. StoreType' /\ Undisturbed' /\ asked' # "deep"
    BY <2>1 DEF PageInv, StoreType, Undisturbed, Subject
  <2>6. quiet' => Believed'
    <3> SUFFICES ASSUME quiet' PROVE Believed'
      OBVIOUS
    <3>1. ~ Resting' /\ \A c \in Caller \ {"leave"} : task'[c] = "idle"
      BY <2>2, <2>3, <2>4 DEF Resting
    <3> QED BY <2>5, <3>1, Callers DEF Believed
  <2> QED BY <2>4, <2>5, <2>6 DEF PageInv, Orderly
<1> QED BY <1>1, <1>2

LEMMA QueryKeepsPage ==
  ASSUME SessionInv, PageInv, NEW q \in Query, Ask(q) \/ Asked(q)
  PROVE  PageInv'
<1>1. q \in Caller /\ q \notin {"boot", "enter", "leave"} /\ Stages(q) = {"idle", "query"}
  BY Callers
<1>2. CASE Ask(q)
  <2>1. /\ task[q] = "idle" /\ store.isAuthenticated
        /\ task' = [task EXCEPT ![q] = "query"] /\ call' = Send(q, "query", None)
        /\ UNCHANGED <<now, cookie, exchange, store, url, asked>> /\ quiet' = (quiet /\ Resting)
    BY <1>2 DEF Ask, Begins
  <2>2. exchange[q].at = "none"
    BY <1>1, <2>1 DEF PageInv, Staged
  <2>3. quiet' => quiet /\ Orderly /\ \A d \in Caller : task[d] = "idle"
    BY <2>1 DEF Resting, PageInv
  <2>4. /\ Staged' /\ task'[q] = "query" /\ \A d \in Caller \ {q} : task'[d] = task[d]
        /\ quiet' => Alone' /\ \A d \in Caller : Current(d)' /\ Told(d)'
    <3>1. Departs(q, "query", None)
      BY <1>1, <2>1 DEF Departs
    <3> QED BY <1>1, <2>2, <2>3, <3>1, Leaves
  <2>5. StoreType' /\ Undisturbed'
    BY <1>1, <2>1, <2>4, Callers DEF PageInv, StoreType, Undisturbed, Subject
  <2>6. quiet' => Believed'
    <3> SUFFICES ASSUME quiet' PROVE Believed'
      OBVIOUS
    <3>1. TrueUser /\ (asked = "deep" => url = "deep")
      BY <2>1, <2>3 DEF Orderly, Believed, Resting
    <3>2. ~ Resting' /\ task'["enter"] = "idle"
      BY <1>1, <2>3, <2>4, Callers DEF Resting
    <3> QED BY <2>1, <3>1, <3>2 DEF Believed, TrueUser
  <2> QED BY <2>4, <2>5, <2>6 DEF PageInv, Orderly
<1>3. CASE Asked(q)
  <2>1. /\ task[q] = "query" /\ Done(q)
        /\ task' = [task EXCEPT ![q] = "idle"] /\ call' = [call EXCEPT ![q] = Idle]
        /\ UNCHANGED <<now, cookie, exchange, store, url, quiet, asked>>
    BY <1>3 DEF Asked, history
  <2>2. StoreType'
    BY <2>1 DEF PageInv, StoreType, Subject
  <2>3. quiet /\ Orderly =>
            /\ store.isAuthenticated /\ TrueUser
            /\ asked = "deep" => url = "deep"
    BY <2>1 DEF Orderly, Believed
  <2> QED BY <1>1, <2>1, <2>2, <2>3, Rests DEF TrueUser
<1> QED BY <1>2, <1>3

LEMMA BootKeepsPage ==
  ASSUME SessionInv, PageInv, NEW where \in {"deep", "root"}, Boot(where)
  PROVE  PageInv'
<1>1. PICK x : x = [Idle EXCEPT !.at = "sent", !.path = "status", !.with = cookie]
  OBVIOUS
<1>2. x.at = "sent" /\ x.path = "status" /\ x.with = cookie /\ ~ x.tried
  BY <1>1 DEF Idle
<1>3. /\ UNCHANGED <<now, cookie>> /\ asked' = where
      /\ task' = [c \in Caller |-> IF c = "boot" THEN "status" ELSE "idle"]
      /\ call' = [c \in Caller |-> IF c = "boot" THEN x ELSE Idle]
      /\ exchange' = [c \in Caller |-> NoExchange]
      /\ store' = [InitialStore EXCEPT !.isAuthenticated = store.isAuthenticated, !.user = store.user]
      /\ url' = Routed(store', where)
  BY <1>1 DEF Boot
<1>4. /\ call'["boot"] = x /\ task'["boot"] = "status"
      /\ \A c \in Caller \ {"boot"} : call'[c].at = "none" /\ task'[c] = "idle"
      /\ \A c \in Caller : exchange'[c].at = "none"
  BY <1>3, Callers, IdleTyped
<1>5. Staged'
  <2>1. \A c \in Caller : "idle" \in Stages(c)
    BY DEF Stages
  <2> QED BY <1>2, <1>3, <1>4, <2>1, Callers DEF Staged
<1>6. StoreType' /\ (where = "deep" => url' = "deep")
  <2>1. store'.isAuthenticated = store.isAuthenticated /\ ~ store'.sessionChecked
    BY <1>3 DEF InitialStore
  <2>2. StoreType'
    BY <1>3 DEF InitialStore, PageInv, StoreType, Subject
  <2> QED BY <1>3, <2>1, <2>2 DEF Routed, Held
<1>7. Undisturbed'
  BY <1>4, Callers DEF Undisturbed
<1>8. Alone' /\ ~ Resting'
  BY <1>4, Callers DEF Alone, Resting
<1>9. Believed'
  BY <1>3, <1>4, <1>6, <1>8, Callers DEF Believed
<1>10. \A c \in Caller : Current(c)' /\ Told(c)'
  <2>1. Current("boot")' /\ Told("boot")'
    BY <1>2, <1>3, <1>4, Callers DEF Current, Told
  <2> QED BY <1>4, <1>5, <2>1, AtRest
<1> QED BY <1>5, <1>6, <1>7, <1>8, <1>9, <1>10 DEF PageInv, Orderly

(* Time passes: while nothing is renewed, what was over stays over.        *)
LEMMA TickKeepsPage ==
  ASSUME SessionInv, PageInv, SessionTick
  PROVE  PageInv'
<1>1. /\ now' = now + 1 /\ now' \in Nat /\ quiet' = (quiet /\ \A c \in Caller : ~ call[c].tried)
      /\ UNCHANGED <<cookie, store, task, url, call, exchange, asked>>
  BY DEF SessionTick, pageVars, netVars, SessionInv, ServerType
<1>2. StoreType' /\ Undisturbed' /\ Staged'
  BY <1>1 DEF PageInv, StoreType, Undisturbed, Subject, Staged
<1>3. ~ Alive => ~ Alive'
  BY <1>1, ElapsedStays DEF SessionInv, ServerType
<1>4. ASSUME quiet' PROVE Orderly'
  <2>1. quiet /\ Orderly /\ \A c \in Caller : ~ call[c].tried
    BY <1>1, <1>4 DEF PageInv
  <2>2. \A c \in Caller : exchange[c].at = "none"
    BY <2>1 DEF Orderly, Told, PageInv, Staged
  <2>3. Alone'
    BY <1>1, <2>1 DEF Orderly, Alone
  <2>4. Believed'
    BY <1>1, <1>3, <2>1 DEF Orderly, Believed, Resting, TrueUser
  <2>5. \A c \in Caller : Current(c)'
    BY <1>1, <2>1, <2>2 DEF Orderly, Current
  <2>6. \A c \in Caller : Told(c)'
    BY <1>1, <1>3, <2>1 DEF Orderly, Told, Fits
  <2> QED BY <2>3, <2>4, <2>5, <2>6 DEF Orderly
<1> QED BY <1>2, <1>4 DEF PageInv

LEMMA PageStarts == SessionInit => PageInv
<1> SUFFICES ASSUME SessionInit PROVE PageInv
  OBVIOUS
<1>1. \A c \in Caller : task[c] = "idle" /\ call[c].at = "none" /\ exchange[c].at = "none" /\ "idle" \in Stages(c)
  BY IdleTyped DEF SessionInit, Stages
<1>2. ~ store.isAuthenticated /\ StoreType /\ cookie = None /\ asked = "root"
  BY DEF SessionInit, InitialStore, StoreType, Subject
<1>3. Staged
  BY <1>1 DEF SessionInit, Staged
<1>4. Orderly
  BY <1>1, <1>2, Callers DEF Orderly, Alone, Believed, Current, Told, Alive
<1> QED BY <1>2, <1>3, <1>4 DEF PageInv, Undisturbed

LEMMA PageSteps ==
  ASSUME SessionInv, PageInv, [SessionNext]_sessionVars
  PROVE  PageInv'
<1>1. ASSUME NEW c \in Caller, Serve(c) \/ Receive(c) \/ Lose(c) \/ ServeRefresh(c) \/ Renewed(c) \/ RenewalLost(c)
      PROVE  PageInv'
  BY <1>1, ServeKeepsPage, ReceiveKeepsPage, LoseKeepsPage, ServeRefreshKeepsPage, RenewedKeepsPage, RenewalLostKeepsPage
<1>2. CASE Page
  <2>1. CASE checkSession
    <3>1. /\ Done("boot") /\ task["boot"] = "status" /\ Checked("boot")
          /\ task' = [task EXCEPT !["boot"] = "idle"] /\ call' = [call EXCEPT !["boot"] = Idle]
          /\ UNCHANGED <<now, cookie, exchange, quiet, asked>>
      BY <2>1 DEF checkSession, history
    <3> QED BY <3>1, Callers, CheckedRests
  <2>2. CASE SignInChecked
    <3>1. /\ Done("enter") /\ task["enter"] = "status" /\ Checked("enter")
          /\ task' = [task EXCEPT !["enter"] = "idle"] /\ call' = [call EXCEPT !["enter"] = Idle]
          /\ UNCHANGED <<now, cookie, exchange, quiet, asked>>
      BY <2>2 DEF SignInChecked, history
    <3> QED BY <3>1, Callers, CheckedRests
  <2>3. CASE SignInCompleted
    BY <2>3, SignInGoesOn DEF SignInCompleted, Ok, history
  <2> QED BY <1>2, <2>1, <2>2, <2>3, signInKeepsPage, GivesUpRests, SignOutKeepsPage, RevokedRests, QueryKeepsPage DEF Page
<1>3. ASSUME NEW a \in Account, WalletSigns(a) PROVE PageInv'
  <2>1. PICK n, m : n = call["enter"].reply.user /\ m = Message(a, n)
    OBVIOUS
  <2>2. PICK b : b = [message |-> m, claimed |-> a, nonce |-> n]
    OBVIOUS
  <2>3. /\ Done("enter") /\ task["enter"] = "nonce"
        /\ task' = [task EXCEPT !["enter"] = "complete"] /\ call' = Send("enter", "complete", b)
        /\ UNCHANGED <<now, cookie, exchange, store, url, quiet, asked>>
    BY <1>3, <2>1, <2>2 DEF WalletSigns, Ok, history
  <2> QED BY <2>3, SignInGoesOn
<1>4. ASSUME NEW m \in signed, NEW a \in Wallet, NEW n \in Nonce, NEW p \in Platform, CompleteElsewhere(m, a, n, p)
      PROVE  PageInv'
  BY <1>4, ElsewhereKeepsPage DEF CompleteElsewhere, pageVars, netVars, history
<1>5. ASSUME NEW w \in {"deep", "root"}, Boot(w) PROVE PageInv'
  BY <1>5, BootKeepsPage
<1>6. CASE SessionTick
  BY <1>6, TickKeepsPage
<1>7. CASE UNCHANGED sessionVars
  BY <1>7, ElsewhereKeepsPage DEF sessionVars, pageVars, netVars, history
<1> QED BY <1>1, <1>2, <1>3, <1>4, <1>5, <1>6, <1>7 DEF SessionNext, Network

(* While calls neither overlap nor get lost one task of the page is active,*)
(* its call carries the jar's cookie, an answer fits the cookie it was     *)
(* given for, and the store says what the jar holds (stores/auth.ts).      *)
THEOREM PageInvariant == SessionSpec => []PageInv
<1>1. SessionInv /\ PageInv /\ [SessionNext]_sessionVars => PageInv'
  BY PageSteps
<1> QED BY <1>1, PageStarts, SessionInvariant, PTL DEF SessionSpec

(* client.ts, stores/auth.ts, App.tsx: a renewal is shared and nobody is   *)
(* left waiting; a page whose calls neither overlapped nor got lost says   *)
(* it is signed in, and as whom, exactly when the jar says so; a link that *)
(* was opened stays open while there is a session.                         *)
THEOREM SessionFollowed == SessionSpec => []ClientFollowsSession
<1>1. SessionInv /\ PageInv => ClientFollowsSession
  <2> SUFFICES ASSUME SessionInv, PageInv PROVE ClientFollowsSession
    OBVIOUS
  <2>1. OneRenewalForAll
    BY OneRenewal
  <2>2. QuietStoreIsTrue
    BY DEF PageInv, Orderly, Believed, TrueUser, QuietStoreIsTrue
  <2>3. DeepLinkKept
    BY DEF PageInv, Orderly, Believed, DeepLinkKept
  <2> QED BY <2>1, <2>2, <2>3 DEF ClientFollowsSession
<1> QED BY <1>1, SessionInvariant, PageInvariant, PTL

=============================================================================
