----------------------------- MODULE HaloResolver ------------------------------
(***************************************************************************)
(* The names under halo.eth: HaloResolver.sol, which answers a name by     *)
(* sending the client to a gateway and checking what comes back, and the   *)
(* gateway of the API (routes/client/ens-gateway.ts), which computes the   *)
(* figure and signs it.  Between the revert, the fetch and the callback    *)
(* anything may happen: time passes, the figure moves, governance changes  *)
(* gateways and signers, a secret is rotated, the oracle finalises the     *)
(* epoch, and an answer fetched for one reader is shown for another.       *)
(*                                                                         *)
(* A signature is the key that made it and what it covers; the arithmetic  *)
(* of the curve and the byte layout of the digest are left out.  The series*)
(* and epoch an answer names, which no signature covers, are taken as the  *)
(* gateway wrote them.  One resolver, whose clock is the oracle's; the     *)
(* figure of a name is MatchedIndex's and moves freely here; a finalised   *)
(* value never changes (DecisionIsFinal of HaloIndexOracle).               *)
(***************************************************************************)
EXTENDS HaloIndexOracle, FiniteSets, Sequences

CONSTANTS
    Name,        \* the names asked for, as parseName reads them
    Reader,      \* clients that resolve names
    Gateway,     \* deployments of the gateway
    SignerKey,   \* signing keys
    Figure,      \* values an index may have, in basis points
    Absent,      \* no country, item, epoch, index, key, answer or name
    TTL_SECONDS, \* how long a signed answer stays usable
    MaxSigned,   \* bound: different answers made
    MaxMoves,    \* bound: times a figure moves
    MaxOrders    \* bound: orders of governance and rotated secrets

ASSUME ResolverAssumption ==
    /\ Figure \subseteq Int
    /\ TTL_SECONDS \in Nat \ {0}
    /\ \A n \in Name : {"country", "item", "epoch"} = DOMAIN n

VARIABLES
    owner,          \* governance of the resolver
    gateways,       \* sequence of gateways a lookup names, first choice first
    trustedSigner,  \* keys the resolver accepts
    signerKey,      \* [Gateway -> SignerKey \cup {Absent}]: ENS_GATEWAY_SIGNER_KEY
    figure,         \* [Name -> Figure \cup {Absent}]: what the gateway computes
    lookup,         \* [Reader -> the name asked and the gateways left to try]
    signed,         \* answers made so far: they can be shown again at any time
    got,            \* [Reader -> its last accepted answer]
    lastHeld,       \* history: the last moment a figure now replaced still held
    orders,         \* orders given so far
    moves           \* times the figures moved

contract == <<owner, gateways, trustedSigner>>
corpus == <<figure, lastHeld, moves>>
resolverVars == <<contract, signerKey, corpus, lookup, signed, got, orders>>

NoLookup == [name |-> Absent, urls |-> <<>>]
Never == -1

ResolverInit ==
    /\ owner \in Account
    /\ gateways \in [1..Cardinality(Gateway) -> Gateway]
    /\ trustedSigner \in SUBSET SignerKey
    /\ signerKey \in [Gateway -> SignerKey \cup {Absent}]
    /\ figure \in [Name -> Figure \cup {Absent}]
    /\ lookup = [r \in Reader |-> NoLookup]
    /\ signed = {}
    /\ got = [r \in Reader |-> Absent]
    /\ lastHeld = [h \in Name \X Figure |-> Never]
    /\ orders = 0 /\ moves = 0

-----------------------------------------------------------------------------
(* A lookup. *)

\* The revert names the gateways of this moment.
resolve(r, n) ==
    /\ lookup[r] = NoLookup
    /\ lookup' = [lookup EXCEPT ![r] = [name |-> n, urls |-> gateways]]
    /\ UNCHANGED <<contract, signerKey, corpus, signed, got, orders>>

\* A country is needed, an item has no published series, a window without an
\* index has no answer, and neither has a gateway without a key.
HasAnswer(g, n) ==
    /\ n.country # Absent /\ n.item = Absent
    /\ figure[n] # Absent
    /\ signerKey[g] # Absent

\* The answer is bound to the name by the extraData both sides hash, and says
\* which epoch to look up; a name without one asks for the live figure.
Sign(g, n) ==
    [name |-> n, result |-> figure[n], expires |-> now + TTL_SECONDS, signer |-> signerKey[g]]

ensGateway(r, g) ==
    /\ lookup[r] # NoLookup /\ lookup[r].urls # <<>> /\ g = Head(lookup[r].urls)
    /\ HasAnswer(g, lookup[r].name)
    /\ signed' = signed \cup {Sign(g, lookup[r].name)} /\ Cardinality(signed') <= MaxSigned
    /\ UNCHANGED <<contract, signerKey, corpus, lookup, got, orders>>

\* A gateway that is down or has no answer: the client tries the next.
NextGateway(r) ==
    /\ lookup[r] # NoLookup /\ lookup[r].urls # <<>>
    /\ lookup' = [lookup EXCEPT ![r].urls = Tail(@)]
    /\ UNCHANGED <<contract, signerKey, corpus, signed, got, orders>>

\* Mutant of IsStale: an answer lasts through the moment it expires.
IsStaleAfter(a) == now > a.expires

\* The deadline is checked first.
IsStale(a) == now >= a.expires

\* A digest rebuilt for another name recovers to a stranger.
SignedFor(a, n) == a.name = n /\ a.signer \in trustedSigner

\* The series and epoch of a name; a live name asks for epoch 0, which is
\* never opened.
AsksFor(n) == <<n.country, n.epoch>>
IsFinal(n) == n.epoch # Absent /\ AsksFor(n) \in Key /\ statusOf(AsksFor(n)) = "Finalized"

\* Mutant of AgreesWithOracle: the value that still waits is compared, not the
\* settled one.
AgreesWhileOpen(a) ==
    a.name.epoch # Absent /\ statusOf(AsksFor(a.name)) = "Published"
        => a.result = epochs[AsksFor(a.name)].valueBps

AgreesWithOracle(a) == IsFinal(a.name) => a.result = epochs[AsksFor(a.name)].valueBps

\* Any answer made so far may be shown to the callback.
resolveCallback(r, a) ==
    /\ lookup[r] # NoLookup
    /\ ~IsStale(a)
    /\ SignedFor(a, lookup[r].name)
    /\ AgreesWithOracle(a)
    /\ got' = [got EXCEPT ![r] = [name |-> a.name, result |-> a.result, at |-> now,
                                   final |-> IsFinal(a.name)]]
    /\ lookup' = [lookup EXCEPT ![r] = NoLookup]
    /\ UNCHANGED <<contract, signerKey, corpus, signed, orders>>

GiveUp(r) ==
    /\ lookup[r] # NoLookup
    /\ lookup' = [lookup EXCEPT ![r] = NoLookup]
    /\ UNCHANGED <<contract, signerKey, corpus, signed, got, orders>>

-----------------------------------------------------------------------------
(* Administration. *)

Order(by) == by = owner /\ orders < MaxOrders /\ orders' = orders + 1

setSigner(by, k, trusted) ==
    /\ Order(by)
    /\ trustedSigner' = IF trusted THEN trustedSigner \cup {k} ELSE trustedSigner \ {k}
    /\ UNCHANGED <<owner, gateways, signerKey, corpus, lookup, signed, got>>

setGateways(by, urls) ==
    /\ Order(by)
    /\ gateways' = urls
    /\ UNCHANGED <<owner, trustedSigner, signerKey, corpus, lookup, signed, got>>

setOwner(by, next) ==
    /\ Order(by) /\ next # NoOne
    /\ owner' = next
    /\ UNCHANGED <<gateways, trustedSigner, signerKey, corpus, lookup, signed, got>>

\* A deployment's secret is set, rotated or missing.
Rotate(g, k) ==
    /\ orders < MaxOrders /\ orders' = orders + 1
    /\ signerKey' = [signerKey EXCEPT ![g] = k]
    /\ UNCHANGED <<contract, corpus, lookup, signed, got>>

\* Lines arrive, are deleted or leave the window, and the figure is another.
Move(n, v) ==
    /\ figure[n] # v /\ moves < MaxMoves /\ moves' = moves + 1
    /\ figure' = [figure EXCEPT ![n] = v]
    /\ lastHeld' = IF figure[n] = Absent THEN lastHeld
                   ELSE [lastHeld EXCEPT ![<<n, figure[n]>>] = now]
    /\ UNCHANGED <<contract, signerKey, lookup, signed, got, orders>>

-----------------------------------------------------------------------------
ResolverStep ==
    \/ \E r \in Reader, n \in Name : resolve(r, n)
    \/ \E r \in Reader, g \in Gateway : ensGateway(r, g)
    \/ \E r \in Reader : NextGateway(r) \/ GiveUp(r)
    \/ \E r \in Reader, a \in signed : resolveCallback(r, a)
    \/ \E by \in Account, k \in SignerKey, trusted \in BOOLEAN : setSigner(by, k, trusted)
    \/ \E by \in Account, g \in Gateway : setGateways(by, <<g>>)
    \/ \E by, next \in Account : setOwner(by, next)
    \/ \E g \in Gateway, k \in SignerKey \cup {Absent} : Rotate(g, k)
    \/ \E n \in Name, v \in Figure \cup {Absent} : Move(n, v)

\* The oracle goes its own way, and its clock is the resolver's.
ResolverNext ==
    \/ ResolverStep /\ UNCHANGED oracleVars
    \/ OracleNext /\ UNCHANGED resolverVars

ResolverSpec == OracleInit /\ ResolverInit /\ [][ResolverNext]_<<oracleVars, resolverVars>>

-----------------------------------------------------------------------------
ResolverTypeOK ==
    /\ orders \in Nat /\ moves \in Nat
    /\ owner \in Account
    /\ trustedSigner \subseteq SignerKey
    /\ signerKey \in [Gateway -> SignerKey \cup {Absent}]
    /\ figure \in [Name -> Figure \cup {Absent}]
    /\ lastHeld \in [Name \X Figure -> Nat \cup {Never}]

LastMomentOf(n, v) == IF figure[n] = v THEN now ELSE lastHeld[<<n, v>>]

\* The head comments of HaloResolver.sol and ens-gateway.ts ("Trust is bounded
\* to the live, unfinalised number", "How long a signed answer stays usable.
\* Short, because it is a live figure"): whatever was rotated, replayed, moved
\* or finalised between a reader's lookup and its callback, the number it was
\* given was that name's figure less than a lifetime of an answer earlier, and
\* if its epoch was final by then the number is and stays the oracle's, so that
\* all readers of it agree.
AnswersHold ==
    \A r \in Reader : got[r] # Absent =>
        LET n == got[r].name  v == got[r].result IN
            /\ LastMomentOf(n, v) # Never /\ got[r].at < LastMomentOf(n, v) + TTL_SECONDS
            /\ got[r].final => IsFinal(n) /\ v = epochs[AsksFor(n)].valueBps
=============================================================================
