------------------------------- MODULE MCHaloHook -------------------------------
(***************************************************************************)
(* A small instance for what the outside sees of a settled index: a pool   *)
(* that trades on it (HaloHook) or a name that is resolved to it           *)
(* (HaloResolver).  Both stand on the same oracle and do not touch each    *)
(* other, so a behaviour is about one of them.                             *)
(***************************************************************************)
EXTENDS HaloHook, HaloResolver, TLC

VARIABLE topic

vars == <<topic, marketVars, resolverVars>>

Fuel == <<"fuel", 1>>

(* The market of the pool, and one createMarket refuses: binding a pool to *)
(* it is binding it to an id that no market has.                           *)
Wide == [key |-> Fuel, strike |-> 0, cap |-> 3]
Inverted == [key |-> Fuel, strike |-> 2, cap |-> 2]

MCMarket == {Wide, Inverted}
MCPool == {<<Wide, 1>>}
MCValues == {1}

\* The series' live name and its epoch.
MCNames == {[country |-> "fuel", item |-> Absent, epoch |-> Absent],
            [country |-> "fuel", item |-> Absent, epoch |-> 1]}

\* To begin with every gateway signs with a trusted key.
OutsideInit ==
    /\ topic \in {"pool", "names"}
    /\ HookInit /\ ResolverInit
    /\ owner = "manager" /\ gateways = <<"g1">>
    /\ trustedSigner = {"s1"} /\ signerKey = [g \in Gateway |-> "s1"]
    /\ figure = [n \in Name |-> 1]
    /\ topic = "names" => governance = "manager"

\* The oracle is governed by the same multisig throughout.
Names ==
    /\ ResolverNext
    /\ UNCHANGED <<governance, wired, minBond, rate, vaultVars, hookVars>>
    /\ now' < MaxNow

OutsideNext ==
    /\ UNCHANGED topic
    /\ \/ topic = "pool" /\ HookNext /\ UNCHANGED resolverVars
       \/ topic = "names" /\ Names

OutsideSpec == OutsideInit /\ [][OutsideNext]_vars
=============================================================================
