--------------------------- MODULE ContractDeployment ---------------------------
(***************************************************************************)
(* packages/onchain/scripts: the scripts that put the point claim contract *)
(* behind a proxy on one network, point the proxy at a new implementation, *)
(* and keep deployments/<network>.json, the record of what is deployed.    *)
(* A script waits for a transaction between any two of its steps, and may  *)
(* be stopped there, by its operator or by an error; another operator may  *)
(* run one meanwhile; and the owner of a proxy may use it by hand.         *)
(*                                                                         *)
(* Addresses are numbered in the order they are created.  What a refused   *)
(* environment, a missing artifact or an empty purse does is to stop the   *)
(* script before its first transaction, and is left out; so is the         *)
(* verification of the source, after which nothing follows.  All operators *)
(* work from one checkout.                                                 *)
(***************************************************************************)
EXTENDS Naturals, Sequences, FiniteSets

CONSTANTS
    Deployer,    \* accounts that run the scripts; an owner is one of them
    Signer,      \* keys that may sign for the server
    NoRecord,
    MaxScripts,  \* bound: scripts started
    MaxByHand    \* bound: what owners do by hand

ASSUME DeploymentAssumption == MaxScripts \in Nat /\ MaxByHand \in Nat

VARIABLES
    built,     \* implementations on the chain
    proxy,     \* the proxies on the chain: what each runs, its owner, its signer
    ran,       \* history: the implementations each proxy has run, in order
    record,    \* the file, or NoRecord
    script,    \* [Deployer -> the script under way]
    scripts, byHand,
    orderly    \* history: no script was stopped after it changed the chain, ran beside
               \* another, or was told of another proxy than the one on file

deploymentVars == <<built, proxy, ran, record, script, scripts, byHand, orderly>>

Resting == [pc |-> "none", of |-> 0, implementation |-> 0, owner |-> 0, signer |-> 0]

DeploymentInit ==
    /\ built = 0 /\ proxy = <<>> /\ ran = <<>> /\ record = NoRecord
    /\ script = [d \in Deployer |-> Resting]
    /\ scripts = 0 /\ byHand = 0 /\ orderly = TRUE

Reached(d, pc) == script[d].pc = pc
Alone(d) == \A other \in Deployer \ {d} : Reached(other, "none")
Starts(d) ==
    /\ Reached(d, "none") /\ scripts < MaxScripts /\ scripts' = scripts + 1
    /\ UNCHANGED <<built, proxy, ran, record, byHand>>

(* deployContract of the implementation, for both scripts.                 *)
Build(d, from, to) ==
    /\ Reached(d, from) /\ built' = built + 1
    /\ script' = [script EXCEPT ![d].pc = to, ![d].implementation = built + 1]
    /\ UNCHANGED <<proxy, ran, record, scripts, byHand, orderly>>

-----------------------------------------------------------------------------
(* deploy-point-claim.ts: whoever deploys says who shall own the proxy.    *)
BeginDeploy(d) ==
    /\ Starts(d)
    /\ \E o \in Deployer, s \in Signer :
          script' = [script EXCEPT ![d] = [Resting EXCEPT !.pc = "deploys", !.owner = o, !.signer = s]]
    /\ orderly' = (orderly /\ Alone(d))

(* The constructor of the proxy initialises it.                            *)
Initialised(d) ==
    [implementation |-> script[d].implementation, owner |-> script[d].owner, signer |-> script[d].signer]

CreateProxy(d) ==
    /\ Reached(d, "built")
    /\ proxy' = Append(proxy, Initialised(d))
    /\ ran' = Append(ran, <<script[d].implementation>>)
    /\ script' = [script EXCEPT ![d].pc = "created", ![d].of = Len(proxy) + 1]
    /\ UNCHANGED <<built, record, scripts, byHand, orderly>>

(* The owner and the signer are read back in one go; another than was      *)
(* asked for stops the script.                                             *)
Stopped(d) == script' = [script EXCEPT ![d] = Resting]

ReadBackDeployed(d) ==
    /\ Reached(d, "created")
    /\ LET p == proxy[script[d].of] IN
          IF p.owner = script[d].owner /\ p.signer = script[d].signer
          THEN script' = [script EXCEPT ![d].pc = "deployed"] /\ UNCHANGED orderly
          ELSE Stopped(d) /\ orderly' = FALSE
    /\ UNCHANGED <<built, proxy, ran, record, scripts, byHand>>

RecordDeployed(d) ==
    /\ Reached(d, "deployed")
    /\ record' = [proxy |-> script[d].of, implementation |-> script[d].implementation,
                  owner |-> script[d].owner, signer |-> script[d].signer, upgrades |-> <<>>]
    /\ Stopped(d)
    /\ UNCHANGED <<built, proxy, ran, scripts, byHand, orderly>>

-----------------------------------------------------------------------------
(* upgrade-point-claim.ts: of the proxy on file, or of the one named by    *)
(* PROXY_ADDRESS.  Its owner is looked at before anything is paid for.     *)
Named == {p \in DOMAIN proxy : record # NoRecord /\ p = record.proxy}

BeginUpgrade(d) ==
    /\ Starts(d)
    /\ \E p \in DOMAIN proxy :
          /\ proxy[p].owner = d
          /\ script' = [script EXCEPT ![d] = [Resting EXCEPT !.pc = "upgrades", !.of = p, !.owner = d]]
          /\ orderly' = (orderly /\ Alone(d) /\ p \in Named)

(* upgradeToAndCall reverts for anyone but the owner, who may have changed *)
(* since.  writeContract throws, and the script ends.                      *)
SwitchOver(d) ==
    /\ Reached(d, "ready")
    /\ LET p == script[d].of IN
          IF proxy[p].owner = d
          THEN /\ proxy' = [proxy EXCEPT ![p].implementation = script[d].implementation]
               /\ ran' = [ran EXCEPT ![p] = Append(@, script[d].implementation)]
               /\ script' = [script EXCEPT ![d].pc = "switched"]
          ELSE Stopped(d) /\ UNCHANGED <<proxy, ran>>
    /\ UNCHANGED <<built, record, scripts, byHand, orderly>>

OwnerStands(d) == proxy[script[d].of].owner = script[d].owner

(* Owner and signer are read back; only a changed owner stops the script.  *)
ReadBackUpgraded(d) ==
    /\ Reached(d, "switched")
    /\ IF OwnerStands(d)
       THEN /\ script' = [script EXCEPT ![d].pc = "upgraded", ![d].signer = proxy[script[d].of].signer]
            /\ UNCHANGED orderly
       ELSE Stopped(d) /\ orderly' = FALSE
    /\ UNCHANGED <<built, proxy, ran, record, scripts, byHand>>

(* Mutant of Upgrades: the record is written afresh.                       *)
UpgradesAfresh(d) == <<script[d].implementation>>

(* The file is read again, and what it says of earlier upgrades is kept,   *)
(* whichever proxy they were of.                                           *)
Upgrades(d) ==
    Append(IF record = NoRecord THEN <<>> ELSE record.upgrades, script[d].implementation)

RecordUpgraded(d) ==
    /\ Reached(d, "upgraded")
    /\ record' = [proxy |-> script[d].of, implementation |-> script[d].implementation,
                  owner |-> script[d].owner, signer |-> script[d].signer, upgrades |-> Upgrades(d)]
    /\ Stopped(d)
    /\ UNCHANGED <<built, proxy, ran, scripts, byHand, orderly>>

-----------------------------------------------------------------------------
(* A script that is stopped leaves the chain as it is.                     *)
Interrupted(d) ==
    /\ script[d].pc # "none" /\ Stopped(d)
    /\ orderly' = (orderly /\ script[d].pc \notin {"created", "deployed", "switched", "upgraded"})
    /\ UNCHANGED <<built, proxy, ran, record, scripts, byHand>>

(* transferOwnership, setServerSigner.                                     *)
OwnerActs ==
    /\ byHand < MaxByHand /\ byHand' = byHand + 1
    /\ \E p \in DOMAIN proxy :
          \/ \E o \in Deployer \ {proxy[p].owner} : proxy' = [proxy EXCEPT ![p].owner = o]
          \/ \E s \in Signer \ {proxy[p].signer} : proxy' = [proxy EXCEPT ![p].signer = s]
    /\ UNCHANGED <<built, ran, record, script, scripts, orderly>>

DeploymentNext ==
    \/ \E d \in Deployer :
          \/ BeginDeploy(d) \/ Build(d, "deploys", "built") \/ CreateProxy(d)
          \/ ReadBackDeployed(d) \/ RecordDeployed(d)
          \/ BeginUpgrade(d) \/ Build(d, "upgrades", "ready") \/ SwitchOver(d)
          \/ ReadBackUpgraded(d) \/ RecordUpgraded(d)
          \/ Interrupted(d)
    \/ OwnerActs

DeploymentSpec == DeploymentInit /\ [][DeploymentNext]_deploymentVars

-----------------------------------------------------------------------------
(* Properties.                                                             *)

(* deployments.ts 1-3: however scripts are stopped and overlap, the file   *)
(* names a proxy that exists and an implementation that proxy has run.     *)
RecordNamesWhatRan ==
    record # NoRecord =>
        /\ record.proxy \in DOMAIN proxy
        /\ \E i \in DOMAIN ran[record.proxy] : ran[record.proxy][i] = record.implementation

(* upgrade-point-claim.ts 8-11: between scripts that ran to their end, one *)
(* after another, on the proxy on file, the file tells what the proxy runs *)
(* and every implementation it was switched to since its first, in order.  *)
RecordIsCurrent ==
    orderly /\ record # NoRecord /\ (\A d \in Deployer : Reached(d, "none")) =>
        /\ record.implementation = proxy[record.proxy].implementation
        /\ record.upgrades = Tail(ran[record.proxy])

(* No proxy is ever without an owner and a signer for someone to claim     *)
(* (deploy-point-claim.ts 6-9), nor runs what is not there.                *)
ProxyIsClaimed ==
    \A p \in DOMAIN proxy :
        /\ proxy[p].owner \in Deployer /\ proxy[p].signer \in Signer
        /\ proxy[p].implementation \in 1..built

RecordTellsTheChain == RecordNamesWhatRan /\ RecordIsCurrent /\ ProxyIsClaimed
=============================================================================
