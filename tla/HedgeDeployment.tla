---------------------------- MODULE HedgeDeployment ----------------------------
(***************************************************************************)
(* packages/hedge/script: Deploy and DeploySepolia, which put the oracle,  *)
(* the vault and the hook on a chain, and SeedPool, which opens two pools  *)
(* on them through DemoRouter, pays in TestUSD, and trades both.           *)
(*                                                                         *)
(* Forge first runs a whole script against the chain as it finds it, and   *)
(* sends nothing if any of it reverts.  Then it sends the transactions it  *)
(* recorded, one after another, each with the arguments and the nonce of   *)
(* that run.  In between days pass, others use the contracts, a second     *)
(* script runs with the same key, and a script is stopped.                 *)
(*                                                                         *)
(* The chain is one record, so that a script can be run against a copy.    *)
(* One deployment, one key, which governs it; amounts that follow from the *)
(* curve of a pool are left out (HaloHook), and so is what the oracle      *)
(* makes of a closed epoch: a market that closes stays frozen.             *)
(***************************************************************************)
EXTENDS Naturals, Sequences, SequencesExt, FiniteSets

CONSTANTS
    Run,               \* scripts started, each one once
    FarDays, NearDays, \* until the two epochs close
    Ramp, BaseFee, MaxFee,
    MintAmount, SplitAmount, LiquidityAmount, SwapIn,
    MaxToday,          \* bound: the last day explored
    MaxStrangers       \* bound: calls of others

ASSUME SeedAssumption ==
    /\ NearDays \in Nat \ {0} /\ FarDays \in Nat /\ FarDays > NearDays /\ Ramp > NearDays
    /\ 2 * (SplitAmount + LiquidityAmount + SwapIn) <= MintAmount
    /\ LiquidityAmount <= SplitAmount

VARIABLES chain, run, strangers

seedVars == <<chain, run, strangers>>

Epoch == {"far", "near"}

(* closes is 0 until the epoch is opened; markets are created, bound and   *)
(* initialized, funded and traded are about the pool of an epoch's HIGH;   *)
(* allowed are the approvals of the key, as pairs of spender and token.    *)
EmptyChain ==
    [today |-> 0, nonce |-> 0, done |-> {}, closes |-> [e \in Epoch |-> 0],
     markets |-> {}, bound |-> {}, initialized |-> {}, funded |-> {}, traded |-> {},
     dollars |-> 0, high |-> [e \in Epoch |-> 0], allowed |-> {}]

Reverted == [EmptyChain EXCEPT !.done = {"reverted"}]

NotStarted == [pc |-> "ready", sends |-> <<>>, nonce |-> 0, disturbed |-> FALSE]

-----------------------------------------------------------------------------
(* The scripts, as the calls they record.                                  *)

Call(do) == [do |-> do, epoch |-> "far", closes |-> 0]

Deploy == <<Call("HaloIndexOracle"), Call("EpochVault"), Call("HaloHook")>>

DeploySepolia ==
    <<Call("TestUSD"), Call("HaloIndexOracle"), Call("EpochVault"), Call("setOpenInterest"),
      Call("setBondPerCollateralUnit"), Call("setMinBond"), Call("HaloHook"), Call("HaloResolver")>>

(* Mutant of Leg: the pool is bound once it is funded.                     *)
LegBoundLate ==
    <<"openEpoch", "createMarket", "split", "approveHigh", "initialize", "addLiquidity",
      "bindPool", "swap">>

Leg == <<"openEpoch", "createMarket", "split", "approveHigh", "bindPool", "initialize",
         "addLiquidity", "swap">>

seed(e, closes) == [i \in DOMAIN Leg |-> [do |-> Leg[i], epoch |-> e, closes |-> closes]]

SeedPool(day) ==
    <<Call("DemoRouter"), Call("mint"), Call("approveVault"), Call("approveRouter")>>
        \o seed("far", day + FarDays) \o seed("near", day + NearDays)

(* Collateral may be on the chain already; so may all of DeploySepolia.    *)
Deployed == {DeploySepolia[i].do : i \in DOMAIN DeploySepolia}

SeedInit ==
    /\ \E done \in {{}, {"TestUSD"}, Deployed} : chain = [EmptyChain EXCEPT !.done = done]
    /\ run = [r \in Run |-> NotStarted] /\ strangers = 0

-----------------------------------------------------------------------------
(* What a call needs and does.  A router is known by the run that made it; *)
(* SeedPool is told where the hook is before it opens anything.            *)

isFrozen(c, e) == e \in c.markets /\ c.closes[e] # 0 /\ c.today >= c.closes[e]

(* beforeAddLiquidity and beforeSwap: the pool is bound, its market open.  *)
HookAllows(c, e) == e \in c.bound /\ ~isFrozen(c, e)

(* DemoRouter._handle: what is owed is pulled from whoever called.         *)
CanPay(c, r, dollars, high, e) ==
    /\ c.dollars >= dollars /\ (dollars > 0 => <<r, "dollars">> \in c.allowed)
    /\ c.high[e] >= high /\ (high > 0 => <<r, e>> \in c.allowed)

Accepts(c, r, tx) ==
    LET e == tx.epoch IN
    CASE tx.do = "EpochVault" -> {"TestUSD", "HaloIndexOracle"} \subseteq c.done
      [] tx.do \in {"HaloHook", "setOpenInterest"} -> "EpochVault" \in c.done
      [] tx.do = "openEpoch" -> c.closes[e] = 0 /\ tx.closes > c.today /\ "HaloHook" \in c.done
      [] tx.do = "createMarket" -> e \notin c.markets
      [] tx.do = "split" -> /\ e \in c.markets /\ ~isFrozen(c, e) /\ c.dollars >= SplitAmount
                            /\ <<"vault", "dollars">> \in c.allowed
      [] tx.do = "initialize" -> e \notin c.initialized
      [] tx.do = "addLiquidity" -> /\ e \in c.initialized /\ HookAllows(c, e)
                                   /\ CanPay(c, r, LiquidityAmount, LiquidityAmount, e)
      [] tx.do = "swap" -> e \in c.funded /\ HookAllows(c, e) /\ CanPay(c, r, SwapIn, 0, e)
      [] OTHER -> TRUE

Effect(c, r, tx) ==
    LET e == tx.epoch IN
    CASE tx.do = "mint" -> [c EXCEPT !.dollars = @ + MintAmount]
      [] tx.do = "approveVault" -> [c EXCEPT !.allowed = @ \cup {<<"vault", "dollars">>}]
      [] tx.do = "approveRouter" -> [c EXCEPT !.allowed = @ \cup {<<r, "dollars">>}]
      [] tx.do = "approveHigh" -> [c EXCEPT !.allowed = @ \cup {<<r, e>>}]
      [] tx.do = "openEpoch" -> [c EXCEPT !.closes[e] = tx.closes]
      [] tx.do = "createMarket" -> [c EXCEPT !.markets = @ \cup {e}]
      [] tx.do = "split" -> [c EXCEPT !.dollars = @ - SplitAmount, !.high[e] = @ + SplitAmount]
      [] tx.do = "bindPool" -> [c EXCEPT !.bound = @ \cup {e}]
      [] tx.do = "initialize" -> [c EXCEPT !.initialized = @ \cup {e}]
      [] tx.do = "addLiquidity" -> [c EXCEPT !.funded = @ \cup {e}, !.dollars = @ - LiquidityAmount,
                                             !.high[e] = @ - LiquidityAmount]
      [] tx.do = "swap" -> [c EXCEPT !.traded = @ \cup {e}, !.dollars = @ - SwapIn]
      [] OTHER -> [c EXCEPT !.done = @ \cup {tx.do}]

Mined(c, r, tx) == [Effect(c, r, tx) EXCEPT !.nonce = @ + 1]

feeFor(c, e) ==
    IF c.closes[e] = 0 THEN BaseFee
    ELSE IF c.today >= c.closes[e] THEN MaxFee
    ELSE IF c.closes[e] - c.today >= Ramp THEN BaseFee
    ELSE BaseFee + ((MaxFee - BaseFee) * (Ramp - (c.closes[e] - c.today))) \div Ramp

-----------------------------------------------------------------------------
(* Running a script.                                                       *)

Simulated(r, script) ==
    FoldLeft(LAMBDA c, tx : IF c # Reverted /\ Accepts(c, r, tx) THEN Mined(c, r, tx) ELSE Reverted,
             chain, script)

(* The last line of SeedPool, in the simulation only.                      *)
RampRaisesTheFee(end) == feeFor(end, "near") > feeFor(end, "far")

Begin(r, script) ==
    /\ run[r].pc = "ready" /\ Simulated(r, script) # Reverted
    /\ run' = [run EXCEPT ![r] = [pc |-> "sending", sends |-> script, nonce |-> chain.nonce,
                                  disturbed |-> FALSE]]
    /\ UNCHANGED <<chain, strangers>>

BeginHedge(r) ==
    /\ "HaloIndexOracle" \notin chain.done
    /\ Begin(r, IF "TestUSD" \in chain.done THEN Deploy ELSE DeploySepolia)

BeginSeedPool(r) ==
    /\ RampRaisesTheFee(Simulated(r, SeedPool(chain.today)))
    /\ Begin(r, SeedPool(chain.today))

(* Every run under way but r, if it is one, has the chain change under it. *)
Disturbs(runs, r) ==
    [x \in Run |-> IF x # r /\ runs[x].pc = "sending" THEN [runs[x] EXCEPT !.disturbed = TRUE]
                   ELSE runs[x]]

Sending(r) == run[r].pc = "sending" /\ run[r].sends # <<>>
InTurn(r) == run[r].nonce = chain.nonce
GoesThrough(r) == InTurn(r) /\ Accepts(chain, r, Head(run[r].sends))

SendCall(r) ==
    /\ Sending(r) /\ GoesThrough(r)
    /\ chain' = Mined(chain, r, Head(run[r].sends))
    /\ run' = Disturbs([run EXCEPT ![r].sends = Tail(@), ![r].nonce = @ + 1], r)
    /\ UNCHANGED strangers

(* A nonce that has been used is refused; a call that reverts uses it up.  *)
Refuse(r) ==
    /\ Sending(r) /\ ~GoesThrough(r)
    /\ LET refused == [run EXCEPT ![r].pc = "refused"] IN
          IF InTurn(r) THEN chain' = [chain EXCEPT !.nonce = @ + 1] /\ run' = Disturbs(refused, r)
          ELSE run' = refused /\ UNCHANGED chain
    /\ UNCHANGED strangers

Stop(r) ==
    /\ Sending(r) /\ run' = [run EXCEPT ![r].pc = "stopped"]
    /\ UNCHANGED <<chain, strangers>>

(* "Next: oracle.setOpenInterest(vault)", which Deploy leaves to be done.  *)
WireByHand ==
    /\ "EpochVault" \in chain.done /\ "setOpenInterest" \notin chain.done
    /\ chain' = Mined(chain, "by hand", Call("setOpenInterest"))
    /\ run' = Disturbs(run, "by hand") /\ UNCHANGED strangers

(* Anyone may create a market, or open the pool of its HIGH, whose address *)
(* is known beforehand.                                                    *)
Stranger ==
    /\ strangers < MaxStrangers /\ strangers' = strangers + 1
    /\ "HaloHook" \in chain.done
    /\ \E do \in {"createMarket", "initialize"}, e \in Epoch :
          LET tx == [Call(do) EXCEPT !.epoch = e] IN
          Accepts(chain, "stranger", tx) /\ chain' = Effect(chain, "stranger", tx)
    /\ run' = Disturbs(run, "stranger")

(* A day on which an epoch that a run has recorded closes comes in its way.*)
Tick ==
    /\ chain.today < MaxToday /\ chain' = [chain EXCEPT !.today = @ + 1]
    /\ run' = [r \in Run |-> IF \E i \in DOMAIN run[r].sends : run[r].sends[i].closes \in 1..chain'.today
                             THEN [run[r] EXCEPT !.disturbed = TRUE] ELSE run[r]]
    /\ UNCHANGED strangers

SeedNext ==
    \/ \E r \in Run : BeginHedge(r) \/ BeginSeedPool(r) \/ SendCall(r) \/ Refuse(r) \/ Stop(r)
    \/ WireByHand \/ Stranger \/ Tick

SeedSpec == SeedInit /\ [][SeedNext]_seedVars

-----------------------------------------------------------------------------
(* Properties.                                                             *)

(* "Ordered so that every precondition the hook checks is already true by  *)
(* the time it is checked" (SeedPool 119-123): wherever the hook stands and*)
(* nothing was seeded, however it got there, the script can be sent; and,  *)
(* however long that takes, none of its calls is refused unless an epoch   *)
(* closed, somebody else, or another script came in between.               *)
Untouched == "HaloHook" \in chain.done /\ chain.markets \cup chain.initialized = {}
             /\ \A e \in Epoch : chain.closes[e] = 0

SeedRunsThrough ==
    /\ Untouched => LET end == Simulated("seed", SeedPool(chain.today)) IN
                    end # Reverted /\ RampRaisesTheFee(end)
    /\ \A r \in Run : run[r].pc = "refused" => run[r].disturbed

(* Whatever is stopped, begun again or done by others, nobody's dollars    *)
(* are in a pool the hook knows no market for, or whose market nothing     *)
(* will ever close; and where DeploySepolia put the contracts, no pool is  *)
(* funded before bonds are sized by what is at stake (63-66).              *)
FundedPoolsClose ==
    \A e \in chain.funded :
        /\ e \in chain.bound /\ e \in chain.markets /\ chain.closes[e] # 0
        /\ "setMinBond" \in chain.done => "setOpenInterest" \in chain.done

(* "Identical in every way except their close" (SeedPool 25-36): once both *)
(* pools have traded, the near one is dearer on every day until the far    *)
(* one closes, however far apart the two were seeded.                      *)
NearIsDearer ==
    chain.traded = Epoch /\ chain.today < chain.closes["far"] =>
        feeFor(chain, "near") > feeFor(chain, "far")

SeedingHolds == SeedRunsThrough /\ FundedPoolsClose /\ NearIsDearer
=============================================================================
