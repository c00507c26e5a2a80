-------------------------- MODULE MCReceiptAnalysis --------------------------
(***************************************************************************)
(* Small instances of a receipt's way through the queue (ReceiptAnalysis), *)
(* of the mailbox that has to be somebody's before they enter a draw       *)
(* (EmailVerification), and of what operators ask about receipts and       *)
(* people: to have receipts read again (Reparse), and what happened on a   *)
(* day (Reports).  They share no state here, so a behaviour is about one   *)
(* of them and leaves the others as they began.                            *)
(***************************************************************************)
EXTENDS ReceiptAnalysis, EmailVerification, Reparse, Reports, TLC

CONSTANTS r1, r2, w1, w2, ann, bob

VARIABLE topic

MCTwoReceipts == {r1, r2}
MCTwoWorkers == {w1, w2}
MCSymmetry == Permutations(MCTwoReceipts) \cup Permutations(MCTwoWorkers)

MCPlatform == (ann :> "celo") @@ (bob :> "celo")
MCElsewhere == (ann :> 1) @@ (bob :> 2)
MCNormalize == ("a@x" :> "a@x") @@ ("a+1@x" :> "a@x") @@ ("b@x" :> "b@x")

(* A good paper, one nobody could read, and one without a photo.           *)
MCFile(merchant, total, date, photos, copies) ==
    [row |-> [merchant |-> merchant, total |-> total, country |-> "JP", date |-> date],
     images |-> photos, lines |-> copies]
MCOnFile == ("good" :> MCFile("mart", 5, "day", 1, 1)) @@ ("bad" :> MCFile(NULL, NULL, "unprintable", 1, 1))
         @@ ("lost" :> MCFile("mart", 5, "day", 0, 0))
MCRow == {MCOnFile[r].row : r \in {"good", "bad"}}
MCRead(merchant, total, copies) ==
    [merchant |-> merchant, total |-> total, country |-> "JP", age |-> 9, lines |-> copies,
     isReceipt |-> TRUE, quality |-> 3]
MCReading == {MCRead("mart", 5, 1), MCRead("", NULL, 0)}

(* Bob has been there; Ann signs up and is given points.                   *)
MCDeed(table, person, source, amount) ==
    [table |-> table, person |-> person, source |-> source, amount |-> amount]
MCWhat ==
    ("ann" :> MCDeed("users", ann, "none", 1)) @@ ("points" :> MCDeed("pointLogs", ann, "receipt-upload", 2))
    @@ ("bob" :> MCDeed("users", bob, "none", 1)) @@ ("one" :> MCDeed("receipts", bob, "none", 1))
    @@ ("two" :> MCDeed("receipts", bob, "none", 1)) @@ ("entry" :> MCDeed("haloRafflePoolEntries", bob, "none", 1))

ReceiptsInit ==
    /\ topic \in {"analysis", "mailbox", "reading", "report"}
    /\ Init /\ EmailInit /\ ProbeInit /\ ReportsInit

ReceiptsNext ==
    /\ UNCHANGED topic
    /\ \/ topic = "analysis" /\ Next /\ UNCHANGED <<emailVars, probeVars, reportVars>>
       \/ topic = "mailbox" /\ EmailNext /\ UNCHANGED <<vars, probeVars, reportVars>>
       \/ topic = "reading" /\ ProbeNext /\ UNCHANGED <<vars, emailVars, reportVars>>
       \/ topic = "report" /\ ReportsNext /\ UNCHANGED <<vars, emailVars, probeVars>>

(* The sweeper is fair to the receipts that are being analysed; while they *)
(* are not the topic, there are none.                                      *)
ReceiptsSpec == ReceiptsInit /\ [][ReceiptsNext]_<<topic, vars, emailVars, probeVars, reportVars>>
FairReceiptsSpec == ReceiptsSpec /\ (topic = "analysis" => Fairness)
=============================================================================
