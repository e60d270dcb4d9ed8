-------------------------------- MODULE Chains --------------------------------
(***************************************************************************)
(* The causal chain and the receipt chain (append_causal_event,            *)
(* append_receipt and verify_chains in runtime/worldline/store.py, Link    *)
(* and Append in core/worldline-causal_graph.adb and                       *)
(* core/worldline-receipts.adb), and the signed ledger that anchors the    *)
(* receipts (runtime/worldline/anchor.py).  Agents' threads and the daemon *)
(* append events under the store's lock; a receipt is appended in steps by *)
(* the one commit there is; the daemon may be killed between any two.      *)
(* A hash is collision free: a link is the pair of what it hashes.         *)
(***************************************************************************)
EXTENDS Integers, Sequences, FiniteSets, SequencesExt

CONSTANTS
  Writers,        \* threads that append causal events
  MaxEventRows, MaxReceipts, \* bounds: events and receipts
  MaxLedgerFaults, \* bound: ledger or export writes that fail
  MaxDaemonKills   \* bound: kills

VARIABLES
  eventRows, eventFiles,     \* rows: <<predecessor, root, chain>>; files by the chain they are named after
  writer,                    \* [Writers -> what the thread read in the store's lock, <<"idle">>]
  receiptRows, receiptFiles,
  commit,                    \* the receipt being appended: "none", "built", "filed", "stored", "ledger"
  building,                  \* the receipt under construction
  ledger, export,            \* entries <<sequence number, receipt, head before it>>
  daemonUp,
  nextRoot, ledgerFaults, daemonKills \* counters of the bounds

eventVars   == <<eventRows, eventFiles, writer>>
receiptVars == <<receiptRows, receiptFiles, commit, building>>
chainsVars  == <<eventVars, receiptVars, ledger, export, daemonUp, nextRoot, ledgerFaults, daemonKills>>

Genesis == <<"genesis">>
ChainLink(previous, root) == <<previous, root>>
LastChain(rows) == IF rows = <<>> THEN Genesis ELSE Last(rows).chain

ChainsInit ==
  /\ eventRows = <<>> /\ eventFiles = {} /\ writer = [t \in Writers |-> <<"idle">>]
  /\ receiptRows = <<>> /\ receiptFiles = {} /\ commit = "none" /\ building = <<>>
  /\ ledger = <<>> /\ export = <<>> /\ daemonUp = TRUE
  /\ nextRoot = 1 /\ ledgerFaults = 0 /\ daemonKills = 0

-----------------------------------------------------------------------------
(* append_causal_event: the last row is read, the event's file written and *)
(* the row inserted, in the store's lock.                                  *)
InSection == \E u \in Writers : writer[u] # <<"idle">>

(* Mutant: the lock is given up between the read and the insert.           *)
EnterUnlocked(t) == writer[t] = <<"idle">>

Enter(t) == writer[t] = <<"idle">> /\ ~InSection

AppendEvent(t) ==
  /\ daemonUp /\ Enter(t) /\ nextRoot <= MaxEventRows
  /\ writer' = [writer EXCEPT ![t] = <<"read", LastChain(eventRows), nextRoot>>]
  /\ eventFiles' = eventFiles \cup {<<ChainLink(LastChain(eventRows), nextRoot), nextRoot>>}
  /\ nextRoot' = nextRoot + 1
  /\ UNCHANGED <<eventRows, receiptVars, ledger, export, daemonUp, ledgerFaults, daemonKills>>

InsertEvent(t) ==
  /\ daemonUp /\ writer[t][1] = "read"
  /\ eventRows' = Append(eventRows, [previous |-> writer[t][2], root |-> writer[t][3],
                                     chain |-> ChainLink(writer[t][2], writer[t][3])])
  /\ writer' = [writer EXCEPT ![t] = <<"idle">>]
  /\ UNCHANGED <<eventFiles, receiptVars, ledger, export, daemonUp, nextRoot, ledgerFaults, daemonKills>>

-----------------------------------------------------------------------------
(* ReceiptBuilder.build and append_receipt: a receipt names the one before *)
(* it, which is looked at again before its file is written.                *)
LastReceipt == IF receiptRows = <<>> THEN 0 ELSE Last(receiptRows).id

BuildReceipt ==
  /\ daemonUp /\ commit = "none" /\ Len(receiptRows) < MaxReceipts
  /\ building' = [id |-> Len(receiptRows) + 1, previous |-> LastReceipt]
  /\ commit' = "built"
  /\ UNCHANGED <<eventVars, receiptRows, receiptFiles, ledger, export, daemonUp, nextRoot, ledgerFaults, daemonKills>>

FileReceipt ==
  /\ daemonUp /\ commit = "built" /\ building.previous = LastReceipt
  /\ receiptFiles' = receiptFiles \cup {<<ChainLink(LastChain(receiptRows), building), building>>}
  /\ commit' = "filed"
  /\ UNCHANGED <<eventVars, receiptRows, building, ledger, export, daemonUp, nextRoot, ledgerFaults, daemonKills>>

InsertReceipt ==
  /\ daemonUp /\ commit = "filed"
  /\ receiptRows' = Append(receiptRows, [id |-> building.id, root |-> building,
                                         chain |-> ChainLink(LastChain(receiptRows), building)])
  /\ commit' = "stored"
  /\ UNCHANGED <<eventVars, receiptFiles, building, ledger, export, daemonUp, nextRoot, ledgerFaults, daemonKills>>

-----------------------------------------------------------------------------
(* AnchorLedger: an entry names the head of the ledger it is appended to.  *)
HeadOf(lines) == IF lines = <<>> THEN 0 ELSE Len(lines) \* the hash of the last line
Entry(id) == <<Len(ledger), id, HeadOf(ledger)>>
Anchored == {ledger[i][2] : i \in DOMAIN ledger}

(* A failure to anchor never undoes the commit.                            *)
AnchorReceipt ==
  /\ daemonUp /\ commit = "stored"
  /\ \/ ledger' = Append(ledger, Entry(building.id)) /\ commit' = "ledger" /\ UNCHANGED ledgerFaults
     \/ /\ ledgerFaults < MaxLedgerFaults /\ ledgerFaults' = ledgerFaults + 1
        /\ commit' = "none" /\ UNCHANGED ledger
  /\ UNCHANGED <<eventVars, receiptRows, receiptFiles, building, export, daemonUp, nextRoot, daemonKills>>

(* export writes the whole ledger beside the old copy and renames it.      *)
ExportLedger ==
  /\ daemonUp /\ commit = "ledger" /\ commit' = "none"
  /\ \/ export' = ledger /\ UNCHANGED ledgerFaults
     \/ ledgerFaults < MaxLedgerFaults /\ ledgerFaults' = ledgerFaults + 1 /\ UNCHANGED export
  /\ UNCHANGED <<eventVars, receiptRows, receiptFiles, building, ledger, daemonUp, nextRoot, daemonKills>>

DaemonKilled ==
  /\ daemonUp /\ daemonKills < MaxDaemonKills /\ daemonKills' = daemonKills + 1
  /\ daemonUp' = FALSE /\ commit' = "none"
  /\ writer' = [t \in Writers |-> <<"idle">>]
  /\ UNCHANGED <<eventRows, eventFiles, receiptRows, receiptFiles, building, ledger, export, nextRoot, ledgerFaults>>

(* Mutant: every receipt is anchored at every start.                       *)
BackfillEverything == DOMAIN receiptRows

(* backfill: the rows whose receipt the ledger does not have,              *)
Unanchored == {r \in DOMAIN receiptRows : receiptRows[r].id \notin Anchored}

(* the first of them, in chain order.                                      *)
InChainOrder(row) ==
  /\ \A i, j \in DOMAIN row : i < j => row[i] < row[j]
  /\ \A r \in Unanchored \ Range(row) : \A i \in DOMAIN row : row[i] < r

(* A backfill that fails part way is skipped with a warning.               *)
StoreOpens ==
  /\ ~daemonUp /\ daemonUp' = TRUE
  /\ \E n \in 0..Len(receiptRows) : \E row \in [1..n -> Unanchored] :
       /\ InChainOrder(row)
       /\ ledger' = ledger \o [i \in 1..n |-> <<Len(ledger) + i - 1, receiptRows[row[i]].id, HeadOf(ledger) + i - 1>>]
       /\ IF Range(row) = Unanchored THEN export' = ledger' /\ UNCHANGED ledgerFaults
          ELSE /\ ledgerFaults < MaxLedgerFaults /\ ledgerFaults' = ledgerFaults + 1
               /\ export' = IF n = 0 THEN export ELSE ledger'
  /\ UNCHANGED <<eventVars, receiptVars, nextRoot, daemonKills>>

ChainsNext ==
  \/ \E t \in Writers : AppendEvent(t) \/ InsertEvent(t)
  \/ BuildReceipt \/ FileReceipt \/ InsertReceipt \/ AnchorReceipt \/ ExportLedger
  \/ DaemonKilled \/ StoreOpens

ChainsSpec == ChainsInit /\ [][ChainsNext]_chainsVars

-----------------------------------------------------------------------------
(* verify_chains, and verify of the ledger.                                *)
RowsVerify(rows, files) ==
  \A i \in DOMAIN rows :
    LET previous == IF i = 1 THEN Genesis ELSE rows[i - 1].chain
    IN  rows[i].chain = ChainLink(previous, rows[i].root) /\ <<rows[i].chain, rows[i].root>> \in files
LedgerVerifies == \A i \in DOMAIN ledger : ledger[i][1] = i - 1 /\ ledger[i][3] = HeadOf(SubSeq(ledger, 1, i - 1))

(* Whatever threads append at the same time and wherever the daemon is     *)
(* killed, the chains verify: each row links to the one before it and its  *)
(* file is there (store.py, verify_chains).                                *)
ChainsVerify ==
  /\ RowsVerify(eventRows, eventFiles) /\ RowsVerify(receiptRows, receiptFiles)
  /\ LedgerVerifies

(* The external copy is never ahead of the ledger, nor another one, so a   *)
(* rollback that verify reports is one; and every receipt is anchored once *)
(* at most, and only when the store has it (anchor.py, append, backfill    *)
(* and _external_check; controller.py).                                    *)
AnchorsAreHonest ==
  /\ IsPrefix(export, ledger)
  /\ \A i, j \in DOMAIN ledger : ledger[i][2] = ledger[j][2] => i = j
  /\ Anchored \subseteq {receiptRows[i].id : i \in DOMAIN receiptRows}
==============================================================================
