----------------------------- MODULE RealityLog -----------------------------
(***************************************************************************)
(* What WORLDLINE promises about reality, whatever crashes in between:     *)
(* reality moves one transaction at a time, no transaction is exchanged    *)
(* before the previous one is recorded, and what is recorded stays         *)
(* recorded, in the order it happened.  Only a move that was not yet       *)
(* durable can be undone, the last before the ones it followed: without a  *)
(* trace, or leaving a record of what is no longer real                    *)
(* (docs/whitepaper.md 8.2; transaction.py commit, recover_all).           *)
(***************************************************************************)
EXTENDS Naturals, Sequences, SequencesExt

CONSTANT Tx

VARIABLES history,  \* the transactions whose exchange made reality, in order
          recorded, \* how many of them have a receipt
          loose,    \* the moves that are not yet durable
          lost      \* the moves of history that a power loss undid

logVars == <<history, recorded, loose, lost>>

Init == history = <<>> /\ recorded = 0 /\ loose = {} /\ lost = {}

(* The exchange of a transaction that never was reality. *)
Move(t) ==
  /\ recorded = Len(history)
  /\ t \notin Range(history)
  /\ history' = Append(history, t)
  /\ loose' = loose \cup {t}
  /\ UNCHANGED <<recorded, lost>>

(* Every move so far is made durable. *)
Sync == loose' = {} /\ UNCHANGED <<history, recorded, lost>>

(* A power loss undoes the move that made the present reality, with what   *)
(* had been written about it, or leaves that standing.                     *)
Undo ==
  /\ recorded < Len(history) /\ Last(history) \in loose
  /\ history' = Front(history)
  /\ loose' = loose \ {Last(history)}
  /\ UNCHANGED <<recorded, lost>>

Lose ==
  \E i \in 1..Len(history) :
    /\ history[i] \in loose \ lost
    /\ \A j \in (i + 1)..Len(history) : history[j] \in lost
    /\ lost' = lost \cup {history[i]}
    /\ loose' = loose \ {history[i]}
    /\ UNCHANGED <<history, recorded>>

(* The receipt of the last exchange. *)
Record ==
  /\ recorded < Len(history)
  /\ recorded' = recorded + 1
  /\ UNCHANGED <<history, loose, lost>>

Next == (\E t \in Tx : Move(t)) \/ Sync \/ Undo \/ Lose \/ Record

Spec == Init /\ [][Next]_logVars
=============================================================================
