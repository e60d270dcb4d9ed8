------------------------------- MODULE Scoring -------------------------------
(***************************************************************************)
(* Collapse together with the scorer that ends every agent's run           *)
(* (fork.py run_world, scoring.py score).  The scorer runs in the world's  *)
(* background thread, outside the daemon's mutation lock: it holds whole   *)
(* rows of the worlds table in memory, the result its own run returned and *)
(* the terminal siblings it read, and writes them back one by one.         *)
(***************************************************************************)
EXTENDS Collapse

VARIABLES
  rows,   \* rows[c][w]: the state in c's scorer's copy of w's row, or Absent
  read    \* the candidates whose scorer has read its siblings

NoRows == [w \in Cand |-> Absent]

InitScored == Init /\ rows = [c \in Cand |-> NoRows] /\ read = {}

(* The run returns its result, still in memory as it was saved. *)
FinalizedResult(c, S, verdict) ==
  /\ Finalized(c, S, verdict)
  /\ rows' = [rows EXCEPT ![c] = [NoRows EXCEPT ![c] = verdict]]
  /\ UNCHANGED read

(* terminal_siblings(result), the worlds that are no PRIME checkpoints. *)
ScoreRead(c) ==
  /\ mode = "serve" /\ rows[c][c] # Absent /\ c \notin read
  /\ rows' = [rows EXCEPT ![c] =
       [w \in Cand |-> IF w = c THEN rows[c][c]
                       ELSE IF /\ parent[w] = parent[c]
                               /\ state[w] \notin {Absent, "MUTABLE", "FINALIZING"}
                            THEN state[w] ELSE Absent]]
  /\ read' = read \cup {c}
  /\ UNCHANGED vars

(* save_world writes the whole row, the state it was read with included. *)
ScoreSave(c, w) ==
  /\ mode = "serve" /\ c \in read /\ rows[c][w] # Absent
  /\ state' = [state EXCEPT ![w] = rows[c][w]]
  /\ rows' = [rows EXCEPT ![c][w] = Absent]
  /\ UNCHANGED <<read, diskVars, txVars, parent, content, base, evaluated,
                 primeVars, dirty, receipts, watchVars, mode, pc, op, bad,
                 envVars, histVars>>

(* The threads end with the daemon. *)
StartScored == Start /\ rows' = [c \in Cand |-> NoRows] /\ read' = {}

NextScored ==
  \/ /\ \/ Requests \/ DaemonStep \/ WatcherDeliver \/ Environment \/ Failures
        \/ \E c \in Cand : Finalizing(c) \/ FailedStart(c)
     /\ UNCHANGED <<rows, read>>
  \/ StartScored
  \/ \E c \in Cand :
       \/ \E S \in SUBSET Path, verdict \in Verdicts : FinalizedResult(c, S, verdict)
       \/ ScoreRead(c)
       \/ \E w \in Cand : ScoreSave(c, w)

SpecScored == InitScored /\ [][NextScored]_<<vars, rows, read>>

(* docs/whitepaper.md 6.1: the world state machine admits only the         *)
(* documented transitions; in particular a world that collapsed or was     *)
(* archived never becomes VALID again.                                     *)
WorldsFollowKernel ==
  [][\A w \in World : state'[w] # state[w] /\ state[w] # Absent
                        => Allowed(state[w], state'[w])]_<<vars, rows, read>>
=============================================================================
