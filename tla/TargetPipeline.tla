--------------------------- MODULE TargetPipeline ---------------------------
(***************************************************************************)
(* What the session controllers promise about the targets of a session,    *)
(* with no API server, cache or queue in sight: the session goes through   *)
(* its phases in order; in each phase the targets get their turn one after *)
(* the other, the next one only when the one before it is through; a phase *)
(* ends when the last target is through with it, and a target that fails   *)
(* either gets its turn again or ends the session there and then.          *)
(***************************************************************************)
EXTENDS SessionState

CONSTANTS Sessions, Absent

VARIABLES
  stage,    \* state of the session, Absent when it does not exist
  size,     \* number of its targets
  turn,     \* the target whose turn it is or was last, 0 at the start of a phase
  doing,    \* what that target does: "works", "failed" or "rests"
  jobs      \* targets that went on in a Job of their own

pipeline == <<stage, size, turn, doing, jobs>>

Init ==
  /\ stage = [s \in Sessions |-> Absent]
  /\ size  = [s \in Sessions |-> 0]
  /\ turn  = [s \in Sessions |-> 0]
  /\ doing = [s \in Sessions |-> "rests"]
  /\ jobs  = [s \in Sessions |-> {}]

\* The session enters a state, where nobody has had a turn yet.
Enter(s, state, n) ==
  /\ stage' = [stage EXCEPT ![s] = state]
  /\ size'  = [size EXCEPT ![s] = n]
  /\ turn'  = [turn EXCEPT ![s] = 0]
  /\ doing' = [doing EXCEPT ![s] = "rests"]
  /\ jobs'  = [jobs EXCEPT ![s] = {}]

Appear(s) == stage[s] = Absent /\ Enter(s, NoState, 0)

Accept(s) == stage[s] = NoState /\ Enter(s, New, 0)

\* As many targets as the configuration has.
Begin(s)  == stage[s] = New /\ size'[s] \in Nat /\ Enter(s, Initializing, size'[s])

\* Deletion: at any time.
Leave(s)  == stage[s] # Absent /\ Enter(s, Absent, 0)

TakeTurn(s) ==
  /\ stage[s] \in Phases
  /\ doing[s] = "rests"
  /\ turn[s] < size[s]
  /\ turn'  = [turn EXCEPT ![s] = @ + 1]
  /\ doing' = [doing EXCEPT ![s] = "works"]
  /\ UNCHANGED <<stage, size, jobs>>

Answer(s) ==
  /\ doing[s] = "works"
  /\ \/ doing' = [doing EXCEPT ![s] = "failed"] /\ jobs' = jobs
     \/ /\ doing' = [doing EXCEPT ![s] = "rests"]
        /\ \/ jobs' = jobs
           \/ stage[s] = Finalize /\ jobs' = [jobs EXCEPT ![s] = @ \cup {turn[s]}]
  /\ UNCHANGED <<stage, size, turn>>

Retry(s) ==
  /\ doing[s] = "failed"
  /\ doing' = [doing EXCEPT ![s] = "works"]
  /\ UNCHANGED <<stage, size, turn, jobs>>

JobEnds(s) ==
  /\ \E i \in jobs[s] : jobs' = [jobs EXCEPT ![s] = @ \ {i}]
  /\ UNCHANGED <<stage, size, turn, doing>>

\* Every target is through with the phase and no Job is left behind.
MoveOn(s) ==
  /\ stage[s] \in Phases
  /\ doing[s] = "rests"
  /\ size[s] > 0 /\ turn[s] = size[s]
  /\ jobs[s] = {}
  /\ Enter(s, After(stage[s]), size[s])

\* A backup that could not be finalized is still a backup.
GiveUp(s) ==
  /\ doing[s] = "failed"
  /\ jobs[s] = {}
  /\ Enter(s, IF stage[s] = Finalize THEN Success ELSE Failure, size[s])

Step(s) == \/ Appear(s) \/ Accept(s) \/ Begin(s) \/ Leave(s)
           \/ TakeTurn(s) \/ Answer(s) \/ Retry(s) \/ JobEnds(s)
           \/ MoveOn(s) \/ GiveUp(s)

Next == \E s \in Sessions : Step(s)

Spec == Init /\ [][Next]_pipeline
=============================================================================
