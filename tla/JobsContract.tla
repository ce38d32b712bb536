----------------------------- MODULE JobsContract -----------------------------
(***************************************************************************)
(* What the generation of creatures promises, with no mutex, pointer or    *)
(* field in it: a job has one outcome, decided in one step, and a poll is  *)
(* told what the outcome is at one moment between its question and its     *)
(* answer. LLMJobs implements it.                                          *)
(***************************************************************************)
CONSTANTS Jobs, Polls, Creatures, None

VARIABLES outcome,  \* of each job: its creature once there is one
          known,    \* the jobs whose id was returned
          asked,    \* the job each poll asks about
          waiting,  \* the polls that have no answer yet
          told      \* what the others were told

contractVars == <<outcome, known, asked, waiting, told>>

ContractInit ==
  /\ outcome = [j \in Jobs |-> "none"]
  /\ known = {} /\ waiting = {}
  /\ asked = [p \in Polls |-> None]
  /\ told = asked

Decide(j, o) ==
  /\ outcome' = [outcome EXCEPT ![j] = o]
  /\ UNCHANGED <<known, asked, waiting, told>>

Submit(j) == outcome[j] = "none" /\ Decide(j, "open")

Succeed(j, c) == outcome[j] = "open" /\ Decide(j, c)

Fail(j) == outcome[j] = "open" /\ Decide(j, "failed")

Return(j) ==
  /\ outcome[j] \notin {"none", "lost"}
  /\ known' = known \cup {j}
  /\ UNCHANGED <<outcome, asked, waiting, told>>

Ask(p, j) ==
  /\ asked[p] = None /\ j \in known
  /\ asked' = [asked EXCEPT ![p] = j]
  /\ waiting' = waiting \cup {p}
  /\ UNCHANGED <<outcome, known, told>>

(* A failed job is never ready: nobody is told that it failed.             *)
Says(o) ==
  IF o = "lost" THEN "wrong job id" ELSE IF o \in Creatures THEN o ELSE "not ready"

Answer(p) ==
  /\ p \in waiting
  /\ told' = [told EXCEPT ![p] = Says(outcome[asked[p]])]
  /\ waiting' = waiting \ {p}
  /\ UNCHANGED <<outcome, known, asked>>

(* The jobs go with the process, and so do the polls that wait.            *)
Lose ==
  /\ outcome' = [j \in Jobs |-> IF outcome[j] = "none" THEN "none" ELSE "lost"]
  /\ waiting' = {}
  /\ UNCHANGED <<known, asked, told>>

ContractNext ==
  \/ \E j \in Jobs : \/ Submit(j) \/ Fail(j) \/ Return(j)
                     \/ \E c \in Creatures : Succeed(j, c)
                     \/ \E p \in Polls : Ask(p, j)
  \/ \E p \in Polls : Answer(p)
  \/ Lose

ContractSpec == ContractInit /\ [][ContractNext]_contractVars
=============================================================================
