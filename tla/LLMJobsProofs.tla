---------------------------- MODULE LLMJobsProofs ----------------------------
(***************************************************************************)
(* Proofs about LLMJobs, for any number of jobs, polls and restarts. The   *)
(* argument is Progress: where the worker of a job is determines what the   *)
(* job's status and result can be, so that a poll that saw "done" can only *)
(* read the processed creature, or none yet. At the end, LLMJobs           *)
(* implements JobsContract.                                                *)
(***************************************************************************)
EXTENDS LLMJobs, TLAPS

(* What a job looks like at each place of its worker.                      *)
Fields(j) ==
  /\ worker[j] \in {"off", "start"} => status[j] = "pending" /\ result[j] = "nil"
  /\ worker[j] \in {"gemini", "decode"} =>
       status[j] = "processing_step_1" /\ result[j] = "nil"
  /\ worker[j] = "actions" => status[j] = "processing_step_2" /\ result[j] = "nil"
  /\ worker[j] = "finish" =>
       /\ status[j] \in {"processing_step_2", "done"}
       /\ creature[j] \in Finished
       /\ ~(status[j] = "done" /\ result[j] \in Finished)
  /\ worker[j] = "ended" =>
       \/ status[j] = "error" /\ result[j] = "nil"
       \/ status[j] = "done" /\ result[j] \in Finished
  /\ result[j] \in {"nil"} \cup Finished
  /\ status[j] = "error" => result[j] = "nil"
  /\ result[j] # "nil" => status[j] # "error"

(* A job is stored from its submission to the restart that loses it.       *)
Kept(j) == j \in stored <=> worker[j] \notin {"off", "lost"}

Progress == \A j \in Jobs : Fields(j) /\ Kept(j)

(* A poll asks about a submitted job, and has "done" behind it when it     *)
(* reads the result.                                                       *)
Polling ==
  /\ \A j \in returned : worker[j] # "off"
  /\ \A p \in Polls :
       /\ poll[p] # "idle" => asked[p] \in returned
       /\ poll[p] = "result" => status[asked[p]] = "done"

IInv == TypeOK /\ Progress /\ Polling /\ AnswersStand

-----------------------------------------------------------------------------
(* The initial states satisfy the invariant.                               *)
LEMMA InitIInv == Init => IInv
  BY DEF Init, IInv, TypeOK, Progress, Fields, Kept, Polling, AnswersStand, Statuses, Results, Finished

(* Every step keeps the types.                                             *)
LEMMA TypeStep == TypeOK /\ Polling /\ [Next]_vars => TypeOK'
<1> SUFFICES ASSUME TypeOK, Polling, [Next]_vars PROVE TypeOK'
  OBVIOUS
<1> USE DEF TypeOK
<1>1. ASSUME NEW j \in Jobs, Submit(j) PROVE TypeOK'
  BY <1>1 DEF Submit, Goto, Become, Elsewhere, Statuses
<1>2. ASSUME NEW j \in Jobs, Return(j) PROVE TypeOK'
  BY <1>2 DEF Return
<1>3. ASSUME NEW j \in Jobs, Worker(j) PROVE TypeOK'
  <2>1. CASE Start(j)
    BY <2>1 DEF Start, Goto, Become, Elsewhere, Statuses
  <2>2. CASE Generate(j)
    BY <2>2 DEF Generate, Goto, Become, Elsewhere, Statuses
  <2>3. CASE Decode(j)
    BY <2>3 DEF Decode, Goto, Become, Hold, Elsewhere, Statuses, Results
  <2>4. CASE Finish(j)
    <3>1. stored' \subseteq Jobs /\ creature' \in [Jobs -> Results]
      BY <2>4 DEF Finish
    <3>2. \/ Become(j, "done") /\ UNCHANGED result
          \/ UNCHANGED status /\ result' = [result EXCEPT ![j] = creature[j]]
      BY <2>4 DEF Finish
    <3>5. status' \in [Jobs -> Statuses]
      BY <3>2 DEF Become, Statuses
    <3>6. result' \in [Jobs -> Results]
      BY <3>2
    <3>3. worker' \in [Jobs -> {"off", "start", "gemini", "decode", "actions", "finish", "ended", "lost"}]
      BY <2>4 DEF Finish, Goto
    <3>4. UNCHANGED <<returned, poll, asked, answer>>
      BY <2>4 DEF Finish, Elsewhere
    <3> QED BY <3>1, <3>5, <3>6, <3>3, <3>4
  <2> QED BY <1>3, <2>1, <2>2, <2>3, <2>4 DEF Worker
<1>4. ASSUME NEW j \in Jobs, Process(j) PROVE TypeOK'
  BY <1>4 DEF Process, Goto, Hold, Elsewhere, Results, Finished
<1>5. ASSUME NEW p \in Polls, Poll(p) PROVE TypeOK'
  <2>1. poll[p] \in {"get", "status", "result"}
    BY <1>5 DEF Poll, GetJob, ReadStatus, ReadResult
  <2>2. asked[p] \in Jobs
    BY <2>1 DEF Polling
  <2>3. \A r \in Results : Response(r) \in Responses
    BY DEF Response, Responses
  <2>4. WrongJobID \in Responses /\ "nil" \in Results
    BY DEF WrongJobID, Responses, Results
  <2>5. ASSUME NEW a \in Responses, Reply(p, a) PROVE TypeOK'
    <3>1. UNCHANGED <<stored, status, result, worker, creature, returned, asked>>
      BY <2>5 DEF Reply
    <3>2. poll' \in [Polls -> {"idle", "get", "status", "result", "answered", "cut off"}]
      BY <2>5 DEF Reply
    <3>3. answer' \in [Polls -> Responses \cup {None}]
      BY <2>5 DEF Reply
    <3> QED BY <3>1, <3>2, <3>3
  <2>6. ASSUME NEW l \in {"status", "result"}, Step(p, l) PROVE TypeOK'
    BY <2>6 DEF Step
  <2>7. result[asked[p]] \in Results
    BY <2>2
  <2>8. CASE GetJob(p)
    BY <2>8, <2>4, <2>5, <2>6 DEF GetJob
  <2>9. CASE ReadStatus(p)
    BY <2>9, <2>3, <2>4, <2>5, <2>6 DEF ReadStatus
  <2>10. CASE ReadResult(p)
    BY <2>10, <2>3, <2>5, <2>7 DEF ReadResult
  <2> QED BY <1>5, <2>8, <2>9, <2>10 DEF Poll
<1>6. ASSUME NEW p \in Polls, NEW j \in Jobs, Ask(p, j) PROVE TypeOK'
  BY <1>6 DEF Ask
<1>7. CASE Restart
  BY <1>7 DEF Restart
<1>8. CASE UNCHANGED vars
  BY <1>8 DEF vars
<1> QED BY <1>1, <1>2, <1>3, <1>4, <1>5, <1>6, <1>7, <1>8 DEF Next

-----------------------------------------------------------------------------
(* The worker of one job.                                                  *)

(* The job k is left as it is.                                             *)
Untouched(k) ==
  /\ status'[k] = status[k] /\ result'[k] = result[k]
  /\ worker'[k] = worker[k] /\ creature'[k] = creature[k]
  /\ k \in stored' <=> k \in stored

(* A worker, and the submission that starts it, touch one job.             *)
LEMMA OthersUntouched ==
  ASSUME TypeOK, NEW j \in Jobs, NEW k \in Jobs, k # j, Submit(j) \/ Worker(j) \/ Process(j)
  PROVE  Untouched(k)
<1> USE DEF TypeOK, Untouched
<1>1. CASE Submit(j)
  BY <1>1 DEF Submit, Goto, Become
<1>2. CASE Start(j)
  BY <1>2 DEF Start, Goto, Become
<1>3. CASE Generate(j)
  BY <1>3 DEF Generate, Goto, Become
<1>4. CASE Decode(j)
  BY <1>4 DEF Decode, Goto, Become, Hold
<1>5. CASE Process(j)
  BY <1>5 DEF Process, Goto, Hold
<1>6. CASE Finish(j)
  <2>1. UNCHANGED <<stored, creature>>
    BY <1>6 DEF Finish
  <2>2. status'[k] = status[k]
    BY <1>6 DEF Finish, Become
  <2>3. result'[k] = result[k]
    BY <1>6 DEF Finish
  <2>4. worker'[k] = worker[k]
    BY <1>6 DEF Finish, Goto
  <2> QED BY <2>1, <2>2, <2>3, <2>4
<1> QED BY <1>1, <1>2, <1>3, <1>4, <1>5, <1>6 DEF Worker

(* An untouched job stays as far as it is.                                 *)
LEMMA UntouchedProgress ==
  ASSUME NEW k \in Jobs, Fields(k), Kept(k), Untouched(k)
  PROVE  Fields(k)' /\ Kept(k)'
  BY DEF Untouched, Fields, Kept

(* What a step of the worker makes of its own job.                         *)
LEMMA OwnProgress ==
  ASSUME TypeOK, NEW j \in Jobs, Fields(j), Kept(j), Submit(j) \/ Worker(j) \/ Process(j)
  PROVE  Fields(j)' /\ Kept(j)'
<1> USE DEF TypeOK
<1>1. CASE Submit(j)
  <2>1. /\ worker'[j] = "start" /\ status'[j] = "pending" /\ result'[j] = result[j]
        /\ j \in stored' /\ worker[j] = "off"
    BY <1>1 DEF Submit, Goto, Become
  <2> QED BY <2>1 DEF Fields, Kept
<1>2. CASE Start(j)
  <2>1. /\ worker'[j] = "gemini" /\ status'[j] = "processing_step_1" /\ result'[j] = result[j]
        /\ j \in stored' /\ worker[j] = "start"
    BY <1>2 DEF Start, Goto, Become
  <2> QED BY <2>1 DEF Fields, Kept
<1>3. CASE Generate(j)
  <2>1. result'[j] = result[j] /\ stored' = stored /\ worker[j] = "gemini"
    BY <1>3 DEF Generate
  <2>2. \/ worker'[j] = "decode" /\ status'[j] = status[j]
        \/ worker'[j] = "ended" /\ status'[j] = "error"
    BY <1>3 DEF Generate, Goto, Become
  <2> QED BY <2>1, <2>2 DEF Fields, Kept
<1>4. CASE Decode(j)
  <2>1. result'[j] = result[j] /\ stored' = stored /\ worker[j] = "decode"
    BY <1>4 DEF Decode
  <2>2. \/ worker'[j] = "actions" /\ status'[j] = "processing_step_2"
        \/ worker'[j] = "ended" /\ status'[j] = "error"
    BY <1>4 DEF Decode, Goto, Become
  <2> QED BY <2>1, <2>2 DEF Fields, Kept
<1>5. CASE Process(j)
  <2>1. /\ result'[j] = result[j] /\ stored' = stored /\ status'[j] = status[j]
        /\ worker[j] = "actions" /\ worker'[j] = "finish"
    BY <1>5 DEF Process, Goto
  <2>2. creature'[j] \in Finished
    BY <1>5 DEF Process, Hold, Finished
  <2> QED BY <2>1, <2>2 DEF Fields, Kept, Finished
<1>6. CASE Finish(j)
  <2>1. stored' = stored /\ creature'[j] = creature[j] /\ worker[j] = "finish"
    BY <1>6 DEF Finish
  <2>2. \/ /\ status[j] # "done" /\ status'[j] = "done" /\ result'[j] = result[j]
           /\ worker'[j] = IF result[j] = "nil" THEN "finish" ELSE "ended"
        \/ /\ result[j] = "nil" /\ result'[j] = creature[j] /\ status'[j] = status[j]
           /\ worker'[j] = IF status[j] = "done" THEN "ended" ELSE "finish"
    BY <1>6 DEF Finish, Goto, Become
  <2>3. /\ status[j] \in {"processing_step_2", "done"} /\ creature[j] \in Finished
        /\ result[j] \in {"nil"} \cup Finished /\ j \in stored
    BY <2>1 DEF Fields, Kept
  <2>4. CASE worker'[j] = "finish"
    <3>1. status'[j] \in {"processing_step_2", "done"} /\ result'[j] \in {"nil"} \cup Finished
      BY <2>2, <2>3
    <3>2. ~(status'[j] = "done" /\ result'[j] \in Finished)
      BY <2>2, <2>3, <2>4 DEF Finished
    <3> QED BY <2>1, <2>3, <2>4, <3>1, <3>2 DEF Fields, Kept
  <2>5. CASE worker'[j] = "ended"
    <3>1. status'[j] = "done" /\ result'[j] \in Finished
      BY <2>2, <2>3, <2>5
    <3> QED BY <2>1, <2>3, <2>5, <3>1 DEF Fields, Kept
  <2> QED BY <2>2, <2>4, <2>5
<1> QED BY <1>1, <1>2, <1>3, <1>4, <1>5, <1>6 DEF Worker

(* A step of one worker moves its job to the next stage and leaves the     *)
(* others alone; only Restart removes jobs.                                *)
LEMMA ProgressStep == TypeOK /\ Progress /\ [Next]_vars => Progress'
<1> SUFFICES ASSUME TypeOK, Progress, [Next]_vars, NEW k \in Jobs PROVE Fields(k)' /\ Kept(k)'
  BY DEF Progress
<1>1. Fields(k) /\ Kept(k)
  BY DEF Progress
<1>2. ASSUME NEW j \in Jobs, Submit(j) \/ Worker(j) \/ Process(j) PROVE Fields(k)' /\ Kept(k)'
  <2>1. CASE k = j
    BY <1>1, <1>2, <2>1, OwnProgress
  <2>2. CASE k # j
    BY <1>1, <1>2, <2>2, OthersUntouched, UntouchedProgress
  <2> QED BY <2>1, <2>2
<1>3. ASSUME UNCHANGED <<stored, status, result, worker, creature>> PROVE Fields(k)' /\ Kept(k)'
  BY <1>1, <1>3 DEF Fields, Kept
<1>4. ASSUME NEW j \in Jobs, Return(j) PROVE Fields(k)' /\ Kept(k)'
  BY <1>3, <1>4 DEF Return
<1>5. ASSUME NEW p \in Polls, Poll(p) PROVE Fields(k)' /\ Kept(k)'
  BY <1>3, <1>5 DEF Poll, GetJob, ReadStatus, ReadResult, Reply, Step
<1>6. ASSUME NEW p \in Polls, NEW j \in Jobs, Ask(p, j) PROVE Fields(k)' /\ Kept(k)'
  BY <1>3, <1>6 DEF Ask
<1>7. CASE Restart
  <2>1. /\ status' = status /\ result' = result /\ k \notin stored'
        /\ worker'[k] = IF worker[k] = "off" THEN "off" ELSE "lost"
    BY <1>7 DEF Restart, TypeOK
  <2> QED BY <1>1, <2>1 DEF Fields, Kept
<1>8. CASE UNCHANGED vars
  BY <1>3, <1>8 DEF vars
<1> QED BY <1>2, <1>4, <1>5, <1>6, <1>7, <1>8 DEF Next

(* What a step may do to the outcome of a job.                             *)
Stands(j) ==
  /\ status[j] \in {"done", "error"} => status'[j] = status[j]
  /\ result[j] # "nil" => result'[j] = result[j]
  /\ status[j] = "error" => result'[j] = "nil"

(* The action property, of one step from a state of the invariant.         *)
LEMMA OutcomeStep == ASSUME TypeOK, Progress, [Next]_vars, NEW j \in Jobs PROVE Stands(j)
<1>1. Fields(j)
  BY DEF Progress
<1>2. ASSUME status'[j] = status[j], result'[j] = result[j] PROVE Stands(j)
  BY <1>1, <1>2 DEF Stands, Fields
<1>3. ASSUME NEW k \in Jobs, Submit(k) \/ Worker(k) \/ Process(k) PROVE Stands(j)
  <2>1. CASE k # j
    BY <1>2, <1>3, <2>1, OthersUntouched DEF Untouched
  <2>2. CASE k = j
    <3>1. CASE Submit(j)
      <4>1. worker[j] = "off" /\ result'[j] = result[j] /\ status'[j] = "pending"
        BY <3>1 DEF Submit, Become, TypeOK
      <4> QED BY <1>1, <4>1 DEF Stands, Fields
    <3>2. CASE Start(j)
      <4>1. worker[j] = "start" /\ result'[j] = result[j]
        BY <3>2 DEF Start
      <4> QED BY <1>1, <4>1 DEF Stands, Fields
    <3>3. CASE Generate(j)
      <4>1. worker[j] = "gemini" /\ result'[j] = result[j]
        BY <3>3 DEF Generate
      <4> QED BY <1>1, <4>1 DEF Stands, Fields
    <3>4. CASE Decode(j)
      <4>1. worker[j] = "decode" /\ result'[j] = result[j]
        BY <3>4 DEF Decode
      <4> QED BY <1>1, <4>1 DEF Stands, Fields
    <3>5. CASE Process(j)
      BY <1>2, <3>5 DEF Process
    <3>6. CASE Finish(j)
      <4>1. /\ worker[j] = "finish"
            /\ \/ status[j] # "done" /\ result'[j] = result[j]
               \/ result[j] = "nil" /\ status'[j] = status[j]
        BY <3>6 DEF Finish
      <4> QED BY <1>1, <4>1 DEF Stands, Fields
    <3> QED BY <1>3, <2>2, <3>1, <3>2, <3>3, <3>4, <3>5, <3>6 DEF Worker
  <2> QED BY <2>1, <2>2
<1>4. ASSUME NEW k \in Jobs, Return(k) PROVE Stands(j)
  BY <1>2, <1>4 DEF Return
<1>5. ASSUME NEW p \in Polls, Poll(p) PROVE Stands(j)
  BY <1>2, <1>5 DEF Poll, GetJob, ReadStatus, ReadResult, Reply, Step
<1>6. ASSUME NEW p \in Polls, NEW k \in Jobs, Ask(p, k) PROVE Stands(j)
  BY <1>2, <1>6 DEF Ask
<1>7. CASE Restart \/ UNCHANGED vars
  BY <1>2, <1>7 DEF Restart, vars
<1> QED BY <1>3, <1>4, <1>5, <1>6, <1>7 DEF Next

(* Every step but those of polls leaves the polls alone, unless they are   *)
(* cut off.                                                                *)
LEMMA WorkerElsewhere ==
  ASSUME NEW j \in Jobs, Submit(j) \/ Worker(j) \/ Process(j)
  PROVE  UNCHANGED <<returned, poll, asked, answer>> /\ worker[j] # "lost"
<1>1. CASE Submit(j)
  BY <1>1 DEF Submit, Elsewhere
<1>2. CASE Start(j)
  BY <1>2 DEF Start, Elsewhere
<1>3. CASE Generate(j)
  BY <1>3 DEF Generate, Elsewhere
<1>4. CASE Decode(j)
  BY <1>4 DEF Decode, Elsewhere
<1>5. CASE Process(j)
  BY <1>5 DEF Process, Elsewhere
<1>6. CASE Finish(j)
  BY <1>6 DEF Finish, Elsewhere
<1> QED BY <1>1, <1>2, <1>3, <1>4, <1>5, <1>6 DEF Worker

(* A worker that has left "off" does not go back to it, and a lost one     *)
(* stays lost.                                                             *)
LEMMA WorkerOnward ==
  ASSUME TypeOK, Progress, [Next]_vars, NEW k \in Jobs
  PROVE  /\ worker[k] # "off" => worker'[k] # "off"
         /\ worker[k] = "lost" => worker'[k] = "lost"
<1>1. ASSUME NEW j \in Jobs, Submit(j) \/ Worker(j) \/ Process(j)
      PROVE  /\ worker[k] # "off" => worker'[k] # "off"
             /\ worker[k] = "lost" => worker'[k] = "lost"
  <2>1. CASE k # j
    BY <1>1, <2>1, OthersUntouched DEF Untouched
  <2>2. CASE k = j
    <3>1. worker[j] # "lost"
      BY <1>1, WorkerElsewhere
    <3>2. j \in stored'
      BY <1>1 DEF Submit, Worker, Start, Generate, Decode, Process, Finish, Progress, Kept
    <3>3. Kept(j)'
      BY <1>1, OwnProgress DEF Progress
    <3> QED BY <2>2, <3>1, <3>2, <3>3 DEF Kept
  <2> QED BY <2>1, <2>2
<1>2. ASSUME UNCHANGED worker
      PROVE  /\ worker[k] # "off" => worker'[k] # "off"
             /\ worker[k] = "lost" => worker'[k] = "lost"
  BY <1>2
<1>3. ASSUME NEW j \in Jobs, Return(j) PROVE UNCHANGED worker
  BY <1>3 DEF Return
<1>4. ASSUME NEW p \in Polls, Poll(p) PROVE UNCHANGED worker
  BY <1>4 DEF Poll, GetJob, ReadStatus, ReadResult, Reply, Step
<1>5. ASSUME NEW p \in Polls, NEW j \in Jobs, Ask(p, j) PROVE UNCHANGED worker
  BY <1>5 DEF Ask
<1>6. CASE Restart
  BY <1>6 DEF Restart, TypeOK
<1>7. CASE UNCHANGED vars
  BY <1>7 DEF vars
<1> QED BY <1>1, <1>2, <1>3, <1>4, <1>5, <1>6, <1>7 DEF Next

(* A poll's own steps establish what the next one needs; nobody else's can *)
(* take it away, for a status of "done" stays.                             *)
LEMMA PollingStep == TypeOK /\ Progress /\ Polling /\ [Next]_vars => Polling'
<1> SUFFICES ASSUME TypeOK, Progress, Polling, [Next]_vars PROVE Polling'
  OBVIOUS
<1>1. \A j \in Jobs : status[j] = "done" => status'[j] = "done"
  BY OutcomeStep DEF Stands
<1>2. \A j \in Jobs : worker[j] # "off" => worker'[j] # "off"
  BY WorkerOnward
<1> USE DEF TypeOK, Polling
<1>3. ASSUME UNCHANGED <<returned, poll, asked>> PROVE Polling'
  BY <1>1, <1>2, <1>3
<1>4. ASSUME NEW j \in Jobs, Submit(j) \/ Worker(j) \/ Process(j) PROVE Polling'
  BY <1>3, <1>4, WorkerElsewhere
<1>5. ASSUME NEW j \in Jobs, Return(j) PROVE Polling'
  <2>1. worker[j] # "off"
    BY <1>5 DEF Return, Progress, Kept
  <2>2. returned' = returned \cup {j} /\ UNCHANGED <<poll, asked, status, worker>>
    BY <1>5 DEF Return
  <2> QED BY <2>1, <2>2
<1>6. ASSUME NEW p \in Polls, Poll(p) PROVE Polling'
  <2>1. UNCHANGED <<returned, asked, status, worker>>
    BY <1>6 DEF Poll, GetJob, ReadStatus, ReadResult, Reply, Step
  <2>2. \A q \in Polls : q # p => poll'[q] = poll[q]
    BY <1>6 DEF Poll, GetJob, ReadStatus, ReadResult, Reply, Step
  <2>3. poll[p] # "idle"
    BY <1>6 DEF Poll, GetJob, ReadStatus, ReadResult
  <2>4. poll'[p] = "result" => status[asked[p]] = "done"
    BY <1>6 DEF Poll, GetJob, ReadStatus, ReadResult, Reply, Step
  <2> QED BY <2>1, <2>2, <2>3, <2>4
<1>7. ASSUME NEW p \in Polls, NEW j \in Jobs, Ask(p, j) PROVE Polling'
  BY <1>7 DEF Ask
<1>8. CASE Restart
  <2>1. UNCHANGED <<returned, asked, status>>
    BY <1>8 DEF Restart
  <2>2. \A q \in Polls : poll'[q] = IF poll[q] \in {"get", "status", "result"} THEN "cut off" ELSE poll[q]
    BY <1>8 DEF Restart
  <2> QED BY <1>2, <2>1, <2>2
<1>9. CASE UNCHANGED vars
  BY <1>3, <1>9 DEF vars
<1> QED BY <1>4, <1>5, <1>6, <1>7, <1>8, <1>9 DEF Next

(* What the handler's responses say.                                       *)
LEMMA Said ==
  ASSUME NEW r
  PROVE  /\ WrongJobID.code = "wrong job id" /\ WrongJobID.result = "nil"
         /\ Response(r).code = "OK" /\ Response(r).result = r
  BY DEF WrongJobID, Response

(* Who answers a poll: only its own steps, and only once.                  *)
LEMMA AnsweredBy ==
  ASSUME TypeOK, [Next]_vars, NEW p \in Polls
  PROVE  \/ Poll(p)
         \/ UNCHANGED <<asked[p], answer[p]>> /\ poll'[p] \in {poll[p], "cut off"}
         \/ poll[p] = "idle" /\ poll'[p] = "get"
<1> USE DEF TypeOK
<1>1. ASSUME NEW j \in Jobs, Submit(j) \/ Worker(j) \/ Process(j)
      PROVE  UNCHANGED <<asked[p], answer[p]>> /\ poll'[p] \in {poll[p], "cut off"}
  BY <1>1, WorkerElsewhere
<1>2. ASSUME NEW j \in Jobs, Return(j)
      PROVE  UNCHANGED <<asked[p], answer[p]>> /\ poll'[p] \in {poll[p], "cut off"}
  BY <1>2 DEF Return
<1>3. ASSUME NEW q \in Polls, q # p, Poll(q)
      PROVE  UNCHANGED <<asked[p], answer[p]>> /\ poll'[p] \in {poll[p], "cut off"}
  BY <1>3 DEF Poll, GetJob, ReadStatus, ReadResult, Reply, Step
<1>4. ASSUME NEW q \in Polls, NEW j \in Jobs, Ask(q, j)
      PROVE  \/ UNCHANGED <<asked[p], answer[p]>> /\ poll'[p] \in {poll[p], "cut off"}
             \/ poll[p] = "idle" /\ poll'[p] = "get"
  BY <1>4 DEF Ask
<1>5. CASE Restart
  BY <1>5 DEF Restart
<1>6. CASE UNCHANGED vars
  BY <1>6 DEF vars
<1> QED BY <1>1, <1>2, <1>3, <1>4, <1>5, <1>6 DEF Next

(* What was answered stands.                                               *)
LEMMA AnswersStep == IInv /\ [Next]_vars => AnswersStand'
<1> SUFFICES ASSUME IInv, [Next]_vars, NEW p \in Polls, poll'[p] = "answered"
             PROVE  /\ answer'[p].code # "OK" => worker'[asked'[p]] = "lost"
                    /\ answer'[p].result # "nil" =>
                         /\ answer'[p].result \in Finished
                         /\ result'[asked'[p]] = answer'[p].result
                         /\ status'[asked'[p]] = "done"
  BY DEF AnswersStand
<1>1. TypeOK /\ Progress /\ Polling /\ AnswersStand
  BY DEF IInv
<1>2. CASE Poll(p)
  <2>1. poll[p] # "idle"
    BY <1>2 DEF Poll, GetJob, ReadStatus, ReadResult
  <2>2. asked[p] \in returned /\ asked[p] \in Jobs
    BY <1>1, <2>1 DEF Polling, TypeOK
  <2>3. UNCHANGED <<asked, worker, status, result>>
    BY <1>2 DEF Poll, GetJob, ReadStatus, ReadResult, Reply, Step
  <2>4. CASE GetJob(p)
    <3>1. asked[p] \notin stored /\ answer'[p] = WrongJobID
      BY <2>4, <1>1 DEF GetJob, Step, Reply, TypeOK
    <3>2. worker[asked[p]] = "lost"
      BY <1>1, <3>1, <2>2 DEF Progress, Kept, Polling
    <3>3. answer'[p].code = "wrong job id" /\ answer'[p].result = "nil"
      BY <3>1, Said
    <3> QED BY <3>2, <3>3, <2>3
  <2>5. CASE ReadStatus(p)
    <3>1. answer'[p] = Response("nil")
      BY <2>5, <1>1 DEF ReadStatus, Step, Reply, TypeOK
    <3>2. answer'[p].code = "OK" /\ answer'[p].result = "nil"
      BY <3>1, Said
    <3> QED BY <3>2
  <2>6. CASE ReadResult(p)
    <3>1. answer'[p] = Response(result[asked[p]])
      BY <2>6, <1>1 DEF ReadResult, Reply, TypeOK
    <3>2. status[asked[p]] = "done"
      BY <2>6, <1>1 DEF ReadResult, Polling
    <3>3. result[asked[p]] \in {"nil"} \cup Finished
      BY <2>2, <1>1 DEF Progress, Fields
    <3>4. answer'[p].code = "OK" /\ answer'[p].result = result[asked[p]]
      BY <3>1, Said
    <3> QED BY <3>2, <3>3, <3>4, <2>3
  <2> QED BY <1>2, <2>4, <2>5, <2>6 DEF Poll
<1>3. CASE UNCHANGED <<asked[p], answer[p]>> /\ poll[p] = "answered"
  <2>1. asked[p] \in Jobs
    BY <1>1, <1>3 DEF Polling, TypeOK
  <2>2. /\ worker[asked[p]] = "lost" => worker'[asked[p]] = "lost"
        /\ status[asked[p]] = "done" => status'[asked[p]] = "done"
        /\ result[asked[p]] # "nil" => result'[asked[p]] = result[asked[p]]
    BY <1>1, <2>1, OutcomeStep, WorkerOnward DEF Stands
  <2>3. /\ answer[p].code # "OK" => worker[asked[p]] = "lost"
        /\ answer[p].result # "nil" =>
             /\ answer[p].result \in Finished /\ result[asked[p]] = answer[p].result
             /\ status[asked[p]] = "done"
    BY <1>1, <1>3 DEF AnswersStand
  <2>4. answer'[p] = answer[p] /\ asked'[p] = asked[p]
    BY <1>3
  <2> QED BY <2>2, <2>3, <2>4
<1> QED BY <1>1, <1>2, <1>3, AnsweredBy

(* Together.                                                               *)
LEMMA NextIInv == IInv /\ [Next]_vars => IInv'
  BY TypeStep, ProgressStep, PollingStep, AnswersStep DEF IInv

-----------------------------------------------------------------------------
(* What holds of every job and every poll, for any number of them.         *)

(* Where the worker is tells what a poll can read.                         *)
THEOREM Inductive == Spec => []IInv
<1>1. Init => IInv
  BY InitIInv
<1>2. IInv /\ [Next]_vars => IInv'
  BY NextIInv
<1> QED BY <1>1, <1>2, PTL DEF Spec

(* Polls are answered about jobs that exist, with one of the answers the   *)
(* handler can send.                                                       *)
THEOREM TypeCorrect == Spec => []TypeOK
<1>1. IInv => TypeOK
  BY DEF IInv
<1> QED BY <1>1, Inductive, PTL

(* The unlocked reads of a poll never show an unfinished creature, nor one *)
(* that is later withdrawn.                                                *)
THEOREM AnswersAlwaysStand == Spec => []AnswersStand
<1>1. IInv => AnswersStand
  BY DEF IInv
<1> QED BY <1>1, Inductive, PTL

(* process never revises an outcome.                                       *)
THEOREM OutcomesFixed == Spec => OutcomeFixed
<1>1. IInv /\ [Next]_vars =>
        [\A j \in Jobs :
           /\ status[j] \in {"done", "error"} => status'[j] = status[j]
           /\ result[j] # "nil" => result'[j] = result[j]
           /\ status[j] = "error" => result'[j] = "nil"]_vars
  BY OutcomeStep DEF IInv, Stands
<1> QED BY <1>1, Inductive, PTL DEF Spec, OutcomeFixed

-----------------------------------------------------------------------------
(* LLMJobs implements JobsContract. A poll that is past the lookup asks    *)
(* about a job that is still stored: a restart would have cut it off.      *)
Asking ==
  \A p \in Polls :
    /\ poll[p] = "idle" => asked[p] = None
    /\ poll[p] \in {"status", "result"} => asked[p] \in stored

CInv == IInv /\ Asking

(* What the polls have been told.                                          *)
Heard == [p \in Polls |-> IF poll[p] = "answered" THEN Meaning(answer[p]) ELSE None]

LEMMA AskingStep == CInv /\ [Next]_vars => Asking'
<1> SUFFICES ASSUME IInv, Asking, [Next]_vars PROVE Asking'
  BY DEF CInv
<1>1. ASSUME UNCHANGED <<poll, asked>>, stored \subseteq stored' PROVE Asking'
  BY <1>1 DEF Asking
<1>2. ASSUME NEW j \in Jobs, Submit(j) \/ Worker(j) \/ Process(j) PROVE Asking'
  <2>1. stored \subseteq stored'
    BY <1>2 DEF Submit, Worker, Start, Generate, Decode, Process, Finish
  <2> QED BY <1>1, <1>2, <2>1, WorkerElsewhere
<1>3. ASSUME NEW p \in Polls, Poll(p) PROVE Asking'
  <2>1. UNCHANGED <<asked, stored>>
    BY <1>3 DEF Poll, GetJob, ReadStatus, ReadResult, Reply, Step
  <2>2. \E l \in {"status", "result", "answered"} :
           /\ poll' = [poll EXCEPT ![p] = l]
           /\ l # "answered" => asked[p] \in stored
    <3>1. CASE GetJob(p)
      BY <3>1 DEF GetJob, Reply, Step
    <3>2. CASE ReadStatus(p) \/ ReadResult(p)
      BY <3>2 DEF ReadStatus, ReadResult, Reply, Step, Asking
    <3> QED BY <1>3, <3>1, <3>2 DEF Poll
  <2> QED BY <2>1, <2>2 DEF Asking, IInv, TypeOK
<1>4. ASSUME NEW p \in Polls, NEW j \in Jobs, Ask(p, j) PROVE Asking'
  BY <1>4 DEF Ask, Asking, IInv, TypeOK
<1>5. CASE Restart
  BY <1>5 DEF Restart, Asking
<1>6. CASE UNCHANGED vars \/ \E j \in Jobs : Return(j)
  BY <1>1, <1>6 DEF vars, Return
<1> QED BY <1>2, <1>3, <1>4, <1>5, <1>6 DEF Next

(* A worker decides its own job, once, and no other.                       *)
LEMMA OtherOutcomes ==
  ASSUME NEW k \in Jobs, Untouched(k)
  PROVE  Outcome(k)' = Outcome(k)
BY DEF Untouched, Outcome

LEMMA SubmitOpens ==
  ASSUME TypeOK, NEW j \in Jobs, Fields(j), Submit(j)
  PROVE  Outcome(j) = "none" /\ Outcome(j)' = "open"
<1>1. /\ worker[j] = "off" /\ worker'[j] = "start" /\ status'[j] = "pending"
  BY DEF TypeOK, Submit, Goto, Become
<1> QED BY <1>1 DEF Outcome

LEMMA WorkerDecides ==
  ASSUME TypeOK, NEW j \in Jobs, Fields(j), Worker(j) \/ Process(j)
  PROVE  Outcome(j) = "open" /\ Outcome(j)' \in {"open", "failed"} \cup Finished
<1> USE DEF TypeOK
<1>1. CASE Start(j)
  <2>1. /\ worker[j] = "start" /\ worker'[j] = "gemini"
        /\ status'[j] = "processing_step_1"
    BY <1>1 DEF Start, Goto, Become
  <2> QED BY <2>1 DEF Outcome, Fields
<1>2. CASE Generate(j)
  <2>1. worker[j] = "gemini" /\ result'[j] = result[j]
    BY <1>2 DEF Generate
  <2>2. \/ worker'[j] = "decode" /\ status'[j] = status[j]
        \/ worker'[j] = "ended" /\ status'[j] = "error"
    BY <1>2 DEF Generate, Goto, Become
  <2> QED BY <2>1, <2>2 DEF Outcome, Fields
<1>3. CASE Decode(j)
  <2>1. worker[j] = "decode" /\ result'[j] = result[j]
    BY <1>3 DEF Decode
  <2>2. \/ worker'[j] = "actions" /\ status'[j] = "processing_step_2"
        \/ worker'[j] = "ended" /\ status'[j] = "error"
    BY <1>3 DEF Decode, Goto, Become
  <2> QED BY <2>1, <2>2 DEF Outcome, Fields
<1>4. CASE Process(j)
  <2>1. /\ result'[j] = result[j] /\ status'[j] = status[j]
        /\ worker[j] = "actions" /\ worker'[j] = "finish"
    BY <1>4 DEF Process, Goto
  <2> QED BY <2>1 DEF Outcome, Fields
<1>5. CASE Finish(j)
  <2>1. worker[j] = "finish" /\ worker'[j] \in {"finish", "ended"}
    BY <1>5 DEF Finish, Goto
  <2>2. /\ status'[j] \in {status[j], "done"} /\ result'[j] \in {result[j], creature[j]}
    BY <1>5 DEF Finish, Become
  <2>3. /\ status[j] \in {"processing_step_2", "done"} /\ creature[j] \in Finished
        /\ result[j] \in {"nil"} \cup Finished
        /\ ~(status[j] = "done" /\ result[j] \in Finished)
    BY <2>1 DEF Fields
  <2> QED BY <2>1, <2>2, <2>3 DEF Outcome
<1> QED BY <1>1, <1>2, <1>3, <1>4, <1>5 DEF Worker

(* A worker's step and the submission before it, as the contract has them. *)
LEMMA Decides ==
  ASSUME CInv, NEW j \in Jobs, Submit(j) \/ Worker(j) \/ Process(j)
  PROVE  [Contract!ContractNext]_(Contract!contractVars)
<1> DEFINE O == [k \in Jobs |-> Outcome(k)]
           o == Outcome(j)'
<1>1. TypeOK /\ Fields(j)
  BY DEF CInv, IInv, Progress
<1>2. O' = [O EXCEPT ![j] = o]
  BY <1>1, OthersUntouched, OtherOutcomes
<1>3. UNCHANGED <<returned, poll, asked, answer>>
  BY WorkerElsewhere
<1>4. UNCHANGED <<Waiting, Heard>>
  BY <1>3 DEF Waiting, Heard
<1>5. Contract!Decide(j, o)
  BY <1>2, <1>3, <1>4 DEF Contract!Decide, Heard
<1>6. CASE Submit(j)
  <2>1. Contract!Submit(j)
    BY <1>1, <1>5, <1>6, SubmitOpens DEF Contract!Submit
  <2> QED BY <2>1 DEF Contract!ContractNext
<1>7. CASE Worker(j) \/ Process(j)
  <2>1. O[j] = "open" /\ o \in {"open", "failed"} \cup Finished
    BY <1>1, <1>7, WorkerDecides
  <2>2. CASE o = "open"
    <3>1. O' = O
      BY <1>2, <2>1, <2>2
    <3> QED BY <1>3, <1>4, <3>1 DEF Contract!contractVars, Heard
  <2>3. CASE o = "failed"
    BY <1>5, <2>1, <2>3 DEF Contract!Fail, Contract!ContractNext
  <2>4. CASE o \in Finished
    BY <1>5, <2>1, <2>4 DEF Contract!Succeed, Contract!ContractNext
  <2> QED BY <2>1, <2>2, <2>3, <2>4
<1> QED BY <1>6, <1>7

(* What a poll is told is what the outcome of its job is at that step.     *)
LEMMA Replies ==
  ASSUME TypeOK, NEW p \in Polls, NEW a, Reply(p, a), p \in Waiting, asked[p] \in Jobs,
         Meaning(a) = Contract!Says(Outcome(asked[p]))
  PROVE  Contract!Answer(p)
<1>1. /\ poll' = [poll EXCEPT ![p] = "answered"] /\ answer' = [answer EXCEPT ![p] = a]
      /\ UNCHANGED <<stored, status, result, worker, creature, returned, asked>>
  BY DEF Reply
<1>2. Waiting' = Waiting \ {p}
  BY <1>1 DEF Waiting, TypeOK
<1>3. Heard' = [Heard EXCEPT ![p] = Meaning(a)]
  <2>1. \A q \in Polls : q # p => poll'[q] = poll[q] /\ answer'[q] = answer[q]
    BY <1>1 DEF TypeOK
  <2>2. poll'[p] = "answered" /\ answer'[p] = a
    BY <1>1 DEF TypeOK
  <2> QED BY <2>1, <2>2 DEF Heard, Meaning
<1>4. UNCHANGED [j \in Jobs |-> Outcome(j)]
  BY <1>1 DEF Outcome
<1>5. [j \in Jobs |-> Outcome(j)][asked[p]] = Outcome(asked[p])
  OBVIOUS
<1> QED BY <1>1, <1>2, <1>3, <1>4, <1>5 DEF Contract!Answer, Heard

(* A step of a poll that tells it nothing yet.                             *)
LEMMA Looks ==
  ASSUME TypeOK, NEW p \in Polls, NEW l \in {"status", "result"}, Step(p, l), p \in Waiting
  PROVE  UNCHANGED (Contract!contractVars)
<1>1. /\ poll' = [poll EXCEPT ![p] = l]
      /\ UNCHANGED <<stored, status, result, worker, creature, returned, asked, answer>>
  BY DEF Step
<1>2. Waiting' = Waiting /\ Heard' = Heard
  BY <1>1 DEF Waiting, Heard, TypeOK
<1>3. UNCHANGED [j \in Jobs |-> Outcome(j)]
  BY <1>1 DEF Outcome
<1> QED BY <1>1, <1>2, <1>3 DEF Contract!contractVars, Heard

LEMMA PollAnswers ==
  ASSUME CInv, NEW p \in Polls, Poll(p)
  PROVE  [Contract!ContractNext]_(Contract!contractVars)
<1> DEFINE j == asked[p]
<1>1. TypeOK /\ p \in Waiting
  BY DEF CInv, IInv, Waiting, Poll, GetJob, ReadStatus, ReadResult
<1>2. j \in returned /\ j \in Jobs /\ Fields(j) /\ Kept(j) /\ worker[j] # "off"
  BY <1>1 DEF CInv, IInv, TypeOK, Progress, Polling, Waiting
<1>3. ASSUME NEW a, Reply(p, a), Meaning(a) = Contract!Says(Outcome(j))
      PROVE  Contract!ContractNext
  BY <1>1, <1>2, <1>3, Replies DEF Contract!ContractNext
<1>4. CASE GetJob(p)
  <2>1. CASE j \in stored
    BY <1>1, <1>4, <2>1, Looks DEF GetJob
  <2>2. CASE j \notin stored
    <3>1. Outcome(j) = "lost"
      BY <1>2, <2>2 DEF Kept, Outcome
    <3>2. Meaning(WrongJobID) = Contract!Says(Outcome(j))
      BY <3>1, Said DEF Meaning, Contract!Says
    <3> QED BY <1>3, <1>4, <2>2, <3>2 DEF GetJob
  <2> QED BY <2>1, <2>2
<1>5. CASE ReadStatus(p)
  <2>1. CASE status[j] = "done"
    BY <1>1, <1>5, <2>1, Looks DEF ReadStatus
  <2>2. CASE status[j] # "done"
    <3>1. worker[j] \notin {"off", "lost"}
      BY <1>2, <1>5 DEF CInv, Asking, ReadStatus, Kept
    <3>2. Outcome(j) \in {"failed", "open"}
      BY <2>2, <3>1 DEF Outcome
    <3>3. Meaning(Response("nil")) = Contract!Says(Outcome(j))
      BY <3>2, Said DEF Meaning, Contract!Says, Finished
    <3> QED BY <1>3, <1>5, <2>2, <3>3 DEF ReadStatus
  <2> QED BY <2>1, <2>2
<1>6. CASE ReadResult(p)
  <2>1. worker[j] \notin {"off", "lost"} /\ status[j] = "done"
    BY <1>2, <1>6 DEF CInv, IInv, Asking, Polling, ReadResult, Kept
  <2>2. result[j] \in {"nil"} \cup Finished
    BY <1>2 DEF Fields
  <2>3. Outcome(j) = IF result[j] = "nil" THEN "open" ELSE result[j]
    BY <2>1 DEF Outcome
  <2>4. Meaning(Response(result[j])) = Contract!Says(Outcome(j))
    BY <2>2, <2>3, Said DEF Meaning, Contract!Says, Finished
  <2> QED BY <1>3, <1>6, <2>4 DEF ReadResult
<1> QED BY <1>4, <1>5, <1>6 DEF Poll

(* The steps of the others.                                                *)
LEMMA OthersRefine ==
  ASSUME CInv, [Next]_vars
  PROVE  /\ \A j \in Jobs : Return(j) => Contract!Return(j)
         /\ \A p \in Polls, j \in Jobs : Ask(p, j) => Contract!Ask(p, j)
         /\ Restart => Contract!Lose
         /\ UNCHANGED vars => UNCHANGED (Contract!contractVars)
<1>0. TypeOK /\ Progress /\ Asking
  BY DEF CInv, IInv
<1>1. ASSUME NEW j \in Jobs, Return(j)
      PROVE  Contract!Return(j)
  <2>1. Outcome(j) \notin {"none", "lost"}
    BY <1>0, <1>1 DEF Progress, Kept, Fields, Outcome, Return, Finished
  <2>2. /\ returned' = returned \cup {j} /\ asked' = asked
        /\ UNCHANGED <<Waiting, Heard, [k \in Jobs |-> Outcome(k)]>>
    BY <1>1 DEF Return, Waiting, Heard, Outcome
  <2> QED BY <2>1, <2>2 DEF Contract!Return, Heard
<1>2. ASSUME NEW p \in Polls, NEW j \in Jobs, Ask(p, j)
      PROVE  Contract!Ask(p, j)
  <2>1. /\ asked[p] = None /\ j \in returned /\ asked' = [asked EXCEPT ![p] = j]
        /\ poll[p] = "idle" /\ poll' = [poll EXCEPT ![p] = "get"] /\ answer' = answer
        /\ UNCHANGED <<returned, [k \in Jobs |-> Outcome(k)]>>
    BY <1>0, <1>2 DEF Ask, Asking, Outcome
  <2>2. Waiting' = Waiting \cup {p} /\ Heard' = Heard
    BY <1>0, <2>1 DEF Waiting, Heard, TypeOK
  <2> QED BY <2>1, <2>2 DEF Contract!Ask, Heard
<1>3. ASSUME Restart
      PROVE  Contract!Lose
  <2>1. \A j \in Jobs : Outcome(j)' = IF Outcome(j) = "none" THEN "none" ELSE "lost"
    <3> SUFFICES ASSUME NEW j \in Jobs
                 PROVE  Outcome(j)' = IF Outcome(j) = "none" THEN "none" ELSE "lost"
      OBVIOUS
    <3>1. worker'[j] = IF worker[j] = "off" THEN "off" ELSE "lost"
      BY <1>3 DEF Restart
    <3>2. Fields(j)
      BY <1>0 DEF Progress
    <3> QED BY <3>1, <3>2 DEF Outcome, Fields, Finished
  <2>2. Waiting' = {} /\ Heard' = Heard /\ UNCHANGED <<returned, asked>>
    BY <1>0, <1>3 DEF Restart, Waiting, Heard, TypeOK
  <2> QED BY <2>1, <2>2 DEF Contract!Lose, Heard
<1>4. ASSUME UNCHANGED vars
      PROVE  UNCHANGED (Contract!contractVars)
  BY <1>4 DEF vars, Contract!contractVars, Waiting, Heard, Outcome
<1> QED BY <1>1, <1>2, <1>3, <1>4

(* No lock covers a job's fields, and yet every answer is one that a       *)
(* single look at the job could have given; a job is decided once. (llm.go: *)
(* process, GetGenerationStatus)                                           *)
THEOREM JobsKeepContract == Spec => KeepsJobsContract
<1>1. Init => CInv
  BY InitIInv DEF Init, CInv, Asking
<1>2. CInv /\ [Next]_vars => CInv'
  BY NextIInv, AskingStep DEF CInv
<1>3. Init => Contract!ContractInit
  BY DEF Init, Contract!ContractInit, Outcome, Waiting
<1>4. CInv /\ [Next]_vars => [Contract!ContractNext]_(Contract!contractVars)
  BY Decides, PollAnswers, OthersRefine DEF Next, Contract!ContractNext
<1> QED
  BY <1>1, <1>2, <1>3, <1>4, PTL DEF Spec, KeepsJobsContract, Contract!ContractSpec
=============================================================================
