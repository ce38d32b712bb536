------------------------------- MODULE LLMJobs -------------------------------
(***************************************************************************)
(* Generation of creatures by a language model: the in-memory job storage, *)
(* the goroutine that works on a job, and the requests that poll it        *)
(* (llm.go, llm_storage.go, llm_handlers.go of internal/pkg/bestiary).     *)
(*                                                                         *)
(* Storage.Get hands out a pointer to the stored job. The worker writes    *)
(* the job through its pointer and a poller reads it through another, both *)
(* without the storage's mutex: each read and each write of a field is a   *)
(* step of its own, and two writes with nothing between them are seen in   *)
(* either order. (A half-written status string is never equal to "done",   *)
(* so it reads as the status before it.) Update copies the job onto        *)
(* itself: it changes nothing and is part of the step before it.           *)
(*                                                                         *)
(* Of a creature only its progress matters: as generated, or with its      *)
(* actions processed, or also with the attacks the action service made of  *)
(* them. A poll carries an id that some submission returned. The gateway   *)
(* to the language model (gemini_client.go) and the one to the action      *)
(* service (actions_processor.go) keep no state: each is an operator that  *)
(* says what the caller gets of what the service replied.                  *)
(***************************************************************************)
CONSTANTS
  Jobs,      \* submissions, each of a job with an id of its own
  Polls,     \* polling requests
  None

ASSUME NoneAssumption == None \notin Jobs

VARIABLES
  stored,    \* the ids in the storage's map
  status,    \* job.Status
  result,    \* job.Result
  worker,    \* what process(id) does next; "lost" with the process it ran in
  creature,  \* the creature in process's hands: cr, and then processed
  returned,  \* the submissions that were answered with their id
  poll,      \* what each poll does next
  asked,     \* the job it asks about
  answer     \* the response it was sent

vars == <<stored, status, result, worker, creature, returned, poll, asked, answer>>

Statuses  == {"pending", "processing_step_1", "processing_step_2", "done", "error"}
Finished  == {"processed", "with attacks"}
Results   == {"nil", "generated"} \cup Finished
Responses == [code : {"OK", "wrong job id"}, status : Statuses \cup {""}, result : Results]

Final(j) == status[j] = "error" \/ (status[j] = "done" /\ result[j] # "nil")

TypeOK ==
  /\ stored \subseteq Jobs
  /\ status \in [Jobs -> Statuses]
  /\ result \in [Jobs -> Results]
  /\ worker \in [Jobs -> {"off", "start", "gemini", "decode", "actions", "finish",
                          "ended", "lost"}]
  /\ creature \in [Jobs -> Results]
  /\ returned \subseteq Jobs
  /\ poll \in [Polls -> {"idle", "get", "status", "result", "answered", "cut off"}]
  /\ asked \in [Polls -> Jobs \cup {None}]
  /\ answer \in [Polls -> Responses \cup {None}]

Init ==
  /\ stored = {} /\ returned = {}
  /\ status = [j \in Jobs |-> "pending"]
  /\ result = [j \in Jobs |-> "nil"]
  /\ worker = [j \in Jobs |-> "off"]
  /\ creature = [j \in Jobs |-> "nil"]
  /\ poll = [p \in Polls |-> "idle"]
  /\ asked = [p \in Polls |-> None]
  /\ answer = [p \in Polls |-> None]

-----------------------------------------------------------------------------
(* Submission: SubmitText and SubmitImage differ in what they store.       *)

Goto(j, l) == worker' = [worker EXCEPT ![j] = l]
Become(j, s) == status' = [status EXCEPT ![j] = s]
Elsewhere == UNCHANGED <<returned, poll, asked, answer>>

(* Create cannot fail; runner.Go then starts the worker.                   *)
Submit(j) ==
  /\ worker[j] = "off"
  /\ stored' = stored \cup {j}
  /\ Become(j, "pending") /\ Goto(j, "start")
  /\ UNCHANGED <<result, creature>> /\ Elsewhere

Return(j) ==
  /\ j \in stored \ returned
  /\ returned' = returned \cup {j}
  /\ UNCHANGED <<stored, status, result, worker, creature, poll, asked, answer>>

-----------------------------------------------------------------------------
(* The worker: process.                                                    *)

(* A status that the job's states do not list.                             *)
StartBug(j) ==
  /\ worker[j] = "start" /\ j \in stored
  /\ Become(j, "processing") /\ Goto(j, "gemini")
  /\ UNCHANGED <<stored, result, creature>> /\ Elsewhere

(* Get, and the first Update: the job is there, nothing removes one.       *)
Start(j) ==
  /\ worker[j] = "start" /\ j \in stored
  /\ Become(j, "processing_step_1") /\ Goto(j, "gemini")
  /\ UNCHANGED <<stored, result, creature>> /\ Elsewhere

(* What becomes of GenerateFromDescription or GenerateFromImage: the       *)
(* client gives up after 30 seconds, the service may refuse, and what it   *)
(* sends need not be a JSON object.                                        *)
GeminiReplies == {"no reply", "other status", "not JSON", "an object"}

(* Everything else is an error.                                            *)
parseJSONResponse == {"an object"}

(* No return after the error.                                              *)
GenerateBug(j) ==
  /\ worker[j] = "gemini"
  /\ \E r \in GeminiReplies :
       /\ Goto(j, "decode")
       /\ IF r \in parseJSONResponse THEN UNCHANGED status ELSE Become(j, "error")
  /\ UNCHANGED <<stored, result, creature>> /\ Elsewhere

Generate(j) ==
  /\ worker[j] = "gemini"
  /\ \E r \in GeminiReplies :
       IF r \in parseJSONResponse
         THEN Goto(j, "decode") /\ UNCHANGED status
         ELSE Goto(j, "ended") /\ Become(j, "error")
  /\ UNCHANGED <<stored, result, creature>> /\ Elsewhere

Hold(j, c) == creature' = [creature EXCEPT ![j] = c]

(* The worker returns without the status "error".                          *)
DecodeBug(j) ==
  /\ worker[j] = "decode"
  /\ \/ Goto(j, "actions") /\ Become(j, "processing_step_2") /\ Hold(j, "generated")
     \/ Goto(j, "ended") /\ UNCHANGED <<status, creature>>
  /\ UNCHANGED <<stored, result>> /\ Elsewhere

(* The object may not be a creature. job.Result is not written yet.        *)
Decode(j) ==
  /\ worker[j] = "decode"
  /\ \/ Goto(j, "actions") /\ Become(j, "processing_step_2") /\ Hold(j, "generated")
     \/ Goto(j, "ended") /\ Become(j, "error") /\ UNCHANGED creature
  /\ UNCHANGED <<stored, result>> /\ Elsewhere

(* What becomes of the call to the action service.                         *)
ServiceReplies == {"failed", "no parsed_actions", "not attacks", "attacks"}

(* Everything else is an error.                                            *)
ProcessActions == {"attacks"}

(* The creature is returned as it came when the service fails.             *)
ProcessBug(j) ==
  /\ worker[j] = "actions"
  /\ \E r \in ServiceReplies : Hold(j, IF r \in ProcessActions THEN "with attacks" ELSE creature[j])
  /\ Goto(j, "finish")
  /\ UNCHANGED <<stored, status, result>> /\ Elsewhere

(* ValidateAndProcessGeneratedCreature. Its error for a nil creature does  *)
(* not arise here, and a failure of the action service is passed over.     *)
Process(j) ==
  /\ worker[j] = "actions"
  /\ \E r \in ServiceReplies : Hold(j, IF r \in ProcessActions THEN "with attacks" ELSE "processed")
  /\ Goto(j, "finish")
  /\ UNCHANGED <<stored, status, result>> /\ Elsewhere

(* The worker leaves after one of the two writes.                          *)
FinishBug(j) ==
  /\ worker[j] = "finish"
  /\ \/ Become(j, "done") /\ UNCHANGED result
     \/ result' = [result EXCEPT ![j] = creature[j]] /\ UNCHANGED status
  /\ Goto(j, "ended")
  /\ UNCHANGED <<stored, creature>> /\ Elsewhere

(* The writes of job.Status and job.Result.                                *)
Finish(j) ==
  /\ worker[j] = "finish"
  /\ \/ /\ status[j] # "done" /\ Become(j, "done")
        /\ Goto(j, IF result[j] = "nil" THEN "finish" ELSE "ended")
        /\ UNCHANGED result
     \/ /\ result[j] = "nil" /\ result' = [result EXCEPT ![j] = creature[j]]
        /\ Goto(j, IF status[j] = "done" THEN "ended" ELSE "finish")
        /\ UNCHANGED status
  /\ UNCHANGED <<stored, creature>> /\ Elsewhere

Worker(j) == Start(j) \/ Generate(j) \/ Decode(j) \/ Finish(j)

-----------------------------------------------------------------------------
(* A poll: GetGenerationStatus.                                            *)

Ask(p, j) ==
  /\ poll[p] = "idle" /\ j \in returned
  /\ asked' = [asked EXCEPT ![p] = j]
  /\ poll' = [poll EXCEPT ![p] = "get"]
  /\ UNCHANGED <<stored, status, result, worker, creature, returned, answer>>

Reply(p, a) ==
  /\ poll' = [poll EXCEPT ![p] = "answered"]
  /\ answer' = [answer EXCEPT ![p] = a]
  /\ UNCHANGED <<stored, status, result, worker, creature, returned, asked>>

Step(p, l) ==
  /\ poll' = [poll EXCEPT ![p] = l]
  /\ UNCHANGED <<stored, status, result, worker, creature, returned, asked, answer>>

(* var resp: its Status is never assigned.                                 *)
Response(r) == [code |-> "OK", status |-> "", result |-> r]
WrongJobID  == [code |-> "wrong job id", status |-> "", result |-> "nil"]

(* storage.Get, under its mutex.                                           *)
GetJob(p) ==
  /\ poll[p] = "get"
  /\ IF asked[p] \in stored THEN Step(p, "status") ELSE Reply(p, WrongJobID)

(* Only the result is looked at.                                           *)
ReadStatusBug(p) ==
  /\ poll[p] = "status"
  /\ Step(p, "result")

(* job.Status == "done" && ...                                             *)
ReadStatus(p) ==
  /\ poll[p] = "status"
  /\ IF status[asked[p]] = "done" THEN Step(p, "result") ELSE Reply(p, Response("nil"))

(* job.Result: a nil one is sent as it is.                                 *)
ReadResult(p) ==
  /\ poll[p] = "result"
  /\ Reply(p, Response(result[asked[p]]))

Poll(p) == GetJob(p) \/ ReadStatus(p) \/ ReadResult(p)

-----------------------------------------------------------------------------
(* The process dies and is started again: the jobs were in its memory, and *)
(* the workers and the requests under way were its goroutines.             *)
Restart ==
  /\ stored # {}
  /\ stored' = {}
  /\ worker' = [j \in Jobs |-> IF worker[j] = "off" THEN "off" ELSE "lost"]
  /\ poll' = [p \in Polls |-> IF poll[p] \in {"get", "status", "result"}
                                THEN "cut off" ELSE poll[p]]
  /\ UNCHANGED <<status, result, creature, returned, asked, answer>>

Next ==
  \/ \E j \in Jobs : Submit(j) \/ Return(j) \/ Worker(j) \/ Process(j)
  \/ \E p \in Polls : Poll(p) \/ \E j \in Jobs : Ask(p, j)
  \/ Restart

(* The Go runtime schedules every goroutine and the Gemini client times    *)
(* out, so each step but Process is eventually taken: the call to the      *)
(* action service has context.Background() and no deadline.                *)
Fairness ==
  /\ \A j \in Jobs : WF_vars(Worker(j))
  /\ \A p \in Polls : WF_vars(Poll(p))

Spec == Init /\ [][Next]_vars /\ Fairness

-----------------------------------------------------------------------------
(* The contract: a job is decided when the second of Status and Result is  *)
(* written, whichever that is.                                             *)
Outcome(j) ==
  IF worker[j] = "off" THEN "none"
  ELSE IF worker[j] = "lost" THEN "lost"
  ELSE IF status[j] = "error" THEN "failed"
  ELSE IF status[j] = "done" /\ result[j] # "nil" THEN result[j]
  ELSE "open"

Meaning(a) ==
  IF a.code # "OK" THEN "wrong job id"
  ELSE IF a.result = "nil" THEN "not ready"
  ELSE a.result

Waiting == {p \in Polls : poll[p] \in {"get", "status", "result"}}

Contract ==
  INSTANCE JobsContract
    WITH Creatures <- Finished,
         outcome <- [j \in Jobs |-> Outcome(j)],
         known <- returned,
         waiting <- Waiting,
         told <- [p \in Polls |-> IF poll[p] = "answered" THEN Meaning(answer[p]) ELSE None]

-----------------------------------------------------------------------------
(* Properties.                                                             *)

(* KeepsJobsContract: the code implements JobsContract: although a poll reads  *)
(* Status and Result one after the other, and process writes them so, and  *)
(* neither takes the mutex, every answer is one that a single look at the  *)
(* job could have given. (llm.go: process, GetGenerationStatus)            *)
KeepsJobsContract == Contract!ContractSpec

(* What a poll was told stays true. A creature it was sent is a finished   *)
(* one, of a job that is done and stays done with that creature, and an id *)
(* that a submission returned is wrong only after a restart: neither the   *)
(* unlocked reads of GetGenerationStatus nor the order in which process    *)
(* writes Status and Result can show a creature in the making, or one that *)
(* is later withdrawn.                                                     *)
AnswersStand ==
  \A p \in Polls : poll[p] = "answered" =>
    LET j == asked[p] IN
    /\ answer[p].code # "OK" => worker[j] = "lost"
    /\ answer[p].result # "nil" =>
         /\ answer[p].result \in Finished /\ result[j] = answer[p].result
         /\ status[j] = "done"

(* A failed job stays failed, and whatever was published is not taken      *)
(* back: process never writes a job after its "error", its result after    *)
(* the first, or another status after "done".                              *)
OutcomeFixed ==
  [][\A j \in Jobs :
       /\ status[j] \in {"done", "error"} => status'[j] = status[j]
       /\ result[j] # "nil" => result'[j] = result[j]
       /\ status[j] = "error" => result'[j] = "nil"]_vars

(* A submitted job comes to an end, with a creature or an error, unless it *)
(* is lost in a restart or waits for the action service: no early return   *)
(* of process leaves a job "processing" for ever.                          *)
JobsEnd == \A j \in Jobs :
  worker[j] = "start" ~> (Final(j) \/ worker[j] \in {"actions", "lost"})

(* The action service answering is all that a job of the second step       *)
(* still needs: process then publishes the creature, whatever the service  *)
(* said.                                                                   *)
ProcessedJobsPublished == \A j \in Jobs :
  worker[j] = "finish" ~> (worker[j] = "lost" \/ (status[j] = "done" /\ result[j] \in Finished))

(* The comment of GetGenerationStatus: before the job is ready the answer  *)
(* is its status, and when it is done the status "done" and the result.    *)
StatusAnswered ==
  \A p \in Polls : poll[p] = "answered" /\ answer[p].code = "OK" =>
    answer[p].status \in Statuses
=============================================================================
