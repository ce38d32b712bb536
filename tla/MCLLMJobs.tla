------------------------------ MODULE MCLLMJobs ------------------------------
(***************************************************************************)
(* Small instances of LLMJobs for TLC: model values for the jobs and the   *)
(* polls, which the configurations give.                                   *)
(***************************************************************************)
EXTENDS LLMJobs, TLC

(* Jobs and polls are each alike: for safety alone they may be permuted.   *)
Alike == Permutations(Jobs) \cup Permutations(Polls)
=============================================================================
