------------------------------ MODULE LaserJob ------------------------------
(***************************************************************************)
(* What D1Ultra.engrave() promises to its callers: jobs have the laser one *)
(* at a time, in the order in which they got it; a job runs at most once,  *)
(* no later job runs before it, and a job reported as failed never runs.   *)
(***************************************************************************)
EXTENDS Naturals, Sequences

CONSTANT Jobs
VARIABLES turns,    \* the jobs that have had the laser, in order
          verdict,  \* "submitted", "failed", "raised" an error, or "none" yet
          ran       \* the jobs the laser has executed, in order

Init == turns = <<>> /\ ran = <<>> /\ verdict = [j \in Jobs |-> "none"]

Before(i, j) == \E m, n \in 1..Len(turns) :
                  m < n /\ turns[m] = i /\ turns[n] = j
Had(j) == \E n \in 1..Len(turns) : turns[n] = j
Ran(j) == \E n \in 1..Len(ran) : ran[n] = j

Begin(j) ==
  /\ ~Had(j) /\ verdict[j] = "none"
  /\ \A n \in 1..Len(turns) : verdict[turns[n]] # "none"
  /\ turns' = Append(turns, j) /\ UNCHANGED <<verdict, ran>>

Run(j) ==
  /\ Had(j) /\ ~Ran(j) /\ verdict[j] # "failed"
  /\ \A n \in 1..Len(ran) : Before(ran[n], j)
  /\ ran' = Append(ran, j) /\ UNCHANGED <<turns, verdict>>

Succeed(j) ==
  /\ Had(j) /\ verdict[j] = "none"
  /\ verdict' = [verdict EXCEPT ![j] = "submitted"]
  /\ UNCHANGED <<turns, ran>>

Fail(j) ==
  /\ Had(j) /\ ~Ran(j) /\ verdict[j] = "none"
  /\ verdict' = [verdict EXCEPT ![j] = "failed"]
  /\ UNCHANGED <<turns, ran>>

Raise(j) ==
  /\ Had(j) /\ verdict[j] = "none"
  /\ verdict' = [verdict EXCEPT ![j] = "raised"]
  /\ UNCHANGED <<turns, ran>>

Next == \E j \in Jobs : \/ Begin(j) \/ Run(j)
                        \/ Succeed(j) \/ Fail(j) \/ Raise(j)

Spec == Init /\ [][Next]_<<turns, verdict, ran>>
=============================================================================
