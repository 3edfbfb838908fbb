-------------------------- MODULE EngraveJobProofs --------------------------
(* Theorems about EngraveJob, for any jobs, paths and connections.         *)
EXTENDS EngraveJob, TLAPS, SequenceTheorems

Control(j) == 6 + 2 * NPaths[j]      \* the place of JOB_CONTROL

Commands == {"DEVICE_INFO", "PRE_JOB", "QUERY_14", "JOB_UPLOAD", "WORKSPACE",
             "SETTINGS", "PATH_DATA", "JOB_CONTROL", "JOB_FINISH"}

(* What is where in the script.                                            *)
LEMMA ScriptPlaces ==
  ASSUME NEW j \in Jobs
  PROVE  /\ NPaths[j] \in Nat /\ Control(j) \in Nat
         /\ Len(Script(j)) = Control(j) + 1
         /\ Script(j) \in Seq(Commands)
         /\ \A k \in 1..Control(j) + 1 :
              /\ Script(j)[k] = "JOB_UPLOAD" <=> k = 4
              /\ Script(j)[k] = "JOB_CONTROL" <=> k = Control(j)
              /\ Script(j)[k] = "PATH_DATA" <=>
                   5 < k /\ k < Control(j) /\ k % 2 = 1
<1> DEFINE n == NPaths[j]
           B == Pairs(n)
           C == <<"JOB_CONTROL", "JOB_FINISH">>
           AB == Opening \o B
<1>1. n \in Nat
  BY JobAssumption
<1>2. /\ Opening \in Seq(Commands) /\ Len(Opening) = 5
      /\ Opening[1] = "DEVICE_INFO" /\ Opening[2] = "PRE_JOB"
      /\ Opening[3] = "QUERY_14" /\ Opening[4] = "JOB_UPLOAD"
      /\ Opening[5] = "WORKSPACE"
  <2>1. Opening \in Seq(Commands)
    BY DEF Opening, Commands
  <2>2. Len(Opening) = 5
    BY DEF Opening
  <2>3. QED BY <2>1, <2>2 DEF Opening
<1>3. B \in Seq(Commands) /\ Len(B) = 2 * n
  <2>1. B \in [1..2 * n -> Commands]
    BY DEF Pairs, Commands
  <2>2. 2 * n \in Nat
    BY <1>1
  <2> HIDE DEF B, n
  <2>3. QED BY <2>1, <2>2, LenProperties, SeqDef
<1>4. /\ C \in Seq(Commands) /\ Len(C) = 2
      /\ C[1] = "JOB_CONTROL" /\ C[2] = "JOB_FINISH"
  <2>1. C \in Seq(Commands)
    BY DEF Commands
  <2>2. QED BY <2>1
<1>5. \A k \in 1..2 * n :
        B[k] = IF k % 2 = 1 THEN "SETTINGS" ELSE "PATH_DATA"
  BY <1>1 DEF Pairs
<1>6. Script(j) = AB \o C
  BY DEF Script, PathsSent
<1> HIDE DEF n, B, C
<1>7. /\ AB \in Seq(Commands) /\ Len(AB) = 5 + 2 * n
      /\ \A k \in 1..5 : AB[k] = Opening[k]
      /\ \A k \in 6..5 + 2 * n : AB[k] = B[k - 5]
  <2>1. /\ AB \in Seq(Commands) /\ Len(AB) = Len(Opening) + Len(B)
        /\ \A k \in 1..Len(Opening) + Len(B) :
              AB[k] = IF k <= Len(Opening) THEN Opening[k]
                      ELSE B[k - Len(Opening)]
    BY <1>2, <1>3, ConcatProperties
  <2>2. QED BY <1>1, <1>2, <1>3, <2>1
<1> HIDE DEF AB
<1>8. /\ Script(j) \in Seq(Commands) /\ Len(Script(j)) = 7 + 2 * n
      /\ \A k \in 1..5 + 2 * n : Script(j)[k] = AB[k]
      /\ Script(j)[6 + 2 * n] = C[1] /\ Script(j)[7 + 2 * n] = C[2]
  <2>1. /\ Script(j) \in Seq(Commands)
        /\ Len(Script(j)) = Len(AB) + Len(C)
        /\ \A k \in 1..Len(AB) + Len(C) :
              Script(j)[k] = IF k <= Len(AB) THEN AB[k] ELSE C[k - Len(AB)]
    <3>1. AB \in Seq(Commands) /\ C \in Seq(Commands)
      BY <1>4, <1>7
    <3>2. QED BY <1>6, <3>1, ConcatProperties
  <2>2. QED BY <1>1, <1>4, <1>7, <2>1
<1>9. Control(j) = 6 + 2 * n
  BY DEF Control, n
<1>10. ASSUME NEW k \in 1..Control(j) + 1
       PROVE  /\ Script(j)[k] = "JOB_UPLOAD" <=> k = 4
              /\ Script(j)[k] = "JOB_CONTROL" <=> k = Control(j)
              /\ Script(j)[k] = "PATH_DATA" <=>
                   5 < k /\ k < Control(j) /\ k % 2 = 1
  <2>1. CASE k \in 1..5
    <3>1. Script(j)[k] = Opening[k]
      BY <1>1, <1>7, <1>8, <2>1
    <3>2. QED BY <1>1, <1>9, <2>1, <3>1 DEF Opening
  <2>2. CASE k \in 6..5 + 2 * n
    <3>1. Script(j)[k] = B[k - 5] /\ k - 5 \in 1..2 * n
      BY <1>1, <1>7, <1>8, <2>2
    <3>2. B[k - 5] = IF (k - 5) % 2 = 1 THEN "SETTINGS" ELSE "PATH_DATA"
      BY <1>5, <3>1
    <3>3. (k - 5) % 2 = 1 <=> ~(k % 2 = 1)
      BY <1>1, <2>2
    <3>4. QED BY <1>1, <1>9, <2>2, <3>1, <3>2, <3>3
  <2>3. CASE k = 6 + 2 * n \/ k = 7 + 2 * n
    BY <1>1, <1>4, <1>8, <1>9, <2>3
  <2>4. QED BY <1>1, <1>9, <2>1, <2>2, <2>3
<1>11. QED BY <1>1, <1>8, <1>9, <1>10 DEF n
-----------------------------------------------------------------------------
LEMMA TypeInit == Init => TypeOK
<1> SUFFICES ASSUME Init PROVE TypeOK
  OBVIOUS
<1>1. \A j \in Jobs : step[j] \in 1..Len(Script(j))
  <2>1. ASSUME NEW j \in Jobs PROVE step[j] \in 1..Len(Script(j))
    <3>1. Len(Script(j)) = Control(j) + 1 /\ Control(j) \in Nat
      BY ScriptPlaces
    <3>2. step[j] = 1
      BY DEF Init
    <3>3. QED BY <3>1, <3>2
  <2>2. QED BY <2>1
<1>2. /\ wire \in Seq(Requests) /\ turns \in Seq(Jobs)
      /\ ran \in Seq(Jobs \X Seq(Nat)) /\ store \in [Jobs -> Seq(Nat)]
  BY EmptySeq DEF Init
<1>3. conn \in 0..MaxConn /\ sentOn \in [Jobs -> 0..MaxConn]
  BY JobAssumption DEF Init
<1>4. QED BY <1>1, <1>2, <1>3 DEF Init, TypeOK, Verdicts

(* One operator for what every step of a job may do to itself.             *)
LEMMA ReturnTypes ==
  ASSUME TypeOK, NEW j \in Jobs, NEW v \in {"submitted", "failed", "raised"},
         Return(j, v)
  PROVE  /\ pc' \in [Jobs -> {"idle", "locked", "sending", "awaiting",
                              "returned"}]
         /\ verdict' \in [Jobs -> Verdicts]
         /\ lock' \in Jobs \cup {None} /\ paused' \in BOOLEAN
BY DEF Return, TypeOK, Verdicts

LEMMA ProceedTypes ==
  ASSUME TypeOK, NEW j \in Jobs, Proceed(j)
  PROVE  /\ pc' \in [Jobs -> {"idle", "locked", "sending", "awaiting",
                              "returned"}]
         /\ step' \in [Jobs -> Nat]
         /\ \A i \in Jobs : step'[i] \in 1..Len(Script(i))
         /\ verdict' \in [Jobs -> Verdicts]
         /\ lock' \in Jobs \cup {None} /\ paused' \in BOOLEAN
<1>1. CASE AtEnd(j)
  <2>1. Return(j, "submitted") /\ UNCHANGED step
    BY <1>1 DEF Proceed
  <2>2. QED BY <2>1, ReturnTypes DEF TypeOK
<1>2. CASE ~AtEnd(j)
  <2>1. /\ step' = [step EXCEPT ![j] = @ + 1]
        /\ pc' = [pc EXCEPT ![j] = "sending"]
        /\ UNCHANGED <<verdict, lock, paused>>
    BY <1>2 DEF Proceed
  <2>2. step[j] + 1 \in 1..Len(Script(j))
    <3>1. Len(Script(j)) = Control(j) + 1 /\ Control(j) \in Nat
      BY ScriptPlaces
    <3>2. step[j] \in 1..Len(Script(j)) /\ step[j] # Len(Script(j))
      BY <1>2 DEF AtEnd, TypeOK
    <3>3. QED BY <3>1, <3>2
  <2>3. step' \in [Jobs -> Nat]
        /\ \A i \in Jobs : step'[i] \in 1..Len(Script(i))
    BY <2>1, <2>2 DEF TypeOK
  <2>4. QED BY <2>1, <2>3 DEF TypeOK
<1>3. QED BY <1>1, <1>2

(* What is left of the wire is what was first on it.                       *)
Cut == /\ Len(wire) \in Nat /\ Len(wire') \in Nat
       /\ \A n \in 1..Len(wire') : n \in 1..Len(wire) /\ wire'[n] = wire[n]

LEMMA WireCut ==
  ASSUME TypeOK, NewConnection \/ UNCHANGED wire
  PROVE  wire' \in Seq(Requests) /\ Cut
<1>1. wire \in Seq(Requests) /\ Len(wire) \in Nat
  BY LenProperties DEF TypeOK
<1>2. CASE NewConnection
  <2>1. PICK k \in 0..Len(wire) : wire' = SubSeq(wire, 1, k)
    BY <1>2 DEF NewConnection
  <2>2. \A n \in 1..k : n \in 1..Len(wire)
    BY <1>1
  <2>3. /\ SubSeq(wire, 1, k) \in Seq(Requests)
        /\ Len(SubSeq(wire, 1, k)) = k
        /\ \A n \in 1..k : SubSeq(wire, 1, k)[n] = wire[n]
    <3>1. \A n \in 1..k : wire[n] \in Requests
      BY <1>1, <2>2, ElementOfSeq
    <3>2. /\ SubSeq(wire, 1, k) \in Seq(Requests)
          /\ Len(SubSeq(wire, 1, k)) = IF 1 <= k THEN k - 1 + 1 ELSE 0
          /\ \A n \in 1..k - 1 + 1 : SubSeq(wire, 1, k)[n] = wire[1 + n - 1]
      BY <3>1, SubSeqProperties
    <3>3. QED BY <3>2
  <2>4. QED BY <1>1, <2>1, <2>2, <2>3 DEF Cut
<1>3. QED BY <1>1, <1>2 DEF Cut

LEMMA NewConnectionTypes ==
  ASSUME TypeOK, NewConnection
  PROVE  /\ conn' \in 0..MaxConn /\ connected' \in BOOLEAN
         /\ wire' \in Seq(Requests) /\ current' \in Jobs \cup {None}
<1>1. wire' \in Seq(Requests)
  BY WireCut
<1>2. conn' \in 0..MaxConn
  BY JobAssumption DEF NewConnection, TypeOK
<1>3. QED BY <1>1, <1>2 DEF NewConnection, TypeOK

LEMMA HeadIsRequest ==
  ASSUME TypeOK, wire # <<>>
  PROVE  /\ Head(wire) = wire[1] /\ 1 \in 1..Len(wire)
         /\ Head(wire).job \in Jobs /\ Head(wire).at \in Nat
         /\ Head(wire).at \in 1..Control(Head(wire).job) + 1
         /\ Tail(wire) \in Seq(Requests)
         /\ Len(Tail(wire)) = Len(wire) - 1
         /\ \A n \in 1..Len(Tail(wire)) :
              Tail(wire)[n] = wire[n + 1] /\ n + 1 \in 1..Len(wire)
<1>1. wire \in Seq(Requests)
  BY DEF TypeOK
<1>2. Head(wire) \in Requests
  BY <1>1, HeadTailProperties
<1>3. Head(wire).job \in Jobs /\ Head(wire).at \in Nat
      /\ Head(wire).at \in 1..Len(Script(Head(wire).job))
  BY <1>2 DEF Requests
<1>4. Head(wire).at \in 1..Control(Head(wire).job) + 1
  BY <1>3, ScriptPlaces
<1>5. /\ Tail(wire) \in Seq(Requests) /\ Len(Tail(wire)) = Len(wire) - 1
      /\ \A n \in 1..Len(Tail(wire)) : Tail(wire)[n] = wire[n + 1]
  BY <1>1, HeadTailProperties
<1>6. Len(wire) \in Nat \ {0}
  BY <1>1, EmptySeq
<1>7. Head(wire) = wire[1]
  BY <1>1, <1>6
<1>8. QED BY <1>3, <1>4, <1>5, <1>6, <1>7

LEMMA LaserTypes == TypeOK /\ LaserHandles => TypeOK'
<1> SUFFICES ASSUME TypeOK, LaserHandles PROVE TypeOK'
  OBVIOUS
<1> DEFINE j == Head(wire).job
           k == Head(wire).at
           r == Script(j)[k]
<1>1. wire # <<>> /\ wire' = Tail(wire)
  BY DEF LaserHandles
<1>2. j \in Jobs /\ k \in Nat /\ wire' \in Seq(Requests)
  BY <1>1, HeadIsRequest
<1>3. /\ current' = IF r = "JOB_UPLOAD" THEN j ELSE current
      /\ store' = IF r = "JOB_UPLOAD"
                  THEN [store EXCEPT ![j] = <<>>]
                  ELSE IF r = "PATH_DATA" /\ current # None
                  THEN [store EXCEPT ![current] = Append(@, PathNumber(k))]
                  ELSE store
      /\ ran' = IF r = "JOB_CONTROL" /\ current # None
                THEN Append(ran, <<current, store[current]>>) ELSE ran
      /\ answered' = IF pc[j] = "awaiting" /\ step[j] = k
                     THEN [answered EXCEPT ![j] = TRUE] ELSE answered
      /\ UNCHANGED <<pc, step, sentOn, verdict, lock, paused, linkVars,
                     monitored, turns, moved>>
  BY DEF LaserHandles
<1>4. k > 5 => PathNumber(k) \in Nat
  BY <1>2 DEF PathNumber
<1>5. r = "PATH_DATA" => k > 5
  BY <1>1, HeadIsRequest, ScriptPlaces
<1> HIDE DEF j, k, r
<1>6. store' \in [Jobs -> Seq(Nat)]
  <2>1. CASE r = "JOB_UPLOAD"
    BY <1>2, <1>3, <2>1, EmptySeq DEF TypeOK
  <2>2. CASE r # "JOB_UPLOAD" /\ r = "PATH_DATA" /\ current # None
    <3>1. current \in Jobs /\ store[current] \in Seq(Nat)
      BY <2>2 DEF TypeOK
    <3>2. Append(store[current], PathNumber(k)) \in Seq(Nat)
      BY <1>4, <1>5, <2>2, <3>1, AppendProperties
    <3>3. QED BY <1>3, <2>2, <3>1, <3>2 DEF TypeOK
  <2>3. QED BY <1>3, <2>1, <2>2 DEF TypeOK
<1>7. ran' \in Seq(Jobs \X Seq(Nat))
  <2>1. CASE r = "JOB_CONTROL" /\ current # None
    <3>1. <<current, store[current]>> \in Jobs \X Seq(Nat)
      BY <2>1 DEF TypeOK
    <3>2. QED BY <1>3, <2>1, <3>1, AppendProperties DEF TypeOK
  <2>2. QED BY <1>3, <2>1 DEF TypeOK
<1>8. current' \in Jobs \cup {None} /\ answered' \in [Jobs -> BOOLEAN]
  BY <1>2, <1>3 DEF TypeOK
<1>9. QED BY <1>2, <1>3, <1>6, <1>7, <1>8 DEF TypeOK, linkVars

LEMMA JobTypes ==
  ASSUME TypeOK, NEW j \in Jobs, JobStep(j) PROVE TypeOK'
<1>1. CASE AcquireLock(j)
  <2>1. turns' \in Seq(Jobs)
    BY <1>1, AppendProperties DEF AcquireLock, TypeOK
  <2>2. QED BY <1>1, <2>1 DEF AcquireLock, TypeOK, linkVars, laserVars
<1>2. CASE Begin(j)
  <2>1. /\ conn' \in 0..MaxConn /\ connected' \in BOOLEAN
        /\ wire' \in Seq(Requests) /\ current' \in Jobs \cup {None}
    BY <1>2, NewConnectionTypes DEF Begin, TypeOK, linkVars
  <2>2. /\ pc' \in [Jobs -> {"idle", "locked", "sending", "awaiting",
                              "returned"}]
        /\ verdict' \in [Jobs -> Verdicts]
        /\ lock' \in Jobs \cup {None} /\ paused' \in BOOLEAN
    BY <1>2, ReturnTypes DEF Begin, TypeOK
  <2>3. UNCHANGED <<step, sentOn, answered, store, ran, monitored, turns,
                    moved>>
    BY <1>2 DEF Begin
  <2>4. QED BY <2>1, <2>2, <2>3 DEF TypeOK
<1>3. CASE NotReachable(j)
  BY <1>3, ReturnTypes DEF NotReachable, TypeOK, linkVars, laserVars
<1>4. CASE Send(j)
  <2>1. [job |-> j, at |-> step[j]] \in Requests
    BY DEF Requests, TypeOK
  <2>2. wire' \in Seq(Requests)
    BY <1>4, <2>1, AppendProperties DEF Send, TypeOK
  <2>3. QED BY <1>4, <2>2 DEF Send, TypeOK, linkVars, laserVars
<1>5. CASE Answered(j)
  BY <1>5, ProceedTypes DEF Answered, TypeOK, linkVars, laserVars
<1>6. CASE Unanswered(j)
  BY <1>6, ProceedTypes, ReturnTypes
  DEF Unanswered, TypeOK, linkVars, laserVars
<1>7. CASE Raise(j)
  BY <1>7, ReturnTypes DEF Raise, TypeOK, linkVars, laserVars
<1>8. QED BY <1>1, <1>2, <1>3, <1>4, <1>5, <1>6, <1>7 DEF JobStep

LEMMA TypeKept == TypeOK /\ [Next]_vars => TypeOK'
<1> SUFFICES ASSUME TypeOK, [Next]_vars PROVE TypeOK'
  OBVIOUS
<1>1. CASE \E j \in Jobs : JobStep(j)
  BY <1>1, JobTypes
<1>2. CASE LinkLost
  BY <1>2 DEF LinkLost, TypeOK, laserVars
<1>3. CASE OtherConnect
  BY <1>3, NewConnectionTypes DEF OtherConnect, TypeOK
<1>4. CASE LaserHandles
  BY <1>4, LaserTypes
<1>5. CASE UNCHANGED vars
  BY <1>5 DEF vars, TypeOK, linkVars, laserVars
<1>6. QED BY <1>1, <1>2, <1>3, <1>4, <1>5 DEF Next
-----------------------------------------------------------------------------
(* A job that is at work holds the lock, and none other is at work.        *)
Holding ==
  /\ \A j \in Jobs : Active(j) <=> lock = j
  /\ PausedByAJob
  /\ \A j \in Jobs : verdict[j] = "none" <=> pc[j] # "returned"

LEMMA HoldingInit == Init => Holding
<1> SUFFICES ASSUME Init PROVE Holding
  OBVIOUS
<1>1. \A j \in Jobs : Active(j) <=> lock = j
  BY JobAssumption DEF Init, Active
<1>2. PausedByAJob
  BY DEF Init, PausedByAJob
<1>3. QED BY <1>1, <1>2 DEF Init, Holding

(* Leaving: whoever returns held the lock.                                 *)
LEMMA ReturnHolding ==
  ASSUME TypeOK, Holding, NEW j \in Jobs, Active(j),
         NEW v \in {"submitted", "failed", "raised"}, Return(j, v)
  PROVE  Holding'
<1>1. /\ verdict' = [verdict EXCEPT ![j] = v]
      /\ pc' = [pc EXCEPT ![j] = "returned"]
      /\ lock' = None /\ paused' = FALSE
  BY DEF Return
<1>2. lock = j
  BY DEF Holding
<1>3. \A i \in Jobs : Active(i)' <=> lock' = i
  BY <1>1, <1>2, JobAssumption DEF TypeOK, Holding, Active
<1>4. PausedByAJob'
  BY <1>1 DEF PausedByAJob
<1>5. \A i \in Jobs : verdict'[i] = "none" <=> pc'[i] # "returned"
  BY <1>1 DEF TypeOK, Holding
<1>6. QED BY <1>3, <1>4, <1>5 DEF Holding

(* Staying: the job goes on to another of its requests.                    *)
LEMMA StayHolding ==
  ASSUME TypeOK, Holding, NEW j \in Jobs, Active(j),
         NEW p \in {"sending", "awaiting"}, pc' = [pc EXCEPT ![j] = p],
         paused' = TRUE, UNCHANGED <<lock, verdict>>
  PROVE  Holding'
<1>1. lock = j /\ lock # None
  BY JobAssumption DEF Holding
<1>2. \A i \in Jobs : Active(i)' <=> lock' = i
  BY <1>1 DEF TypeOK, Holding, Active
<1>3. PausedByAJob'
  BY <1>1 DEF PausedByAJob, TypeOK
<1>4. \A i \in Jobs : verdict'[i] = "none" <=> pc'[i] # "returned"
  BY DEF TypeOK, Holding, Active
<1>5. QED BY <1>2, <1>3, <1>4 DEF Holding

LEMMA ProceedHolding ==
  ASSUME TypeOK, Holding, NEW j \in Jobs, pc[j] \in {"sending", "awaiting"},
         Proceed(j)
  PROVE  Holding'
<1>1. Active(j) /\ lock = j /\ lock # None
  BY JobAssumption DEF Holding, Active
<1>2. paused = TRUE
  BY <1>1 DEF Holding, PausedByAJob, TypeOK
<1>3. CASE AtEnd(j)
  BY <1>1, <1>3, ReturnHolding DEF Proceed
<1>4. CASE ~AtEnd(j)
  BY <1>1, <1>2, <1>4, StayHolding DEF Proceed
<1>5. QED BY <1>3, <1>4

LEMMA JobHolding ==
  ASSUME TypeOK, Holding, NEW j \in Jobs, JobStep(j) PROVE Holding'
<1>1. CASE AcquireLock(j)
  <2>1. /\ pc[j] = "idle" /\ lock = None /\ lock' = j
        /\ pc' = [pc EXCEPT ![j] = "locked"]
        /\ UNCHANGED <<verdict, paused>>
    BY <1>1 DEF AcquireLock, LockFree
  <2>2. \A i \in Jobs : Active(i)' <=> lock' = i
    BY <2>1, JobAssumption DEF TypeOK, Holding, Active
  <2>3. PausedByAJob'
    <3>1. paused = FALSE
      BY <2>1 DEF Holding, PausedByAJob
    <3>2. QED BY <2>1, <3>1 DEF PausedByAJob, TypeOK
  <2>4. \A i \in Jobs : verdict'[i] = "none" <=> pc'[i] # "returned"
    BY <2>1 DEF TypeOK, Holding
  <2>5. QED BY <2>2, <2>3, <2>4 DEF Holding
<1>2. CASE Begin(j)
  <2>1. Active(j)
    BY <1>2 DEF Begin, Active
  <2>2. CASE NPaths[j] = 0
    BY <1>2, <2>1, <2>2, ReturnHolding DEF Begin
  <2>3. CASE NPaths[j] # 0
    BY <1>2, <2>1, <2>3, StayHolding DEF Begin
  <2>4. QED BY <2>2, <2>3
<1>3. CASE NotReachable(j)
  BY <1>3, ReturnHolding DEF NotReachable, Active
<1>4. CASE Send(j)
  <2>1. Active(j) /\ lock = j /\ lock # None
    BY <1>4, JobAssumption DEF Send, Holding, Active
  <2>2. paused = TRUE
    BY <1>4, <2>1 DEF Send, Holding, PausedByAJob, TypeOK
  <2>3. QED BY <1>4, <2>1, <2>2, StayHolding DEF Send
<1>5. CASE Answered(j)
  BY <1>5, ProceedHolding DEF Answered
<1>6. CASE Unanswered(j)
  <2>1. pc[j] \in {"sending", "awaiting"}
    BY <1>6 DEF Unanswered
  <2>2. Proceed(j) \/ Return(j, "failed")
    BY <1>6 DEF Unanswered
  <2>3. QED BY <2>1, <2>2, ProceedHolding, ReturnHolding DEF Active
<1>7. CASE Raise(j)
  BY <1>7, ReturnHolding DEF Raise, Active
<1>8. QED BY <1>1, <1>2, <1>3, <1>4, <1>5, <1>6, <1>7 DEF JobStep

LEMMA HoldingKept == TypeOK /\ Holding /\ [Next]_vars => Holding'
<1> SUFFICES ASSUME TypeOK, Holding, [Next]_vars PROVE Holding'
  OBVIOUS
<1>1. CASE \E j \in Jobs : JobStep(j)
  BY <1>1, JobHolding
<1>2. CASE LinkLost \/ OtherConnect \/ LaserHandles \/ UNCHANGED vars
  <2>1. UNCHANGED <<pc, lock, paused, verdict>>
    BY <1>2 DEF LinkLost, OtherConnect, LaserHandles, vars
  <2>2. QED BY <2>1 DEF Holding, PausedByAJob, Active
<1>3. QED BY <1>1, <1>2 DEF Next

-----------------------------------------------------------------------------
Had(j) == \E n \in 1..Len(turns) : turns[n] = j

(* Every job has its turn once, and the lock is the last one's.            *)
InTurn ==
  /\ \A j \in Jobs : pc[j] = "idle" <=> ~Had(j)
  /\ \A m, n \in 1..Len(turns) : turns[m] = turns[n] => m = n
  /\ lock # None => /\ Len(turns) \in 1..Len(turns)
                    /\ turns[Len(turns)] = lock

LEMMA TurnInit == Init => InTurn
<1> SUFFICES ASSUME Init PROVE InTurn
  OBVIOUS
<1>1. Len(turns) = 0
  BY DEF Init
<1>2. QED BY <1>1 DEF Init, InTurn, Had

(* Only AcquireLock takes a job out of "idle".                             *)
LEMMA NotIdle ==
  ASSUME TypeOK, Holding, NEW j \in Jobs, JobStep(j), ~AcquireLock(j)
  PROVE  /\ \A i \in Jobs : pc[i] = "idle" <=> pc'[i] = "idle"
         /\ turns' = turns /\ lock' \in {lock, None}
<1>1. CASE Begin(j)
  BY <1>1 DEF Begin, Return, TypeOK
<1>2. CASE NotReachable(j)
  BY <1>2 DEF NotReachable, Return, TypeOK
<1>3. CASE Send(j)
  BY <1>3 DEF Send, TypeOK
<1>4. CASE Answered(j) \/ Unanswered(j)
  <2>1. /\ pc[j] \in {"sending", "awaiting"} /\ turns' = turns
        /\ Proceed(j) \/ Return(j, "failed")
    BY <1>4 DEF Answered, Unanswered
  <2>2. /\ \/ pc' = [pc EXCEPT ![j] = "sending"]
           \/ pc' = [pc EXCEPT ![j] = "returned"]
        /\ lock' \in {lock, None}
    BY <2>1 DEF Proceed, Return
  <2>3. QED BY <2>1, <2>2 DEF TypeOK
<1>5. CASE Raise(j)
  BY <1>5 DEF Raise, Return, TypeOK
<1>6. QED BY <1>1, <1>2, <1>3, <1>4, <1>5 DEF JobStep

LEMMA TurnKept == TypeOK /\ Holding /\ InTurn /\ [Next]_vars => InTurn'
<1> SUFFICES ASSUME TypeOK, Holding, InTurn, [Next]_vars PROVE InTurn'
  OBVIOUS
<1>1. ASSUME NEW j \in Jobs, AcquireLock(j) PROVE InTurn'
  <2>1. /\ pc[j] = "idle" /\ lock' = j /\ turns' = Append(turns, j)
        /\ pc' = [pc EXCEPT ![j] = "locked"]
    BY <1>1 DEF AcquireLock
  <2>2. /\ Len(turns) \in Nat /\ Len(turns') = Len(turns) + 1
        /\ \A n \in 1..Len(turns) : turns'[n] = turns[n]
        /\ turns'[Len(turns) + 1] = j
    BY <2>1, AppendProperties DEF TypeOK
  <2>3. \A n \in 1..Len(turns) : turns[n] # j
    BY <2>1 DEF InTurn, Had
  <2>4. \A m, n \in 1..Len(turns') : turns'[m] = turns'[n] => m = n
    BY <2>2, <2>3 DEF InTurn
  <2>5. \A i \in Jobs : Had(i)' <=> Had(i) \/ i = j
    BY <2>2 DEF Had
  <2>6. \A i \in Jobs : pc'[i] = "idle" <=> ~Had(i)'
    BY <2>1, <2>5 DEF InTurn, TypeOK
  <2>7. QED BY <2>1, <2>2, <2>4, <2>6 DEF InTurn
<1>2. ASSUME NEW j \in Jobs, JobStep(j), ~AcquireLock(j) PROVE InTurn'
  <2>1. /\ \A i \in Jobs : pc[i] = "idle" <=> pc'[i] = "idle"
        /\ turns' = turns /\ lock' \in {lock, None}
    BY <1>2, NotIdle
  <2>2. QED BY <2>1 DEF InTurn, Had
<1>3. CASE LinkLost \/ OtherConnect \/ LaserHandles \/ UNCHANGED vars
  <2>1. UNCHANGED <<pc, lock, turns>>
    BY <1>3 DEF LinkLost, OtherConnect, LaserHandles, vars
  <2>2. QED BY <2>1 DEF InTurn, Had
<1>4. QED BY <1>1, <1>2, <1>3 DEF Next
-----------------------------------------------------------------------------
(* Where the requests of a job may be: none before it starts, none beyond  *)
(* the one it is at, and that one last, while the job waits for it.        *)
SentNow(j) == pc[j] = "awaiting" /\ j \notin moved => sentOn[j] = conn

Unstarted(j) ==
  pc[j] \in {"idle", "locked"} =>
    step[j] = 1 /\ \A n \in 1..Len(wire) : wire[n].job # j

Waits(j) == pc[j] = "awaiting" /\ answered[j] = FALSE

InOrder(j) ==
  pc[j] \in {"sending", "awaiting"} =>
    \A n \in 1..Len(wire) :
      wire[n].job = j =>
        /\ wire[n].at <= step[j]
        /\ wire[n].at = step[j] => Waits(j) /\ n = Len(wire)

OnWire == \A j \in Jobs : SentNow(j) /\ Unstarted(j) /\ InOrder(j)

LEMMA WireInit == Init => OnWire
<1> SUFFICES ASSUME Init PROVE OnWire
  OBVIOUS
<1>1. Len(wire) = 0
  BY DEF Init
<1>2. \A j \in Jobs : pc[j] = "idle" /\ step[j] = 1
  BY DEF Init
<1>3. ASSUME NEW j \in Jobs PROVE SentNow(j) /\ Unstarted(j) /\ InOrder(j)
  <2>1. pc[j] = "idle" /\ step[j] = 1
    BY <1>2
  <2>2. SentNow(j) /\ InOrder(j)
    BY <2>1 DEF SentNow, InOrder
  <2>3. Unstarted(j)
    BY <1>1, <2>1 DEF Unstarted
  <2>4. QED BY <2>2, <2>3
<1>4. QED BY <1>3 DEF OnWire

(* Nothing of another job at work can be disturbed: there is none.         *)
LEMMA Alone ==
  ASSUME Holding, NEW i \in Jobs, NEW j \in Jobs, Active(i), Active(j)
  PROVE  i = j
BY DEF Holding

LEMMA WireProceeds ==
  ASSUME TypeOK, Holding, OnWire, NEW j \in Jobs,
         pc[j] \in {"sending", "awaiting"},
         NEW v \in {"failed", "raised"},
         Proceed(j) \/ (Return(j, v) /\ UNCHANGED step),
         UNCHANGED <<sentOn, answered, conn, wire, moved>>
  PROVE  OnWire'
<1>1. CASE pc' = [pc EXCEPT ![j] = "returned"] /\ step' = step
  <2>1. ASSUME NEW i \in Jobs
        PROVE  SentNow(i)' /\ Unstarted(i)' /\ InOrder(i)'
    <3>1. SentNow(i) /\ Unstarted(i) /\ InOrder(i)
      BY DEF OnWire
    <3>2. CASE i = j
      BY <1>1, <3>2 DEF SentNow, Unstarted, InOrder, TypeOK
    <3>3. CASE i # j
      <4>1. pc'[i] = pc[i]
        BY <1>1, <3>3 DEF TypeOK
      <4>2. QED BY <1>1, <3>1, <4>1
                DEF SentNow, Unstarted, InOrder, Waits
    <3>4. QED BY <3>2, <3>3
  <2>2. QED BY <2>1 DEF OnWire
<1>2. CASE /\ pc' = [pc EXCEPT ![j] = "sending"]
           /\ step' = [step EXCEPT ![j] = @ + 1]
  <2>1. ASSUME NEW n \in 1..Len(wire), wire[n].job = j
        PROVE  wire[n].at <= step'[j] /\ wire[n].at # step'[j]
    <3>1. wire[n].at <= step[j] /\ wire[n] \in Requests
      BY <2>1, ElementOfSeq DEF OnWire, InOrder, TypeOK
    <3>2. wire[n].at \in Nat /\ step[j] \in Nat /\ step'[j] = step[j] + 1
      BY <1>2, <3>1 DEF Requests, TypeOK
    <3>3. QED BY <3>1, <3>2
  <2>2. ASSUME NEW i \in Jobs
        PROVE  SentNow(i)' /\ Unstarted(i)' /\ InOrder(i)'
    <3>1. SentNow(i) /\ Unstarted(i) /\ InOrder(i)
      BY DEF OnWire
    <3>2. CASE i = j
      <4>1. pc'[i] = "sending"
        BY <1>2, <3>2 DEF TypeOK
      <4>2. QED BY <2>1, <3>2, <4>1 DEF SentNow, Unstarted, InOrder
    <3>3. CASE i # j
      <4>1. pc'[i] = pc[i] /\ step'[i] = step[i]
        BY <1>2, <3>3 DEF TypeOK
      <4>2. QED BY <3>1, <4>1 DEF SentNow, Unstarted, InOrder, Waits
    <3>4. QED BY <3>2, <3>3
  <2>3. QED BY <2>2 DEF OnWire
<1>3. QED BY <1>1, <1>2 DEF Proceed, Return

LEMMA JobWire ==
  ASSUME TypeOK, Holding, OnWire, NEW j \in Jobs, JobStep(j) PROVE OnWire'
<1>1. CASE AcquireLock(j)
  <2>1. /\ pc[j] = "idle" /\ pc' = [pc EXCEPT ![j] = "locked"]
        /\ UNCHANGED <<step, sentOn, answered, conn, wire, moved>>
    BY <1>1 DEF AcquireLock, linkVars
  <2>2. ASSUME NEW i \in Jobs
        PROVE  SentNow(i)' /\ Unstarted(i)' /\ InOrder(i)'
    <3>1. SentNow(i) /\ Unstarted(i) /\ InOrder(i)
      BY DEF OnWire
    <3>2. pc'[i] = IF i = j THEN "locked" ELSE pc[i]
      BY <2>1 DEF TypeOK
    <3>3. QED BY <2>1, <3>1, <3>2 DEF SentNow, Unstarted, InOrder, Waits
  <2>3. QED BY <2>2 DEF OnWire
<1>2. CASE Begin(j) \/ NotReachable(j)
  <2>1. /\ pc[j] = "locked" /\ UNCHANGED step /\ Cut
        /\ \/ pc' = [pc EXCEPT ![j] = "sending"]
           \/ pc' = [pc EXCEPT ![j] = "returned"]
    BY <1>2, WireCut DEF Begin, NotReachable, Return
  <2>2. ASSUME NEW i \in Jobs
        PROVE  SentNow(i)' /\ Unstarted(i)' /\ InOrder(i)'
    <3>1. Unstarted(i)
      BY DEF OnWire
    <3>2. i # j => pc'[i] = pc[i] /\ ~Active(i)
      BY <2>1, Alone DEF Active, TypeOK
    <3>3. pc'[i] # "awaiting"
      BY <2>1, <3>2 DEF Active, TypeOK
    <3>4. pc'[i] \in {"idle", "locked", "sending"} =>
            pc[i] \in {"idle", "locked"}
      BY <2>1, <3>2 DEF Active, TypeOK
    <3>5. pc'[i] \in {"idle", "locked", "sending"} =>
            step'[i] = 1 /\ \A n \in 1..Len(wire') : wire'[n].job # i
      BY <2>1, <3>1, <3>4 DEF Unstarted, Cut
    <3>6. QED BY <3>3, <3>5 DEF SentNow, Unstarted, InOrder
  <2>3. QED BY <2>2 DEF OnWire
<1>3. CASE Send(j)
  <2>1. /\ pc[j] = "sending" /\ pc' = [pc EXCEPT ![j] = "awaiting"]
        /\ wire' = Append(wire, [job |-> j, at |-> step[j]])
        /\ sentOn' = [sentOn EXCEPT ![j] = conn]
        /\ answered' = [answered EXCEPT ![j] = FALSE]
        /\ UNCHANGED <<step, conn, moved>>
    BY <1>3 DEF Send, linkVars
  <2>2. /\ Len(wire) \in Nat /\ Len(wire') = Len(wire) + 1
        /\ \A n \in 1..Len(wire) : wire'[n] = wire[n]
        /\ wire'[Len(wire) + 1] = [job |-> j, at |-> step[j]]
    <3>1. [job |-> j, at |-> step[j]] \in Requests
      BY DEF Requests, TypeOK
    <3>2. QED BY <2>1, <3>1, AppendProperties, LenProperties DEF TypeOK
  <2>3. \A i \in Jobs : Active(i) => i = j
    BY <2>1, Alone DEF Active
  <2>4. ASSUME NEW i \in Jobs
        PROVE  SentNow(i)' /\ Unstarted(i)' /\ InOrder(i)'
    <3>1. SentNow(i) /\ Unstarted(i) /\ InOrder(i) /\ InOrder(j)
      BY DEF OnWire
    <3>2. CASE i = j
      <4>1. pc'[j] = "awaiting" /\ sentOn'[j] = conn /\ Waits(j)'
        BY <2>1 DEF TypeOK, Waits
      <4>2. SentNow(j)' /\ Unstarted(j)'
        BY <2>1, <4>1 DEF SentNow, Unstarted
      <4>3. ASSUME NEW n \in 1..Len(wire'), wire'[n].job = j
            PROVE  /\ wire'[n].at <= step'[j]
                   /\ wire'[n].at = step'[j] => n = Len(wire')
        <5>1. CASE n \in 1..Len(wire)
          <6>1. wire[n].at <= step[j] /\ wire[n].at # step[j]
            BY <2>1, <2>2, <3>1, <4>3, <5>1 DEF InOrder, Waits
          <6>2. QED BY <2>1, <2>2, <5>1, <6>1
        <5>2. CASE n = Len(wire) + 1
          <6>1. wire'[n].at = step[j] /\ step[j] \in Nat
            BY <2>2, <5>2 DEF TypeOK
          <6>2. QED BY <2>1, <2>2, <5>2, <6>1
        <5>3. QED BY <2>2, <5>1, <5>2
      <4>4. InOrder(j)'
        BY <4>1, <4>3 DEF InOrder
      <4>5. QED BY <3>2, <4>2, <4>4
    <3>3. CASE i # j
      <4>1. pc'[i] = pc[i] /\ pc[i] \in {"idle", "locked", "returned"}
        BY <2>1, <2>3, <3>3 DEF TypeOK, Active
      <4>2. \A n \in 1..Len(wire') : wire'[n].job = i => n \in 1..Len(wire)
        BY <2>2, <3>3
      <4>3. QED BY <2>1, <2>2, <3>1, <4>1, <4>2
                DEF SentNow, Unstarted, InOrder
    <3>4. QED BY <3>2, <3>3
  <2>5. QED BY <2>4 DEF OnWire
<1>4. CASE Answered(j)
  BY <1>4, WireProceeds DEF Answered, linkVars
<1>5. CASE Unanswered(j)
  BY <1>5, WireProceeds DEF Unanswered, linkVars
<1>6. CASE Raise(j)
  BY <1>6, WireProceeds DEF Raise, linkVars
<1>7. QED BY <1>1, <1>2, <1>3, <1>4, <1>5, <1>6 DEF JobStep

(* What the laser does to a job that waits, and to the wire.               *)
LEMMA HandledStep ==
  ASSUME TypeOK, LaserHandles
  PROVE  /\ wire # <<>> /\ wire' = Tail(wire)
         /\ answered' = IF /\ pc[wire[1].job] = "awaiting"
                           /\ step[wire[1].job] = wire[1].at
                        THEN [answered EXCEPT ![wire[1].job] = TRUE]
                        ELSE answered
         /\ UNCHANGED <<pc, step, sentOn, verdict, conn, moved, turns>>
BY HeadIsRequest DEF LaserHandles, linkVars

LEMMA WireKept == TypeOK /\ Holding /\ OnWire /\ [Next]_vars => OnWire'
<1> SUFFICES ASSUME TypeOK, Holding, OnWire, [Next]_vars PROVE OnWire'
  OBVIOUS
<1>1. CASE \E j \in Jobs : JobStep(j)
  BY <1>1, JobWire
<1>2. CASE LinkLost \/ UNCHANGED vars
  <2>1. UNCHANGED <<pc, step, sentOn, answered, conn, wire, moved>>
    BY <1>2 DEF LinkLost, vars, linkVars
  <2>2. QED BY <2>1 DEF OnWire, SentNow, Unstarted, InOrder, Waits
<1>3. CASE OtherConnect
  <2>1. /\ Cut /\ UNCHANGED <<pc, step, answered>>
        /\ moved' = moved \cup {j \in Jobs : Active(j)}
    BY <1>3, WireCut DEF OtherConnect
  <2>2. ASSUME NEW i \in Jobs
        PROVE  SentNow(i)' /\ Unstarted(i)' /\ InOrder(i)'
    <3>1. Unstarted(i) /\ InOrder(i)
      BY DEF OnWire
    <3>2. SentNow(i)'
      BY <2>1 DEF SentNow, Active
    <3>3. Unstarted(i)'
      BY <2>1, <3>1 DEF Unstarted, Cut
    <3>4. ASSUME pc[i] \in {"sending", "awaiting"},
                 NEW n \in 1..Len(wire'), wire'[n].job = i
          PROVE  /\ wire'[n].at <= step[i]
                 /\ wire'[n].at = step[i] => Waits(i) /\ n = Len(wire')
      <4>1. n \in 1..Len(wire) /\ wire'[n] = wire[n]
        BY <2>1, <3>4 DEF Cut
      <4>2. Len(wire) \in 1..Len(wire') => Len(wire) = Len(wire')
        <5>1. \A k \in 1..Len(wire') : k \in 1..Len(wire)
          BY <2>1 DEF Cut
        <5>2. Len(wire) \in Nat /\ Len(wire') \in Nat
          BY <2>1 DEF Cut
        <5>3. QED BY <5>1, <5>2
      <4>3. wire[n].at <= step[i]
            /\ (wire[n].at = step[i] => Waits(i) /\ n = Len(wire))
        BY <3>1, <3>4, <4>1 DEF InOrder
      <4>4. QED BY <3>4, <4>1, <4>2, <4>3
    <3>5. InOrder(i)'
      BY <2>1, <3>4 DEF InOrder, Waits
    <3>6. QED BY <3>2, <3>3, <3>5
  <2>3. QED BY <2>2 DEF OnWire
<1>4. CASE LaserHandles
  <2> DEFINE j == wire[1].job
  <2>1. /\ wire' = Tail(wire) /\ 1 \in 1..Len(wire) /\ j \in Jobs
        /\ answered' = IF pc[j] = "awaiting" /\ step[j] = wire[1].at
                       THEN [answered EXCEPT ![j] = TRUE] ELSE answered
        /\ UNCHANGED <<pc, step, sentOn, conn, moved>>
    BY <1>4, HandledStep, HeadIsRequest
  <2>2. /\ Len(wire') = Len(wire) - 1 /\ Len(wire) \in Nat
        /\ \A n \in 1..Len(wire') :
             wire'[n] = wire[n + 1] /\ n + 1 \in 1..Len(wire)
    BY <1>4, <2>1, HandledStep, HeadIsRequest, LenProperties DEF TypeOK
  <2> HIDE DEF j
  <2>3. CASE pc[j] = "awaiting" /\ step[j] = wire[1].at
    <3>1. 1 = Len(wire)
      <4>1. InOrder(j) /\ wire[1].job = j
        BY <2>1 DEF OnWire, j
      <4>2. pc[j] \in {"sending", "awaiting"} /\ 1 \in 1..Len(wire)
        BY <2>1, <2>3
      <4>3. wire[1].at = step[j] => Waits(j) /\ 1 = Len(wire)
        BY <4>1, <4>2 DEF InOrder
      <4>4. QED BY <2>3, <4>3, Zenon
    <3>2. Len(wire') = 0
      <4>1. Len(wire') = Len(wire) - 1
        BY <2>2
      <4>2. QED BY <3>1, <4>1
    <3>3. QED BY <2>1, <3>2 DEF OnWire, SentNow, Unstarted, InOrder
  <2>4. CASE answered' = answered
    <3>1. ASSUME NEW i \in Jobs, pc[i] \in {"idle", "locked"},
                 NEW n \in 1..Len(wire')
          PROVE  wire'[n].job # i
      BY <2>2, <3>1 DEF OnWire, Unstarted
    <3>2. ASSUME NEW i \in Jobs, pc[i] \in {"sending", "awaiting"},
                 NEW n \in 1..Len(wire'), wire'[n].job = i
          PROVE  /\ wire'[n].at <= step[i]
                 /\ wire'[n].at = step[i] => Waits(i) /\ n = Len(wire')
      <4>1. /\ wire[n + 1].job = i /\ n + 1 \in 1..Len(wire)
            /\ wire'[n].at = wire[n + 1].at
        BY <2>2, <3>2
      <4>2. /\ wire[n + 1].at <= step[i]
            /\ wire[n + 1].at = step[i] => Waits(i) /\ n + 1 = Len(wire)
        BY <3>2, <4>1 DEF OnWire, InOrder
      <4>3. QED BY <2>2, <4>1, <4>2
    <3>3. QED BY <2>1, <2>4, <3>1, <3>2
              DEF OnWire, SentNow, Unstarted, InOrder, Waits
  <2>5. QED BY <2>1, <2>3, <2>4
<1>5. QED BY <1>1, <1>2, <1>3, <1>4 DEF Next
-----------------------------------------------------------------------------
Upto(n) == [k \in 1..n |-> k]
IsPath(j, k) == 5 < k /\ k < Control(j) /\ k % 2 = 1
PathsBefore(k) == IF k <= 6 THEN 0 ELSE (k - 6) \div 2

(* How many paths of job j, at request k, the laser has taken.             *)
Taken(j) == IF pc[j] = "awaiting" /\ answered[j] = TRUE /\ IsPath(j, step[j])
            THEN PathNumber(step[j]) ELSE PathsBefore(step[j])

Uploaded(j) ==
  /\ pc[j] \in {"sending", "awaiting"}
  /\ step[j] > 4 \/ (step[j] = 4 /\ pc[j] = "awaiting" /\ answered[j] = TRUE)

OwnWire(j) ==
  \A n \in 1..Len(wire) :
    /\ wire[n].job = j /\ wire[n].at > 4
    /\ IsPath(j, wire[n].at) => wire[n].at = step[j]

(* From the answer to JOB_UPLOAD on the laser receives this job, has its   *)
(* paths so far, and nothing else is on the wire.                          *)
Receiving(j) == current = j /\ OwnWire(j) /\ store[j] = Upto(Taken(j))
Receives == \A j \in Jobs : Uploaded(j) /\ j \notin moved => Receiving(j)

LEMMA Counting ==
  ASSUME NEW j \in Jobs, NEW k \in 4..Control(j)
  PROVE  /\ IsPath(j, k) => /\ PathsBefore(k + 1) = PathNumber(k)
                            /\ PathsBefore(k) + 1 = PathNumber(k)
                            /\ PathsBefore(k) \in Nat
         /\ ~IsPath(j, k) => PathsBefore(k + 1) = PathsBefore(k)
         /\ PathsBefore(4) = 0 /\ PathsBefore(Control(j)) = NPaths[j]
         /\ PathsBefore(Control(j) + 1) = NPaths[j]
<1>1. Control(j) = 6 + 2 * NPaths[j] /\ NPaths[j] \in Nat
  BY ScriptPlaces DEF Control
<1>2. k \in Nat
  BY <1>1
<1>3. PathsBefore(4) = 0
  BY DEF PathsBefore
<1>4. PathsBefore(Control(j)) = NPaths[j]
  BY <1>1 DEF PathsBefore
<1>5. PathsBefore(Control(j) + 1) = NPaths[j]
  BY <1>1 DEF PathsBefore
<1>6. ASSUME IsPath(j, k)
      PROVE  /\ PathsBefore(k + 1) = PathNumber(k)
             /\ PathsBefore(k) + 1 = PathNumber(k)
             /\ PathsBefore(k) \in Nat
  BY <1>2, <1>6 DEF IsPath, PathsBefore, PathNumber
<1>7. ASSUME ~IsPath(j, k)
      PROVE  PathsBefore(k + 1) = PathsBefore(k)
  BY <1>1, <1>2, <1>7 DEF IsPath, PathsBefore
<1>8. QED BY <1>3, <1>4, <1>5, <1>6, <1>7

LEMMA UptoGrows ==
  ASSUME NEW n \in Nat
  PROVE  Upto(n) \in Seq(Nat) /\ Append(Upto(n), n + 1) = Upto(n + 1)
<1>1. Upto(n) \in Seq(Nat) /\ Len(Upto(n)) = n
  BY DEF Upto
<1>2. Upto(n + 1) \in Seq(Nat) /\ Len(Upto(n + 1)) = n + 1
  BY DEF Upto
<1>3. /\ Append(Upto(n), n + 1) \in Seq(Nat)
      /\ Len(Append(Upto(n), n + 1)) = n + 1
      /\ \A i \in 1..n : Append(Upto(n), n + 1)[i] = Upto(n)[i]
      /\ Append(Upto(n), n + 1)[n + 1] = n + 1
  BY <1>1, AppendProperties
<1>4. \A i \in 1..n + 1 : Append(Upto(n), n + 1)[i] = Upto(n + 1)[i]
  BY <1>3 DEF Upto
<1>5. QED BY <1>1, <1>2, <1>3, <1>4, SeqEqual

LEMMA NothingYet == Upto(0) = <<>>
BY DEF Upto

(* A job's step touches no other job, and nothing the laser has.           *)
LEMMA JobFrame ==
  ASSUME TypeOK, NEW j \in Jobs, JobStep(j), NEW i \in Jobs, i # j
  PROVE  /\ pc'[i] = pc[i] /\ step'[i] = step[i] /\ verdict'[i] = verdict[i]
         /\ answered'[i] = answered[i]
<1>1. CASE AcquireLock(j)
  BY <1>1 DEF AcquireLock, TypeOK
<1>2. CASE Begin(j)
  BY <1>2 DEF Begin, Return, TypeOK
<1>3. CASE NotReachable(j)
  BY <1>3 DEF NotReachable, Return, TypeOK
<1>4. CASE Send(j)
  BY <1>4 DEF Send, TypeOK
<1>5. CASE Answered(j) \/ Unanswered(j)
  <2>1. /\ Proceed(j) \/ (Return(j, "failed") /\ UNCHANGED step)
        /\ UNCHANGED answered
    BY <1>5 DEF Answered, Unanswered
  <2>2. CASE Proceed(j)
    BY <2>1, <2>2 DEF Proceed, Return, TypeOK
  <2>3. CASE Return(j, "failed") /\ UNCHANGED step
    BY <2>1, <2>3 DEF Return, TypeOK
  <2>4. QED BY <2>1, <2>2, <2>3
<1>6. CASE Raise(j)
  BY <1>6 DEF Raise, Return, TypeOK
<1>7. QED BY <1>1, <1>2, <1>3, <1>4, <1>5, <1>6 DEF JobStep

LEMMA LaserFrame ==
  ASSUME NEW j \in Jobs, JobStep(j)
  PROVE  UNCHANGED <<store, ran, moved, monitored>>
BY DEF JobStep, AcquireLock, Begin, NotReachable, Send, Raise, Answered,
       Unanswered, laserVars

(* Going on: from request k to the next, of a job that has been uploading. *)
LEMMA GoesOn ==
  ASSUME TypeOK, OnWire, NEW j \in Jobs, Uploaded(j), Receiving(j), ~AtEnd(j),
         pc' = [pc EXCEPT ![j] = "sending"],
         step' = [step EXCEPT ![j] = @ + 1],
         UNCHANGED <<answered, wire, store, current>>,
         IsPath(j, step[j]) => pc[j] = "awaiting" /\ answered[j] = TRUE
  PROVE  Receiving(j)'
<1>1. step[j] \in 4..Control(j) /\ step'[j] = step[j] + 1
  <2>1. Len(Script(j)) = Control(j) + 1 /\ Control(j) \in Nat
    BY ScriptPlaces
  <2>2. step[j] \in 1..Len(Script(j)) /\ step[j] # Len(Script(j))
    BY DEF TypeOK, AtEnd
  <2>3. step[j] >= 4
    BY <2>1, <2>2 DEF Uploaded
  <2>4. QED BY <2>1, <2>2, <2>3 DEF TypeOK
<1>2. Taken(j) = PathsBefore(step[j] + 1)
  BY <1>1, Counting DEF Taken
<1>3. Taken(j)' = PathsBefore(step[j] + 1)
  <2>1. pc'[j] = "sending"
    BY DEF TypeOK
  <2>2. QED BY <1>1, <2>1 DEF Taken
<1>4. ASSUME NEW n \in 1..Len(wire)
      PROVE  wire[n].job = j /\ wire[n].at > 4 /\ ~IsPath(j, wire[n].at)
  <2>1. /\ wire[n].job = j /\ wire[n].at > 4
        /\ IsPath(j, wire[n].at) => wire[n].at = step[j]
    BY DEF Receiving, OwnWire
  <2>2. wire[n].at = step[j] => Waits(j)
    BY <2>1 DEF OnWire, InOrder, Uploaded
  <2>3. QED BY <2>1, <2>2 DEF Waits
<1>5. OwnWire(j)'
  BY <1>4 DEF OwnWire, IsPath, Control
<1>6. store'[j] = Upto(Taken(j)')
  BY <1>2, <1>3 DEF Receiving
<1>7. QED BY <1>5, <1>6 DEF Receiving

LEMMA JobReceives ==
  ASSUME TypeOK, Holding, OnWire, Receives, NEW j \in Jobs, JobStep(j)
  PROVE  Receives'
<1> SUFFICES ASSUME NEW i \in Jobs, Uploaded(i)', i \notin moved'
             PROVE  Receiving(i)'
  BY DEF Receives
<1>1. UNCHANGED <<store, moved>>
  BY LaserFrame
<1>2. CASE AcquireLock(j)
  <2>1. lock = None /\ pc' = [pc EXCEPT ![j] = "locked"]
    BY <1>2 DEF AcquireLock, LockFree
  <2>2. ~Active(i)
    BY <2>1, JobAssumption DEF Holding
  <2>3. QED BY <2>1, <2>2 DEF Uploaded, Active, TypeOK
<1>3. CASE Begin(j) \/ NotReachable(j)
  <2>1. Active(j) /\ pc[j] = "locked" /\ UNCHANGED step
    BY <1>3 DEF Begin, NotReachable, Active
  <2>2. i # j
    <3>1. step[j] = 1
      BY <2>1 DEF OnWire, Unstarted
    <3>2. QED BY <2>1, <3>1 DEF Uploaded
  <2>3. Active(i)
    BY <2>2, JobFrame DEF Uploaded, Active
  <2>4. QED BY <2>1, <2>2, <2>3, Alone
<1>4. CASE Send(j) \/ Answered(j) \/ Unanswered(j)
  <2>1. Active(j)
    BY <1>4 DEF Send, Answered, Unanswered, Active
  <2>2. i = j
    <3>1. i # j => Active(i)
      BY JobFrame DEF Uploaded, Active
    <3>2. QED BY <2>1, <3>1, Alone
  <2>3. CASE Send(j)
    <3>1. /\ pc[j] = "sending" /\ pc' = [pc EXCEPT ![j] = "awaiting"]
          /\ wire' = Append(wire, [job |-> j, at |-> step[j]])
          /\ answered' = [answered EXCEPT ![j] = FALSE]
          /\ UNCHANGED <<step, current>>
      BY <2>3 DEF Send, laserVars
    <3>2. answered'[j] = FALSE /\ step[j] > 4 /\ step[j] \in Nat
      BY <2>2, <3>1 DEF Uploaded, TypeOK
    <3>3. Receiving(j)
      BY <1>1, <2>2, <3>1, <3>2 DEF Receives, Uploaded
    <3>4. Taken(j)' = Taken(j)
      BY <3>1, <3>2 DEF Taken
    <3>5. /\ Len(wire) \in Nat /\ Len(wire') = Len(wire) + 1
          /\ \A n \in 1..Len(wire) : wire'[n] = wire[n]
          /\ wire'[Len(wire) + 1] = [job |-> j, at |-> step[j]]
      <4>1. [job |-> j, at |-> step[j]] \in Requests
        BY DEF Requests, TypeOK
      <4>2. QED BY <3>1, <4>1, AppendProperties, LenProperties DEF TypeOK
    <3>6. OwnWire(j)'
      BY <3>1, <3>2, <3>3, <3>5 DEF Receiving, OwnWire, IsPath, Control
    <3>7. QED BY <1>1, <2>2, <3>1, <3>3, <3>4, <3>6 DEF Receiving
  <2>4. CASE Answered(j) \/ Unanswered(j)
    <3>1. /\ Proceed(j) \/ Return(j, "failed")
          /\ pc[j] \in {"sending", "awaiting"}
          /\ UNCHANGED <<answered, wire, current>>
      BY <2>4 DEF Answered, Unanswered, laserVars
    <3>2. /\ ~AtEnd(j) /\ pc' = [pc EXCEPT ![j] = "sending"]
          /\ step' = [step EXCEPT ![j] = @ + 1]
      <4>1. pc'[j] # "returned"
        BY <2>2 DEF Uploaded
      <4>2. QED BY <3>1, <4>1 DEF Proceed, Return, TypeOK
    <3>3. step[j] \in Nat /\ step[j] > 3
      BY <2>2, <3>2 DEF Uploaded, TypeOK
    <3>4. CASE Answered(j)
      <4>1. pc[j] = "awaiting" /\ answered[j] = TRUE
        <5>1. pc[j] = "awaiting" /\ (answered[j] \/ sentOn[j] # conn)
          BY <3>4 DEF Answered
        <5>2. sentOn[j] = conn
          BY <1>1, <2>2, <5>1 DEF OnWire, SentNow
        <5>3. answered[j] \in BOOLEAN
          BY DEF TypeOK
        <5>4. QED BY <5>1, <5>2, <5>3
      <4>2. Uploaded(j)
        BY <3>3, <4>1 DEF Uploaded
      <4>3. QED BY <1>1, <2>2, <3>1, <3>2, <4>1, <4>2, GoesOn DEF Receives
    <3>5. CASE Unanswered(j)
      <4>1. Request(j) \notin Required
        <5>1. pc'[j] = "sending" /\ "sending" # "returned"
          BY <3>2 DEF TypeOK
        <5>2. Return(j, "failed") => pc'[j] = "returned"
          BY DEF Return, TypeOK
        <5>3. QED BY <3>5, <5>1, <5>2 DEF Unanswered
      <4>2. step[j] # 4 /\ ~IsPath(j, step[j])
        <5>1. step[j] \in 1..Control(j) + 1
          BY ScriptPlaces DEF TypeOK
        <5>2. QED BY <4>1, <5>1, ScriptPlaces DEF Request, Required, IsPath
      <4>3. Uploaded(j)
        BY <3>1, <3>3, <4>2 DEF Uploaded
      <4>4. QED BY <1>1, <2>2, <3>1, <3>2, <4>2, <4>3, GoesOn DEF Receives
    <3>6. QED BY <2>4, <3>4, <3>5
  <2>5. QED BY <1>4, <2>3, <2>4
<1>5. CASE Raise(j)
  <2>1. Active(j) /\ pc' = [pc EXCEPT ![j] = "returned"]
    BY <1>5 DEF Raise, Return, Active
  <2>2. i # j /\ Active(i)
    BY <2>1, JobFrame DEF Uploaded, Active, TypeOK
  <2>3. QED BY <2>1, <2>2, Alone
<1>6. QED BY <1>2, <1>3, <1>4, <1>5 DEF JobStep

(* What the laser does with the first request on the wire.                 *)
LEMMA Handling ==
  ASSUME TypeOK, LaserHandles
  PROVE  /\ wire[1].at = 4 =>
              /\ current' = wire[1].job
              /\ store' = [store EXCEPT ![wire[1].job] = <<>>]
              /\ UNCHANGED ran
         /\ IsPath(wire[1].job, wire[1].at) =>
              /\ UNCHANGED <<current, ran>>
              /\ store' = IF current = None THEN store
                          ELSE [store EXCEPT ![current] =
                                  Append(@, PathNumber(wire[1].at))]
         /\ wire[1].at = Control(wire[1].job) =>
              /\ UNCHANGED <<current, store>>
              /\ ran' = IF current = None THEN ran
                        ELSE Append(ran, <<current, store[current]>>)
         /\ \/ wire[1].at = 4
            \/ IsPath(wire[1].job, wire[1].at)
            \/ wire[1].at = Control(wire[1].job)
            \/ UNCHANGED <<current, store, ran>>
<1> DEFINE j == wire[1].job
           k == wire[1].at
           r == Script(j)[k]
<1>1. Head(wire) = wire[1] /\ j \in Jobs /\ k \in 1..Control(j) + 1
      /\ Control(j) \in Nat
  BY HeadIsRequest, ScriptPlaces DEF LaserHandles
<1>2. /\ r = "JOB_UPLOAD" <=> k = 4
      /\ r = "JOB_CONTROL" <=> k = Control(j)
      /\ r = "PATH_DATA" <=> IsPath(j, k)
  BY <1>1, ScriptPlaces DEF IsPath
<1>3. /\ current' = IF r = "JOB_UPLOAD" THEN j ELSE current
      /\ store' = IF r = "JOB_UPLOAD"
                  THEN [store EXCEPT ![j] = <<>>]
                  ELSE IF r = "PATH_DATA" /\ current # None
                  THEN [store EXCEPT ![current] = Append(@, PathNumber(k))]
                  ELSE store
      /\ ran' = IF r = "JOB_CONTROL" /\ current # None
                THEN Append(ran, <<current, store[current]>>) ELSE ran
  BY <1>1 DEF LaserHandles
<1> HIDE DEF j, k, r
<1>4. /\ k = 4 => current' = j /\ store' = [store EXCEPT ![j] = <<>>]
                  /\ UNCHANGED ran
      /\ IsPath(j, k) => UNCHANGED <<current, ran>>
            /\ store' = IF current = None THEN store
                        ELSE [store EXCEPT ![current] =
                                Append(@, PathNumber(k))]
      /\ k = Control(j) => UNCHANGED <<current, store>>
            /\ ran' = IF current = None THEN ran
                      ELSE Append(ran, <<current, store[current]>>)
      /\ k = 4 \/ IsPath(j, k) \/ k = Control(j)
           \/ UNCHANGED <<current, store, ran>>
  <2>1. CASE r = "JOB_UPLOAD"
    <3>1. ~IsPath(j, k) /\ k # Control(j) /\ k = 4
      BY <1>2, <2>1
    <3>2. QED BY <1>3, <2>1, <3>1
  <2>2. CASE r = "PATH_DATA"
    <3>1. IsPath(j, k) /\ k # Control(j) /\ k # 4
      BY <1>2, <2>2
    <3>2. QED BY <1>3, <2>2, <3>1
  <2>3. CASE r = "JOB_CONTROL"
    <3>1. ~IsPath(j, k) /\ k = Control(j) /\ k # 4
      BY <1>2, <2>3
    <3>2. QED BY <1>3, <2>3, <3>1
  <2>4. CASE r \notin {"JOB_UPLOAD", "PATH_DATA", "JOB_CONTROL"}
    <3>1. ~IsPath(j, k) /\ k # Control(j) /\ k # 4
      BY <1>2, <2>4
    <3>2. QED BY <1>3, <2>4, <3>1
  <2>5. QED BY <2>1, <2>2, <2>3, <2>4
<1>5. QED BY <1>4 DEF j, k

LEMMA Shorter ==
  ASSUME TypeOK, LaserHandles
  PROVE  /\ Len(wire) \in Nat \ {0} /\ Len(wire') = Len(wire) - 1
         /\ 1 \in 1..Len(wire) /\ wire[1].job \in Jobs /\ wire[1].at \in Nat
         /\ \A n \in 1..Len(wire') :
              wire'[n] = wire[n + 1] /\ n + 1 \in 1..Len(wire)
<1>1. wire # <<>> /\ wire' = Tail(wire)
  BY DEF LaserHandles
<1>2. Len(wire) \in Nat \ {0}
  BY <1>1, EmptySeq DEF TypeOK
<1>3. QED BY <1>1, <1>2, HeadIsRequest

LEMMA LaserReceives ==
  ASSUME TypeOK, Holding, OnWire, Receives, LaserHandles
  PROVE  Receives'
<1> SUFFICES ASSUME NEW j \in Jobs, Uploaded(j)', j \notin moved'
             PROVE  Receiving(j)'
  BY DEF Receives
<1> DEFINE h == wire[1].job
           k == wire[1].at
<1>1. /\ UNCHANGED <<pc, step, moved>> /\ h \in Jobs /\ k \in Nat
      /\ 1 \in 1..Len(wire)
      /\ answered' = IF pc[h] = "awaiting" /\ step[h] = k
                     THEN [answered EXCEPT ![h] = TRUE] ELSE answered
  BY HandledStep, Shorter
<1>2. InOrder(j) /\ pc[j] \in {"sending", "awaiting"} /\ step[j] \in Nat
  BY <1>1 DEF OnWire, Uploaded, TypeOK
<1>3. h = j /\ k = step[j] => Waits(j) /\ Len(wire) = 1
  BY <1>1, <1>2 DEF InOrder
<1>4. CASE Uploaded(j)
  <2>1. Receiving(j) /\ h = j /\ k > 4 /\ (IsPath(j, k) => k = step[j])
    BY <1>1, <1>4 DEF Receives, Receiving, OwnWire
  <2>2. current = j /\ current # None /\ store[j] = Upto(Taken(j))
    BY <2>1, JobAssumption DEF Receiving
  <2> HIDE DEF h, k
  <2>3. current' = current
    BY <1>1, <2>1, Handling DEF h, k
  <2>4. OwnWire(j)'
    <3>1. ASSUME NEW n \in 1..Len(wire')
          PROVE  /\ wire'[n].job = j /\ wire'[n].at > 4
                 /\ IsPath(j, wire'[n].at) => wire'[n].at = step[j]
      BY <2>1, Shorter DEF Receiving, OwnWire
    <3>2. QED BY <1>1, <3>1 DEF OwnWire, IsPath, Control
  <2>5. CASE IsPath(j, k)
    <3>1. k = step[j] /\ Waits(j) /\ k \in 4..Control(j)
      <4>1. k = step[j] /\ Waits(j)
        BY <1>3, <2>1, <2>5
      <4>2. 5 < k /\ k < Control(j) /\ Control(j) \in Nat
        BY <2>5, ScriptPlaces DEF IsPath
      <4>3. QED BY <1>1, <4>1, <4>2
    <3>2. Taken(j) = PathsBefore(k)
      BY <3>1 DEF Taken, Waits
    <3>3. answered'[j] = TRUE /\ pc'[j] = "awaiting"
      BY <1>1, <2>1, <3>1 DEF Waits, TypeOK
    <3>4. Taken(j)' = PathNumber(k)
      BY <1>1, <2>5, <3>1, <3>3 DEF Taken, IsPath, Control
    <3>5. store'[j] = Append(Upto(PathsBefore(k)), PathNumber(k))
      <4>1. store' = [store EXCEPT ![j] = Append(@, PathNumber(k))]
        BY <2>1, <2>2, <2>5, Handling DEF h, k
      <4>2. QED BY <2>2, <3>2, <4>1 DEF TypeOK
    <3>6. store'[j] = Upto(PathNumber(k))
      BY <2>5, <3>1, <3>5, Counting, UptoGrows
    <3>7. QED BY <2>2, <2>3, <2>4, <3>4, <3>6 DEF Receiving
  <2>6. CASE ~IsPath(j, k)
    <3>1. store' = store
      BY <1>1, <2>1, <2>6, Handling DEF h, k
    <3>2. Taken(j)' = Taken(j)
      <4>1. CASE k = step[j]
        BY <1>1, <2>6, <4>1 DEF Taken, IsPath, Control
      <4>2. CASE k # step[j]
        <5>1. answered' = answered
          BY <1>1, <2>1, <4>2
        <5>2. QED BY <1>1, <5>1 DEF Taken, IsPath, Control
      <4>3. QED BY <4>1, <4>2
    <3>3. QED BY <2>2, <2>3, <2>4, <3>1, <3>2 DEF Receiving
  <2>7. QED BY <2>5, <2>6
<1>5. CASE ~Uploaded(j)
  <2>1. step[j] = 4 /\ pc[j] = "awaiting" /\ answered[j] # TRUE
        /\ answered'[j] = TRUE
    BY <1>1, <1>5 DEF Uploaded
  <2>2. h = j /\ k = 4
    BY <1>1, <2>1 DEF TypeOK
  <2>3. Len(wire) = 1
    BY <1>3, <2>1, <2>2
  <2>4. Len(wire') = 0
    BY <2>3, Shorter
  <2>5. current' = j /\ store' = [store EXCEPT ![j] = <<>>]
    BY <2>2, Handling
  <2>6. Taken(j)' = 0
    <3>1. ~IsPath(j, 4)' /\ PathsBefore(4) = 0
      BY DEF IsPath, PathsBefore
    <3>2. QED BY <1>1, <2>1, <3>1 DEF Taken
  <2>7. store'[j] = Upto(0)
    BY <2>5, NothingYet DEF TypeOK
  <2>8. OwnWire(j)'
    BY <2>4 DEF OwnWire
  <2>9. QED BY <2>5, <2>6, <2>7, <2>8 DEF Receiving
<1>6. QED BY <1>4, <1>5

LEMMA ReceivesInit == Init => Receives
BY DEF Init, Receives, Uploaded

LEMMA ReceivesKept ==
  TypeOK /\ Holding /\ OnWire /\ Receives /\ [Next]_vars => Receives'
<1> SUFFICES ASSUME TypeOK, Holding, OnWire, Receives, [Next]_vars
             PROVE  Receives'
  OBVIOUS
<1>1. CASE \E j \in Jobs : JobStep(j)
  BY <1>1, JobReceives
<1>2. CASE LinkLost \/ UNCHANGED vars
  <2>1. UNCHANGED <<pc, step, answered, wire, current, store, moved>>
    BY <1>2 DEF LinkLost, vars, linkVars, laserVars
  <2>2. ASSUME NEW j \in Jobs, Uploaded(j)', j \notin moved'
        PROVE  Receiving(j)'
    <3>1. Uploaded(j) /\ j \notin moved
      BY <2>1, <2>2 DEF Uploaded
    <3>2. Receiving(j)
      BY <3>1 DEF Receives
    <3>3. Taken(j)' = Taken(j)
      BY <2>1 DEF Taken, IsPath, Control
    <3>4. QED BY <2>1, <3>2, <3>3 DEF Receiving, OwnWire, IsPath, Control
  <2>3. QED BY <2>2 DEF Receives
<1>3. CASE OtherConnect
  <2>1. /\ UNCHANGED <<pc, step, answered>>
        /\ moved' = moved \cup {j \in Jobs : Active(j)}
    BY <1>3 DEF OtherConnect
  <2>2. QED BY <2>1 DEF Receives, Uploaded, Active
<1>4. CASE LaserHandles
  BY <1>4, LaserReceives
<1>5. QED BY <1>1, <1>2, <1>3, <1>4 DEF Next
-----------------------------------------------------------------------------
Harmless(e) ==
  e.at # 4 /\ ~IsPath(e.job, e.at) /\ e.at # Control(e.job)

(* A JOB_CONTROL on the wire will run its own job, whole, or none: the     *)
(* laser has it, or threw it away, and nothing before it changes that.     *)
Starts(n) ==
  LET i == wire[n].job
  IN  /\ current \in {i, None} /\ store[i] = Upto(NPaths[i]) /\ verdict[i] # "failed"
      /\ \A m \in 1..n - 1 : Harmless(wire[m])

Controls == \A n \in 1..Len(wire) :
  wire[n].at = Control(wire[n].job) /\ wire[n].job \notin moved => Starts(n)

(* Only a job before its JOB_CONTROL can fail.                             *)
LEMMA FailsEarly ==
  ASSUME TypeOK, Holding, OnWire, NEW j \in Jobs, JobStep(j),
         verdict'[j] = "failed", verdict[j] # "failed"
  PROVE  /\ pc[j] \in {"locked", "sending", "awaiting"}
         /\ step[j] < Control(j)
         /\ \A n \in 1..Len(wire) :
              wire[n].job = j => wire[n].at # Control(j)
<1>1. CASE Begin(j) \/ NotReachable(j)
  <2>1. pc[j] = "locked"
    BY <1>1 DEF Begin, NotReachable
  <2>2. step[j] = 1 /\ \A n \in 1..Len(wire) : wire[n].job # j
    BY <2>1 DEF OnWire, Unstarted
  <2>3. Control(j) > 1
    BY ScriptPlaces DEF Control
  <2>4. QED BY <2>1, <2>2, <2>3
<1>2. CASE ~(Begin(j) \/ NotReachable(j))
  <2>1. Unanswered(j) /\ Request(j) \in Required
    <3>1. Unanswered(j) \/ Answered(j)
      BY <1>2 DEF JobStep, AcquireLock, Send, Raise, Return, TypeOK
    <3>2. Proceed(j) => verdict'[j] \in {verdict[j], "submitted"}
      BY DEF Proceed, Return, TypeOK
    <3>3. QED BY <3>1, <3>2 DEF Answered, Unanswered
  <2>2. pc[j] \in {"sending", "awaiting"}
    BY <2>1 DEF Unanswered
  <2>3. step[j] \in Nat /\ step[j] < Control(j)
    <3>1. step[j] \in 1..Control(j) + 1 /\ Control(j) \in Nat
      BY ScriptPlaces DEF TypeOK
    <3>2. Control(j) > 4
      BY ScriptPlaces DEF Control
    <3>3. step[j] = 4 \/ step[j] < Control(j)
      BY <2>1, <3>1, ScriptPlaces DEF Request, Required
    <3>4. QED BY <3>1, <3>2, <3>3
  <2>4. \A n \in 1..Len(wire) : wire[n].job = j => wire[n].at <= step[j]
    BY <2>2 DEF OnWire, InOrder
  <2>5. ASSUME NEW n \in 1..Len(wire), wire[n].job = j
        PROVE  wire[n].at # Control(j)
    <3>1. wire[n] \in Requests /\ wire[n].at <= step[j]
      BY <2>4, <2>5, ElementOfSeq DEF TypeOK
    <3>2. Control(j) \in Nat /\ wire[n].at \in Nat
      BY <3>1, ScriptPlaces DEF Requests
    <3>3. QED BY <2>3, <3>1, <3>2
  <2>6. QED BY <2>2, <2>3, <2>5
<1>3. QED BY <1>1, <1>2

LEMMA ControlsInit == Init => Controls
<1> SUFFICES ASSUME Init PROVE Controls
  OBVIOUS
<1>1. Len(wire) = 0
  BY DEF Init
<1>2. QED BY <1>1 DEF Controls

(* What holds of the wire holds of what a new connection leaves of it.     *)
LEMMA CutControls ==
  ASSUME TypeOK, Controls, Cut, current' \in {current, None},
         UNCHANGED store, moved \subseteq moved',
         \A i \in Jobs : verdict[i] # "failed" =>
           \A n \in 1..Len(wire) :
             wire[n].job = i /\ wire[n].at = Control(i) =>
               verdict'[i] # "failed"
  PROVE  Controls'
<1>1. ASSUME NEW n \in 1..Len(wire'),
             wire'[n].at = Control(wire'[n].job), wire'[n].job \notin moved'
      PROVE  Starts(n)'
  <2>1. n \in 1..Len(wire) /\ wire'[n] = wire[n] /\ n \in Nat
    BY <1>1 DEF Cut
  <2>2. Starts(n)
    BY <1>1, <2>1 DEF Controls
  <2>3. wire[n].job \in Jobs
    <3>1. wire[n] \in Requests
      BY <2>1, ElementOfSeq DEF TypeOK
    <3>2. QED BY <3>1 DEF Requests
  <2>4. verdict'[wire[n].job] # "failed"
    BY <1>1, <2>1, <2>2, <2>3 DEF Starts
  <2>5. ASSUME NEW m \in 1..n - 1 PROVE Harmless(wire'[m])
    <3>1. m \in 1..Len(wire')
      <4>1. Len(wire') \in Nat
        BY DEF Cut
      <4>2. QED BY <1>1, <2>1, <2>5, <4>1
    <3>2. Harmless(wire[m]) /\ wire'[m] = wire[m]
      BY <2>2, <3>1 DEF Starts, Cut
    <3>3. QED BY <3>2 DEF Harmless, IsPath, Control
  <2>6. QED BY <2>1, <2>2, <2>4, <2>5
            DEF Starts, Harmless, IsPath, Control
<1>2. QED BY <1>1 DEF Controls, Control

LEMMA JobControls ==
  ASSUME TypeOK, Holding, OnWire, Receives, Controls,
         NEW j \in Jobs, JobStep(j)
  PROVE  Controls'
<1>1. UNCHANGED <<store, moved>>
  BY LaserFrame
<1>2. CASE Cut /\ current' \in {current, None}
  <2>1. ASSUME NEW i \in Jobs, verdict[i] # "failed",
               NEW n \in 1..Len(wire), wire[n].job = i,
               wire[n].at = Control(i)
        PROVE  verdict'[i] # "failed"
    <3>1. CASE i = j
      BY <2>1, <3>1, FailsEarly
    <3>2. CASE i # j
      BY <2>1, <3>2, JobFrame
    <3>3. QED BY <3>1, <3>2
  <2>2. QED BY <1>1, <1>2, <2>1, CutControls
<1>4. CASE Send(j)
  <2>1. /\ pc[j] = "sending"
        /\ wire' = Append(wire, [job |-> j, at |-> step[j]])
        /\ UNCHANGED <<verdict, current>>
    BY <1>4 DEF Send, laserVars
  <2>2. /\ Len(wire) \in Nat /\ Len(wire') = Len(wire) + 1
        /\ \A n \in 1..Len(wire) : wire'[n] = wire[n]
        /\ wire'[Len(wire) + 1] = [job |-> j, at |-> step[j]]
    <3>1. [job |-> j, at |-> step[j]] \in Requests
      BY DEF Requests, TypeOK
    <3>2. QED BY <2>1, <3>1, AppendProperties, LenProperties DEF TypeOK
  <2>3. ASSUME NEW n \in 1..Len(wire), wire[n].at = Control(wire[n].job),
               wire[n].job \notin moved
        PROVE  Starts(n)'
    <3>1. Starts(n)
      BY <2>3 DEF Controls
    <3>2. \A m \in 1..n - 1 : wire'[m] = wire[m]
      BY <2>2
    <3>3. wire'[n] = wire[n]
      BY <2>2
    <3>4. QED BY <1>1, <2>1, <3>1, <3>2, <3>3
              DEF Starts, Harmless, IsPath, Control
  <2>4. ASSUME NEW n \in Nat, n = Len(wire) + 1, step[j] = Control(j),
               j \notin moved
        PROVE  Starts(n)'
    <3>1. Uploaded(j) /\ step[j] \in Nat
      <4>1. Control(j) > 4
        BY ScriptPlaces DEF Control
      <4>2. QED BY <2>1, <2>4, <4>1 DEF Uploaded, TypeOK
    <3>2. Receiving(j)
      BY <2>4, <3>1 DEF Receives
    <3>3. Taken(j) = NPaths[j]
      <4>1. Taken(j) = PathsBefore(Control(j))
        BY <2>1, <2>4 DEF Taken
      <4>2. Control(j) \in 4..Control(j)
        BY ScriptPlaces DEF Control
      <4>3. QED BY <4>1, <4>2, Counting
    <3>4. verdict[j] # "failed"
      BY <2>1 DEF Holding
    <3>5. ASSUME NEW m \in 1..Len(wire) PROVE Harmless(wire[m])
      <4>1. /\ wire[m].job = j /\ wire[m].at > 4
            /\ IsPath(j, wire[m].at) => wire[m].at = step[j]
        BY <3>2 DEF Receiving, OwnWire
      <4>2. wire[m].at # step[j]
        BY <2>1, <4>1 DEF OnWire, InOrder, Waits
      <4>3. wire[m].at # 4
        <5>1. wire[m] \in Requests
          BY ElementOfSeq DEF TypeOK
        <5>2. QED BY <4>1, <5>1 DEF Requests
      <4>4. QED BY <2>4, <4>1, <4>2, <4>3 DEF Harmless
    <3>6. \A m \in 1..Len(wire) : Harmless(wire'[m])
      BY <2>2, <3>5 DEF Harmless, IsPath, Control
    <3>7. wire'[n].job = j /\ n - 1 = Len(wire)
      BY <2>2, <2>4
    <3>8. /\ current' = j /\ store'[j] = Upto(NPaths[j])
          /\ verdict'[j] # "failed"
      BY <1>1, <2>1, <3>2, <3>3, <3>4 DEF Receiving
    <3>9. QED BY <3>6, <3>7, <3>8 DEF Starts
  <2>5. ASSUME NEW n \in 1..Len(wire'),
               wire'[n].at = Control(wire'[n].job), wire'[n].job \notin moved
        PROVE  Starts(n)'
    <3>1. CASE n \in 1..Len(wire)
      <4>1. wire'[n] = wire[n]
        BY <2>2, <3>1
      <4>2. QED BY <2>3, <2>5, <3>1, <4>1
    <3>2. CASE n = Len(wire) + 1
      <4>1. wire'[n] = [job |-> j, at |-> step[j]] /\ n \in Nat
        BY <2>2, <3>2
      <4>2. step[j] = Control(j) /\ j \notin moved
        BY <2>5, <4>1
      <4>3. QED BY <2>4, <3>2, <4>1, <4>2
    <3>3. QED BY <2>2, <3>1, <3>2
  <2>6. QED BY <1>1, <2>5 DEF Controls, Control
<1>5. CASE Begin(j)
  BY <1>2, <1>5, WireCut DEF Begin, NewConnection
<1>6. CASE AcquireLock(j) \/ NotReachable(j) \/ Raise(j) \/ Answered(j)
           \/ Unanswered(j)
  <2>1. UNCHANGED <<wire, current>>
    BY <1>6
    DEF AcquireLock, NotReachable, Raise, Answered, Unanswered, laserVars
  <2>2. QED BY <1>2, <2>1, WireCut
<1>7. QED BY <1>4, <1>5, <1>6 DEF JobStep

LEMMA ControlsKept ==
  /\ TypeOK /\ Holding /\ OnWire /\ Receives /\ Controls /\ [Next]_vars
  => Controls'
<1> SUFFICES ASSUME TypeOK, Holding, OnWire, Receives, Controls, [Next]_vars
             PROVE  Controls'
  OBVIOUS
<1>1. CASE \E j \in Jobs : JobStep(j)
  BY <1>1, JobControls
<1>2. CASE LinkLost \/ UNCHANGED vars
  <2>1. UNCHANGED <<wire, current, store, verdict, moved>>
    BY <1>2 DEF LinkLost, vars, laserVars
  <2>2. QED BY <2>1 DEF Controls, Starts, Harmless, IsPath, Control
<1>3. CASE OtherConnect
  <2>1. /\ Cut /\ current' \in {current, None} /\ moved \subseteq moved'
        /\ UNCHANGED <<store, verdict>>
    BY <1>3, WireCut DEF OtherConnect, NewConnection
  <2>2. QED BY <2>1, CutControls
<1>4. CASE LaserHandles
  <2>1. UNCHANGED <<moved, verdict>>
    BY <1>4, HandledStep
  <2>2. ASSUME NEW n \in 1..Len(wire'),
               wire'[n].at = Control(wire'[n].job), wire'[n].job \notin moved
        PROVE  Starts(n)'
    <3>1. wire'[n] = wire[n + 1] /\ n + 1 \in 1..Len(wire) /\ n \in Nat
      BY <1>4, Shorter
    <3>2. Starts(n + 1)
      BY <2>2, <3>1 DEF Controls
    <3>3. Harmless(wire[1])
      <4>1. 1 \in 1..(n + 1) - 1
        BY <3>1
      <4>2. QED BY <3>2, <4>1 DEF Starts
    <3>4. UNCHANGED <<current, store>>
      BY <1>4, <3>3, Handling DEF Harmless
    <3>5. ASSUME NEW m \in 1..n - 1 PROVE Harmless(wire'[m])
      <4>1. m + 1 \in 1..(n + 1) - 1 /\ m \in 1..Len(wire')
        BY <1>4, <3>1, Shorter
      <4>2. Harmless(wire[m + 1]) /\ wire'[m] = wire[m + 1]
        BY <1>4, <3>2, <4>1, Shorter DEF Starts
      <4>3. QED BY <4>2 DEF Harmless, IsPath, Control
    <3>6. QED BY <2>1, <3>1, <3>2, <3>4, <3>5 DEF Starts
  <2>3. QED BY <2>1, <2>2 DEF Controls, Control
<1>5. QED BY <1>1, <1>2, <1>3, <1>4 DEF Next
-----------------------------------------------------------------------------
(* A job that has sent its JOB_CONTROL cannot fail any more.               *)
Done(i) ==
  \/ verdict[i] \in {"submitted", "raised"}
  \/ /\ pc[i] \in {"sending", "awaiting"}
     /\ \/ step[i] > Control(i)
        \/ step[i] = Control(i) /\ pc[i] = "awaiting"

Earlier(ts, i, j) ==
  \E m, n \in 1..Len(ts) : m < n /\ ts[m] = i /\ ts[n] = j

Fresh(rs, ts, i) ==
  \A m \in 1..Len(rs) : rs[m][1] # i /\ Earlier(ts, rs[m][1], i)

RanWhole == \A n \in 1..Len(ran) :
  ran[n][2] = Upto(NPaths[ran[n][1]]) /\ Done(ran[n][1])

AllFresh == \A n \in 1..Len(wire) :
  wire[n].at = Control(wire[n].job) => Fresh(ran, turns, wire[n].job)

Runs == moved = {} => RanWhole /\ AllFresh

LEMMA DoneKept ==
  ASSUME TypeOK, Holding, OnWire, NEW j \in Jobs, JobStep(j),
         NEW i \in Jobs, Done(i)
  PROVE  Done(i)'
<1>1. CASE i # j
  <2>1. /\ pc'[i] = pc[i] /\ step'[i] = step[i]
        /\ verdict'[i] = verdict[i]
    BY <1>1, JobFrame
  <2>2. QED BY <2>1 DEF Done, Control
<1>2. CASE i = j
  <2>1. Control(j) \in Nat /\ step[j] \in Nat /\ Control(j) > 1
    <3>1. NPaths[j] \in Nat
      BY ScriptPlaces
    <3>2. Control(j) \in Nat /\ Control(j) > 1
      BY <3>1 DEF Control
    <3>3. step[j] \in Nat
      BY DEF TypeOK
    <3>4. QED BY <3>2, <3>3
  <2>2. pc[j] # "idle" /\ pc[j] # "locked"
    BY <1>2, <2>1 DEF Done, Holding
  <2>3. pc[j] \in {"sending", "awaiting"} => step[j] >= Control(j)
    BY <1>2, <2>1 DEF Done, Holding
  <2>4. ~AcquireLock(j) /\ ~Begin(j) /\ ~NotReachable(j)
    BY <2>2 DEF AcquireLock, Begin, NotReachable
  <2>5. CASE Send(j)
    <3>1. pc'[j] = "awaiting" /\ step'[j] = step[j] /\ pc[j] = "sending"
      BY <2>5 DEF Send, TypeOK
    <3>2. QED BY <1>2, <2>1, <2>3, <3>1 DEF Done, Control
  <2>6. CASE Answered(j) \/ Unanswered(j)
    <3>1. /\ pc[j] \in {"sending", "awaiting"}
          /\ Proceed(j) \/ Return(j, "failed")
      BY <2>6 DEF Answered, Unanswered
    <3>2. CASE Return(j, "failed")
      <4>1. verdict'[j] = "failed" /\ verdict[j] # "failed"
        BY <3>1, <3>2 DEF Return, Holding, TypeOK
      <4>2. QED BY <2>1, <2>3, <3>1, <4>1, FailsEarly
    <3>3. CASE Proceed(j)
      <4>1. CASE AtEnd(j)
        BY <1>2, <3>3, <4>1 DEF Proceed, Return, TypeOK, Done
      <4>2. CASE ~AtEnd(j)
        <5>1. step'[j] = step[j] + 1 /\ pc'[j] = "sending"
          BY <3>3, <4>2 DEF Proceed, TypeOK
        <5>2. QED BY <1>2, <2>1, <2>3, <3>1, <5>1 DEF Done, Control
      <4>3. QED BY <4>1, <4>2
    <3>4. QED BY <3>1, <3>2, <3>3
  <2>7. CASE Raise(j)
    BY <1>2, <2>7 DEF Raise, Return, TypeOK, Done
  <2>8. QED BY <2>4, <2>5, <2>6, <2>7 DEF JobStep
<1>3. QED BY <1>1, <1>2

LEMMA EarlierKept ==
  ASSUME TypeOK, NEW j \in Jobs, JobStep(j), NEW x, NEW y,
         Earlier(turns, x, y)
  PROVE  Earlier(turns', x, y)
<1>1. CASE AcquireLock(j)
  <2>1. /\ Len(turns) \in Nat /\ Len(turns') = Len(turns) + 1
        /\ \A n \in 1..Len(turns) : turns'[n] = turns[n]
    BY <1>1, AppendProperties, LenProperties DEF AcquireLock, TypeOK
  <2>2. QED BY <2>1 DEF Earlier
<1>2. CASE ~AcquireLock(j)
  <2>1. turns' = turns
    BY <1>2
    DEF JobStep, Begin, NotReachable, Send, Raise, Answered, Unanswered
  <2>2. QED BY <2>1 DEF Earlier
<1>3. QED BY <1>1, <1>2

LEMMA RanJob ==
  ASSUME TypeOK, NEW n \in 1..Len(ran)
  PROVE  ran[n] \in Jobs \X Seq(Nat) /\ ran[n][1] \in Jobs
<1>1. ran[n] \in Jobs \X Seq(Nat)
  BY ElementOfSeq DEF TypeOK
<1>2. QED BY <1>1

LEMMA RunsInit == Init => Runs
<1> SUFFICES ASSUME Init PROVE RanWhole /\ AllFresh
  BY DEF Runs
<1>1. Len(wire) = 0 /\ Len(ran) = 0
  BY DEF Init
<1>2. QED BY <1>1 DEF RanWhole, AllFresh

LEMMA JobRuns ==
  ASSUME TypeOK, Holding, InTurn, OnWire, Runs, NEW j \in Jobs, JobStep(j)
  PROVE  Runs'
<1>1. UNCHANGED <<ran, moved>>
  BY LaserFrame
<1> SUFFICES ASSUME moved = {} PROVE RanWhole' /\ AllFresh'
  BY <1>1 DEF Runs
<1>2. RanWhole /\ AllFresh
  BY DEF Runs
<1>3. RanWhole'
  <2>1. ASSUME NEW n \in 1..Len(ran)
        PROVE  ran[n][2] = Upto(NPaths[ran[n][1]]) /\ Done(ran[n][1])'
    <3>1. ran[n][1] \in Jobs
      BY RanJob
    <3>2. ran[n][2] = Upto(NPaths[ran[n][1]]) /\ Done(ran[n][1])
      BY <1>2 DEF RanWhole
    <3>3. DEFINE i == ran[n][1]
    <3>4. ran'[n][1] = ran[n][1]
      BY <1>1
    <3>5. \A x \in Jobs : Done(x) => Done(x)'
      BY DoneKept
    <3>6. QED BY <1>1, <3>1, <3>2, <3>4, <3>5 DEF Done, Control
  <2>2. QED BY <1>1, <2>1 DEF RanWhole
<1>4. ASSUME NEW i, Fresh(ran, turns, i) PROVE Fresh(ran, turns', i)
  <2>1. ASSUME NEW m \in 1..Len(ran)
        PROVE  ran[m][1] # i /\ Earlier(turns', ran[m][1], i)
    <3>1. ran[m][1] # i /\ Earlier(turns, ran[m][1], i)
      BY <1>4 DEF Fresh
    <3>2. QED BY <3>1, EarlierKept
  <2>2. QED BY <2>1 DEF Fresh
<1>5. CASE Cut
  <2>1. ASSUME NEW n \in 1..Len(wire'), wire'[n].at = Control(wire'[n].job)
        PROVE  Fresh(ran, turns', wire'[n].job)
    <3>1. Fresh(ran, turns, wire'[n].job)
      BY <1>2, <1>5, <2>1 DEF AllFresh, Cut
    <3>2. QED BY <1>4, <3>1
  <2>2. AllFresh'
    BY <1>1, <2>1 DEF AllFresh, Control
  <2>3. QED BY <1>3, <2>2
<1>7. CASE Send(j)
  <2>1. /\ pc[j] = "sending" /\ turns' = turns
        /\ wire' = Append(wire, [job |-> j, at |-> step[j]])
    BY <1>7 DEF Send
  <2>2. /\ Len(wire) \in Nat /\ Len(wire') = Len(wire) + 1
        /\ \A n \in 1..Len(wire) : wire'[n] = wire[n]
        /\ wire'[Len(wire) + 1] = [job |-> j, at |-> step[j]]
    <3>1. [job |-> j, at |-> step[j]] \in Requests
      BY DEF Requests, TypeOK
    <3>2. QED BY <2>1, <3>1, AppendProperties, LenProperties DEF TypeOK
  <2>3. ASSUME step[j] = Control(j), NEW m \in 1..Len(ran)
        PROVE  ran[m][1] # j /\ Earlier(turns, ran[m][1], j)
    <3>1. Done(ran[m][1]) /\ ran[m][1] \in Jobs
      BY <1>2, RanJob DEF RanWhole
    <3>2. ~Done(j)
      <4>1. verdict[j] = "none"
        BY <2>1 DEF Holding
      <4>2. Control(j) \in Nat
        BY ScriptPlaces
      <4>3. QED BY <2>1, <2>3, <4>1, <4>2 DEF Done
    <3>3. pc[ran[m][1]] # "idle"
      BY <3>1 DEF Done, Holding
    <3>4. PICK k \in 1..Len(turns) : turns[k] = ran[m][1]
      BY <3>1, <3>3 DEF InTurn, Had
    <3>5. lock = j /\ lock # None
      BY <2>1, JobAssumption DEF Holding, Active
    <3>6. Len(turns) \in 1..Len(turns) /\ turns[Len(turns)] = j
      BY <3>5 DEF InTurn
    <3>7. k # Len(turns)
      BY <3>1, <3>2, <3>4, <3>6
    <3>8. k < Len(turns)
      BY <3>6, <3>7
    <3>9. QED BY <3>1, <3>2, <3>4, <3>6, <3>8 DEF Earlier
  <2>4. ASSUME NEW n \in 1..Len(wire'), wire'[n].at = Control(wire'[n].job),
               NEW m \in 1..Len(ran)
        PROVE  /\ ran[m][1] # wire'[n].job
               /\ Earlier(turns, ran[m][1], wire'[n].job)
    <3>1. CASE n \in 1..Len(wire)
      <4>1. wire'[n] = wire[n]
        BY <2>2, <3>1
      <4>2. Fresh(ran, turns, wire[n].job)
        BY <1>2, <2>4, <3>1, <4>1 DEF AllFresh
      <4>3. QED BY <4>1, <4>2 DEF Fresh
    <3>2. CASE n = Len(wire) + 1
      <4>1. wire'[n] = [job |-> j, at |-> step[j]]
        BY <2>2, <3>2
      <4>2. wire'[n].job = j /\ step[j] = Control(j)
        BY <2>4, <4>1
      <4>3. QED BY <2>3, <4>2
    <3>3. QED BY <2>2, <3>1, <3>2
  <2>5. AllFresh'
    BY <1>1, <2>1, <2>4 DEF AllFresh, Fresh, Control
  <2>6. QED BY <1>3, <2>5
<1>8. NewConnection \/ UNCHANGED wire \/ Send(j)
  BY DEF JobStep, AcquireLock, Begin, NotReachable, Raise, Answered,
         Unanswered
<1>9. QED BY <1>5, <1>7, <1>8, WireCut

(* The laser starts the job whose JOB_CONTROL is first on the wire.        *)
LEMMA RunStep ==
  ASSUME TypeOK, Holding, OnWire, Controls, moved = {}, LaserHandles,
         wire[1].at = Control(wire[1].job)
  PROVE  /\ wire[1].job \in Jobs
         /\ \/ UNCHANGED ran
            \/ ran' = Append(ran, <<wire[1].job, Upto(NPaths[wire[1].job])>>)
         /\ verdict[wire[1].job] # "failed" /\ Done(wire[1].job)
         /\ \A n \in 1..Len(wire') : wire'[n].at # Control(wire'[n].job)
<1> DEFINE i == wire[1].job
<1>1. i \in Jobs /\ 1 \in 1..Len(wire) /\ wire[1].at \in Nat
  BY Shorter
<1>2. /\ current \in {i, None} /\ store[i] = Upto(NPaths[i])
      /\ verdict[i] # "failed"
  BY <1>1 DEF Controls, Starts
<1>3. i # None
  BY <1>1, JobAssumption
<1>4. UNCHANGED ran \/ ran' = Append(ran, <<i, Upto(NPaths[i])>>)
  BY <1>2, <1>3, Handling
<1>5. Done(i)
  <2>1. CASE pc[i] \in {"idle", "locked"}
    <3>1. Unstarted(i)
      BY <1>1 DEF OnWire
    <3>2. QED BY <1>1, <2>1, <3>1 DEF Unstarted
  <2>2. CASE pc[i] \in {"sending", "awaiting"}
    <3>1. InOrder(i)
      BY <1>1 DEF OnWire
    <3>2. /\ Control(i) <= step[i]
          /\ Control(i) = step[i] => pc[i] = "awaiting"
      BY <1>1, <2>2, <3>1 DEF InOrder, Waits
    <3>3. Control(i) \in Nat /\ step[i] \in Nat
      BY <1>1, ScriptPlaces DEF TypeOK
    <3>4. QED BY <2>2, <3>2, <3>3 DEF Done
  <2>3. CASE pc[i] = "returned"
    <3>1. verdict[i] # "none"
      BY <1>1, <2>3 DEF Holding
    <3>2. verdict[i] \in Verdicts
      BY <1>1 DEF TypeOK
    <3>3. QED BY <1>2, <3>1, <3>2 DEF Done, Verdicts
  <2>4. pc[i] \in {"idle", "locked", "sending", "awaiting", "returned"}
    BY <1>1 DEF TypeOK
  <2>5. QED BY <2>1, <2>2, <2>3, <2>4
<1>6. ASSUME NEW n \in 1..Len(wire'), wire'[n].at = Control(wire'[n].job)
      PROVE  FALSE
  <2>1. /\ wire'[n] = wire[n + 1] /\ n + 1 \in 1..Len(wire)
        /\ 1 \in 1..(n + 1) - 1
    BY Shorter
  <2>2. Starts(n + 1)
    BY <1>6, <2>1 DEF Controls
  <2>3. Harmless(wire[1])
    BY <2>1, <2>2 DEF Starts
  <2>4. QED BY <2>3 DEF Harmless
<1>7. QED BY <1>1, <1>2, <1>4, <1>5, <1>6

LEMMA LaserRuns ==
  ASSUME TypeOK, Holding, OnWire, Controls, Runs, LaserHandles PROVE Runs'
<1>1. UNCHANGED <<pc, step, verdict, moved, turns>>
  BY HandledStep
<1> SUFFICES ASSUME moved = {} PROVE RanWhole' /\ AllFresh'
  BY <1>1 DEF Runs
<1>2. RanWhole /\ AllFresh
  BY DEF Runs
<1>3. CASE wire[1].at = Control(wire[1].job) /\ ran' # ran
  <2> DEFINE i == wire[1].job
             whole == Upto(NPaths[i])
  <2>1. /\ i \in Jobs /\ ran' = Append(ran, <<i, whole>>) /\ Done(i)
        /\ \A n \in 1..Len(wire') : wire'[n].at # Control(wire'[n].job)
    BY <1>3, RunStep
  <2>2. AllFresh'
    BY <2>1 DEF AllFresh, Control
  <2>3. \A x : Done(x) => Done(x)'
    BY <1>1 DEF Done, Control
  <2>4. <<i, whole>> \in Jobs \X Seq(Nat)
    <3>1. NPaths[i] \in Nat
      BY <2>1, ScriptPlaces
    <3>2. QED BY <2>1, <3>1, UptoGrows
  <2>5. /\ Len(ran) \in Nat /\ Len(ran') = Len(ran) + 1
        /\ \A n \in 1..Len(ran) : ran'[n] = ran[n]
        /\ ran'[Len(ran) + 1] = <<i, whole>>
    <3> DEFINE S == Jobs \X Seq(Nat)
    <3>1. ran \in Seq(S) /\ <<i, whole>> \in S
      BY <2>4 DEF TypeOK
    <3> HIDE DEF S, whole, i
    <3>2. Len(ran) \in Nat
      BY <3>1, LenProperties
    <3>3. QED BY <2>1, <3>1, <3>2, AppendProperties
  <2>6. ASSUME NEW n \in 1..Len(ran')
        PROVE  \E x, w : /\ ran'[n] = <<x, w>> /\ w = Upto(NPaths[x])
                         /\ Done(x)
    <3>1. CASE n \in 1..Len(ran)
      <4>1. ran[n] \in Jobs \X Seq(Nat)
        BY <3>1, RanJob
      <4>2. ran'[n] = ran[n]
        BY <2>5, <3>1
      <4>3. ran[n] = <<ran[n][1], ran[n][2]>>
        BY <4>1
      <4>4. ran[n][2] = Upto(NPaths[ran[n][1]]) /\ Done(ran[n][1])
        BY <1>2, <3>1 DEF RanWhole
      <4>5. QED BY <4>2, <4>3, <4>4
    <3>2. CASE n = Len(ran) + 1
      BY <2>1, <2>5, <3>2
    <3>3. QED BY <2>5, <3>1, <3>2
  <2>7. RanWhole'
    <3>1. ASSUME NEW n \in 1..Len(ran')
          PROVE  ran'[n][2] = Upto(NPaths[ran'[n][1]]) /\ Done(ran[n][1])'
      <4>1. PICK x, w : /\ ran'[n] = <<x, w>> /\ w = Upto(NPaths[x])
                        /\ Done(x)
        BY <2>6
      <4>2. ran'[n][1] = x /\ ran'[n][2] = w
        BY <4>1
      <4>3. QED BY <1>1, <4>1, <4>2 DEF Done, Control
    <3>2. QED BY <3>1 DEF RanWhole
  <2>8. QED BY <2>2, <2>7
<1>4. CASE wire[1].at # Control(wire[1].job) \/ ran' = ran
  <2>1. ran' = ran
    BY <1>4, Handling
  <2>2. RanWhole'
    BY <1>1, <1>2, <2>1 DEF RanWhole, Done, Control
  <2>3. AllFresh'
    <3>1. ASSUME NEW n \in 1..Len(wire'),
                 wire'[n].at = Control(wire'[n].job)
          PROVE  Fresh(ran, turns, wire'[n].job)
      <4>1. wire'[n] = wire[n + 1] /\ n + 1 \in 1..Len(wire)
        BY Shorter
      <4>2. QED BY <1>2, <3>1, <4>1 DEF AllFresh
    <3>2. QED BY <1>1, <2>1, <3>1 DEF AllFresh, Control
  <2>4. QED BY <2>2, <2>3
<1>5. QED BY <1>3, <1>4

LEMMA RunsKept ==
  /\ TypeOK /\ Holding /\ InTurn /\ OnWire /\ Controls /\ Runs
  /\ [Next]_vars
  => Runs'
<1> SUFFICES ASSUME TypeOK, Holding, InTurn, OnWire, Controls, Runs,
                    [Next]_vars
             PROVE  Runs'
  OBVIOUS
<1>1. CASE \E j \in Jobs : JobStep(j)
  BY <1>1, JobRuns
<1>2. CASE LinkLost \/ UNCHANGED vars
  <2>1. UNCHANGED <<pc, step, verdict, wire, ran, turns, moved>>
    BY <1>2 DEF LinkLost, vars, laserVars
  <2>2. QED BY <2>1 DEF Runs, RanWhole, AllFresh, Done, Control
<1>3. CASE OtherConnect
  <2>1. /\ UNCHANGED <<pc, step, verdict, ran, turns>> /\ Cut
        /\ moved' = {} => moved = {}
    BY <1>3, WireCut DEF OtherConnect
  <2>3. RanWhole => RanWhole'
    BY <2>1 DEF RanWhole, Done, Control
  <2>4. AllFresh => AllFresh'
    BY <2>1 DEF AllFresh, Cut, Control
  <2>5. QED BY <2>1, <2>3, <2>4 DEF Runs
<1>4. CASE LaserHandles
  BY <1>4, LaserRuns
<1>5. QED BY <1>1, <1>2, <1>3, <1>4 DEF Next
-----------------------------------------------------------------------------
Unmoved == ~monitored => moved = {}

LEMMA UnmovedKept == Unmoved /\ [Next]_vars => Unmoved'
<1> SUFFICES ASSUME Unmoved, [Next]_vars PROVE Unmoved'
  OBVIOUS
<1>1. UNCHANGED <<monitored, moved>> \/ (monitored /\ UNCHANGED monitored)
  BY LaserFrame
  DEF Next, LinkLost, OtherConnect, LaserHandles, vars
<1>2. QED BY <1>1 DEF Unmoved

Safe == /\ TypeOK /\ Holding /\ InTurn /\ OnWire /\ Receives /\ Controls
        /\ Runs /\ Unmoved

LEMMA SafeInit == Init => Safe
<1>1. Init => Unmoved
  BY DEF Init, Unmoved
<1>2. QED BY <1>1, TypeInit, HoldingInit, TurnInit, WireInit, ReceivesInit,
             ControlsInit, RunsInit DEF Safe

LEMMA SafeKept == Safe /\ [Next]_vars => Safe'
BY TypeKept, HoldingKept, TurnKept, WireKept, ReceivesKept, ControlsKept,
   RunsKept, UnmovedKept DEF Safe

LEMMA SafeAlways == Spec => []Safe
BY SafeInit, SafeKept, PTL DEF Spec

(* THEOREM: type correctness; among others, every request on the wire is   *)
(* one of its job's script, and no more connections are counted than made. *)
THEOREM TypesHold == Spec => []TypeOK
<1>1. Safe => TypeOK
  BY DEF Safe
<1>2. QED BY <1>1, SafeAlways, PTL

(* THEOREM: the heartbeat is paused exactly while the job that holds the   *)
(* lock is sending.                                                        *)
THEOREM PausedOnlyByAJob == Spec => []PausedByAJob
<1>1. Safe => PausedByAJob
  BY DEF Safe, Holding
<1>2. QED BY <1>1, SafeAlways, PTL

(* THEOREM: what the laser runs it has whole, each path once and in order, *)
(* whatever is lost, unanswered or late, as long as no connection was      *)
(* replaced under a job.                                                   *)
THEOREM WholeJobsRun == Spec => []RunsAreWhole
<1>1. Safe => RunsAreWhole
  BY DEF Safe, Runs, RanWhole, RunsAreWhole, Upto, AllPaths
<1>2. QED BY <1>1, SafeAlways, PTL

(* A job that gets True has sent all its requests.                         *)
LEMMA SubmittedStep ==
  Safe /\ [Next]_vars =>
    (\A j \in Jobs : verdict[j] # "submitted" /\ verdict'[j] = "submitted"
       => j \in moved \/ store[j] = AllPaths(j))
<1> SUFFICES ASSUME Safe, [Next]_vars, NEW j \in Jobs,
                    verdict[j] # "submitted", verdict'[j] = "submitted",
                    j \notin moved
             PROVE  store[j] = AllPaths(j)
  OBVIOUS
<1> USE DEF Safe
<1>1. PICK i \in Jobs : JobStep(i)
  <2>1. verdict' # verdict
    OBVIOUS
  <2>2. QED BY <2>1 DEF Next, LinkLost, OtherConnect, LaserHandles, vars
<1>2. i = j
  BY <1>1, JobFrame
<1>3. /\ pc[j] \in {"sending", "awaiting"} /\ AtEnd(j)
  <2>1. Answered(j) \/ Unanswered(j)
    <3>1. "failed" # "submitted"
      OBVIOUS
    <3>2. Return(j, "failed") => verdict'[j] = "failed"
      BY DEF Return, TypeOK
    <3>3. Return(j, "raised") => verdict'[j] = "raised"
      BY DEF Return, TypeOK
    <3>4. QED BY <1>1, <1>2, <3>1, <3>2, <3>3
              DEF JobStep, AcquireLock, Begin, NotReachable, Send, Raise
  <2>2. Return(j, "failed") => verdict'[j] = "failed"
    BY DEF Return, TypeOK
  <2>3. Proceed(j)
    BY <2>1, <2>2 DEF Answered, Unanswered
  <2>4. AtEnd(j)
    BY <2>3 DEF Proceed
  <2>5. QED BY <2>1, <2>4 DEF Answered, Unanswered
<1>4. step[j] = Control(j) + 1 /\ Control(j) \in Nat /\ Control(j) > 4
  <2>1. /\ NPaths[j] \in Nat /\ Control(j) \in Nat
        /\ Len(Script(j)) = Control(j) + 1
    BY ScriptPlaces
  <2>2. Control(j) > 4
    BY <2>1 DEF Control
  <2>3. QED BY <1>3, <2>1, <2>2 DEF AtEnd
<1>5. Uploaded(j)
  BY <1>3, <1>4 DEF Uploaded
<1>6. store[j] = Upto(Taken(j))
  BY <1>5 DEF Receives, Receiving
<1>7. Taken(j) = NPaths[j]
  <2>1. ~IsPath(j, step[j])
    BY <1>4 DEF IsPath
  <2>2. Taken(j) = PathsBefore(Control(j) + 1)
    BY <1>4, <2>1 DEF Taken
  <2>3. Control(j) \in 4..Control(j)
    BY <1>4
  <2>4. QED BY <2>2, <2>3, Counting
<1>8. QED BY <1>6, <1>7 DEF Upto, AllPaths

(* THEOREM: engrave() returns True only when the laser has the whole job,  *)
(* unless the connection was replaced under it.                            *)
THEOREM SubmittedUploaded == Spec => SubmittedIsUploaded
<1>1. Safe /\ [Next]_vars =>
        [\A j \in Jobs : verdict[j] # "submitted" /\ verdict'[j] = "submitted"
           => j \in moved \/ store[j] = AllPaths(j)]_vars
  BY SubmittedStep
<1>2. QED BY <1>1, SafeAlways, PTL DEF Spec, SubmittedIsUploaded
-----------------------------------------------------------------------------
(* The three variables of LaserJob as EngraveJob has them.                 *)
RanJobs == [n \in 1..Len(ran) |-> ran[n][1]]
Nobody  == [j \in Jobs |-> "none"]

aTurns   == Shown(turns, <<>>)
aVerdict == Shown(verdict, Nobody)
aRan     == Shown(RanJobs, <<>>)

LEMMA PromiseInit == Init => Promise!Init
<1> SUFFICES ASSUME Init PROVE Promise!Init
  OBVIOUS
<1>1. turns = <<>> /\ verdict = Nobody /\ Len(ran) = 0
  BY DEF Init, Nobody
<1>2. RanJobs = <<>>
  BY <1>1 DEF RanJobs
<1>3. aTurns = <<>> /\ aVerdict = Nobody /\ aRan = <<>>
  BY <1>1, <1>2 DEF aTurns, aVerdict, aRan, Shown
<1>4. QED BY <1>3 DEF Promise!Init, aTurns, aVerdict, aRan, RanJobs, Nobody

(* Shown, or hidden, the same on both sides of a step.                     *)
LEMMA ShownStep ==
  ASSUME UNCHANGED monitored
  PROVE  /\ ~monitored => /\ aTurns = turns /\ aTurns' = turns'
                          /\ aVerdict = verdict /\ aVerdict' = verdict'
                          /\ aRan = RanJobs /\ aRan' = RanJobs'
         /\ monitored => UNCHANGED <<aTurns, aVerdict, aRan>>
BY DEF aTurns, aVerdict, aRan, Shown, Nobody

(* The actions of LaserJob, over the three variables.                      *)
LEMMA PromiseStep ==
  ASSUME NEW j \in Jobs,
         \/ /\ ~(\E n \in 1..Len(aTurns) : aTurns[n] = j)
            /\ aVerdict[j] = "none"
            /\ \A n \in 1..Len(aTurns) : aVerdict[aTurns[n]] # "none"
            /\ aTurns' = Append(aTurns, j) /\ UNCHANGED <<aVerdict, aRan>>
         \/ /\ \E n \in 1..Len(aTurns) : aTurns[n] = j
            /\ ~(\E n \in 1..Len(aRan) : aRan[n] = j)
            /\ aVerdict[j] # "failed"
            /\ \A n \in 1..Len(aRan) : Earlier(aTurns, aRan[n], j)
            /\ aRan' = Append(aRan, j) /\ UNCHANGED <<aTurns, aVerdict>>
         \/ /\ \E n \in 1..Len(aTurns) : aTurns[n] = j
            /\ aVerdict[j] = "none"
            /\ aVerdict' = [aVerdict EXCEPT ![j] = "submitted"]
            /\ UNCHANGED <<aTurns, aRan>>
         \/ /\ \E n \in 1..Len(aTurns) : aTurns[n] = j
            /\ ~(\E n \in 1..Len(aRan) : aRan[n] = j)
            /\ aVerdict[j] = "none"
            /\ aVerdict' = [aVerdict EXCEPT ![j] = "failed"]
            /\ UNCHANGED <<aTurns, aRan>>
         \/ /\ \E n \in 1..Len(aTurns) : aTurns[n] = j
            /\ aVerdict[j] = "none"
            /\ aVerdict' = [aVerdict EXCEPT ![j] = "raised"]
            /\ UNCHANGED <<aTurns, aRan>>
  PROVE  Promise!Next
BY DEF Promise!Next, Promise!Begin, Promise!Run, Promise!Succeed,
       Promise!Fail, Promise!Raise, Promise!Had, Promise!Ran, Promise!Before, Earlier,
       aTurns, aVerdict, aRan, RanJobs, Nobody

LEMMA RanSequence ==
  ASSUME TypeOK
  PROVE  /\ Len(ran) \in Nat /\ Len(RanJobs) = Len(ran)
         /\ RanJobs \in Seq(Jobs)
         /\ \A n \in 1..Len(ran) : RanJobs[n] = ran[n][1]
<1>1. Len(ran) \in Nat
  BY LenProperties DEF TypeOK
<1>2. \A n \in 1..Len(ran) : ran[n][1] \in Jobs
  BY RanJob
<1>3. RanJobs \in [1..Len(ran) -> Jobs]
  BY <1>2 DEF RanJobs
<1>4. RanJobs \in Seq(Jobs)
  BY <1>1, <1>3, SeqDef
<1>5. DOMAIN RanJobs = 1..Len(ran)
  BY DEF RanJobs
<1>6. Len(RanJobs) = Len(ran)
  <2>1. Len(RanJobs) \in Nat /\ DOMAIN RanJobs = 1..Len(RanJobs)
    BY <1>4, LenProperties
  <2>2. QED BY <1>1, <1>5, <2>1
<1>7. QED BY <1>1, <1>4, <1>6 DEF RanJobs

LEMMA RanAppends ==
  ASSUME TypeOK, NEW i \in Jobs, NEW w \in Seq(Nat),
         ran' = Append(ran, <<i, w>>)
  PROVE  RanJobs' = Append(RanJobs, i)
<1> DEFINE S == Jobs \X Seq(Nat)
           r == ran'
           new == [n \in 1..Len(r) |-> r[n][1]]
<1>1. ran \in Seq(S) /\ <<i, w>> \in S
  BY DEF TypeOK
<1> HIDE DEF S
<1>2. /\ Len(r) = Len(ran) + 1 /\ Len(ran) \in Nat
      /\ \A n \in 1..Len(ran) : r[n] = ran[n]
      /\ r[Len(ran) + 1] = <<i, w>>
  BY <1>1, AppendProperties, LenProperties
<1>3. /\ Append(RanJobs, i) \in Seq(Jobs)
      /\ Len(Append(RanJobs, i)) = Len(ran) + 1
      /\ \A n \in 1..Len(ran) : Append(RanJobs, i)[n] = ran[n][1]
      /\ Append(RanJobs, i)[Len(ran) + 1] = i
  BY RanSequence, AppendProperties
<1>4. new = Append(RanJobs, i)
  <2> DEFINE old == Append(RanJobs, i)
  <2>1. DOMAIN old = 1..Len(ran) + 1 /\ old \in [1..Len(ran) + 1 -> Jobs]
    BY <1>3, LenProperties
  <2>2. \A n \in 1..Len(ran) + 1 : r[n][1] = old[n]
    BY <1>2, <1>3
  <2> HIDE DEF r, old
  <2>3. new = [n \in 1..Len(ran) + 1 |-> old[n]]
    BY <1>2, <2>2
  <2>4. QED BY <2>1, <2>3 DEF old
<1>5. QED BY <1>4 DEF RanJobs

LEMMA NextIsPromised ==
  Safe /\ [Next]_vars =>
    Promise!Next \/ UNCHANGED <<aTurns, aVerdict, aRan>>
<1> SUFFICES ASSUME Safe, [Next]_vars
             PROVE  Promise!Next \/ UNCHANGED <<aTurns, aVerdict, aRan>>
  OBVIOUS
<1> USE DEF Safe
<1>1. UNCHANGED monitored
  BY LaserFrame DEF Next, LinkLost, OtherConnect, LaserHandles, vars
<1>2. CASE monitored
  BY <1>1, <1>2, ShownStep
<1>3. CASE ~monitored
  <2>1. moved = {} /\ RanWhole
    BY <1>3 DEF Unmoved, Runs
  <2>2. /\ aTurns = turns /\ aTurns' = turns'
        /\ aVerdict = verdict /\ aVerdict' = verdict'
        /\ aRan = RanJobs /\ aRan' = RanJobs'
    BY <1>1, <1>3, ShownStep
  <2>3. UNCHANGED ran => UNCHANGED aRan
    BY <2>2 DEF RanJobs
  <2>4. ASSUME NEW j \in Jobs, AcquireLock(j) PROVE Promise!Next
    <3>1. /\ pc[j] = "idle" /\ lock = None /\ turns' = Append(turns, j)
          /\ UNCHANGED <<verdict, ran>>
      BY <2>4 DEF AcquireLock, LockFree, laserVars
    <3>2. ~(\E n \in 1..Len(turns) : turns[n] = j) /\ verdict[j] = "none"
      BY <3>1 DEF InTurn, Had, Holding
    <3>3. ASSUME NEW n \in 1..Len(turns) PROVE verdict[turns[n]] # "none"
      <4>1. turns[n] \in Jobs
        BY ElementOfSeq DEF TypeOK
      <4>2. pc[turns[n]] # "idle"
        BY <4>1 DEF InTurn, Had
      <4>3. ~Active(turns[n])
        BY <3>1, <4>1, JobAssumption DEF Holding
      <4>4. pc[turns[n]] = "returned"
        BY <4>1, <4>2, <4>3 DEF TypeOK, Active
      <4>5. QED BY <4>1, <4>4 DEF Holding
    <3>4. QED BY <2>2, <2>3, <3>1, <3>2, <3>3, PromiseStep
  <2>5. ASSUME NEW j \in Jobs, JobStep(j), ~AcquireLock(j)
        PROVE  Promise!Next \/ UNCHANGED <<aTurns, aVerdict, aRan>>
    <3>1. UNCHANGED <<turns, ran>>
      BY <2>5, NotIdle, LaserFrame
    <3>2. CASE UNCHANGED verdict
      BY <2>2, <2>3, <3>1, <3>2
    <3>3. CASE ~UNCHANGED verdict
      <4>1. /\ Active(j)
            /\ \/ Return(j, "submitted") \/ Return(j, "failed")
               \/ Return(j, "raised")
        BY <2>5, <3>3
        DEF JobStep, Begin, NotReachable, Send, Raise, Answered, Unanswered,
            Proceed, Active
      <4>2. PICK v \in {"submitted", "failed", "raised"} :
              verdict' = [verdict EXCEPT ![j] = v]
        BY <4>1 DEF Return
      <4>3. verdict[j] = "none" /\ verdict[j] # "failed"
        BY <4>1 DEF Holding, Active
      <4>4. \E n \in 1..Len(turns) : turns[n] = j
        BY <4>1 DEF InTurn, Had, Active
      <4>5. CASE v = "submitted"
        BY <2>2, <2>3, <3>1, <4>2, <4>3, <4>4, <4>5, PromiseStep
      <4>6. CASE v = "failed"
        <5>1. verdict'[j] = "failed"
          BY <4>2, <4>6 DEF TypeOK
        <5>2. step[j] < Control(j) /\ step[j] \in Nat /\ Control(j) \in Nat
          BY <2>5, <4>3, <5>1, FailsEarly, ScriptPlaces DEF TypeOK
        <5>3. ~Done(j)
          BY <4>3, <5>2 DEF Done
        <5>4. ~(\E n \in 1..Len(RanJobs) : RanJobs[n] = j)
          BY <2>1, <5>3, RanSequence DEF RanWhole
        <5>5. QED BY <2>2, <2>3, <3>1, <4>2, <4>3, <4>4, <4>6, <5>4,
                     PromiseStep
      <4>7. CASE v = "raised"
        BY <2>2, <2>3, <3>1, <4>2, <4>3, <4>4, <4>7, PromiseStep
      <4>8. QED BY <4>5, <4>6, <4>7
    <3>4. QED BY <3>2, <3>3
  <2>6. CASE LaserHandles
    <3>1. UNCHANGED <<turns, verdict>>
      BY <2>6, HandledStep
    <3>2. CASE wire[1].at = Control(wire[1].job) /\ ran' # ran
      <4> DEFINE i == wire[1].job
      <4>1. /\ i \in Jobs /\ ran' = Append(ran, <<i, Upto(NPaths[i])>>)
            /\ verdict[i] # "failed" /\ Done(i)
        BY <2>1, <2>6, <3>2, RunStep
      <4>2. RanJobs' = Append(RanJobs, i)
        <5>1. NPaths[i] \in Nat
          BY <4>1, ScriptPlaces
        <5>2. Upto(NPaths[i]) \in Seq(Nat)
          BY <5>1, UptoGrows
        <5>3. QED BY <4>1, <5>2, RanAppends
      <4>3. Fresh(ran, turns, i)
        <5>1. 1 \in 1..Len(wire)
          BY <2>6, Shorter
        <5>2. QED BY <2>1, <3>2, <5>1 DEF Runs, AllFresh
      <4>4. /\ ~(\E n \in 1..Len(RanJobs) : RanJobs[n] = i)
            /\ \A n \in 1..Len(RanJobs) : Earlier(turns, RanJobs[n], i)
        BY <4>3, RanSequence DEF Fresh
      <4>5. \E n \in 1..Len(turns) : turns[n] = i
        <5>1. pc[i] # "idle"
          BY <4>1 DEF Done, Holding
        <5>2. QED BY <4>1, <5>1 DEF InTurn, Had
      <4> HIDE DEF i
      <4>6. QED BY <2>2, <3>1, <4>1, <4>2, <4>4, <4>5, PromiseStep
    <3>3. CASE wire[1].at # Control(wire[1].job) \/ ran' = ran
      BY <2>2, <2>3, <2>6, <3>1, <3>3, Handling
    <3>4. QED BY <3>2, <3>3
  <2>7. CASE LinkLost \/ OtherConnect \/ UNCHANGED vars
    <3>1. UNCHANGED <<turns, verdict, ran>>
      BY <2>7 DEF LinkLost, OtherConnect, vars, laserVars
    <3>2. QED BY <2>2, <2>3, <3>1
  <2>8. QED BY <2>4, <2>5, <2>6, <2>7 DEF Next
<1>4. QED BY <1>2, <1>3

(* THEOREM: engrave() keeps the promise of LaserJob while no other thread  *)
(* connects: one job at a time, each run at most once and in turn, none    *)
(* that was reported as failed.                                            *)
THEOREM ImplementsPromise == Spec => PromiseKept
<1>1. Safe /\ [Next]_vars =>
        [Promise!Next]_<<Shown(turns, <<>>),
                         Shown(verdict, [j \in Jobs |-> "none"]),
                         Shown([n \in 1..Len(ran) |-> ran[n][1]], <<>>)>>
  BY NextIsPromised DEF aTurns, aVerdict, aRan, RanJobs, Nobody
<1>2. QED BY <1>1, PromiseInit, SafeAlways, PTL
          DEF Spec, PromiseKept, Promise!Spec
=============================================================================
