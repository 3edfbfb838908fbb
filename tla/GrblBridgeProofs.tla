--------------------------- MODULE GrblBridgeProofs ---------------------------
(* Theorems about GrblBridge, for any number of clients, jobs and lines.   *)
EXTENDS GrblBridge, TLAPS, SequenceTheorems, SequenceLemmas

JobFields == {"pc", "session", "sent", "paths", "power", "burnt", "peak",
              "good"}
Owning == {"locked", "sending"}

IsSequence(s) == \E S : s \in Seq(S)
IsJob(r) == DOMAIN r = JobFields /\ r = [f \in JobFields |-> r[f]]

(* The job threads are a sequence of records, each of a client that was.   *)
Shape ==
  /\ IsSequence(jobs)
  /\ \A j \in Threads : /\ IsJob(jobs[j])
                        /\ jobs[j].session \in Nat
                        /\ jobs[j].session <= session
  /\ session \in Nat /\ lock \in Threads \cup {None} /\ running \in BOOLEAN
  /\ paused \in BOOLEAN
  /\ good \in [apt : BOOLEAN, alone : BOOLEAN]

(* Of two jobs of one client both are masked, if the first still lives.    *)
Overlaps ==
  \A j, k \in Threads :
    j < k /\ jobs[j].session = jobs[k].session /\ Live(j)
      => j \in masked /\ k \in masked

-----------------------------------------------------------------------------
(* What a step of a job thread does to everything but its own place.       *)
Given(r) == <<r.paths, r.burnt, r.peak, r.good>>
OneChanged(j) ==
  /\ IsSequence(jobs')
  /\ Len(jobs') = Len(jobs)
  /\ \A k \in Threads : k # j => jobs'[k] = jobs[k]
  /\ IsJob(jobs'[j])
  /\ jobs'[j].session = jobs[j].session /\ jobs'[j].power = jobs[j].power
  /\ Given(jobs'[j]) = Given(jobs[j])
Effect(j) == OneChanged(j) /\ UNCHANGED <<session, host, masked>>

(* And what it does to that, the lock and the flags.                       *)
Moves(j, from, to) == jobs[j].pc = from /\ jobs'[j].pc = to
Does(j) ==
  \/ /\ Moves(j, "waiting", "locked") /\ lock = None /\ lock' = j
     /\ UNCHANGED <<paused, groups, running, good>>
  \/ /\ Moves(j, "locked", "sending") /\ paused' = TRUE
     /\ UNCHANGED <<lock, groups, running, good>>
  \/ Moves(j, "sending", "sending")
     /\ UNCHANGED <<lock, paused, groups, running, good>>
  \/ /\ jobs[j].pc \in Owning /\ jobs'[j].pc \in {"returned", "crashed"}
     /\ lock' = None /\ paused' = FALSE /\ UNCHANGED <<groups, running, good>>
  \/ /\ Moves(j, "returned", "stopped") /\ running' = (running /\ ~Mine(j))
     /\ UNCHANGED <<lock, paused, groups, good>>
  \/ /\ Moves(j, "stopped", "emptied")
     /\ UNCHANGED <<lock, paused, running, good>>
  \/ /\ Moves(j, "emptied", "ended")
     /\ UNCHANGED <<lock, paused, groups, running, good>>

LEMMA JobRecords ==
  ASSUME Shape
  PROVE  Len(jobs) \in Nat /\ DOMAIN jobs = Threads
<1>1. PICK S : jobs \in Seq(S)
  BY DEF Shape, IsSequence
<1>2. QED BY <1>1, LenProperties DEF Threads

LEMMA JobEdited ==
  ASSUME Shape, NEW j \in Threads, NEW f \in {"pc", "sent"}, NEW v,
         jobs' = [jobs EXCEPT ![j] = [@ EXCEPT ![f] = v]]
  PROVE  /\ OneChanged(j)
         /\ jobs'[j].pc = IF f = "pc" THEN v ELSE jobs[j].pc
<1> DEFINE r == [jobs[j] EXCEPT ![f] = v]
<1>1. PICK S : jobs \in Seq(S)
  BY DEF Shape, IsSequence
<1>2. /\ IsJob(r)
      /\ r.session = jobs[j].session /\ r.power = jobs[j].power
      /\ Given(r) = Given(jobs[j])
      /\ r.pc = IF f = "pc" THEN v ELSE jobs[j].pc
  BY DEF Shape, JobFields, IsJob, Given
<1>3. jobs' = [jobs EXCEPT ![j] = r]
  OBVIOUS
<1> HIDE DEF r
<1>4. /\ jobs' \in Seq(S \cup {r}) /\ Len(jobs') = Len(jobs)
      /\ jobs'[j] = r /\ \A k \in 1..Len(jobs) : k # j => jobs'[k] = jobs[k]
  BY <1>1, <1>3, Edited DEF Threads
<1>5. IsSequence(jobs')
  BY <1>4 DEF IsSequence
<1>6. /\ IsJob(jobs'[j])
      /\ jobs'[j].session = jobs[j].session
      /\ jobs'[j].power = jobs[j].power
      /\ Given(jobs'[j]) = Given(jobs[j])
      /\ jobs'[j].pc = IF f = "pc" THEN v ELSE jobs[j].pc
  BY <1>2, <1>4
<1>7. QED BY <1>4, <1>5, <1>6 DEF OneChanged, Threads

LEMMA JobEffect ==
  ASSUME Shape, NEW j \in Threads, JobStep(j)
  PROVE  Effect(j) /\ Does(j)
<1> USE DEF LaserOnly, HostSame, At, Moves
<1>1. ASSUME NEW to, Go(j, to)
      PROVE  /\ jobs'[j].pc = to
             /\ UNCHANGED <<session, host, masked>> => Effect(j)
  <2>1. jobs' = [jobs EXCEPT ![j] = [@ EXCEPT !["pc"] = to]]
    BY <1>1 DEF Go
  <2>2. OneChanged(j) /\ jobs'[j].pc = to
    BY <2>1, JobEdited
  <2>3. QED BY <2>2 DEF Effect
<1>2. CASE Acquire(j)
  BY <1>1, <1>2 DEF Acquire, Does
<1>3. CASE Begin(j)
  BY <1>1, <1>3 DEF Begin, Does
<1>4. CASE SendPath(j)
  <2>1. jobs'[j].pc = jobs[j].pc /\ Effect(j)
    <3>1. jobs' = [jobs EXCEPT ![j] = [@ EXCEPT !["sent"] =
                                                     jobs[j].sent + 1]]
      BY <1>4 DEF SendPath
    <3>2. OneChanged(j) /\ jobs'[j].pc = jobs[j].pc
      BY <3>1, JobEdited
    <3>3. QED BY <1>4, <3>2 DEF SendPath, Effect
  <2>2. QED BY <1>4, <2>1 DEF SendPath, Does
<1>5. CASE NotReachable(j) \/ GiveUp(j) \/ Complete(j) \/ TooLong(j)
  <2>1. PICK to \in {"returned", "crashed"} : Leave(j, to)
    BY <1>5 DEF NotReachable, GiveUp, Complete, TooLong
  <2>2. jobs[j].pc \in Owning /\ LaserOnly
    BY <1>5 DEF NotReachable, GiveUp, Complete, TooLong, Owning
  <2>3. QED BY <1>1, <2>1, <2>2 DEF Leave, Does
<1>6. CASE NotRunning(j)
  BY <1>1, <1>6 DEF NotRunning, Cleared, Does
<1>7. CASE Empty(j)
  BY <1>1, <1>7 DEF Empty, Does
<1>8. CASE Forget(j)
  BY <1>1, <1>8 DEF Forget, Does
<1>9. QED
  BY <1>2, <1>3, <1>4, <1>5, <1>6, <1>7, <1>8 DEF JobStep
-----------------------------------------------------------------------------
(* What the handler's steps do: everything but Start leaves the jobs alone.*)
Goods == [apt : BOOLEAN, alone : BOOLEAN]

LEMMA StartEffect ==
  ASSUME Shape, Start
  PROVE  /\ IsSequence(jobs')
         /\ Len(jobs') = Len(jobs) + 1
         /\ \A k \in Threads : jobs'[k] = jobs[k]
         /\ LET r == jobs'[Len(jobs) + 1]
            IN  /\ IsJob(r)
                /\ r.session = session /\ r.pc = "waiting"
                /\ r.power = PowerOf
                /\ Given(r) = <<taken, burnt, peak, good>>
         /\ running' /\ host' = "ready"
         /\ masked' = masked \cup {j \in Threads : Live(j)}
                      \cup (IF Quiet THEN {} ELSE {Len(jobs) + 1})
         /\ UNCHANGED <<groups, session, lock, paused>>
<1> DEFINE r == [pc |-> "waiting", session |-> session, sent |-> 0,
                 paths |-> taken, power |-> PowerOf, burnt |-> burnt,
                 peak |-> peak, good |-> good]
<1>1. PICK S : jobs \in Seq(S)
  BY DEF Shape, IsSequence
<1>2. /\ IsJob(r)
      /\ r.session = session /\ r.pc = "waiting" /\ r.power = PowerOf
      /\ Given(r) = <<taken, burnt, peak, good>>
  BY DEF JobFields, IsJob, Given
<1>3. jobs' = Append(jobs, r)
  BY DEF Start
<1> HIDE DEF r
<1>4. /\ jobs' \in Seq(S \cup {r}) /\ Len(jobs') = Len(jobs) + 1
      /\ jobs'[Len(jobs) + 1] = r /\ \A k \in 1..Len(jobs) : jobs'[k] = jobs[k]
  BY <1>1, <1>3, Extended
<1>5. IsSequence(jobs')
  BY <1>4 DEF IsSequence
<1>6. QED BY <1>2, <1>4, <1>5 DEF Start, Busy, Threads

LEMMA NewLayerKeeps ==
  ASSUME Shape, NewLayer
  PROVE  good' \in Goods
BY DEF Shape, NewLayer, Goods

LEMMA HostEffect ==
  ASSUME Shape, LightBurn \/ HandlerStep
  PROVE  /\ good' \in Goods
         /\ Start \/ /\ UNCHANGED <<jobs, lock, paused>>
                     /\ masked \subseteq masked'
                     /\ running' = running \/ SoftReset \/ NewClient
                     /\ \/ UNCHANGED session
                        \/ NewClient /\ session' = session + 1
<1> USE DEF Hear, Move, Other, Same
<1>1. CASE \E x \in Points : Rapid(x) \/ SetPosition(x)
  BY <1>1 DEF Rapid, SetPosition, Shape, Goods
<1>2. CASE \E x \in Powers : Unrecognised(x)
  BY <1>2 DEF Unrecognised, Shape, Goods
<1>3. ASSUME NEW c \in Cuts, Cut(c.to, c.s)
      PROVE  good' \in Goods
             /\ UNCHANGED <<jobs, lock, paused, masked, running, session>>
  <2>1. good' = [good EXCEPT !.alone = @ /\ Quiet,
                             !.apt = @ /\ (c.s = 0 \/ pen = "down")]
    BY <1>3 DEF Cut
  <2>2. UNCHANGED <<jobs, lock, paused, masked, running, session>>
    BY <1>3 DEF Cut
  <2>3. QED BY <2>1, <2>2 DEF Shape, Goods
<1>4. CASE SoftReset
  BY <1>4 DEF SoftReset, Shape, Goods
<1>5. CASE Finish
  <2>1. good' \in Goods
    BY <1>5, NewLayerKeeps DEF Finish, Shape, Goods
  <2>2. QED BY <1>5, <2>1 DEF Finish
<1>6. CASE NewClient
  BY <1>6, NewLayerKeeps DEF NewClient
<1>7. CASE Start
  BY <1>7, NewLayerKeeps DEF Start
<1>8. CASE Raise \/ AddFirst \/ Choose \/ AddNext \/ IndexError \/ CutDone
  <2>1. UNCHANGED <<good, jobs, lock, paused, masked, running, session>>
    BY <1>8 DEF Raise, AddFirst, Choose, AddNext, IndexError, CutDone, Added,
                state, history
  <2>2. QED BY <2>1 DEF Shape, Goods
<1>9. QED
  BY <1>1, <1>2, <1>3, <1>4, <1>5, <1>6, <1>7, <1>8
     DEF LightBurn, HandlerStep

LEMMA ShapeInit == Init => Shape
<1> SUFFICES ASSUME Init PROVE Shape
  OBVIOUS
<1>1. jobs \in Seq({}) /\ Len(jobs) = 0
  BY EmptySeq DEF Init
<1>2. IsSequence(jobs)
  BY <1>1 DEF IsSequence
<1>3. /\ session \in Nat /\ lock = None /\ running \in BOOLEAN
      /\ paused \in BOOLEAN
  BY DEF Init
<1>4. good \in [apt : BOOLEAN, alone : BOOLEAN]
  BY DEF Init
<1>5. QED BY <1>1, <1>2, <1>3, <1>4 DEF Shape, Threads

LEMMA ShapeKept == Shape /\ LaserIsFreed /\ [Next]_vars
                     => Shape' /\ LaserIsFreed'
<1> SUFFICES ASSUME Shape, LaserIsFreed, [Next]_vars
             PROVE  Shape' /\ LaserIsFreed'
  OBVIOUS
<1> USE DEF At
<1>1. CASE UNCHANGED vars
  BY <1>1 DEF vars, state, history, Shape, LaserIsFreed, Threads
<1>2. ASSUME NEW j \in Threads, JobStep(j) PROVE Shape' /\ LaserIsFreed'
  <2>1. Effect(j) /\ Does(j)
    BY <1>2, JobEffect
  <2>2. Threads' = Threads
    BY <2>1 DEF Effect, OneChanged, Threads
  <2>3. LaserIsFreed'
    <3>1. /\ \A k \in Threads : k # j => jobs'[k].pc = jobs[k].pc
          /\ j # None /\ lock \in Threads \cup {None}
      <4>1. \A k \in Threads : k # j => jobs'[k].pc = jobs[k].pc
        BY <2>1 DEF Effect, OneChanged
      <4>2. j # None
        BY GrblAssumption, JobRecords DEF Threads
      <4>3. QED BY <4>1, <4>2 DEF Shape
    <3>2. paused \in BOOLEAN
      BY DEF Shape
    <3>3. CASE jobs[j].pc \in Owning
      <4>1. /\ lock = j /\ lock # None
            /\ \A k \in Threads : k # j => jobs'[k].pc \notin Owning
        BY <3>1, <3>3 DEF LaserIsFreed, Owning
      <4>2. CASE lock' = j
        <5>1. /\ jobs'[j].pc \in Owning
              /\ paused' = TRUE <=> jobs'[j].pc = "sending"
          <6>1. CASE jobs[j].pc = "sending"
            <7>1. paused = TRUE
              BY <3>2, <4>1, <6>1 DEF LaserIsFreed
            <7>2. QED
              BY <2>1, <4>1, <4>2, <6>1, <7>1 DEF Does, Moves, Owning
          <6>2. CASE jobs[j].pc = "locked"
            BY <2>1, <4>1, <4>2, <6>2 DEF Does, Moves, Owning
          <6>3. QED BY <3>3, <6>1, <6>2 DEF Owning
        <5>2. paused' \in BOOLEAN
          BY <2>1, <3>2 DEF Does
        <5>3. QED
          BY <2>2, <4>1, <4>2, <5>1, <5>2 DEF LaserIsFreed, Owning
      <4>3. CASE lock' # j
        <5>1. /\ lock' = None /\ paused' = FALSE
              /\ jobs'[j].pc \notin Owning
          BY <2>1, <3>3, <4>1, <4>3 DEF Does, Moves, Owning
        <5>2. \A k \in Threads : k # None
          BY GrblAssumption, JobRecords DEF Threads
        <5>3. QED
          BY <2>2, <4>1, <5>1, <5>2 DEF LaserIsFreed, Owning
      <4>4. QED BY <4>2, <4>3
    <3>4. CASE jobs[j].pc = "waiting"
      <4>1. /\ jobs'[j].pc = "locked" /\ lock = None /\ lock' = j
            /\ paused' = paused
        BY <2>1, <3>4 DEF Does, Moves, Owning
      <4>2. paused = FALSE
        BY <3>2, <4>1 DEF LaserIsFreed
      <4>3. \A k \in Threads : k # j => jobs'[k].pc \notin Owning
        <5>1. \A k \in Threads : k # None
          BY GrblAssumption, JobRecords DEF Threads
        <5>2. QED BY <3>1, <4>1, <5>1 DEF LaserIsFreed, Owning
      <4>4. QED
        BY <2>2, <4>1, <4>2, <4>3 DEF LaserIsFreed, Owning
    <3>5. CASE jobs[j].pc \notin Owning \cup {"waiting"}
      <4>1. /\ lock' = lock /\ paused' = paused /\ lock # j
            /\ jobs'[j].pc \notin Owning
        BY <2>1, <3>5 DEF Does, Moves, LaserIsFreed, Owning
      <4>2. QED
        BY <2>2, <3>1, <3>2, <4>1 DEF LaserIsFreed, Owning
    <3>6. QED BY <3>3, <3>4, <3>5
  <2>4. Shape'
    <3>1. \A k \in Threads : /\ IsJob(jobs'[k])
                             /\ jobs'[k].session \in Nat
                             /\ jobs'[k].session <= session'
      BY <2>1 DEF Effect, OneChanged, Shape
    <3>2. lock' \in Threads \cup {None} /\ paused' \in BOOLEAN
      BY <2>1 DEF Does, Shape
    <3>3. running' \in BOOLEAN /\ good' \in Goods
      BY <2>1 DEF Does, Shape, Goods
    <3>4. QED
      BY <2>1, <2>2, <3>1, <3>2, <3>3 DEF Effect, OneChanged, Shape, Goods
  <2>5. QED BY <2>3, <2>4
<1>3. CASE Start
  <2> DEFINE n == Len(jobs) + 1
  <2>1. /\ IsSequence(jobs') /\ Len(jobs') = n
        /\ \A k \in Threads : jobs'[k] = jobs[k]
        /\ IsJob(jobs'[n]) /\ jobs'[n].session = session
        /\ jobs'[n].pc = "waiting" /\ running' \in BOOLEAN
        /\ UNCHANGED <<session, lock, paused>>
    BY <1>3, StartEffect
  <2>2. good' \in Goods
    BY <1>3, HostEffect DEF HandlerStep
  <2>3. /\ Threads' = Threads \cup {n} /\ n \notin Threads /\ n # None
        /\ \A k \in Threads : k # None
    BY <2>1, JobRecords, GrblAssumption DEF Threads
  <2> HIDE DEF n
  <2>4. LaserIsFreed'
    <3>1. lock' # n
      BY <2>1, <2>3 DEF Shape
    <3>2. \A k \in Threads' : jobs'[k].pc \in Owning <=> lock' = k
      BY <2>1, <2>3, <3>1 DEF LaserIsFreed, Owning
    <3>3. paused' <=> lock' # None /\ jobs'[lock'].pc = "sending"
      <4>1. lock \in Threads => jobs'[lock].pc = jobs[lock].pc
        BY <2>1
      <4>2. lock \in Threads \cup {None} /\ paused \in BOOLEAN
        BY DEF Shape
      <4>3. QED BY <2>1, <4>1, <4>2 DEF LaserIsFreed
    <3>4. QED BY <3>2, <3>3 DEF LaserIsFreed, Owning
  <2>5. Shape'
    <3>1. \A k \in Threads' : /\ IsJob(jobs'[k])
                              /\ jobs'[k].session \in Nat
                              /\ jobs'[k].session <= session'
      BY <2>1, <2>3 DEF Shape
    <3>2. /\ session' \in Nat /\ lock' \in Threads' \cup {None}
          /\ paused' \in BOOLEAN
      BY <2>1, <2>3 DEF Shape
    <3>3. QED BY <2>1, <2>2, <3>1, <3>2 DEF Shape, Goods
  <2>6. QED BY <2>4, <2>5
<1>4. CASE (LightBurn \/ HandlerStep) /\ ~Start
  <2>1. /\ good' \in Goods /\ UNCHANGED <<jobs, lock, paused>>
        /\ running' = running \/ SoftReset \/ NewClient
        /\ session' \in Nat /\ session <= session'
    BY <1>4, HostEffect DEF Shape
  <2>2. running' \in BOOLEAN
    BY <2>1 DEF SoftReset, NewClient, Shape
  <2>3. LaserIsFreed'
    BY <2>1 DEF LaserIsFreed, Threads
  <2>4. \A k \in Threads : jobs[k].session <= session'
    BY <2>1 DEF Shape
  <2>5. QED BY <2>1, <2>2, <2>3, <2>4 DEF Shape, Threads, Goods
<1>5. QED BY <1>1, <1>2, <1>3, <1>4 DEF Next, HandlerStep

(* THEOREM: at most one job has the laser's lock, the heartbeat is stopped *)
(* only while that one sends, and every way out of execute_job() gives     *)
(* both back, the exception of a path that is too long included.           *)
THEOREM LaserFreed == Spec => []LaserIsFreed
<1>1. Init => LaserIsFreed
  <2> SUFFICES ASSUME Init PROVE LaserIsFreed
    OBVIOUS
  <2>1. Threads = {} /\ lock = None /\ paused = FALSE
    BY EmptySeq DEF Init, Threads
  <2>2. QED BY <2>1 DEF LaserIsFreed
<1>2. QED BY <1>1, ShapeInit, ShapeKept, PTL DEF Spec

-----------------------------------------------------------------------------
LEMMA OverlapsKept == Shape /\ Overlaps /\ [Next]_vars => Overlaps'
<1> SUFFICES ASSUME Shape, Overlaps, [Next]_vars PROVE Overlaps'
  OBVIOUS
<1> USE DEF Live, At
<1>1. CASE UNCHANGED vars
  BY <1>1 DEF vars, state, history, Overlaps, Threads
<1>2. ASSUME NEW j \in Threads, JobStep(j) PROVE Overlaps'
  <2>1. /\ Threads' = Threads /\ UNCHANGED masked
        /\ \A k \in Threads : jobs'[k].session = jobs[k].session
        /\ \A k \in Threads : k # j => jobs'[k] = jobs[k]
    BY <1>2, JobEffect DEF Effect, OneChanged, Threads
  <2>2. jobs[j].pc \notin {"ended", "crashed"}
    BY <1>2, JobEffect DEF Does, Moves, Owning
  <2>3. QED BY <2>1, <2>2 DEF Overlaps
<1>3. CASE Start
  <2> DEFINE n == Len(jobs) + 1
  <2>1. /\ Len(jobs') = n
        /\ \A k \in Threads : jobs'[k] = jobs[k]
        /\ jobs'[n].session = session
        /\ masked' = masked \cup {k \in Threads : Live(k)}
                     \cup (IF Quiet THEN {} ELSE {n})
    BY <1>3, StartEffect
  <2>2. /\ Threads' = Threads \cup {n} /\ n \notin Threads
        /\ \A j, k \in Threads' :
             j < k => j \in Threads /\ k \in Threads \cup {n}
    BY <2>1, JobRecords DEF Threads
  <2> HIDE DEF n
  <2>3. ASSUME NEW k \in Threads, jobs[k].session = session, Live(k)
        PROVE  k \in masked' /\ n \in masked'
    <3>1. ~Quiet
      BY <2>3 DEF Quiet
    <3>2. QED BY <2>1, <2>3, <3>1
  <2>4. ASSUME NEW j \in Threads', NEW k \in Threads', j < k, Live(j)',
               jobs'[j].session = jobs'[k].session
        PROVE  j \in masked' /\ k \in masked'
    <3>1. j \in Threads /\ Live(j)
      BY <2>1, <2>2, <2>4
    <3>2. CASE k \in Threads
      BY <2>1, <2>4, <3>1, <3>2 DEF Overlaps
    <3>3. CASE k = n
      BY <2>1, <2>3, <2>4, <3>1, <3>3
    <3>4. QED BY <2>2, <2>4, <3>2, <3>3
  <2>5. QED BY <2>4 DEF Overlaps
<1>4. CASE (LightBurn \/ HandlerStep) /\ ~Start
  BY <1>4, HostEffect DEF Overlaps, Threads
<1>5. QED BY <1>1, <1>2, <1>3, <1>4 DEF Next, HandlerStep

LEMMA IdleKept ==
  Shape /\ Overlaps /\ IdleMeansIdle /\ [Next]_vars => IdleMeansIdle'
<1> SUFFICES ASSUME Shape, Overlaps, IdleMeansIdle, [Next]_vars
             PROVE  IdleMeansIdle'
  OBVIOUS
<1> DEFINE Waits(k) == jobs[k].pc \in {"waiting", "locked", "sending"}
<1> USE DEF Mine, At
<1>1. CASE UNCHANGED vars
  BY <1>1 DEF vars, state, history, IdleMeansIdle, Threads
<1>2. ASSUME NEW j \in Threads, JobStep(j) PROVE IdleMeansIdle'
  <2>1. /\ Threads' = Threads /\ UNCHANGED <<masked, session>>
        /\ \A k \in Threads : jobs'[k].session = jobs[k].session
        /\ \A k \in Threads : k # j => jobs'[k] = jobs[k]
    BY <1>2, JobEffect DEF Effect, OneChanged, Threads
  <2>2. /\ jobs'[j].pc \in {"waiting", "locked", "sending"} => Waits(j)
        /\ \/ running' = running
           \/ jobs[j].pc = "returned" /\ running' = (running /\ ~Mine(j))
              /\ jobs'[j].pc = "stopped"
    BY <1>2, JobEffect DEF Does, Moves, Owning
  <2>3. ASSUME NEW k \in Threads \ masked, jobs[k].session = session,
               jobs'[k].pc \in {"waiting", "locked", "sending"}
        PROVE  running'
    <3>1. Waits(k)
      BY <2>1, <2>2, <2>3
    <3>2. running
      BY <2>3, <3>1 DEF IdleMeansIdle
    <3>3. CASE running' = running
      BY <3>2, <3>3
    <3>4. CASE /\ jobs[j].pc = "returned" /\ running' = (running /\ ~Mine(j))
               /\ jobs'[j].pc = "stopped"
      <4>1. CASE Mine(j)
        <5>1. k # j
          BY <2>3, <3>4
        <5>2. k < j \/ j < k
          BY <5>1, JobRecords DEF Threads
        <5>3. Live(j) /\ Live(k)
          BY <3>1, <3>4 DEF Live
        <5>4. QED BY <2>3, <4>1, <5>2, <5>3 DEF Overlaps
      <4>2. QED BY <3>2, <3>4, <4>1
    <3>5. QED BY <2>2, <3>3, <3>4
  <2>4. QED BY <2>1, <2>3 DEF IdleMeansIdle
<1>3. CASE Start
  <2>1. running'
    BY <1>3, StartEffect
  <2>2. QED BY <2>1 DEF IdleMeansIdle
<1>4. CASE (LightBurn \/ HandlerStep) /\ ~Start
  <2>1. /\ UNCHANGED jobs /\ masked \subseteq masked'
        /\ running' = running \/ SoftReset \/ NewClient
        /\ UNCHANGED session \/ NewClient
    BY <1>4, HostEffect
  <2>2. CASE SoftReset
    BY <2>1, <2>2 DEF SoftReset, IdleMeansIdle, Threads
  <2>3. CASE NewClient
    <3>1. \A k \in Threads : jobs[k].session # session'
      BY <2>3 DEF NewClient, Shape
    <3>2. QED BY <2>1, <3>1 DEF IdleMeansIdle, Threads
  <2>4. CASE ~SoftReset /\ ~NewClient
    BY <2>1, <2>4 DEF IdleMeansIdle, Threads
  <2>5. QED BY <2>2, <2>3, <2>4
<1>5. QED BY <1>1, <1>2, <1>3, <1>4 DEF Next, HandlerStep

(* THEOREM: a job that meets no other job of its client and no soft reset  *)
(* is reported as running from M30 until it has left the laser, however    *)
(* long it waits for the jobs of other clients.                            *)
THEOREM RunningIsShown == Spec => []IdleMeansIdle
<1>1. Init => LaserIsFreed /\ Overlaps /\ IdleMeansIdle
  <2> SUFFICES ASSUME Init PROVE LaserIsFreed /\ Overlaps /\ IdleMeansIdle
    OBVIOUS
  <2>1. Threads = {} /\ lock = None /\ paused = FALSE
    BY EmptySeq DEF Init, Threads
  <2>2. QED BY <2>1 DEF LaserIsFreed, Overlaps, IdleMeansIdle
<1>2. QED
  BY <1>1, ShapeInit, ShapeKept, OverlapsKept, IdleKept, PTL DEF Spec

-----------------------------------------------------------------------------
(* Powers are levels of the laser or the fallback, never above the maximum.*)
LEMMA PowerInRange ==
  ASSUME TypeOK PROVE PowerOf \in (1..MaxPower) \cup {Fallback}
BY GrblAssumption DEF TypeOK, PowerOf, Cap

LEMMA HigherType == \A a, b \in Nat : Higher(a, b) \in Nat
BY DEF Higher

(* The drawing: every way it grows, and every way it is emptied.           *)
Drawing ==
  /\ pos \in Points /\ power \in Nat /\ jobPower \in Nat
  /\ groups \in Seq(Seq(Points) \ {<<>>}) /\ todo \in Seq(Points)
  /\ host \in HostPCs /\ (host \in {"raised", "chosen"} => todo # <<>>)

LEMMA OneOf ==
  ASSUME NEW S, NEW a \in S, NEW b \in S, NEW c \in {a, b} PROVE c \in S
OBVIOUS

LEMMA LineKeeps ==
  ASSUME Drawing, LightBurn PROVE Drawing'
<1> USE DEF Drawing, Hear, HostPCs
<1>1. <<>> \in Seq(Seq(Points) \ {<<>>}) /\ <<>> \in Seq(Points)
  BY EmptySeq
<1>2. ASSUME NEW x \in Points, Rapid(x) PROVE Drawing'
  <2>1. <<x>> \in Seq(Points) \ {<<>>}
    BY EmptySeq
  <2>2. groups' \in Seq(Seq(Points) \ {<<>>})
    BY <1>2, <2>1, AppendProperties DEF Rapid
  <2>3. QED BY <1>2, <2>2 DEF Rapid
<1>3. CASE \E x \in Points : SetPosition(x)
  BY <1>3 DEF SetPosition
<1>4. CASE \E x \in Powers : Unrecognised(x)
  BY <1>4, GrblAssumption DEF Unrecognised
<1>5. ASSUME NEW c \in Cuts, Cut(c.to, c.s) PROVE Drawing'
  <2>1. c.to \in Seq(Points) /\ c.to # <<>> /\ c.s \in Nat
    BY GrblAssumption
  <2>2. Last(c.to) \in Points
    BY <2>1, EmptySeq, LenProperties, ElementOfSeq DEF Last
  <2>3. QED BY <1>5, <2>1, <2>2 DEF Cut
<1>6. CASE SoftReset
  BY <1>1, <1>6 DEF SoftReset, ResetJob
<1>7. CASE Finish
  <2>1. UNCHANGED <<pos, todo, power>> /\ host' \in {host, "finishing"}
    BY <1>7 DEF Finish
  <2>2. groups' \in {groups, <<>>} /\ jobPower' \in {jobPower, 0}
    BY <1>7 DEF Finish, ResetJob
  <2>3. QED BY <1>1, <2>1, <2>2, OneOf
<1>8. CASE NewClient
  BY <1>1, <1>8, GrblAssumption DEF NewClient, ResetJob
<1>9. QED
  BY <1>2, <1>3, <1>4, <1>5, <1>6, <1>7, <1>8 DEF LightBurn

LEMMA HandlerKeeps ==
  ASSUME Drawing, HandlerStep PROVE Drawing'
<1> USE DEF Drawing, HostPCs
<1>1. todo # <<>> => Head(todo) \in Points /\ Tail(todo) \in Seq(Points)
  BY HeadTailProperties, EmptySeq
<1>2. CASE Raise
  BY <1>2, HigherType DEF Raise
<1>3. CASE AddFirst
  <2>1. <<Head(todo)>> \in Seq(Points) \ {<<>>}
    BY <1>1, <1>3, EmptySeq DEF AddFirst
  <2>2. groups' \in Seq(Seq(Points) \ {<<>>})
    BY <1>3, <2>1 DEF AddFirst
  <2>3. QED BY <1>1, <1>3, <2>2 DEF AddFirst, Added
<1>4. CASE AddNext
  <2> DEFINE g == Append(groups[Len(groups)], Head(todo))
  <2>1. Len(groups) \in Nat /\ Len(groups) \in 1..Len(groups)
    BY <1>4, EmptySeq, LenProperties DEF AddNext
  <2>2. groups[Len(groups)] \in Seq(Points)
    BY <2>1, ElementOfSeq
  <2>3. g \in Seq(Points) /\ g # <<>>
    <3>1. \A s \in Seq(Points), x \in Points :
            Append(s, x) \in Seq(Points) /\ Append(s, x) # <<>>
      BY AppendProperties, EmptySeq, LenProperties
    <3>2. Head(todo) \in Points
      BY <1>1, <1>4 DEF AddNext
    <3>3. QED BY <2>2, <3>1, <3>2
  <2>4. groups' = [groups EXCEPT ![Len(groups)] = g]
    BY <1>4 DEF AddNext
  <2> HIDE DEF g
  <2>5. groups' \in Seq((Seq(Points) \ {<<>>}) \cup {g})
    BY <2>1, <2>4, Edited
  <2>6. (Seq(Points) \ {<<>>}) \cup {g} = Seq(Points) \ {<<>>}
    BY <2>3
  <2>7. groups' \in Seq(Seq(Points) \ {<<>>})
    BY <2>5, <2>6
  <2>8. QED BY <1>1, <1>4, <2>7 DEF AddNext, Added
<1>5. CASE Choose \/ IndexError
  BY <1>5 DEF Choose, IndexError, state
<1>6. CASE CutDone
  BY <1>6, EmptySeq DEF CutDone, state
<1>7. CASE Start
  BY <1>7 DEF Start
<1>8. QED
  BY <1>2, <1>3, <1>4, <1>5, <1>6, <1>7 DEF HandlerStep

LEMMA JobKeeps ==
  ASSUME Drawing, NEW j \in Threads, JobStep(j) PROVE Drawing'
<1> USE DEF Drawing, HostPCs, LaserOnly, HostSame
<1>1. UNCHANGED <<pos, power, todo, host>>
  BY DEF JobStep, Acquire, Begin, NotReachable, SendPath, TooLong, GiveUp,
         Complete, NotRunning, Empty, Forget
<1>2. groups' \in {groups, <<>>} /\ jobPower' \in {jobPower, 0}
  <2>1. CASE Empty(j)
    BY <2>1 DEF Empty
  <2>2. CASE Forget(j)
    BY <2>2 DEF Forget
  <2>3. CASE ~Empty(j) /\ ~Forget(j)
    BY <2>3 DEF JobStep, Acquire, Begin, NotReachable, SendPath, TooLong,
                GiveUp, Complete, NotRunning
  <2>4. QED BY <2>1, <2>2, <2>3
<1>3. <<>> \in Seq(Seq(Points) \ {<<>>})
  BY EmptySeq
<1>4. QED BY <1>1, <1>2, <1>3, OneOf

(* The jobs: what they are given when they start stays as it is.           *)
Powered ==
  \A j \in Threads : /\ jobs[j].pc \in JobPCs
                     /\ jobs[j].power \in (1..MaxPower) \cup {Fallback}

LEMMA PoweredKept ==
  Shape /\ TypeOK /\ [Next]_vars => Powered'
<1> SUFFICES ASSUME Shape, TypeOK, [Next]_vars PROVE Powered'
  OBVIOUS
<1>0. Powered
  BY DEF TypeOK, Powered
<1>1. CASE UNCHANGED jobs
  BY <1>0, <1>1 DEF Powered, Threads
<1>2. ASSUME NEW j \in Threads, JobStep(j) PROVE Powered'
  <2>1. /\ Threads' = Threads /\ jobs'[j].power = jobs[j].power
        /\ \A k \in Threads : k # j => jobs'[k] = jobs[k]
    BY <1>2, JobEffect DEF Effect, OneChanged, Threads
  <2>2. jobs'[j].pc \in JobPCs
    BY <1>2, JobEffect DEF Does, Moves, JobPCs
  <2>3. QED BY <1>0, <2>1, <2>2 DEF Powered
<1>3. CASE Start
  <2> DEFINE n == Len(jobs) + 1
  <2>1. /\ Len(jobs') = n /\ \A k \in Threads : jobs'[k] = jobs[k]
        /\ jobs'[n].pc = "waiting" /\ jobs'[n].power = PowerOf
    BY <1>3, StartEffect
  <2>2. Threads' = Threads \cup {n}
    BY <2>1, JobRecords DEF Threads
  <2> HIDE DEF n
  <2>3. QED BY <1>0, <2>1, <2>2, PowerInRange DEF Powered, JobPCs
<1>4. CASE (LightBurn \/ HandlerStep) /\ ~Start
  BY <1>1, <1>4, HostEffect
<1>5. CASE UNCHANGED vars
  BY <1>1, <1>5 DEF vars
<1>6. QED BY <1>2, <1>3, <1>4, <1>5 DEF Next, HandlerStep

LEMMA TypeKept ==
  Shape /\ LaserIsFreed /\ TypeOK /\ [Next]_vars => TypeOK'
<1> SUFFICES ASSUME Shape, LaserIsFreed, TypeOK, [Next]_vars PROVE TypeOK'
  OBVIOUS
<1>1. Powered' /\ (lock \in Threads \cup {None})'
  BY PoweredKept, ShapeKept DEF Shape
<1>2. Drawing
  BY DEF TypeOK, Drawing
<1>3. Drawing'
  <2>1. CASE UNCHANGED vars
    BY <1>2, <2>1 DEF vars, state, Drawing
  <2>2. QED BY <1>2, <2>1, LineKeeps, HandlerKeeps, JobKeeps DEF Next
<1>4. QED BY <1>1, <1>3 DEF TypeOK, Drawing, Powered

LEMMA TypesInit == Init => LaserIsFreed /\ TypeOK
<1> SUFFICES ASSUME Init PROVE LaserIsFreed /\ TypeOK
  OBVIOUS
<1>1. Threads = {} /\ lock = None /\ paused = FALSE
  BY EmptySeq DEF Init, Threads
<1>2. LaserIsFreed
  BY <1>1 DEF LaserIsFreed
<1>3. <<>> \in Seq(Seq(Points) \ {<<>>}) /\ <<>> \in Seq(Points)
  BY EmptySeq
<1>4. /\ groups \in Seq(Seq(Points) \ {<<>>}) /\ todo \in Seq(Points)
      /\ pos \in Points /\ power \in Nat /\ jobPower \in Nat
      /\ host = "ready"
  BY <1>3, GrblAssumption DEF Init
<1>5. TypeOK
  BY <1>1, <1>4 DEF TypeOK, HostPCs
<1>6. QED BY <1>2, <1>5

(* THEOREM: no path group is ever empty, the point about to be added exists*)
(* and every job's power is one the laser has or the fallback, for every S *)
(* LightBurn may send.                                                     *)
THEOREM TypesHold == Spec => []TypeOK
BY TypesInit, ShapeInit, ShapeKept, TypeKept, PTL DEF Spec

-----------------------------------------------------------------------------
(* The geometry: what the segments of a drawing are when it grows, and     *)
(* when it is made into paths that are sent.                               *)
Path == Seq(Points)
Line == Points \X Points

SegmentsOf == [g \in Path |-> Segments(g)]
RealOf     == [s \in Line |-> IF IsReal(s) THEN <<s>> ELSE <<>>]
DrawnOf    == [g \in Path |-> IF Len(g) >= 2 THEN <<g>> ELSE <<>>]

LEMMA SegmentsType ==
  ASSUME NEW g \in Path
  PROVE  /\ Segments(g) \in Seq(Line)
         /\ Len(Segments(g)) = IF g = <<>> THEN 0 ELSE Len(g) - 1
         /\ \A i \in 1..(Len(g) - 1) : Segments(g)[i] = <<g[i], g[i + 1]>>
<1>1. /\ Len(g) \in Nat /\ (g = <<>> <=> Len(g) = 0)
      /\ \A i \in 1..Len(g) : g[i] \in Points
  BY LenProperties, ElementOfSeq, EmptySeq DEF Path
<1>2. \A i \in 1..(Len(g) - 1) : <<g[i], g[i + 1]>> \in Line
  BY <1>1 DEF Line
<1>3. PICK n \in Nat : 1..n = 1..(Len(g) - 1)
                       /\ n = IF g = <<>> THEN 0 ELSE Len(g) - 1
  <2>1. CASE g = <<>>
    BY <1>1, <2>1
  <2>2. CASE g # <<>>
    BY <1>1, <2>2
  <2>3. QED BY <2>1, <2>2
<1>4. Segments(g) = [i \in 1..n |-> <<g[i], g[i + 1]>>]
  BY <1>3, Zenon DEF Segments
<1>5. Segments(g) \in [1..n -> Line]
  BY <1>2, <1>3, <1>4
<1>6. Segments(g) \in Seq(Line) /\ Len(Segments(g)) = n
  BY <1>5, IsSeq
<1>7. QED BY <1>3, <1>4, <1>6

LEMMA PathMaps ==
  /\ SegmentsOf \in [Path -> Seq(Line)]
  /\ RealOf \in [Line -> Seq(Line)]
  /\ DrawnOf \in [Path -> Seq(Path)]
<1>1. \A g \in Path : Segments(g) \in Seq(Line)
  BY SegmentsType
<1>2. \A s \in Line : (IF IsReal(s) THEN <<s>> ELSE <<>>) \in Seq(Line)
  <2>1. ASSUME NEW s \in Line PROVE <<s>> \in Seq(Line) /\ <<>> \in Seq(Line)
    <3> HIDE DEF Line
    <3>1. QED BY EmptySeq
  <2>2. QED BY <2>1, Zenon
<1>3. \A g \in Path : (IF Len(g) >= 2 THEN <<g>> ELSE <<>>) \in Seq(Path)
  <2>1. ASSUME NEW g \in Path PROVE <<g>> \in Seq(Path) /\ <<>> \in Seq(Path)
    <3> HIDE DEF Path
    <3>1. QED BY EmptySeq
  <2>2. QED BY <2>1, Zenon
<1>4. SegmentsOf \in [Path -> Seq(Line)]
  BY <1>1, Zenon DEF SegmentsOf
<1>5. RealOf \in [Line -> Seq(Line)]
  BY <1>2, Zenon DEF RealOf
<1>6. DrawnOf \in [Path -> Seq(Path)]
  BY <1>3, Zenon DEF DrawnOf
<1>7. QED BY <1>4, <1>5, <1>6

(* The definitions as maps, for which the lemmas on sequences hold.        *)
LEMMA LinesMap ==
  ASSUME NEW gs \in Seq(Path)
  PROVE  /\ Lines(gs) = FlatMap(SegmentsOf, gs)
         /\ Drawn(gs) = FlatMap(DrawnOf, gs)
<1>1. \A i \in DOMAIN gs : gs[i] \in Path
  BY LenProperties, ElementOfSeq
<1>2. [i \in DOMAIN gs |-> Segments(gs[i])] = EachOf(SegmentsOf, gs)
  BY <1>1, Zenon DEF EachOf, SegmentsOf
<1>3. [i \in DOMAIN gs |-> IF Len(gs[i]) >= 2 THEN <<gs[i]>> ELSE <<>>]
        = EachOf(DrawnOf, gs)
  BY <1>1, Zenon DEF EachOf, DrawnOf
<1>4. QED BY <1>2, <1>3, Zenon DEF Lines, Drawn, FlatMap

LEMMA RealMap ==
  ASSUME NEW ss \in Seq(Line) PROVE Real(ss) = FlatMap(RealOf, ss)
<1>1. \A i \in DOMAIN ss : ss[i] \in Line
  BY LenProperties, ElementOfSeq
<1>2. [i \in DOMAIN ss |-> IF IsReal(ss[i]) THEN <<ss[i]>> ELSE <<>>]
        = EachOf(RealOf, ss)
  BY <1>1, Zenon DEF EachOf, RealOf
<1>3. QED BY <1>2, Zenon DEF Real, FlatMap

LEMMA LinesAppend ==
  ASSUME NEW gs \in Seq(Path), NEW g \in Path
  PROVE  /\ Lines(gs) \in Seq(Line)
         /\ Lines(Append(gs, g)) = Lines(gs) \o Segments(g)
<1>1. Append(gs, g) \in Seq(Path)
  BY AppendProperties
<1>2. SegmentsOf[g] = Segments(g)
  BY DEF SegmentsOf
<1>3. FlatMap(SegmentsOf, gs) \in Seq(Line)
  BY PathMaps, FlatMapType
<1>4. FlatMap(SegmentsOf, Append(gs, g))
        = FlatMap(SegmentsOf, gs) \o SegmentsOf[g]
  BY PathMaps, FlatMapAppend
<1>5. QED BY <1>1, <1>2, <1>3, <1>4, LinesMap

LEMMA DrawnAppend ==
  ASSUME NEW gs \in Seq(Path), NEW g \in Path
  PROVE  /\ Drawn(gs) \in Seq(Path)
         /\ Drawn(Append(gs, g))
              = IF Len(g) >= 2 THEN Append(Drawn(gs), g) ELSE Drawn(gs)
<1>1. Append(gs, g) \in Seq(Path)
  BY AppendProperties
<1>2. DrawnOf[g] = IF Len(g) >= 2 THEN <<g>> ELSE <<>>
  BY DEF DrawnOf
<1>3. FlatMap(DrawnOf, gs) \in Seq(Path)
  BY PathMaps, FlatMapType
<1>4. FlatMap(DrawnOf, Append(gs, g)) = FlatMap(DrawnOf, gs) \o DrawnOf[g]
  BY PathMaps, FlatMapAppend
<1>5. PICK d \in Seq(Path) : d = Drawn(gs)
  BY <1>3, LinesMap
<1>6. Drawn(Append(gs, g)) = d \o DrawnOf[g]
  BY <1>1, <1>4, <1>5, LinesMap
<1> HIDE DEF Path
<1>7. d \o <<g>> = Append(d, g) /\ d \o <<>> = d
  BY AppendIsConcat, ConcatEmptySeq
<1>8. QED BY <1>2, <1>5, <1>6, <1>7

LEMMA RealAppend ==
  ASSUME NEW ss \in Seq(Line), NEW s \in Line
  PROVE  /\ Real(ss) \in Seq(Line)
         /\ Real(Append(ss, s)) = Real(ss) \o RealOf[s]
<1>1. Append(ss, s) \in Seq(Line)
  BY AppendProperties
<1>2. FlatMap(RealOf, ss) \in Seq(Line)
  BY PathMaps, FlatMapType
<1>3. FlatMap(RealOf, Append(ss, s)) = FlatMap(RealOf, ss) \o RealOf[s]
  BY PathMaps, FlatMapAppend
<1>4. QED BY <1>1, <1>2, <1>3, RealMap

LEMMA RealConcat ==
  ASSUME NEW a \in Seq(Line), NEW b \in Seq(Line)
  PROVE  /\ Real(a) \in Seq(Line)
         /\ Real(a \o b) = Real(a) \o Real(b)
<1> DEFINE U == {u \in Seq(Line) : Real(a \o u) = Real(a) \o Real(u)}
<1>0. \A u \in Seq(Line) : Real(u) \in Seq(Line)
  <2>1. ASSUME NEW u \in Seq(Line) PROVE Real(u) \in Seq(Line)
    <3>1. FlatMap(RealOf, u) \in Seq(Line)
      BY PathMaps, FlatMapType
    <3>2. QED BY <3>1, RealMap
  <2>2. QED BY <2>1
<1>1. <<>> \in U
  <2>1. <<>> \in Seq(Line) /\ a \o <<>> = a
    BY EmptySeq, ConcatEmptySeq
  <2>2. Real(<<>>) = <<>>
    BY <2>1, RealMap, FlatMapEmpty
  <2>3. Real(a) \o <<>> = Real(a)
    BY <1>0, ConcatEmptySeq
  <2>4. QED BY <2>1, <2>2, <2>3
<1>2. ASSUME NEW u \in U, NEW x \in Line PROVE Append(u, x) \in U
  <2>1. u \in Seq(Line) /\ Real(a \o u) = Real(a) \o Real(u)
    OBVIOUS
  <2>2. Append(u, x) \in Seq(Line) /\ a \o u \in Seq(Line)
    BY <2>1, AppendProperties, ConcatProperties
  <2>3. a \o Append(u, x) = Append(a \o u, x)
    BY <2>1, ConcatAppend
  <2>4. Real(Append(a \o u, x)) = Real(a \o u) \o RealOf[x]
    BY <2>2, RealAppend
  <2>5. Real(Append(u, x)) = Real(u) \o RealOf[x]
    BY <2>1, RealAppend
  <2>6. /\ Real(a) \in Seq(Line) /\ Real(u) \in Seq(Line)
        /\ RealOf[x] \in Seq(Line)
    BY <1>0, <2>1, PathMaps
  <2>7. (Real(a) \o Real(u)) \o RealOf[x] = Real(a) \o (Real(u) \o RealOf[x])
    <3>1. \A p, q, r \in Seq(Line) : (p \o q) \o r = p \o (q \o r)
      BY ConcatAssociative
    <3>2. QED BY <2>6, <3>1, Zenon
  <2>8. QED BY <2>1, <2>2, <2>3, <2>4, <2>5, <2>7
<1>3. U \subseteq Seq(Line)
  OBVIOUS
<1> HIDE DEF U, Line
<1>4. U = Seq(Line)
  BY <1>1, <1>2, <1>3, SeqInduction
<1>5. QED BY <1>0, <1>4 DEF U

LEMMA RealOne ==
  ASSUME NEW s \in Line PROVE Real(<<s>>) = IF IsReal(s) THEN <<s>> ELSE <<>>
<1>1. <<s>> \in Seq(Line)
  <2> HIDE DEF Line
  <2>1. QED OBVIOUS
<1>2. FlatMap(RealOf, <<s>>) = RealOf[s]
  BY PathMaps, FlatMapOne
<1>3. QED BY <1>1, <1>2, RealMap DEF RealOf

(* What a path adds to the lines when it is extended, point by point or at *)
(* once, and nothing when it is begun.                                     *)
LEMMA LinesOfOne ==
  ASSUME NEW gs \in Seq(Path), NEW p \in Points
  PROVE  Lines(Append(gs, <<p>>)) = Lines(gs)
<1>1. <<p>> \in Path /\ Len(<<p>>) = 1 /\ <<p>> # <<>>
  BY DEF Path
<1>2. Segments(<<p>>) \in Seq(Line) /\ Len(Segments(<<p>>)) = 0
  BY <1>1, SegmentsType
<1>3. Segments(<<p>>) = <<>>
  BY <1>2, EmptySeq
<1>4. Lines(gs) \in Seq(Line) /\ Lines(Append(gs, <<p>>)) = Lines(gs) \o <<>>
  BY <1>1, <1>3, LinesAppend
<1>5. QED BY <1>4, ConcatEmptySeq

LEMMA SegmentsJoin ==
  ASSUME NEW g \in Path, NEW t \in Path, g # <<>>, t # <<>>
  PROVE  Segments(g \o t) = Segments(g) \o Segments(<<Last(g)>> \o t)
<1> DEFINE e == Last(g)
<1>1. /\ Len(g) \in Nat \ {0} /\ Len(t) \in Nat \ {0}
      /\ \A i \in 1..Len(g) : g[i] \in Points
      /\ e = g[Len(g)]
  BY LenProperties, EmptySeq, ElementOfSeq DEF Path, Last
<1>2. e \in Points
  BY <1>1
<1> HIDE DEF e
<1>3. PICK a \in Path : a = g \o t
  BY ConcatProperties DEF Path
<1>4. PICK b \in Path : b = <<e>> \o t
  <2>1. <<e>> \in Seq(Points)
    BY <1>2
  <2>2. QED BY <2>1, ConcatProperties DEF Path
<1>5. /\ Len(a) = Len(g) + Len(t)
      /\ \A i \in 1..Len(a) :
           a[i] = IF i <= Len(g) THEN g[i] ELSE t[i - Len(g)]
  BY <1>3, ConcatProperties DEF Path
<1>6. /\ Len(b) = 1 + Len(t)
      /\ \A i \in 1..Len(b) : b[i] = IF i <= 1 THEN e ELSE t[i - 1]
  <2>1. PICK s \in Seq(Points) : s = <<e>> /\ Len(s) = 1 /\ s[1] = e
    <3>1. <<e>> \in Seq(Points) /\ Len(<<e>>) = 1 /\ <<e>>[1] = e
      BY <1>2
    <3>2. QED BY <3>1, Zenon
  <2>2. b = s \o t
    BY <1>4, <2>1
  <2>3. /\ Len(b) = Len(s) + Len(t)
        /\ \A i \in 1..(Len(s) + Len(t)) :
             b[i] = IF i <= Len(s) THEN s[i] ELSE t[i - Len(s)]
    BY <2>2, ConcatProperties DEF Path
  <2>4. \A i \in 1..(1 + Len(t)) : b[i] = IF i <= 1 THEN s[i] ELSE t[i - 1]
    BY <2>1, <2>3
  <2>5. QED BY <1>1, <2>1, <2>3, <2>4
<1>7. /\ a # <<>> /\ b # <<>>
  BY <1>1, <1>5, <1>6, EmptySeq DEF Path
<1>8. PICK x \in Seq(Line) : /\ x = Segments(g) /\ Len(x) = Len(g) - 1
                             /\ \A i \in 1..(Len(g) - 1) :
                                  x[i] = <<g[i], g[i + 1]>>
  BY SegmentsType
<1>9. PICK y \in Seq(Line) : /\ y = Segments(b) /\ Len(y) = Len(t)
                             /\ \A i \in 1..Len(t) : y[i] = <<b[i], b[i + 1]>>
  <2>1. Len(b) - 1 = Len(t)
    BY <1>1, <1>6
  <2>2. QED BY <1>7, <2>1, SegmentsType
<1>10. PICK z \in Seq(Line) : /\ z = Segments(a) /\ Len(z) = Len(a) - 1
                              /\ \A i \in 1..(Len(a) - 1) :
                                   z[i] = <<a[i], a[i + 1]>>
  BY <1>7, SegmentsType
<1>11. PICK w \in Seq(Line) : /\ w = x \o y /\ Len(w) = Len(x) + Len(y)
                              /\ \A i \in 1..(Len(x) + Len(y)) :
                                   w[i] = IF i <= Len(x) THEN x[i]
                                          ELSE y[i - Len(x)]
  <2>1. /\ x \o y \in Seq(Line) /\ Len(x \o y) = Len(x) + Len(y)
        /\ \A i \in 1..(Len(x) + Len(y)) :
             (x \o y)[i] = IF i <= Len(x) THEN x[i] ELSE y[i - Len(x)]
    BY ConcatProperties, Zenon
  <2>2. QED BY <2>1, Zenon
<1>12. Len(w) = Len(z)
  BY <1>1, <1>5, <1>8, <1>9, <1>10, <1>11
<1>13. ASSUME NEW i \in 1..Len(z) PROVE z[i] = w[i]
  <2>1. z[i] = <<a[i], a[i + 1]>> /\ i \in Nat /\ i >= 1
    BY <1>1, <1>5, <1>10
  <2>2. CASE i <= Len(g) - 1
    <3>1. i \in 1..(Len(g) - 1) /\ i \in 1..Len(a) /\ i + 1 \in 1..Len(a)
          /\ i <= Len(g) /\ i + 1 <= Len(g)
      BY <1>1, <1>5, <2>1, <2>2
    <3>2. a[i] = g[i] /\ a[i + 1] = g[i + 1]
      BY <1>5, <3>1
    <3>3. w[i] = x[i] /\ x[i] = <<g[i], g[i + 1]>>
      BY <1>1, <1>5, <1>8, <1>9, <1>11, <3>1
    <3>4. QED BY <2>1, <3>2, <3>3
  <2>3. CASE i > Len(g) - 1
    <3>1. PICK k \in Nat : k = i - (Len(g) - 1)
      <4>1. i \in Nat /\ Len(g) \in Nat /\ i > Len(g) - 1
        BY <1>1, <2>1, <2>3
      <4>2. i - (Len(g) - 1) \in Nat
        BY <4>1
      <4>3. QED BY <4>2
    <3>2. /\ k \in 1..Len(t) /\ k \in 1..Len(b) /\ k + 1 \in 1..Len(b)
          /\ k + 1 > 1 /\ i = Len(g) + (k - 1) /\ (k + 1) - 1 = k
      <4>1. i <= Len(g) + Len(t) - 1 /\ Len(b) = 1 + Len(t)
        BY <1>1, <1>5, <1>6, <1>10
      <4>2. i \in Nat /\ Len(g) \in Nat /\ Len(t) \in Nat /\ i > Len(g) - 1
        BY <1>1, <2>1, <2>3
      <4>3. QED BY <3>1, <4>1, <4>2
    <3>3. w[i] = y[k] /\ y[k] = <<b[k], b[k + 1]>>
      <4>1. Len(x) = Len(g) - 1 /\ i - Len(x) = k /\ ~(i <= Len(x))
            /\ i \in 1..(Len(x) + Len(y))
        BY <1>1, <1>5, <1>8, <1>9, <1>10, <3>1, <3>2
      <4>2. w[i] = y[k]
        BY <1>11, <4>1
      <4>3. QED BY <1>9, <3>2, <4>2
    <3>4. b[k + 1] = t[k] /\ b[k] = IF k = 1 THEN e ELSE t[k - 1]
      BY <1>6, <3>2
    <3>5. a[i + 1] = t[k]
      <4>1. i + 1 \in 1..Len(a) /\ i + 1 > Len(g) /\ (i + 1) - Len(g) = k
        BY <1>1, <1>5, <1>10, <3>2
      <4>2. QED BY <1>1, <1>5, <4>1
    <3>6. a[i] = IF k = 1 THEN e ELSE t[k - 1]
      <4>1. i \in 1..Len(a) /\ (k = 1 => i = Len(g))
            /\ (k # 1 => i > Len(g) /\ i - Len(g) = k - 1)
        BY <1>1, <1>5, <1>10, <3>2
      <4>2. QED BY <1>1, <1>5, <4>1
    <3>7. QED BY <2>1, <3>3, <3>4, <3>5, <3>6
  <2>4. QED BY <1>1, <2>1, <2>2, <2>3
<1>14. z = w
  BY <1>12, <1>13, SeqEqual
<1>15. QED BY <1>3, <1>4, <1>8, <1>9, <1>10, <1>11, <1>14 DEF e

(* The path a drawing ends with grows; all the others stay.                *)
LEMMA LinesGrow ==
  ASSUME NEW gs \in Seq(Path), NEW g \in Path, NEW t \in Path,
         g # <<>>, t # <<>>
  PROVE  Lines(Append(gs, g \o t))
           = Lines(Append(gs, g)) \o Segments(<<Last(g)>> \o t)
<1>1. PICK e \in Points : e = Last(g)
  BY LenProperties, EmptySeq, ElementOfSeq DEF Path, Last
<1>2. PICK a \in Path : a = g \o t
  BY ConcatProperties DEF Path
<1>3. PICK b \in Path : b = <<e>> \o t
  <2>1. <<e>> \in Seq(Points)
    OBVIOUS
  <2>2. QED BY <2>1, ConcatProperties DEF Path
<1>4. PICK l \in Seq(Line) : l = Lines(gs)
  BY LinesAppend
<1>5. Lines(Append(gs, g)) = l \o Segments(g)
      /\ Lines(Append(gs, a)) = l \o Segments(a)
  BY <1>4, LinesAppend
<1>6. Segments(g) \in Seq(Line) /\ Segments(b) \in Seq(Line)
  BY SegmentsType
<1>7. Segments(a) = Segments(g) \o Segments(b)
  BY <1>1, <1>2, <1>3, SegmentsJoin
<1>8. (l \o Segments(g)) \o Segments(b) = l \o (Segments(g) \o Segments(b))
  <2>1. \A p, q, r \in Seq(Line) : (p \o q) \o r = p \o (q \o r)
    BY ConcatAssociative
  <2>2. QED BY <1>6, <2>1, Zenon
<1>9. QED BY <1>1, <1>2, <1>3, <1>5, <1>7, <1>8

(* Dropping the repeated closing point drops no segment that burns.        *)
LEMMA ShortHasNone ==
  ASSUME NEW g \in Path, Len(g) < 2 PROVE Segments(g) = <<>>
<1>1. Len(g) \in Nat /\ (g = <<>> <=> Len(g) = 0)
  BY LenProperties, EmptySeq DEF Path
<1>2. Segments(g) \in Seq(Line) /\ Len(Segments(g)) = 0
  BY <1>1, SegmentsType
<1>3. QED BY <1>2, EmptySeq

LEMMA PairIsOne ==
  ASSUME NEW x \in Points, NEW y \in Points
  PROVE  Segments(<<x>> \o <<y>>) = <<<<x, y>>>>
<1>1. PICK p \in Path : p = <<x, y>> /\ Len(p) = 2 /\ p[1] = x /\ p[2] = y
  <2>1. <<x, y>> \in Seq(Points)
    OBVIOUS
  <2>2. QED BY <2>1 DEF Path
<1>2. <<x>> \o <<y>> = <<x, y>>
  <2>1. PICK s \in Seq(Points) : s = <<x>> /\ Len(s) = 1 /\ s[1] = x
    <3>1. <<x>> \in Seq(Points) /\ Len(<<x>>) = 1 /\ <<x>>[1] = x
      OBVIOUS
    <3>2. QED BY <3>1, Zenon
  <2>2. PICK a \in Seq(Points) : a = Append(s, y)
    BY AppendProperties
  <2>3. Len(a) = Len(p) /\ \A i \in 1..Len(a) : a[i] = p[i]
    BY <1>1, <2>1, <2>2, AppendProperties
  <2>4. a = p
    BY <1>1, <2>3, SeqEqual DEF Path
  <2>5. a = s \o <<y>>
    BY <2>2, AppendIsConcat
  <2>6. QED BY <1>1, <2>1, <2>4, <2>5
<1>3. p # <<>>
  BY <1>1, EmptySeq
<1>4. PICK s \in Seq(Line) : s = Segments(p)
  BY SegmentsType
<1>5. Len(s) = 1 /\ s[1] = <<x, y>>
  <2>1. /\ Len(Segments(p)) = IF p = <<>> THEN 0 ELSE Len(p) - 1
        /\ \A i \in 1..(Len(p) - 1) : Segments(p)[i] = <<p[i], p[i + 1]>>
    BY SegmentsType
  <2>2. Len(p) - 1 = 1 /\ 1 \in 1..(Len(p) - 1) /\ 1 + 1 = 2
    BY <1>1
  <2>3. Len(Segments(p)) = 1 /\ Segments(p)[1] = <<p[1], p[2]>>
    BY <1>3, <2>1, <2>2
  <2>4. QED BY <1>1, <1>4, <2>3
<1>6. PICK l \in Line : l = <<x, y>>
  BY DEF Line
<1>7. PICK o \in Seq(Line) : o = <<l>> /\ Len(o) = 1 /\ o[1] = l
  <2> HIDE DEF Line
  <2>1. <<l>> \in Seq(Line) /\ Len(<<l>>) = 1 /\ <<l>>[1] = l
    OBVIOUS
  <2>2. QED BY <2>1, Zenon
<1>8. o = s
  <2>1. \A i \in 1..Len(o) : o[i] = s[i]
    BY <1>5, <1>6, <1>7
  <2>2. QED BY <1>5, <1>7, <2>1, SeqEqual
<1>9. QED BY <1>1, <1>2, <1>4, <1>6, <1>7, <1>8

LEMMA CleanedType == \A g \in Path : Cleaned(g) \in Path
<1>1. ASSUME NEW g \in Path, Len(g) >= 3 PROVE Front(g) \in Path
  <2>1. g # <<>>
    BY <1>1, EmptySeq DEF Path
  <2>2. PICK f \in Seq(Points), x \in Points : g = Append(f, x)
    BY <2>1, SequenceEmptyOrAppend DEF Path
  <2>3. Front(g) = f
    BY <2>2, FrontIs
  <2>4. QED BY <2>3 DEF Path
<1>2. QED BY <1>1 DEF Cleaned

LEMMA CleanedBurnsSame ==
  ASSUME NEW g \in Path
  PROVE  Real(Segments(Cleaned(g))) = Real(Segments(g))
<1>1. CASE Cleaned(g) = g
  BY <1>1
<1>2. CASE Cleaned(g) # g
  <2>1. Len(g) >= 3 /\ g[Len(g)] = g[Len(g) - 1] /\ Cleaned(g) = Front(g)
    BY <1>2, Zenon DEF Cleaned
  <2>2. PICK f \in Seq(Points), x \in Points : g = Append(f, x)
    <3>1. g # <<>>
      BY <2>1, EmptySeq DEF Path
    <3>2. QED BY <3>1, SequenceEmptyOrAppend DEF Path
  <2>3. /\ Len(f) \in Nat /\ Len(g) = Len(f) + 1 /\ g[Len(f) + 1] = x
        /\ \A i \in 1..Len(f) : g[i] = f[i]
    BY <2>2, AppendProperties, LenProperties
  <2>4. Last(f) = x /\ f # <<>>
    <3>1. Len(f) >= 2 /\ Len(f) \in 1..Len(f) /\ Len(g) - 1 = Len(f)
      BY <2>1, <2>3
    <3>2. f[Len(f)] = x
      BY <2>1, <2>3, <3>1
    <3>3. QED BY <3>1, <3>2, EmptySeq DEF Last
  <2>5. Cleaned(g) = f
    BY <2>1, <2>2, FrontIs
  <2>6. <<x>> \in Path /\ <<x>> # <<>> /\ g = f \o <<x>>
    BY <2>2, AppendIsConcat DEF Path
  <2>7. Segments(g) = Segments(f) \o Segments(<<x>> \o <<x>>)
    <3>1. f \in Path
      BY DEF Path
    <3>2. PICK t \in Path : t = <<x>> /\ t # <<>>
      BY <2>6
    <3>3. Segments(f \o t) = Segments(f) \o Segments(<<Last(f)>> \o t)
      BY <2>4, <3>1, <3>2, SegmentsJoin
    <3>4. QED BY <2>4, <2>6, <3>2, <3>3
  <2>8. PICK l \in Line : l = <<x, x>> /\ ~IsReal(l)
    <3>1. <<x, x>> \in Line /\ ~IsReal(<<x, x>>)
      BY DEF Line, IsReal
    <3>2. QED BY <3>1
  <2>9. Segments(<<x>> \o <<x>>) = <<l>> /\ <<l>> \in Seq(Line)
    <3>1. Segments(<<x>> \o <<x>>) = <<<<x, x>>>>
      BY PairIsOne
    <3> HIDE DEF Line
    <3>2. <<l>> \in Seq(Line)
      OBVIOUS
    <3>3. QED BY <2>8, <3>1, <3>2
  <2>10. PICK s \in Seq(Line) : s = Segments(f)
    BY SegmentsType DEF Path
  <2>11. PICK o \in Seq(Line) : o = <<l>>
    BY <2>9
  <2>12. Real(s \o o) = Real(s) \o Real(o) /\ Real(s) \in Seq(Line)
    BY RealConcat
  <2>13. Real(o) = <<>>
    BY <2>8, <2>11, RealOne
  <2>14. Real(s) \o <<>> = Real(s)
    BY <2>12, ConcatEmptySeq
  <2>15. QED BY <2>5, <2>7, <2>9, <2>10, <2>11, <2>12, <2>13, <2>14
<1>3. QED BY <1>1, <1>2

(* The paths of a job burn what the drawing they are taken from burns.     *)
CleanedOf == [g \in Path |-> Cleaned(g)]

LEMMA CleanedMap ==
  ASSUME NEW ps \in Seq(Path)
  PROVE  /\ Burns(ps) = Real(Lines(EachOf(CleanedOf, ps)))
         /\ EachOf(CleanedOf, ps) \in Seq(Path)
<1>1. CleanedOf \in [Path -> Path]
  BY CleanedType, Zenon DEF CleanedOf
<1>2. \A i \in DOMAIN ps : ps[i] \in Path
  BY LenProperties, ElementOfSeq
<1>3. [i \in DOMAIN ps |-> Cleaned(ps[i])] = EachOf(CleanedOf, ps)
  BY <1>2, Zenon DEF EachOf, CleanedOf
<1>4. EachOf(CleanedOf, ps) \in Seq(Path)
  BY <1>1, EachType
<1>5. QED BY <1>3, <1>4, Zenon DEF Burns

LEMMA BurnsAppend ==
  ASSUME NEW ps \in Seq(Path), NEW g \in Path
  PROVE  /\ Burns(ps) \in Seq(Line)
         /\ Burns(Append(ps, g)) = Burns(ps) \o Real(Segments(g))
<1>1. PICK cs \in Seq(Path) : cs = EachOf(CleanedOf, ps)
                              /\ Burns(ps) = Real(Lines(cs))
  BY CleanedMap
<1>2. PICK c \in Path : c = Cleaned(g)
  BY CleanedType
<1>3. Append(ps, g) \in Seq(Path)
  BY AppendProperties
<1>4. EachOf(CleanedOf, Append(ps, g)) = Append(cs, c)
  <2>1. CleanedOf \in [Path -> Path] /\ CleanedOf[g] = c
    BY <1>2, CleanedType DEF CleanedOf
  <2>2. EachOf(CleanedOf, Append(ps, g))
          = Append(EachOf(CleanedOf, ps), CleanedOf[g])
    BY <2>1, EachAppend
  <2>3. QED BY <1>1, <2>1, <2>2
<1>5. Burns(Append(ps, g)) = Real(Lines(Append(cs, c)))
  BY <1>3, <1>4, CleanedMap
<1>6. PICK l \in Seq(Line) :
        l = Lines(cs) /\ Lines(Append(cs, c)) = l \o Segments(c)
  BY LinesAppend
<1>7. /\ Real(l \o Segments(c)) = Real(l) \o Real(Segments(c))
      /\ Real(l) \in Seq(Line)
  BY SegmentsType, RealConcat
<1>8. Real(Segments(c)) = Real(Segments(g))
  BY <1>2, CleanedBurnsSame
<1>9. QED BY <1>1, <1>5, <1>6, <1>7, <1>8

LEMMA NoneDrawn ==
  Lines(<<>>) = <<>> /\ Drawn(<<>>) = <<>> /\ Burns(<<>>) = <<>>
  /\ Real(<<>>) = <<>>
<1>1. <<>> \in Seq(Path) /\ <<>> \in Seq(Line)
  BY EmptySeq
<1>2. Lines(<<>>) = <<>> /\ Drawn(<<>>) = <<>> /\ Real(<<>>) = <<>>
  BY <1>1, LinesMap, RealMap, FlatMapEmpty
<1>3. EachOf(CleanedOf, <<>>) = <<>>
  BY DEF EachOf
<1>4. QED BY <1>1, <1>2, <1>3, CleanedMap

LEMMA BurnsDrawn ==
  ASSUME NEW gs \in Seq(Path) PROVE Burns(Drawn(gs)) = Real(Lines(gs))
<1> DEFINE U == {u \in Seq(Path) : Burns(Drawn(u)) = Real(Lines(u))}
<1>1. <<>> \in U
  BY NoneDrawn, EmptySeq
<1>2. ASSUME NEW u \in U, NEW g \in Path PROVE Append(u, g) \in U
  <2>1. u \in Seq(Path) /\ Burns(Drawn(u)) = Real(Lines(u))
    OBVIOUS
  <2>2. Append(u, g) \in Seq(Path)
    BY <2>1, AppendProperties
  <2>3. PICK l \in Seq(Line) :
          l = Lines(u) /\ Lines(Append(u, g)) = l \o Segments(g)
    BY <2>1, LinesAppend
  <2>4. PICK s \in Seq(Line) : s = Segments(g)
    BY SegmentsType
  <2>5. Real(l \o s) = Real(l) \o Real(s) /\ Real(l) \in Seq(Line)
    BY RealConcat
  <2>6. PICK d \in Seq(Path) :
          /\ d = Drawn(u)
          /\ Drawn(Append(u, g)) = IF Len(g) >= 2 THEN Append(d, g) ELSE d
    BY <2>1, DrawnAppend
  <2>7. CASE Len(g) >= 2
    <3>1. Burns(Append(d, g)) = Burns(d) \o Real(s)
      BY <2>4, BurnsAppend
    <3>2. QED BY <2>1, <2>2, <2>3, <2>4, <2>5, <2>6, <2>7, <3>1
  <2>8. CASE ~(Len(g) >= 2)
    <3>1. s = <<>>
      <4>1. Len(g) \in Nat
        BY LenProperties DEF Path
      <4>2. QED BY <2>4, <2>8, <4>1, ShortHasNone
    <3>2. l \o s = l
      BY <3>1, ConcatEmptySeq
    <3>3. QED BY <2>1, <2>2, <2>3, <2>4, <2>6, <2>8, <3>2
  <2>9. QED BY <2>7, <2>8
<1>3. U \subseteq Seq(Path)
  OBVIOUS
<1> HIDE DEF U
<1>4. U = Seq(Path)
  BY <1>1, <1>2, <1>3, SeqInduction
<1>5. QED BY <1>4 DEF U

(* No path is sent only if no path has two points.                         *)
LEMMA DrawnSome ==
  ASSUME NEW gs \in Seq(Path), \A i \in DOMAIN gs : Len(gs[i]) < 2
  PROVE  Drawn(gs) = <<>>
<1> DEFINE U == {u \in Seq(Path) :
                   (\A i \in 1..Len(u) : Len(u[i]) < 2) => Drawn(u) = <<>>}
<1>1. <<>> \in U
  BY NoneDrawn, EmptySeq
<1>2. ASSUME NEW u \in U, NEW g \in Path PROVE Append(u, g) \in U
  <2>1. PICK a \in Seq(Path) : a = Append(u, g)
    BY AppendProperties
  <2>2. /\ u \in Seq(Path) /\ Len(u) \in Nat
        /\ (\A i \in 1..Len(u) : Len(u[i]) < 2) => Drawn(u) = <<>>
    BY LenProperties
  <2>3. SUFFICES ASSUME \A i \in 1..Len(a) : Len(a[i]) < 2
                 PROVE  Drawn(a) = <<>>
    BY <2>1
  <2>4. /\ Len(a) = Len(u) + 1 /\ a[Len(u) + 1] = g
        /\ \A i \in 1..Len(u) : a[i] = u[i]
    BY <2>1, <2>2, AppendProperties
  <2>5. Len(g) < 2 /\ \A i \in 1..Len(u) : Len(u[i]) < 2
    BY <2>2, <2>3, <2>4
  <2>6. Len(g) \in Nat
    BY LenProperties DEF Path
  <2>7. Drawn(a) = Drawn(u)
    BY <2>1, <2>2, <2>5, <2>6, DrawnAppend
  <2>8. QED BY <2>2, <2>5, <2>7
<1>3. U \subseteq Seq(Path)
  OBVIOUS
<1> HIDE DEF U
<1>4. U = Seq(Path)
  BY <1>1, <1>2, <1>3, SeqInduction
<1>5. DOMAIN gs = 1..Len(gs)
  BY LenProperties
<1>6. QED BY <1>4, <1>5 DEF U

-----------------------------------------------------------------------------
(* While none of its client's job threads lives, what the handler has of a *)
(* layer is what LightBurn has commanded of it: the power of the job is the*)
(* highest commanded, and the drawing, with the points of this line that   *)
(* are still to be added, has the segments commanded.                      *)
MidLine == host \in {"adding", "raised", "chosen"}

Plan(gs, points, s) ==
  IF s > 0 /\ gs # <<>> THEN [gs EXCEPT ![Len(gs)] = @ \o points] ELSE gs
Planned == Plan(groups, todo, power)

PowerIsTheLayers ==
  /\ \/ jobPower = peak
     \/ /\ host = "adding" /\ todo # <<>> /\ power > 0
        /\ Higher(jobPower, power) = peak
  /\ MidLine => power <= peak
  /\ host \in {"raised", "chosen"} => power > 0 /\ jobPower = peak
  /\ host = "chosen" => groups # <<>>
  /\ peak = 0 => \A i \in DOMAIN groups : Len(groups[i]) < 2
  /\ host = "finishing" => peak > 0

LinesAreTheLayers ==
  good.apt =>
    /\ Lines(Planned) = burnt
    /\ pen = "down" => groups # <<>> /\ Last(Last(Planned)) = pos
    /\ MidLine /\ power > 0 => pen = "down"
    /\ host = "finishing" => Burns(taken) = Real(burnt)

(* While one lives, nothing may be commanded: the drawing is the last      *)
(* layer's, which a thread of this client will empty before the last ends. *)
WillEmpty == \E j \in Threads : Mine(j) /\ ~At(j, {"emptied", "ended"})

NothingDrawn ==
  /\ host = "ready" /\ burnt = <<>> /\ peak = 0 /\ pen = "up"
  /\ groups = <<>> \/ WillEmpty

Undisturbed ==
  good.alone => IF Quiet THEN PowerIsTheLayers /\ LinesAreTheLayers
                ELSE NothingDrawn

(* Between two lines no point is left to add.                              *)
AllAdded == host \in {"ready", "finishing"} => todo = <<>>

Counts == peak \in Nat /\ AllAdded

(* What those are about; a step that leaves it alone keeps them.           *)
Layer == <<pos, power, groups, jobPower, host, todo, taken, burnt, peak, pen>>

Groups == Seq(Seq(Points) \ {<<>>})

LEMMA PathGroups ==
  ASSUME NEW gs \in Groups
  PROVE  gs \in Seq(Path) /\ \A i \in 1..Len(gs) : gs[i] # <<>>
<1>1. gs \in [1..Len(gs) -> Seq(Points) \ {<<>>}] /\ Len(gs) \in Nat
  BY LenProperties DEF Groups
<1>2. gs \in [1..Len(gs) -> Path]
  BY <1>1 DEF Path
<1>3. QED BY <1>1, <1>2, IsSeq

LEMMA PlanIdle ==
  ASSUME NEW gs \in Groups, NEW points, NEW s, points = <<>> \/ s = 0
  PROVE  Plan(gs, points, s) = gs
<1>1. CASE s > 0 /\ gs # <<>>
  <2>1. PICK f \in Seq(Path), g \in Path : EndsWith(gs, f, g)
    BY <1>1, PathGroups, SplitLast
  <2>2. g \o points = g
    BY <1>1, ConcatEmptySeq DEF Path
  <2>3. QED BY <1>1, <2>1, <2>2 DEF Plan, EndsWith
<1>2. CASE ~(s > 0 /\ gs # <<>>)
  BY <1>2 DEF Plan
<1>3. QED BY <1>1, <1>2

(* The last group, and the drawing once this line's points are in it.      *)
LEMMA PlanSplit ==
  ASSUME NEW gs \in Groups, gs # <<>>
  PROVE  \E f \in Seq(Path), g \in Path :
           /\ EndsWith(gs, f, g) /\ g # <<>>
           /\ \A points, s :
                s > 0 => Plan(gs, points, s) = Append(f, g \o points)
<1>1. PICK f \in Seq(Path), g \in Path : EndsWith(gs, f, g)
  BY PathGroups, SplitLast
<1>2. g # <<>>
  <2>1. Len(gs) \in 1..Len(gs) /\ gs[Len(gs)] = g
    BY <1>1, PathGroups, LenProperties, EmptySeq DEF EndsWith
  <2>2. QED BY <2>1, PathGroups
<1>3. ASSUME NEW points, NEW s, s > 0
      PROVE  Plan(gs, points, s) = Append(f, g \o points)
  BY <1>1, <1>3 DEF Plan, EndsWith
<1>4. QED BY <1>1, <1>2, <1>3

LEMMA HigherIs ==
  \A a, b \in Nat : /\ Higher(a, b) \in Nat /\ Higher(a, b) >= a
                    /\ Higher(a, b) >= b /\ (b <= a => Higher(a, b) = a)
                    /\ Higher(a, 0) = a
BY DEF Higher

LEMMA NoLines == Lines(<<>>) = <<>> /\ Len(<<>>) = 0 /\ DOMAIN <<>> = {}
BY NoneDrawn, EmptySeq

(* What a line LightBurn sends does to a layer that is undisturbed.        *)
LEMMA RapidUndisturbed ==
  ASSUME TypeOK, Shape, Counts, PowerIsTheLayers, LinesAreTheLayers,
         NEW p \in Points, Rapid(p), TypeOK'
  PROVE  PowerIsTheLayers' /\ LinesAreTheLayers'
<1>1. /\ host = "ready" /\ host' = "ready" /\ todo = <<>> /\ todo' = <<>>
      /\ groups' = Append(groups, <<p>>) /\ pos' = p
      /\ UNCHANGED <<jobPower, burnt, peak>> /\ good'.apt = good.apt
  BY DEF Rapid, Hear, Same, Counts, AllAdded, Shape
<1>2. PICK o \in Path : o = <<p>> /\ Len(o) = 1 /\ Last(o) = p
  <2>1. <<p>> \in Path /\ Len(<<p>>) = 1 /\ <<p>>[1] = p
    BY DEF Path
  <2>2. QED BY <2>1 DEF Last
<1>3. groups \in Seq(Path)
  BY PathGroups DEF TypeOK, Groups
<1>4. Planned = groups /\ Planned' = groups'
  BY <1>1, PlanIdle DEF Planned, TypeOK, Groups
<1>5. PowerIsTheLayers'
  <2>1. jobPower = peak
    BY <1>1 DEF PowerIsTheLayers
  <2>2. PICK gs \in Seq(Path) : gs = groups'
    BY <1>1, <1>2, <1>3, AppendProperties
  <2>3. /\ Len(groups) \in Nat /\ DOMAIN groups = 1..Len(groups)
        /\ DOMAIN gs = 1..(Len(groups) + 1)
        /\ gs[Len(groups) + 1] = o
        /\ \A i \in 1..Len(groups) : gs[i] = groups[i]
    BY <1>1, <1>2, <1>3, <2>2, AppendProperties, LenProperties
  <2>4. ASSUME peak = 0, NEW i \in DOMAIN gs PROVE Len(gs[i]) < 2
    <3>1. CASE i = Len(groups) + 1
      <4>1. gs[i] = o
        BY <2>3, <3>1
      <4>2. QED BY <1>2, <4>1
    <3>2. CASE i # Len(groups) + 1
      <4>1. i \in DOMAIN groups /\ gs[i] = groups[i]
        BY <2>3, <3>2
      <4>2. QED BY <2>4, <4>1 DEF PowerIsTheLayers
    <3>3. QED BY <3>1, <3>2
  <2>5. QED BY <1>1, <2>1, <2>2, <2>4 DEF PowerIsTheLayers, MidLine
<1>6. ASSUME good.apt
      PROVE  /\ Lines(groups') = burnt
             /\ groups' # <<>> /\ Last(Last(groups')) = p
  <2>1. Lines(groups') = Lines(groups)
    BY <1>1, <1>3, LinesOfOne
  <2>2. Last(groups') = o
    BY <1>1, <1>2, <1>3, LastOfAppend
  <2>3. groups' # <<>>
    BY <1>1, <1>2, <1>3, AppendProperties, EmptySeq, LenProperties
  <2>4. QED BY <1>2, <1>4, <1>6, <2>1, <2>2, <2>3 DEF LinesAreTheLayers
<1>7. LinesAreTheLayers'
  BY <1>1, <1>4, <1>6 DEF LinesAreTheLayers, MidLine
<1>8. QED BY <1>5, <1>7

LEMMA LiftUndisturbed ==
  ASSUME TypeOK, Shape, Counts, PowerIsTheLayers, LinesAreTheLayers, TypeOK',
         \/ \E p \in Points : SetPosition(p)
         \/ \E s \in Powers : Unrecognised(s)
  PROVE  PowerIsTheLayers' /\ LinesAreTheLayers'
<1>1. /\ host = "ready" /\ host' = "ready" /\ todo = <<>> /\ todo' = <<>>
      /\ UNCHANGED <<groups, jobPower, burnt, peak>> /\ pen' = "up"
      /\ good'.apt = good.apt
  BY DEF SetPosition, Unrecognised, Hear, Same, Counts, AllAdded, Shape
<1>2. Planned = groups /\ Planned' = groups'
  BY <1>1, PlanIdle DEF Planned, TypeOK, Groups
<1>3. PowerIsTheLayers'
  BY <1>1 DEF PowerIsTheLayers, MidLine
<1>4. LinesAreTheLayers'
  BY <1>1, <1>2 DEF LinesAreTheLayers, MidLine
<1>5. QED BY <1>3, <1>4

LEMMA CutUndisturbed ==
  ASSUME TypeOK, Shape, Counts, PowerIsTheLayers, LinesAreTheLayers, TypeOK',
         NEW c \in Cuts, Cut(c.to, c.s)
  PROVE  PowerIsTheLayers' /\ LinesAreTheLayers'
<1>1. PICK s \in Nat, t \in Path : s = c.s /\ t = c.to /\ t # <<>>
  BY GrblAssumption DEF Path
<1>2. /\ host = "ready" /\ host' = "adding" /\ todo = <<>> /\ todo' = t
      /\ power' = s /\ pos' = Last(t) /\ peak' = Higher(peak, s)
      /\ UNCHANGED <<groups, jobPower>>
      /\ pen' = IF s = 0 THEN "up" ELSE pen
      /\ (good'.apt => good.apt /\ (s = 0 \/ pen = "down"))
      /\ (good'.apt /\ s = 0 => burnt' = burnt)
      /\ (good'.apt /\ s # 0 => burnt' = burnt \o Segments(<<pos>> \o t))
  BY <1>1 DEF Cut, Hear, Counts, AllAdded, Shape
<1>3. peak \in Nat /\ jobPower = peak
  BY <1>2 DEF PowerIsTheLayers, Counts
<1>4. PowerIsTheLayers'
  <2>1. peak' >= s /\ (s = 0 => peak' = peak) /\ (peak' = 0 => peak = 0)
    BY <1>2, <1>3, HigherIs
  <2>2. s = 0 \/ s > 0
    OBVIOUS
  <2>3. QED BY <1>1, <1>2, <1>3, <2>1, <2>2 DEF PowerIsTheLayers, MidLine
<1>5. Planned = groups
  BY <1>2, PlanIdle DEF Planned, TypeOK, Groups
<1>6. CASE ~good'.apt
  BY <1>4, <1>6 DEF LinesAreTheLayers
<1>7. CASE good'.apt /\ s = 0
  <2>1. Planned' = groups'
    BY <1>2, <1>7, PlanIdle DEF Planned, TypeOK, Groups
  <2>2. Lines(Planned') = burnt'
    BY <1>2, <1>5, <1>7, <2>1 DEF LinesAreTheLayers
  <2>3. pen' = "up" /\ power' = 0 /\ host' = "adding"
    BY <1>2, <1>7
  <2>4. QED BY <1>4, <2>2, <2>3 DEF LinesAreTheLayers
<1>8. CASE good'.apt /\ s # 0
  <2>1. /\ good.apt /\ pen = "down" /\ pen' = "down" /\ s > 0
        /\ groups # <<>> /\ Last(Last(groups)) = pos /\ Lines(groups) = burnt
        /\ burnt' = burnt \o Segments(<<pos>> \o t)
    BY <1>2, <1>5, <1>8 DEF LinesAreTheLayers
  <2>2. PICK f \in Seq(Path), g \in Path : EndsWith(groups, f, g) /\ g # <<>>
    BY <2>1, PlanSplit DEF TypeOK, Groups
  <2>3. PICK h \in Path : h = g \o t
    BY ConcatProperties DEF Path
  <2>4. Planned' = Append(f, h)
    BY <1>2, <2>1, <2>2, <2>3 DEF Planned, Plan, EndsWith
  <2>5. Last(g) = pos /\ groups = Append(f, g)
    BY <2>1, <2>2 DEF EndsWith
  <2>6. Lines(Append(f, h)) = burnt'
    <3>1. Lines(Append(f, g \o t))
            = Lines(Append(f, g)) \o Segments(<<Last(g)>> \o t)
      BY <1>1, <2>2, LinesGrow
    <3>2. QED BY <2>1, <2>3, <2>5, <3>1
  <2>7. Last(Last(Append(f, h))) = Last(t)
    <3>1. Last(Append(f, h)) = h
      BY LastOfAppend
    <3>2. Last(h) = Last(t)
      BY <1>1, <2>3, LastOfConcat DEF Path
    <3>3. QED BY <3>1, <3>2
  <2>8. groups' # <<>>
    BY <1>2, <2>1
  <2>9. Lines(Planned') = burnt' /\ Last(Last(Planned')) = pos'
    BY <1>2, <2>4, <2>6, <2>7
  <2>10. QED BY <1>2, <1>4, <2>1, <2>8, <2>9 DEF LinesAreTheLayers
<1>9. QED BY <1>4, <1>6, <1>7, <1>8

(* An empty drawing, of nothing.                                           *)
LEMMA NothingIsSettled ==
  ASSUME host' = "ready", groups' = <<>>, jobPower' = 0, burnt' = <<>>,
         peak' = 0, pen' = "up"
  PROVE  PowerIsTheLayers' /\ LinesAreTheLayers'
<1>1. Planned' = <<>>
  BY DEF Planned, Plan
<1>2. QED
  BY <1>1, NoLines DEF PowerIsTheLayers, LinesAreTheLayers, MidLine

LEMMA FinishUndisturbed ==
  ASSUME TypeOK, Counts, PowerIsTheLayers, LinesAreTheLayers, TypeOK',
         Finish, Same, Drawn(groups) # <<>>
  PROVE  PowerIsTheLayers' /\ LinesAreTheLayers'
<1>1. /\ host = "ready" /\ host' = "finishing" /\ todo = <<>> /\ todo' = <<>>
      /\ taken' = Drawn(groups)
      /\ UNCHANGED <<pos, power, groups, jobPower, burnt, peak, pen>>
  BY DEF Finish, Hear, Counts, AllAdded
<1>2. good'.apt => good.apt
  BY DEF Same
<1>3. Planned = groups /\ Planned' = groups'
  BY <1>1, PlanIdle DEF Planned, TypeOK, Groups
<1>4. groups \in Seq(Path)
  BY PathGroups DEF TypeOK, Groups
<1>5. jobPower = peak /\ peak \in Nat /\ peak # 0
  BY <1>1, <1>4, DrawnSome DEF PowerIsTheLayers, Counts
<1>6. PowerIsTheLayers'
  BY <1>1, <1>5 DEF PowerIsTheLayers, MidLine
<1>7. Burns(Drawn(groups)) = Real(Lines(groups))
  BY <1>4, BurnsDrawn
<1>8. LinesAreTheLayers'
  BY <1>1, <1>2, <1>3, <1>7 DEF LinesAreTheLayers, MidLine
<1>9. QED BY <1>6, <1>8

(* The steps in which the handler adds the points of a cut.                *)
LEMMA RaiseUndisturbed ==
  ASSUME Counts, PowerIsTheLayers, LinesAreTheLayers, TypeOK, Raise
  PROVE  PowerIsTheLayers' /\ LinesAreTheLayers'
<1>1. /\ host = "adding" /\ host' = "raised" /\ todo # <<>> /\ power > 0
      /\ jobPower' = Higher(jobPower, power)
      /\ UNCHANGED <<pos, power, groups, todo, taken, burnt, peak, pen, good>>
  BY DEF Raise, AddsPoint, history
<1>2. peak \in Nat /\ power \in Nat /\ jobPower \in Nat /\ power <= peak
  BY <1>1 DEF Counts, TypeOK, PowerIsTheLayers, MidLine
<1>3. jobPower' = peak
  BY <1>1, <1>2, HigherIs DEF PowerIsTheLayers
<1>4. PowerIsTheLayers'
  BY <1>1, <1>2, <1>3 DEF PowerIsTheLayers, MidLine
<1>5. Planned' = Planned
  BY <1>1 DEF Planned
<1>6. LinesAreTheLayers'
  BY <1>1, <1>5 DEF LinesAreTheLayers, MidLine
<1>7. QED BY <1>4, <1>6

LEMMA AddFirstUndisturbed ==
  ASSUME TypeOK, Counts, PowerIsTheLayers, LinesAreTheLayers, AddFirst
  PROVE  PowerIsTheLayers' /\ LinesAreTheLayers'
<1>1. /\ host = "raised" /\ host' = "adding" /\ groups = <<>>
      /\ UNCHANGED <<pos, power, jobPower, taken, burnt, peak, pen, good>>
  BY DEF AddFirst, IsFirst, Added, history
<1>2. /\ power > 0 /\ jobPower = peak /\ power <= peak /\ peak \in Nat
      /\ power \in Nat /\ ~good.apt
  BY <1>1 DEF PowerIsTheLayers, LinesAreTheLayers, MidLine, Counts, TypeOK
<1>3. peak # 0
  BY <1>2
<1>4. PowerIsTheLayers'
  BY <1>1, <1>2, <1>3 DEF PowerIsTheLayers, MidLine
<1>5. LinesAreTheLayers'
  BY <1>1, <1>2 DEF LinesAreTheLayers
<1>6. QED BY <1>4, <1>5

LEMMA ChooseUndisturbed ==
  ASSUME PowerIsTheLayers, LinesAreTheLayers, Choose
  PROVE  PowerIsTheLayers' /\ LinesAreTheLayers'
<1>1. /\ host = "raised" /\ host' = "chosen" /\ groups # <<>>
      /\ UNCHANGED <<pos, power, groups, jobPower, todo, taken, burnt, peak,
                     pen, good>>
  BY DEF Choose, IsFirst, state, history
<1>2. Planned' = Planned
  BY <1>1 DEF Planned
<1>3. PowerIsTheLayers'
  BY <1>1 DEF PowerIsTheLayers, MidLine
<1>4. LinesAreTheLayers'
  BY <1>1, <1>2 DEF LinesAreTheLayers, MidLine
<1>5. QED BY <1>3, <1>4

LEMMA AddNextUndisturbed ==
  ASSUME TypeOK, Counts, PowerIsTheLayers, LinesAreTheLayers, TypeOK', AddNext
  PROVE  PowerIsTheLayers' /\ LinesAreTheLayers'
<1>1. /\ host = "chosen" /\ host' = "adding" /\ groups # <<>> /\ todo # <<>>
      /\ groups' = [groups EXCEPT ![Len(groups)] = Append(@, Head(todo))]
      /\ todo' = Tail(todo)
      /\ UNCHANGED <<pos, power, jobPower, taken, burnt, peak, pen, good>>
  BY DEF AddNext, Added, history, TypeOK
<1>2. /\ power > 0 /\ jobPower = peak /\ power <= peak /\ peak \in Nat
      /\ power \in Nat
  BY <1>1 DEF PowerIsTheLayers, MidLine, Counts, TypeOK
<1>3. peak # 0
  BY <1>2
<1>4. PowerIsTheLayers'
  BY <1>1, <1>2, <1>3 DEF PowerIsTheLayers, MidLine
<1>5. PICK f \in Seq(Path), g \in Path :
        /\ EndsWith(groups, f, g)
        /\ \A points, s :
             s > 0 => Plan(groups, points, s) = Append(f, g \o points)
  BY <1>1, PlanSplit DEF TypeOK, Groups
<1>6. PICK a \in Path : a = Append(g, Head(todo))
  <2>1. Head(todo) \in Points
    BY <1>1, HeadTailProperties DEF TypeOK
  <2>2. QED BY <2>1, AppendProperties DEF Path
<1>7. groups' = Append(f, a)
  BY <1>1, <1>5, <1>6 DEF EndsWith
<1>8. groups' # <<>> /\ Last(groups') = a
  <2>1. Last(Append(f, a)) = a
    BY LastOfAppend
  <2>2. Append(f, a) # <<>>
    BY AppendProperties, EmptySeq, LenProperties
  <2>3. QED BY <1>7, <2>1, <2>2
<1>9. Planned' = Append(f, a \o todo')
  <2>1. PICK e \in Seq(Path), b \in Path :
          /\ EndsWith(groups', e, b)
          /\ \A points, s :
               s > 0 => Plan(groups', points, s) = Append(e, b \o points)
    BY <1>8, PlanSplit DEF TypeOK, Groups
  <2>2. b = a /\ Append(e, b) = Append(f, a)
    BY <1>7, <1>8, <2>1 DEF EndsWith
  <2>3. e = f
    <3>1. Front(Append(e, b)) = e /\ Front(Append(f, a)) = f
      BY FrontIs
    <3>2. QED BY <2>2, <3>1
  <2>4. Planned' = Append(e, b \o todo')
    BY <1>1, <1>2, <2>1 DEF Planned
  <2>5. QED BY <2>2, <2>3, <2>4
<1>10. Planned = Append(f, g \o todo)
  BY <1>2, <1>5 DEF Planned
<1>11. a \o todo' = g \o todo
  BY <1>1, <1>6, HeadMoves DEF Path, TypeOK
<1>12. Planned' = Planned
  BY <1>9, <1>10, <1>11
<1>13. LinesAreTheLayers'
  BY <1>1, <1>8, <1>12 DEF LinesAreTheLayers, MidLine
<1>14. QED BY <1>4, <1>13

LEMMA CutDoneUndisturbed ==
  ASSUME TypeOK, Counts, PowerIsTheLayers, LinesAreTheLayers, TypeOK', CutDone
  PROVE  PowerIsTheLayers' /\ LinesAreTheLayers'
<1>1. /\ host = "adding" /\ host' = "ready" /\ todo' = <<>>
      /\ (todo = <<>> \/ ~(power > 0))
      /\ UNCHANGED <<pos, power, groups, jobPower, taken, burnt, peak, pen,
                     good>>
  BY DEF CutDone, AddsPoint, state, history
<1>2. todo = <<>> \/ power = 0
  BY <1>1 DEF TypeOK
<1>3. Planned = groups /\ Planned' = groups'
  BY <1>1, <1>2, PlanIdle DEF Planned, TypeOK, Groups
<1>4. jobPower = peak
  BY <1>1 DEF PowerIsTheLayers
<1>5. PowerIsTheLayers'
  BY <1>1, <1>4 DEF PowerIsTheLayers, MidLine
<1>6. LinesAreTheLayers'
  BY <1>1, <1>3 DEF LinesAreTheLayers, MidLine
<1>7. QED BY <1>5, <1>6

(* The power never leaves the natural numbers.                             *)
LEMMA CountsKept == TypeOK /\ Counts /\ [Next]_vars => Counts'
<1> SUFFICES ASSUME TypeOK, Counts, [Next]_vars PROVE Counts'
  OBVIOUS
<1> USE DEF Counts, AllAdded, Hear
<1>1. CASE UNCHANGED vars
  BY <1>1 DEF vars, state, history
<1>2. CASE \E x \in Points : Rapid(x) \/ SetPosition(x)
  BY <1>2 DEF Rapid, SetPosition
<1>3. CASE \E x \in Powers : Unrecognised(x)
  BY <1>3 DEF Unrecognised
<1>4. ASSUME NEW c \in Cuts, Cut(c.to, c.s) PROVE Counts'
  <2>1. c.s \in Nat
    BY GrblAssumption
  <2>2. QED BY <1>4, <2>1, HigherIs DEF Cut
<1>5. CASE SoftReset \/ NewClient \/ Finish
  BY <1>5 DEF SoftReset, NewClient, Finish, NewLayer
<1>6. CASE Start
  BY <1>6 DEF Start, NewLayer
<1>7. CASE Raise \/ AddFirst \/ Choose \/ AddNext \/ IndexError \/ CutDone
  BY <1>7 DEF Raise, AddFirst, Choose, AddNext, IndexError, CutDone, Added,
              state, history
<1>8. ASSUME NEW j \in Threads, JobStep(j) PROVE Counts'
  BY <1>8 DEF JobStep, Acquire, Begin, NotReachable, SendPath, TooLong,
              GiveUp, Complete, NotRunning, Empty, Forget, LaserOnly, HostSame
<1>9. QED
  BY <1>1, <1>2, <1>3, <1>4, <1>5, <1>6, <1>7, <1>8
     DEF Next, LightBurn, HandlerStep

(* What a job thread's step is to the handler.                             *)
LEMMA JobSees ==
  ASSUME Shape, NEW j \in Threads, JobStep(j)
  PROVE  /\ UNCHANGED <<pos, power, session, host, todo, taken, burnt, peak,
                        pen>>
         /\ good'.apt = good.apt /\ good'.alone = good.alone
         /\ ~At(j, {"ended"})
         /\ \/ /\ UNCHANGED <<groups, jobPower>>
               /\ ~At(j, {"emptied"})
               /\ jobs'[j].pc \notin {"emptied", "ended"}
            \/ /\ ~At(j, {"emptied"}) /\ jobs'[j].pc = "emptied"
               /\ groups' = (IF Mine(j) THEN <<>> ELSE groups)
               /\ UNCHANGED jobPower
            \/ /\ At(j, {"emptied"}) /\ jobs'[j].pc = "ended"
               /\ jobPower' = (IF Mine(j) THEN 0 ELSE jobPower)
               /\ UNCHANGED groups
<1> USE DEF At
<1>1. Does(j)
  BY JobEffect
<1>2. CASE Empty(j)
  BY <1>1, <1>2 DEF Empty, HostSame, Does, Moves, Owning, Shape
<1>3. CASE Forget(j)
  BY <1>1, <1>3 DEF Forget, HostSame, Does, Moves, Owning
<1>4. CASE ~Empty(j) /\ ~Forget(j)
  <2>1. /\ UNCHANGED <<pos, power, session, host, todo, taken, burnt, peak,
                       pen>>
        /\ UNCHANGED <<groups, jobPower, good>>
    BY <1>4 DEF JobStep, Acquire, Begin, NotReachable, SendPath, TooLong,
                GiveUp, Complete, NotRunning, LaserOnly, HostSame
  <2>2. jobs[j].pc \in {"waiting", "locked", "sending", "returned"}
    BY <1>4 DEF JobStep, Acquire, Begin, NotReachable, SendPath, TooLong,
                GiveUp, Complete, NotRunning
  <2>3. jobs'[j].pc \notin {"emptied", "ended"}
    BY <1>1, <2>2 DEF Does, Moves, Owning
  <2>4. QED BY <2>1, <2>2, <2>3
<1>5. QED BY <1>2, <1>3, <1>4

LEMMA JobUndisturbed ==
  ASSUME Shape, Undisturbed, NEW j \in Threads, JobStep(j) PROVE Undisturbed'
<1> DEFINE Same9 == UNCHANGED <<pos, power, session, host, todo, taken, burnt,
                                peak, pen>>
<1>1. /\ Same9 /\ good'.apt = good.apt /\ good'.alone = good.alone
      /\ jobs[j].pc # "ended"
  BY JobSees DEF At
<1>2. /\ Threads' = Threads
      /\ \A k \in Threads : jobs'[k].session = jobs[k].session
      /\ \A k \in Threads : k # j => jobs'[k] = jobs[k]
  BY JobEffect DEF Effect, OneChanged, Threads
<1>3. SUFFICES ASSUME good.alone
               PROVE  IF Quiet' THEN PowerIsTheLayers' /\ LinesAreTheLayers'
                      ELSE NothingDrawn'
  BY <1>1 DEF Undisturbed
<1>4. CASE ~Mine(j)
  <2>1. UNCHANGED <<groups, jobPower>>
    BY <1>4, JobSees
  <2>2. Quiet' = Quiet /\ (WillEmpty <=> WillEmpty')
    BY <1>1, <1>2, <1>4 DEF Quiet, WillEmpty, Mine, At
  <2>3. Planned' = Planned
    BY <1>1, <2>1 DEF Planned
  <2>4. CASE Quiet
    <3>1. PowerIsTheLayers /\ LinesAreTheLayers
      BY <1>3, <2>4 DEF Undisturbed
    <3>2. PowerIsTheLayers'
      BY <1>1, <2>1, <3>1 DEF PowerIsTheLayers, MidLine
    <3>3. LinesAreTheLayers'
      BY <1>1, <2>1, <2>3, <3>1 DEF LinesAreTheLayers, MidLine
    <3>4. QED BY <2>2, <2>4, <3>2, <3>3
  <2>5. CASE ~Quiet
    <3>1. NothingDrawn
      BY <1>3, <2>5 DEF Undisturbed
    <3>2. NothingDrawn'
      BY <1>1, <2>1, <2>2, <3>1 DEF NothingDrawn
    <3>3. QED BY <2>2, <2>5, <3>2
  <2>6. QED BY <2>4, <2>5
<1>5. CASE Mine(j)
  <2>1. NothingDrawn
    <3>1. ~Quiet
      BY <1>1, <1>5 DEF Quiet, Mine, At
    <3>2. QED BY <1>3, <3>1 DEF Undisturbed
  <2>2. host' = "ready" /\ burnt' = <<>> /\ peak' = 0 /\ pen' = "up"
    BY <1>1, <2>1 DEF NothingDrawn
  <2>3. CASE jobs'[j].pc \notin {"emptied", "ended"}
    <3>1. WillEmpty'
      BY <1>1, <1>2, <1>5, <2>3 DEF WillEmpty, Mine, At
    <3>2. ~Quiet'
      BY <1>1, <1>2, <1>5, <2>3 DEF Quiet, Mine, At
    <3>3. QED BY <2>2, <3>1, <3>2 DEF NothingDrawn
  <2>4. CASE jobs'[j].pc = "emptied"
    <3>1. groups' = <<>>
      BY <1>5, <2>4, JobSees
    <3>2. ~Quiet'
      BY <1>1, <1>2, <1>5, <2>4 DEF Quiet, Mine, At
    <3>3. QED BY <2>2, <3>1, <3>2 DEF NothingDrawn
  <2>5. CASE jobs'[j].pc = "ended"
    <3>1. jobPower' = 0 /\ groups' = groups /\ jobs[j].pc = "emptied"
      BY <1>5, <2>5, JobSees DEF At
    <3>2. WillEmpty' <=> WillEmpty
      BY <1>1, <1>2, <2>5, <3>1 DEF WillEmpty, Mine, At
    <3>3. CASE Quiet'
      <4>1. ~WillEmpty'
        BY <3>3 DEF Quiet, WillEmpty, Mine, At
      <4>2. groups' = <<>>
        BY <2>1, <3>1, <3>2, <4>1 DEF NothingDrawn
      <4>3. QED BY <2>2, <3>1, <3>3, <4>2, NothingIsSettled
    <3>4. CASE ~Quiet'
      <4>1. NothingDrawn'
        BY <2>1, <2>2, <3>1, <3>2 DEF NothingDrawn
      <4>2. QED BY <3>4, <4>1
    <3>5. QED BY <3>3, <3>4
  <2>6. QED BY <2>3, <2>4, <2>5, JobSees
<1>6. QED BY <1>4, <1>5

(* A line that takes no account of whether a thread lives is good only if  *)
(* none does.                                                              *)
LEMMA LineUndisturbed ==
  ASSUME Shape, TypeOK, TypeOK', Counts, Undisturbed, LightBurn
  PROVE  Undisturbed'
<1>1. ASSUME UNCHANGED <<jobs, session>>, good'.alone => good.alone /\ Quiet,
             PowerIsTheLayers /\ LinesAreTheLayers
               => PowerIsTheLayers' /\ LinesAreTheLayers'
      PROVE  Undisturbed'
  <2>1. Quiet' = Quiet
    BY <1>1 DEF Quiet, At, Threads
  <2>2. QED BY <1>1, <2>1 DEF Undisturbed
<1>2. ASSUME NEW p \in Points, Rapid(p) PROVE Undisturbed'
  <2>1. UNCHANGED <<jobs, session>> /\ (good'.alone => good.alone /\ Quiet)
    BY <1>2 DEF Rapid, Hear, Same, Shape
  <2>2. QED BY <1>1, <1>2, <2>1, RapidUndisturbed
<1>3. CASE \/ \E p \in Points : SetPosition(p)
           \/ \E s \in Powers : Unrecognised(s)
  <2>1. UNCHANGED <<jobs, session>> /\ (good'.alone => good.alone /\ Quiet)
    BY <1>3 DEF SetPosition, Unrecognised, Hear, Same, Shape
  <2>2. QED BY <1>1, <1>3, <2>1, LiftUndisturbed
<1>4. ASSUME NEW c \in Cuts, Cut(c.to, c.s) PROVE Undisturbed'
  <2>1. UNCHANGED <<jobs, session>> /\ (good'.alone => good.alone /\ Quiet)
    BY <1>4 DEF Cut, Hear, Shape
  <2>2. QED BY <1>1, <1>4, <2>1, CutUndisturbed
<1>5. CASE SoftReset
  <2>1. UNCHANGED <<jobs, session>> /\ (good'.alone => good.alone /\ Quiet)
    BY <1>5 DEF SoftReset, Hear, Shape
  <2>2. PowerIsTheLayers' /\ LinesAreTheLayers'
    BY <1>5, NothingIsSettled DEF SoftReset, Hear, ResetJob
  <2>3. QED BY <1>1, <2>1, <2>2
<1>6. CASE Finish
  <2>1. UNCHANGED <<jobs, session>> /\ host = "ready"
    BY <1>6 DEF Finish, Hear
  <2>2. CASE Drawn(groups) = <<>>
    <3>1. /\ host' = "ready" /\ groups' = <<>> /\ jobPower' = 0
          /\ burnt' = <<>> /\ peak' = 0 /\ pen' = "up"
      BY <1>6, <2>1, <2>2 DEF Finish, ResetJob, NewLayer
    <3>2. NothingDrawn'
      BY <3>1 DEF NothingDrawn
    <3>3. QED BY <3>1, <3>2, NothingIsSettled DEF Undisturbed
  <2>3. CASE Drawn(groups) # <<>>
    <3>1. Same
      BY <1>6, <2>3 DEF Finish
    <3>2. good'.alone => good.alone /\ Quiet
      BY <3>1 DEF Same, Shape
    <3>3. QED BY <1>1, <1>6, <2>1, <2>3, <3>1, <3>2, FinishUndisturbed
  <2>4. QED BY <2>2, <2>3
<1>7. CASE NewClient
  <2>1. /\ host' = "ready" /\ groups' = <<>> /\ jobPower' = 0
        /\ burnt' = <<>> /\ peak' = 0 /\ pen' = "up"
    BY <1>7 DEF NewClient, ResetJob, NewLayer
  <2>2. NothingDrawn'
    BY <2>1 DEF NothingDrawn
  <2>3. QED BY <2>1, <2>2, NothingIsSettled DEF Undisturbed
<1>8. QED
  BY <1>2, <1>3, <1>4, <1>5, <1>6, <1>7 DEF LightBurn

LEMMA HandlerUndisturbed ==
  ASSUME Shape, TypeOK, TypeOK', Counts, Undisturbed, HandlerStep, ~Start
  PROVE  Undisturbed'
<1>1. UNCHANGED <<jobs, session, good>> /\ host # "ready"
  BY DEF HandlerStep, Raise, AddFirst, Choose, AddNext, IndexError, CutDone,
         Added, state, history
<1>2. SUFFICES ASSUME good.alone PROVE Undisturbed'
  BY <1>1 DEF Undisturbed
<1>3. Quiet /\ Quiet' /\ PowerIsTheLayers /\ LinesAreTheLayers
  <2>1. Quiet /\ PowerIsTheLayers /\ LinesAreTheLayers
    BY <1>1, <1>2 DEF Undisturbed, NothingDrawn
  <2>2. QED BY <1>1, <2>1 DEF Quiet, At, Threads
<1>4. ~IndexError
  BY <1>3 DEF IndexError, PowerIsTheLayers
<1>5. PowerIsTheLayers' /\ LinesAreTheLayers'
  BY <1>3, <1>4, RaiseUndisturbed, AddFirstUndisturbed, ChooseUndisturbed,
     AddNextUndisturbed, CutDoneUndisturbed DEF HandlerStep
<1>6. QED BY <1>3, <1>5 DEF Undisturbed

LEMMA StartUndisturbed == ASSUME Shape, Start PROVE Undisturbed'
<1> DEFINE n == Len(jobs) + 1
<1>1. /\ Len(jobs') = n /\ jobs'[n].session = session
      /\ jobs'[n].pc = "waiting"
      /\ UNCHANGED session
  BY StartEffect
<1>2. n \in Threads'
  BY <1>1, JobRecords DEF Threads
<1> HIDE DEF n
<1>3. ~Quiet' /\ WillEmpty'
  BY <1>1, <1>2 DEF Quiet, WillEmpty, Mine, At
<1>4. NothingDrawn'
  BY <1>3 DEF NothingDrawn, Start, NewLayer
<1>5. QED BY <1>3, <1>4 DEF Undisturbed

LEMMA UndisturbedKept ==
  Shape /\ TypeOK /\ TypeOK' /\ Counts /\ Undisturbed /\ [Next]_vars
    => Undisturbed'
<1> SUFFICES ASSUME Shape, TypeOK, TypeOK', Counts, Undisturbed, [Next]_vars
             PROVE  Undisturbed'
  OBVIOUS
<1>1. CASE UNCHANGED vars
  BY <1>1 DEF vars, state, history, Undisturbed, NothingDrawn, WillEmpty,
              PowerIsTheLayers, LinesAreTheLayers, Planned, MidLine, Quiet,
              Mine, At, Threads
<1>2. CASE Next
  BY <1>2, JobUndisturbed, LineUndisturbed, HandlerUndisturbed,
     StartUndisturbed
     DEF Next, HandlerStep
<1>3. QED BY <1>1, <1>2

-----------------------------------------------------------------------------
LEMMA LayersKept ==
  Shape /\ TypeOK /\ Counts /\ Undisturbed /\ JobHasItsPower /\ JobIsItsLayer
  /\ [Next]_vars => JobHasItsPower' /\ JobIsItsLayer'
<1> SUFFICES ASSUME Shape, TypeOK, Counts, Undisturbed, JobHasItsPower,
                    JobIsItsLayer, [Next]_vars
             PROVE  JobHasItsPower' /\ JobIsItsLayer'
  OBVIOUS
<1> USE DEF JobHasItsPower, JobIsItsLayer
<1>1. CASE UNCHANGED jobs
  BY <1>1 DEF Threads
<1>2. ASSUME NEW j \in Threads, JobStep(j)
      PROVE  JobHasItsPower' /\ JobIsItsLayer'
  <2>1. /\ Threads' = Threads
        /\ \A k \in Threads :
             /\ jobs'[k].power = jobs[k].power
             /\ jobs'[k].paths = jobs[k].paths
             /\ jobs'[k].burnt = jobs[k].burnt /\ jobs'[k].peak = jobs[k].peak
             /\ jobs'[k].good = jobs[k].good
    BY <1>2, JobEffect DEF Effect, OneChanged, Given, Threads
  <2>2. QED BY <2>1
<1>3. CASE Start
  <2> DEFINE n == Len(jobs) + 1
  <2>1. /\ Len(jobs') = n /\ \A k \in Threads : jobs'[k] = jobs[k]
        /\ jobs'[n].power = PowerOf /\ jobs'[n].paths = taken
        /\ jobs'[n].burnt = burnt /\ jobs'[n].peak = peak
        /\ jobs'[n].good = good
    BY <1>3, StartEffect DEF Given
  <2>2. Threads' = Threads \cup {n}
    BY <2>1, JobRecords DEF Threads
  <2> HIDE DEF n
  <2>3. ASSUME good.alone PROVE PowerIsTheLayers /\ LinesAreTheLayers
    BY <1>3, <2>3 DEF Start, Undisturbed, NothingDrawn
  <2>4. good.alone => PowerOf = Cap(peak)
    <3>1. SUFFICES ASSUME good.alone PROVE PowerOf = Cap(peak)
      OBVIOUS
    <3>2. jobPower = peak /\ peak > 0
      BY <1>3, <2>3, <3>1 DEF Start, PowerIsTheLayers
    <3>3. QED BY <3>2 DEF PowerOf
  <2>5. good.apt /\ good.alone => Burns(taken) = Real(burnt)
    BY <1>3, <2>3 DEF Start, LinesAreTheLayers
  <2>6. QED BY <2>1, <2>2, <2>4, <2>5
<1>4. CASE (LightBurn \/ HandlerStep) /\ ~Start
  BY <1>1, <1>4, HostEffect
<1>5. QED BY <1>1, <1>2, <1>3, <1>4 DEF Next, HandlerStep, vars

LEMMA LayersInit ==
  Init => /\ LaserIsFreed /\ TypeOK /\ Counts /\ Undisturbed
          /\ JobHasItsPower /\ JobIsItsLayer
<1> SUFFICES ASSUME Init
             PROVE  /\ LaserIsFreed /\ TypeOK /\ Counts /\ Undisturbed
                    /\ JobHasItsPower /\ JobIsItsLayer
  OBVIOUS
<1>1. LaserIsFreed /\ TypeOK
  BY TypesInit
<1>2. Threads = {}
  BY EmptySeq DEF Init, Threads
<1>3. Counts
  BY DEF Init, Counts, AllAdded
<1>4. Planned = <<>>
  BY DEF Init, Planned, Plan
<1>5. PowerIsTheLayers /\ LinesAreTheLayers
  BY <1>4, NoLines DEF Init, PowerIsTheLayers, LinesAreTheLayers, MidLine
<1>6. NothingDrawn
  BY DEF Init, NothingDrawn
<1>7. QED
  BY <1>1, <1>2, <1>3, <1>5, <1>6
     DEF Undisturbed, JobHasItsPower, JobIsItsLayer

(* THEOREM: the power of a job is the highest of its own layer, capped at  *)
(* the laser's maximum, for every sequence of lines, layers and clients    *)
(* with which no job thread of the layer's client overlaps.                *)
THEOREM PowersAreTheLayers == Spec => []JobHasItsPower
BY LayersInit, ShapeInit, ShapeKept, TypeKept, CountsKept, UndisturbedKept,
   LayersKept, PTL DEF Spec

(* THEOREM: and what it burns is what its own layer commands, segment by   *)
(* segment, in order, whatever the curves, powers and points are.          *)
THEOREM JobsAreTheLayers == Spec => []JobIsItsLayer
BY LayersInit, ShapeInit, ShapeKept, TypeKept, CountsKept, UndisturbedKept,
   LayersKept, PTL DEF Spec
=============================================================================
