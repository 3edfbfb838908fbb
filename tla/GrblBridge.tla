----------------------------- MODULE GrblBridge -----------------------------
(***************************************************************************)
(* grbl_bridge/d1ultra_bridge.py (v2.3): the thread that answers           *)
(* LightBurn's G-code line by line and collects a drawing, the thread each *)
(* M30 starts to send that drawing to the laser, and the GRBLState object  *)
(* they share without a lock.  A G-code line is one move with its modal    *)
(* power; coordinates are members of a small set, an arc is a cut of       *)
(* several points.  What a request may return is D1Connection's matter:    *)
(* here any of them may fail.                                              *)
(***************************************************************************)
EXTENDS Naturals, Sequences, SequencesExt

CONSTANTS Points,          \* coordinates a line may have
          Cuts,            \* G1/G2/G3 lines: the points each is turned into
                           \* (one, or those of an arc) and its power S
          Powers,          \* S values of lines without a move
          Origin,          \* where a new client starts
          MaxPower,        \* GRBLState.max_power
          MaxPoints,       \* points of the longest path a packet can hold
          MaxMoves,        \* bound: moves in a layer
          MaxOdd,          \* bound: other lines but M30
          MaxJobs,         \* bound: jobs started
          Fallback,        \* the power 0.5 of _finish_job()
          None

ASSUME GrblAssumption ==
  /\ Powers \subseteq Nat /\ MaxPower \in Nat \ {0}
  /\ {MaxPoints, MaxMoves, MaxOdd, MaxJobs} \subseteq Nat
  /\ Cuts \subseteq [to : Seq(Points) \ {<<>>}, s : Nat] /\ Fallback \notin Nat
  /\ None \notin Nat /\ Origin \in Points

VARIABLES
  pos, power, groups, jobPower, running,  \* GRBLState of the open session
  session, \* which LightBurn connection is served (a new one: a new state)
  host,    \* where the client's handler thread is
  todo,    \* points of the current cut still to be added
  taken,   \* the groups _finish_job() has read
  jobs,    \* the job threads, in the order they were started
  lock,    \* laser._job_lock
  paused,  \* laser._heartbeat_paused
  moves, odd, \* moves heard in this layer, other lines heard
  burnt,   \* history: segments the program commands since the last M30,
           \*          as long as it is apt
  peak,    \* history: highest power of those
  pen,     \* history: "down" after a rapid or a cut, as a stroke may go on
  good,    \* history: [apt |-> every stroke was begun by a rapid,
           \*           alone |-> no thread of this client was alive]
  masked   \* history: jobs during which another started, or a soft reset came

state == <<pos, power, groups, jobPower, running>>
history == <<burnt, peak, pen, good, masked>>
vars == <<state, session, host, todo, taken, jobs, lock, paused,
          moves, odd, history>>

Threads == 1..Len(jobs)
At(j, where) == jobs[j].pc \in where
Live(j) == ~At(j, {"ended", "crashed"})
Mine(j) == jobs[j].session = session
Quiet == \A j \in Threads : jobs[j].session = session => At(j, {"ended"})

JobPCs == {"waiting", "locked", "sending", "returned", "stopped", "emptied",
           "ended", "crashed"}
HostPCs == {"ready", "adding", "raised", "chosen", "finishing", "gone"}

(* No path group is empty, and a job's power is in the laser's range.      *)
TypeOK ==
  /\ pos \in Points /\ power \in Nat /\ jobPower \in Nat
  /\ groups \in Seq(Seq(Points) \ {<<>>}) /\ todo \in Seq(Points)
  /\ host \in HostPCs /\ (host \in {"raised", "chosen"} => todo # <<>>)
  /\ \A j \in Threads : /\ jobs[j].pc \in JobPCs
                        /\ jobs[j].power \in (1..MaxPower) \cup {Fallback}
  /\ lock \in Threads \cup {None}

Init ==
  /\ pos = Origin /\ power = 0 /\ groups = <<>> /\ jobPower = 0
  /\ running = FALSE /\ session = 1 /\ host = "ready" /\ todo = <<>>
  /\ taken = <<>> /\ jobs = <<>> /\ lock = None /\ paused = FALSE
  /\ moves = 0 /\ odd = 0
  /\ burnt = <<>> /\ peak = 0 /\ pen = "up" /\ masked = {}
  /\ good = [apt |-> TRUE, alone |-> TRUE]

-----------------------------------------------------------------------------
(* handle_line(): one line is heard; s is the power in force after it.     *)
Hear(s) == /\ host = "ready" /\ Len(jobs) < MaxJobs /\ power' = s
           /\ UNCHANGED <<session, jobs, lock, paused>>
Move == moves < MaxMoves /\ moves' = moves + 1 /\ UNCHANGED odd
Other == odd < MaxOdd /\ odd' = odd + 1 /\ UNCHANGED moves

Same == good' = [good EXCEPT !.alone = @ /\ Quiet]

(* G0: a new path group begins where the rapid move ends.                  *)
Rapid(p) ==
  /\ Hear(power) /\ Move /\ Same
  /\ pos' = p /\ groups' = Append(groups, <<p>>) /\ pen' = "down"
  /\ UNCHANGED <<jobPower, running, host, todo, taken, burnt, peak, masked>>

(* G92 moves the origin.  A line with an S and no move changes the modal   *)
(* power only; so does one that follows a '?' sent without a newline, whose*)
(* G word is then not recognised.                                          *)
SetPosition(p) ==
  /\ Hear(power) /\ Other /\ Same /\ pos' = p /\ pen' = "up"
  /\ UNCHANGED <<groups, jobPower, running, host, todo, taken, burnt, peak,
                 masked>>

Unrecognised(s) ==
  /\ Hear(s) /\ Other /\ Same /\ pen' = "up"
  /\ UNCHANGED <<pos, groups, jobPower, running, host, todo, taken, burnt,
                 peak, masked>>

Segments(path) == [i \in 1..(Len(path) - 1) |-> <<path[i], path[i + 1]>>]
Higher(a, b) == IF a < b THEN b ELSE a

(* G1, or G2/G3 turned into points: each is added by add_cut_point().      *)
Cut(points, s) ==
  /\ Hear(s) /\ Move
  /\ pos' = Last(points) /\ todo' = points
  /\ host' = "adding"
  /\ good' = [good EXCEPT !.alone = @ /\ Quiet,
                          !.apt = @ /\ (s = 0 \/ pen = "down")]
  /\ burnt' = IF ~good'.apt THEN <<>>
              ELSE IF s = 0 THEN burnt
              ELSE burnt \o Segments(<<pos>> \o points)
  /\ peak' = Higher(peak, s) /\ pen' = IF s = 0 THEN "up" ELSE pen
  /\ UNCHANGED <<groups, jobPower, running, taken, masked>>

AddAnyPower == TRUE                 \* variant: S0 points are added too
AddsPoint   == power > 0

(* add_cut_point(), which another thread may enter between any two lines:  *)
(* raise the job's power; test job_path_groups; append to the last one.    *)
Raise ==
  /\ host = "adding" /\ todo # <<>> /\ AddsPoint
  /\ jobPower' = Higher(jobPower, power) /\ host' = "raised"
  /\ UNCHANGED <<pos, power, groups, running, session, todo, taken, jobs, lock,
                 paused, moves, odd, history>>

Added ==
  /\ todo' = Tail(todo) /\ host' = "adding"
  /\ UNCHANGED <<pos, power, jobPower, running, session, taken, jobs, lock,
                 paused, moves, odd, history>>

IsFirst    == groups = <<>>

AddFirst == /\ host = "raised" /\ IsFirst
            /\ groups' = <<<<Head(todo)>>>> /\ Added

Choose == /\ host = "raised" /\ ~IsFirst /\ host' = "chosen"
          /\ UNCHANGED <<state, session, todo, taken, jobs, lock, paused,
                         moves, odd, history>>

AddNext ==
  /\ host = "chosen" /\ groups # <<>>
  /\ groups' = [groups EXCEPT ![Len(groups)] = Append(@, Head(todo))]
  /\ Added

(* groups[-1] of a list emptied since: the exception ends the connection.  *)
IndexError ==
  /\ host = "chosen" /\ groups = <<>> /\ host' = "gone"
  /\ UNCHANGED <<state, session, todo, taken, jobs, lock, paused, moves, odd,
                 history>>

CutDone ==
  /\ host = "adding" /\ (todo = <<>> \/ ~AddsPoint)
  /\ host' = "ready" /\ todo' = <<>>
  /\ UNCHANGED <<state, session, taken, jobs, lock, paused, moves, odd,
                 history>>

-----------------------------------------------------------------------------
ResetGroupsOnly == groups' = <<>> /\ UNCHANGED jobPower  \* variant
ResetJob == groups' = <<>> /\ jobPower' = 0
NewLayer == /\ burnt' = <<>> /\ peak' = 0 /\ pen' = "up" /\ moves' = 0
            /\ good' = [good EXCEPT !.apt = TRUE, !.alone = TRUE]

(* 0x18 forgets the drawing and the flag; a job under way goes on.         *)
SoftReset ==
  /\ Hear(power) /\ Other /\ ResetJob /\ running' = FALSE
  /\ burnt' = <<>> /\ peak' = 0 /\ pen' = "up"
  /\ good' = [good EXCEPT !.apt = TRUE, !.alone = @ /\ Quiet]
  /\ masked' = masked \cup Threads
  /\ UNCHANGED <<pos, host, todo, taken>>

Drawn(gs) ==
  FlattenSeq([i \in DOMAIN gs |-> IF Len(gs[i]) >= 2 THEN <<gs[i]>> ELSE <<>>])

(* M30, _finish_job(): read the groups; the power only later.              *)
Finish ==
  /\ Hear(power) /\ UNCHANGED odd
  /\ IF Drawn(groups) = <<>>
     THEN ResetJob /\ NewLayer /\ UNCHANGED <<host, taken>>
     ELSE /\ taken' = Drawn(groups) /\ host' = "finishing" /\ Same
          /\ UNCHANGED <<groups, jobPower, burnt, peak, pen, moves>>
  /\ UNCHANGED <<pos, running, todo, masked>>

Cap(s) == IF s > MaxPower THEN MaxPower ELSE s
PowerOf == IF jobPower > 0 THEN Cap(jobPower)
           ELSE IF power > 0 THEN Cap(power) ELSE Fallback

NotYet == FALSE                     \* variant: the flag is not set
Busy   == TRUE

Start ==
  /\ host = "finishing"
  /\ jobs' = Append(jobs, [pc |-> "waiting", session |-> session, sent |-> 0,
                           paths |-> taken, power |-> PowerOf, burnt |-> burnt,
                           peak |-> peak, good |-> good])
  /\ running' = Busy /\ host' = "ready" /\ taken' = <<>> /\ NewLayer
  /\ masked' = masked \cup {j \in Threads : Live(j)}
               \cup (IF Quiet THEN {} ELSE {Len(jobs) + 1})
  /\ UNCHANGED <<pos, power, groups, jobPower, session, todo, lock, paused,
                 odd>>

(* LightBurn hangs up, or is disconnected by the exception, and connects   *)
(* again: a new GRBLState; the jobs of the old one keep theirs.  A handler *)
(* of the old connection that goes on beside the new one is left out.      *)
NewClient ==
  /\ host \in {"ready", "gone"} /\ odd < MaxOdd /\ odd' = odd + 1
  /\ session' = session + 1 /\ host' = "ready"
  /\ pos' = Origin /\ power' = 0 /\ ResetJob /\ running' = FALSE
  /\ todo' = <<>> /\ NewLayer
  /\ UNCHANGED <<taken, jobs, lock, paused, masked>>

-----------------------------------------------------------------------------
(* The job threads: _run() and execute_job().                              *)
Go(j, to) == jobs' = [jobs EXCEPT ![j].pc = to]
HostSame == UNCHANGED <<pos, power, session, host, todo, taken, moves, odd,
                        burnt, peak, pen, masked>>
LaserOnly == HostSame /\ UNCHANGED <<groups, jobPower, running, good>>

Acquire(j) == /\ At(j, {"waiting"}) /\ lock = None
              /\ lock' = j /\ Go(j, "locked")
              /\ UNCHANGED paused /\ LaserOnly

LeavePaused(j, to) == lock' = None /\ Go(j, to) /\ UNCHANGED paused \* variant
Leave(j, to) == lock' = None /\ paused' = FALSE /\ Go(j, to)

(* Connected, or connected again; or not reachable in three attempts.      *)
Begin(j) == /\ At(j, {"locked"}) /\ Go(j, "sending")
            /\ paused' = TRUE /\ UNCHANGED lock /\ LaserOnly
NotReachable(j) == At(j, {"locked"}) /\ Leave(j, "returned") /\ LaserOnly

(* The repeated closing point of a path is dropped.                        *)
Cleaned(g) == IF Len(g) >= 3 /\ g[Len(g)] = g[Len(g) - 1] THEN Front(g) ELSE g
NextPath(j) == Cleaned(jobs[j].paths[jobs[j].sent + 1])
Fits(path) == Len(path) <= MaxPoints
AllSent(j) == jobs[j].sent = Len(jobs[j].paths)

SendPath(j) ==
  /\ At(j, {"sending"}) /\ ~AllSent(j) /\ Fits(NextPath(j))
  /\ jobs' = [jobs EXCEPT ![j].sent = @ + 1]
  /\ UNCHANGED <<lock, paused>> /\ LaserOnly

(* A packet longer than its u16 length: struct.error leaves execute_job()  *)
(* through its finally clauses, and _run(), which has none.                *)
TooLong(j) == /\ At(j, {"sending"}) /\ ~AllSent(j) /\ ~Fits(NextPath(j))
              /\ Leave(j, "crashed") /\ LaserOnly

(* Upload or path not acknowledged.                                        *)
GiveUp(j) == /\ At(j, {"sending"}) /\ ~AllSent(j)
             /\ Leave(j, "returned") /\ LaserOnly
Complete(j) == /\ At(j, {"sending"}) /\ AllSent(j)
               /\ Leave(j, "returned") /\ LaserOnly

NeverCleared(j) == running          \* variant: the flag is left
Cleared(j)      == running /\ ~Mine(j)

NotRunning(j) ==
  /\ At(j, {"returned"}) /\ Go(j, "stopped")
  /\ running' = Cleared(j)
  /\ UNCHANGED <<groups, jobPower, good, lock, paused>> /\ HostSame

(* reset_job(), after the flag, in two assignments.                        *)
Empty(j) ==
  /\ At(j, {"stopped"}) /\ Go(j, "emptied")
  /\ groups' = IF Mine(j) THEN <<>> ELSE groups
  /\ UNCHANGED <<jobPower, running, good, lock, paused>> /\ HostSame

Forget(j) ==
  /\ At(j, {"emptied"}) /\ Go(j, "ended")
  /\ jobPower' = IF Mine(j) THEN 0 ELSE jobPower
  /\ UNCHANGED <<groups, running, good, lock, paused>> /\ HostSame

-----------------------------------------------------------------------------
HandlerStep == \/ Raise \/ AddFirst \/ Choose \/ AddNext \/ IndexError
               \/ CutDone \/ Start
JobStep(j) == \/ Acquire(j) \/ Begin(j) \/ NotReachable(j) \/ SendPath(j)
              \/ TooLong(j) \/ GiveUp(j) \/ Complete(j) \/ NotRunning(j)
              \/ Empty(j) \/ Forget(j)
LightBurn == \/ \E p \in Points : Rapid(p) \/ SetPosition(p)
             \/ \E c \in Cuts : Cut(c.to, c.s)
             \/ \E s \in Powers : Unrecognised(s)
             \/ SoftReset \/ Finish \/ NewClient

Next == LightBurn \/ HandlerStep \/ \E j \in Threads : JobStep(j)
Spec == Init /\ [][Next]_vars

(* The job threads run, and what they wait for times out, but not what     *)
(* they send: sendall() has no timeout, and returns when the laser reads.  *)
InSendall(j) == At(j, {"locked", "sending"})
FairStep(j) == j \in Threads /\ ~InSendall(j) /\ JobStep(j)
SendStep(j) == j \in Threads /\ InSendall(j) /\ JobStep(j)
FairSpec == Spec /\ \A j \in 1..MaxJobs : WF_vars(FairStep(j))
LaserReads == \A j \in 1..MaxJobs : WF_vars(SendStep(j))

-----------------------------------------------------------------------------
IsReal(s) == s[1] # s[2]
Real(segments) ==
  FlattenSeq([i \in DOMAIN segments |->
                IF IsReal(segments[i]) THEN <<segments[i]>> ELSE <<>>])
Lines(paths) == FlattenSeq([i \in DOMAIN paths |-> Segments(paths[i])])
Burns(paths) == Real(Lines([i \in DOMAIN paths |-> Cleaned(paths[i])]))

(* A job sends the laser exactly the segments its own layer commands, each *)
(* once, in order, whatever was drawn, reset or abandoned before it, as    *)
(* long as no job thread of its client was alive meanwhile (FindLayer      *)
(* drops that condition) and every stroke is begun by a rapid move.        *)
JobIsItsLayer ==
  \A j \in Threads : jobs[j].good.apt /\ jobs[j].good.alone
                       => Burns(jobs[j].paths) = Real(jobs[j].burnt)

(* Its power is the highest of its own layer, never a default, never one   *)
(* left behind by an earlier layer.                                        *)
JobHasItsPower ==
  \A j \in Threads : jobs[j].good.alone => jobs[j].power = Cap(jobs[j].peak)

(* README.md "Multiple layers (serialized as separate jobs)", and the      *)
(* module's "LightBurn sends each layer as a separate M30 command ... Jobs *)
(* now queue and execute one at a time": each job is the layer before its  *)
(* own M30, whether or not the job of the last layer has ended.            *)
LayersAreSeparate ==
  \A j \in Threads : jobs[j].good.apt
                       => Burns(jobs[j].paths) = Real(jobs[j].burnt)

(* A job that neither overlaps with another nor is reset is reported as    *)
(* running until it has left the laser, the time in the queue included.    *)
IdleMeansIdle ==
  \A j \in Threads \ masked :
    Mine(j) /\ At(j, {"waiting", "locked", "sending"}) => running

(* One job at a time has the laser, the heartbeat stops only for it, and   *)
(* no way out of execute_job() keeps either, the exception included.       *)
LaserIsFreed ==
  /\ \A j \in Threads : At(j, {"locked", "sending"}) <=> lock = j
  /\ paused <=> lock # None /\ At(lock, {"sending"})

(* LightBurn is not told "Run" for ever, unless a job thread dies, if the  *)
(* laser takes what is sent to it; it need not answer anything.            *)
RunIsOver ==
  LaserReads =>
    (running ~> (~running \/ \E j \in Threads : At(j, {"crashed"})))
=============================================================================
