----------------------------- MODULE EngraveJob -----------------------------
(***************************************************************************)
(* D1Ultra.engrave() of jcz_bridge/d1ultra_protocol.py: the job lock, the  *)
(* sequence of requests that uploads and starts a job, which failures end  *)
(* it and which are only logged, while the connection may be lost, replaced*)
(* by ensure_connected() or by another thread (D1Connection shows what a   *)
(* request may then return).  The laser is external: it handles requests   *)
(* in the order they were sent, those of an old connection before those of *)
(* the next (an assumption), and forgets or keeps a half-uploaded job when *)
(* the connection changes.                                                 *)
(***************************************************************************)
EXTENDS Naturals, Sequences

CONSTANTS Jobs,      \* calls of engrave(), each in a thread of its own
          NPaths,    \* number of paths (of two points or more) of each job
          MaxConn,   \* bound: connections made in a behaviour
          None

ASSUME JobAssumption ==
  /\ NPaths \in [Jobs -> Nat] /\ MaxConn \in Nat
  /\ None \notin Jobs

VARIABLES
  pc,         \* of a job: where its thread is
  step,       \* of a job: the request of its script it is at
  sentOn,     \* of a job: the connection its current request went out on
  answered,   \* of a job: its current request has been answered
  verdict,    \* of a job: what engrave() returned
  lock,       \* self._job_lock: the job that holds it, or None
  paused,     \* self._heartbeat_paused
  connected, conn,  \* self.connected, and which connection it is
  wire,       \* requests on their way to the laser, by job and place
  current,    \* laser: the job whose upload it is receiving, or None
  store,      \* laser: the paths received for each job
  ran,        \* laser: <<job, paths>> executed, in order
  monitored,  \* whether another thread (LaserMonitor) may connect
  turns,      \* history: the order in which the jobs got the lock
  moved       \* history: jobs whose connection was replaced under them

linkVars  == <<connected, conn>>
laserVars == <<current, store, ran>>
vars == <<pc, step, sentOn, answered, verdict, lock, paused, linkVars, wire,
          laserVars, monitored, turns, moved>>

AllButLast(j) == NPaths[j] - 1            \* variant: off by one
PathsSent(j)  == NPaths[j]

(* The requests of _engrave_locked() in order, a pair for every path.      *)
Opening  == <<"DEVICE_INFO", "PRE_JOB", "QUERY_14", "JOB_UPLOAD",
              "WORKSPACE">>
Pairs(n) == [k \in 1..2 * n |->
               IF k % 2 = 1 THEN "SETTINGS" ELSE "PATH_DATA"]
Script(j) ==
  Opening \o Pairs(PathsSent(j)) \o <<"JOB_CONTROL", "JOB_FINISH">>
PathNumber(place) == (place - 5) \div 2

RequiredUpload == {"JOB_UPLOAD"}          \* variant: paths not checked
Required == {"JOB_UPLOAD", "PATH_DATA"}   \* no answer: abort
Request(j) == Script(j)[step[j]]
AllPaths(j) == [k \in 1..NPaths[j] |-> k]
Active(j) == pc[j] \in {"locked", "sending", "awaiting"}

Requests == {e \in [job : Jobs, at : Nat] : e.at \in 1..Len(Script(e.job))}

Verdicts == {"none", "submitted", "failed", "raised"}

TypeOK ==
  /\ pc \in [Jobs -> {"idle", "locked", "sending", "awaiting", "returned"}]
  /\ step \in [Jobs -> Nat] /\ \A j \in Jobs : step[j] \in 1..Len(Script(j))
  /\ sentOn \in [Jobs -> 0..MaxConn] /\ answered \in [Jobs -> BOOLEAN]
  /\ verdict \in [Jobs -> Verdicts]
  /\ lock \in Jobs \cup {None} /\ paused \in BOOLEAN
  /\ connected \in BOOLEAN /\ conn \in 0..MaxConn
  /\ wire \in Seq(Requests)
  /\ current \in Jobs \cup {None} /\ store \in [Jobs -> Seq(Nat)]
  /\ ran \in Seq(Jobs \X Seq(Nat)) /\ turns \in Seq(Jobs)
  /\ monitored \in BOOLEAN /\ moved \subseteq Jobs

Init ==
  /\ pc = [j \in Jobs |-> "idle"] /\ step = [j \in Jobs |-> 1]
  /\ sentOn = [j \in Jobs |-> 0] /\ answered = [j \in Jobs |-> FALSE]
  /\ verdict = [j \in Jobs |-> "none"]
  /\ lock = None /\ paused = FALSE /\ connected = FALSE /\ conn = 0
  /\ wire = <<>> /\ current = None /\ store = [j \in Jobs |-> <<>>]
  /\ ran = <<>> /\ turns = <<>> /\ moved = {}
  /\ monitored \in BOOLEAN

-----------------------------------------------------------------------------
(* A new connection: of what was under way on the old one the laser may    *)
(* still handle a part; it may have thrown away the job it was receiving.  *)
NewConnection ==
  /\ conn < MaxConn
  /\ conn' = conn + 1 /\ connected' = TRUE
  /\ \E n \in 0..Len(wire) : wire' = SubSeq(wire, 1, n)
  /\ current' \in {current, None}

NoLock   == TRUE                          \* variant: no _job_lock
LockFree == lock = None

AcquireLock(j) ==
  /\ pc[j] = "idle" /\ LockFree
  /\ lock' = j /\ turns' = Append(turns, j)
  /\ pc' = [pc EXCEPT ![j] = "locked"]
  /\ UNCHANGED <<step, sentOn, answered, verdict, paused, linkVars, wire,
                 laserVars, monitored, moved>>

(* Variant: nothing is undone on the error paths.                          *)
ReturnWithoutFinally(j, v) ==
  /\ verdict' = [verdict EXCEPT ![j] = v]
  /\ pc' = [pc EXCEPT ![j] = "returned"]
  /\ IF v = "failed" THEN UNCHANGED <<lock, paused>>
                     ELSE lock' = None /\ paused' = FALSE

(* The finally clauses: resume the heartbeat, release the lock.            *)
Return(j, v) ==
  /\ verdict' = [verdict EXCEPT ![j] = v]
  /\ pc' = [pc EXCEPT ![j] = "returned"]
  /\ lock' = None /\ paused' = FALSE

(* ensure_connected(), then the paths: with none left engrave() gives up.  *)
Begin(j) ==
  /\ pc[j] = "locked"
  /\ \/ connected /\ UNCHANGED <<linkVars, wire, current>>
     \/ ~connected /\ NewConnection
  /\ IF NPaths[j] = 0
     THEN Return(j, "failed")
     ELSE /\ pc' = [pc EXCEPT ![j] = "sending"] /\ paused' = TRUE
          /\ UNCHANGED <<verdict, lock>>
  /\ UNCHANGED <<step, sentOn, answered, store, ran, monitored, turns, moved>>

NotReachable(j) ==
  /\ pc[j] = "locked" /\ ~connected
  /\ Return(j, "failed")
  /\ UNCHANGED <<step, sentOn, answered, linkVars, wire, laserVars, monitored,
                 turns, moved>>

Send(j) ==
  /\ pc[j] = "sending" /\ connected
  /\ wire' = Append(wire, [job |-> j, at |-> step[j]])
  /\ sentOn' = [sentOn EXCEPT ![j] = conn]
  /\ answered' = [answered EXCEPT ![j] = FALSE]
  /\ pc' = [pc EXCEPT ![j] = "awaiting"]
  /\ UNCHANGED <<step, verdict, lock, paused, linkVars, laserVars, monitored,
                 turns, moved>>

(* struct.error out of the packet's building: a path of more than 2047     *)
(* points, or a number past the u16 field.  It leaves through the finally  *)
(* clauses.                                                                *)
Raise(j) ==
  /\ pc[j] = "sending" /\ Return(j, "raised")
  /\ UNCHANGED <<step, sentOn, answered, linkVars, wire, laserVars, monitored,
                 turns, moved>>

AtEnd(j) == step[j] = Len(Script(j))

(* The request has an answer: go on, and after the last one return True.   *)
Proceed(j) ==
  IF AtEnd(j)
  THEN Return(j, "submitted") /\ UNCHANGED step
  ELSE /\ step' = [step EXCEPT ![j] = @ + 1]
       /\ pc' = [pc EXCEPT ![j] = "sending"]
       /\ UNCHANGED <<verdict, lock, paused>>

(* After a reconnection another packet of the same number may answer.      *)
Answered(j) ==
  /\ pc[j] = "awaiting"
  /\ answered[j] \/ sentOn[j] # conn
  /\ Proceed(j)
  /\ UNCHANGED <<sentOn, answered, linkVars, wire, laserVars, monitored, turns,
                 moved>>

(* Timeout, lost connection, or not connected in the first place.          *)
Unanswered(j) ==
  /\ pc[j] = "awaiting" \/ (pc[j] = "sending" /\ ~connected)
  /\ IF Request(j) \in Required
     THEN Return(j, "failed") /\ UNCHANGED step
     ELSE Proceed(j)
  /\ UNCHANGED <<sentOn, answered, linkVars, wire, laserVars, monitored, turns,
                 moved>>

-----------------------------------------------------------------------------
(* The reader notices the end of the connection, or disconnect() is called.*)
LinkLost ==
  /\ connected /\ connected' = FALSE
  /\ UNCHANGED <<pc, step, sentOn, answered, verdict, lock, paused, conn, wire,
                 laserVars, monitored, turns, moved>>

(* The laser monitor's connect(), in another thread: no job lock.          *)
OtherConnect ==
  /\ monitored /\ NewConnection
  /\ moved' = moved \cup {j \in Jobs : Active(j)}
  /\ UNCHANGED <<pc, step, sentOn, answered, verdict, lock, paused, store, ran,
                 monitored, turns>>

LaserHandles ==
  /\ wire # <<>> /\ wire' = Tail(wire)
  /\ LET j == Head(wire).job
         k == Head(wire).at
         r == Script(j)[k]
     IN  /\ current' = IF r = "JOB_UPLOAD" THEN j ELSE current
         /\ store' = IF r = "JOB_UPLOAD"
                     THEN [store EXCEPT ![j] = <<>>]
                     ELSE IF r = "PATH_DATA" /\ current # None
                     THEN [store EXCEPT ![current] = Append(@, PathNumber(k))]
                     ELSE store
         /\ ran' = IF r = "JOB_CONTROL" /\ current # None
                   THEN Append(ran, <<current, store[current]>>) ELSE ran
         /\ answered' = IF pc[j] = "awaiting" /\ step[j] = k
                        THEN [answered EXCEPT ![j] = TRUE] ELSE answered
  /\ UNCHANGED <<pc, step, sentOn, verdict, lock, paused, linkVars, monitored,
                 turns, moved>>

JobStep(j) == \/ AcquireLock(j) \/ Begin(j) \/ NotReachable(j) \/ Send(j)
              \/ Raise(j) \/ Answered(j) \/ Unanswered(j)

Next == (\E j \in Jobs : JobStep(j)) \/ LinkLost \/ OtherConnect
        \/ LaserHandles

Spec == Init /\ [][Next]_vars

(* Threads run, and waits for an answer time out.  Only sendall() may take *)
(* for ever, here or in ensure_connected()'s handshake: it has no timeout, *)
(* and returns when the laser reads.                                       *)
InSendall(j) == pc[j] \in {"locked", "sending"}
FairSpec == Spec /\ \A j \in Jobs : WF_vars(~InSendall(j) /\ JobStep(j))
LaserReads == \A j \in Jobs : WF_vars(InSendall(j) /\ JobStep(j))

-----------------------------------------------------------------------------
(* The promise of LaserJob is kept while no other thread connects; where   *)
(* one does, nothing is shown of the jobs.                                 *)
Shown(value, nothing) == IF monitored THEN nothing ELSE value
Promise == INSTANCE LaserJob WITH
  turns   <- Shown(turns, <<>>),
  verdict <- Shown(verdict, [j \in Jobs |-> "none"]),
  ran     <- Shown([n \in 1..Len(ran) |-> ran[n][1]], <<>>)
PromiseKept == Promise!Spec

(* A job the laser executes has all its paths, each once, in order, as     *)
(* long as no connection was ever replaced under a job.                    *)
RunsAreWhole ==
  moved = {} => \A n \in 1..Len(ran) : ran[n][2] = AllPaths(ran[n][1])

(* engrave() returns True only when the laser has the whole job, each path *)
(* once and in order, unless the connection was replaced under the job.    *)
SubmittedIsUploaded ==
  [][\A j \in Jobs : verdict[j] # "submitted" /\ verdict'[j] = "submitted"
       => j \in moved \/ store[j] = AllPaths(j)]_vars

(* The heartbeat is paused only by a job that is sending, and never left   *)
(* paused by one that gave up.                                             *)
PausedByAJob ==
  paused = (lock # None /\ pc[lock] \in {"sending", "awaiting"})

(* Every engrave() ends, whoever else holds the lock and whatever breaks,  *)
(* if the laser takes what is sent to it; it need not answer anything.     *)
EveryJobReturns == LaserReads => \A j \in Jobs : <>(pc[j] = "returned")
=============================================================================
