-------------------------- MODULE GrblFramingProofs --------------------------
(* Theorems about GrblFraming, for any number of connections and jobs.     *)
EXTENDS GrblFraming, TLAPS, SequenceTheorems

Threads == 1..Len(jobs)
AskedNow  == {"clearing", "waiting", "unframing", "deciding"}
ShownNow  == {"asking", "clearing", "waiting", "unframing"}

(* A flag that stands from the question on is the last answer's.           *)
Answers ==
  \A j \in Threads :
    /\ jobs[j].pc \in AskedNow /\ clients[jobs[j].client].confirmed
         => jobs[j].last = "enter"
    /\ jobs[j].framed /\ jobs[j].pc = "engraving" => jobs[j].last = "enter"

(* The outline is some job's; as long as no two frame at once there is one *)
(* job that frames, and its outline is on from the question to the answer. *)
Outlines ==
  /\ Up /\ outline = "shown" => \E j \in Threads : jobs[j].pc \in ShownNow
  /\ ~crowded =>
       /\ \A j, k \in Threads : Busy(j) /\ Busy(k) => j = k
       /\ \A j \in Threads : jobs[j].pc \in ShownNow => outline # "hidden"

-----------------------------------------------------------------------------
LEMMA TypeInit == Init => TypeOK
<1> SUFFICES ASSUME Init PROVE TypeOK
  OBVIOUS
<1>1. /\ clients \in Seq(Translators) /\ jobs \in Seq(JobThreads)
      /\ Len(jobs) = 0
  BY EmptySeq DEF Init
<1>2. \A j \in 1..Len(jobs) : jobs[j].client \in 1..Len(clients)
  BY <1>1
<1>3. active = None /\ console.at = "top"
  BY DEF Init
<1>4. outline \in {"shown", "hidden", "unknown"} /\ crowded \in BOOLEAN
  BY DEF Init
<1>5. QED BY <1>1, <1>2, <1>3, <1>4 DEF TypeOK

(* What a step of a job thread does to everything but itself.              *)
Effect(j) ==
  /\ jobs' \in Seq(JobThreads) /\ Len(jobs') = Len(jobs)
  /\ \A k \in Threads : k # j => jobs'[k] = jobs[k]
  /\ jobs'[j].client = jobs[j].client /\ jobs'[j].framed = jobs[j].framed
  /\ clients' \in Seq(Translators) /\ Len(clients') = Len(clients)
  /\ \A t \in 1..Len(clients) :
       /\ clients'[t].open = clients[t].open
       /\ clients'[t].greeted = clients[t].greeted
       /\ t # jobs[j].client => clients'[t] = clients[t]
  /\ UNCHANGED <<active, console>>

LEMMA JobEdited ==
  ASSUME TypeOK, NEW j \in Threads, NEW r \in JobThreads,
         r.client = jobs[j].client, r.framed = jobs[j].framed,
         jobs' = [jobs EXCEPT ![j] = r]
  PROVE  /\ jobs' \in Seq(JobThreads) /\ Len(jobs') = Len(jobs)
         /\ jobs'[j] = r /\ \A k \in Threads : k # j => jobs'[k] = jobs[k]
BY ExceptSeq DEF TypeOK, Threads

LEMMA ClientEdited ==
  ASSUME TypeOK, NEW t \in 1..Len(clients), NEW c \in Translators,
         clients' = [clients EXCEPT ![t] = c]
  PROVE  /\ clients' \in Seq(Translators) /\ Len(clients') = Len(clients)
         /\ clients'[t] = c
         /\ \A u \in 1..Len(clients) : u # t => clients'[u] = clients[u]
BY ExceptSeq DEF TypeOK

LEMMA Elements ==
  ASSUME TypeOK
  PROVE  /\ Len(jobs) \in Nat /\ Len(clients) \in Nat
         /\ DOMAIN jobs = Threads /\ DOMAIN clients = 1..Len(clients)
         /\ \A j \in Threads : /\ jobs[j] \in JobThreads
                               /\ jobs[j].client \in 1..Len(clients)
         /\ \A t \in 1..Len(clients) : clients[t] \in Translators
BY LenProperties, ElementOfSeq DEF TypeOK, Threads

(* A translator whose open and greeted stay is active as before.           *)
LEMMA ClientKept ==
  ASSUME TypeOK, NEW t \in 1..Len(clients), NEW c \in Translators,
         c.open = clients[t].open, c.greeted = clients[t].greeted,
         clients' = [clients EXCEPT ![t] = c], active' = active
  PROVE  /\ clients' \in Seq(Translators) /\ Len(clients') = Len(clients)
         /\ active' \in {None} \cup Open' \cup
                       {u \in 1..Len(clients') : ~clients'[u].greeted}
<1>1. /\ clients' \in Seq(Translators) /\ Len(clients') = Len(clients)
      /\ \A u \in 1..Len(clients) :
           /\ clients'[u].open = clients[u].open
           /\ clients'[u].greeted = clients[u].greeted
  BY ClientEdited
<1>2. QED BY <1>1 DEF TypeOK, Open

(* An answer is noted with every job that is asking it.                    *)
LEMMA AnswerJobs ==
  ASSUME TypeOK, NEW what \in {"enter", "cancel"}, Answer(what)
  PROVE  /\ jobs' \in Seq(JobThreads) /\ Len(jobs') = Len(jobs)
         /\ \A k \in Threads :
              /\ jobs'[k].client = jobs[k].client
              /\ jobs'[k].pc = jobs[k].pc /\ jobs'[k].framed = jobs[k].framed
              /\ IF jobs[k].client = console.t /\ Busy(k)
                   THEN jobs'[k].last = what ELSE jobs'[k] = jobs[k]
<1> DEFINE e == [k \in 1..Len(jobs) |->
                   IF jobs[k].client = console.t /\ Busy(k)
                     THEN [jobs[k] EXCEPT !.last = what] ELSE jobs[k]]
<1>1. jobs' = e /\ Len(jobs) \in Nat
  BY Elements DEF Answer, Threads
<1>2. \A k \in 1..Len(jobs) : e[k] \in JobThreads
  BY Elements DEF JobThreads, Threads
<1>3. e \in Seq(JobThreads) /\ Len(e) = Len(jobs)
  <2>1. e \in [1..Len(jobs) -> JobThreads]
    BY <1>2
  <2> HIDE DEF e
  <2>2. QED BY <1>1, <2>1
<1>4. QED BY <1>1, <1>2, <1>3, Elements DEF Threads, JobThreads

LEMMA JobEffect ==
  ASSUME TypeOK, NEW j \in Threads, JobStep(j)
  PROVE  Effect(j)
<1>1. /\ jobs[j] \in JobThreads /\ jobs[j].client \in 1..Len(clients)
      /\ \A t \in 1..Len(clients) : clients[t] \in Translators
  BY Elements
<1> USE DEF Step, At, Others, Quiet, Framing
<1>2. /\ jobs' \in Seq(JobThreads) /\ Len(jobs') = Len(jobs)
      /\ \A k \in Threads : k # j => jobs'[k] = jobs[k]
      /\ jobs'[j].client = jobs[j].client /\ jobs'[j].framed = jobs[j].framed
  <2>1. PICK r \in JobThreads : /\ r.client = jobs[j].client
                                /\ r.framed = jobs[j].framed
                                /\ jobs' = [jobs EXCEPT ![j] = r]
    <3>1. CASE Show(j)
      <4> DEFINE r == [jobs[j] EXCEPT !.pc = "asking"]
      <4>1. r \in JobThreads /\ jobs' = [jobs EXCEPT ![j] = r]
        BY <1>1, <3>1 DEF Show, JobThreads
      <4>2. QED BY <1>1, <4>1 DEF JobThreads
    <3>2. CASE Ask(j)
      <4> DEFINE r == [jobs[j] EXCEPT !.pc = "clearing", !.last = "none"]
      <4>1. r \in JobThreads /\ jobs' = [jobs EXCEPT ![j] = r]
        BY <1>1, <3>2 DEF Ask, JobThreads
      <4>2. QED BY <1>1, <4>1 DEF JobThreads
    <3>3. CASE Clear(j)
      <4> DEFINE r == [jobs[j] EXCEPT !.pc = "waiting"]
      <4>1. r \in JobThreads /\ jobs' = [jobs EXCEPT ![j] = r]
        BY <1>1, <3>3 DEF Clear, JobThreads
      <4>2. QED BY <1>1, <4>1 DEF JobThreads
    <3>4. CASE Awake(j, TRUE)
      <4> DEFINE r == [jobs[j] EXCEPT !.pc = "unframing", !.got = TRUE]
      <4>1. r \in JobThreads /\ jobs' = [jobs EXCEPT ![j] = r]
        BY <1>1, <3>4 DEF Awake, JobThreads
      <4>2. QED BY <1>1, <4>1 DEF JobThreads
    <3>5. CASE Awake(j, FALSE)
      <4> DEFINE r == [jobs[j] EXCEPT !.pc = "unframing", !.got = FALSE]
      <4>1. r \in JobThreads /\ jobs' = [jobs EXCEPT ![j] = r]
        BY <1>1, <3>5 DEF Awake, JobThreads
      <4>2. QED BY <1>1, <4>1 DEF JobThreads
    <3>6. CASE Hide(j)
      <4> DEFINE r == [jobs[j] EXCEPT !.pc = "deciding"]
      <4>1. r \in JobThreads /\ jobs' = [jobs EXCEPT ![j] = r]
        BY <1>1, <3>6 DEF Hide, JobThreads
      <4>2. QED BY <1>1, <4>1 DEF JobThreads
    <3>7. CASE Engrave(j)
      <4> DEFINE r == [jobs[j] EXCEPT !.pc = "engraving"]
      <4>1. r \in JobThreads /\ jobs' = [jobs EXCEPT ![j] = r]
        BY <1>1, <3>7 DEF Engrave, JobThreads
      <4>2. QED BY <1>1, <4>1 DEF JobThreads
    <3>8. CASE Cancel(j)
      <4> DEFINE r == [jobs[j] EXCEPT !.pc = "cancelled", !.got = FALSE,
                                         !.last = "none"]
      <4>1. r \in JobThreads /\ jobs' = [jobs EXCEPT ![j] = r]
        BY <1>1, <3>8 DEF Cancel, JobThreads, End
      <4>2. QED BY <1>1, <4>1 DEF JobThreads
    <3>9. CASE Done(j)
      <4> DEFINE r == [jobs[j] EXCEPT !.pc = "ended", !.got = FALSE,
                                         !.last = "none"]
      <4>1. r \in JobThreads /\ jobs' = [jobs EXCEPT ![j] = r]
        BY <1>1, <3>9 DEF Done, JobThreads, End
      <4>2. QED BY <1>1, <4>1 DEF JobThreads
    <3>10. CASE Raise(j)
      <4> DEFINE r == [jobs[j] EXCEPT !.pc = "ended", !.got = FALSE,
                                         !.last = "none"]
      <4>1. r \in JobThreads /\ jobs' = [jobs EXCEPT ![j] = r]
        BY <1>1, <3>10 DEF Raise, JobThreads, End
      <4>2. QED BY <1>1, <4>1 DEF JobThreads
    <3>11. QED
      BY <3>1, <3>2, <3>3, <3>4, <3>5, <3>6, <3>7, <3>8, <3>9, <3>10
         DEF JobStep
  <2>2. QED BY <2>1, JobEdited
<1>3. UNCHANGED <<active, console>>
  BY DEF JobStep, Show, Ask, Clear, Awake, Hide, Engrave, Cancel, Done, Raise
<1>4. PICK c \in Translators :
        /\ c.open = clients[jobs[j].client].open
        /\ c.greeted = clients[jobs[j].client].greeted
        /\ clients' = [clients EXCEPT ![jobs[j].client] = c]
  <2> DEFINE t == jobs[j].client
  <2>1. CASE UNCHANGED clients
    <3>1. clients \in [1..Len(clients) -> Translators]
      BY LenProperties DEF TypeOK
    <3>2. clients = [clients EXCEPT ![t] = clients[t]]
      BY <1>1, <3>1
    <3>3. QED BY <1>1, <2>1, <3>2
  <2>2. CASE Ask(j)
    <3> DEFINE c == [clients[t] EXCEPT !.confirmed = FALSE]
    <3>1. c \in Translators /\ clients' = [clients EXCEPT ![t] = c]
      BY <1>1, <2>2 DEF Ask, NoAnswer, Set, Translators
    <3>2. QED BY <1>1, <3>1 DEF Translators
  <2>3. CASE Clear(j)
    <3> DEFINE c == [clients[t] EXCEPT !.event = FALSE, !.awaiting = TRUE]
    <3>1. c \in Translators /\ clients' = [clients EXCEPT ![t] = c]
      BY <1>1, <2>3 DEF Clear, Translators
    <3>2. QED BY <1>1, <3>1 DEF Translators
  <2>4. CASE Awake(j, TRUE) \/ Awake(j, FALSE)
    <3> DEFINE c == [clients[t] EXCEPT !.awaiting = FALSE]
    <3>1. c \in Translators /\ clients' = [clients EXCEPT ![t] = c]
      BY <1>1, <2>4 DEF Awake, Set, Translators
    <3>2. QED BY <1>1, <3>1 DEF Translators
  <2>5. QED
    BY <2>1, <2>2, <2>3, <2>4
       DEF JobStep, Show, Hide, Engrave, Cancel, Done, Raise
<1>5. /\ clients' \in Seq(Translators) /\ Len(clients') = Len(clients)
      /\ \A t \in 1..Len(clients) :
           /\ clients'[t].open = clients[t].open
           /\ clients'[t].greeted = clients[t].greeted
           /\ t # jobs[j].client => clients'[t] = clients[t]
  BY <1>1, <1>4, ClientEdited
<1>6. QED BY <1>2, <1>3, <1>5 DEF Effect

(* What it does to itself, the outline and the answer it reads.            *)
Moves(j, from, to) == jobs[j].pc = from /\ jobs'[j].pc = to
Keeps(j) == /\ jobs'[j].last = jobs[j].last
            /\ clients'[jobs[j].client].confirmed
                 = clients[jobs[j].client].confirmed

LEMMA JobMoves ==
  ASSUME TypeOK, NEW j \in Threads, JobStep(j)
  PROVE  /\ Up /\ UNCHANGED crowded
         /\ \/ /\ Moves(j, "framing", "asking") /\ outline' # "hidden"
               /\ Keeps(j)
            \/ /\ Moves(j, "asking", "clearing") /\ UNCHANGED outline
               /\ ~clients'[jobs[j].client].confirmed
            \/ /\ \/ Moves(j, "clearing", "waiting")
                  \/ Moves(j, "waiting", "unframing")
               /\ UNCHANGED outline /\ Keeps(j)
            \/ /\ Moves(j, "unframing", "deciding") /\ outline' # "shown"
               /\ Keeps(j)
            \/ /\ Moves(j, "deciding", "engraving") /\ Keeps(j)
               /\ clients[jobs[j].client].confirmed /\ UNCHANGED outline
            \/ /\ \/ Moves(j, "deciding", "cancelled")
                  \/ Moves(j, "engraving", "ended")
               /\ UNCHANGED <<clients, outline>>
            \/ /\ \/ Moves(j, "framing", "ended")
                  \/ Moves(j, "unframing", "ended")
               /\ UNCHANGED clients /\ outline' = "unknown"
<1> DEFINE t == jobs[j].client
<1>1. /\ jobs[j] \in JobThreads /\ DOMAIN jobs = Threads
      /\ t \in 1..Len(clients) /\ DOMAIN clients = 1..Len(clients)
      /\ clients[t] \in Translators
  BY Elements
<1> USE DEF Moves, Keeps, At
<1>2. \A to \in {"asking", "clearing", "waiting", "unframing", "deciding",
                "engraving"} :
        jobs' = [jobs EXCEPT ![j].pc = to]
          => jobs'[j].pc = to /\ jobs'[j].last = jobs[j].last
  BY <1>1 DEF JobThreads
<1>3. CASE Show(j)
  BY <1>1, <1>2, <1>3 DEF Show, Step, Tell
<1>4. CASE Ask(j)
  <2>1. jobs'[j].pc = "clearing"
    BY <1>1, <1>4 DEF Ask, JobThreads
  <2>2. ~clients'[t].confirmed
    BY <1>1, <1>4 DEF Ask, NoAnswer, Set, Translators
  <2>3. QED BY <1>4, <2>1, <2>2 DEF Ask
<1>5. CASE Clear(j)
  <2>1. clients'[t].confirmed = clients[t].confirmed
    BY <1>1, <1>5 DEF Clear, Translators
  <2>2. QED BY <1>2, <1>5, <2>1 DEF Clear, Step
<1>6. ASSUME NEW got \in BOOLEAN, Awake(j, got)
      PROVE  /\ Moves(j, "waiting", "unframing") /\ Keeps(j) /\ Up
             /\ UNCHANGED <<outline, crowded>>
  <2>1. clients'[t].confirmed = clients[t].confirmed
    BY <1>1, <1>6 DEF Awake, Set, Translators
  <2>2. jobs'[j].pc = "unframing" /\ jobs'[j].last = jobs[j].last
    BY <1>1, <1>6 DEF Awake, JobThreads
  <2>3. QED BY <1>6, <2>1, <2>2 DEF Awake
<1>7. CASE Hide(j)
  BY <1>2, <1>7 DEF Hide, Step, Always, Tell
<1>8. CASE Engrave(j)
  BY <1>2, <1>8 DEF Engrave, Step, Confirmed, Client, Quiet
<1>9. ASSUME NEW from \in {"deciding", "engraving", "framing", "unframing"},
             NEW to \in {"cancelled", "ended"}, End(j, from, to)
      PROVE  Moves(j, from, to) /\ Up
  BY <1>1, <1>9 DEF End, JobThreads
<1>10. CASE Cancel(j) \/ Done(j)
  BY <1>9, <1>10 DEF Cancel, Done, Quiet
<1>11. CASE Raise(j)
  BY <1>9, <1>11 DEF Raise
<1>12. QED
  BY <1>3, <1>4, <1>5, <1>6, <1>7, <1>8, <1>10, <1>11 DEF JobStep

LEMMA AcceptEffect ==
  ASSUME TypeOK, NEW g \in BOOLEAN, Accept(g)
  PROVE  /\ clients' \in Seq(Translators) /\ Len(clients') = Len(clients) + 1
         /\ \A t \in 1..Len(clients) : clients'[t] = clients[t]
         /\ \/ clients'[Len(clients) + 1].open
            \/ ~clients'[Len(clients) + 1].greeted
         /\ active' = Len(clients) + 1
         /\ UNCHANGED <<jobs, console, outline, crowded>>
<1> DEFINE c == [open |-> g, greeted |-> g, frame |-> FrameOn,
                 awaiting |-> FALSE, event |-> FALSE, confirmed |-> FALSE]
<1>1. c \in Translators /\ c.open = g /\ c.greeted = g
  BY FramingAssumption DEF Translators
<1>2. clients' = Append(clients, c)
  BY DEF Accept
<1> HIDE DEF c
<1>3. /\ clients' \in Seq(Translators) /\ Len(clients') = Len(clients) + 1
      /\ clients'[Len(clients) + 1] = c
      /\ \A t \in 1..Len(clients) : clients'[t] = clients[t]
  BY <1>1, <1>2, AppendProperties DEF TypeOK
<1>4. QED BY <1>1, <1>3 DEF Accept

LEMMA StartEffect ==
  ASSUME TypeOK, NEW t \in Open, StartJob(t)
  PROVE  /\ jobs' \in Seq(JobThreads) /\ Len(jobs') = Len(jobs) + 1
         /\ \A k \in 1..Len(jobs) : jobs'[k] = jobs[k]
         /\ jobs'[Len(jobs) + 1].client = t
         /\ \/ /\ jobs'[Len(jobs) + 1].pc = "framing"
               /\ jobs'[Len(jobs) + 1].framed
            \/ /\ jobs'[Len(jobs) + 1].pc = "engraving"
               /\ ~jobs'[Len(jobs) + 1].framed
         /\ crowded' = ((crowded \/ jobs'[Len(jobs) + 1].framed)
                          /\ \E j \in Threads : Busy(j))
         /\ UNCHANGED <<clients, active, console, outline>>
<1> DEFINE frames == clients[t].frame
           r == [pc |-> IF frames THEN "framing" ELSE "engraving",
                 client |-> t, framed |-> frames, last |-> "none",
                 got |-> FALSE]
<1>1. t \in 1..Len(clients) /\ r \in JobThreads /\ frames \in BOOLEAN
  BY Elements DEF Open, JobThreads, Translators, Framing
<1>2. /\ jobs' = Append(jobs, r)
      /\ crowded' = ((crowded \/ frames) /\ \E j \in Threads : Busy(j))
      /\ UNCHANGED <<clients, active, console, outline>>
  BY Elements DEF StartJob
<1>3. /\ r.client = t /\ r.framed = frames
      /\ \/ r.pc = "framing" /\ frames
         \/ r.pc = "engraving" /\ ~frames
  BY <1>1
<1> HIDE DEF r, frames
<1>4. /\ jobs' \in Seq(JobThreads) /\ Len(jobs') = Len(jobs) + 1
      /\ jobs'[Len(jobs) + 1] = r
      /\ \A k \in 1..Len(jobs) : jobs'[k] = jobs[k]
  BY <1>1, <1>2, AppendProperties DEF TypeOK
<1>5. QED BY <1>2, <1>3, <1>4

-----------------------------------------------------------------------------
(* Every step keeps the types.                                             *)
LEMMA TypeKept == TypeOK /\ [Next]_vars => TypeOK'
<1> SUFFICES ASSUME TypeOK, [Next]_vars PROVE TypeOK'
  OBVIOUS
<1>1. CASE UNCHANGED vars
  BY <1>1 DEF vars, TypeOK, Open
<1>2. ASSUME NEW j \in Threads, JobStep(j) PROVE TypeOK'
  <2>1. Effect(j)
    BY <1>2, JobEffect
  <2>2. outline' \in {"shown", "hidden", "unknown"} /\ crowded' \in BOOLEAN
    BY <1>2 DEF JobStep, Show, Ask, Clear, Awake, Hide, Engrave, Cancel, Done,
                Raise, Quiet, TypeOK, Always, Tell
  <2>3. \A k \in 1..Len(jobs') : jobs'[k].client \in 1..Len(clients')
    BY <2>1, Elements DEF Effect, Threads, TypeOK
  <2>4. active' \in {None} \cup Open' \cup
                   {t \in 1..Len(clients') : ~clients'[t].greeted}
    BY <2>1 DEF Effect, TypeOK, Open
  <2>5. QED BY <2>1, <2>2, <2>3, <2>4 DEF Effect, TypeOK
<1>3. CASE LightBurn
  <2>1. CASE \E greeted \in BOOLEAN : Accept(greeted)
    <3>1. PICK g \in BOOLEAN : Accept(g)
      BY <2>1
    <3>2. \/ clients'[Len(clients) + 1].open
          \/ ~clients'[Len(clients) + 1].greeted
      BY <3>1, AcceptEffect
    <3>3. /\ clients' \in Seq(Translators)
          /\ Len(clients') = Len(clients) + 1
      BY <3>1, AcceptEffect
    <3>4. /\ UNCHANGED <<jobs, console, outline, crowded>>
          /\ active' = Len(clients) + 1
      BY <3>1, AcceptEffect
    <3>5. active' \in Open' \cup
                     {t \in 1..Len(clients') : ~clients'[t].greeted}
      BY <3>2, <3>3, <3>4, Elements DEF Open
    <3>6. \A t \in 1..Len(clients) : t \in 1..Len(clients')
      BY <3>3, Elements
    <3>7. QED BY <3>3, <3>4, <3>5, <3>6 DEF TypeOK
  <2>2. ASSUME NEW t \in Open, HangUp(t) PROVE TypeOK'
    <3> DEFINE c == [clients[t] EXCEPT !.open = FALSE, !.frame = FALSE]
    <3>1. t \in 1..Len(clients) /\ c \in Translators
      BY Elements DEF Open, Translators
    <3>2. clients' = [clients EXCEPT ![t] = c]
      BY <2>2 DEF HangUp
    <3>3. clients' \in Seq(Translators) /\ Len(clients') = Len(clients)
      BY <3>1, <3>2, ClientEdited
    <3>4. UNCHANGED <<jobs, console, outline, crowded>> /\ active' = None
      BY <2>2 DEF HangUp, Nobody, TypeOK
    <3>5. QED BY <3>3, <3>4 DEF TypeOK
  <2>3. ASSUME NEW t \in Open, StartJob(t) PROVE TypeOK'
    <3>1. t \in 1..Len(clients)
      BY DEF Open
    <3>2. /\ jobs' \in Seq(JobThreads) /\ Len(jobs') = Len(jobs) + 1
          /\ \A k \in 1..Len(jobs) : jobs'[k] = jobs[k]
          /\ jobs'[Len(jobs) + 1].client = t
      BY <2>3, StartEffect
    <3>3. /\ crowded' \in BOOLEAN
          /\ UNCHANGED <<clients, active, console, outline>>
      BY <2>3, StartEffect
    <3>4. \A k \in 1..Len(jobs') : jobs'[k].client \in 1..Len(clients)
      BY <3>1, <3>2, Elements DEF Threads
    <3>5. QED BY <3>2, <3>3, <3>4 DEF TypeOK, Open
  <2>4. QED BY <1>3, <2>1, <2>2, <2>3 DEF LightBurn
<1>4. CASE Console
  <2> USE DEF ConsoleOnly, Goto
  <2>1. CASE Look
    <3>1. UNCHANGED <<clients, jobs, active, outline, crowded>>
      BY <2>1 DEF Look
    <3>2. \/ console' = [at |-> "asking", t |-> active] /\ active # None
          \/ console' = [at |-> "prompt", t |-> None]
      BY <2>1 DEF Look
    <3>3. active # None => active \in 1..Len(clients)
      BY DEF TypeOK, Open
    <3>4. QED BY <3>1, <3>2, <3>3 DEF TypeOK, Open
  <2>2. ASSUME NEW what \in {"enter", "cancel"}, Answer(what) PROVE TypeOK'
    <3> DEFINE t == console.t
               c == [clients[t] EXCEPT !.confirmed = (what = "enter")]
    <3>1. t \in 1..Len(clients) /\ console' = [at |-> "answering", t |-> t]
      BY <2>2 DEF Answer, TypeOK
    <3>2. c \in Translators /\ clients' = [clients EXCEPT ![t] = c]
      BY <2>2, <3>1, Elements DEF Answer, Set, Translators
    <3>3. UNCHANGED <<active, outline, crowded>>
      BY <2>2 DEF Answer
    <3>4. /\ jobs' \in Seq(JobThreads) /\ Len(jobs') = Len(jobs)
          /\ \A k \in Threads : jobs'[k].client = jobs[k].client
      BY <2>2, AnswerJobs
    <3>5. QED
      BY <3>1, <3>2, <3>3, <3>4, ClientKept DEF Translators, TypeOK, Threads
  <2>3. CASE Wake
    <3> DEFINE t == console.t
               c == [clients[t] EXCEPT !.event = TRUE]
    <3>1. t \in 1..Len(clients) /\ console' = [at |-> "top", t |-> None]
      BY <2>3 DEF Wake, TypeOK
    <3>2. c \in Translators /\ clients' = [clients EXCEPT ![t] = c]
      BY <2>3, <3>1, Elements DEF Wake, Set, Translators
    <3>3. UNCHANGED <<active, outline, crowded, jobs>>
      BY <2>3 DEF Wake
    <3>4. QED BY <3>1, <3>2, <3>3, ClientKept DEF Translators, TypeOK
  <2>4. CASE Mistype \/ Toggle(TRUE) \/ Toggle(FALSE)
    <3>1. UNCHANGED <<clients, jobs, active, outline, crowded>>
      BY <2>4 DEF Mistype, Toggle
    <3>2. \/ \E on \in BOOLEAN : console' = [at |-> "toggling", t |-> on]
          \/ console' = [at |-> "top", t |-> None]
      BY <2>4 DEF Mistype, Toggle
    <3>3. QED BY <3>1, <3>2 DEF TypeOK, Open
  <2>5. CASE Toggled /\ active # None
    <3> DEFINE c == [clients[active] EXCEPT !.frame = console.t]
    <3>1. active \in 1..Len(clients) /\ console.t \in BOOLEAN
      BY <2>5 DEF Toggled, TypeOK, Open
    <3>2. c \in Translators /\ clients' = [clients EXCEPT ![active] = c]
      BY <2>5, <3>1, Elements DEF Toggled, Set, Translators
    <3>3. /\ UNCHANGED <<active, outline, crowded, jobs>>
          /\ console' = [at |-> "top", t |-> None]
      BY <2>5 DEF Toggled
    <3>4. QED BY <3>1, <3>2, <3>3, ClientKept DEF Translators, TypeOK
  <2>6. CASE Quit \/ (Toggled /\ active = None)
    <3>1. /\ clients' = <<>> /\ jobs' = <<>> /\ active' = None
          /\ crowded' = FALSE /\ UNCHANGED <<outline>>
          /\ \/ console' = [at |-> "quit", t |-> None]
             \/ console' = [at |-> "crashed", t |-> None]
      BY <2>6 DEF Quit, Toggled, Exit
    <3>2. /\ clients' \in Seq(Translators) /\ jobs' \in Seq(JobThreads)
          /\ Len(jobs') = 0
      BY <3>1, EmptySeq
    <3>3. \A j \in 1..Len(jobs') : jobs'[j].client \in 1..Len(clients')
      BY <3>2
    <3>4. /\ outline' \in {"shown", "hidden", "unknown"}
          /\ crowded' \in BOOLEAN
      BY <3>1 DEF TypeOK
    <3>5. console'.at \in {"quit", "crashed"} /\ active' = None
      BY <3>1
    <3>6. QED BY <3>2, <3>3, <3>4, <3>5 DEF TypeOK
  <2>7. QED
    BY <1>4, <2>1, <2>2, <2>3, <2>4, <2>5, <2>6 DEF Console
<1>5. QED BY <1>1, <1>2, <1>3, <1>4 DEF Next, Threads
(* THEOREM: in every behaviour the records and sequences have their types, *)
(* the active translator is one that is open or was never greeted, and the *)
(* console looks at one that exists.                                       *)
THEOREM TypesHold == Spec => []TypeOK
BY TypeInit, TypeKept, PTL DEF Spec

-----------------------------------------------------------------------------
LEMMA AnswersKept == TypeOK /\ Answers /\ [Next]_vars => Answers'
<1> SUFFICES ASSUME TypeOK, Answers, [Next]_vars PROVE Answers'
  OBVIOUS
<1> USE DEF AskedNow
<1>1. CASE UNCHANGED vars
  BY <1>1 DEF vars, Answers, Threads
<1>2. ASSUME NEW j \in Threads, JobStep(j) PROVE Answers'
  <2>1. Effect(j)
    BY <1>2, JobEffect
  <2>2. /\ jobs'[j].pc \in AskedNow /\ clients'[jobs[j].client].confirmed
             => jobs'[j].last = "enter"
        /\ jobs'[j].framed /\ jobs'[j].pc = "engraving"
             => jobs'[j].last = "enter"
        /\ clients'[jobs[j].client].confirmed
             => clients[jobs[j].client].confirmed
    BY <1>2, JobMoves DEF Answers, Moves, Keeps
  <2>3. ASSUME NEW k \in Threads, k # j
        PROVE  /\ jobs'[k].pc \in AskedNow
                    /\ clients'[jobs'[k].client].confirmed
                    => jobs'[k].last = "enter"
               /\ jobs'[k].framed /\ jobs'[k].pc = "engraving"
                    => jobs'[k].last = "enter"
    <3>1. jobs'[k] = jobs[k] /\ jobs[k].client \in 1..Len(clients)
      BY <2>1, <2>3, Elements DEF Effect
    <3>2. \/ jobs[k].client = jobs[j].client
          \/ clients'[jobs[k].client] = clients[jobs[k].client]
      BY <2>1, <3>1 DEF Effect
    <3>3. clients'[jobs[k].client].confirmed
             => clients[jobs[k].client].confirmed
      BY <2>2, <3>2
    <3>4. QED BY <3>1, <3>3 DEF Answers
  <2>4. jobs'[j].client = jobs[j].client /\ Threads' = Threads
    BY <2>1 DEF Effect, Threads
  <2>5. QED
    BY <2>2, <2>3, <2>4 DEF Answers
<1>3. CASE LightBurn
  <2>1. ASSUME NEW g \in BOOLEAN, Accept(g) PROVE Answers'
    <3>1. /\ UNCHANGED jobs
          /\ \A t \in 1..Len(clients) : clients'[t] = clients[t]
      BY <2>1, AcceptEffect
    <3>2. QED BY <3>1, Elements DEF Answers, Threads
  <2>2. ASSUME NEW t \in Open, HangUp(t) PROVE Answers'
    <3>1. /\ UNCHANGED jobs
          /\ \A u \in 1..Len(clients) :
               clients'[u].confirmed = clients[u].confirmed
      BY <2>2, Elements DEF HangUp, Open, Translators
    <3>2. QED BY <3>1, Elements DEF Answers, Threads
  <2>3. ASSUME NEW t \in Open, StartJob(t) PROVE Answers'
    <3>1. /\ UNCHANGED clients /\ Len(jobs') = Len(jobs) + 1
          /\ \A k \in 1..Len(jobs) : jobs'[k] = jobs[k]
          /\ jobs'[Len(jobs) + 1].pc \in {"framing", "engraving"}
          /\ jobs'[Len(jobs) + 1].pc = "engraving"
               => ~jobs'[Len(jobs) + 1].framed
      BY <2>3, StartEffect
    <3>2. QED BY <3>1, Elements DEF Answers, Threads
  <2>4. QED BY <1>3, <2>1, <2>2, <2>3 DEF LightBurn
<1>4. CASE Console
  <2>1. ASSUME NEW what \in {"enter", "cancel"}, Answer(what) PROVE Answers'
    <3>1. /\ Len(jobs') = Len(jobs)
          /\ \A k \in Threads :
               /\ jobs'[k].client = jobs[k].client
               /\ jobs'[k].pc = jobs[k].pc /\ jobs'[k].framed = jobs[k].framed
               /\ IF jobs[k].client = console.t /\ Busy(k)
                    THEN jobs'[k].last = what ELSE jobs'[k] = jobs[k]
      BY <2>1, AnswerJobs
    <3>2. \A u \in 1..Len(clients) :
            clients'[u].confirmed = IF u = console.t THEN what = "enter"
                                    ELSE clients[u].confirmed
      BY <2>1, Elements DEF Answer, Set, Translators
    <3>3. ASSUME NEW k \in Threads
          PROVE  /\ jobs'[k].pc \in AskedNow
                      /\ clients'[jobs'[k].client].confirmed
                      => jobs'[k].last = "enter"
                 /\ jobs'[k].framed /\ jobs'[k].pc = "engraving"
                      => jobs'[k].last = "enter"
      <4>1. CASE jobs[k].client = console.t /\ Busy(k)
        BY <3>1, <3>2, <4>1, Elements DEF Busy, Framing
      <4>2. CASE jobs[k].client # console.t \/ ~Busy(k)
        BY <3>1, <3>2, <4>2, Elements DEF Answers, Busy, Framing
      <4>3. QED BY <4>1, <4>2
    <3>4. QED BY <3>1, <3>3 DEF Answers, Threads
  <2>2. CASE Look \/ Mistype \/ Toggle(TRUE) \/ Toggle(FALSE)
    BY <2>2 DEF Look, Mistype, Toggle, ConsoleOnly, Answers, Threads
  <2>3. CASE Wake \/ (Toggled /\ active # None)
    <3>1. UNCHANGED jobs
      BY <2>3 DEF Wake, Toggled
    <3>2. \A u \in 1..Len(clients) :
            clients'[u].confirmed = clients[u].confirmed
      BY <2>3, Elements DEF Wake, Toggled, Set, Translators
    <3>3. QED BY <3>1, <3>2, Elements DEF Answers, Threads
  <2>4. CASE Quit \/ (Toggled /\ active = None)
    <3>1. jobs' = <<>>
      BY <2>4 DEF Quit, Toggled, Exit
    <3>2. QED BY <3>1, EmptySeq DEF Answers, Threads
  <2>5. QED BY <1>4, <2>1, <2>2, <2>3, <2>4 DEF Console
<1>5. QED BY <1>1, <1>2, <1>3, <1>4 DEF Next, Threads
(* THEOREM: "User confirms at console before engraving" - a job that frames*)
(* engraves only if the last answer its connection was given since the     *)
(* question was ENTER, however many jobs ask and however late answers are. *)
THEOREM FramingIsConfirmed == Spec => []FramedIsConfirmed
<1>1. Init => Answers
  BY EmptySeq DEF Init, Answers, Threads
<1>2. TypeOK /\ Answers => FramedIsConfirmed
  BY Elements DEF Answers, FramedIsConfirmed
<1>3. QED BY <1>1, <1>2, TypeInit, TypeKept, AnswersKept, PTL DEF Spec

-----------------------------------------------------------------------------
LEMMA OutlinesKept == TypeOK /\ Outlines /\ [Next]_vars => Outlines'
<1> SUFFICES ASSUME TypeOK, Outlines, [Next]_vars PROVE Outlines'
  OBVIOUS
<1> USE DEF ShownNow, Busy, Framing, Up
<1>1. CASE UNCHANGED vars
  BY <1>1 DEF vars, Outlines, Threads
<1>2. ASSUME NEW j \in Threads, JobStep(j) PROVE Outlines'
  <2>1. /\ Threads' = Threads /\ UNCHANGED console
        /\ \A k \in Threads : k # j => jobs'[k] = jobs[k]
    BY <1>2, JobEffect DEF Effect, Threads
  <2>2. /\ UNCHANGED crowded
        /\ jobs'[j].pc \in Framing => jobs[j].pc \in Framing
    BY <1>2, JobMoves DEF Moves
  <2>3. Up' /\ outline' = "shown"
          => \E k \in Threads' : jobs'[k].pc \in ShownNow
    <3>1. CASE jobs'[j].pc \in ShownNow
      BY <2>1, <3>1
    <3>2. CASE jobs'[j].pc \notin ShownNow
      <4>1. \/ outline' # "shown"
            \/ jobs[j].pc \notin ShownNow /\ UNCHANGED outline
        BY <1>2, <3>2, JobMoves DEF Moves
      <4>2. QED BY <2>1, <4>1, <1>2, JobMoves DEF Outlines
    <3>3. QED BY <3>1, <3>2
  <2>4. ASSUME ~crowded'
        PROVE  /\ \A i, k \in Threads' : Busy(i)' /\ Busy(k)' => i = k
               /\ \A k \in Threads' :
                    jobs'[k].pc \in ShownNow => outline' # "hidden"
    <3>1. \A i, k \in Threads' : Busy(i)' /\ Busy(k)' => i = k
      BY <2>1, <2>2, <2>4 DEF Outlines
    <3>2. \A k \in Threads' : jobs'[k].pc \in ShownNow => outline' # "hidden"
      BY <1>2, <2>1, <2>2, <2>4, <3>1, JobMoves DEF Outlines, Moves
    <3>3. QED BY <3>1, <3>2
  <2>5. QED BY <2>3, <2>4 DEF Outlines
<1>3. CASE LightBurn
  <2>1. ASSUME NEW g \in BOOLEAN, Accept(g) PROVE Outlines'
    BY <2>1, AcceptEffect DEF Outlines, Threads
  <2>2. ASSUME NEW t \in Open, HangUp(t) PROVE Outlines'
    BY <2>2 DEF HangUp, Outlines, Threads
  <2>3. ASSUME NEW t \in Open, StartJob(t) PROVE Outlines'
    <3> DEFINE n == Len(jobs) + 1
    <3>1. /\ Threads' = 1..n /\ n \notin Threads /\ Threads \subseteq 1..n
          /\ 1..n = Threads \cup {n}
      BY <2>3, StartEffect, Elements DEF Threads
    <3>2. /\ \A k \in Threads : jobs'[k] = jobs[k]
          /\ \/ jobs'[n].pc = "framing" /\ jobs'[n].framed
             \/ jobs'[n].pc = "engraving" /\ ~jobs'[n].framed
          /\ UNCHANGED <<outline, console>>
          /\ crowded' = ((crowded \/ jobs'[n].framed)
                           /\ \E k \in Threads : Busy(k))
      BY <2>3, StartEffect DEF Threads
    <3> HIDE DEF n
    <3>3. Up' /\ outline' = "shown"
            => \E k \in Threads' : jobs'[k].pc \in ShownNow
      BY <3>1, <3>2 DEF Outlines
    <3>4. ASSUME ~crowded'
          PROVE  /\ \A i, k \in Threads' : Busy(i)' /\ Busy(k)' => i = k
                 /\ \A k \in Threads' :
                      jobs'[k].pc \in ShownNow => outline' # "hidden"
      <4>1. CASE \A k \in Threads : ~Busy(k)
        BY <3>1, <3>2, <4>1
      <4>2. CASE \E k \in Threads : Busy(k)
        <5>1. ~crowded /\ jobs'[n].pc = "engraving"
          BY <3>2, <3>4, <4>2
        <5>2. QED BY <3>1, <3>2, <5>1 DEF Outlines
      <4>3. QED BY <4>1, <4>2
    <3>5. QED BY <3>3, <3>4 DEF Outlines
  <2>4. QED BY <1>3, <2>1, <2>2, <2>3 DEF LightBurn
<1>4. CASE Console
  <2> USE DEF ConsoleOnly
  <2>1. CASE Quit \/ (Toggled /\ active = None)
    <3>1. jobs' = <<>> /\ console'.at \in {"quit", "crashed"}
      BY <2>1 DEF Quit, Toggled, Exit, Goto
    <3>2. QED BY <3>1, EmptySeq DEF Outlines, Threads
  <2>2. CASE Answer("enter") \/ Answer("cancel")
    <3>1. /\ Threads' = Threads /\ UNCHANGED <<outline, crowded>>
          /\ \A k \in Threads : jobs'[k].pc = jobs[k].pc
      <4>1. PICK what \in {"enter", "cancel"} : Answer(what)
        BY <2>2
      <4>2. QED BY <4>1, AnswerJobs DEF Threads, Answer
    <3>2. Up
      BY <2>2 DEF Answer
    <3>3. QED BY <3>1, <3>2 DEF Outlines
  <2>3. CASE \/ Look \/ Wake \/ Mistype \/ Toggle(TRUE) \/ Toggle(FALSE)
             \/ Toggled /\ active # None
    <3>1. Up /\ UNCHANGED <<jobs, outline, crowded>>
      BY <2>3 DEF Look, Wake, Mistype, Toggle, Toggled
    <3>2. QED BY <3>1 DEF Outlines, Threads
  <2>4. QED BY <1>4, <2>1, <2>2, <2>3 DEF Console
<1>5. QED BY <1>1, <1>2, <1>3, <1>4 DEF Next, Threads

(* THEOREM: while a job waits for the answer, the last request about the   *)
(* outline was not one to hide it, unless two jobs frame at once; when no  *)
(* job frames, it was not one to show it.  A request that could not be sent*)
(* leaves the outline unknown.                                             *)
THEOREM OutlineShown == Spec => []OutlineWhileAsked
<1>1. Init => Outlines
  BY EmptySeq DEF Init, Outlines, Threads
<1>2. TypeOK /\ Outlines => OutlineWhileAsked
  BY Elements DEF Outlines, OutlineWhileAsked, ShownNow, Busy, Framing
<1>3. QED BY <1>1, <1>2, TypeInit, TypeKept, OutlinesKept, PTL DEF Spec
=============================================================================

