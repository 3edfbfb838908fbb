----------------------------- MODULE GrblFraming -----------------------------
(***************************************************************************)
(* Framing before a job in NOTTESTED_d1ultra_bridge_v2.4.py: the thread of *)
(* a job traces the outline, asks, and waits for the console's answer; the *)
(* flags it waits on belong to the translator, that is to LightBurn's      *)
(* connection, and not to the job; the console finds the translator through*)
(* the server's _active_translator, which the end of any connection sets to*)
(* None.  preview(), set_peripheral() and engrave() are those of the       *)
(* shared d1ultra_protocol.py: on a lost connection the first two send     *)
(* nothing, and only the last connects again.  How a job is collected is   *)
(* GrblBridge's.                                                           *)
(***************************************************************************)
EXTENDS Naturals, Sequences, FiniteSets

CONSTANTS MaxClients, MaxJobs,  \* bounds: connections, jobs
          FrameOn,              \* not --no-frame
          None

ASSUME FramingAssumption ==
  /\ {MaxClients, MaxJobs} \subseteq Nat /\ FrameOn \in BOOLEAN
  /\ None \notin Nat

VARIABLES
  clients,   \* per connection: is it open, was it greeted, and its
             \* translator's frame_enabled, _awaiting_frame_confirm,
             \* _frame_confirm_event, _frame_confirmed
  active,    \* server._active_translator, or None
  jobs,      \* per job thread: where it is, its client, and as history whether
             \* it frames, and the last answer given between its question and
             \* its decision; got is what wait() returned
  console,   \* where the main thread is, and the translator it looks at
  outline,   \* what the laser was last told of pointer and trace, "unknown"
             \* if that was not sent, or not all of it
  crowded    \* history: two jobs have been framing at once

vars == <<clients, active, jobs, console, outline, crowded>>

Framing == {"framing", "asking", "clearing", "waiting", "unframing",
            "deciding"}
Busy(j) == jobs[j].pc \in Framing
Client(j) == clients[jobs[j].client]
Open == {t \in 1..Len(clients) : clients[t].open}
Up == console.at \notin {"quit", "crashed"}

Translators == [open : BOOLEAN, greeted : BOOLEAN, frame : BOOLEAN,
                awaiting : BOOLEAN, event : BOOLEAN, confirmed : BOOLEAN]
JobThreads  == [pc : Framing \cup {"engraving", "ended", "cancelled"},
                client : Nat, framed : BOOLEAN, got : BOOLEAN,
                last : {"none", "enter", "cancel"}]

(* Only an open connection, or one that could not be greeted, is active;   *)
(* the console looks at a translator, or holds the on/off it was given.    *)
TypeOK ==
  /\ clients \in Seq(Translators) /\ jobs \in Seq(JobThreads)
  /\ \A j \in 1..Len(jobs) : jobs[j].client \in 1..Len(clients)
  /\ active \in {None} \cup Open \cup {t \in 1..Len(clients) :
                                    ~clients[t].greeted}
  /\ console.at \in {"top", "prompt", "asking", "answering", "toggling",
                     "quit", "crashed"}
  /\ console.at \in {"asking", "answering"}
       => console.t \in 1..Len(clients)
  /\ console.at = "toggling" => console.t \in BOOLEAN
  /\ outline \in {"shown", "hidden", "unknown"} /\ crowded \in BOOLEAN

Init ==
  /\ clients = <<>> /\ active = None /\ jobs = <<>>
  /\ console = [at |-> "top", t |-> None]
  /\ outline = "hidden" /\ crowded = FALSE

-----------------------------------------------------------------------------
(* GRBLServer: a connection gets a translator with the default setting; if *)
(* the greeting cannot be sent it ends there, and stays the active one.    *)
Accept(greeted) ==
  /\ Up /\ Len(clients) < MaxClients
  /\ clients' = Append(clients,
                  [open |-> greeted, greeted |-> greeted, frame |-> FrameOn,
                   awaiting |-> FALSE, event |-> FALSE, confirmed |-> FALSE])
  /\ active' = Len(clients) + 1
  /\ UNCHANGED <<jobs, console, outline, crowded>>

Nobody  == active' = None                   \* whoever is the active one

(* Its framing setting is read no more.                                    *)
HangUp(t) ==
  /\ Up /\ t \in Open
  /\ clients' = [clients EXCEPT ![t] = [@ EXCEPT !.open = FALSE,
                                                 !.frame = FALSE]]
  /\ Nobody
  /\ UNCHANGED <<jobs, console, outline, crowded>>

(* M30 with a drawing: _finish_job() starts a thread, which frames first if *)
(* its translator says so.                                                 *)
StartJob(t) ==
  /\ Up /\ t \in Open /\ Len(jobs) < MaxJobs
  /\ LET frames == clients[t].frame IN
       /\ jobs' = Append(jobs,
                    [pc |-> IF frames THEN "framing" ELSE "engraving",
                     client |-> t, framed |-> frames, last |-> "none",
                     got |-> FALSE])
       /\ crowded' = /\ crowded \/ frames
                     /\ \E j \in DOMAIN jobs : Busy(j)
  /\ UNCHANGED <<clients, active, console, outline>>

-----------------------------------------------------------------------------
(* _run(): from framing to engraving.                                      *)
At(j, where) == Up /\ jobs[j].pc = where
Step(j, from, to) == At(j, from) /\ jobs' = [jobs EXCEPT ![j].pc = to]
End(j, from, to) ==
  /\ At(j, from)
  /\ jobs' = [jobs EXCEPT ![j] = [@ EXCEPT !.pc = to, !.got = FALSE,
                                           !.last = "none"]]
Set(t, field, v) == clients' = [clients EXCEPT ![t] = [@ EXCEPT ![field] = v]]
Others == UNCHANGED <<active, console>>
Quiet == UNCHANGED <<clients, outline, crowded>>

(* set_peripheral(FOCUS_LASER) and preview() or stop_preview(): nobody     *)
(* looks at whether they were sent, or whether the laser did it.           *)
Tell(what) == outline' \in {what, "unknown"}

Show(j) == /\ Step(j, "framing", "asking") /\ Tell("shown")
           /\ UNCHANGED <<clients, crowded>> /\ Others

OldAnswer(t) == UNCHANGED clients           \* variant: not reset
NoAnswer(t)  == Set(t, "confirmed", FALSE)

(* _frame_confirmed = False, then _frame_confirm_event.clear(); only then  *)
(* does the console ask.                                                   *)
Ask(j) ==
  /\ At(j, "asking") /\ NoAnswer(jobs[j].client)
  /\ jobs' = [jobs EXCEPT ![j].pc = "clearing", ![j].last = "none"]
  /\ UNCHANGED <<outline, crowded>> /\ Others
Clear(j) == /\ Step(j, "clearing", "waiting")
            /\ clients' = [clients EXCEPT
                 ![jobs[j].client] = [@ EXCEPT !.event = FALSE,
                                               !.awaiting = TRUE]]
            /\ UNCHANGED <<outline, crowded>> /\ Others

WaitsForEver == FALSE                     \* variant: no timeout
TimesOut     == TRUE

(* The event, or 120 seconds.                                              *)
Awake(j, got) ==
  /\ At(j, "waiting") /\ IF got THEN Client(j).event ELSE TimesOut
  /\ jobs' = [jobs EXCEPT ![j].pc = "unframing", ![j].got = got]
  /\ Set(jobs[j].client, "awaiting", FALSE)
  /\ UNCHANGED <<outline, crowded>> /\ Others

OnlyIfGot(j) == jobs[j].got               \* variant: a timeout cleans nothing
Always(j)    == TRUE
Hide(j) == /\ Step(j, "unframing", "deciding")
           /\ IF Always(j) THEN Tell("hidden") ELSE UNCHANGED outline
           /\ UNCHANGED <<clients, crowded>> /\ Others

Confirmed(j) == jobs[j].got /\ Client(j).confirmed

Engrave(j) == /\ Step(j, "deciding", "engraving") /\ Confirmed(j)
              /\ Quiet /\ Others
Cancel(j)  == /\ End(j, "deciding", "cancelled") /\ ~Confirmed(j)
              /\ Quiet /\ Others

(* engrave(), the wait for the job lock included (see EngraveJob).         *)
Done(j) == End(j, "engraving", "ended") /\ Quiet /\ Others

(* A number past the u16 field (D1Connection): struct.error out of a       *)
(* request about the outline, through the finally clause of _run().        *)
Raise(j) ==
  /\ \E from \in {"framing", "unframing"} : End(j, from, "ended")
  /\ outline' = "unknown" /\ UNCHANGED <<clients, crowded>> /\ Others

-----------------------------------------------------------------------------
(* run_console(): the prompt depends on what the translator says now, and  *)
(* stays there however long the user takes.                                *)
Goto(at, t) == console' = [at |-> at, t |-> t]

(* The process ends, and its threads with it.                              *)
Exit(how) ==
  /\ Goto(how, None) /\ clients' = <<>> /\ active' = None /\ jobs' = <<>>
  /\ crowded' = FALSE /\ UNCHANGED outline

(* quit, or the end of the input.                                          *)
Quit == console.at \in {"asking", "prompt"} /\ Exit("quit")

ConsoleOnly == UNCHANGED <<active, outline, crowded>>

Look ==
  /\ console.at = "top"
  /\ IF active # None /\ clients[active].awaiting
     THEN Goto("asking", active) ELSE Goto("prompt", None)
  /\ UNCHANGED <<clients, jobs>> /\ ConsoleOnly

(* frame_confirm(), frame_cancel(): the flag, then the event.              *)
Answer(what) ==
  /\ console.at = "asking"
  /\ Set(console.t, "confirmed", what = "enter")
  /\ jobs' = [j \in DOMAIN jobs |->
                IF jobs[j].client = console.t /\ Busy(j)
                  THEN [jobs[j] EXCEPT !.last = what] ELSE jobs[j]]
  /\ Goto("answering", console.t) /\ ConsoleOnly
Wake ==
  /\ console.at = "answering" /\ Set(console.t, "event", TRUE)
  /\ Goto("top", None) /\ UNCHANGED jobs /\ ConsoleOnly

(* Another word, or an empty line at the other prompt.                     *)
Mistype ==
  /\ console.at \in {"asking", "prompt"} /\ Goto("top", None)
  /\ UNCHANGED <<clients, jobs>> /\ ConsoleOnly

(* frame on/off: if there is an active translator (first look), its flag   *)
(* (second look); a later connection gets the default again.               *)
Toggle(on) ==
  /\ console.at = "prompt"
  /\ IF active # None THEN Goto("toggling", on) ELSE Goto("top", None)
  /\ UNCHANGED <<clients, jobs>> /\ ConsoleOnly
Toggled ==
  /\ console.at = "toggling"
  /\ IF active # None
       THEN /\ Set(active, "frame", console.t) /\ Goto("top", None)
            /\ UNCHANGED jobs /\ ConsoleOnly
       ELSE Exit("crashed")

JobStep(j) == \/ Show(j) \/ Ask(j) \/ Clear(j)
              \/ Awake(j, TRUE) \/ Awake(j, FALSE)
              \/ Hide(j) \/ Engrave(j) \/ Cancel(j) \/ Done(j) \/ Raise(j)
LightBurn == \/ \E greeted \in BOOLEAN : Accept(greeted)
             \/ \E t \in Open : HangUp(t) \/ StartJob(t)
Console == \/ Look \/ Answer("enter") \/ Answer("cancel") \/ Wake \/ Mistype
           \/ Toggle(TRUE) \/ Toggle(FALSE) \/ Toggled \/ Quit

Next == LightBurn \/ Console \/ \E j \in 1..Len(jobs) : JobStep(j)
Spec == Init /\ [][Next]_vars

(* The job threads run; waits for the user and for answers have a timeout, *)
(* sendall() has none: it returns when the laser reads.                    *)
InSendall(j) == jobs[j].pc \in {"framing", "unframing", "engraving"}
FairStep(j) == j \in DOMAIN jobs /\ ~InSendall(j) /\ JobStep(j)
SendStep(j) == j \in DOMAIN jobs /\ InSendall(j) /\ JobStep(j)
FairSpec == Spec /\ \A j \in 1..MaxJobs : WF_vars(FairStep(j))
LaserReads == \A j \in 1..MaxJobs : WF_vars(SendStep(j))

-----------------------------------------------------------------------------
(* "User confirms at console before engraving": a job that frames engraves *)
(* only if the last answer given to its connection since it began to ask   *)
(* was ENTER, however many jobs ask, and whatever answer comes late.       *)
FramedIsConfirmed ==
  \A j \in DOMAIN jobs :
    jobs[j].framed /\ jobs[j].pc = "engraving" => jobs[j].last = "enter"

(* While the user is asked the laser has not been told to hide the outline,*)
(* unless another job that frames put it out, and once no job frames what  *)
(* it was told last is not to show it, by a timeout or a cancel either.    *)
(* What could not be sent (the outline is "unknown") is left out of this.  *)
OutlineWhileAsked ==
  /\ \A j \in DOMAIN jobs :
       jobs[j].pc = "waiting" => crowded \/ outline # "hidden"
  /\ Up /\ (\A j \in DOMAIN jobs : ~Busy(j)) => outline # "shown"

(* Every job ends, answered or not, as long as the bridge runs, if the     *)
(* laser takes what is sent to it.                                         *)
JobsEnd ==
  LaserReads =>
    \A j \in 1..MaxJobs : j \in DOMAIN jobs
      ~> ~Up \/ (j \in DOMAIN jobs /\ jobs[j].pc \in {"ended", "cancelled"})
=============================================================================
