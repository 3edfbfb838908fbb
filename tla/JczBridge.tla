------------------------------ MODULE JczBridge ------------------------------
(***************************************************************************)
(* jcz_bridge.py, JCZBridge: the main thread that opens the FunctionFS     *)
(* endpoints, cuts what it reads into commands, answers the single ones,   *)
(* engraves at the end of a job and reopens everything when LightBurn goes *)
(* away; the ep0 thread; and SIGTERM, which raises SystemExit wherever the *)
(* main thread is.  A command is two halves, because a read may end in the *)
(* middle of one.  The kernel's side of FunctionFS is external: a read or  *)
(* write that meets a disabled endpoint fails, or waits until the host is  *)
(* back.                                                                   *)
(***************************************************************************)
EXTENDS Naturals, Sequences

CONSTANTS MaxSent,    \* bound: commands LightBurn sends
          MaxFaults   \* bound: disconnections, failing opens and writes

ASSUME BridgeAssumption == MaxSent \in Nat /\ MaxFaults \in Nat

VARIABLES
  pc,        \* where the main thread is
  running,   \* self._running
  fds,       \* endpoint files that are open
  ep0Open,   \* self._ep0_fd >= 0
  ep0,       \* the ep0 thread
  bound,     \* the gadget is bound to the UDC
  buf,       \* halves of commands read and not yet handled
  answer,    \* the single command whose reply is being written, or 0
  attached,  \* host: LightBurn has the device open
  cut,       \* kernel: the read under way was aborted
  pipe,      \* halves on their way to the bridge
  sent,      \* history: commands sent: kind, and the connection
  replies,   \* history: commands whose replies this connection was given
  visit,     \* history: which connection of LightBurn this is
  faults,    \* bounded faults so far
  stale,     \* history: LightBurn left while commands of its were in hand
  garbled    \* history: halves of two commands were taken for one

gadget == <<ep0Open, bound>>
usb == <<attached, cut, pipe, sent, visit, stale>>
vars == <<pc, running, fds, ep0, buf, answer, replies, faults, garbled,
          gadget, usb>>

Before == {"start", "bound", "monitored"}
Reading == {"reading", "parsing", "replying", "engraving"}
Shutdown == {"stopping", "unbinding", "closing"}
Gone == {"stopped", "killed"}
Kinds == {"single", "list", "end"}
OfThisVisit(n) == sent[n].visit = visit

TypeOK ==
  /\ pc \in Before \cup Reading \cup Shutdown \cup Gone
              \cup {"loop", "half", "waiting", "ended"}
  /\ pc \in Reading \cup {"ended"} => fds = {"out", "in"}
  /\ pc \notin Reading \cup {"ended", "half", "waiting", "stopping"}
       => fds = {}
  /\ pc \in Before \cup Gone => ~running
  /\ ep0Open = (pc \notin {"start"} \cup Gone)
  /\ ep0 \in {"none", "testing", "polling", "stopped"}
  /\ \A i \in 1..Len(buf) : buf[i].cmd \in 1..Len(sent)
  /\ answer \in 0..Len(sent) /\ (answer # 0) = (pc = "replying")

Init ==
  /\ pc = "start" /\ running = FALSE /\ fds = {} /\ ep0Open = FALSE
  /\ ep0 = "none" /\ bound = FALSE /\ buf = <<>>
  /\ answer = 0 /\ attached = FALSE /\ cut = FALSE /\ pipe = <<>>
  /\ sent = <<>> /\ replies = <<>> /\ visit = 0
  /\ faults = 0 /\ stale = FALSE /\ garbled = FALSE

Goto(from, to) == pc = from /\ pc' = to
Fault == faults < MaxFaults /\ faults' = faults + 1
Keep == UNCHANGED <<gadget, usb>>
KeepThreads == UNCHANGED <<running, ep0, gadget, usb>>

-----------------------------------------------------------------------------
(* run(): descriptors, UDC, ep0 thread; the monitor (see LaserMonitor);    *)
(* only then _running.                                                     *)
SetupGadget ==
  /\ Goto("start", "bound") /\ ep0Open' = TRUE /\ bound' = TRUE
  /\ ep0' = "testing"
  /\ UNCHANGED <<running, fds, buf, answer, replies, faults, garbled, usb>>

StartMonitor ==
  /\ Goto("bound", "monitored")
  /\ UNCHANGED <<fds, buf, answer, replies, faults, garbled>>
  /\ KeepThreads

Enter == /\ Goto("monitored", "loop") /\ running' = TRUE
         /\ UNCHANGED <<fds, ep0, buf, answer, replies, faults, garbled>>
         /\ Keep

OpenOut == /\ Goto("loop", "half") /\ fds' = {"out"}
           /\ UNCHANGED <<buf, answer, replies, faults, garbled>>
           /\ KeepThreads

KeptBuffer == buf                   \* variant: one buffer for all connections
NewBuffer  == <<>>

OpenIn == /\ Goto("half", "reading") /\ fds' = fds \cup {"in"}
          /\ buf' = NewBuffer /\ cut' = FALSE
          /\ UNCHANGED <<running, ep0, gadget, attached, pipe, sent, visit,
                         stale>>
          /\ UNCHANGED <<answer, replies, faults, garbled>>

(* OSError from the first or the second: try again after two seconds.      *)
OpenFails == /\ pc \in {"loop", "half"} /\ pc' = "waiting" /\ Fault
             /\ UNCHANGED <<fds, buf, answer, replies, garbled>> /\ KeepThreads

(* _close_endpoints(), here and at the top of the loop.                    *)
CloseOutOnly == {"in"} \cap fds       \* variant
CloseAll     == {}

Reopen == /\ pc \in {"waiting", "ended"} /\ pc' = "loop" /\ fds' = CloseAll
          /\ UNCHANGED <<buf, answer, replies, faults, garbled>>
          /\ KeepThreads

-----------------------------------------------------------------------------
(* _read_loop(): a read returns some of what is there.                     *)
Read(n) ==
  /\ Goto("reading", "parsing") /\ ~cut /\ attached
  /\ buf' = buf \o SubSeq(pipe, 1, n)
  /\ pipe' = SubSeq(pipe, n + 1, Len(pipe))
  /\ UNCHANGED <<running, ep0, gadget, attached, cut, sent, visit, stale,
                 fds, answer, replies, faults, garbled>>

ReadEnds == /\ Goto("reading", "ended") /\ (cut \/ ~attached)
            /\ UNCHANGED <<fds, buf, answer, replies, faults, garbled>>
            /\ KeepThreads

NeedsMore  == Len(buf) < 3          \* variant: > for >=
NeedsWhole == Len(buf) < 2

ReadMore == /\ Goto("parsing", "reading") /\ NeedsWhole
            /\ UNCHANGED <<fds, buf, answer, replies, faults, garbled>>
            /\ KeepThreads

Whole == buf[1].cmd = buf[2].cmd /\ buf[1].half = 1 /\ buf[2].half = 2

Then == [single |-> "replying", list |-> "parsing", end |-> "engraving"]

(* _handle_command(): what two halves of different commands amount to is   *)
(* anybody's guess.                                                        *)
Handle(kind) ==
  /\ pc = "parsing" /\ ~NeedsWhole
  /\ Whole => kind = sent[buf[1].cmd].kind
  /\ garbled' = (garbled \/ ~Whole) /\ buf' = SubSeq(buf, 3, Len(buf))
  /\ pc' = Then[kind]
  /\ answer' = IF kind = "single" THEN buf[1].cmd ELSE 0
  /\ UNCHANGED <<fds, replies, faults>> /\ KeepThreads

(* The job is sent to the laser by this very thread; it raises or not.     *)
Engraved == /\ Goto("engraving", "parsing")
            /\ UNCHANGED <<fds, buf, answer, replies, faults, garbled>>
            /\ KeepThreads

Reply ==
  /\ Goto("replying", "parsing") /\ attached
  /\ replies' = Append(replies, answer) /\ answer' = 0
  /\ UNCHANGED <<fds, buf, faults, garbled>> /\ KeepThreads

ReplyLost ==
  /\ Goto("replying", "parsing") /\ Fault /\ answer' = 0
  /\ UNCHANGED <<fds, buf, replies, garbled>> /\ KeepThreads

-----------------------------------------------------------------------------
(* The process ends and the kernel closes its files; the gadget is left as *)
(* it is.                                                                  *)
Die == /\ pc' = "killed" /\ running' = FALSE /\ fds' = {}
       /\ ep0Open' = FALSE /\ ep0' = "stopped" /\ UNCHANGED bound

(* SIGTERM, SystemExit wherever the main thread is: before the try there is*)
(* nobody to clean up, and nobody any more once _shutdown() has begun.     *)
Terminate ==
  /\ pc \notin Gone /\ answer' = 0
  /\ IF pc \in Before \cup Shutdown
       THEN Die
       ELSE pc' = "stopping" /\ UNCHANGED <<running, fds, ep0, gadget>>
  /\ UNCHANGED <<buf, replies, faults, garbled, usb>>

(* _shutdown(): the endpoints, the gadget (an OSError leaves it bound), and*)
(* ep0 last.  What it does to the monitor is LaserMonitor's.               *)
Stop == /\ Goto("stopping", "unbinding")
        /\ running' = FALSE /\ fds' = CloseAll
        /\ UNCHANGED <<ep0, buf, answer, replies, faults, garbled>> /\ Keep

UnbindUdc == /\ Goto("unbinding", "closing") /\ bound' \in {bound, FALSE}
             /\ UNCHANGED <<running, fds, ep0, buf, answer, replies,
                            faults, garbled, ep0Open, usb>>

CloseEp0 == /\ Goto("closing", "stopped") /\ ep0Open' = FALSE
            /\ UNCHANGED <<running, fds, ep0, buf, answer, replies,
                           faults, garbled, bound, usb>>

(* _ep0_loop(): the condition, then up to a second in poll(), which an     *)
(* exception that is no OSError ends for good.                             *)
KeepMain == UNCHANGED <<pc, running, fds, buf, answer, replies, faults,
                        garbled, gadget, usb>>
Serves == running /\ ep0Open

Ep0Test == /\ ep0 = "testing" /\ KeepMain
           /\ ep0' = IF Serves THEN "polling" ELSE "stopped"
Ep0Poll == ep0 = "polling" /\ ep0' \in {"testing", "stopped"} /\ KeepMain

-----------------------------------------------------------------------------
(* LightBurn, and the kernel between it and the bridge.                    *)
KeepBridge == UNCHANGED <<pc, running, fds, ep0, buf, answer, garbled,
                          gadget>>

Attach == /\ bound /\ ~attached /\ visit <= MaxFaults
          /\ attached' = TRUE /\ visit' = visit + 1 /\ replies' = <<>>
          /\ UNCHANGED <<cut, pipe, sent, stale, faults>> /\ KeepBridge

SendCommand(kind) ==
  /\ attached /\ Len(sent) < MaxSent
  /\ sent' = Append(sent, [kind |-> kind, visit |-> visit])
  /\ pipe' = pipe \o <<[cmd |-> Len(sent) + 1, half |-> 1],
                       [cmd |-> Len(sent) + 1, half |-> 2]>>
  /\ UNCHANGED <<attached, cut, visit, stale, replies, faults>>
  /\ KeepBridge

(* A pending read is aborted; one that is not pending notices nothing.     *)
Detach ==
  /\ attached /\ Fault
  /\ attached' = FALSE /\ pipe' = <<>> /\ cut' = (cut \/ pc = "reading")
  /\ stale' = (stale \/ pc \in Reading \ {"reading"})
  /\ UNCHANGED <<sent, visit, replies>> /\ KeepBridge

BridgeStep == \/ SetupGadget \/ StartMonitor \/ Enter \/ OpenOut \/ OpenIn
              \/ OpenFails \/ Reopen \/ \E n \in 1..Len(pipe) : Read(n)
              \/ ReadEnds \/ ReadMore \/ \E kind \in Kinds : Handle(kind)
              \/ Engraved \/ Reply \/ ReplyLost \/ Stop \/ UnbindUdc
              \/ CloseEp0
Ep0Step == Ep0Test \/ Ep0Poll
Host == Attach \/ Detach \/ \E kind \in Kinds : SendCommand(kind)

Next == BridgeStep \/ Ep0Step \/ Terminate \/ Host
Spec == Init /\ [][Next]_vars

(* Both threads run; poll() times out, and engrave() is taken to return,   *)
(* which takes a laser that reads (EngraveJob).                            *)
FairSpec == Spec /\ WF_vars(BridgeStep) /\ WF_vars(Ep0Step)

-----------------------------------------------------------------------------
(* Every reply LightBurn is given answers a single command of its own      *)
(* connection, in the order of the commands, none twice, whatever was cut  *)
(* off before it, unless it left while commands of its were in hand.       *)
RepliesInOrder ==
  stale \/ /\ \A i \in 1..Len(replies) : /\ OfThisVisit(replies[i])
                                         /\ sent[replies[i]].kind = "single"
           /\ \A i, j \in 1..Len(replies) : i < j => replies[i] < replies[j]

(* Twelve bytes taken for a command are one command, however the reads cut *)
(* the stream and wherever LightBurn left, with the same exception.        *)
CommandsAreWhole == garbled => stale

(* _setup_gadget(): "Start ep0 event handler - MUST run to handle USB      *)
(* control requests": as long as the bridge runs with its gadget bound.    *)
Ep0IsServed == running /\ bound => ep0 # "stopped"

(* A single command is answered while LightBurn stays and nothing fails    *)
(* any more, once engrave(), which keeps the thread, returns.              *)
OnItsWay(n) == /\ sent[n].kind = "single"
               /\ \E i \in 1..Len(pipe) : pipe[i].cmd = n
Answered(n) == \E i \in 1..Len(replies) : replies[i] = n
SinglesAnswered ==
  \A n \in 1..MaxSent :
    (n <= Len(sent) /\ OnItsWay(n) /\ faults = MaxFaults)
      ~> (Answered(n) \/ stale \/ pc \in Gone)
=============================================================================
