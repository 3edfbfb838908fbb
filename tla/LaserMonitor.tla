---------------------------- MODULE LaserMonitor ----------------------------
(***************************************************************************)
(* LaserMonitor of jcz_bridge/laser_monitor.py with the callbacks that     *)
(* JCZBridge gives it: the thread that watches for the laser's network     *)
(* interface, connects when it appears and disconnects when it is gone;    *)
(* beside it the reader thread that notices a lost connection, the read    *)
(* loop whose jobs reconnect by themselves, and the shutdown.              *)
(* A connection is reduced to one socket (D1Connection has the details).   *)
(***************************************************************************)
EXTENDS Naturals

CONSTANTS Tries,        \* attempts that fit in LASER_DHCP_SETTLE_SEC
          JobTries      \* attempts of ensure_connected()

ASSUME MonitorAssumption ==
  Tries \in Nat \ {0} /\ JobTries \in Nat \ {0}

VARIABLES
  laser,      \* external: interface gone; there, but no address yet;
              \* accepting connections but mute; ready
  online,     \* monitor.laser_online (rndis_iface and local_ip go with it)
  mpc,        \* where the monitor's thread is
  tries,      \* attempts it has left before the deadline
  connected,  \* laser.connected
  link,       \* the current socket: "none", "up", or "dead" unnoticed
  named,      \* laser.device_name is not empty
  jpc, jobTries,  \* the read loop's ensure_connected()
  jobDialled, \* history: a job has tried to connect by itself
  stop        \* 0, then 1 after monitor.stop(), 2 after the disconnect()

monitorVars == <<online, mpc, tries>>
objVars     == <<connected, link, named>>
jobVars     == <<jpc, jobTries, jobDialled>>
vars == <<laser, monitorVars, objVars, jobVars, stop>>

MonitorPCs == {"check", "dialing", "identifying", "pausing", "hangup",
               "waiting", "stopped"}

TypeOK ==
  /\ laser \in {"gone", "unreachable", "mute", "ready"}
  /\ online \in BOOLEAN /\ mpc \in MonitorPCs /\ tries \in 0..Tries
  /\ connected \in BOOLEAN /\ link \in {"none", "up", "dead"}
  /\ named \in BOOLEAN
  /\ jpc \in {"idle", "dialing", "identifying"} /\ jobTries \in 0..JobTries
  /\ jobDialled \in BOOLEAN
  /\ stop \in 0..2

Init ==
  /\ laser \in {"gone", "unreachable", "mute", "ready"}
  /\ online = FALSE /\ mpc = "check" /\ tries = 0
  /\ connected = FALSE /\ link = "none" /\ named = FALSE
  /\ jpc = "idle" /\ jobTries = 0 /\ jobDialled = FALSE /\ stop = 0

Present == laser # "gone"
Accepts == laser \in {"mute", "ready"}

(* D1Ultra.connect(), disconnect() and identify() as one step each.        *)
Connect ==
  /\ connected' = Accepts
  /\ link' = IF Accepts THEN "up" ELSE "none"
  /\ UNCHANGED named

Disconnect == connected' = FALSE /\ link' = "none" /\ UNCHANGED named

(* identify() is true if the object has a name, be it of an earlier answer.*)
Answered == connected /\ link = "up" /\ laser = "ready"
Identified == named' = (named \/ Answered)

-----------------------------------------------------------------------------
(* _monitor_loop()                                                         *)

(* `ip addr` may fail or take too long, which counts as no interface.      *)
Seen == {Present, FALSE}

CheckUp ==
  /\ mpc = "check" /\ TRUE \in Seen /\ ~online
  /\ online' = TRUE /\ mpc' = "dialing" /\ tries' = Tries
  /\ UNCHANGED <<laser, objVars, jobVars, stop>>

CheckDown ==
  /\ mpc = "check" /\ FALSE \in Seen /\ online
  /\ online' = FALSE /\ mpc' = "hangup"
  /\ UNCHANGED <<laser, tries, objVars, jobVars, stop>>

CheckSame ==
  /\ mpc = "check" /\ online \in Seen
  /\ mpc' = "waiting"
  /\ UNCHANGED <<laser, online, tries, objVars, jobVars, stop>>

LeaveOpen == UNCHANGED objVars    \* variant: the callback is lost
CallDown  == Disconnect

(* _on_laser_down()                                                        *)
Hangup ==
  /\ mpc = "hangup" /\ mpc' = "waiting"
  /\ CallDown
  /\ UNCHANGED <<laser, online, tries, jobVars, stop>>

(* _on_laser_up(): dial until the laser answers or the time is over.       *)
Dial ==
  /\ mpc = "dialing" /\ tries > 0
  /\ Connect
  /\ mpc' = IF Accepts THEN "identifying" ELSE "pausing"
  /\ UNCHANGED <<laser, online, tries, jobVars, stop>>

GiveUp ==
  /\ mpc = "dialing" /\ tries = 0
  /\ mpc' = "waiting"
  /\ UNCHANGED <<laser, online, tries, objVars, jobVars, stop>>

Identify ==
  /\ mpc = "identifying" /\ Identified
  /\ named' /\ mpc' = "waiting"
  /\ UNCHANGED <<laser, online, tries, connected, link, jobVars, stop>>

KeepSilent == UNCHANGED objVars   \* variant: no disconnect()
DropSilent == Disconnect

NotIdentified ==
  /\ mpc = "identifying" /\ ~named /\ ~Answered
  /\ mpc' = "pausing" /\ DropSilent
  /\ UNCHANGED <<laser, online, tries, jobVars, stop>>

NoRetry == tries' = 0             \* variant: one attempt only
Retry   == tries' = tries - 1

Pause ==
  /\ mpc = "pausing" /\ mpc' = "dialing" /\ Retry
  /\ UNCHANGED <<laser, online, objVars, jobVars, stop>>

Wait ==
  /\ mpc = "waiting"
  /\ mpc' = IF stop > 0 THEN "stopped" ELSE "check"
  /\ UNCHANGED <<laser, online, tries, objVars, jobVars, stop>>

MonitorStep ==
  \/ CheckUp \/ CheckDown \/ CheckSame \/ Hangup \/ Dial \/ GiveUp
  \/ Identify \/ NotIdentified \/ Pause \/ Wait

-----------------------------------------------------------------------------
(* ensure_connected() of a job that finds the laser not connected.         *)
JobStart ==
  /\ jpc = "idle" /\ ~connected /\ stop = 0
  /\ jpc' = "dialing" /\ jobTries' = JobTries
  /\ jobDialled' = TRUE
  /\ UNCHANGED <<laser, monitorVars, objVars, stop>>

LastTry    == jobTries = 1

JobDial ==
  /\ jpc = "dialing"
  /\ Connect
  /\ jpc' = IF Accepts THEN "identifying"
            ELSE IF LastTry THEN "idle" ELSE "dialing"
  /\ jobTries' = IF Accepts THEN jobTries ELSE jobTries - 1
  /\ UNCHANGED <<laser, monitorVars, jobDialled, stop>>

(* Without a name it dials again, and in the end stays connected.          *)
JobIdentify ==
  /\ jpc = "identifying" /\ Identified
  /\ jobTries' = IF named' THEN 0 ELSE jobTries - 1
  /\ jpc' = IF jobTries' = 0 THEN "idle" ELSE "dialing"
  /\ UNCHANGED <<laser, monitorVars, connected, link, jobDialled, stop>>

JobStep == JobStart \/ JobDial \/ JobIdentify

(* The reader thread sees the end of the connection.                       *)
NoticeLoss ==
  /\ connected /\ link = "dead" /\ connected' = FALSE
  /\ UNCHANGED <<laser, monitorVars, link, named, jobVars, stop>>

(* _shutdown(): monitor.stop(), then laser.disconnect().                   *)
StopMonitor ==
  /\ stop = 0 /\ jpc = "idle" /\ stop' = 1
  /\ UNCHANGED <<laser, monitorVars, objVars, jobVars>>

ShutDown ==
  /\ stop = 1 /\ stop' = 2 /\ Disconnect
  /\ UNCHANGED <<laser, monitorVars, jobVars>>

(* External: power, cable, DHCP and firmware of the laser.  Its side of a  *)
(* connection does not survive being unreachable.                          *)
LaserChanges ==
  /\ laser' \in {"gone", "unreachable", "mute", "ready"} \ {laser}
  /\ link' = IF link = "up" /\ laser' \in {"gone", "unreachable"}
             THEN "dead" ELSE link
  /\ UNCHANGED <<monitorVars, connected, named, jobVars, stop>>

Next == MonitorStep \/ JobStep \/ NoticeLoss \/ StopMonitor \/ ShutDown
        \/ LaserChanges

Spec == Init /\ [][Next]_vars

(* The monitor's thread keeps running: connect() times out, and the few    *)
(* small requests of identify() are taken to fit the send buffer of the    *)
(* connection just made.  Nothing is assumed of the laser's answers, of the*)
(* jobs, or of when the reader notices.                                    *)
FairSpec == Spec /\ WF_vars(MonitorStep)

-----------------------------------------------------------------------------
(* An object connected by the monitor is one the monitor takes for online, *)
(* so that the disappearance of the interface will be acted on.            *)
ConnectedIsWatched == connected => jobDialled \/ online \/ mpc = "hangup"

(* A laser that accepts connections but never told its name is not left    *)
(* connected when on_laser_up() is through with it.                        *)
SilentIsDropped ==
  connected /\ mpc # "identifying" => jobDialled \/ named

(* When the interface has gone for good the object ends up disconnected,   *)
(* even if the reader thread, blocked on a dead connection, never notices  *)
(* and however late in the callback the monitor is: unless a job connected *)
(* without the monitor, or the bridge is shut down.                        *)
GoneIsNoticed ==
  <>[](laser = "gone") => <>[](~connected \/ jobDialled \/ stop > 0)

(* A laser that is ready from some moment before the last attempt on is    *)
(* connected and has told its name when on_laser_up() ends.                *)
Trying ==
  \/ mpc = "dialing" /\ tries > 0
  \/ mpc = "pausing" /\ tries > 1

ReadyIsReached ==
  Trying /\ [](laser = "ready" /\ stop = 0)
    ~> mpc = "waiting" /\ connected /\ named
=============================================================================
