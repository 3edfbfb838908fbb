---------------------------- MODULE D1Connection ----------------------------
(***************************************************************************)
(* The connection layer of jcz_bridge/d1ultra_protocol.py, class D1Ultra:  *)
(* connect() and disconnect(), the request/answer matching of _send_recv() *)
(* and _dispatch() through the _pending table, the reader thread and the   *)
(* heartbeat thread that every successful connect() starts, the receive    *)
(* path's acknowledgement of the laser's own queries.                      *)
(*                                                                         *)
(* Threads share the object without a lock.  Under CPython a thread is     *)
(* switched at calls and blocking system calls, so a step below runs from  *)
(* one such point to the next.  Packets are whole (see PacketStream for    *)
(* the framing); their payload is left out.                                *)
(***************************************************************************)
EXTENDS Integers, FiniteSets

CONSTANTS Clients,      \* threads that call into the object: the bridge's
                        \* read loop, the laser monitor, a console, ...
          MaxConn,      \* bound: sockets opened in a behaviour
          Heartbeats,   \* bound: connections whose heartbeat is modelled
          MaxSeq,       \* the largest number the u16 sequence field holds
          Cmds,         \* command classes ...
          Queries,      \* ... of which these are QUERY_13/14/15
          LaserSeqs,    \* numbers the laser gives to its own queries
          Status,       \* the command of the heartbeat
          None          \* Python's None

ASSUME ConnectionAssumption ==
  /\ MaxConn \in Nat \ {0} /\ MaxSeq \in Nat \ {0}
  /\ Heartbeats \subseteq 1..MaxConn
  /\ Queries \subseteq Cmds /\ Status \in Cmds \ Queries
  /\ LaserSeqs \subseteq 1..MaxSeq
  /\ Clients \cap Int = {}
  /\ None \notin Clients \cup Int

Socks      == 1..MaxConn     \* every connect() opens a new socket k
Readers    == Socks          \* and starts reader k and heartbeat k
Threads    == Clients \cup Heartbeats
Seqs       == 1..MaxSeq

Laser   == -1                \* "epoch" of the packets the laser numbers
(* A packet is known by the reset of the builder it was built after (0, or *)
(* the socket of the connect() that reset it) and by its number.           *)
Requests == [epoch : 0..MaxConn, seq : Seqs, cmd : Cmds]
LaserQueries == [epoch : {Laser}, seq : LaserSeqs, cmd : Queries]
Packets  == Requests \cup LaserQueries
Entries  == [owner : Threads, answer : Packets \cup {None}]

ASSUME NoneAssumption == None \notin Packets \cup Entries

VARIABLES
  connected,  \* self.connected
  sock,       \* self.sock: a socket, or 0 for None
  opened,     \* number of sockets created so far
  link,       \* the TCP state of every socket
  closed,     \* sockets on which close() was called
  asked,      \* requests the laser has received on a socket, unanswered
  acks,       \* <<socket, cmd, seq>> of the acknowledgements sent
  seqNo,      \* self.builder._seq
  epoch,      \* which connect() last reset the builder
  pending,    \* self._pending: number -> (event's owner, answer)
  acked,      \* self._acked_unsolicited
  pc, pkt, signalled, result,   \* of a thread: where it is, the packet it
                                \* sends, its event, what the call returned
  mySock,     \* the socket a client's connect() opened
  rpc, rsock, chunk,  \* of a reader: where it is, the socket it blocks on,
                      \* the packet it has just received
  overlap     \* history: a reset met unfinished business, or a socket
              \* on which something had been acknowledged

objVars    == <<connected, sock, seqNo, epoch, pending, acked>>
netVars    == <<opened, link, closed, asked, acks>>
threadVars == <<pc, pkt, signalled, result, mySock>>
readerVars == <<rpc, rsock, chunk>>
vars == <<objVars, netVars, threadVars, readerVars, overlap>>

ClientPCs == {"idle", "connecting", "resetting", "closing"}
CallPCs   == {"built", "registered", "waiting", "expired"}
BeatPCs   == {"off", "looping", "sleeping"}
Receiving == {"blocked", "limited"}   \* in recv(), the latter with a timeout
ReaderPCs == Receiving \cup
             {"off", "test", "call", "got", "ack", "wake", "done", "dead"}

ObjectType ==
  /\ sock \in 0..opened
  /\ seqNo \in 0..MaxSeq /\ epoch \in 0..MaxConn
  /\ pending \in [Seqs -> Entries \cup {None}]
  /\ acked \subseteq Queries \X Seqs

NetworkType ==
  /\ opened \in 0..MaxConn
  /\ link \in [Socks -> {"unused", "new", "up", "down"}]
  /\ closed \subseteq Socks
  /\ asked \in [Socks -> SUBSET Requests]
  /\ acks \subseteq Socks \X Queries \X Seqs

ThreadType ==
  /\ pc \in [Threads -> ClientPCs \cup CallPCs \cup BeatPCs]
  /\ pkt \in [Threads -> Requests \cup {None}]
  /\ signalled \in [Threads -> BOOLEAN]
  /\ result \in [Threads -> Packets \cup {None}]
  /\ mySock \in [Clients -> 0..MaxConn]
  /\ \A t \in Threads : pc[t] \in CallPCs => pkt[t] \in Requests
  /\ \A c \in Clients : pc[c] \in {"connecting", "resetting"}
                         => mySock[c] \in 1..opened

ReaderType ==
  /\ rpc \in [Readers -> ReaderPCs]
  /\ rsock \in [Readers -> 0..MaxConn]
  /\ chunk \in [Readers -> Packets \cup {None}]
  /\ \A k \in Readers : /\ rpc[k] \in Receiving => rsock[k] \in Socks
                        /\ rpc[k] \in {"got", "ack"} => chunk[k] \in Packets
                        /\ rpc[k] = "ack" => chunk[k].cmd \in Queries

FlagType == connected \in BOOLEAN /\ overlap \in BOOLEAN

TypeOK == ObjectType /\ NetworkType /\ ThreadType /\ ReaderType /\ FlagType

InFlight(t)    == pc[t] \in CallPCs
ReaderAlive(k) == rpc[k] \notin {"off", "done", "dead"}
(* A send on the current socket succeeds, or may succeed into nothing.     *)
CanSend  == sock # 0 /\ sock \notin closed /\ link[sock] \in {"up", "down"}
MayFail  == ~(sock # 0 /\ sock \notin closed /\ link[sock] = "up")

Init ==
  /\ connected = FALSE /\ sock = 0 /\ opened = 0
  /\ link = [s \in Socks |-> "unused"] /\ closed = {}
  /\ asked = [s \in Socks |-> {}] /\ acks = {}
  /\ seqNo = 0 /\ epoch = 0 /\ acked = {}
  /\ pending = [s \in Seqs |-> None]
  /\ pc = [t \in Threads |-> IF t \in Clients THEN "idle" ELSE "off"]
  /\ pkt = [t \in Threads |-> None]
  /\ signalled = [t \in Threads |-> FALSE]
  /\ result = [t \in Threads |-> None]
  /\ mySock = [c \in Clients |-> 0]
  /\ rpc = [k \in Readers |-> "off"] /\ rsock = [k \in Readers |-> 0]
  /\ chunk = [k \in Readers |-> None]
  /\ overlap = FALSE

-----------------------------------------------------------------------------
(* connect() and disconnect().                                             *)

(* Close the previous socket, create a new one and start connecting it.    *)
ConnectOpen(c) ==
  /\ pc[c] = "idle" /\ opened < MaxConn
  /\ opened' = opened + 1
  /\ sock' = opened + 1
  /\ closed' = IF sock = 0 THEN closed ELSE closed \cup {sock}
  /\ link' = [link EXCEPT ![opened + 1] = "new"]
  /\ mySock' = [mySock EXCEPT ![c] = opened + 1]
  /\ pc' = [pc EXCEPT ![c] = "connecting"]
  /\ UNCHANGED <<connected, seqNo, epoch, pending, acked, asked, acks, pkt,
                 signalled, result, readerVars, overlap>>

ConnectReturn(c) ==
  /\ pc' = [pc EXCEPT ![c] = "idle"]
  /\ mySock' = [mySock EXCEPT ![c] = 0]

(* The laser accepts, and no other thread has closed the socket meanwhile. *)
(* settimeout(None) raises if another thread has set self.sock to None;    *)
(* otherwise the object calls itself connected before it has cleared       *)
(* anything.                                                               *)
ConnectEstablished(c) ==
  /\ pc[c] = "connecting" /\ mySock[c] \notin closed
  /\ link' = [link EXCEPT ![mySock[c]] = "up"]
  /\ IF sock # 0
     THEN /\ connected' = TRUE
          /\ pc' = [pc EXCEPT ![c] = "resetting"] /\ UNCHANGED mySock
     ELSE connected' = FALSE /\ ConnectReturn(c)
  /\ UNCHANGED <<sock, seqNo, epoch, pending, acked, opened, closed, asked,
                 acks, pkt, signalled, result, readerVars, overlap>>

(* Refused, unreachable, closed, or not accepted within 5 seconds.         *)
ConnectFail(c) ==
  /\ pc[c] = "connecting"
  /\ link' = [link EXCEPT ![mySock[c]] = "down"]
  /\ connected' = FALSE
  /\ ConnectReturn(c)
  /\ UNCHANGED <<sock, seqNo, epoch, pending, acked, opened, closed, asked,
                 acks, pkt, signalled, result, readerVars, overlap>>

(* Clear the tables, restart the numbering and start the two threads; what *)
(* other threads do between these calls they may as well do before or      *)
(* after them all.                                                         *)
ConnectReset(c) ==
  /\ pc[c] = "resetting"
  /\ pending' = [s \in Seqs |-> None] /\ acked' = {}
  /\ seqNo' = 0 /\ epoch' = mySock[c]
  /\ rpc' = [rpc EXCEPT ![mySock[c]] = "test"]
  /\ pc' = [t \in Threads |-> IF t = c THEN "idle"
                             ELSE IF t = mySock[c] THEN "looping"
                             ELSE pc[t]]
  /\ mySock' = [mySock EXCEPT ![c] = 0]
  /\ overlap' = \/ overlap
                \/ \E t \in Threads : InFlight(t)
                \/ \E k \in Readers : ReaderAlive(k)
                \/ sock # 0 /\ asked[sock] # {}
                \/ \E a \in acks : a[1] = sock
  /\ UNCHANGED <<connected, sock, netVars, pkt, signalled, result, rsock,
                 chunk>>

Disconnect(c) ==
  /\ pc[c] = "idle"
  /\ connected' = FALSE
  /\ closed' = IF sock = 0 THEN closed ELSE closed \cup {sock}
  /\ pc' = [pc EXCEPT ![c] = IF sock = 0 THEN "idle" ELSE "closing"]
  /\ UNCHANGED <<sock, seqNo, epoch, pending, acked, opened, link, asked,
                 acks, pkt, signalled, result, mySock, readerVars, overlap>>

DisconnectForget(c) ==
  /\ pc[c] = "closing"
  /\ sock' = 0
  /\ pc' = [pc EXCEPT ![c] = "idle"]
  /\ UNCHANGED <<connected, seqNo, epoch, pending, acked, netVars, pkt,
                 signalled, result, mySock, readerVars, overlap>>

-----------------------------------------------------------------------------
(* _send_recv(): build, register, transmit, wait, withdraw.                *)

FitsOffByOne == seqNo <= MaxSeq   \* variant: the limit is off by one
Fits         == seqNo < MaxSeq    \* the number packs into its field

(* The packet is numbered by the caller, before _send_recv looks at the    *)
(* connection.                                                             *)
Build(t, cmd) ==
  /\ Fits
  /\ seqNo' = seqNo + 1
  /\ pkt' = [pkt EXCEPT ![t] = [epoch |-> epoch, seq |-> seqNo + 1,
                                cmd |-> cmd]]
  /\ result' = [result EXCEPT ![t] = None]
  /\ pc' = [pc EXCEPT ![t] = "built"]
  /\ UNCHANGED <<connected, sock, epoch, pending, acked, netVars, signalled,
                 mySock, readerVars, overlap>>

Request(c, cmd) == pc[c] = "idle" /\ Build(c, cmd)

(* Back to the caller.  The heartbeat throws its answer away.              *)
GiveBack(t, answer) ==
  /\ pc' = [pc EXCEPT ![t] = IF t \in Clients THEN "idle" ELSE "looping"]
  /\ signalled' = [signalled EXCEPT ![t] = FALSE]
  /\ result' = [result EXCEPT ![t] = IF t \in Clients THEN answer ELSE None]
  /\ pkt' = [pkt EXCEPT ![t] = IF result'[t] = None THEN None ELSE @]

(* Variant: the entry is read and left in the table.                       *)
ReturnWithoutPop(t, answer) == UNCHANGED pending /\ GiveBack(t, answer)

(* Return from _send_recv, having dropped whatever is registered under the *)
(* packet's number.                                                        *)
Return(t, answer) ==
  /\ pending' = [pending EXCEPT ![pkt[t].seq] = None]
  /\ GiveBack(t, answer)

NotConnected(t) ==
  /\ pc[t] = "built"
  /\ ~connected \/ sock = 0
  /\ GiveBack(t, None)
  /\ UNCHANGED <<objVars, netVars, mySock, readerVars, overlap>>

Register(t) ==
  /\ pc[t] = "built"
  /\ connected /\ sock # 0
  /\ pending' = [pending EXCEPT ![pkt[t].seq] =
                   [owner |-> t, answer |-> None]]
  /\ pc' = [pc EXCEPT ![t] = "registered"]
  /\ UNCHANGED <<connected, sock, seqNo, epoch, acked, netVars, pkt,
                 signalled, result, mySock, readerVars, overlap>>

(* sendall() on whatever self.sock is by now.  It has no timeout, and may  *)
(* be waiting for _send_lock or for a laser that does not read: a thread   *)
(* may be "registered" for ever (see Fairness).                            *)
Transmit(t) ==
  /\ pc[t] = "registered" /\ CanSend
  /\ asked' = IF link[sock] = "up"
              THEN [asked EXCEPT ![sock] = @ \cup {pkt[t]}] ELSE asked
  /\ pc' = [pc EXCEPT ![t] = "waiting"]
  /\ UNCHANGED <<objVars, opened, link, closed, acks, pkt, signalled, result,
                 mySock, readerVars, overlap>>

SendError(t) ==
  /\ pc[t] = "registered" /\ MayFail
  /\ Return(t, None)
  /\ connected' = FALSE
  /\ UNCHANGED <<sock, seqNo, epoch, acked, netVars, mySock, readerVars,
                 overlap>>

Collect(t) ==
  /\ pc[t] = "waiting" /\ signalled[t]
  /\ LET e == pending[pkt[t].seq]
     IN  Return(t, IF e = None THEN None ELSE e.answer)
  /\ UNCHANGED <<connected, sock, seqNo, epoch, acked, netVars, mySock,
                 readerVars, overlap>>

(* Variant: evt.wait() without a timeout.                                  *)
NeverExpire(t) == FALSE /\ UNCHANGED vars

(* evt.wait() runs out; an answer that comes before the pop is dropped.    *)
Expire(t) ==
  /\ pc[t] = "waiting" /\ ~signalled[t]
  /\ pc' = [pc EXCEPT ![t] = "expired"]
  /\ UNCHANGED <<objVars, netVars, pkt, signalled, result, mySock,
                 readerVars, overlap>>

Withdraw(t) ==
  /\ pc[t] = "expired"
  /\ Return(t, None)
  /\ UNCHANGED <<connected, sock, seqNo, epoch, acked, netVars, mySock,
                 readerVars, overlap>>

-----------------------------------------------------------------------------
(* _heartbeat_loop().                                                      *)

HeartbeatTest(h) ==
  /\ pc[h] = "looping"
  /\ pc' = [pc EXCEPT ![h] = IF connected THEN "sleeping" ELSE "off"]
  /\ UNCHANGED <<objVars, netVars, pkt, signalled, result, mySock,
                 readerVars, overlap>>

HeartbeatSend(h) ==
  pc[h] = "sleeping" /\ connected /\ Build(h, Status)

(* Not connected any more, or paused by engrave(), or the sequence number  *)
(* no longer fits its field: struct.pack raises and the loop swallows it.  *)
HeartbeatSkip(h) ==
  /\ pc[h] = "sleeping"
  /\ pc' = [pc EXCEPT ![h] = "looping"]
  /\ UNCHANGED <<objVars, netVars, pkt, signalled, result, mySock,
                 readerVars, overlap>>

-----------------------------------------------------------------------------
(* _reader_loop() and _dispatch().                                         *)

ReaderGo(k, where) == rpc' = [rpc EXCEPT ![k] = where]

ReaderTest(k) ==
  /\ rpc[k] = "test"
  /\ ReaderGo(k, IF connected THEN "call" ELSE "wake")
  /\ UNCHANGED <<objVars, netVars, threadVars, rsock, chunk, overlap>>

(* self.sock.recv(): on None an AttributeError ends the thread.            *)
ReaderCrash(k) ==
  /\ rpc[k] = "call" /\ sock = 0
  /\ ReaderGo(k, "dead")
  /\ UNCHANGED <<objVars, netVars, threadVars, rsock, chunk, overlap>>

(* On a socket that is still connecting, the 5 seconds of connect() apply. *)
ReaderBlock(k) ==
  /\ rpc[k] = "call" /\ sock # 0 /\ sock \notin closed
  /\ ReaderGo(k, IF link[sock] = "new" THEN "limited" ELSE "blocked")
  /\ rsock' = [rsock EXCEPT ![k] = sock]
  /\ UNCHANGED <<objVars, netVars, threadVars, chunk, overlap>>

RecvEndsOnTimeout(k) == rpc[k] \in Receiving  \* variant: settimeout(5) stays
RecvEnds(k) ==
  \/ rpc[k] = "limited"
  \/ rpc[k] = "blocked" /\ link[rsock[k]] = "down"

NotConnectedAnyMore == connected' = FALSE

(* A closed or unconnected socket raises OSError at once; a blocked recv() *)
(* returns nothing, or raises, when the peer is gone or its time is over.  *)
(* A recv() that is blocked does not notice close(): the kernel keeps the  *)
(* connection for it.                                                      *)
ReaderLost(k) ==
  /\ \/ /\ rpc[k] = "call" /\ sock # 0
        /\ sock \in closed \/ link[sock] = "new"
     \/ RecvEnds(k)
  /\ NotConnectedAnyMore
  /\ ReaderGo(k, "wake")
  /\ rsock' = [rsock EXCEPT ![k] = 0]
  /\ UNCHANGED <<sock, seqNo, epoch, pending, acked, netVars, threadVars,
                 chunk, overlap>>

(* The laser's answer to one of the requests it has, or a query of its own.*)
ReaderAnswer(k) ==
  /\ rpc[k] \in Receiving
  /\ \E p \in asked[rsock[k]] :
       /\ asked' = [asked EXCEPT ![rsock[k]] = @ \ {p}]
       /\ chunk' = [chunk EXCEPT ![k] = p]
  /\ rsock' = [rsock EXCEPT ![k] = 0]
  /\ ReaderGo(k, "got")
  /\ UNCHANGED <<objVars, opened, link, closed, acks, threadVars, overlap>>

ReaderQuery(k) ==
  /\ rpc[k] \in Receiving /\ link[rsock[k]] = "up"
  /\ \E q \in LaserQueries : chunk' = [chunk EXCEPT ![k] = q]
  /\ rsock' = [rsock EXCEPT ![k] = 0]
  /\ ReaderGo(k, "got")
  /\ UNCHANGED <<objVars, netVars, threadVars, overlap>>

(* The entries a packet answers.                                           *)
AwaitedAny(p) == {s \in Seqs : pending[s] # None}  \* variant: any caller
Awaited(p)    == {s \in Seqs : s = p.seq /\ pending[s] # None}

(* Whoever waits under the packet's number gets it.                        *)
DispatchAnswer(k) ==
  /\ rpc[k] = "got"
  /\ \E s \in Awaited(chunk[k]) :
       /\ pending' = [pending EXCEPT ![s].answer = chunk[k]]
       /\ signalled' = [signalled EXCEPT ![pending[s].owner] = TRUE]
  /\ ReaderGo(k, "test") /\ chunk' = [chunk EXCEPT ![k] = None]
  /\ UNCHANGED <<connected, sock, seqNo, epoch, acked, netVars, pc, pkt,
                 result, mySock, rsock, overlap>>

Unacked(p) == p.cmd \in Queries /\ <<p.cmd, p.seq>> \notin acked

DispatchQuery(k) ==
  /\ rpc[k] = "got" /\ Awaited(chunk[k]) = {} /\ Unacked(chunk[k])
  /\ ReaderGo(k, "ack")
  /\ UNCHANGED <<objVars, netVars, threadVars, rsock, chunk, overlap>>

DispatchDrop(k) ==
  /\ rpc[k] = "got" /\ Awaited(chunk[k]) = {} /\ ~Unacked(chunk[k])
  /\ ReaderGo(k, "test") /\ chunk' = [chunk EXCEPT ![k] = None]
  /\ UNCHANGED <<objVars, netVars, threadVars, rsock, overlap>>

ForgetAck(p) == UNCHANGED acked   \* variant: the pair is not remembered
NoteAck(p)   == acked' = acked \cup {<<p.cmd, p.seq>>}

(* _send_only() of the ACK, then the note that it was given; it may wait   *)
(* for ever like Transmit.                                                 *)
DispatchAck(k) ==
  /\ rpc[k] = "ack"
  /\ \/ /\ connected /\ CanSend
        /\ acks' = acks \cup {<<sock, chunk[k].cmd, chunk[k].seq>>}
        /\ UNCHANGED connected
     \/ connected /\ sock # 0 /\ MayFail /\ connected' = FALSE /\ acks' = acks
     \/ (~connected \/ sock = 0) /\ UNCHANGED <<connected, acks>>
  /\ NoteAck(chunk[k])
  /\ ReaderGo(k, "test") /\ chunk' = [chunk EXCEPT ![k] = None]
  /\ UNCHANGED <<sock, seqNo, epoch, pending, opened, link, closed, asked,
                 threadVars, rsock, overlap>>

(* The end of the thread: every registered call is woken.                  *)
ReaderWake(k) ==
  /\ rpc[k] = "wake"
  /\ signalled' = [t \in Threads |->
       signalled[t] \/ \E s \in Seqs : pending[s] # None
                                       /\ pending[s].owner = t]
  /\ ReaderGo(k, "done")
  /\ UNCHANGED <<objVars, netVars, pc, pkt, result, mySock, rsock, chunk,
                 overlap>>

-----------------------------------------------------------------------------
(* The laser closes the connection, is unplugged, or loses power.          *)
LaserDrop(s) ==
  /\ link[s] = "up"
  /\ link' = [link EXCEPT ![s] = "down"]
  /\ asked' = [asked EXCEPT ![s] = {}]
  /\ UNCHANGED <<objVars, opened, closed, acks, threadVars, readerVars,
                 overlap>>

CallStep(t) ==
  \/ NotConnected(t) \/ Register(t) \/ Transmit(t) \/ SendError(t)
  \/ Collect(t) \/ Expire(t) \/ Withdraw(t)

ConnectStep(c) ==
  \/ ConnectEstablished(c) \/ ConnectFail(c) \/ ConnectReset(c)
  \/ DisconnectForget(c)

HeartbeatStep(h) ==
  \/ HeartbeatTest(h) \/ HeartbeatSend(h) \/ HeartbeatSkip(h)

ReaderStep(k) ==
  \/ ReaderTest(k) \/ ReaderCrash(k) \/ ReaderBlock(k) \/ ReaderLost(k)
  \/ ReaderAnswer(k) \/ ReaderQuery(k) \/ DispatchAnswer(k)
  \/ DispatchQuery(k) \/ DispatchDrop(k) \/ DispatchAck(k) \/ ReaderWake(k)

Next ==
  \/ \E c \in Clients : \/ ConnectOpen(c) \/ ConnectStep(c) \/ Disconnect(c)
                        \/ \E cmd \in Cmds : Request(c, cmd)
  \/ \E t \in Threads : CallStep(t)
  \/ \E h \in Heartbeats : HeartbeatStep(h)
  \/ \E k \in Readers : ReaderStep(k)
  \/ \E s \in Socks : LaserDrop(s)

Spec == Init /\ [][Next]_vars

(* Every started thread keeps running, a blocking connect() ends, and a    *)
(* paused heartbeat is resumed.  No send is fair: connect() has set the    *)
(* socket to settimeout(None), so sendall() returns when the laser reads,  *)
(* and of the laser nothing is assumed.                                    *)
InSendall(t)      == pc[t] = "registered"
ReaderSending(k)  == rpc[k] = "ack"
Fairness ==
  /\ \A t \in Threads : WF_vars(~InSendall(t) /\ CallStep(t))
  /\ \A c \in Clients : WF_vars(ConnectStep(c))
  /\ \A h \in Heartbeats : WF_vars(HeartbeatStep(h))
                           /\ SF_vars(HeartbeatSend(h))
  /\ \A k \in Readers : WF_vars(~ReaderSending(k) /\ ReaderStep(k))

FairSpec == Spec /\ Fairness

-----------------------------------------------------------------------------
(* What holds however connects, disconnects, calls and losses interleave.  *)

(* An entry of _pending belongs to a call that is still going on, under    *)
(* the number of its packet, and holds only a packet of that number: no    *)
(* return path of _send_recv leaves anything behind for a later call.      *)
NoOrphans ==
  \A s \in Seqs : pending[s] # None =>
    /\ pc[pending[s].owner] \in {"registered", "waiting", "expired"}
    /\ pkt[pending[s].owner].seq = s
    /\ pending[s].answer # None => pending[s].answer.seq = s

(* A call that returns a packet returns one with the number it sent, even  *)
(* when connect() renumbered meanwhile and entries were overwritten.       *)
AnswerHasOwnNumber ==
  \A c \in Clients : result[c] # None => result[c].seq = pkt[c].seq

(* One answer of the laser is never handed out twice: it is in one         *)
(* socket, or held by one reader, or in one entry, or returned once.       *)
Holders(p) ==
  {<<"sock", s>>    : s \in {x \in Socks : p \in asked[x]}} \cup
  {<<"reader", k>>  : k \in {x \in Readers : chunk[x] = p}} \cup
  {<<"pending", s>> : s \in {x \in Seqs : pending[x] # None
                                          /\ pending[x].answer = p}} \cup
  {<<"returned", c>> : c \in {x \in Clients : result[x] = p}}

AnsweredOnce ==
  \A p \in Requests : \A x, y \in Holders(p) : x = y

(* No connect() or disconnect() is going on.                               *)
Settled ==
  \A c \in Clients : pc[c] \notin {"connecting", "resetting", "closing"}

(* What holds as long as no connect() restarted the numbering while a call *)
(* or a reader of the previous connection was unfinished, or on a socket   *)
(* that was already used.                                                  *)

(* The packet a call returns is the laser's answer to the packet it sent   *)
(* (or a query the laser happened to number like it).                      *)
AnswerMatches ==
  \A c \in Clients : result[c] # None =>
    result[c] \in {pkt[c]} \cup LaserQueries \/ overlap

(* A laser query is acknowledged at most once per connection.              *)
AckOnce ==
  [][\A k \in Readers :
       rpc[k] = "ack" /\ rpc'[k] # "ack" /\ connected /\ CanSend
         => <<sock, chunk[k].cmd, chunk[k].seq>> \notin acks \/ overlap]_vars

(* A reader declares the connection lost only when the current socket is.  *)
LossIsReal ==
  [][\A k \in Readers :
       rpc[k] \in {"call"} \cup Receiving /\ rpc'[k] = "wake" /\ connected
         => \/ sock = 0 \/ sock \in closed \/ link[sock] # "up"
            \/ overlap \/ ~Settled]_vars

(* A call that has not reached sendall() goes on to it or returns, and one *)
(* whose packet is out returns, whatever becomes of the connection, of its *)
(* reader and of the laser; only in sendall() may a call stay for ever.    *)
CallsReturn ==
  \A t \in Threads :
    /\ pc[t] = "built" ~> pc[t] # "built"
    /\ pc[t] \in {"waiting", "expired"} ~> ~InFlight(t)

-----------------------------------------------------------------------------
(* What the repository says and the code does not do.                      *)

(* d1ultra_protocol.py:828 "sends STATUS every ~2s to keep connection      *)
(* alive."                                                                 *)
KeepAlive ==
  \A h \in Heartbeats : pc[h] = "sleeping" ~> pc[h] = "built" \/ ~connected
=============================================================================
