------------------------- MODULE D1ConnectionProofs -------------------------
(* Theorems about D1Connection, for every number of clients, connections   *)
(* and sequence numbers.                                                   *)
EXTENDS D1Connection, TLAPS

USE DEF Socks, Readers, Threads, Seqs

DataType == ObjectType /\ NetworkType /\ ThreadType /\ ReaderType

LEMMA InitType == Init => TypeOK
<1> SUFFICES ASSUME Init PROVE TypeOK
  OBVIOUS
<1>1. FlagType
  BY DEF Init, FlagType
<1>2. DataType
  BY ConnectionAssumption
  DEF Init, DataType, ObjectType, NetworkType, ThreadType, ReaderType,
      ClientPCs, CallPCs, BeatPCs, Receiving, ReaderPCs
<1>3. QED BY <1>1, <1>2 DEF TypeOK, DataType

(* connect() and disconnect() keep the types.                              *)
LEMMA ConnectType ==
  ASSUME DataType, NEW c \in Clients,
         ConnectOpen(c) \/ ConnectStep(c) \/ Disconnect(c)
  PROVE  DataType'
<1> USE ConnectionAssumption
    DEF DataType, ObjectType, NetworkType, ThreadType, ReaderType,
        objVars, netVars, threadVars, readerVars
<1>1. CASE ConnectOpen(c)
  BY <1>1 DEF ConnectOpen, ClientPCs, CallPCs
<1>2. CASE ConnectEstablished(c)
  <2>1. CASE sock # 0
    <3>1. /\ pc' = [pc EXCEPT ![c] = "resetting"]
          /\ link' = [link EXCEPT ![mySock[c]] = "up"]
          /\ UNCHANGED <<mySock, sock, seqNo, epoch, pending, acked, opened,
                 closed, asked, acks, pkt, signalled, result, readerVars>>
      BY <1>2, <2>1 DEF ConnectEstablished
    <3>2. QED BY <1>2, <3>1 DEF ConnectEstablished, ClientPCs, CallPCs
  <2>2. CASE sock = 0
    <3>1. /\ pc' = [pc EXCEPT ![c] = "idle"]
          /\ mySock' = [mySock EXCEPT ![c] = 0]
          /\ link' = [link EXCEPT ![mySock[c]] = "up"]
          /\ UNCHANGED <<sock, seqNo, epoch, pending, acked, opened,
                 closed, asked, acks, pkt, signalled, result, readerVars>>
      BY <1>2, <2>2 DEF ConnectEstablished, ConnectReturn
    <3>2. ThreadType'
      BY <3>1 DEF ClientPCs, CallPCs
    <3>3. (ObjectType /\ NetworkType /\ ReaderType)'
      BY <3>1
    <3>4. QED BY <3>2, <3>3
  <2>3. QED BY <2>1, <2>2
<1>3. CASE ConnectFail(c)
  BY <1>3 DEF ConnectFail, ConnectReturn, ClientPCs, CallPCs
<1>4. CASE ConnectReset(c)
  <2>1. ReaderType'
    <3>1. /\ rpc' = [rpc EXCEPT ![mySock[c]] = "test"]
          /\ UNCHANGED <<rsock, chunk>>
      BY <1>4 DEF ConnectReset
    <3>2. "test" \in ReaderPCs \ (Receiving \cup {"got", "ack"})
      BY DEF ReaderPCs, Receiving
    <3>3. QED BY <3>1, <3>2
  <2>2. ThreadType'
    <3>1. /\ UNCHANGED <<pkt, signalled, result, opened>>
          /\ mySock' = [mySock EXCEPT ![c] = 0]
          /\ pc' = [t \in Threads |-> IF t = c THEN "idle"
                                     ELSE IF t = mySock[c] THEN "looping"
                                     ELSE pc[t]]
      BY <1>4 DEF ConnectReset, netVars
    <3>2. /\ "idle" \in ClientPCs /\ "looping" \in BeatPCs
          /\ {"idle", "looping"} \cap CallPCs = {}
          /\ {"idle", "looping"} \cap {"connecting", "resetting"} = {}
      BY DEF ClientPCs, CallPCs, BeatPCs
    <3>3. pc' \in [Threads -> ClientPCs \cup CallPCs \cup BeatPCs]
      BY <3>1, <3>2
    <3>4. /\ \A t \in Threads : pc'[t] \in CallPCs => pkt'[t] \in Requests
          /\ \A d \in Clients : pc'[d] \in {"connecting", "resetting"}
                                => mySock'[d] \in 1..opened'
      BY <3>1, <3>2
    <3>5. /\ mySock' \in [Clients -> 0..MaxConn]
          /\ pkt' \in [Threads -> Requests \cup {None}]
          /\ signalled' \in [Threads -> BOOLEAN]
          /\ result' \in [Threads -> Packets \cup {None}]
      BY <3>1 DEF Requests, Packets
    <3>6. QED BY <3>3, <3>4, <3>5
  <2>3. (ObjectType /\ NetworkType)'
    BY <1>4 DEF ConnectReset
  <2>4. QED BY <2>1, <2>2, <2>3
<1>5. CASE Disconnect(c)
  BY <1>5 DEF Disconnect, ClientPCs, CallPCs
<1>6. CASE DisconnectForget(c)
  <2>1. ObjectType' /\ NetworkType'
    BY <1>6 DEF DisconnectForget
  <2>2. ThreadType' /\ ReaderType'
    BY <1>6 DEF DisconnectForget, ClientPCs, CallPCs
  <2>3. QED BY <2>1, <2>2
<1>7. QED BY <1>1, <1>2, <1>3, <1>4, <1>5, <1>6 DEF ConnectStep

(* Numbering a packet, and every step of a call, keep the types.           *)
LEMMA BuildType ==
  ASSUME DataType, NEW t \in Threads, NEW cmd \in Cmds, Build(t, cmd)
  PROVE  DataType'
<1>1. seqNo + 1 \in Seqs /\ pkt'[t] \in Requests
  BY ConnectionAssumption
  DEF Build, Fits, DataType, ObjectType, ThreadType, Requests
<1> DEFINE p == [epoch |-> epoch, seq |-> seqNo + 1, cmd |-> cmd]
<1>2. pkt' = [pkt EXCEPT ![t] = p] /\ p \in Requests
  BY <1>1 DEF Build, DataType, ThreadType
<1> HIDE DEF p
<1>3. ThreadType'
  BY <1>2 DEF Build, DataType, ThreadType, NetworkType, netVars, CallPCs
<1>4. (ObjectType /\ NetworkType /\ ReaderType)'
  BY ConnectionAssumption
  DEF Build, Fits, DataType, ObjectType, NetworkType, ReaderType, netVars,
      readerVars
<1>5. QED BY <1>3, <1>4 DEF DataType

LEMMA CallType ==
  ASSUME DataType, NEW t \in Threads, CallStep(t)
  PROVE  DataType'
<1> USE ConnectionAssumption
    DEF DataType, ObjectType, NetworkType, ThreadType, ReaderType,
        objVars, netVars, threadVars, readerVars, ClientPCs, CallPCs, BeatPCs
<1>1. CASE NotConnected(t)
  BY <1>1 DEF NotConnected, GiveBack
<1>2. CASE Register(t)
  <2>1. [owner |-> t, answer |-> None] \in Entries
    BY DEF Entries
  <2>2. QED BY <1>2, <2>1 DEF Register
<1>3. CASE Transmit(t)
  BY <1>3 DEF Transmit, CanSend
<1>4. CASE SendError(t)
  BY <1>4 DEF SendError, Return, GiveBack
<1>5. CASE Collect(t)
  <2> DEFINE e == pending[pkt[t].seq]
             answer == IF e = None THEN None ELSE e.answer
  <2>1. pkt[t].seq \in Seqs
    BY <1>5 DEF Collect, Requests
  <2>2. answer \in Packets \cup {None}
    BY <2>1 DEF Entries
  <2>3. Return(t, answer)
    BY <1>5 DEF Collect
  <2> HIDE DEF answer
  <2>4. UNCHANGED <<connected, sock, seqNo, epoch, acked, netVars, mySock,
                    readerVars, overlap>>
    BY <1>5 DEF Collect
  <2>5. QED BY <2>2, <2>3, <2>4 DEF Return, GiveBack
<1>6. CASE Expire(t)
  BY <1>6 DEF Expire
<1>7. CASE Withdraw(t)
  BY <1>7 DEF Withdraw, Return, GiveBack
<1>8. QED
  BY <1>1, <1>2, <1>3, <1>4, <1>5, <1>6, <1>7 DEF CallStep

LEMMA HeartbeatType ==
  ASSUME DataType, NEW h \in Heartbeats, HeartbeatStep(h)
  PROVE  DataType'
<1>1. CASE HeartbeatTest(h) \/ HeartbeatSkip(h)
  BY <1>1
  DEF HeartbeatTest, HeartbeatSkip, DataType, ObjectType, NetworkType,
      ThreadType, ReaderType, objVars, netVars, readerVars, ClientPCs,
      CallPCs, BeatPCs
<1>2. CASE HeartbeatSend(h)
  BY <1>2, BuildType, ConnectionAssumption DEF HeartbeatSend
<1>3. QED BY <1>1, <1>2 DEF HeartbeatStep

LEMMA ReaderTypeKept ==
  ASSUME DataType, NEW k \in Readers, ReaderStep(k)
  PROVE  DataType'
<1> USE ConnectionAssumption
    DEF DataType, ObjectType, NetworkType, ThreadType, ReaderType,
        objVars, netVars, threadVars, readerVars, ReaderGo, Receiving,
        ReaderPCs
<1> DEFINE Others == UNCHANGED <<objVars, netVars, threadVars>>
<1>1. CASE ReaderTest(k) \/ ReaderCrash(k)
  <2>1. PICK where \in {"call", "wake", "dead"} :
           rpc' = [rpc EXCEPT ![k] = where]
    BY <1>1 DEF ReaderTest, ReaderCrash
  <2>2. Others /\ UNCHANGED <<rsock, chunk>>
    BY <1>1 DEF ReaderTest, ReaderCrash
  <2>3. QED BY <2>1, <2>2
<1>2. CASE ReaderBlock(k)
  <2>1. PICK where \in Receiving : rpc' = [rpc EXCEPT ![k] = where]
    BY <1>2 DEF ReaderBlock
  <2>2. /\ Others /\ UNCHANGED chunk
        /\ rsock' = [rsock EXCEPT ![k] = sock] /\ sock \in Socks
    BY <1>2 DEF ReaderBlock
  <2>3. QED BY <2>1, <2>2
<1>3. CASE ReaderLost(k)
  <2>1. /\ rpc' = [rpc EXCEPT ![k] = "wake"]
        /\ rsock' = [rsock EXCEPT ![k] = 0]
    BY <1>3 DEF ReaderLost
  <2>2. UNCHANGED <<sock, seqNo, epoch, pending, acked, netVars, threadVars,
                    chunk>>
    BY <1>3 DEF ReaderLost
  <2>3. QED BY <2>1, <2>2
<1>4. CASE ReaderAnswer(k)
  <2>1. PICK p \in asked[rsock[k]] :
           /\ asked' = [asked EXCEPT ![rsock[k]] = @ \ {p}]
           /\ chunk' = [chunk EXCEPT ![k] = p]
    BY <1>4 DEF ReaderAnswer
  <2>2. rsock[k] \in Socks /\ p \in Requests /\ p \in Packets
    BY <1>4, <2>1 DEF ReaderAnswer, Packets
  <2>3. /\ rpc' = [rpc EXCEPT ![k] = "got"]
        /\ rsock' = [rsock EXCEPT ![k] = 0]
        /\ UNCHANGED <<objVars, opened, link, closed, acks, threadVars>>
    BY <1>4 DEF ReaderAnswer
  <2>4. QED BY <2>1, <2>2, <2>3
<1>5. CASE ReaderQuery(k)
  <2>1. PICK q \in Packets : chunk' = [chunk EXCEPT ![k] = q]
    BY <1>5 DEF ReaderQuery, Packets
  <2>2. /\ rpc' = [rpc EXCEPT ![k] = "got"]
        /\ rsock' = [rsock EXCEPT ![k] = 0] /\ Others
    BY <1>5 DEF ReaderQuery
  <2>3. QED BY <2>1, <2>2
<1>6. CASE DispatchAnswer(k)
  <2>1. PICK s \in Awaited(chunk[k]) :
           /\ pending' = [pending EXCEPT ![s].answer = chunk[k]]
           /\ signalled' = [signalled EXCEPT ![pending[s].owner] = TRUE]
    BY <1>6 DEF DispatchAnswer
  <2>2. s \in Seqs /\ chunk[k] \in Packets /\ pending[s] \in Entries
    BY <1>6 DEF DispatchAnswer, Awaited
  <2>3. [pending[s] EXCEPT !.answer = chunk[k]] \in Entries
    BY <2>2 DEF Entries
  <2>4. pending[s].owner \in Threads
    BY <2>2 DEF Entries
  <2>5. QED BY <1>6, <2>1, <2>2, <2>3, <2>4 DEF DispatchAnswer
<1>7. CASE DispatchQuery(k)
  <2>1. chunk[k].cmd \in Queries
    BY <1>7 DEF DispatchQuery, Unacked
  <2>2. QED BY <1>7, <2>1 DEF DispatchQuery
<1>8. CASE DispatchDrop(k)
  BY <1>8 DEF DispatchDrop
<1>11. CASE DispatchAck(k)
  <2>1. <<chunk[k].cmd, chunk[k].seq>> \in Queries \X Seqs
    BY <1>11 DEF DispatchAck, Packets, Requests, LaserQueries
  <2>2. connected /\ CanSend =>
          <<sock, chunk[k].cmd, chunk[k].seq>> \in Socks \X Queries \X Seqs
    BY <2>1 DEF CanSend
  <2>3. acks' \subseteq Socks \X Queries \X Seqs
    BY <1>11, <2>2 DEF DispatchAck
  <2>4. acked' \subseteq Queries \X Seqs
    BY <1>11, <2>1 DEF DispatchAck, NoteAck
  <2>5. QED BY <1>11, <2>3, <2>4 DEF DispatchAck
<1>9. CASE ReaderWake(k)
  BY <1>9 DEF ReaderWake
<1>10. QED
  BY <1>1, <1>2, <1>3, <1>4, <1>5, <1>6, <1>7, <1>8, <1>9, <1>11
  DEF ReaderStep

LEMMA DropType ==
  ASSUME DataType, NEW s \in Socks, LaserDrop(s)
  PROVE  DataType'
BY DEF LaserDrop, DataType, ObjectType, NetworkType, ThreadType, ReaderType,
       objVars, threadVars, readerVars

(* The two flags, which the provers handle better apart from the data.     *)
LEMMA FlagsKept ==
  ASSUME FlagType, Next
  PROVE  FlagType'
<1> USE DEF FlagType
<1>1. CASE \E c \in Clients :
             \/ ConnectOpen(c) \/ ConnectStep(c) \/ Disconnect(c)
             \/ \E cmd \in Cmds : Request(c, cmd)
  <2> PICK c \in Clients :
             \/ ConnectOpen(c) \/ ConnectStep(c) \/ Disconnect(c)
             \/ \E cmd \in Cmds : Request(c, cmd)
    BY <1>1
  <2>1. CASE ConnectOpen(c)
    BY <2>1, Zenon DEF ConnectOpen
  <2>2. CASE ConnectEstablished(c)
    BY <2>2, Zenon DEF ConnectEstablished
  <2>3. CASE ConnectFail(c)
    BY <2>3, Zenon DEF ConnectFail
  <2>4. CASE ConnectReset(c)
    BY <2>4, Zenon DEF ConnectReset
  <2>5. CASE Disconnect(c)
    BY <2>5, Zenon DEF Disconnect
  <2>6. CASE DisconnectForget(c)
    BY <2>6, Zenon DEF DisconnectForget
  <2>7. CASE \E cmd \in Cmds : Request(c, cmd)
    BY <2>7, Zenon DEF Request, Build
  <2>8. QED
    BY <2>1, <2>2, <2>3, <2>4, <2>5, <2>6, <2>7 DEF ConnectStep
<1>2. CASE \E t \in Threads : CallStep(t)
  BY <1>2, Zenon
  DEF CallStep, NotConnected, Register, Transmit, SendError, Collect, Expire,
      Withdraw, objVars
<1>3. CASE \E h \in Heartbeats : HeartbeatStep(h)
  BY <1>3, Zenon
  DEF HeartbeatStep, HeartbeatTest, HeartbeatSend, HeartbeatSkip, Build,
      objVars
<1>4. CASE \E k \in Readers : ReaderStep(k)
  BY <1>4, Zenon
  DEF ReaderStep, ReaderTest, ReaderCrash, ReaderBlock, ReaderLost,
      ReaderAnswer, ReaderQuery, DispatchAnswer, DispatchQuery, DispatchDrop,
      DispatchAck, ReaderWake, NotConnectedAnyMore, objVars
<1>5. CASE \E s \in Socks : LaserDrop(s)
  BY <1>5, Zenon DEF LaserDrop, objVars
<1>6. QED BY <1>1, <1>2, <1>3, <1>4, <1>5 DEF Next

LEMMA TypeKept == TypeOK /\ [Next]_vars => TypeOK'
<1> SUFFICES ASSUME TypeOK, [Next]_vars PROVE TypeOK'
  OBVIOUS
<1>1. DataType /\ FlagType
  BY DEF TypeOK, DataType
<1>2. CASE Next
  <2>1. FlagType'
    BY <1>1, <1>2, FlagsKept
  <2>2. DataType'
    <3>1. CASE \E c \in Clients :
                 ConnectOpen(c) \/ ConnectStep(c) \/ Disconnect(c)
      BY <1>1, <3>1, ConnectType
    <3>2. CASE \E c \in Clients, cmd \in Cmds : Request(c, cmd)
      BY <1>1, <3>2, BuildType DEF Request
    <3>3. CASE \E t \in Threads : CallStep(t)
      BY <1>1, <3>3, CallType
    <3>4. CASE \E h \in Heartbeats : HeartbeatStep(h)
      BY <1>1, <3>4, HeartbeatType
    <3>5. CASE \E k \in Readers : ReaderStep(k)
      BY <1>1, <3>5, ReaderTypeKept
    <3>6. CASE \E s \in Socks : LaserDrop(s)
      BY <1>1, <3>6, DropType
    <3>7. QED BY <1>2, <3>1, <3>2, <3>3, <3>4, <3>5, <3>6 DEF Next
  <2>3. QED BY <2>1, <2>2 DEF TypeOK, DataType
<1>3. CASE UNCHANGED vars
  BY <1>1, <1>3
  DEF TypeOK, ObjectType, NetworkType, ThreadType, ReaderType, FlagType,
      vars, objVars, netVars, threadVars, readerVars
<1>4. QED BY <1>2, <1>3

(* Every reachable state is well-typed; among others, a thread in a call   *)
(* has a packet, and a reader holds one exactly where it dispatches it.    *)
THEOREM TypeCorrect == Spec => []TypeOK
BY InitType, TypeKept, PTL DEF Spec

-----------------------------------------------------------------------------
(* The table _pending and the answers returned from it.                    *)
Table == NoOrphans /\ AnswerHasOwnNumber

(* Registering a packet under its own number keeps the table in order.     *)
LEMMA RegisterTable ==
  ASSUME TypeOK, Table, NEW t \in Threads, Register(t)
  PROVE  Table'
<1> USE DEF Table
<1>1. pkt[t] \in Requests /\ pkt[t].seq \in Seqs
  BY DEF Register, TypeOK, ThreadType, CallPCs, Requests
<1>2. NoOrphans'
  BY <1>1 DEF Register, NoOrphans, TypeOK, ObjectType, ThreadType
<1>3. AnswerHasOwnNumber'
  BY DEF Register, AnswerHasOwnNumber
<1>4. QED BY <1>2, <1>3

(* Every way out of _send_recv removes the entry of the call's number, and *)
(* no other entry is the call's own.                                       *)
LEMMA ReturnTable ==
  ASSUME TypeOK, Table, NEW t \in Threads, NEW answer \in Packets \cup {None},
         pc[t] \in {"registered", "waiting", "expired"},
         answer # None => answer.seq = pkt[t].seq,
         Return(t, answer)
  PROVE  Table'
<1>1. pkt[t] \in Requests /\ pkt[t].seq \in Seqs
  BY DEF TypeOK, ThreadType, CallPCs, Requests
<1>2. NoOrphans'
  <2> SUFFICES ASSUME NEW s \in Seqs, pending'[s] # None
               PROVE  /\ pc'[pending'[s].owner]
                           \in {"registered", "waiting", "expired"}
                      /\ pkt'[pending'[s].owner].seq = s
                      /\ pending'[s].answer # None => pending'[s].answer.seq = s
    BY DEF NoOrphans
  <2>1. s # pkt[t].seq /\ pending'[s] = pending[s] /\ pending[s] # None
    BY <1>1 DEF Return, TypeOK, ObjectType
  <2>2. pending[s].owner \in Threads
    BY <2>1 DEF TypeOK, ObjectType, Entries
  <2>3. pending[s].owner # t
    BY <2>1 DEF Table, NoOrphans
  <2>4. QED
    BY <2>1, <2>2, <2>3
    DEF Table, NoOrphans, Return, GiveBack, TypeOK, ThreadType
<1>3. AnswerHasOwnNumber'
  <2> SUFFICES ASSUME NEW c \in Clients, result'[c] # None
               PROVE  result'[c].seq = pkt'[c].seq
    BY DEF AnswerHasOwnNumber
  <2>1. CASE c = t
    BY <2>1 DEF Return, GiveBack, TypeOK, ThreadType
  <2>2. CASE c # t
    BY <2>2 DEF Table, AnswerHasOwnNumber, Return, GiveBack, TypeOK, ThreadType
  <2>3. QED BY <2>1, <2>2
<1>4. QED BY <1>2, <1>3 DEF Table

(* The reader writes an answer only into the entry of the answer's number. *)
LEMMA DispatchTable ==
  ASSUME TypeOK, Table, NEW k \in Readers, DispatchAnswer(k)
  PROVE  Table'
<1>1. PICK s \in Awaited(chunk[k]) :
         pending' = [pending EXCEPT ![s].answer = chunk[k]]
  BY DEF DispatchAnswer
<1>2. s \in Seqs /\ s = chunk[k].seq /\ pending[s] # None
      /\ pending[s] \in Entries
  BY <1>1 DEF Awaited, TypeOK, ObjectType
<1>3. NoOrphans'
  <2>1. UNCHANGED <<pc, pkt>>
    BY DEF DispatchAnswer
  <2>2. /\ pending'[s].owner = pending[s].owner
        /\ pending'[s].answer = chunk[k]
    BY <1>1, <1>2 DEF TypeOK, ObjectType, Entries
  <2>3. \A n \in Seqs : n # s => pending'[n] = pending[n]
    BY <1>1, <1>2 DEF TypeOK, ObjectType
  <2>4. QED BY <1>2, <2>1, <2>2, <2>3 DEF Table, NoOrphans
<1>4. AnswerHasOwnNumber'
  BY DEF DispatchAnswer, Table, AnswerHasOwnNumber
<1>5. QED BY <1>3, <1>4 DEF Table

(* A thread that is not in a call owns no entry, so it may move freely.    *)
LEMMA MoveTable ==
  ASSUME TypeOK, Table, NEW t \in Threads, NEW where,
         pc[t] \notin {"registered", "waiting", "expired"},
         pc' = [pc EXCEPT ![t] = where],
         UNCHANGED <<pending, pkt, result>>
  PROVE  Table'
<1>1. \A s \in Seqs : pending[s] # None =>
         pending[s].owner # t /\ pending[s].owner \in Threads
  BY DEF Table, NoOrphans, TypeOK, ObjectType, Entries
<1>2. QED
  BY <1>1
  DEF Table, NoOrphans, AnswerHasOwnNumber, TypeOK, ThreadType

LEMMA TableKept == TypeOK /\ Table /\ [Next]_vars => Table'
<1> SUFFICES ASSUME TypeOK, Table, [Next]_vars PROVE Table'
  OBVIOUS
<1> USE DEF objVars, netVars, threadVars, readerVars
<1>1. ASSUME NEW c \in Clients,
             ConnectOpen(c) \/ ConnectStep(c) \/ Disconnect(c)
      PROVE  Table'
  <2>1. CASE ConnectOpen(c)
    BY <2>1, MoveTable DEF ConnectOpen
  <2>2. CASE ConnectEstablished(c)
    BY <2>2, MoveTable DEF ConnectEstablished, ConnectReturn
  <2>3. CASE ConnectFail(c)
    BY <2>3, MoveTable DEF ConnectFail, ConnectReturn
  <2>4. CASE ConnectReset(c)
    BY <2>4 DEF ConnectReset, Table, NoOrphans, AnswerHasOwnNumber
  <2>5. CASE Disconnect(c)
    BY <2>5, MoveTable DEF Disconnect
  <2>6. CASE DisconnectForget(c)
    BY <2>6, MoveTable DEF DisconnectForget
  <2>7. QED BY <1>1, <2>1, <2>2, <2>3, <2>4, <2>5, <2>6 DEF ConnectStep
<1>2. ASSUME NEW t \in Threads, NEW cmd \in Cmds, Build(t, cmd),
             pc[t] \in {"idle", "sleeping"}
      PROVE  Table'
  <2>1. \A s \in Seqs : pending[s] # None =>
           pending[s].owner # t /\ pending[s].owner \in Threads
    BY <1>2 DEF Table, NoOrphans, TypeOK, ObjectType, Entries
  <2>2. NoOrphans'
    BY <1>2, <2>1 DEF Build, Table, NoOrphans, TypeOK, ThreadType
  <2>3. AnswerHasOwnNumber'
    BY <1>2 DEF Build, Table, AnswerHasOwnNumber, TypeOK, ThreadType
  <2>4. QED BY <2>2, <2>3 DEF Table
<1>3. ASSUME NEW t \in Threads, CallStep(t) PROVE Table'
  <2>1. CASE NotConnected(t)
    <3>1. \A s \in Seqs : pending[s] # None =>
             pending[s].owner # t /\ pending[s].owner \in Threads
      BY <2>1 DEF NotConnected, Table, NoOrphans, TypeOK, ObjectType, Entries
    <3>2. NoOrphans'
      BY <2>1, <3>1
      DEF NotConnected, GiveBack, Table, NoOrphans, TypeOK, ThreadType
    <3>3. AnswerHasOwnNumber'
      BY <2>1
      DEF NotConnected, GiveBack, Table, AnswerHasOwnNumber, TypeOK, ThreadType
    <3>4. QED BY <3>2, <3>3 DEF Table
  <2>2. CASE Register(t)
    BY <2>2, RegisterTable
  <2>3. CASE Transmit(t)
    BY <2>3
    DEF Transmit, Table, NoOrphans, AnswerHasOwnNumber, TypeOK, ThreadType
  <2>4. CASE SendError(t)
    BY <2>4, ReturnTable DEF SendError
  <2>5. CASE Collect(t)
    <3> DEFINE e == pending[pkt[t].seq]
               answer == IF e = None THEN None ELSE e.answer
    <3>1. pkt[t].seq \in Seqs
      BY <2>5 DEF Collect, TypeOK, ThreadType, CallPCs, Requests
    <3>2. answer \in Packets \cup {None}
      BY <3>1 DEF TypeOK, ObjectType, Entries
    <3>3. answer # None => answer.seq = pkt[t].seq
      BY <3>1 DEF Table, NoOrphans
    <3>4. Return(t, answer) /\ pc[t] = "waiting"
      BY <2>5 DEF Collect
    <3> HIDE DEF answer
    <3>5. QED BY <3>2, <3>3, <3>4, ReturnTable
  <2>6. CASE Expire(t)
    BY <2>6
    DEF Expire, Table, NoOrphans, AnswerHasOwnNumber, TypeOK, ThreadType
  <2>7. CASE Withdraw(t)
    BY <2>7, ReturnTable DEF Withdraw
  <2>8. QED
    BY <1>3, <2>1, <2>2, <2>3, <2>4, <2>5, <2>6, <2>7 DEF CallStep
<1>4. ASSUME NEW h \in Heartbeats, HeartbeatStep(h) PROVE Table'
  <2>1. CASE HeartbeatTest(h)
    BY <2>1, MoveTable DEF HeartbeatTest
  <2>2. CASE HeartbeatSend(h)
    BY <2>2, <1>2, ConnectionAssumption DEF HeartbeatSend
  <2>3. CASE HeartbeatSkip(h)
    BY <2>3, MoveTable DEF HeartbeatSkip
  <2>4. QED BY <1>4, <2>1, <2>2, <2>3 DEF HeartbeatStep
<1>5. ASSUME NEW k \in Readers, ReaderStep(k) PROVE Table'
  <2>1. CASE DispatchAnswer(k)
    BY <2>1, DispatchTable
  <2>2. CASE ~DispatchAnswer(k)
    <3>1. UNCHANGED <<pending, pc, pkt, result>>
      BY <1>5, <2>2
      DEF ReaderStep, ReaderTest, ReaderCrash, ReaderBlock, ReaderLost,
          ReaderAnswer, ReaderQuery, DispatchQuery, DispatchDrop,
          DispatchAck, ReaderWake
    <3>2. QED BY <3>1 DEF Table, NoOrphans, AnswerHasOwnNumber
  <2>3. QED BY <2>1, <2>2
<1>6. ASSUME NEW s \in Socks, LaserDrop(s) PROVE Table'
  BY <1>6 DEF LaserDrop, Table, NoOrphans, AnswerHasOwnNumber
<1>7. CASE UNCHANGED vars
  BY <1>7 DEF vars, Table, NoOrphans, AnswerHasOwnNumber
<1>8. QED
  BY <1>1, <1>2, <1>3, <1>4, <1>5, <1>6, <1>7 DEF Next, Request

LEMMA InitTable == Init => Table
BY DEF Init, Table, NoOrphans, AnswerHasOwnNumber

LEMMA TableAlways == Spec => []Table
BY InitTable, TableKept, TypeCorrect, PTL DEF Spec

(* No return path of _send_recv, and no connect() that clears the table    *)
(* while calls are waiting, leaves an entry to be found by a later call.   *)
THEOREM NoOrphansAlways == Spec => []NoOrphans
<1>1. Table => NoOrphans
  BY DEF Table
<1>2. QED BY <1>1, TableAlways, PTL

(* Whatever overlaps, a call returns an answer of its own number or None.  *)
THEOREM AnswerNumbers == Spec => []AnswerHasOwnNumber
<1>1. Table => AnswerHasOwnNumber
  BY DEF Table
<1>2. QED BY <1>1, TableAlways, PTL

-----------------------------------------------------------------------------
(* Matching: what follows needs to know which packets can be about.  An    *)
(* answer is handed out once, to the call that asked for it; a query is    *)
(* acknowledged once; a loss is real.                                      *)

(* Every connect() has a socket of its own, whose reader has not started.  *)
Owned ==
  /\ \A c \in Clients : mySock[c] # 0 =>
       /\ mySock[c] <= opened /\ rpc[mySock[c]] = "off"
       /\ pc[c] \in {"connecting", "resetting"}
       /\ pc[c] = "resetting" => link[mySock[c]] # "new"
  /\ \A c, d \in Clients : mySock[c] # 0 /\ mySock[c] = mySock[d] => c = d
(* Of a socket not opened yet there is nothing.                            *)
Unopened ==
  \A s \in Socks : s > opened =>
    rpc[s] = "off" /\ asked[s] = {} /\ \A a \in acks : a[1] # s
(* A reset starts a reader, and on a socket that is connected.             *)
Started ==
  /\ epoch # 0 => rpc[epoch] # "off"
  /\ \A s \in Socks : link[s] = "new" => rpc[s] = "off"
(* A reader holds a packet only while it dispatches it.                    *)
HandsFree == \A k \in Readers : chunk[k] # None => rpc[k] \in {"got", "ack"}
Connects == Owned /\ Unopened /\ Started /\ HandsFree

LEMMA ConnectsInit == Init => Connects
BY ConnectionAssumption DEF Init, Connects, Owned, Unopened, Started, HandsFree

(* What connect() and disconnect() do to the sockets and their owners.     *)
LEMMA ConnectsByConnect ==
  ASSUME TypeOK, Connects, NEW c \in Clients,
         ConnectOpen(c) \/ ConnectStep(c) \/ Disconnect(c)
  PROVE  Connects'
<1>0. /\ opened \in 0..MaxConn /\ mySock \in [Clients -> 0..MaxConn]
      /\ DOMAIN pc = Threads /\ DOMAIN link = Socks /\ DOMAIN rpc = Socks
      /\ DOMAIN asked = Socks /\ sock \in 0..opened /\ epoch \in 0..MaxConn
      /\ pc[c] \in {"connecting", "resetting"} => mySock[c] \in 1..opened
      /\ Clients \subseteq Threads /\ Clients \cap Socks = {}
      /\ MaxConn \in Nat
  BY ConnectionAssumption DEF TypeOK, ObjectType, NetworkType, ThreadType, ReaderType
<1>1. CASE ConnectOpen(c)
  <2>1. /\ opened' = opened + 1 /\ opened + 1 \in Socks
        /\ link' = [link EXCEPT ![opened + 1] = "new"]
        /\ mySock' = [mySock EXCEPT ![c] = opened + 1]
        /\ pc' = [pc EXCEPT ![c] = "connecting"]
        /\ UNCHANGED <<rpc, asked, acks, chunk, epoch>>
    BY <1>0, <1>1 DEF ConnectOpen, readerVars
  <2>2. Owned'
    BY <1>0, <2>1 DEF Connects, Owned, Unopened
  <2>3. (Unopened /\ Started /\ HandsFree)'
    BY <1>0, <2>1 DEF Connects, Unopened, Started, HandsFree
  <2>4. QED BY <2>2, <2>3 DEF Connects
<1>2. CASE ConnectEstablished(c)
  <2>1. /\ link' = [link EXCEPT ![mySock[c]] = "up"]
        /\ \/ pc' = [pc EXCEPT ![c] = "resetting"] /\ mySock' = mySock
           \/ /\ pc' = [pc EXCEPT ![c] = "idle"]
              /\ mySock' = [mySock EXCEPT ![c] = 0]
        /\ pc[c] = "connecting"
        /\ UNCHANGED <<opened, rpc, asked, acks, chunk, epoch>>
    BY <1>0, <1>2 DEF ConnectEstablished, ConnectReturn, readerVars
  <2>2. Owned'
    <3>1. CASE pc' = [pc EXCEPT ![c] = "resetting"] /\ mySock' = mySock
      BY <1>0, <2>1, <3>1 DEF Connects, Owned
    <3>2. CASE /\ pc' = [pc EXCEPT ![c] = "idle"]
               /\ mySock' = [mySock EXCEPT ![c] = 0]
      BY <1>0, <2>1, <3>2 DEF Connects, Owned
    <3>3. QED BY <2>1, <3>1, <3>2
  <2>3. (Unopened /\ Started /\ HandsFree)'
    BY <1>0, <2>1 DEF Connects, Unopened, Started, HandsFree
  <2>4. QED BY <2>2, <2>3 DEF Connects
<1>3. CASE ConnectFail(c)
  BY <1>0, <1>3
  DEF ConnectFail, ConnectReturn, Connects, Owned, Unopened, Started,
      HandsFree, readerVars
<1>4. CASE ConnectReset(c)
  BY <1>0, <1>4
  DEF ConnectReset, Connects, Owned, Unopened, Started, HandsFree, netVars
<1>5. CASE Disconnect(c)
  BY <1>0, <1>5
  DEF Disconnect, Connects, Owned, Unopened, Started, HandsFree, readerVars
<1>6. CASE DisconnectForget(c)
  BY <1>0, <1>6
  DEF DisconnectForget, Connects, Owned, Unopened, Started, HandsFree,
      netVars, readerVars
<1>7. QED BY <1>1, <1>2, <1>3, <1>4, <1>5, <1>6 DEF ConnectStep

(* Calls and heartbeats open no socket and start no reader.                *)
LEMMA ConnectsByCalls ==
  ASSUME TypeOK, Connects, NEW t \in Threads,
         \/ CallStep(t)
         \/ \E cmd \in Cmds : pc[t] \in {"idle", "sleeping"} /\ Build(t, cmd)
         \/ t \in Heartbeats /\ HeartbeatStep(t)
  PROVE  Connects'
<1>1. /\ UNCHANGED <<mySock, opened, rpc, link, acks, epoch, chunk>>
      /\ \A c \in Clients \ {t} : pc'[c] = pc[c]
      /\ t \in Clients => mySock[t] = 0
      /\ \A s \in Socks : s > opened => asked'[s] = asked[s]
  <2>0. /\ DOMAIN pc = Threads /\ DOMAIN asked = Socks /\ sock \in 0..opened
        /\ Clients \cap Socks = {} /\ Heartbeats \subseteq Socks
        /\ opened \in Int
        /\ \A c \in Clients : pc[c] \notin {"connecting", "resetting"}
                              => mySock[c] = 0
    BY ConnectionAssumption
    DEF TypeOK, ObjectType, NetworkType, ThreadType, Connects, Owned
  <2> USE DEF objVars, netVars, readerVars
  <2>1. CASE NotConnected(t)
    BY <2>0, <2>1 DEF NotConnected, GiveBack
  <2>2. CASE Transmit(t)
    BY <2>0, <2>2 DEF Transmit, CanSend
  <2>3. CASE SendError(t) \/ Collect(t) \/ Withdraw(t)
    BY <2>0, <2>3 DEF SendError, Collect, Withdraw, Return, GiveBack
  <2>4. CASE \E cmd \in Cmds : pc[t] \in {"idle", "sleeping"} /\ Build(t, cmd)
    BY <2>0, <2>4 DEF Build
  <2>5. CASE t \in Heartbeats /\ HeartbeatStep(t)
    BY <2>0, <2>5
    DEF HeartbeatStep, HeartbeatTest, HeartbeatSend, HeartbeatSkip, Build
  <2>7. CASE Register(t) \/ Expire(t)
    BY <2>0, <2>7 DEF Register, Expire
  <2>6. QED BY <2>1, <2>2, <2>3, <2>4, <2>5, <2>7 DEF CallStep
<1>2. QED BY <1>1 DEF Connects, Owned, Unopened, Started, HandsFree

(* A reader's step: where it goes, what it holds, what it leaves alone.    *)
LEMMA ReaderEffect ==
  ASSUME TypeOK, NEW k \in Readers, ReaderStep(k)
  PROVE  /\ UNCHANGED <<mySock, opened, pc, pkt, result, link, epoch, seqNo,
                        sock, closed, overlap>>
         /\ rpc[k] # "off"
         /\ \A j \in Readers : rpc'[j] # "off" <=> rpc[j] # "off"
         /\ \A j \in Readers \ {k} : rpc'[j] = rpc[j] /\ chunk'[j] = chunk[j]
         /\ \/ rpc'[k] \in {"got", "ack"}
            \/ chunk'[k] = None
            \/ chunk'[k] = chunk[k] /\ rpc[k] \notin {"got", "ack"}
         /\ \A s \in Socks : asked'[s] \subseteq asked[s]
         /\ \A a \in acks' : a \in acks \/ a[1] = sock
<1>0. /\ DOMAIN rpc = Readers /\ DOMAIN chunk = Readers
      /\ DOMAIN asked = Socks
  BY DEF TypeOK, NetworkType, ReaderType
<1> USE DEF objVars, netVars, threadVars, readerVars, ReaderGo, Receiving
<1>1. CASE ReaderTest(k) \/ ReaderCrash(k) \/ ReaderBlock(k)
  BY <1>0, <1>1 DEF ReaderTest, ReaderCrash, ReaderBlock
<1>2. CASE ReaderLost(k) \/ ReaderWake(k)
  BY <1>0, <1>2 DEF ReaderLost, RecvEnds, ReaderWake
<1>3. CASE ReaderAnswer(k)
  BY <1>0, <1>3 DEF ReaderAnswer
<1>4. CASE ReaderQuery(k)
  BY <1>0, <1>4 DEF ReaderQuery
<1>5. CASE \/ DispatchAnswer(k) \/ DispatchQuery(k) \/ DispatchDrop(k)
           \/ DispatchAck(k)
  <2>1. UNCHANGED <<mySock, opened, pc, pkt, result, link, epoch, seqNo, sock,
                    closed, overlap, asked>>
    BY <1>5, Zenon DEF DispatchAnswer, DispatchQuery, DispatchDrop, DispatchAck
  <2>2. /\ rpc[k] \in {"got", "ack"}
        /\ \/ rpc' = [rpc EXCEPT ![k] = "test"]
              /\ chunk' = [chunk EXCEPT ![k] = None]
           \/ rpc' = [rpc EXCEPT ![k] = "ack"] /\ chunk' = chunk
    BY <1>5 DEF DispatchAnswer, DispatchQuery, DispatchDrop, DispatchAck
  <2>3. \A a \in acks' : a \in acks \/ a[1] = sock
    BY <1>5 DEF DispatchAnswer, DispatchQuery, DispatchDrop, DispatchAck
  <2>4. QED BY <1>0, <2>1, <2>2, <2>3
<1>6. QED
  BY <1>1, <1>2, <1>3, <1>4, <1>5 DEF ReaderStep

LEMMA ConnectsByReaders ==
  ASSUME TypeOK, Connects, NEW k \in Readers, ReaderStep(k)
  PROVE  Connects'
<1>1. sock \in 0..opened /\ opened \in Nat
  BY DEF TypeOK, ObjectType, NetworkType
<1>2. Owned' /\ Started'
  BY ReaderEffect, ConnectionAssumption
  DEF Connects, Owned, Started, TypeOK, ThreadType, ObjectType
<1>3. Unopened'
  BY <1>1, ReaderEffect DEF Connects, Unopened
<1>4. HandsFree'
  BY ReaderEffect DEF Connects, HandsFree
<1>5. QED BY <1>2, <1>3, <1>4 DEF Connects

LEMMA ConnectsKept == TypeOK /\ Connects /\ [Next]_vars => Connects'
<1> SUFFICES ASSUME TypeOK, Connects, [Next]_vars PROVE Connects'
  OBVIOUS
<1>1. CASE \E s \in Socks : LaserDrop(s)
  BY <1>1
  DEF LaserDrop, TypeOK, NetworkType, Connects, Owned, Unopened, Started,
      HandsFree, objVars, threadVars, readerVars
<1>2. CASE UNCHANGED vars
  BY <1>2
  DEF Connects, Owned, Unopened, Started, HandsFree, vars, objVars, netVars,
      threadVars, readerVars
<1>3. CASE \E c \in Clients :
             ConnectOpen(c) \/ ConnectStep(c) \/ Disconnect(c)
  BY <1>3, ConnectsByConnect
<1>4. CASE \E t \in Threads : CallStep(t)
  BY <1>4, ConnectsByCalls
<1>5. CASE \E c \in Clients, cmd \in Cmds : Request(c, cmd)
  BY <1>5, ConnectsByCalls DEF Request
<1>6. CASE \E h \in Heartbeats : HeartbeatStep(h)
  BY <1>6, ConnectsByCalls
<1>7. CASE \E k \in Readers : ReaderStep(k)
  BY <1>7, ConnectsByReaders
<1>8. QED
  BY <1>1, <1>2, <1>3, <1>4, <1>5, <1>6, <1>7 DEF Next

-----------------------------------------------------------------------------
(* Where requests are and what numbers they have.                          *)
HeldAt(p, x) ==
  \/ \E s \in Socks : x = <<"sock", s>> /\ p \in asked[s]
  \/ \E k \in Readers : x = <<"reader", k>> /\ chunk[k] = p
  \/ \E s \in Seqs : /\ x = <<"pending", s>>
                     /\ pending[s] # None /\ pending[s].answer = p
  \/ \E c \in Clients : x = <<"returned", c>> /\ result[c] = p

LEMMA HoldersAre ==
  ASSUME NEW p, NEW x
  PROVE  x \in Holders(p) <=> HeldAt(p, x)
BY DEF Holders, HeldAt

Same(p, q) == p.epoch = q.epoch /\ p.seq = q.seq
(* The number was given: after an earlier reset, or since the last one.    *)
Numbered(p) ==
  /\ p.epoch # 0 => rpc[p.epoch] # "off"
  /\ p.epoch = epoch => p.seq <= seqNo
Unsent(t) == pc[t] \in {"built", "registered"}

(* No number is given twice; a packet is held nowhere before it is sent,   *)
(* and then in one place.                                                  *)
Numbers ==
  /\ \A p \in Requests : \A x : HeldAt(p, x) => Numbered(p)
  /\ \A t \in Threads : pkt[t] # None => Numbered(pkt[t])
  /\ \A t, u \in Threads :
       pkt[t] # None /\ pkt[u] # None /\ Same(pkt[t], pkt[u]) => t = u
  /\ \A t \in Threads : \A p \in Requests : \A x :
       pkt[t] # None /\ HeldAt(p, x) /\ Same(p, pkt[t]) => p = pkt[t]
  /\ \A t \in Threads : Unsent(t) => \A x : ~HeldAt(pkt[t], x)
  /\ \A p \in Requests : \A x, y : HeldAt(p, x) /\ HeldAt(p, y) => x = y

(* A step that puts no packet anywhere.                                    *)
LEMMA NothingHeldAnew ==
  ASSUME Numbers,
         \A p \in Requests : \A x : HeldAt(p, x)' => HeldAt(p, x),
         \A p \in Requests : Numbered(p) => Numbered(p)',
         \A t \in Threads : pkt'[t] # None => pkt'[t] = pkt[t]
                                              /\ pkt[t] \in Requests,
         \A t \in Threads : Unsent(t)' => Unsent(t) /\ pkt'[t] # None
  PROVE  Numbers'
BY DEF Numbers

(* A step that puts one packet, q, to one place, y.                        *)
LEMMA OneMoves ==
  ASSUME Numbers, NEW q \in Requests, NEW y,
         \A p \in Requests : \A x : HeldAt(p, x)' =>
           (p # q /\ HeldAt(p, x)) \/ (p = q /\ x = y),
         \A p \in Requests : Numbered(p) => Numbered(p)',
         \A t \in Threads : pkt'[t] # None => pkt'[t] = pkt[t]
                                              /\ pkt[t] \in Requests,
         \A t \in Threads : Unsent(t)' => Unsent(t) /\ pkt'[t] # None
                                          /\ pkt[t] # q,
         \/ \E x : HeldAt(q, x)
         \/ \E t \in Threads : pkt[t] = q /\ pkt[t] # None
  PROVE  Numbers'
<1>1. \A p \in Requests : \A x : HeldAt(p, x)' => Numbered(p)
  BY DEF Numbers
<1>2. \A t \in Threads : \A p \in Requests : \A x :
        pkt'[t] # None /\ HeldAt(p, x)' /\ Same(p, pkt'[t]) => p = pkt'[t]
  BY DEF Numbers
<1>3. QED BY <1>1, <1>2 DEF Numbers

LEMMA HeldNoMore ==
  ASSUME \A s \in Socks : asked'[s] \subseteq asked[s],
         \A k \in Readers : chunk'[k] = chunk[k] \/ chunk'[k] \notin Requests,
         \A s \in Seqs : \/ pending'[s] = None \/ pending'[s] = pending[s]
                         \/ pending'[s].answer \notin Requests,
         \A c \in Clients : result'[c] = result[c] \/ result'[c] \notin Requests
  PROVE  \A p \in Requests : \A x : HeldAt(p, x)' => HeldAt(p, x)
BY DEF HeldAt

LEMMA NoRequests == None \notin Requests /\ LaserQueries \cap Requests = {}
                    /\ None \notin LaserQueries
<1>1. None \notin Packets
  BY NoneAssumption
<1>2. LaserQueries \cap Requests = {}
  <2> SUFFICES ASSUME NEW p \in LaserQueries, p \in Requests PROVE FALSE
    OBVIOUS
  <2>1. p.epoch = -1 /\ p.epoch \in 0..MaxConn
    BY DEF LaserQueries, Requests, Laser
  <2>2. QED BY <2>1, ConnectionAssumption
<1>3. QED BY <1>1, <1>2 DEF Packets

LEMMA NumbersInit == Init => Numbers
<1> SUFFICES ASSUME Init PROVE Numbers
  OBVIOUS
<1>1. \A p \in Requests : \A x : ~HeldAt(p, x)
  BY NoRequests DEF Init, HeldAt
<1>2. \A t \in Threads : pkt[t] = None /\ ~Unsent(t)
  BY DEF Init, Unsent
<1>3. QED BY <1>1, <1>2 DEF Numbers

(* A reset gives the builder an epoch of its own.                          *)
LEMMA NumbersByConnect ==
  ASSUME TypeOK, Connects, Numbers, NEW c \in Clients,
         ConnectOpen(c) \/ ConnectStep(c) \/ Disconnect(c)
  PROVE  Numbers'
<1>0. /\ DOMAIN pc = Threads /\ DOMAIN rpc = Socks /\ epoch \in 0..MaxConn
      /\ pc[c] = "resetting" => mySock[c] \in Socks
      /\ \A t \in Threads : pkt[t] \in Requests \cup {None}
      /\ \A t \in Threads : Unsent(t) => pkt[t] \in Requests
      /\ \A t \in Threads : pkt[t] \in Requests \cup {None}
  BY ConnectionAssumption
  DEF TypeOK, ObjectType, NetworkType, ThreadType, ReaderType, Unsent, CallPCs
<1>1. /\ UNCHANGED <<asked, chunk, result, pkt>>
      /\ \A s \in Seqs : pending'[s] \in {None, pending[s]}
      /\ \A t \in Threads : Unsent(t)' => Unsent(t)
  <2> USE DEF objVars, netVars, readerVars, ConnectReturn, Unsent
  <2>1. CASE ConnectOpen(c)
    BY <1>0, <2>1 DEF ConnectOpen
  <2>2. CASE ConnectEstablished(c)
    <3>1. CASE sock # 0
      BY <1>0, <2>2, <3>1 DEF ConnectEstablished
    <3>2. CASE sock = 0
      BY <1>0, <2>2, <3>2 DEF ConnectEstablished
    <3>3. QED BY <3>1, <3>2
  <2>3. CASE ConnectFail(c)
    BY <1>0, <2>3 DEF ConnectFail
  <2>4. CASE ConnectReset(c)
    BY <1>0, <2>4 DEF ConnectReset
  <2>5. CASE Disconnect(c)
    BY <1>0, <2>5 DEF Disconnect
  <2>6. CASE DisconnectForget(c)
    BY <1>0, <2>6 DEF DisconnectForget
  <2>7. QED BY <2>1, <2>2, <2>3, <2>4, <2>5, <2>6 DEF ConnectStep
<1>2. \A p \in Requests : Numbered(p) => Numbered(p)'
  <2>1. CASE ConnectReset(c)
    <3>1. /\ epoch' = mySock[c] /\ mySock[c] # 0 /\ rpc[mySock[c]] = "off"
          /\ rpc' = [rpc EXCEPT ![mySock[c]] = "test"]
      BY <1>0, <2>1 DEF ConnectReset, Connects, Owned
    <3>2. \A p \in Requests : p.epoch \in 0..MaxConn
      BY DEF Requests
    <3>3. QED BY <1>0, <3>1, <3>2 DEF Numbered
  <2>2. CASE ~ConnectReset(c)
    <3>1. UNCHANGED <<rpc, epoch, seqNo>>
      BY <2>2, Zenon
      DEF ConnectOpen, ConnectStep, ConnectEstablished, ConnectFail,
          Disconnect, DisconnectForget, readerVars
    <3>2. QED BY <3>1 DEF Numbered
  <2>3. QED BY <2>1, <2>2
<1>3. \A p \in Requests : \A x : HeldAt(p, x)' => HeldAt(p, x)
  BY <1>1, HeldNoMore
<1>4. QED BY <1>0, <1>1, <1>2, <1>3, NothingHeldAnew, NoRequests

(* A new number is larger than those given since the last reset.           *)
LEMMA NumbersByBuild ==
  ASSUME TypeOK, Connects, Numbers, NEW t \in Threads, NEW cmd \in Cmds,
         Build(t, cmd)
  PROVE  Numbers'
<1> PICK q : q = [epoch |-> epoch, seq |-> seqNo + 1, cmd |-> cmd]
  OBVIOUS
<1>0. /\ DOMAIN pc = Threads /\ DOMAIN pkt = Threads
      /\ DOMAIN result = Threads /\ seqNo \in Nat /\ seqNo + 1 \in Seqs
      /\ epoch \in 0..MaxConn /\ q \in Requests
      /\ \A u \in Threads : pkt[u] \in Requests \cup {None}
      /\ \A u \in Threads : Unsent(u) => pkt[u] \in Requests
  BY ConnectionAssumption
  DEF TypeOK, ObjectType, ThreadType, Requests, Unsent, CallPCs, Build, Fits
<1>1. /\ UNCHANGED <<asked, chunk, pending, rpc, epoch>>
      /\ seqNo' = seqNo + 1 /\ pkt' = [pkt EXCEPT ![t] = q]
      /\ result' = [result EXCEPT ![t] = None]
      /\ pc' = [pc EXCEPT ![t] = "built"]
  BY DEF Build, netVars, readerVars
<1>2. \A p \in Requests : \A x : HeldAt(p, x)' => HeldAt(p, x)
  <2>1. \A c \in Clients : result'[c] = result[c] \/ result'[c] \notin Requests
    BY <1>0, <1>1, NoRequests
  <2>2. QED BY <1>1, <2>1, HeldNoMore
<1>3. \A p \in Requests : p.epoch \in 0..MaxConn /\ p.seq \in Nat
  BY ConnectionAssumption DEF Requests
<1>4. \A p \in Requests : Numbered(p) => Numbered(p)' /\ ~Same(p, q)
  BY <1>0, <1>1, <1>3 DEF Numbered, Same
<1>5. Numbered(q)' /\ q \in Requests
  BY <1>0, <1>1 DEF Numbered, Connects, Started
<1>6. \A u \in Threads : IF u = t THEN pkt'[u] = q /\ q # None
                         ELSE pkt'[u] = pkt[u] /\ (Unsent(u)' <=> Unsent(u))
  BY <1>0, <1>1, NoRequests DEF Unsent
<1>7. \A x : ~HeldAt(q, x)
  BY <1>0, <1>4 DEF Numbers, Same
<1>8. \A u \in Threads : pkt[u] # None => ~Same(pkt[u], q)
  BY <1>0, <1>4 DEF Numbers
<1>9. \A p \in Requests : \A x : HeldAt(p, x)' => ~Same(p, q)
  BY <1>2, <1>4 DEF Numbers
<1>10. \A p \in Requests : \A x : HeldAt(p, x)' => Numbered(p)'
  BY <1>2, <1>4 DEF Numbers
<1>11. \A u, v \in Threads :
         pkt'[u] # None /\ pkt'[v] # None /\ Same(pkt'[u], pkt'[v]) => u = v
  <2> SUFFICES ASSUME NEW u \in Threads, NEW v \in Threads,
                      pkt'[u] # None, pkt'[v] # None, Same(pkt'[u], pkt'[v]),
                      u # v
               PROVE  FALSE
    OBVIOUS
  <2>1. CASE u = t
    BY <1>6, <1>8, <2>1 DEF Same
  <2>2. CASE v = t
    BY <1>6, <1>8, <2>2 DEF Same
  <2>3. CASE u # t /\ v # t
    BY <1>6, <2>3 DEF Numbers
  <2>4. QED BY <2>1, <2>2, <2>3
<1>12. \A u \in Threads : pkt'[u] # None => Numbered(pkt[u])'
  BY <1>0, <1>4, <1>5, <1>6 DEF Numbers
<1>13. \A u \in Threads : \A p \in Requests : \A x :
         pkt'[u] # None /\ HeldAt(p, x)' /\ Same(p, pkt'[u]) => p = pkt'[u]
  BY <1>2, <1>6, <1>9 DEF Numbers
<1>14. \A u \in Threads : Unsent(u)' => \A x : ~HeldAt(pkt[u], x)'
  <2> SUFFICES ASSUME NEW u \in Threads, Unsent(u)', NEW x,
                      HeldAt(pkt[u], x)'
               PROVE  FALSE
    OBVIOUS
  <2>1. CASE u = t
    BY <1>2, <1>5, <1>6, <1>7, <2>1
  <2>2. CASE u # t
    BY <1>0, <1>2, <1>6, <2>2 DEF Numbers
  <2>3. QED BY <2>1, <2>2
<1>15. QED
  BY <1>2, <1>10, <1>11, <1>12, <1>13, <1>14 DEF Numbers

(* What the way out of a call does to the packets.                         *)
LEMMA ReturnEffect ==
  ASSUME TypeOK, NEW t \in Threads, NEW answer \in Packets \cup {None},
         GiveBack(t, answer)
  PROVE  /\ \A u \in Threads : pkt'[u] # None => pkt'[u] = pkt[u]
         /\ \A u \in Threads : Unsent(u)' => u # t /\ Unsent(u) /\ pkt'[u] = pkt[u]
         /\ \A c \in Clients : result'[c] = IF c = t THEN answer ELSE result[c]
<1>1. DOMAIN pc = Threads /\ DOMAIN pkt = Threads /\ DOMAIN result = Threads
      /\ Clients \subseteq Threads
  BY DEF TypeOK, ThreadType
<1>2. QED BY <1>1 DEF GiveBack, Unsent

LEMMA NumbersByCall ==
  ASSUME TypeOK, Numbers, NEW t \in Threads, CallStep(t)
  PROVE  Numbers'
<1>0. /\ DOMAIN pc = Threads /\ DOMAIN asked = Socks
      /\ pending \in [Seqs -> Entries \cup {None}]
      /\ \A u \in Threads : pkt[u] \in Requests \cup {None}
      /\ \A u \in Threads : InFlight(u) => pkt[u] \in Requests
      /\ \A p \in Requests : p.seq \in Seqs
      /\ InFlight(t)
  BY DEF TypeOK, ObjectType, NetworkType, ThreadType, InFlight, CallPCs,
         Requests, CallStep, NotConnected, Register, Transmit, SendError,
         Collect, Expire, Withdraw
<1>1. UNCHANGED <<rpc, epoch, seqNo, chunk>>
  BY DEF CallStep, NotConnected, Register, Transmit, SendError, Collect,
         Expire, Withdraw, objVars, netVars, readerVars, Return, GiveBack
<1>2. \A p \in Requests : Numbered(p) => Numbered(p)'
  BY <1>1 DEF Numbered
<1>3. \A u \in Threads : Unsent(u) => InFlight(u)
  BY DEF Unsent, InFlight, CallPCs
<1> USE DEF objVars, netVars, readerVars
<1>4. CASE Register(t) \/ Expire(t)
  <2>1. /\ UNCHANGED <<asked, result, pkt>>
        /\ \A u \in Threads : Unsent(u)' => Unsent(u)
        /\ \A s \in Seqs : \/ pending'[s] = pending[s]
                           \/ pending'[s].answer = None
    <3>1. CASE Register(t)
      <4>1. pkt[t].seq \in Seqs
        BY <1>0
      <4>2. \A s \in Seqs : \/ pending'[s] = pending[s]
                            \/ pending'[s].answer = None
        BY <1>0, <3>1, <4>1 DEF Register
      <4>3. QED BY <1>0, <3>1, <4>2 DEF Register, Unsent
    <3>2. CASE Expire(t)
      BY <1>0, <3>2 DEF Expire, Unsent
    <3>3. QED BY <1>4, <3>1, <3>2
  <2>2. QED
    BY <1>0, <1>1, <1>2, <1>3, <2>1, NoRequests, HeldNoMore, NothingHeldAnew
<1>5. CASE NotConnected(t) \/ SendError(t) \/ Withdraw(t)
  <2>1. /\ GiveBack(t, None) /\ UNCHANGED asked
        /\ \A s \in Seqs : pending'[s] \in {None, pending[s]}
    BY <1>0, <1>5 DEF NotConnected, SendError, Withdraw, Return
  <2>2. \A c \in Clients : result'[c] = result[c] \/ result'[c] \notin Requests
    BY <2>1, ReturnEffect, NoRequests
  <2>3. \A p \in Requests : \A x : HeldAt(p, x)' => HeldAt(p, x)
    BY <1>1, <2>1, <2>2, HeldNoMore
  <2>4. \A u \in Threads : Unsent(u)' => Unsent(u) /\ pkt'[u] # None
    BY <1>0, <1>3, <2>1, ReturnEffect, NoRequests
  <2>5. \A u \in Threads : pkt'[u] # None => pkt'[u] = pkt[u]
                                             /\ pkt[u] \in Requests
    BY <1>0, <2>1, ReturnEffect
  <2>6. QED BY <1>2, <2>3, <2>4, <2>5, NothingHeldAnew
<1>6. CASE Transmit(t)
  <2>1. /\ UNCHANGED <<pending, result, pkt>>
        /\ \A u \in Threads : Unsent(u)' => Unsent(u) /\ u # t
        /\ \/ asked' = [asked EXCEPT ![sock] = @ \cup {pkt[t]}]
           \/ asked' = asked
    BY <1>0, <1>6 DEF Transmit, Unsent
  <2>2. Unsent(t)
    BY <1>6 DEF Transmit, Unsent
  <2>3. CASE asked' = asked
    BY <1>0, <1>1, <1>2, <1>3, <2>1, <2>3, NoRequests, HeldNoMore,
       NothingHeldAnew
  <2>4. CASE asked' = [asked EXCEPT ![sock] = @ \cup {pkt[t]}]
    <3> DEFINE q == pkt[t]  y == <<"sock", sock>>
    <3>1. q \in Requests /\ q # None
      BY <1>0, NoRequests
    <3>2. \A p \in Requests : \A x : HeldAt(p, x)' =>
            HeldAt(p, x) \/ (p = q /\ x = y)
      BY <1>0, <1>1, <2>1, <2>4 DEF HeldAt
    <3>3. \A x : ~HeldAt(q, x)
      BY <2>2 DEF Numbers
    <3>4. \A p \in Requests : \A x : HeldAt(p, x)' =>
            (p # q /\ HeldAt(p, x)) \/ (p = q /\ x = y)
      BY <3>2, <3>3
    <3>5. \A u \in Threads : Unsent(u)' => Unsent(u) /\ pkt'[u] # None
                                           /\ pkt[u] # q
      BY <1>0, <1>3, <2>1, <3>1, NoRequests DEF Numbers, Same
    <3>6. \A u \in Threads : pkt'[u] # None => pkt'[u] = pkt[u]
                                               /\ pkt[u] \in Requests
      BY <1>0, <2>1
    <3> HIDE DEF q, y
    <3>7. \E u \in Threads : pkt[u] = q /\ pkt[u] # None
      BY <3>1 DEF q
    <3>8. QED BY <1>2, <3>1, <3>4, <3>5, <3>6, <3>7, OneMoves
  <2>5. QED BY <2>1, <2>3, <2>4
<1>7. CASE Collect(t)
  <2> DEFINE e == pending[pkt[t].seq]
             answer == IF e = None THEN None ELSE e.answer
             y == <<"returned", t>>  z == <<"pending", pkt[t].seq>>
  <2>1. pkt[t].seq \in Seqs /\ e \in Entries \cup {None}
    BY <1>0
  <2>2. answer \in Packets \cup {None}
    BY <2>1 DEF Entries
  <2>3. /\ GiveBack(t, answer) /\ UNCHANGED asked
        /\ pending' = [pending EXCEPT ![pkt[t].seq] = None]
    BY <1>7 DEF Collect, Return
  <2>4. answer # None => HeldAt(answer, z)
    BY <2>1 DEF HeldAt
  <2>5. \A p \in Requests : \A x : HeldAt(p, x)' =>
          (HeldAt(p, x) /\ x # z) \/ (p = answer /\ x = y)
    <3> HIDE DEF answer
    <3>1. \A c \in Clients : result'[c] = IF c = t THEN answer ELSE result[c]
      BY <2>2, <2>3, ReturnEffect
    <3>2. \A s \in Seqs : pending'[s] = IF s = pkt[t].seq THEN None
                                        ELSE pending[s]
      BY <1>0, <2>3
    <3>3. QED BY <1>1, <2>1, <2>3, <3>1, <3>2 DEF HeldAt
  <2> HIDE DEF answer, y, z
  <2>6. \A u \in Threads : pkt'[u] # None => pkt'[u] = pkt[u]
                                             /\ pkt[u] \in Requests
    BY <1>0, <2>2, <2>3, ReturnEffect
  <2>7. \A u \in Threads : Unsent(u)' => Unsent(u) /\ pkt'[u] # None
                                         /\ pkt'[u] = pkt[u]
    BY <1>0, <1>3, <2>2, <2>3, ReturnEffect, NoRequests
  <2>8. CASE answer \in Requests
    <3>1. \A p \in Requests : \A x : HeldAt(p, x)' =>
            (p # answer /\ HeldAt(p, x)) \/ (p = answer /\ x = y)
      BY <2>4, <2>5, <2>8, NoRequests DEF Numbers
    <3>2. \A u \in Threads : Unsent(u)' => pkt[u] # answer
      BY <2>4, <2>7, <2>8, NoRequests DEF Numbers
    <3>3. \E x : HeldAt(answer, x)
      BY <2>4, <2>8, NoRequests
    <3>4. QED BY <1>2, <2>6, <2>7, <2>8, <3>1, <3>2, <3>3, OneMoves
  <2>9. CASE answer \notin Requests
    BY <1>2, <2>5, <2>6, <2>7, <2>9, NothingHeldAnew
  <2>10. QED BY <2>8, <2>9
<1>8. QED BY <1>4, <1>5, <1>6, <1>7 DEF CallStep

(* A packet taken from one place and put to another.                       *)
LEMMA OneIsMoved ==
  ASSUME Numbers, NEW q, NEW y, NEW z, HeldAt(q, z), HeldAt(q, y)',
         \A p \in Requests : \A x : HeldAt(p, x)' =>
           \/ HeldAt(p, x) /\ ~(p = q /\ x = z)
           \/ p = q /\ x = y,
         \A p \in Requests : Numbered(p) => Numbered(p)',
         \A t \in Threads : pkt[t] # None => pkt[t] \in Requests,
         \A t \in Threads : Unsent(t) => pkt[t] # None,
         UNCHANGED <<pkt, pc>>
  PROVE  Numbers'
<1>1. \A t \in Threads : Unsent(t)' <=> Unsent(t)
  BY DEF Unsent
<1>2. CASE q \in Requests
  <2>1. \A p \in Requests : \A x : HeldAt(p, x)' =>
          (p # q /\ HeldAt(p, x)) \/ (p = q /\ x = y)
    BY <1>2 DEF Numbers
  <2>2. \A t \in Threads : Unsent(t) => pkt[t] # q
    BY DEF Numbers
  <2>3. QED BY <1>1, <1>2, <2>1, <2>2, OneMoves
<1>3. CASE q \notin Requests
  BY <1>1, <1>3, NothingHeldAnew
<1>4. QED BY <1>2, <1>3

LEMMA NumbersByReader ==
  ASSUME TypeOK, Numbers, NEW k \in Readers, ReaderStep(k)
  PROVE  Numbers'
<1>0. /\ DOMAIN asked = Socks /\ DOMAIN chunk = Readers
      /\ pending \in [Seqs -> Entries \cup {None}]
      /\ rpc[k] \in Receiving => rsock[k] \in Socks
      /\ \A t \in Threads : pkt[t] # None => pkt[t] \in Requests
      /\ \A t \in Threads : Unsent(t) => pkt[t] # None
  BY NoRequests
  DEF TypeOK, ObjectType, NetworkType, ThreadType, ReaderType, Unsent, CallPCs
<1>1. /\ UNCHANGED <<pc, pkt, result, epoch, seqNo>>
      /\ \A j \in Readers : rpc'[j] # "off" <=> rpc[j] # "off"
      /\ \A s \in Socks : asked'[s] \subseteq asked[s]
  BY ReaderEffect
<1>2. \A p \in Requests : Numbered(p) => Numbered(p)'
  BY <1>1, ConnectionAssumption DEF Numbered, Requests
<1>7. UNCHANGED <<pkt, pc>>
  BY <1>1
<1>8. /\ \A t \in Threads : pkt[t] # None => pkt[t] \in Requests
      /\ \A t \in Threads : Unsent(t) => pkt[t] # None
  BY <1>0
<1>3. CASE ReaderAnswer(k)
  <2>1. PICK q \in asked[rsock[k]] :
          /\ asked' = [asked EXCEPT ![rsock[k]] = @ \ {q}]
          /\ chunk' = [chunk EXCEPT ![k] = q]
    BY <1>3 DEF ReaderAnswer
  <2>2. rsock[k] \in Socks /\ pending' = pending
    BY <1>0, <1>3 DEF ReaderAnswer, objVars
  <2> DEFINE z == <<"sock", rsock[k]>>  y == <<"reader", k>>
  <2>3. HeldAt(q, z)
    BY <2>1, <2>2 DEF HeldAt
  <2>4. \A p \in Requests : \A x : HeldAt(p, x)' =>
          \/ HeldAt(p, x) /\ ~(p = q /\ x = z)
          \/ p = q /\ x = y
    BY <1>0, <1>1, <2>1, <2>2 DEF HeldAt
  <2>5. HeldAt(q, y)'
    BY <1>0, <2>1 DEF HeldAt
  <2> HIDE DEF y, z
  <2>6. QED BY <1>2, <1>7, <1>8, <2>3, <2>4, <2>5, OneIsMoved
<1>4. CASE DispatchAnswer(k)
  <2>1. PICK s \in Awaited(chunk[k]) :
          pending' = [pending EXCEPT ![s].answer = chunk[k]]
    BY <1>4 DEF DispatchAnswer
  <2>2. /\ s \in Seqs /\ pending[s] \in Entries
        /\ asked' = asked /\ chunk' = [chunk EXCEPT ![k] = None]
    BY <1>0, <1>4, <2>1 DEF DispatchAnswer, Awaited, netVars
  <2> PICK q : q = chunk[k]
    OBVIOUS
  <2> DEFINE z == <<"reader", k>>  y == <<"pending", s>>
  <2>3. HeldAt(q, z)
    BY DEF HeldAt
  <2>4. \A n \in Seqs : IF n = s THEN pending'[n].answer = q
                        ELSE pending'[n] = pending[n]
    BY <1>0, <2>1, <2>2 DEF Entries
  <2>5. \A p \in Requests : \A x : HeldAt(p, x)' =>
          \/ HeldAt(p, x) /\ ~(p = q /\ x = z)
          \/ p = q /\ x = y
    BY <1>0, <1>1, <2>2, <2>4, NoRequests DEF HeldAt
  <2>7. HeldAt(q, y)'
    <3>1. q \in Packets
      BY <1>4 DEF DispatchAnswer, TypeOK, ReaderType
    <3>2. pending'[s] # None
      BY <1>0, <2>1, <2>2, <3>1, NoneAssumption DEF Entries
    <3>3. QED BY <2>2, <2>4, <3>2 DEF HeldAt
  <2> HIDE DEF y, z
  <2>6. QED BY <1>2, <1>7, <1>8, <2>3, <2>5, <2>7, OneIsMoved
<1>5. CASE ~ReaderAnswer(k) /\ ~DispatchAnswer(k)
  <2>1. /\ pending' = pending
        /\ \/ chunk' = chunk
           \/ chunk' = [chunk EXCEPT ![k] = None]
           \/ \E q \in LaserQueries : chunk' = [chunk EXCEPT ![k] = q]
    BY <1>5
    DEF ReaderStep, ReaderTest, ReaderCrash, ReaderBlock, ReaderLost,
        ReaderQuery, DispatchQuery, DispatchDrop, DispatchAck, ReaderWake,
        objVars
  <2>2. \A j \in Readers : chunk'[j] = chunk[j] \/ chunk'[j] \notin Requests
    BY <1>0, <2>1, NoRequests
  <2>3. \A p \in Requests : \A x : HeldAt(p, x)' => HeldAt(p, x)
    BY <1>1, <2>1, <2>2, HeldNoMore
  <2>4. QED BY <1>0, <1>1, <1>2, <2>3, NothingHeldAnew DEF Unsent
<1>6. QED BY <1>3, <1>4, <1>5

LEMMA NumbersKept == TypeOK /\ Connects /\ Numbers /\ [Next]_vars => Numbers'
<1> SUFFICES ASSUME TypeOK, Connects, Numbers, [Next]_vars PROVE Numbers'
  OBVIOUS
<1>0. /\ \A t \in Threads : pkt[t] # None => pkt[t] \in Requests
      /\ \A t \in Threads : Unsent(t) => pkt[t] # None
      /\ DOMAIN asked = Socks /\ DOMAIN pc = Threads
  BY NoRequests DEF TypeOK, NetworkType, ThreadType, Unsent, CallPCs
<1>1. ASSUME /\ UNCHANGED <<pkt, chunk, pending, result, epoch, seqNo, rpc>>
             /\ \A s \in Socks : asked'[s] \subseteq asked[s]
             /\ \A t \in Threads : Unsent(t)' => Unsent(t)
      PROVE  Numbers'
  <2>1. \A p \in Requests : \A x : HeldAt(p, x)' => HeldAt(p, x)
    BY <1>1, HeldNoMore
  <2>2. \A p \in Requests : Numbered(p) => Numbered(p)'
    BY <1>1 DEF Numbered
  <2>3. QED BY <1>0, <1>1, <2>1, <2>2, NothingHeldAnew
<1>2. CASE \E s \in Socks : LaserDrop(s)
  BY <1>0, <1>1, <1>2
  DEF LaserDrop, objVars, threadVars, readerVars, Unsent
<1>3. CASE UNCHANGED vars
  BY <1>1, <1>3
  DEF vars, objVars, netVars, threadVars, readerVars, Unsent
<1>4. CASE \E c \in Clients :
             ConnectOpen(c) \/ ConnectStep(c) \/ Disconnect(c)
  BY <1>4, NumbersByConnect
<1>5. CASE \E t \in Threads : CallStep(t)
  BY <1>5, NumbersByCall
<1>6. CASE \E c \in Clients, cmd \in Cmds : Request(c, cmd)
  BY <1>6, NumbersByBuild DEF Request
<1>7. CASE \E h \in Heartbeats : HeartbeatStep(h)
  <2>1. CASE \E h \in Heartbeats : HeartbeatSend(h)
    BY <2>1, NumbersByBuild, ConnectionAssumption DEF HeartbeatSend
  <2>2. CASE \E h \in Heartbeats : HeartbeatTest(h) \/ HeartbeatSkip(h)
    BY <1>0, <1>1, <2>2
    DEF HeartbeatTest, HeartbeatSkip, objVars, netVars, readerVars, Unsent
  <2>3. QED BY <1>7, <2>1, <2>2 DEF HeartbeatStep
<1>8. CASE \E k \in Readers : ReaderStep(k)
  BY <1>8, NumbersByReader
<1>9. QED
  BY <1>2, <1>3, <1>4, <1>5, <1>6, <1>7, <1>8 DEF Next

LEMMA NumbersAlways == Spec => [](TypeOK /\ Connects /\ Numbers)
BY InitType, TypeKept, ConnectsInit, ConnectsKept, NumbersInit, NumbersKept,
   PTL DEF Spec

(* However connections are replaced and calls overlap, an answer of the    *)
(* laser is given to one call, and to that one once.                       *)
THEOREM NoAnswerTwice == Spec => []AnsweredOnce
<1>1. Numbers => AnsweredOnce
  BY HoldersAre DEF Numbers, AnsweredOnce
<1>2. QED BY <1>1, NumbersAlways, PTL

-----------------------------------------------------------------------------
(* As long as no reset met unfinished business, every request that may     *)
(* still be answered was numbered since the last reset.                    *)
Current(p) == p \in Requests => p.epoch = epoch
InCalls    == \A t \in Threads : InFlight(t) => Current(pkt[t])
InTable    == \A s \in Seqs : pending[s] # None => Current(pending[s].answer)
InReaders  == \A k \in Readers : Current(chunk[k])
OnSocket   == sock # 0 => \A p \in asked[sock] : Current(p)
OnReading  == \A k \in Readers : rpc[k] \in Receiving =>
                \A p \in asked[rsock[k]] : Current(p)
Fresh == ~overlap =>
  InCalls /\ InTable /\ InReaders /\ OnSocket /\ OnReading
Matched == Fresh /\ AnswerMatches

LEMMA MatchedInit == Init => Matched
BY ConnectionAssumption, NoRequests
DEF Init, Matched, Fresh, AnswerMatches, InCalls, InTable, InReaders,
    OnSocket, OnReading, InFlight, CallPCs, Receiving, Current

LEMMA MatchedByConnect ==
  ASSUME TypeOK, Connects, Matched, NEW c \in Clients,
         ConnectOpen(c) \/ ConnectStep(c) \/ Disconnect(c)
  PROVE  Matched'
<1>0. /\ DOMAIN pc = Threads /\ DOMAIN rpc = Socks
      /\ opened \in Nat /\ sock \in 0..opened
      /\ pc[c] = "resetting" => mySock[c] \in Socks
  BY ConnectionAssumption
  DEF TypeOK, ObjectType, NetworkType, ThreadType, ReaderType
<1>1. UNCHANGED <<asked, chunk, result, pkt, rsock>>
  BY Zenon
  DEF ConnectOpen, ConnectStep, ConnectEstablished, ConnectFail, ConnectReset,
      Disconnect, DisconnectForget, objVars, netVars, threadVars, readerVars
<1>2. CASE ConnectReset(c)
  <2>1. AnswerMatches'
    BY <1>1, <1>2 DEF ConnectReset, Matched, AnswerMatches
  <2>2. ASSUME ~overlap' PROVE (InCalls /\ InTable /\ InReaders /\ OnSocket
                                /\ OnReading)'
    <3>1. /\ ~overlap /\ \A t \in Threads : ~InFlight(t)
          /\ \A k \in Readers : ~ReaderAlive(k)
          /\ sock # 0 => asked[sock] = {}
      BY <1>2, <2>2, Zenon DEF ConnectReset
    <3>2. InCalls'
      BY <1>0, <1>2, <3>1 DEF ConnectReset, InCalls, InFlight, CallPCs
    <3>3. InTable'
      BY <1>2 DEF ConnectReset, InTable
    <3>4. InReaders'
      BY <1>1, <3>1, NoRequests
      DEF InReaders, Connects, HandsFree, ReaderAlive, Current
    <3>5. OnSocket'
      BY <1>1, <1>2, <3>1 DEF ConnectReset, OnSocket
    <3>6. OnReading'
      BY <1>0, <1>2, <3>1 DEF ConnectReset, OnReading, ReaderAlive, Receiving
    <3>7. QED BY <3>2, <3>3, <3>4, <3>5, <3>6
  <2>3. QED BY <2>1, <2>2 DEF Matched, Fresh
<1>3. CASE ~ConnectReset(c)
  <2>1. UNCHANGED <<rpc, epoch, pending, overlap>>
    BY <1>3, Zenon
    DEF ConnectOpen, ConnectStep, ConnectEstablished, ConnectFail,
        Disconnect, DisconnectForget, readerVars
  <2>2. \A t \in Threads : InFlight(t)' => InFlight(t)
    <3>1. CASE ConnectEstablished(c)
      <4>1. \/ pc' = [pc EXCEPT ![c] = "resetting"]
            \/ pc' = [pc EXCEPT ![c] = "idle"]
        BY <3>1 DEF ConnectEstablished, ConnectReturn
      <4>2. QED BY <1>0, <4>1 DEF InFlight, CallPCs
    <3>2. CASE ~ConnectEstablished(c)
      BY <1>0, <1>3, <3>2
      DEF ConnectOpen, ConnectStep, ConnectFail, ConnectReturn, Disconnect,
          DisconnectForget, InFlight, CallPCs
    <3>3. QED BY <3>1, <3>2
  <2>3. \/ sock' \in {0, sock}
        \/ sock' = opened + 1 /\ opened + 1 \in Socks
    <3>1. CASE ConnectOpen(c)
      BY <1>0, <3>1, ConnectionAssumption DEF ConnectOpen
    <3>2. CASE ConnectEstablished(c) \/ ConnectFail(c) \/ Disconnect(c)
      BY <3>2 DEF ConnectEstablished, ConnectFail, Disconnect
    <3>3. CASE DisconnectForget(c)
      BY <3>3 DEF DisconnectForget
    <3>4. QED BY <1>3, <3>1, <3>2, <3>3 DEF ConnectStep
  <2>4. ASSUME ~overlap PROVE OnSocket'
    <3>1. sock' = opened + 1 /\ opened + 1 \in Socks => asked[sock'] = {}
      BY <1>0 DEF Connects, Unopened
    <3>2. QED
      BY <1>1, <2>1, <2>3, <2>4, <3>1
      DEF Matched, Fresh, OnSocket, Current
  <2>5. AnswerMatches'
    BY <1>1, <2>1 DEF Matched, AnswerMatches
  <2>6. ASSUME ~overlap PROVE (InCalls /\ InTable /\ InReaders /\ OnReading)'
    BY <1>1, <2>1, <2>2, <2>6
    DEF Matched, Fresh, InCalls, InTable, InReaders, OnReading, Current
  <2>7. QED BY <2>1, <2>4, <2>5, <2>6 DEF Matched, Fresh
<1>4. QED BY <1>2, <1>3

LEMMA MatchedByBuild ==
  ASSUME TypeOK, Matched, NEW t \in Threads, NEW cmd \in Cmds, Build(t, cmd)
  PROVE  Matched'
<1>1. /\ UNCHANGED <<asked, chunk, pending, rpc, rsock, epoch, sock, overlap>>
      /\ \A u \in Threads \ {t} : pkt'[u] = pkt[u] /\ pc'[u] = pc[u]
                                  /\ result'[u] = result[u]
      /\ pkt'[t].epoch = epoch /\ result'[t] = None
      /\ Clients \subseteq Threads
  BY DEF Build, netVars, readerVars, TypeOK, ThreadType
<1>2. AnswerMatches'
  BY <1>1 DEF Matched, AnswerMatches
<1>3. ASSUME ~overlap PROVE InCalls'
  BY <1>1, <1>3 DEF Matched, Fresh, InCalls, InFlight, Current
<1>4. ASSUME ~overlap PROVE (InTable /\ InReaders /\ OnSocket /\ OnReading)'
  BY <1>1, <1>4
  DEF Matched, Fresh, InTable, InReaders, OnSocket, OnReading, Current
<1>5. QED BY <1>1, <1>2, <1>3, <1>4 DEF Matched, Fresh

(* The answer a call collects is of its own number and of the same reset,  *)
(* so it answers the very packet the call sent.                            *)
LEMMA CollectedMatches ==
  ASSUME TypeOK, Table, Numbers, Matched, ~overlap, NEW t \in Threads,
         Collect(t), NEW e, e = pending[pkt[t].seq], e # None, e.answer # None
  PROVE  e.answer \in {pkt[t]} \cup LaserQueries
<1>1. /\ pkt[t] \in Requests /\ pkt[t].seq \in Seqs /\ InFlight(t)
      /\ e.answer \in Packets
  BY DEF Collect, TypeOK, ObjectType, ThreadType, CallPCs, Requests, Entries,
         InFlight
<1>2. HeldAt(e.answer, <<"pending", pkt[t].seq>>)
  BY <1>1 DEF HeldAt
<1>3. e.answer.seq = pkt[t].seq
  BY <1>1 DEF Table, NoOrphans
<1>4. CASE e.answer \in Requests
  <2>1. Same(e.answer, pkt[t])
    BY <1>1, <1>3, <1>4 DEF Matched, Fresh, InCalls, InTable, Current, Same
  <2>2. QED BY <1>1, <1>2, <1>4, <2>1, NoRequests DEF Numbers
<1>5. QED BY <1>1, <1>4 DEF Packets

LEMMA MatchedByCall ==
  ASSUME TypeOK, Table, Numbers, Matched, NEW t \in Threads, CallStep(t)
  PROVE  Matched'
<1>0. /\ DOMAIN pc = Threads /\ DOMAIN pkt = Threads
      /\ DOMAIN result = Threads /\ DOMAIN asked = Socks
      /\ DOMAIN pending = Seqs /\ Clients \subseteq Threads
      /\ InFlight(t)
  BY DEF TypeOK, ObjectType, NetworkType, ThreadType, InFlight, CallPCs,
         CallStep, NotConnected, Register, Transmit, SendError,
         Collect, Expire, Withdraw
<1>1. UNCHANGED <<rpc, rsock, chunk, epoch, sock, overlap>>
  BY DEF CallStep, NotConnected, Register, Transmit, SendError, Collect,
         Expire, Withdraw, objVars, netVars, readerVars, Return, GiveBack
<1> USE DEF objVars, netVars, readerVars
<1>2. \A u \in Threads : InFlight(u)' => InFlight(u) /\ pkt'[u] = pkt[u]
  <2>1. CASE NotConnected(t) \/ SendError(t) \/ Collect(t) \/ Withdraw(t)
    BY <1>0, <2>1
    DEF NotConnected, SendError, Collect, Withdraw, Return, GiveBack,
        InFlight, CallPCs
  <2>2. CASE Register(t) \/ Transmit(t) \/ Expire(t)
    BY <1>0, <2>2 DEF Register, Transmit, Expire, InFlight, CallPCs
  <2>3. QED BY <2>1, <2>2 DEF CallStep
<1>3. \A s \in Seqs : \/ pending'[s] \in {None, pending[s]}
                      \/ pending'[s].answer = None
  <2>1. CASE Register(t)
    BY <1>0, <2>1 DEF Register
  <2>2. CASE NotConnected(t) \/ Transmit(t) \/ Expire(t)
    <3>1. pending' = pending
      BY <2>2 DEF NotConnected, Transmit, Expire
    <3>2. QED BY <3>1
  <2>3. CASE SendError(t) \/ Collect(t) \/ Withdraw(t)
    <3>1. pending' = [pending EXCEPT ![pkt[t].seq] = None]
      BY <2>3 DEF SendError, Collect, Withdraw, Return
    <3>2. QED BY <1>0, <3>1
  <2>4. QED BY <2>1, <2>2, <2>3 DEF CallStep
<1>4. \A s \in Socks : asked'[s] \subseteq asked[s] \cup {pkt[t]}
  BY <1>0
  DEF CallStep, NotConnected, Register, Transmit, SendError, Collect, Expire,
      Withdraw
<1>5. ASSUME ~overlap PROVE InCalls' /\ InTable' /\ InReaders'
  BY <1>1, <1>2, <1>3, <1>5, NoRequests
  DEF Matched, Fresh, InCalls, InTable, InReaders, Current
<1>6. ASSUME ~overlap PROVE OnSocket' /\ OnReading'
  <2>1. sock # 0 => sock \in Socks
    BY ConnectionAssumption DEF TypeOK, ObjectType, NetworkType
  <2>2. \A k \in Readers : rpc[k] \in Receiving => rsock[k] \in Socks
    BY DEF TypeOK, ReaderType
  <2>3. Current(pkt[t])
    BY <1>0, <1>6 DEF Matched, Fresh, InCalls
  <2>4. QED
    BY <1>1, <1>4, <1>6, <2>1, <2>2, <2>3
    DEF Matched, Fresh, OnSocket, OnReading, Current
<1>7. AnswerMatches'
  <2>1. SUFFICES ASSUME ~overlap, NEW c \in Clients, result'[c] # None
                 PROVE  result'[c] \in {pkt'[c]} \cup LaserQueries
    BY <1>1 DEF AnswerMatches
  <2>2. CASE result'[c] = result[c] /\ pkt'[c] = pkt[c]
    BY <2>1, <2>2 DEF Matched, AnswerMatches
  <2>3. CASE ~(result'[c] = result[c] /\ pkt'[c] = pkt[c])
    <3>1. ~Register(t) /\ ~Transmit(t) /\ ~Expire(t)
      BY <2>3 DEF Register, Transmit, Expire
    <3>2. ~(NotConnected(t) \/ SendError(t) \/ Withdraw(t))
      BY <1>0, <2>1, <2>3
      DEF NotConnected, SendError, Withdraw, Return, GiveBack
    <3>3. Collect(t)
      BY <3>1, <3>2 DEF CallStep
    <3> DEFINE e == pending[pkt[t].seq]
               answer == IF e = None THEN None ELSE e.answer
    <3>4. GiveBack(t, answer)
      BY <3>3 DEF Collect, Return
    <3> HIDE DEF answer
    <3>5. c = t /\ result'[c] = answer /\ pkt'[c] = pkt[c]
      BY <1>0, <2>1, <2>3, <3>4 DEF GiveBack
    <3>6. e # None /\ answer = e.answer /\ answer # None
      BY <2>1, <3>5 DEF answer
    <3>7. QED BY <2>1, <3>3, <3>5, <3>6, CollectedMatches
  <2>4. QED BY <2>2, <2>3
<1>8. QED BY <1>1, <1>5, <1>6, <1>7 DEF Matched, Fresh

LEMMA MatchedByReader ==
  ASSUME TypeOK, Matched, NEW k \in Readers, ReaderStep(k)
  PROVE  Matched'
<1>0. /\ DOMAIN rpc = Readers /\ DOMAIN rsock = Readers
      /\ DOMAIN chunk = Readers /\ pending \in [Seqs -> Entries \cup {None}]
      /\ rpc[k] \in Receiving => rsock[k] \in Socks
      /\ sock # 0 => sock \in Socks
      /\ \A j \in Readers : rpc[j] \in Receiving => rsock[j] \in Socks
  BY ConnectionAssumption
  DEF TypeOK, ObjectType, NetworkType, ReaderType
<1>1. /\ UNCHANGED <<pc, pkt, result, epoch, sock, overlap>>
      /\ \A j \in Readers \ {k} : rpc'[j] = rpc[j] /\ chunk'[j] = chunk[j]
      /\ \A s \in Socks : asked'[s] \subseteq asked[s]
  BY ReaderEffect
<1>2. \A j \in Readers : rpc'[j] \in Receiving =>
        \/ rpc[j] \in Receiving /\ rsock'[j] = rsock[j]
        \/ sock # 0 /\ rsock'[j] = sock
  <2> USE DEF ReaderGo, Receiving
  <2>1. CASE ReaderBlock(k)
    BY <1>0, <2>1 DEF ReaderBlock
  <2>2. CASE ~ReaderBlock(k)
    <3>1. rpc'[k] \notin Receiving
      BY <1>0, <2>2
      DEF ReaderStep, ReaderTest, ReaderCrash, ReaderLost, ReaderAnswer,
          ReaderQuery, DispatchAnswer, DispatchQuery, DispatchDrop,
          DispatchAck, ReaderWake
    <3>2. rsock' = rsock \/ rsock' = [rsock EXCEPT ![k] = 0]
      BY <2>2
      DEF ReaderStep, ReaderTest, ReaderCrash, ReaderLost, ReaderAnswer,
          ReaderQuery, DispatchAnswer, DispatchQuery, DispatchDrop,
          DispatchAck, ReaderWake
    <3>3. QED BY <1>0, <1>1, <3>1, <3>2
  <2>3. QED BY <2>1, <2>2
<1>3. AnswerMatches' /\ (~overlap => InCalls')
  BY <1>1
  DEF Matched, Fresh, AnswerMatches, InCalls, InFlight, Current
<1>4. ASSUME ~overlap PROVE OnSocket' /\ OnReading'
  BY <1>0, <1>1, <1>2, <1>4 DEF Matched, Fresh, OnSocket, OnReading, Current
<1>5. ASSUME ~overlap PROVE InReaders'
  <2>1. Current(chunk'[k])
    <3>1. CASE ReaderAnswer(k)
      BY <1>0, <1>5, <3>1 DEF ReaderAnswer, Matched, Fresh, OnReading
    <3>2. CASE ReaderQuery(k)
      BY <1>0, <3>2, NoRequests DEF ReaderQuery, Current
    <3>3. CASE ~ReaderAnswer(k) /\ ~ReaderQuery(k)
      <4>1. chunk' = chunk \/ chunk' = [chunk EXCEPT ![k] = None]
        BY <3>3
        DEF ReaderStep, ReaderTest, ReaderCrash, ReaderBlock, ReaderLost,
            DispatchAnswer, DispatchQuery, DispatchDrop, DispatchAck,
            ReaderWake
      <4>2. QED
        BY <1>0, <1>5, <4>1, NoRequests DEF Matched, Fresh, InReaders, Current
    <3>4. QED BY <3>1, <3>2, <3>3
  <2>2. QED BY <1>1, <1>5, <2>1 DEF Matched, Fresh, InReaders, Current
<1>6. ASSUME ~overlap PROVE InTable'
  <2>1. CASE DispatchAnswer(k)
    <3>1. PICK s \in Awaited(chunk[k]) :
            pending' = [pending EXCEPT ![s].answer = chunk[k]]
      BY <2>1 DEF DispatchAnswer
    <3>2. s \in Seqs /\ pending[s] \in Entries /\ pending[s] # None
      BY <1>0, <3>1 DEF Awaited
    <3>3. \A n \in Seqs : IF n = s THEN pending'[n].answer = chunk[k]
                          ELSE pending'[n] = pending[n]
      BY <1>0, <3>1, <3>2 DEF Entries
    <3>4. QED
      BY <1>1, <1>6, <3>2, <3>3
      DEF Matched, Fresh, InTable, InReaders, Current
  <2>2. CASE ~DispatchAnswer(k)
    <3>1. pending' = pending
      BY <2>2
      DEF ReaderStep, ReaderTest, ReaderCrash, ReaderBlock, ReaderLost,
          ReaderAnswer, ReaderQuery, DispatchQuery, DispatchDrop,
          DispatchAck, ReaderWake, objVars
    <3>2. QED BY <1>1, <1>6, <3>1 DEF Matched, Fresh, InTable, Current
  <2>3. QED BY <2>1, <2>2
<1>7. QED BY <1>1, <1>3, <1>4, <1>5, <1>6 DEF Matched, Fresh

LEMMA MatchedKept ==
  TypeOK /\ Table /\ Connects /\ Numbers /\ Matched /\ [Next]_vars => Matched'
<1> SUFFICES ASSUME TypeOK, Table, Connects, Numbers, Matched, [Next]_vars
             PROVE  Matched'
  OBVIOUS
<1>0. DOMAIN asked = Socks /\ DOMAIN pc = Threads
      /\ (sock # 0 => sock \in Socks)
      /\ \A k \in Readers : rpc[k] \in Receiving => rsock[k] \in Socks
  BY ConnectionAssumption
  DEF TypeOK, ObjectType, NetworkType, ThreadType, ReaderType
<1>1. ASSUME /\ UNCHANGED <<pkt, chunk, pending, result, epoch, rpc, rsock,
                            sock, overlap>>
             /\ \A s \in Socks : asked'[s] \subseteq asked[s]
             /\ \A t \in Threads : InFlight(t)' => InFlight(t)
      PROVE  Matched'
  BY <1>0, <1>1
  DEF Matched, Fresh, InCalls, InTable, InReaders, OnSocket, OnReading,
      AnswerMatches, Current
<1>2. CASE \E s \in Socks : LaserDrop(s)
  BY <1>0, <1>1, <1>2
  DEF LaserDrop, objVars, threadVars, readerVars, InFlight
<1>3. CASE UNCHANGED vars
  BY <1>1, <1>3
  DEF vars, objVars, netVars, threadVars, readerVars, InFlight
<1>4. CASE \E c \in Clients :
             ConnectOpen(c) \/ ConnectStep(c) \/ Disconnect(c)
  BY <1>4, MatchedByConnect
<1>5. CASE \E t \in Threads : CallStep(t)
  BY <1>5, MatchedByCall
<1>6. CASE \E c \in Clients, cmd \in Cmds : Request(c, cmd)
  BY <1>6, MatchedByBuild DEF Request
<1>7. CASE \E h \in Heartbeats : HeartbeatStep(h)
  <2>1. CASE \E h \in Heartbeats : HeartbeatSend(h)
    BY <2>1, MatchedByBuild, ConnectionAssumption DEF HeartbeatSend
  <2>2. CASE \E h \in Heartbeats : HeartbeatTest(h) \/ HeartbeatSkip(h)
    BY <1>0, <1>1, <2>2
    DEF HeartbeatTest, HeartbeatSkip, objVars, netVars, readerVars, InFlight,
        CallPCs
  <2>3. QED BY <1>7, <2>1, <2>2 DEF HeartbeatStep
<1>8. CASE \E k \in Readers : ReaderStep(k)
  BY <1>8, MatchedByReader
<1>9. QED
  BY <1>2, <1>3, <1>4, <1>5, <1>6, <1>7, <1>8 DEF Next

(* As long as no reset met unfinished business, a call returns the laser's *)
(* answer to the very packet it sent, a query of that number, or None.     *)
THEOREM AnswersMatch == Spec => []AnswerMatches
<1>1. Matched => AnswerMatches
  BY DEF Matched
<1>2. QED
  BY <1>1, MatchedInit, MatchedKept, NumbersAlways, TableAlways, PTL DEF Spec

-----------------------------------------------------------------------------
(* What the readers do as long as no reset met unfinished business: there  *)
(* is one at a time, and what it acknowledges on a socket it has noted.    *)
OneReader == \A j, k \in Readers : ReaderAlive(j) /\ ReaderAlive(k) => j = k
AcksNoted == \A a \in acks : a[1] = sock => <<a[2], a[3]>> \in acked
AckIsNew  == \A k \in Readers :
  rpc[k] = "ack" => <<chunk[k].cmd, chunk[k].seq>> \notin acked
(* A reader of a connection that is set up reads that connection.          *)
ReadsIt == sock # 0 => (rpc[sock] # "off" =>
  \A k \in Readers : rpc[k] \in Receiving =>
    rsock[k] = sock /\ rpc[k] = "blocked")
Single == ~overlap => OneReader /\ AcksNoted /\ AckIsNew /\ ReadsIt
(* A socket that is up has a reader, or the connect() that will start one. *)
Attended == sock # 0 => (link[sock] = "up" =>
  \/ rpc[sock] # "off"
  \/ \E c \in Clients : mySock[c] = sock /\ pc[c] = "resetting")
Reading == Single /\ Attended

LEMMA ReadingInit == Init => Reading
BY ConnectionAssumption
DEF Init, Reading, Single, OneReader, AcksNoted, AckIsNew, ReadsIt, Attended,
    ReaderAlive, Receiving

LEMMA ReadingByConnect ==
  ASSUME TypeOK, Connects, Reading, NEW c \in Clients,
         ConnectOpen(c) \/ ConnectStep(c) \/ Disconnect(c)
  PROVE  Reading'
<1>0. /\ DOMAIN pc = Threads /\ DOMAIN rpc = Socks /\ DOMAIN link = Socks
      /\ DOMAIN mySock = Clients /\ Clients \subseteq Threads
      /\ opened \in Nat /\ sock \in 0..opened /\ opened <= MaxConn
      /\ pc[c] \in {"connecting", "resetting"} => mySock[c] \in Socks
      /\ MaxConn \in Nat /\ Clients \cap Socks = {}
      /\ \A a \in acks : a[1] \in Socks
  BY ConnectionAssumption
  DEF TypeOK, ObjectType, NetworkType, ThreadType, ReaderType
<1> USE DEF objVars, netVars, threadVars, readerVars
<1>1. CASE ConnectOpen(c)
  <2>1. /\ sock' = opened + 1 /\ opened + 1 \in Socks
        /\ link' = [link EXCEPT ![opened + 1] = "new"]
        /\ UNCHANGED <<rpc, rsock, chunk, acks, acked, overlap>>
    BY <1>0, <1>1 DEF ConnectOpen
  <2>2. rpc[opened + 1] = "off" /\ \A a \in acks : a[1] # opened + 1
    BY <1>0, <2>1 DEF Connects, Unopened
  <2>3. Attended'
    BY <1>0, <2>1 DEF Attended
  <2>4. ASSUME ~overlap PROVE (OneReader /\ AckIsNew)'
    BY <2>1, <2>4 DEF Reading, Single, OneReader, AckIsNew, ReaderAlive
  <2>5. (AcksNoted /\ ReadsIt)'
    BY <2>1, <2>2 DEF AcksNoted, ReadsIt
  <2>6. QED BY <2>1, <2>3, <2>4, <2>5 DEF Reading, Single
<1>2. CASE ConnectReset(c)
  <2>1. /\ rpc' = [rpc EXCEPT ![mySock[c]] = "test"] /\ mySock[c] \in Socks
        /\ acked' = {} /\ UNCHANGED <<sock, link, rsock, chunk, acks>>
        /\ mySock' = [mySock EXCEPT ![c] = 0]
        /\ \A d \in Clients \ {c} : pc'[d] = pc[d]
    <3>1. \A d \in Clients \ {c} : d # mySock[c]
      BY <1>0, <1>2, ConnectionAssumption DEF ConnectReset
    <3>2. QED BY <1>0, <1>2, <3>1 DEF ConnectReset
  <2>2. Attended'
    <3>1. \A d \in Clients : mySock[d] = sock /\ pc[d] = "resetting" =>
             \/ d = c
             \/ mySock'[d] = sock' /\ pc'[d] = "resetting"
      BY <1>0, <2>1
    <3>2. sock # 0 /\ rpc[sock] # "off" => rpc'[sock] # "off"
      BY <1>0, <2>1
    <3>3. mySock[c] = sock => rpc'[sock] # "off"
      BY <1>0, <2>1
    <3>4. QED BY <2>1, <3>1, <3>2, <3>3 DEF Reading, Attended
  <2>3. ASSUME ~overlap' PROVE (OneReader /\ AcksNoted /\ AckIsNew /\ ReadsIt)'
    <3>1. /\ \A k \in Readers : ~ReaderAlive(k)
          /\ \A a \in acks : a[1] # sock
      BY <1>2, <2>3, Zenon DEF ConnectReset
    <3>2. OneReader'
      BY <1>0, <2>1, <3>1 DEF OneReader, ReaderAlive
    <3>3. AckIsNew' /\ AcksNoted'
      BY <2>1, <3>1 DEF AckIsNew, AcksNoted
    <3>4. ReadsIt'
      BY <1>0, <2>1, <3>1 DEF ReadsIt, ReaderAlive, Receiving
    <3>5. QED BY <3>2, <3>3, <3>4
  <2>4. QED BY <2>2, <2>3 DEF Reading, Single
<1>3. CASE ~ConnectOpen(c) /\ ~ConnectReset(c)
  <2>1. UNCHANGED <<rpc, rsock, chunk, acks, acked, overlap>>
    BY <1>3, Zenon
    DEF ConnectStep, ConnectEstablished, ConnectFail, Disconnect,
        DisconnectForget
  <2>2. sock' = sock \/ sock' = 0
    BY <1>3
    DEF ConnectStep, ConnectEstablished, ConnectFail, Disconnect,
        DisconnectForget
  <2>3. ASSUME ~overlap PROVE OneReader' /\ AckIsNew' /\ AcksNoted' /\ ReadsIt'
    BY <1>0, <2>1, <2>2, <2>3
    DEF Reading, Single, OneReader, AckIsNew, AcksNoted, ReadsIt, ReaderAlive
  <2>4. Attended'
    <3>1. CASE ConnectEstablished(c)
      <4>1. CASE sock # 0
        BY <1>0, <2>1, <3>1, <4>1 DEF ConnectEstablished, Reading, Attended
      <4>2. CASE sock = 0
        BY <3>1, <4>2 DEF ConnectEstablished, Attended
      <4>3. QED BY <4>1, <4>2
    <3>2. CASE ConnectFail(c)
      <4>1. /\ link' = [link EXCEPT ![mySock[c]] = "down"] /\ sock' = sock
            /\ \A d \in Clients \ {c} : mySock'[d] = mySock[d]
                                        /\ pc'[d] = pc[d]
            /\ pc[c] = "connecting"
        BY <1>0, <3>2 DEF ConnectFail, ConnectReturn
      <4>2. QED BY <1>0, <2>1, <4>1 DEF Reading, Attended
    <3>3. CASE Disconnect(c)
      BY <1>0, <2>1, <3>3 DEF Disconnect, Reading, Attended
    <3>4. CASE DisconnectForget(c)
      BY <3>4 DEF DisconnectForget, Attended
    <3>5. QED BY <1>3, <3>1, <3>2, <3>3, <3>4 DEF ConnectStep
  <2>5. QED BY <2>1, <2>3, <2>4 DEF Reading, Single
<1>4. QED BY <1>1, <1>2, <1>3

(* What calls, heartbeats and the laser do, who start and stop no reader.  *)
LEMMA ReadingByOthers ==
  ASSUME Reading,
         UNCHANGED <<sock, mySock, rpc, rsock, chunk, acks, acked, overlap>>,
         sock # 0 => (link'[sock] = "up" => link[sock] = "up"),
         \A c \in Clients : pc[c] = "resetting" => pc'[c] = "resetting"
  PROVE  Reading'
BY DEF Reading, Single, OneReader, AcksNoted, AckIsNew, ReadsIt, Attended,
       ReaderAlive

LEMMA ReadingByReader ==
  ASSUME TypeOK, Connects, Reading, NEW k \in Readers, ReaderStep(k)
  PROVE  Reading'
<1>0. /\ DOMAIN rpc = Readers /\ DOMAIN rsock = Readers
      /\ DOMAIN chunk = Readers /\ sock \in 0..MaxConn
      /\ sock # 0 => sock \in Socks
  BY ConnectionAssumption
  DEF TypeOK, ObjectType, NetworkType, ReaderType
<1>1. /\ UNCHANGED <<pc, mySock, link, sock, overlap>>
      /\ \A j \in Readers : rpc'[j] # "off" <=> rpc[j] # "off"
      /\ \A j \in Readers \ {k} : rpc'[j] = rpc[j] /\ chunk'[j] = chunk[j]
  BY ReaderEffect
<1>2. ReaderAlive(k)
  BY DEF ReaderStep, ReaderTest, ReaderCrash, ReaderBlock, ReaderLost,
         RecvEnds, ReaderAnswer, ReaderQuery, DispatchAnswer, DispatchQuery,
         DispatchDrop, DispatchAck, ReaderWake, Receiving, ReaderAlive
<1>3. Attended'
  BY <1>0, <1>1 DEF Reading, Attended
<1>4. ASSUME ~overlap PROVE OneReader'
  BY <1>1, <1>2, <1>4 DEF Reading, Single, OneReader, ReaderAlive
<1>5. ASSUME ~overlap PROVE AcksNoted' /\ AckIsNew'
  <2>1. \A j \in Readers \ {k} : rpc[j] # "ack"
    BY <1>2, <1>5 DEF Reading, Single, OneReader, ReaderAlive
  <2>2. CASE DispatchAck(k)
    <3>1. /\ acked' = acked \cup {<<chunk[k].cmd, chunk[k].seq>>}
          /\ \/ acks' = acks
             \/ acks' = acks \cup {<<sock, chunk[k].cmd, chunk[k].seq>>}
          /\ rpc'[k] = "test"
      BY <1>0, <2>2 DEF DispatchAck, NoteAck, ReaderGo
    <3>2. QED
      BY <1>1, <1>5, <2>1, <3>1 DEF Reading, Single, AcksNoted, AckIsNew
  <2>3. CASE ~DispatchAck(k)
    <3>1. UNCHANGED <<acks, acked>>
      BY <2>3
      DEF ReaderStep, ReaderTest, ReaderCrash, ReaderBlock, ReaderLost,
          ReaderAnswer, ReaderQuery, DispatchAnswer, DispatchQuery,
          DispatchDrop, ReaderWake, objVars, netVars
    <3>2. rpc'[k] = "ack" => DispatchQuery(k)
      BY <1>0, <2>3
      DEF ReaderStep, ReaderTest, ReaderCrash, ReaderBlock, ReaderLost,
          ReaderAnswer, ReaderQuery, DispatchAnswer, DispatchDrop,
          ReaderWake, ReaderGo
    <3>3. rpc'[k] = "ack" => <<chunk'[k].cmd, chunk'[k].seq>> \notin acked'
      BY <3>1, <3>2 DEF DispatchQuery, Unacked
    <3>4. QED
      BY <1>1, <1>5, <2>1, <3>1, <3>3 DEF Reading, Single, AcksNoted, AckIsNew
  <2>4. QED BY <2>2, <2>3
<1>6. ASSUME ~overlap PROVE ReadsIt'
  <2>1. \A j \in Readers \ {k} : rpc[j] \notin Receiving
    BY <1>2, <1>6 DEF Reading, Single, OneReader, ReaderAlive, Receiving
  <2>2. CASE ReaderBlock(k)
    <3>1. sock # 0 /\ rpc[sock] # "off" => link[sock] # "new"
      BY <1>0 DEF Connects, Started
    <3>2. QED
      BY <1>0, <1>1, <2>1, <2>2, <3>1 DEF ReaderBlock, ReadsIt, ReaderGo
  <2>3. CASE ~ReaderBlock(k)
    <3>1. rpc'[k] \notin Receiving
      BY <1>0, <2>3
      DEF ReaderStep, ReaderTest, ReaderCrash, ReaderLost, ReaderAnswer,
          ReaderQuery, DispatchAnswer, DispatchQuery, DispatchDrop,
          DispatchAck, ReaderWake, Receiving, ReaderGo
    <3>2. QED BY <1>1, <2>1, <3>1 DEF ReadsIt
  <2>4. QED BY <2>2, <2>3
<1>7. QED BY <1>1, <1>3, <1>4, <1>5, <1>6 DEF Reading, Single

LEMMA ReadingKept ==
  TypeOK /\ Connects /\ Reading /\ [Next]_vars => Reading'
<1> SUFFICES ASSUME TypeOK, Connects, Reading, [Next]_vars PROVE Reading'
  OBVIOUS
<1>0. DOMAIN pc = Threads /\ DOMAIN link = Socks /\ Clients \subseteq Threads
  BY ConnectionAssumption DEF TypeOK, NetworkType, ThreadType
<1>1. CASE \E s \in Socks : LaserDrop(s)
  BY <1>0, <1>1, ReadingByOthers
  DEF LaserDrop, objVars, threadVars, readerVars
<1>2. CASE UNCHANGED vars
  BY <1>2, ReadingByOthers
  DEF vars, objVars, netVars, threadVars, readerVars
<1>3. CASE \E c \in Clients :
             ConnectOpen(c) \/ ConnectStep(c) \/ Disconnect(c)
  BY <1>3, ReadingByConnect
<1>4. ASSUME NEW t \in Threads, NEW cmd \in Cmds, Build(t, cmd),
             pc[t] # "resetting"
      PROVE  Reading'
  BY <1>0, <1>4, ReadingByOthers DEF Build, netVars, readerVars
<1>5. CASE \E t \in Threads : CallStep(t)
  <2>1. PICK t \in Threads : CallStep(t)
    BY <1>5
  <2>2. UNCHANGED <<sock, mySock, link, rpc, rsock, chunk, acks, acked,
                    overlap>>
    BY <2>1
    DEF CallStep, NotConnected, Register, Transmit, SendError, Collect,
        Expire, Withdraw, objVars, netVars, readerVars, Return, GiveBack
  <2>3. pc[t] # "resetting" /\ \A c \in Clients \ {t} : pc'[c] = pc[c]
    BY <1>0, <2>1
    DEF CallStep, NotConnected, Register, Transmit, SendError, Collect,
        Expire, Withdraw, Return, GiveBack
  <2>4. QED BY <1>0, <2>2, <2>3, ReadingByOthers
<1>6. CASE \E c \in Clients, cmd \in Cmds : Request(c, cmd)
  BY <1>4, <1>6 DEF Request
<1>7. CASE \E h \in Heartbeats : HeartbeatStep(h)
  <2>1. CASE \E h \in Heartbeats : HeartbeatSend(h)
    BY <1>4, <2>1, ConnectionAssumption DEF HeartbeatSend
  <2>2. CASE \E h \in Heartbeats : HeartbeatTest(h) \/ HeartbeatSkip(h)
    BY <1>0, <2>2, ReadingByOthers
    DEF HeartbeatTest, HeartbeatSkip, objVars, netVars, readerVars
  <2>3. QED BY <1>7, <2>1, <2>2 DEF HeartbeatStep
<1>8. CASE \E k \in Readers : ReaderStep(k)
  BY <1>8, ReadingByReader
<1>9. QED
  BY <1>1, <1>2, <1>3, <1>5, <1>6, <1>7, <1>8 DEF Next

LEMMA ReadingAlways == Spec => [](TypeOK /\ Connects /\ Reading)
BY InitType, TypeKept, ConnectsInit, ConnectsKept, ReadingInit, ReadingKept,
   PTL DEF Spec

(* As long as no reset met unfinished business, a query of the laser is    *)
(* acknowledged at most once on its connection.                            *)
THEOREM AcknowledgedOnce == Spec => AckOnce
<1>1. Reading =>
        \A k \in Readers :
          rpc[k] = "ack" /\ rpc'[k] # "ack" /\ connected /\ CanSend
            => <<sock, chunk[k].cmd, chunk[k].seq>> \notin acks \/ overlap
  <2> SUFFICES ASSUME Reading, ~overlap, NEW k \in Readers, rpc[k] = "ack",
                      <<sock, chunk[k].cmd, chunk[k].seq>> \in acks
               PROVE  FALSE
    OBVIOUS
  <2>1. <<chunk[k].cmd, chunk[k].seq>> \in acked
    BY DEF Reading, Single, AcksNoted
  <2>2. QED BY <2>1 DEF Reading, Single, AckIsNew
<1>2. QED BY <1>1, ReadingAlways, PTL DEF AckOnce

(* As long as no reset met unfinished business and no connect() or         *)
(* disconnect() is going on, a reader gives up no connection that is up.   *)
THEOREM LossesAreReal == Spec => LossIsReal
<1>1. TypeOK /\ Reading /\ [Next]_vars =>
        [\A k \in Readers :
           rpc[k] \in {"call"} \cup Receiving /\ rpc'[k] = "wake" /\ connected
             => \/ sock = 0 \/ sock \in closed \/ link[sock] # "up"
                \/ overlap \/ ~Settled]_vars
  <2> SUFFICES ASSUME TypeOK, Reading, Next, NEW k \in Readers,
                      rpc[k] \in {"call"} \cup Receiving, rpc'[k] = "wake",
                      ~overlap, Settled, sock # 0, sock \notin closed,
                      link[sock] = "up"
               PROVE  FALSE
    BY DEF vars, readerVars, Receiving
  <2>1. ReaderLost(k)
    <3>1. CASE \E j \in Readers : ReaderStep(j)
      <4>1. PICK j \in Readers : ReaderStep(j)
        BY <3>1
      <4>2. j = k
        BY <4>1, ReaderEffect DEF Receiving
      <4>3. DOMAIN rpc = Readers
        BY DEF TypeOK, ReaderType
      <4>4. QED
        BY <4>1, <4>2, <4>3
        DEF ReaderStep, ReaderTest, ReaderCrash, ReaderBlock,
            ReaderAnswer, ReaderQuery, DispatchAnswer, DispatchQuery,
            DispatchDrop, DispatchAck, ReaderWake, ReaderGo, Receiving
    <3>2. CASE \E c \in Clients : ConnectReset(c)
      BY <3>2 DEF ConnectReset, TypeOK, ReaderType, Receiving
    <3>3. CASE ~(\E j \in Readers : ReaderStep(j))
               /\ ~(\E c \in Clients : ConnectReset(c))
      <4>1. rpc' = rpc
        BY <3>3
        DEF Next, ConnectOpen, ConnectStep, ConnectEstablished, ConnectFail,
            Disconnect, DisconnectForget, Request, Build, CallStep,
            NotConnected, Register, Transmit, SendError, Collect, Expire,
            Withdraw, HeartbeatStep, HeartbeatTest, HeartbeatSend,
            HeartbeatSkip, LaserDrop, readerVars
      <4>2. QED BY <4>1 DEF Receiving
    <3>4. QED BY <3>1, <3>2, <3>3
  <2>2. rpc[sock] # "off"
    BY DEF Reading, Attended, Settled
  <2>3. rpc[k] \in Receiving => rsock[k] = sock /\ rpc[k] = "blocked"
    BY <2>2 DEF Reading, Single, ReadsIt
  <2>4. QED BY <2>1, <2>3 DEF ReaderLost, RecvEnds, Receiving
<1>2. QED BY <1>1, ReadingAlways, PTL DEF LossIsReal, Spec

=============================================================================
