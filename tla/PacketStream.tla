---------------------------- MODULE PacketStream ----------------------------
(***************************************************************************)
(* How the reader threads of jcz_bridge/d1ultra_protocol.py make packets of*)
(* the bytes that TCP delivers in any portions, and what becomes of that   *)
(* when a reader outlives its connection: both then append to and cut one  *)
(* _recv_buf.  D1Connection takes whole packets; this is why it may, and   *)
(* until when.  Scaled down: length, number and terminator are one byte    *)
(* each; header constants and the CRC, which is only warned about, are     *)
(* left out.                                                               *)
(***************************************************************************)
EXTENDS Naturals, Sequences, SequencesExt

CONSTANTS M, E,    \* the byte of MAGIC (twice) and that of the terminator
          Sent,    \* per connection, the packets the laser sends
          Portions \* bound: how many bytes recv() returns, if there are enough

ASSUME StreamAssumption ==
  /\ {M, E} \subseteq Nat /\ M # E
  /\ Len(Sent) = 2 /\ Portions \subseteq Nat \ {0} /\ Portions # {}
  /\ \A k \in 1..2 : Sent[k] \in Seq([no : Nat, payload : Seq(Nat)])

MinPacket == 5
Build(p)  == <<M, M, MinPacket + Len(p.payload), p.no>> \o p.payload \o <<E>>
Stream(k) == FlattenSeq([i \in DOMAIN Sent[k] |-> Build(Sent[k][i])])

VARIABLES
  conn,     \* which connection it is
  wire,     \* per connection, the bytes of its socket not yet received
  buf,      \* self._recv_buf
  reader,   \* per reader: where it is, the socket its recv() is called on,
            \* and what it holds
  connected, \* self.connected
  got,      \* the packets dispatched since the last connect()
  mixed     \* history: a reader of an earlier connection went on

vars == <<conn, wire, buf, reader, connected, got, mixed>>
Readers == 1..2

FirstOf(s, n) == SubSeq(s, 1, Min({n, Len(s)}))
Is(r, where)  == reader[r].at = where
Go(r, where, has) ==
  reader' = [reader EXCEPT ![r] = [at |-> where, on |-> conn, has |-> has]]
Scanning(r) == reader[r].at \in {"find", "measure", "cut"}

(* In recv() on the socket of an earlier connection: close() does not wake *)
(* it.                                                                     *)
LeftBehind(r) == Is(r, "recv") /\ reader[r].on # conn

Init ==
  /\ conn = 1 /\ wire = [k \in 1..2 |-> Stream(k)] /\ buf = <<>>
  /\ connected = TRUE /\ got = <<>> /\ mixed = FALSE
  /\ reader = [r \in Readers |-> [at |-> IF r = 1 THEN "recv" ELSE "off",
                                  on |-> 1, has |-> <<>>]]

-----------------------------------------------------------------------------
(* recv(): any portion, outside the lock.                                  *)
Recv(r) ==
  /\ Is(r, "recv")
  /\ LET k == reader[r].on IN
       /\ wire[k] # <<>>
       /\ \E n \in Portions :
            /\ Go(r, "append", FirstOf(wire[k], n))
            /\ wire' = [wire EXCEPT ![k] = SubSeq(@, n + 1, Len(@))]
  /\ mixed' = (mixed \/ LeftBehind(r))
  /\ UNCHANGED <<conn, buf, connected, got>>

(* The laser closes the earlier connection, or recv() fails on it: what is *)
(* declared lost is the present one.                                       *)
OldEnds(r) ==
  /\ LeftBehind(r) /\ Go(r, "off", <<>>) /\ connected' = FALSE
  /\ mixed' = TRUE /\ UNCHANGED <<conn, wire, buf, got>>

AppendChunk(r) ==
  /\ Is(r, "append") /\ buf' = buf \o reader[r].has /\ Go(r, "find", <<>>)
  /\ UNCHANGED <<conn, wire, connected, got, mixed>>

(* while self.connected: recv() on the socket that is self.sock now.       *)
Back(r) == Go(r, IF connected THEN "recv" ELSE "off", <<>>)

Drop(n)   == SubSeq(buf, n + 1, Len(buf))
MagicAt   == {i \in 1..Len(buf) - 1 : buf[i] = M /\ buf[i + 1] = M}
MayHold   == Len(buf) >= MinPacket

(* while len >= MIN_PACKET: find MAGIC; without it all is thrown away, half *)
(* a MAGIC at the end as well.                                             *)
Find(r) ==
  /\ Is(r, "find")
  /\ \/ /\ ~MayHold /\ Back(r) /\ UNCHANGED buf
     \/ /\ MayHold /\ MagicAt = {} /\ buf' = <<>> /\ Back(r)
     \/ /\ MayHold /\ MagicAt # {} /\ Go(r, "measure", <<>>)
        /\ buf' = Drop(Min(MagicAt) - 1)
  /\ UNCHANGED <<conn, wire, connected, got, mixed>>

TooShortNever(n) == FALSE                   \* variant: as the replay readers
TooShort(n)      == n < MinPacket

(* The length is read, and the packet waited for, or cut.                  *)
Measure(r) ==
  /\ Is(r, "measure")
  /\ \/ /\ Len(buf) < 3 /\ Back(r) /\ UNCHANGED buf
     \/ /\ Len(buf) >= 3 /\ TooShort(buf[3])
        /\ buf' = Drop(2) /\ Go(r, "find", <<>>)
     \/ /\ Len(buf) >= 3 /\ ~TooShort(buf[3]) /\ UNCHANGED buf
        /\ IF Len(buf) < buf[3] THEN Back(r)
                                ELSE Go(r, "cut", <<buf[3]>>)
  /\ UNCHANGED <<conn, wire, connected, got, mixed>>

(* parse_packet(): what does not end as a packet is dropped silently.      *)
IsPacket(b) == /\ Len(b) >= MinPacket /\ b[1] = M /\ b[2] = M
               /\ b[3] \in MinPacket..Len(b) /\ b[b[3]] = E
Parse(b) == [no |-> b[4], payload |-> SubSeq(b, 5, b[3] - 1)]

OnlyOne == "recv"                           \* variant: the rest must wait
Again   == "find"

Cut(r) ==
  /\ Is(r, "cut")
  /\ LET n == reader[r].has[1]  b == FirstOf(buf, n) IN
       /\ buf' = Drop(n)
       /\ got' = IF IsPacket(b) THEN Append(got, Parse(b)) ELSE got
  /\ Go(r, Again, <<>>)
  /\ UNCHANGED <<conn, wire, connected, mixed>>

(* connect() closes the socket, empties the buffer, and starts a reader.   *)
(* The old one stays where it is: in recv() on the closed socket, or on the*)
(* new one if it came back just after self.sock was replaced.              *)
KeepsBuffer == UNCHANGED buf                \* variant
NewBuffer   == buf' = <<>>

Connect ==
  /\ conn = 1 /\ conn' = 2 /\ NewBuffer /\ connected' = TRUE /\ got' = <<>>
  /\ \E on \in 1..2 :
       /\ reader' = [reader EXCEPT
            ![1].on = on, ![2] = [at |-> "recv", on |-> 2, has |-> <<>>]]
       /\ mixed' = (~Is(1, "recv") \/ on = 2)
  /\ UNCHANGED wire

ReaderStep(r) == \/ Recv(r) \/ OldEnds(r) \/ AppendChunk(r) \/ Find(r)
                 \/ Measure(r) \/ Cut(r)
Next == Connect \/ \E r \in Readers : ReaderStep(r)
Spec == Init /\ [][Next]_vars

(* A reader thread runs, and the bytes under way on the present connection *)
(* arrive; of the earlier one nothing need ever come.                      *)
FairStep(r) == ~LeftBehind(r) /\ ReaderStep(r)
FairSpec == Spec /\ \A r \in Readers : WF_vars(FairStep(r))

-----------------------------------------------------------------------------
(* As long as no reader of an earlier connection goes on, the packets      *)
(* dispatched, the buffer, the portion at hand and the bytes to come are   *)
(* the laser's stream: nothing is lost, repeated, reordered, or cut at a   *)
(* wrong place, whatever a payload looks like and however TCP divides it.  *)
NoByteLost ==
  ~mixed =>
    LET held == IF Is(conn, "append") THEN reader[conn].has ELSE <<>> IN
    FlattenSeq([i \in DOMAIN got |-> Build(got[i])])
      \o buf \o held \o wire[conn] = Stream(conn)

(* All that the laser sends is dispatched, unless there is a new           *)
(* connection, and then all of that, beside a reader left behind in recv()*)
(* as well, as long as that one hears nothing more.                        *)
AllArrive == /\ <>(conn = 2 \/ got = Sent[1])
             /\ conn = 2 ~> mixed \/ got = Sent[2]

(* Whatever two readers make of the buffer, none is caught in it: each     *)
(* comes back to receive, or ends because the connection was given up.     *)
ReadersReturn == \A r \in Readers : Scanning(r) ~> ~Scanning(r)
=============================================================================
