--------------------------- MODULE JczBridgeProofs ---------------------------
(* Theorems about JczBridge, for any number of commands and faults.        *)
EXTENDS JczBridge, TLAPS, SequenceTheorems

Halves  == [cmd : Nat \ {0}, half : {1, 2}]
Commands == [kind : Kinds, visit : Nat]
Leaving == {"unbinding", "closing", "stopped", "killed"}

USE DEF gadget, usb, Before, Reading, Shutdown, Gone

-----------------------------------------------------------------------------
(* Each place of the main thread says whether it runs and has ep0.         *)
Gadget ==
  /\ running \in BOOLEAN /\ ep0Open \in BOOLEAN /\ bound \in BOOLEAN
  /\ pc \in Before \cup Reading \cup Leaving \cup
            {"loop", "half", "waiting", "ended", "stopping"}
  /\ running <=> pc \notin Before \cup Leaving
  /\ ep0Open <=> pc \notin {"start"} \cup Gone

LEMMA GadgetInit == Init => Gadget
BY DEF Init, Gadget, Leaving

LEMMA GadgetKept == Gadget /\ [Next]_vars => Gadget'
<1> SUFFICES ASSUME Gadget, [Next]_vars PROVE Gadget'
  OBVIOUS
<1> USE DEF Gadget, Leaving, Goto, Fault, Keep, KeepThreads, CloseAll
<1>1. CASE BridgeStep
  <2>1. CASE SetupGadget
    BY <2>1 DEF SetupGadget
  <2>2. CASE StartMonitor
    BY <2>2 DEF StartMonitor
  <2>3. CASE Enter
    BY <2>3 DEF Enter
  <2>4. CASE OpenOut
    BY <2>4 DEF OpenOut
  <2>5. CASE OpenIn
    BY <2>5 DEF OpenIn
  <2>6. CASE OpenFails
    BY <2>6 DEF OpenFails
  <2>7. CASE Reopen
    BY <2>7 DEF Reopen
  <2>8. CASE ReadEnds
    BY <2>8 DEF ReadEnds
  <2>9. CASE ReadMore
    BY <2>9 DEF ReadMore
  <2>10. CASE Engraved
    BY <2>10 DEF Engraved
  <2>11. CASE Reply
    BY <2>11 DEF Reply
  <2>12. CASE ReplyLost
    BY <2>12 DEF ReplyLost
  <2>13. CASE Stop
    BY <2>13 DEF Stop
  <2>14. CASE UnbindUdc
    BY <2>14 DEF UnbindUdc
  <2>15. CASE CloseEp0
    BY <2>15 DEF CloseEp0
  <2>16. CASE \E n \in 1..Len(pipe) : Read(n)
    BY <2>16 DEF Read
  <2>17. CASE \E kind \in Kinds : Handle(kind)
    BY <2>17 DEF Handle, Kinds, Then
  <2>18. QED
    BY <1>1, <2>1, <2>2, <2>3, <2>4, <2>5, <2>6, <2>7, <2>8, <2>9, <2>10,
       <2>11, <2>12, <2>13, <2>14, <2>15, <2>16, <2>17 DEF BridgeStep
<1>2. CASE Ep0Step
  <2>1. CASE Ep0Test
    BY <2>1 DEF Ep0Test, Serves, KeepMain
  <2>2. CASE Ep0Poll
    BY <2>2 DEF Ep0Poll, KeepMain
  <2>3. QED BY <1>2, <2>1, <2>2 DEF Ep0Step
<1>3. CASE Terminate
  <2>1. CASE pc \in Before \cup Shutdown
    BY <1>3, <2>1 DEF Terminate, Die
  <2>2. CASE pc \notin Before \cup Shutdown
    BY <1>3, <2>2 DEF Terminate
  <2>3. QED BY <2>1, <2>2
<1>4. CASE Host
  <2>1. UNCHANGED <<pc, running, fds, ep0, ep0Open, bound>>
    BY <1>4, Zenon DEF Host, Attach, Detach, SendCommand, KeepBridge
  <2>2. QED BY <2>1
<1>5. CASE UNCHANGED vars
  BY <1>5 DEF vars
<1>6. QED
  BY <1>1, <1>2, <1>3, <1>4, <1>5 DEF Next

-----------------------------------------------------------------------------
(* The stream.  What LightBurn sends is a row of commands, each two halves *)
(* in order; a row may begin with a second half, but it ends with one.     *)
Row(s) ==
  \A i \in 1..Len(s) :
    /\ s[i].half = 1 => i < Len(s) /\ s[i + 1].half = 2
                                  /\ s[i + 1].cmd = s[i].cmd
    /\ s[i].half = 2 /\ i < Len(s) => s[i + 1].half = 1
FromStart(s) == s # <<>> => s[1].half = 1

LEMMA RowGrows ==
  ASSUME NEW s \in Seq(Halves), Row(s), NEW c \in Nat \ {0},
         NEW t, t = s \o <<[cmd |-> c, half |-> 1], [cmd |-> c, half |-> 2]>>
  PROVE  t \in Seq(Halves) /\ Row(t) /\ (FromStart(s) => FromStart(t))
<1> DEFINE u == <<[cmd |-> c, half |-> 1], [cmd |-> c, half |-> 2]>>
<1>1. /\ u \in Seq(Halves) /\ Len(u) = 2
      /\ u[1] = [cmd |-> c, half |-> 1] /\ u[2] = [cmd |-> c, half |-> 2]
  BY DEF Halves
<1>2. /\ t \in Seq(Halves) /\ Len(t) = Len(s) + 2
      /\ \A i \in 1..Len(s) + 2 :
           t[i] = IF i <= Len(s) THEN s[i] ELSE u[i - Len(s)]
  BY <1>1, ConcatProperties
<1>3. Len(s) \in Nat /\ \A i \in 1..Len(s) : s[i].half \in {1, 2}
  <2>1. \A i \in 1..Len(s) : s[i] \in Halves
    BY ElementOfSeq
  <2>2. QED BY <2>1, LenProperties DEF Halves
<1> HIDE DEF u
<1>4. Row(t)
  <2> SUFFICES ASSUME NEW i \in 1..Len(s) + 2
               PROVE  /\ t[i].half = 1 => /\ i < Len(s) + 2
                                          /\ t[i + 1].half = 2
                                          /\ t[i + 1].cmd = t[i].cmd
                      /\ t[i].half = 2 /\ i < Len(s) + 2
                           => t[i + 1].half = 1
    BY <1>2 DEF Row
  <2>1. CASE i < Len(s)
    BY <2>1, <1>2, <1>3 DEF Row
  <2>2. CASE i = Len(s)
    BY <2>2, <1>1, <1>2, <1>3 DEF Row
  <2>3. CASE i = Len(s) + 1
    BY <2>3, <1>1, <1>2, <1>3
  <2>4. CASE i = Len(s) + 2
    BY <2>4, <1>1, <1>2, <1>3
  <2>5. QED BY <1>3, <2>1, <2>2, <2>3, <2>4
<1>5. FromStart(s) => FromStart(t)
  BY <1>1, <1>2, <1>3, EmptySeq DEF FromStart
<1>6. QED BY <1>2, <1>4, <1>5

LEMMA StartKept ==
  ASSUME NEW s \in Seq(Halves), FromStart(s), NEW c \in Nat \ {0},
         NEW t, t = s \o <<[cmd |-> c, half |-> 1], [cmd |-> c, half |-> 2]>>
  PROVE  FromStart(t)
<1> DEFINE u == <<[cmd |-> c, half |-> 1], [cmd |-> c, half |-> 2]>>
<1>1. u \in Seq(Halves) /\ Len(u) = 2 /\ u[1] = [cmd |-> c, half |-> 1]
  BY DEF Halves
<1>2. Len(s) \in Nat /\ t[1] = IF 1 <= Len(s) THEN s[1] ELSE u[1 - Len(s)]
  BY <1>1, ConcatProperties
<1>3. t[1].half = 1
  BY <1>1, <1>2, EmptySeq DEF FromStart
<1>4. QED BY <1>3 DEF FromStart

LEMMA Dropped ==
  ASSUME NEW S, NEW s \in Seq(S), NEW n \in 0..Len(s),
         NEW m, m = n + 1, NEW t, t = SubSeq(s, m, Len(s))
  PROVE  /\ t \in Seq(S) /\ Len(t) = Len(s) - n
         /\ \A i \in 1..Len(s) - n : t[i] = s[n + i]
<1>1. Len(s) \in Nat
  BY LenProperties
<1>2. QED BY <1>1, SubSeqProperties, ElementOfSeq

LEMMA DroppedTwo ==
  ASSUME NEW S, NEW s \in Seq(S), Len(s) >= 2
  PROVE  /\ SubSeq(s, 3, Len(s)) \in Seq(S)
         /\ Len(SubSeq(s, 3, Len(s))) = Len(s) - 2
         /\ \A i \in 1..Len(s) - 2 : SubSeq(s, 3, Len(s))[i] = s[2 + i]
<1> DEFINE n == 2  m == 3  t == SubSeq(s, m, Len(s))
<1>1. n \in 0..Len(s) /\ m = n + 1 /\ t = SubSeq(s, m, Len(s))
  BY LenProperties
<1> HIDE DEF n, m, t
<1>2. /\ t \in Seq(S) /\ Len(t) = Len(s) - n
      /\ \A i \in 1..Len(s) - n : t[i] = s[n + i]
  BY <1>1, Dropped
<1>3. QED BY <1>2 DEF n, m, t

LEMMA RowDrops ==
  ASSUME NEW s \in Seq(Halves), Row(s), NEW n \in 0..Len(s),
         NEW t, t = SubSeq(s, n + 1, Len(s))
  PROVE  t \in Seq(Halves) /\ Row(t)
<1>1. Len(s) \in Nat
  BY LenProperties
<1>2. /\ t \in Seq(Halves) /\ Len(t) = Len(s) - n
      /\ \A i \in 1..Len(s) - n : t[i] = s[n + i]
  BY Dropped
<1>3. Row(t)
  BY <1>1, <1>2 DEF Row
<1>4. QED BY <1>2, <1>3

LEMMA Regroup ==
  ASSUME NEW S, NEW b \in Seq(S), NEW p \in Seq(S), NEW n \in 1..Len(p)
  PROVE  /\ SubSeq(p, 1, n) \in Seq(S)
         /\ SubSeq(p, n + 1, Len(p)) \in Seq(S)
         /\ (b \o SubSeq(p, 1, n)) \o SubSeq(p, n + 1, Len(p)) = b \o p
<1>1. Len(p) \in Nat
  BY LenProperties
<1>2. SubSeq(p, 1, n) \in Seq(S) /\ SubSeq(p, n + 1, Len(p)) \in Seq(S)
  BY <1>1, SubSeqProperties, ElementOfSeq
<1>3. SubSeq(p, 1, n) \o SubSeq(p, n + 1, Len(p)) = p
  BY <1>1, ConcatAdjacentSubSeq, SubSeqFull
<1> DEFINE first == SubSeq(p, 1, n)
           rest  == SubSeq(p, n + 1, Len(p))
<1>4. first \in Seq(S) /\ rest \in Seq(S) /\ first \o rest = p
  BY <1>2, <1>3
<1> HIDE DEF first, rest
<1>5. \A q, r \in Seq(S) : (b \o q) \o r = b \o (q \o r)
  BY SMT
<1>6. (b \o first) \o rest = b \o p
  BY <1>4, <1>5
<1>7. QED BY <1>2, <1>6 DEF first, rest

LEMMA DropFromFront ==
  ASSUME NEW S, NEW b \in Seq(S), NEW p \in Seq(S), Len(b) >= 2
  PROVE  /\ SubSeq(b, 3, Len(b)) \in Seq(S)
         /\ SubSeq(b, 3, Len(b)) \o p = SubSeq(b \o p, 3, Len(b \o p))
<1>1. Len(b) \in Nat /\ Len(p) \in Nat
  BY LenProperties
<1>2. /\ SubSeq(b, 3, Len(b)) \in Seq(S)
      /\ Len(SubSeq(b, 3, Len(b))) = Len(b) - 2
      /\ \A i \in 1..Len(b) - 2 : SubSeq(b, 3, Len(b))[i] = b[2 + i]
  BY <1>1, DroppedTwo
<1>3. /\ b \o p \in Seq(S) /\ Len(b \o p) = Len(b) + Len(p)
      /\ \A i \in 1..Len(b) + Len(p) :
           (b \o p)[i] = IF i <= Len(b) THEN b[i] ELSE p[i - Len(b)]
  BY ConcatProperties
<1>4. /\ SubSeq(b \o p, 3, Len(b \o p)) \in Seq(S)
      /\ Len(SubSeq(b \o p, 3, Len(b \o p))) = Len(b) + Len(p) - 2
      /\ \A i \in 1..Len(b) + Len(p) - 2 :
           SubSeq(b \o p, 3, Len(b \o p))[i] = (b \o p)[2 + i]
  <2> DEFINE s == b \o p
  <2>1. s \in Seq(S) /\ Len(s) = Len(b) + Len(p) /\ Len(s) >= 2
    BY <1>1, <1>3
  <2> HIDE DEF s
  <2>2. /\ SubSeq(s, 3, Len(s)) \in Seq(S)
        /\ Len(SubSeq(s, 3, Len(s))) = Len(s) - 2
        /\ \A i \in 1..Len(s) - 2 : SubSeq(s, 3, Len(s))[i] = s[2 + i]
    BY <2>1, DroppedTwo
  <2>3. QED BY <2>1, <2>2 DEF s
<1>5. /\ SubSeq(b, 3, Len(b)) \o p \in Seq(S)
      /\ Len(SubSeq(b, 3, Len(b)) \o p) = Len(b) + Len(p) - 2
      /\ \A i \in 1..Len(b) + Len(p) - 2 :
           (SubSeq(b, 3, Len(b)) \o p)[i]
             = IF i <= Len(b) - 2 THEN b[2 + i] ELSE p[i - (Len(b) - 2)]
  BY <1>1, <1>2, ConcatProperties
<1>6. \A i \in 1..Len(b) + Len(p) - 2 :
        (SubSeq(b, 3, Len(b)) \o p)[i]
          = SubSeq(b \o p, 3, Len(b \o p))[i]
  BY <1>1, <1>3, <1>4, <1>5
<1>7. QED
  BY <1>2, <1>4, <1>5, <1>6, SeqEqual

InHand  == {"parsing", "replying", "engraving"}
Stopped == Leaving \cup {"stopping"}

(* As long as nothing was in hand when LightBurn left, the buffer and the  *)
(* pipe together are a row of whole commands; and while nobody reads, the  *)
(* pipe alone is, because a connection that is cut leaves nothing behind.  *)
Stream ==
  /\ buf \in Seq(Halves) /\ pipe \in Seq(Halves) /\ sent \in Seq(Commands)
  /\ Row(pipe)
  /\ visit \in Nat /\ (~attached => pipe = <<>>)
  /\ pc \in InHand => ~cut
  /\ pc \in Reading /\ ~cut /\ ~stale
       => Row(buf \o pipe) /\ FromStart(buf \o pipe)
  /\ pc \notin Reading \cup Stopped \/ cut => FromStart(pipe)
  /\ garbled => stale

LEMMA StreamInit == Init => Stream
BY EmptySeq DEF Init, Stream, Row, FromStart, InHand, Stopped, Leaving

(* Reading moves halves from the pipe to the buffer.                       *)
LEMMA ReadStream ==
  ASSUME Stream, NEW n \in 1..Len(pipe), Read(n) PROVE Stream'
<1>1. /\ pc = "reading" /\ pc' = "parsing" /\ ~cut
      /\ buf' = buf \o SubSeq(pipe, 1, n)
      /\ pipe' = SubSeq(pipe, n + 1, Len(pipe))
      /\ UNCHANGED <<attached, cut, sent, visit, stale, garbled>>
  BY Zenon DEF Read, Goto
<1>2. attached
  BY DEF Read
<1>3. buf' \in Seq(Halves) /\ pipe' \in Seq(Halves)
  <2>1. /\ SubSeq(pipe, 1, n) \in Seq(Halves)
        /\ SubSeq(pipe, n + 1, Len(pipe)) \in Seq(Halves)
    BY Regroup DEF Stream
  <2>2. QED BY <1>1, <2>1, ConcatProperties DEF Stream
<1>4. buf' \o pipe' = buf \o pipe
  <2>1. buf \in Seq(Halves) /\ pipe \in Seq(Halves)
    BY DEF Stream
  <2>2. (buf \o SubSeq(pipe, 1, n)) \o SubSeq(pipe, n + 1, Len(pipe))
          = buf \o pipe
    BY <2>1, Regroup
  <2>3. QED BY <1>1, <2>2
<1>5. Row(pipe')
  <2>1. n \in 0..Len(pipe)
    BY LenProperties DEF Stream
  <2>2. QED BY <1>1, <2>1, RowDrops DEF Stream
<1>6. QED
  BY <1>1, <1>2, <1>3, <1>4, <1>5 DEF Stream, InHand, Stopped, Leaving

(* What is handled is the first command in the buffer, whole unless stale. *)
LEMMA HandleStream ==
  ASSUME Stream, NEW kind \in Kinds, Handle(kind) PROVE Stream'
<1>1. /\ pc = "parsing" /\ pc' \in InHand
      /\ garbled' = (garbled \/ ~Whole)
      /\ buf' = SubSeq(buf, 3, Len(buf))
      /\ UNCHANGED <<pipe, attached, cut, sent, visit, stale>>
  BY DEF Handle, Kinds, Then, InHand, KeepThreads
<1>2. Len(buf) \in Nat /\ Len(buf) >= 2 /\ Len(pipe) \in Nat
  BY LenProperties DEF Handle, NeedsWhole, Stream
<1>3. /\ buf' \in Seq(Halves)
      /\ buf' \o pipe' = SubSeq(buf \o pipe, 3, Len(buf \o pipe))
  BY <1>1, <1>2, DropFromFront DEF Stream
<1>4. /\ buf \o pipe \in Seq(Halves)
      /\ Len(buf \o pipe) = Len(buf) + Len(pipe)
      /\ (buf \o pipe)[1] = buf[1] /\ (buf \o pipe)[2] = buf[2]
  BY <1>2, ConcatProperties DEF Stream
<1>5. ~stale => /\ Row(buf \o pipe) /\ buf[1].half = 1
                /\ buf[2].half = 2 /\ buf[2].cmd = buf[1].cmd
  BY <1>1, <1>2, <1>4, EmptySeq DEF Stream, Row, FromStart, InHand
<1>6. ~stale => Row(buf' \o pipe') /\ FromStart(buf' \o pipe')
  <2> SUFFICES ASSUME ~stale
               PROVE  Row(buf' \o pipe') /\ FromStart(buf' \o pipe')
    OBVIOUS
  <2> DEFINE s == buf \o pipe  t == buf' \o pipe'
  <2>1. s \in Seq(Halves) /\ Row(s) /\ Len(s) \in Nat /\ Len(s) >= 2
        /\ s[2].half = 2
    BY <1>2, <1>4, <1>5
  <2>2. t = SubSeq(s, 3, Len(s))
    BY <1>3
  <2> HIDE DEF s, t
  <2>3. t \in Seq(Halves) /\ Row(t)
    <3>1. 2 \in 0..Len(s) /\ t = SubSeq(s, 2 + 1, Len(s))
      BY <2>1, <2>2
    <3>2. QED BY <2>1, <3>1, RowDrops
  <2>4. /\ Len(t) = Len(s) - 2
        /\ \A i \in 1..Len(s) - 2 : t[i] = s[2 + i]
    BY <2>1, <2>2, DroppedTwo
  <2>5. FromStart(t)
    BY <2>1, <2>3, <2>4, EmptySeq DEF FromStart, Row
  <2>6. QED BY <2>3, <2>5 DEF t
<1>7. garbled' => stale'
  BY <1>1, <1>5 DEF Whole, Stream
<1>8. QED
  BY <1>1, <1>3, <1>6, <1>7 DEF Stream, InHand, Stopped, Leaving

(* Commands arrive whole, and a connection that ends takes its own along.  *)
LEMMA HostStream == ASSUME Stream, Host PROVE Stream'
<1>1. CASE Attach
  <2>1. /\ UNCHANGED <<pc, buf, pipe, cut, sent, stale, garbled>> /\ attached'
        /\ visit' = visit + 1
    BY <1>1 DEF Attach, KeepBridge
  <2>2. QED BY <2>1 DEF Stream
<1>2. CASE \E kind \in Kinds : SendCommand(kind)
  <2>1. PICK kind \in Kinds : SendCommand(kind)
    BY <1>2
  <2> DEFINE c == Len(sent) + 1
             halves == <<[cmd |-> c, half |-> 1], [cmd |-> c, half |-> 2]>>
  <2>2. /\ UNCHANGED <<pc, buf, attached, cut, visit, stale, garbled>>
        /\ attached
        /\ pipe' = pipe \o halves
        /\ sent' = Append(sent, [kind |-> kind, visit |-> visit])
    BY <2>1 DEF SendCommand, KeepBridge
  <2>3. c \in Nat \ {0} /\ sent' \in Seq(Commands)
    BY <2>2, LenProperties, AppendProperties DEF Stream, Commands
  <2>4. halves \in Seq(Halves)
    BY <2>3 DEF Halves
  <2> HIDE DEF c
  <2>5. /\ pipe' \in Seq(Halves) /\ Row(pipe')
        /\ FromStart(pipe) => FromStart(pipe')
    <3>1. /\ pipe \in Seq(Halves) /\ Row(pipe) /\ c \in Nat \ {0}
          /\ pipe' = pipe \o halves
      BY <2>2, <2>3 DEF Stream
    <3>2. Row(pipe')
      BY <3>1, RowGrows
    <3>3. ASSUME FromStart(pipe) PROVE FromStart(pipe')
      BY <3>1, <3>3, StartKept
    <3>4. pipe' \in Seq(Halves)
      <4> HIDE DEF halves
      <4>1. \A s, t \in Seq(Halves) : s \o t \in Seq(Halves)
        OBVIOUS
      <4>2. QED BY <2>4, <3>1, <4>1
    <3>5. QED BY <3>2, <3>3, <3>4
  <2>6. /\ buf \o pipe \in Seq(Halves)
        /\ buf' \o pipe' = (buf \o pipe) \o halves
    <3> HIDE DEF halves
    <3>1. buf \in Seq(Halves) /\ pipe \in Seq(Halves)
      BY DEF Stream
    <3>2. buf \o (pipe \o halves) = (buf \o pipe) \o halves
      BY <2>4, <3>1, SMT
    <3>3. QED BY <2>2, <3>1, <3>2, ConcatProperties
  <2>7. Row(buf \o pipe) => /\ Row(buf' \o pipe')
                            /\ FromStart(buf \o pipe)
                                 => FromStart(buf' \o pipe')
    BY <2>3, <2>6, RowGrows
  <2> HIDE DEF halves
  <2>8. QED BY <2>2, <2>3, <2>5, <2>7 DEF Stream
<1>3. CASE Detach
  <2>1. /\ UNCHANGED <<pc, buf, sent, visit, garbled>> /\ pipe' = <<>>
        /\ ~attached'
        /\ cut' = (cut \/ pc = "reading")
        /\ stale' = (stale \/ pc \in Reading \ {"reading"})
    BY <1>3 DEF Detach, KeepBridge
  <2>2. pipe' \in Seq(Halves) /\ Row(pipe') /\ FromStart(pipe')
    BY <2>1, EmptySeq DEF Row, FromStart
  <2>3. QED BY <2>1, <2>2 DEF Stream, InHand
<1>4. QED BY <1>1, <1>2, <1>3 DEF Host

(* The other steps of the bridge touch the pipe not at all, and the buffer *)
(* only to empty it.                                                       *)
LEMMA OtherStream ==
  ASSUME Stream, Gadget,
         \/ BridgeStep /\ (\A n \in 1..Len(pipe) : ~Read(n))
                       /\ \A kind \in Kinds : ~Handle(kind)
         \/ Ep0Step \/ Terminate \/ UNCHANGED vars
  PROVE  Stream'
<1> USE DEF Goto, Fault, Keep, KeepThreads, InHand, Stopped, Leaving
<1>1. CASE OpenIn
  <2>1. /\ pc = "half" /\ pc' = "reading" /\ buf' = <<>> /\ ~cut'
        /\ UNCHANGED <<pipe, attached, sent, visit, stale, garbled>>
    BY <1>1 DEF OpenIn, NewBuffer
  <2>2. buf' \in Seq(Halves) /\ buf' \o pipe' = pipe
    BY <2>1, EmptySeq, ConcatEmptySeq DEF Stream
  <2>3. QED BY <2>1, <2>2 DEF Stream
<1>2. CASE ReadEnds
  <2>1. /\ pc = "reading" /\ pc' = "ended" /\ (cut \/ ~attached)
        /\ UNCHANGED <<buf, pipe, attached, cut, sent, visit, stale,
                          garbled>>
    BY <1>2 DEF ReadEnds
  <2>2. FromStart(pipe)
    BY <2>1 DEF Stream, FromStart
  <2>3. QED BY <2>1, <2>2 DEF Stream
<1>3. CASE \/ ReadMore \/ Engraved \/ Reply \/ ReplyLost
  <2>1. /\ pc \in InHand /\ pc' \in {"reading", "parsing"}
        /\ UNCHANGED <<buf, pipe, attached, cut, sent, visit, stale,
                          garbled>>
    BY <1>3 DEF ReadMore, Engraved, Reply, ReplyLost
  <2>2. QED BY <2>1 DEF Stream
<1>4. CASE /\ pc' \notin Reading
           /\ pc \in Reading \cup Stopped => pc' \in Stopped
           /\ UNCHANGED <<buf, pipe, attached, cut, sent, visit, stale,
                          garbled>>
  BY <1>4 DEF Stream
<1>5. CASE UNCHANGED <<pc, buf, pipe, attached, cut, sent, visit, stale,
                      garbled>>
  BY <1>5 DEF Stream
<1>6. CASE SetupGadget \/ StartMonitor \/ Enter \/ OpenOut
  BY <1>4, <1>6 DEF SetupGadget, StartMonitor, Enter, OpenOut
<1>7. CASE OpenFails \/ Reopen
  BY <1>4, <1>7 DEF OpenFails, Reopen
<1>8. CASE Stop \/ UnbindUdc \/ CloseEp0
  BY <1>4, <1>8 DEF Stop, UnbindUdc, CloseEp0
<1>9. CASE Terminate
  <2>1. /\ pc' \in {"killed", "stopping"}
        /\ UNCHANGED <<buf, pipe, attached, cut, sent, visit, stale,
                          garbled>>
    BY <1>9 DEF Terminate, Die
  <2>2. QED BY <1>4, <2>1
<1>10. CASE Ep0Step \/ UNCHANGED vars
  <2>1. UNCHANGED <<pc, buf, pipe, attached, cut, sent, visit, stale,
                      garbled>>
    BY <1>10, Zenon DEF Ep0Step, Ep0Test, Ep0Poll, KeepMain, vars
  <2>2. QED BY <1>5, <2>1
<1>11. QED
  BY <1>1, <1>2, <1>3, <1>6, <1>7, <1>8, <1>9, <1>10, Zenon DEF BridgeStep

LEMMA StreamKept == Stream /\ Gadget /\ [Next]_vars => Stream'
<1> SUFFICES ASSUME Stream, Gadget, [Next]_vars PROVE Stream'
  OBVIOUS
<1>1. CASE \E n \in 1..Len(pipe) : Read(n)
  BY <1>1, ReadStream
<1>2. CASE \E kind \in Kinds : Handle(kind)
  BY <1>2, HandleStream
<1>3. CASE Host
  BY <1>3, HostStream
<1>4. CASE BridgeStep \/ Ep0Step \/ Terminate \/ UNCHANGED vars
  BY <1>1, <1>2, <1>4, OtherStream, Zenon
<1>5. QED
  BY <1>3, <1>4, Zenon DEF Next

(* Whatever the reads cut and wherever LightBurn leaves, no half of one    *)
(* command is joined to a half of another.                                 *)
THEOREM WholeCommands == Spec => []CommandsAreWhole
<1>1. Stream => CommandsAreWhole
  BY DEF Stream, CommandsAreWhole
<1>2. QED
  BY <1>1, GadgetInit, GadgetKept, StreamInit, StreamKept, PTL DEF Spec

-----------------------------------------------------------------------------
(* The files: each place of the main thread says which endpoints are open. *)
Files ==
  /\ pc \in Reading \cup {"ended"} => fds = {"out", "in"}
  /\ pc = "half" => fds = {"out"}
  /\ pc \notin Reading \cup {"ended", "half", "waiting", "stopping"}
       => fds = {}
  /\ ep0 \in {"none", "testing", "polling", "stopped"}
  /\ answer = 0 \/ pc = "replying"

LEMMA FilesKept == Files /\ Gadget /\ [Next]_vars => Files'
<1> SUFFICES ASSUME Files, Gadget, [Next]_vars PROVE Files'
  OBVIOUS
<1> USE DEF Files, Goto, Fault, Keep, KeepThreads, CloseAll
<1>1. CASE SetupGadget \/ StartMonitor \/ Enter
  BY <1>1 DEF SetupGadget, StartMonitor, Enter
<1>2. CASE OpenOut \/ OpenIn \/ OpenFails \/ Reopen
  BY <1>2 DEF OpenOut, OpenIn, OpenFails, Reopen
<1>3. CASE ReadEnds \/ ReadMore \/ Engraved \/ Reply \/ ReplyLost
  BY <1>3 DEF ReadEnds, ReadMore, Engraved, Reply, ReplyLost
<1>4. CASE Stop \/ UnbindUdc \/ CloseEp0
  BY <1>4 DEF Stop, UnbindUdc, CloseEp0
<1>5. CASE \E n \in 1..Len(pipe) : Read(n)
  BY <1>5 DEF Read
<1>6. CASE \E kind \in Kinds : Handle(kind)
  BY <1>6 DEF Handle, Kinds, Then
<1>7. CASE Ep0Step
  BY <1>7 DEF Ep0Step, Ep0Test, Ep0Poll, KeepMain
<1>8. CASE Terminate
  BY <1>8 DEF Terminate, Die
<1>9. CASE Host
  <2>1. UNCHANGED <<pc, fds, ep0, answer>>
    BY <1>9, Zenon DEF Host, Attach, Detach, SendCommand, KeepBridge
  <2>2. QED BY <2>1
<1>10. CASE UNCHANGED vars
  BY <1>10 DEF vars
<1>11. QED
  BY <1>1, <1>2, <1>3, <1>4, <1>5, <1>6, <1>7, <1>8, <1>9, <1>10
     DEF Next, BridgeStep

(* What is read, or on its way, is of commands that were sent.             *)
Known == {h \in Halves : h.cmd \in 1..Len(sent)}
Numbers ==
  /\ buf \in Seq(Known) /\ pipe \in Seq(Known)
  /\ answer \in 0..Len(sent) /\ (pc = "replying" => answer # 0)

LEMMA Wider ==
  ASSUME NEW S, NEW T, S \subseteq T, NEW s \in Seq(S)
  PROVE  s \in Seq(T)
OBVIOUS

LEMMA NumbersKept ==
  Numbers /\ Files /\ Stream /\ [Next]_vars => Numbers'
<1> SUFFICES ASSUME Numbers, Files, Stream, [Next]_vars PROVE Numbers'
  OBVIOUS
<1> USE DEF Goto, Fault, Keep, KeepThreads
<1>1. CASE /\ sent' = sent /\ buf' = buf /\ pipe' = pipe
           /\ \/ answer' = answer /\ (pc' = "replying" => pc = "replying")
              \/ answer' = 0 /\ pc' # "replying"
  <2>1. Known' = Known
    BY <1>1 DEF Known
  <2>2. Len(sent) \in Nat
    BY LenProperties DEF Stream
  <2>3. QED BY <1>1, <2>1, <2>2 DEF Numbers
<1>2. ASSUME NEW n \in 1..Len(pipe), Read(n) PROVE Numbers'
  <2>1. /\ buf' = buf \o SubSeq(pipe, 1, n)
        /\ pipe' = SubSeq(pipe, n + 1, Len(pipe))
        /\ UNCHANGED <<sent, answer>> /\ pc' = "parsing"
    BY <1>2 DEF Read
  <2>2. /\ SubSeq(pipe, 1, n) \in Seq(Known) /\ pipe' \in Seq(Known)
    BY <2>1, Regroup DEF Numbers
  <2>3. buf' \in Seq(Known)
    BY <2>1, <2>2, ConcatProperties DEF Numbers
  <2>4. Known' = Known
    BY <2>1 DEF Known
  <2>5. QED BY <2>1, <2>2, <2>3, <2>4 DEF Numbers
<1>3. ASSUME NEW kind \in Kinds, Handle(kind) PROVE Numbers'
  <2>1. /\ buf' = SubSeq(buf, 3, Len(buf)) /\ UNCHANGED <<pipe, sent>>
        /\ answer' = IF kind = "single" THEN buf[1].cmd ELSE 0
        /\ pc' = Then[kind]
    BY <1>3 DEF Handle
  <2>2. Len(buf) \in Nat /\ Len(buf) >= 2
    BY <1>3, LenProperties DEF Handle, NeedsWhole, Numbers
  <2>3. buf' \in Seq(Known)
    BY <2>1, <2>2, DroppedTwo DEF Numbers
  <2>4. buf[1] \in Known
    BY <2>2, ElementOfSeq DEF Numbers
  <2>5. Known' = Known
    BY <2>1 DEF Known
  <2>6. Len(sent) \in Nat
    BY LenProperties DEF Stream
  <2>7. answer' \in 0..Len(sent) /\ (pc' = "replying" => answer' # 0)
    BY <2>1, <2>4, <2>6 DEF Known, Then, Kinds
  <2>8. QED BY <2>1, <2>3, <2>5, <2>7 DEF Numbers
<1>4. ASSUME NEW kind \in Kinds, SendCommand(kind) PROVE Numbers'
  <2> DEFINE c == Len(sent) + 1
             new == <<[cmd |-> c, half |-> 1], [cmd |-> c, half |-> 2]>>
  <2>1. /\ UNCHANGED <<buf, answer, pc>> /\ pipe' = pipe \o new
        /\ sent' = Append(sent, [kind |-> kind, visit |-> visit])
    BY <1>4, Zenon DEF SendCommand, KeepBridge
  <2>2. Len(sent) \in Nat /\ Len(sent') = c
    BY <2>1, LenProperties, AppendProperties DEF Stream, Commands
  <2>3. Known \subseteq Known'
    BY <2>2 DEF Known
  <2>4. \A S : [cmd |-> c, half |-> 1] \in S /\ [cmd |-> c, half |-> 2] \in S
                 => new \in Seq(S)
    OBVIOUS
  <2>5. new \in Seq(Known')
    BY <2>2, <2>4 DEF Known, Halves
  <2> HIDE DEF c, new
  <2>6. buf' \in Seq(Known') /\ pipe \in Seq(Known')
    BY <2>1, <2>3, Wider DEF Numbers
  <2>7. pipe' \in Seq(Known')
    BY <2>1, <2>5, <2>6, ConcatProperties
  <2>8. answer' \in 0..Len(sent') /\ (pc' = "replying" => answer' # 0)
    BY <2>1, <2>2 DEF Numbers, c
  <2>9. QED BY <2>6, <2>7, <2>8 DEF Numbers
<1>5. CASE OpenIn
  <2>1. /\ buf' = <<>> /\ UNCHANGED <<pipe, sent, answer>>
        /\ pc' = "reading"
    BY <1>5 DEF OpenIn, NewBuffer
  <2>2. Known' = Known /\ <<>> \in Seq(Known)
    BY <2>1, EmptySeq DEF Known
  <2>3. QED BY <2>1, <2>2 DEF Numbers
<1>6. CASE Detach
  <2>1. /\ UNCHANGED <<pc, buf, sent, answer>> /\ pipe' = <<>>
    BY <1>6, Zenon DEF Detach, KeepBridge, Files
  <2>2. Known' = Known /\ <<>> \in Seq(Known)
    BY <2>1, EmptySeq DEF Known
  <2>3. QED BY <2>1, <2>2 DEF Numbers
<1>7. CASE SetupGadget \/ StartMonitor \/ Enter \/ OpenOut \/ OpenFails
  BY <1>1, <1>7 DEF SetupGadget, StartMonitor, Enter, OpenOut, OpenFails
<1>8. CASE Reopen \/ ReadEnds \/ ReadMore \/ Engraved \/ Reply \/ ReplyLost
  BY <1>1, <1>8 DEF Reopen, ReadEnds, ReadMore, Engraved, Reply, ReplyLost
<1>9. CASE Stop \/ UnbindUdc \/ CloseEp0 \/ Terminate
  BY <1>1, <1>9 DEF Stop, UnbindUdc, CloseEp0, Terminate, Die
<1>10. CASE Ep0Step \/ Attach \/ UNCHANGED vars
  <2>1. UNCHANGED <<pc, buf, pipe, sent, answer>>
    BY <1>10, Zenon DEF Ep0Step, Ep0Test, Ep0Poll, KeepMain, Attach,
                        KeepBridge, vars
  <2>2. /\ sent' = sent /\ buf' = buf /\ pipe' = pipe
        /\ answer' = answer /\ pc' = pc
    BY <2>1
  <2>3. QED BY <1>1, <2>2, Zenon
<1>11. QED
  BY <1>2, <1>3, <1>4, <1>5, <1>6, <1>7, <1>8, <1>9, <1>10, Zenon
     DEF Next, BridgeStep, Host

(* THEOREM: the endpoint files are those the main thread's place says, no  *)
(* reply is under way outside a single command, and no byte is of a        *)
(* command that nobody sent.                                               *)
THEOREM TypesHold == Spec => []TypeOK
<1>1. Init => Files /\ Numbers
  BY EmptySeq DEF Init, Files, Numbers, Known
<1>2. Gadget /\ Files /\ Numbers => TypeOK
  <2> SUFFICES ASSUME Gadget, Files, Numbers PROVE TypeOK
    OBVIOUS
  <2>1. \A i \in 1..Len(buf) : buf[i].cmd \in 1..Len(sent)
    BY ElementOfSeq DEF Numbers, Known
  <2>2. answer \in 0..Len(sent) /\ (answer # 0) = (pc = "replying")
    BY DEF Files, Numbers
  <2>3. QED BY <2>1, <2>2 DEF Gadget, Files, TypeOK, Leaving
<1>3. QED
  BY <1>1, <1>2, GadgetInit, GadgetKept, StreamInit, StreamKept, FilesKept,
     NumbersKept, PTL DEF Spec
-----------------------------------------------------------------------------
(* The order of the replies.  What is in hand of a connection is sorted by *)
(* command, all of it this connection's, and after everything answered.    *)
Live == pc \in Reading /\ ~cut
Sorted(s) ==
  \A i, j \in 1..Len(s) : i < j =>
    s[i].cmd <= s[j].cmd /\ (s[j].half = 1 => s[i].cmd < s[j].cmd)
After(n, s) == \A i \in 1..Len(s) : n < s[i].cmd
Due(s) ==
  /\ Sorted(s) /\ \A i \in 1..Len(s) : OfThisVisit(s[i].cmd)
  /\ \A r \in 1..Len(replies) : After(replies[r], s)
  /\ answer # 0 => After(answer, s)
Proper(n) == n \in 1..Len(sent) /\ OfThisVisit(n) /\ sent[n].kind = "single"
Replied ==
  /\ replies \in Seq(Nat) /\ \A r \in 1..Len(replies) : Proper(replies[r])
  /\ \A i, j \in 1..Len(replies) : i < j => replies[i] < replies[j]
  /\ answer # 0 => /\ Proper(answer)
                   /\ \A r \in 1..Len(replies) : replies[r] < answer
Order == ~stale =>
  /\ Replied
  /\ Live => Due(buf \o pipe)
  /\ ~Live => Due(pipe)
  /\ Live /\ ~attached => pc = "reading" /\ buf = <<>>

LEMMA DueSuffix ==
  ASSUME NEW s \in Seq(Halves), Due(s), NEW t \in Seq(Halves),
         NEW n \in Nat, Len(t) = Len(s) - n,
         \A i \in 1..Len(t) : t[i] = s[n + i]
  PROVE  Due(t)
<1>1. Len(s) \in Nat /\ Len(t) \in Nat
  BY LenProperties
<1>2. \A i \in 1..Len(t) : n + i \in 1..Len(s)
  BY <1>1
<1>3. Sorted(t)
  <2> SUFFICES ASSUME NEW i \in 1..Len(t), NEW j \in 1..Len(t), i < j
               PROVE  /\ t[i].cmd <= t[j].cmd
                      /\ t[j].half = 1 => t[i].cmd < t[j].cmd
    BY DEF Sorted
  <2>1. n + i \in 1..Len(s) /\ n + j \in 1..Len(s) /\ n + i < n + j
    BY <1>1, <1>2
  <2>2. t[i] = s[n + i] /\ t[j] = s[n + j]
    OBVIOUS
  <2>3. QED BY <2>1, <2>2 DEF Due, Sorted
<1>4. QED BY <1>2, <1>3 DEF Due, After

LEMMA PipeIsDue == ASSUME Order, Stream, ~stale PROVE Due(pipe)
<1>1. CASE ~Live
  BY <1>1 DEF Order
<1>2. CASE Live
  <2>1. /\ buf \in Seq(Halves) /\ pipe \in Seq(Halves)
        /\ Len(buf) \in Nat /\ Len(pipe) \in Nat
    BY LenProperties DEF Stream
  <2> DEFINE s == buf \o pipe
  <2>2. /\ s \in Seq(Halves) /\ Len(s) = Len(buf) + Len(pipe)
        /\ \A i \in 1..Len(buf) + Len(pipe) :
             s[i] = IF i <= Len(buf) THEN buf[i] ELSE pipe[i - Len(buf)]
    BY <2>1, ConcatProperties
  <2>3. Due(s)
    BY <1>2 DEF Order
  <2> HIDE DEF s
  <2>4. /\ Len(pipe) = Len(s) - Len(buf)
        /\ \A i \in 1..Len(pipe) : pipe[i] = s[Len(buf) + i]
    BY <2>1, <2>2
  <2>5. QED BY <2>1, <2>2, <2>3, <2>4, DueSuffix
<1>3. QED BY <1>1, <1>2

(* A step that at most drops the buffer or the reply under way.            *)
LEMMA QuietOrder ==
  ASSUME Order, Stream, Live' => Live,
         UNCHANGED <<buf, pipe, sent, visit, replies, stale, attached>>,
         answer' \in {answer, 0},
         Live' /\ ~attached => pc' = pc
  PROVE  Order'
<1> SUFFICES ASSUME ~stale PROVE Order'
  BY DEF Order
<1>1. Replied'
  BY DEF Order, Replied, Proper, OfThisVisit
<1>2. ASSUME NEW s, Due(s) PROVE Due(s)'
  BY <1>2 DEF Due, Sorted, After, OfThisVisit
<1>3. ASSUME Live' PROVE Due(buf \o pipe)'
  <2>1. PICK s : s = buf \o pipe
    OBVIOUS
  <2>2. Due(s)
    BY <1>3, <2>1 DEF Order
  <2>3. Due(s)' /\ s = buf' \o pipe'
    BY <1>2, <2>1, <2>2
  <2>4. QED BY <2>3 DEF Due, Sorted, After, OfThisVisit
<1>4. Due(pipe)'
  BY PipeIsDue DEF Due, Sorted, After, OfThisVisit
<1>5. Live' /\ ~attached' => pc' = "reading" /\ buf' = <<>>
  BY DEF Order
<1>6. QED BY <1>1, <1>3, <1>4, <1>5 DEF Order

LEMMA ReadOrder ==
  ASSUME Order, Stream, NEW n \in 1..Len(pipe), Read(n) PROVE Order'
<1> SUFFICES ASSUME ~stale PROVE Order'
  BY DEF Order, Read
<1>1. /\ pc = "reading" /\ pc' = "parsing" /\ ~cut /\ attached
      /\ buf' = buf \o SubSeq(pipe, 1, n)
      /\ pipe' = SubSeq(pipe, n + 1, Len(pipe))
      /\ UNCHANGED <<attached, cut, sent, visit, stale, answer, replies>>
  BY Zenon DEF Read, Goto
<1>2. Live /\ Live'
  BY <1>1 DEF Live
<1>3. buf' \o pipe' = buf \o pipe
  <2>1. (buf \o SubSeq(pipe, 1, n)) \o SubSeq(pipe, n + 1, Len(pipe))
          = buf \o pipe
    <3>1. buf \in Seq(Halves) /\ pipe \in Seq(Halves)
      BY DEF Stream
    <3>2. QED BY <3>1, Regroup
  <2>2. QED BY <1>1, <2>1
<1>4. Due(buf \o pipe)'
  <2>1. PICK s : s = buf \o pipe
    OBVIOUS
  <2>2. Due(s)
    BY <1>2, <2>1 DEF Order
  <2>3. Due(s)'
    BY <1>1, <2>2 DEF Due, Sorted, After, OfThisVisit
  <2>4. QED BY <1>3, <2>1, <2>3 DEF Due, Sorted, After, OfThisVisit
<1>5. Replied'
  BY <1>1 DEF Order, Replied, Proper, OfThisVisit
<1>6. QED BY <1>1, <1>2, <1>4, <1>5 DEF Order

(* The command that is handled is before all that is left.                 *)
LEMMA HandleOrder ==
  ASSUME Order, Numbers, Stream, Files, NEW kind \in Kinds,
         Handle(kind)
  PROVE  Order'
<1> SUFFICES ASSUME ~stale PROVE Order'
  BY DEF Order, Handle, KeepThreads
<1> DEFINE s == buf \o pipe
<1>0. PICK t : t = buf' \o pipe'
  OBVIOUS
<1>1. /\ pc = "parsing" /\ pc' \in InHand /\ ~cut
      /\ pc' = "replying" <=> kind = "single"
      /\ buf' = SubSeq(buf, 3, Len(buf))
      /\ answer' = IF kind = "single" THEN buf[1].cmd ELSE 0
      /\ Whole => kind = sent[buf[1].cmd].kind
      /\ UNCHANGED <<pipe, attached, cut, sent, visit, stale, replies>>
  BY DEF Handle, Kinds, Then, InHand, KeepThreads, Stream
<1>2. Len(buf) \in Nat /\ Len(buf) >= 2 /\ Len(pipe) \in Nat
  BY LenProperties DEF Handle, NeedsWhole, Stream
<1>3. /\ s \in Seq(Halves) /\ Len(s) = Len(buf) + Len(pipe)
      /\ s[1] = buf[1] /\ s[2] = buf[2]
  BY <1>2, ConcatProperties DEF Stream
<1>4. t = SubSeq(s, 3, Len(s))
  BY <1>0, <1>1, <1>2, DropFromFront DEF Stream
<1>5. Live /\ Live' /\ attached /\ answer = 0 /\ Due(s)
  BY <1>1 DEF Live, Order, Files, InHand
<1>6. /\ s[1].half = 1 /\ s[2].half = 2 /\ s[2].cmd = s[1].cmd
      /\ Len(s) > 2 => s[3].half = 1
  BY <1>1, <1>2, <1>3, EmptySeq DEF Stream, Row, FromStart, InHand
<1> DEFINE c == s[1].cmd
<1>7. buf[1] \in Known /\ c = buf[1].cmd
  BY <1>2, <1>3, ElementOfSeq DEF Numbers
<1>8. c \in 1..Len(sent) /\ (kind = "single" => Proper(c))
  <2>1. Whole
    BY <1>3, <1>6 DEF Whole
  <2>2. Len(s) \in Nat /\ 1 \in 1..Len(s)
    BY <1>2, <1>3
  <2>3. OfThisVisit(c)
    BY <1>5, <2>2 DEF Due
  <2>4. QED BY <1>1, <1>7, <2>1, <2>3 DEF Proper, Known
<1>9. /\ t \in Seq(Halves) /\ Len(t) = Len(s) - 2
      /\ \A i \in 1..Len(s) - 2 : t[i] = s[2 + i]
  <2>1. Len(s) >= 2
    BY <1>2, <1>3
  <2> HIDE DEF s
  <2>2. QED BY <1>3, <1>4, <2>1, DroppedTwo
<1>10. Len(s) \in Nat /\ Len(s) >= 2 /\ Len(t) \in Nat
  BY <1>2, <1>3, <1>9
<1>11. Len(sent) \in Nat
  BY LenProperties DEF Stream
<1> HIDE DEF s, c
<1>12. \A i \in 1..Len(s) : s[i].cmd \in Nat
  <2>1. \A i \in 1..Len(s) : s[i] \in Halves
    BY <1>3, ElementOfSeq
  <2>2. QED BY <2>1 DEF Halves
<1>13. After(c, t)
  <2> SUFFICES ASSUME NEW i \in 1..Len(t) PROVE c < t[i].cmd
    BY DEF After
  <2>1. 1 \in 1..Len(s) /\ 3 \in 1..Len(s) /\ 2 + i \in 1..Len(s)
        /\ 3 <= 2 + i
    BY <1>9, <1>10
  <2>2. s[1].cmd < s[3].cmd
    BY <1>5, <1>6, <1>10, <2>1 DEF Due, Sorted
  <2>3. s[3].cmd <= s[2 + i].cmd
    <3>1. CASE i = 1
      BY <3>1, <1>12, <2>1
    <3>2. CASE i # 1
      BY <3>2, <1>5, <2>1 DEF Due, Sorted
    <3>3. QED BY <3>1, <3>2
  <2>4. t[i].cmd = s[2 + i].cmd
    BY <1>9
  <2>5. QED BY <1>12, <2>1, <2>2, <2>3, <2>4 DEF c
<1>14. Due(t)
  BY <1>3, <1>5, <1>9, <1>10, DueSuffix
<1>15. \A r \in 1..Len(replies) : replies[r] < c
  <2>1. 1 \in 1..Len(s)
    BY <1>10
  <2>2. QED BY <1>5, <2>1 DEF Due, After, c
<1>16. answer' # 0 => answer' = c /\ kind = "single"
  BY <1>1, <1>7
<1>17. Due(buf \o pipe)'
  <2>1. Due(t)'
    BY <1>1, <1>13, <1>14, <1>16 DEF Due, Sorted, After, OfThisVisit
  <2>2. QED BY <1>0, <2>1 DEF Due, Sorted, After, OfThisVisit
<1>18. Replied'
  <2>1. /\ replies \in Seq(Nat) /\ \A r \in 1..Len(replies) : Proper(replies[r])
        /\ \A i, j \in 1..Len(replies) : i < j => replies[i] < replies[j]
    BY DEF Order, Replied
  <2>2. \A r \in 1..Len(replies) : Proper(replies[r])'
    BY <1>1, <2>1 DEF Proper, OfThisVisit
  <2>3. answer' # 0 => /\ Proper(answer)'
                       /\ \A r \in 1..Len(replies) : replies[r] < answer'
    BY <1>1, <1>8, <1>15, <1>16 DEF Proper, OfThisVisit
  <2>4. QED BY <1>1, <2>1, <2>2, <2>3 DEF Replied
<1>19. QED BY <1>1, <1>5, <1>17, <1>18 DEF Order

LEMMA ReplyOrder ==
  ASSUME Order, Numbers, Stream, Reply PROVE Order'
<1> SUFFICES ASSUME ~stale PROVE Order'
  BY DEF Order, Reply, KeepThreads
<1>1. /\ pc = "replying" /\ pc' = "parsing" /\ attached
      /\ replies' = Append(replies, answer) /\ answer' = 0
      /\ UNCHANGED <<buf, pipe, attached, cut, sent, visit, stale>>
  BY DEF Reply, KeepThreads, Goto
<1>2. Live /\ Live' /\ answer # 0 /\ answer \in Nat
  <2>1. Len(sent) \in Nat
    BY LenProperties DEF Stream
  <2>2. QED BY <1>1, <2>1 DEF Live, Numbers, Stream, InHand
<1>3. /\ replies \in Seq(Nat) /\ \A r \in 1..Len(replies) : Proper(replies[r])
      /\ \A i, j \in 1..Len(replies) : i < j => replies[i] < replies[j]
      /\ Proper(answer) /\ \A r \in 1..Len(replies) : replies[r] < answer
  BY <1>2 DEF Order, Replied
<1>4. /\ replies' \in Seq(Nat) /\ Len(replies') = Len(replies) + 1
      /\ \A r \in 1..Len(replies) : replies'[r] = replies[r]
      /\ replies'[Len(replies) + 1] = answer /\ Len(replies) \in Nat
  BY <1>1, <1>2, <1>3, AppendProperties, LenProperties
<1>5. \A r \in 1..Len(replies') : r \in 1..Len(replies) \/ r = Len(replies) + 1
  BY <1>4
<1>6. \A r \in 1..Len(replies') : Proper(replies'[r])
  BY <1>3, <1>4, <1>5
<1>7. \A i, j \in 1..Len(replies') : i < j => replies'[i] < replies'[j]
  <2> SUFFICES ASSUME NEW i \in 1..Len(replies'), NEW j \in 1..Len(replies'),
                      i < j
               PROVE  replies'[i] < replies'[j]
    OBVIOUS
  <2>1. i \in 1..Len(replies)
    BY <1>4
  <2>2. CASE j \in 1..Len(replies)
    BY <1>3, <1>4, <2>1, <2>2
  <2>3. CASE j = Len(replies) + 1
    BY <1>3, <1>4, <2>1, <2>3
  <2>4. QED BY <1>5, <2>2, <2>3
<1>8. Replied'
  BY <1>1, <1>4, <1>6, <1>7 DEF Replied, Proper, OfThisVisit
<1>9. Due(buf \o pipe)'
  <2>1. PICK s : s = buf \o pipe
    OBVIOUS
  <2>2. /\ Sorted(s) /\ \A i \in 1..Len(s) : OfThisVisit(s[i].cmd)
        /\ \A r \in 1..Len(replies) : After(replies[r], s)
        /\ After(answer, s)
    BY <1>2, <2>1 DEF Order, Due
  <2>3. \A r \in 1..Len(replies') : After(replies'[r], s)
    BY <1>4, <1>5, <2>2
  <2>4. Due(s)'
    BY <1>1, <2>2, <2>3 DEF Due, Sorted, After, OfThisVisit
  <2>5. s = buf' \o pipe'
    BY <1>1, <2>1
  <2>6. QED BY <2>4, <2>5 DEF Due, Sorted, After, OfThisVisit
<1>10. QED BY <1>1, <1>2, <1>8, <1>9 DEF Order

(* Who comes back finds nothing of the earlier connection on its way.      *)
LEMMA AttachOrder ==
  ASSUME Order, Stream, Files, Attach PROVE Order'
<1> SUFFICES ASSUME ~stale PROVE Order'
  BY DEF Order, Attach
<1>1. /\ UNCHANGED <<pc, buf, pipe, cut, sent, stale, answer>> /\ attached'
      /\ ~attached /\ replies' = <<>>
  BY DEF Attach, KeepBridge
<1>2. pipe = <<>> /\ (Live => buf = <<>> /\ pc = "reading")
  BY <1>1 DEF Stream, Order
<1>3. answer = 0
  BY <1>1, <1>2 DEF Files, Live, Stream, InHand
<1>4. Replied'
  BY <1>1, <1>3, EmptySeq DEF Replied
<1>5. Due(<<>>)'
  BY <1>1, <1>3 DEF Due, Sorted, After
<1>6. (Live' => buf' \o pipe' = <<>>) /\ pipe' = <<>>
  <2>1. <<>> \o <<>> = <<>>
    BY SMT
  <2>2. QED BY <1>1, <1>2, <2>1 DEF Live
<1>7. QED
  BY <1>1, <1>4, <1>5, <1>6 DEF Order, Due, Sorted, After, OfThisVisit

(* What is cut off is forgotten: the pipe is empty, and a pending read     *)
(* notices; what is not noticed makes the rest stale.                      *)
LEMMA DetachOrder ==
  ASSUME Order, Detach PROVE Order'
<1> SUFFICES ASSUME ~stale' PROVE Order'
  BY DEF Order
<1>1. /\ UNCHANGED <<pc, buf, sent, visit, answer, replies>> /\ pipe' = <<>>
      /\ ~stale /\ (pc \in Reading => pc = "reading" /\ cut')
  BY DEF Detach, KeepBridge
<1>2. ~Live'
  BY <1>1 DEF Live
<1>3. Replied'
  BY <1>1 DEF Order, Replied, Proper, OfThisVisit
<1>4. Due(<<>>)'
  BY DEF Due, Sorted, After
<1>5. Due(pipe)'
  BY <1>1, <1>4 DEF Due, Sorted, After, OfThisVisit
<1>6. QED BY <1>2, <1>3, <1>5 DEF Order

LEMMA OpenOrder ==
  ASSUME Order, Stream, OpenIn PROVE Order'
<1> SUFFICES ASSUME ~stale PROVE Order'
  BY DEF Order, OpenIn
<1>1. /\ pc = "half" /\ pc' = "reading" /\ buf' = <<>> /\ ~cut'
      /\ UNCHANGED <<pipe, attached, sent, visit, stale, answer, replies>>
  BY DEF OpenIn, NewBuffer, Goto
<1>2. buf' \o pipe' = pipe
  <2>1. \A s \in Seq(Halves) : <<>> \o s = s
    BY SMT
  <2>2. QED BY <1>1, <2>1 DEF Stream
<1>3. PICK s : s = pipe
  OBVIOUS
<1>4. Due(s)
  BY <1>3, PipeIsDue
<1>5. Due(s)'
  BY <1>1, <1>4 DEF Due, Sorted, After, OfThisVisit
<1>6. Due(buf \o pipe)'
  BY <1>2, <1>3, <1>5 DEF Due, Sorted, After, OfThisVisit
<1>7. Replied'
  BY <1>1 DEF Order, Replied, Proper, OfThisVisit
<1>8. QED BY <1>1, <1>6, <1>7 DEF Order, Live

(* A new command is after all that were sent.                              *)
LEMMA SendDue ==
  ASSUME Replied, Stream, NEW kind \in Kinds, SendCommand(kind),
         NEW s \in Seq(Known), Due(s)
  PROVE  \A t : t = s \o <<[cmd |-> Len(sent) + 1, half |-> 1],
                           [cmd |-> Len(sent) + 1, half |-> 2]>> => Due(t)'
<1> DEFINE c == Len(sent) + 1
           u == <<[cmd |-> c, half |-> 1], [cmd |-> c, half |-> 2]>>
<1> TAKE t
<1> HAVE t = s \o u
<1>1. /\ UNCHANGED <<answer, replies, visit>>
      /\ sent' = Append(sent, [kind |-> kind, visit |-> visit])
  BY DEF SendCommand, KeepBridge
<1>2. /\ Len(sent) \in Nat /\ c \in Nat /\ Len(sent') = c
      /\ \A i \in 1..Len(sent) : sent'[i] = sent[i]
      /\ sent'[c] = [kind |-> kind, visit |-> visit]
  BY <1>1, LenProperties, AppendProperties DEF Stream, Commands
<1>3. /\ u \in Seq([cmd : Nat, half : {1, 2}]) /\ Len(u) = 2
      /\ u[1] = [cmd |-> c, half |-> 1] /\ u[2] = [cmd |-> c, half |-> 2]
  BY <1>2
<1> HIDE DEF c, u
<1>4. s \in Seq([cmd : Nat, half : {1, 2}]) /\ Len(s) \in Nat
  <2>1. Known \subseteq [cmd : Nat, half : {1, 2}]
    BY DEF Known, Halves
  <2>2. QED BY <2>1, Wider, LenProperties
<1>5. /\ Len(t) = Len(s) + 2
      /\ \A i \in 1..Len(s) + 2 :
           t[i] = IF i <= Len(s) THEN s[i] ELSE u[i - Len(s)]
  <2> DEFINE S == [cmd : Nat, half : {1, 2}]
  <2>1. s \in Seq(S) /\ u \in Seq(S)
    BY <1>3, <1>4
  <2> HIDE DEF S
  <2>2. t = s \o u
    BY DEF u, c
  <2>3. /\ Len(s \o u) = Len(s) + Len(u)
        /\ \A i \in 1..Len(s) + Len(u) :
             (s \o u)[i] = IF i <= Len(s) THEN s[i] ELSE u[i - Len(s)]
    BY <2>1, ConcatProperties, Zenon
  <2>4. Len(u) = 2
    BY <1>3
  <2>5. QED BY <2>2, <2>3, <2>4
<1>6. \A i \in 1..Len(s) : /\ s[i].cmd \in 1..Len(sent)
                           /\ s[i].half \in {1, 2}
  <2>1. \A i \in 1..Len(s) : s[i] \in Known
    BY ElementOfSeq
  <2>2. QED BY <2>1 DEF Known, Halves
<1>7. /\ t[Len(s) + 1] = [cmd |-> c, half |-> 1]
      /\ t[Len(s) + 2] = [cmd |-> c, half |-> 2]
      /\ \A i \in 1..Len(s) : t[i] = s[i]
  BY <1>3, <1>4, <1>5
<1>8. \A i \in 1..Len(t) : i \in 1..Len(s) \/ i = Len(s) + 1 \/ i = Len(s) + 2
  BY <1>4, <1>5
<1>9. \A i \in 1..Len(s) : t[i].cmd < c
  BY <1>2, <1>6, <1>7 DEF c
<1>10. Sorted(t)
  <2> SUFFICES ASSUME NEW i \in 1..Len(t), NEW j \in 1..Len(t), i < j
               PROVE  /\ t[i].cmd <= t[j].cmd
                      /\ t[j].half = 1 => t[i].cmd < t[j].cmd
    BY DEF Sorted
  <2>1. CASE j \in 1..Len(s)
    <3>1. i \in 1..Len(s)
      BY <2>1, <1>4
    <3>2. QED BY <2>1, <3>1, <1>7 DEF Due, Sorted
  <2>2. CASE j = Len(s) + 1
    <3>1. i \in 1..Len(s) /\ t[j].cmd = c
      BY <2>2, <1>4, <1>7
    <3>2. t[i].cmd \in Nat
      BY <3>1, <1>2, <1>6, <1>7
    <3>3. t[i].cmd < c
      BY <3>1, <1>9
    <3>4. QED BY <3>1, <3>2, <3>3, <1>2
  <2>3. CASE j = Len(s) + 2
    <3>1. t[j].cmd = c /\ t[j].half = 2
      BY <2>3, <1>7
    <3>2. CASE i \in 1..Len(s)
      <4>1. t[i].cmd \in Nat
        BY <3>2, <1>2, <1>6, <1>7
      <4>2. QED BY <3>1, <3>2, <4>1, <1>2, <1>9
    <3>3. CASE i = Len(s) + 1
      BY <3>1, <3>3, <1>2, <1>7
    <3>4. QED BY <1>4, <1>8, <2>3, <3>2, <3>3
  <2>4. QED BY <1>8, <2>1, <2>2, <2>3
<1>11. \A i \in 1..Len(t) : sent'[t[i].cmd].visit = visit
  <2> SUFFICES ASSUME NEW i \in 1..Len(t) PROVE sent'[t[i].cmd].visit = visit
    OBVIOUS
  <2>1. CASE i \in 1..Len(s)
    BY <2>1, <1>2, <1>6, <1>7 DEF Due, OfThisVisit
  <2>2. CASE i \notin 1..Len(s)
    <3>1. t[i].cmd = c
      BY <2>2, <1>7, <1>8
    <3>2. QED BY <3>1, <1>2
  <2>3. QED BY <2>1, <2>2
<1>12. ASSUME NEW n, n < c, After(n, s) PROVE After(n, t)
  BY <1>7, <1>8, <1>12 DEF After
<1>13. /\ \A r \in 1..Len(replies) : replies[r] < c
       /\ answer # 0 => answer < c
  <2>1. \A n \in 1..Len(sent) : n < c
    BY <1>2 DEF c
  <2>2. QED BY <2>1 DEF Replied, Proper
<1>14. /\ \A r \in 1..Len(replies) : After(replies[r], t)
       /\ answer # 0 => After(answer, t)
  BY <1>12, <1>13 DEF Due
<1>15. QED
  BY <1>1, <1>10, <1>11, <1>14 DEF Due, Sorted, After, OfThisVisit

LEMMA SendOrder ==
  ASSUME Order, Numbers, Stream, NEW kind \in Kinds, SendCommand(kind)
  PROVE  Order'
<1> SUFFICES ASSUME ~stale PROVE Order'
  BY DEF Order, SendCommand
<1> DEFINE new == <<[cmd |-> Len(sent) + 1, half |-> 1],
                    [cmd |-> Len(sent) + 1, half |-> 2]>>
<1>1. /\ UNCHANGED <<pc, buf, attached, cut, visit, stale, answer, replies>>
      /\ attached /\ pipe' = pipe \o new
      /\ sent' = Append(sent, [kind |-> kind, visit |-> visit])
  BY DEF SendCommand, KeepBridge
<1>2. Replied
  BY DEF Order
<1>3. buf \in Seq(Known) /\ pipe \in Seq(Known) /\ buf \o pipe \in Seq(Known)
  <2>1. buf \in Seq(Known) /\ pipe \in Seq(Known)
    BY DEF Numbers
  <2>2. QED BY <2>1, ConcatProperties
<1>4. Due(pipe)'
  <2>1. PICK t : t = pipe \o new
    OBVIOUS
  <2>2. Due(t)'
    BY <1>2, <1>3, <2>1, PipeIsDue, SendDue
  <2>3. QED BY <1>1, <2>1, <2>2 DEF Due, Sorted, After, OfThisVisit
<1>5. ASSUME Live' PROVE Due(buf \o pipe)'
  <2>1. Due(buf \o pipe)
    BY <1>1, <1>5 DEF Order, Live
  <2>2. PICK t : t = (buf \o pipe) \o new
    OBVIOUS
  <2>3. Due(t)'
    BY <1>2, <1>3, <2>1, <2>2, SendDue
  <2>4. buf' \o pipe' = t
    <3>1. new \in Seq(Halves) /\ buf \in Seq(Halves) /\ pipe \in Seq(Halves)
      <4>1. Len(sent) \in Nat
        BY LenProperties DEF Stream
      <4>2. QED BY <4>1 DEF Stream, Halves
    <3> HIDE DEF new
    <3>2. buf \o (pipe \o new) = (buf \o pipe) \o new
      BY <3>1, SMT
    <3>3. QED BY <1>1, <2>2, <3>2
  <2>5. QED BY <2>3, <2>4 DEF Due, Sorted, After, OfThisVisit
<1>6. Replied'
  <2>1. /\ Len(sent) \in Nat /\ Len(sent') = Len(sent) + 1
        /\ \A i \in 1..Len(sent) : sent'[i] = sent[i]
    BY <1>1, LenProperties, AppendProperties DEF Stream, Commands
  <2>2. \A r \in 1..Len(replies) : Proper(replies[r])'
    BY <1>1, <1>2, <2>1 DEF Replied, Proper, OfThisVisit
  <2>3. answer # 0 => Proper(answer)'
    BY <1>1, <1>2, <2>1 DEF Replied, Proper, OfThisVisit
  <2>4. QED BY <1>1, <1>2, <2>2, <2>3 DEF Replied
<1>7. QED BY <1>1, <1>4, <1>5, <1>6 DEF Order

LEMMA OrderKept ==
  Order /\ Numbers /\ Files /\ Stream /\ [Next]_vars => Order'
<1> SUFFICES ASSUME Order, Numbers, Files, Stream, [Next]_vars PROVE Order'
  OBVIOUS
<1> USE DEF Goto, Fault, Keep, KeepThreads, Live
<1>1. CASE SetupGadget \/ StartMonitor \/ Enter
  BY <1>1, QuietOrder DEF SetupGadget, StartMonitor, Enter
<1>2. CASE OpenOut \/ OpenFails \/ Reopen
  BY <1>2, QuietOrder DEF OpenOut, OpenFails, Reopen
<1>3. CASE ReadEnds
  BY <1>3, QuietOrder DEF ReadEnds
<1>4. CASE ReadMore \/ Engraved \/ ReplyLost
  <2>1. /\ UNCHANGED <<buf, pipe, cut, sent, visit, replies, stale,
                       attached>>
        /\ answer' \in {answer, 0} /\ pc \in InHand
    BY <1>4 DEF ReadMore, Engraved, ReplyLost, InHand
  <2>2. ~stale => attached
    BY <2>1 DEF Order, Stream, InHand
  <2>3. CASE stale
    BY <2>1, <2>3 DEF Order
  <2>4. CASE ~stale
    BY <2>1, <2>2, <2>4, QuietOrder DEF InHand
  <2>5. QED BY <2>3, <2>4
<1>5. CASE Stop \/ UnbindUdc \/ CloseEp0
  BY <1>5, QuietOrder DEF Stop, UnbindUdc, CloseEp0
<1>6. CASE Terminate
  <2>1. /\ pc' \in {"killed", "stopping"} /\ answer' = 0
        /\ UNCHANGED <<buf, pipe, sent, visit, replies, stale, attached>>
    BY <1>6 DEF Terminate, Die
  <2>2. QED BY <2>1, QuietOrder
<1>7. CASE Ep0Step \/ UNCHANGED vars
  <2>1. UNCHANGED <<pc, buf, pipe, cut, sent, visit, answer, replies, stale,
                    attached>>
    BY <1>7, Zenon DEF Ep0Step, Ep0Test, Ep0Poll, KeepMain, vars
  <2>2. QED BY <2>1, QuietOrder
<1>8. QED
  BY <1>1, <1>2, <1>3, <1>4, <1>5, <1>6, <1>7, ReadOrder, HandleOrder,
     ReplyOrder, AttachOrder, DetachOrder, OpenOrder, SendOrder, Zenon
     DEF Next, BridgeStep, Host

(* What LightBurn is given answers its own commands, each once and in      *)
(* their order, for any number of commands, visits and SIGTERM anywhere,   *)
(* unless it left while commands of its were in hand.                      *)
THEOREM RepliesFollow == Spec => []RepliesInOrder
<1>1. Init => Files /\ Numbers
  BY EmptySeq DEF Init, Files, Numbers, Known
<1>2. Init => Order
  BY EmptySeq DEF Init, Order, Replied, Live, Due, Sorted, After
<1>3. Order => RepliesInOrder
  BY DEF Order, Replied, Proper, RepliesInOrder
<1>4. QED
  BY <1>1, <1>2, <1>3, GadgetInit, GadgetKept, StreamInit, StreamKept,
     FilesKept, NumbersKept, OrderKept, PTL DEF Spec
=============================================================================
