--------------------------- MODULE JczPartsProofs ---------------------------
(* Theorems about the two parts that JCZBridge builds and gives work: the  *)
(* JczTranslator, for any coordinates and any length, and the LaserMonitor,*)
(* for every number of attempts.                                           *)
EXTENDS JczTranslator, LaserMonitor, TLAPS, SequenceTheorems, SequenceLemmas

-----------------------------------------------------------------------------
(* The translator.                                                         *)
Jobs == [paths : Seq(Strokes) \ {<<>>}, params : Params]

(* Whatever value a SET_* command has, the settings stay in range.         *)
LEMMA Scaled ==
  ASSUME NEW v \in U16
  PROVE  SpeedOf(v) \in Speeds /\ PowerOf(v) \in Powers
BY DEF U16, SpeedOf, PowerOf, Speeds, Powers

LEMMA PeriodKept == ASSUME NEW v \in U16, v > 0 PROVE v \in Periods
BY DEF U16, Periods

LEMMA ParamsRecord ==
  ASSUME NEW s \in Speeds, NEW p \in Powers, NEW q \in Periods
  PROVE  [speed |-> s, power |-> p, period |-> q] \in Params
BY Zenon DEF Params

LEMMA SettingsInRange ==
  ASSUME params \in Params, NEW op, NEW v \in U16
  PROVE  AfterSet(op, v) \in Params
<1> DEFINE speed  == IF op = "SET_MARK_SPEED" /\ v > 0 THEN SpeedOf(v)
                     ELSE params.speed
           power  == IF op = "SET_POWER" THEN PowerOf(v) ELSE params.power
           period == IF op = "SET_Q_PERIOD" /\ v > 0 THEN v
                     ELSE params.period
<1>1. /\ params.speed \in Speeds /\ params.power \in Powers
      /\ params.period \in Periods
  BY Zenon DEF Params
<1>2. speed \in Speeds
  BY <1>1, Scaled, Zenon
<1>3. power \in Powers
  BY <1>1, Scaled, Zenon
<1>4. period \in Periods
  BY <1>1, PeriodKept, Zenon
<1>5. AfterSet(op, v) = [speed |-> speed, power |-> power, period |-> period]
  BY DEF AfterSet
<1> HIDE DEF speed, power, period
<1>6. QED BY <1>2, <1>3, <1>4, <1>5, ParamsRecord, Zenon

(* What is flushed at a TRAVEL or a JOB_END has two points or more.        *)
LEMMA FlushedStrokes == TranslatorTypes => Flushed \in Seq(Strokes)
<1> SUFFICES ASSUME TranslatorTypes PROVE Flushed \in Seq(Strokes)
  OBVIOUS
<1>1. CASE Len(current) >= 2
  <2>1. current \in Strokes
    BY <1>1 DEF Strokes, TranslatorTypes
  <2>2. Append(paths, current) \in Seq(Strokes)
    BY <2>1, AppendProperties DEF TranslatorTypes
  <2>3. QED BY <1>1, <2>2 DEF Flushed
<1>2. CASE ~(Len(current) >= 2)
  BY <1>2 DEF Flushed, TranslatorTypes
<1>3. QED BY <1>1, <1>2

LEMMA TypeInit == TranslatorInit => TranslatorTypes
<1> SUFFICES ASSUME TranslatorInit PROVE TranslatorTypes
  OBVIOUS
<1>1. current \in Seq(Points) /\ paths \in Seq(Strokes) /\ jobs \in Seq(Jobs)
  BY EmptySeq DEF TranslatorInit
<1>2. 256000 \in Speeds /\ 2047 \in Powers /\ 20 \in Periods
  BY DEF Speeds, Powers, Periods
<1> DEFINE sp == 256000  pw == 2047  pd == 20
<1>3. params = [speed |-> sp, power |-> pw, period |-> pd]
  BY DEF TranslatorInit, Defaults
<1>4. sp \in Speeds /\ pw \in Powers /\ pd \in Periods
  BY <1>2
<1> HIDE DEF sp, pw, pd
<1>5. params \in Params
  BY <1>3, <1>4, Zenon DEF Params
<1>6. QED BY <1>1, <1>5 DEF TranslatorInit, TranslatorTypes, Jobs

LEMMA TypeKept ==
  ASSUME TranslatorTypes, [TranslatorNext]_translatorVars
  PROVE  TranslatorTypes'
<1>1. CASE UNCHANGED translatorVars
  BY <1>1 DEF translatorVars, TranslatorTypes
<1>2. ASSUME NEW pt \in Points, Travel(pt) PROVE TranslatorTypes'
  <2>1. current' \in Seq(Points)
    BY <1>2 DEF Travel
  <2>2. QED BY <1>2, <2>1, FlushedStrokes DEF Travel, TranslatorTypes
<1>3. ASSUME NEW pt \in Points, Mark(pt) PROVE TranslatorTypes'
  <2>1. current' \in Seq(Points)
    BY <1>3, AppendProperties DEF Mark, TranslatorTypes
  <2>2. QED BY <1>3, <2>1 DEF Mark, TranslatorTypes
<1>4. ASSUME NEW cmd \in Setters, Set(cmd) PROVE TranslatorTypes'
  <2>1. cmd.p1 \in U16
    <3>1. cmd.p1 \in Values
      BY Zenon DEF Setters
    <3>2. QED BY <3>1, TranslatorAssumption, Zenon
  <2>2. params' \in Params
    <3>1. params \in Params
      BY DEF TranslatorTypes
    <3>2. AfterSet(cmd.op, cmd.p1) \in Params
      BY <2>1, <3>1, SettingsInRange, Zenon
    <3>3. QED BY <1>4, <3>2 DEF Set
  <2>3. laserOn' \in BOOLEAN
    BY <1>4 DEF Set, TranslatorTypes
  <2>4. QED BY <1>4, <2>2, <2>3 DEF Set, TranslatorTypes
<1>5. CASE JobBegin
  <2>1. current' \in Seq(Points) /\ paths' \in Seq(Strokes)
    BY <1>5, EmptySeq DEF JobBegin, StartOver
  <2>2. QED BY <1>5, <2>1 DEF JobBegin, TranslatorTypes
<1>6. CASE JobEnd
  <2>1. current' \in Seq(Points) /\ paths' \in Seq(Strokes)
    BY <1>6, EmptySeq, FlushedStrokes DEF JobEnd
  <2>2. jobs' \in Seq(Jobs)
    <3>1. CASE Flushed = <<>>
      BY <1>6, <3>1 DEF JobEnd, TranslatorTypes, Jobs
    <3>2. CASE Flushed # <<>>
      <4>1. [paths |-> Flushed, params |-> params] \in Jobs
        BY <3>2, FlushedStrokes DEF TranslatorTypes, Jobs
      <4>2. jobs' = Append(jobs, [paths |-> Flushed, params |-> params])
        BY <1>6, <3>2 DEF JobEnd
      <4>3. jobs \in Seq(Jobs)
        BY DEF TranslatorTypes, Jobs
      <4>4. QED BY <4>1, <4>2, <4>3, AppendProperties
    <3>3. QED BY <3>1, <3>2
  <2>3. inJob' \in BOOLEAN /\ UNCHANGED <<params, laserOn>>
    BY <1>6 DEF JobEnd, TranslatorTypes
  <2>4. QED BY <2>1, <2>2, <2>3 DEF TranslatorTypes, Jobs
<1>7. QED BY <1>1, <1>2, <1>3, <1>4, <1>5, <1>6 DEF TranslatorNext

(* THEOREM: whatever list LightBurn sends, engrave() is called with at     *)
(* least one path, only with paths of two points or more, a speed of one   *)
(* mm/min or more, a power up to full scale, and a period above zero.      *)
THEOREM JobsAreReal == TranslatorSpec => []TranslatorTypes
BY TypeInit, TypeKept, PTL DEF TranslatorSpec

-----------------------------------------------------------------------------
(* The settings.  What a command list last set, when one more command is   *)
(* heard.                                                                  *)
Cmds == Moves \cup Setters \cup Brackets
Kinds == {"SET_MARK_SPEED", "SET_POWER", "SET_Q_PERIOD"}
Effective(cmd, op) == cmd.op = op /\ (cmd.p1 > 0 \/ op = "SET_POWER")

LEMMA SetterOps ==
  ASSUME NEW c \in Cmds, NEW op \in Kinds, c.op = op
  PROVE  c \in Setters /\ c.p1 \in U16
<1>1. c \notin Moves /\ c \notin Brackets
  BY DEF Kinds, Moves, Brackets
<1>2. c \in Setters
  BY <1>1 DEF Cmds
<1>3. c.p1 \in Values
  BY <1>2, Zenon DEF Setters
<1>4. QED BY <1>2, <1>3, TranslatorAssumption, Zenon

LEMMA LastSetAppend ==
  ASSUME NEW h \in Seq(Cmds), NEW c \in Cmds, NEW op \in Kinds
  PROVE  LastSet(Append(h, c), op)
           = IF Effective(c, op) THEN {c.p1} ELSE LastSet(h, op)
<1> DEFINE Sets(g) == {m \in DOMAIN g : Effective(g[m], op)}
           Latest(g) == {x \in Sets(g) : \A y \in Sets(g) : y <= x}
<1>1. \A g : LastSet(g, op) = {g[m].p1 : m \in Latest(g)}
  BY Zenon DEF LastSet, Effective
<1>2. PICK g \in Seq(Cmds) : g = Append(h, c)
  BY AppendProperties
<1>3. PICK n \in Nat : n = Len(h)
  BY LenProperties
<1>4. /\ DOMAIN h = 1..n /\ DOMAIN g = 1..(n + 1) /\ g[n + 1] = c
      /\ \A i \in 1..n : g[i] = h[i]
  BY <1>2, <1>3, AppendProperties, LenProperties
<1>5. CASE Effective(c, op)
  <2>1. Latest(g) = {n + 1}
    <3>1. n + 1 \in Sets(g) /\ Sets(g) \subseteq 1..(n + 1)
      BY <1>3, <1>4, <1>5
    <3> HIDE DEF Sets
    <3>2. QED BY <1>3, <3>1
  <2> HIDE DEF Latest
  <2>2. LastSet(g, op) = {g[m].p1 : m \in {n + 1}}
    BY <1>1, <2>1
  <2>3. QED BY <1>2, <1>4, <1>5, <2>2
<1>6. CASE ~Effective(c, op)
  <2>1. Sets(g) = Sets(h)
    BY <1>3, <1>4, <1>6
  <2>2. Latest(g) = Latest(h) /\ Latest(h) \subseteq 1..n
    <3>1. Sets(h) \subseteq 1..n
      BY <1>4
    <3> HIDE DEF Sets
    <3>2. QED BY <2>1, <3>1
  <2> HIDE DEF Latest
  <2>3. {g[m].p1 : m \in Latest(g)} = {h[m].p1 : m \in Latest(h)}
    BY <1>4, <2>2
  <2>4. /\ LastSet(g, op) = {g[m].p1 : m \in Latest(g)}
        /\ LastSet(h, op) = {h[m].p1 : m \in Latest(h)}
    BY <1>1
  <2>5. LastSet(g, op) = LastSet(h, op)
    BY <2>3, <2>4, Zenon
  <2>6. QED BY <1>2, <1>6, <2>5
<1>7. QED BY <1>5, <1>6

(* The settings are those of the list, in the laser's range.               *)
Settled ==
  /\ heard \in Seq(Cmds)
  /\ \A v \in LastSet(heard, "SET_MARK_SPEED") : params.speed = SpeedOf(v)
  /\ \A v \in LastSet(heard, "SET_POWER") : params.power = PowerOf(v)
  /\ \A v \in LastSet(heard, "SET_Q_PERIOD") : params.period = v

(* A command that sets nothing of this kind.                               *)
LEMMA LastSetSame ==
  ASSUME NEW h \in Seq(Cmds), NEW c \in Moves \cup Brackets, NEW op \in Kinds
  PROVE  Append(h, c) \in Seq(Cmds)
         /\ LastSet(Append(h, c), op) = LastSet(h, op)
<1>1. c \in Cmds /\ c.op # op
  BY DEF Cmds, Kinds, Moves, Brackets
<1>2. Append(h, c) \in Seq(Cmds)
  BY <1>1, AppendProperties
<1>3. ~Effective(c, op)
  BY <1>1 DEF Effective
<1>4. QED BY <1>1, <1>2, <1>3, LastSetAppend

LEMMA SettledInit == TranslatorInit => Settled
<1>1. <<>> \in Seq(Cmds) /\ DOMAIN <<>> = {}
  BY EmptySeq
<1>2. \A op \in Kinds : LastSet(<<>>, op) = {}
  BY <1>1 DEF LastSet
<1>3. QED BY <1>1, <1>2 DEF TranslatorInit, Settled, Kinds

LEMMA SettledSet ==
  ASSUME TranslatorTypes, Settled, NEW cmd \in Setters, Set(cmd)
  PROVE  Settled'
<1>1. /\ cmd \in Cmds /\ heard \in Seq(Cmds)
      /\ heard' = Append(heard, cmd) /\ params' = AfterSet(cmd.op, cmd.p1)
  BY DEF Set, Hear, Cmds, Settled, Setters
<1>2. heard' \in Seq(Cmds)
  BY <1>1, AppendProperties
<1>3. \A op \in Kinds :
        LastSet(heard', op)
          = IF Effective(cmd, op) THEN {cmd.p1} ELSE LastSet(heard, op)
  BY <1>1, LastSetAppend
<1>4. /\ params'.speed = IF cmd.op = "SET_MARK_SPEED" /\ cmd.p1 > 0
                         THEN SpeedOf(cmd.p1) ELSE params.speed
      /\ params'.power = IF cmd.op = "SET_POWER"
                         THEN PowerOf(cmd.p1) ELSE params.power
      /\ params'.period = IF cmd.op = "SET_Q_PERIOD" /\ cmd.p1 > 0
                          THEN cmd.p1 ELSE params.period
  BY <1>1 DEF AfterSet
<1>5. ASSUME NEW v \in LastSet(heard', "SET_MARK_SPEED")
      PROVE  params'.speed = SpeedOf(v)
  BY <1>3, <1>4, Zenon DEF Settled, Kinds, Effective
<1>6. ASSUME NEW v \in LastSet(heard', "SET_POWER")
      PROVE  params'.power = PowerOf(v)
  BY <1>3, <1>4, Zenon DEF Settled, Kinds, Effective
<1>7. ASSUME NEW v \in LastSet(heard', "SET_Q_PERIOD")
      PROVE  params'.period = v
  BY <1>3, <1>4, Zenon DEF Settled, Kinds, Effective
<1>8. QED BY <1>2, <1>5, <1>6, <1>7 DEF Settled

(* What the other commands do to the list.                                 *)
LEMMA OtherCommands ==
  ASSUME TranslatorNext, \A cmd \in Setters : ~Set(cmd)
  PROVE  /\ \E c \in Moves \cup Brackets : heard' = Append(heard, c)
         /\ params' = params
<1>1. ASSUME NEW pt \in Points
      PROVE  /\ [op |-> "TRAVEL", at |-> pt] \in Moves
             /\ [op |-> "MARK", at |-> pt] \in Moves
  BY DEF Moves
<1>2. [op |-> "JOB_BEGIN"] \in Brackets /\ [op |-> "JOB_END"] \in Brackets
  BY DEF Brackets
<1>3. ASSUME NEW pt \in Points, Travel(pt) \/ Mark(pt)
      PROVE  /\ \E c \in Moves \cup Brackets : heard' = Append(heard, c)
             /\ params' = params
  BY <1>1, <1>3 DEF Travel, Mark, Hear
<1>4. CASE JobBegin \/ JobEnd
  BY <1>2, <1>4 DEF JobBegin, JobEnd, Hear
<1>5. QED BY <1>3, <1>4 DEF TranslatorNext

LEMMA SettledKept ==
  ASSUME TranslatorTypes, Settled, [TranslatorNext]_translatorVars
  PROVE  Settled'
<1>1. CASE UNCHANGED translatorVars
  BY <1>1 DEF translatorVars, Settled
<1>2. ASSUME NEW cmd \in Setters, Set(cmd) PROVE Settled'
  BY <1>2, SettledSet
<1>3. CASE TranslatorNext /\ \A cmd \in Setters : ~Set(cmd)
  <2>1. PICK c \in Moves \cup Brackets : heard' = Append(heard, c)
    BY <1>3, OtherCommands
  <2>2. params' = params /\ heard \in Seq(Cmds)
    BY <1>3, OtherCommands DEF Settled
  <2>3. /\ heard' \in Seq(Cmds)
        /\ \A op \in Kinds : LastSet(heard', op) = LastSet(heard, op)
    <3>1. PICK h \in Seq(Cmds) : h = heard
      BY <2>2
    <3>2. /\ Append(h, c) \in Seq(Cmds)
          /\ \A op \in Kinds : LastSet(Append(h, c), op) = LastSet(h, op)
      BY LastSetSame DEF Kinds
    <3>3. QED BY <2>1, <3>1, <3>2, Zenon
  <2>4. QED BY <2>2, <2>3, Zenon DEF Settled, Kinds
<1>4. QED BY <1>1, <1>2, <1>3

(* The last values set are values, whose Max and Min are these.            *)
LEMMA LastSetValues ==
  ASSUME NEW h \in Seq(Cmds), NEW op \in Kinds, NEW v \in LastSet(h, op)
  PROVE  v \in U16
<1>1. PICK m \in DOMAIN h : h[m].op = op /\ v = h[m].p1
  BY Zenon DEF LastSet
<1>2. h[m] \in Cmds
  BY ElementOfSeq, LenProperties
<1>3. QED BY <1>1, <1>2, SetterOps

LEMMA SpeedLimit ==
  ASSUME NEW v \in U16 PROVE Max({256, v * 60}) = SpeedOf(v)
<1>1. PICK w \in Nat : w = v * 60
  BY DEF U16
<1>2. Max({256, w}) = IF w > 256 THEN w ELSE 256
  BY DEF Max
<1>3. QED BY <1>1, <1>2 DEF SpeedOf

LEMMA PowerLimit ==
  ASSUME NEW v \in U16 PROVE Min({4095, v}) = PowerOf(v)
<1>1. v \in Nat
  BY DEF U16
<1>2. Min({4095, v}) = IF v < 4095 THEN v ELSE 4095
  BY <1>1 DEF Min
<1>3. QED BY <1>2 DEF PowerOf

(* A step that calls engrave() is a JOB_END with something to engrave.     *)
LEMMA CallsEngrave ==
  ASSUME TranslatorNext, jobs' # jobs
  PROVE  /\ JobEnd /\ params' = params
         /\ heard' = Append(heard, [op |-> "JOB_END"])
         /\ jobs' = Append(jobs, [paths |-> Flushed, params |-> params])
<1>1. JobEnd
  BY DEF TranslatorNext, Travel, Mark, Set, JobBegin
<1>2. QED BY <1>1 DEF JobEnd, Hear

(* THEOREM: a job carries the settings last given before its end, however  *)
(* long the list, and whatever jobs, moves and idle settings are between.  *)
THEOREM SettingsAreTheLast == TranslatorSpec => JobHasLastSettings
<1> DEFINE Carried(j, h) ==
      /\ \A v \in LastSet(h, "SET_MARK_SPEED") :
            j.params.speed = Max({256, v * 60})
      /\ \A v \in LastSet(h, "SET_POWER") :
            j.params.power = Min({4095, v})
      /\ \A v \in LastSet(h, "SET_Q_PERIOD") : j.params.period = v
<1>1. ASSUME TranslatorTypes, Settled, TranslatorNext, jobs' # jobs
      PROVE  Carried(Last(jobs'), heard')
  <2>1. /\ jobs' = Append(jobs, [paths |-> Flushed, params |-> params])
        /\ heard' = Append(heard, [op |-> "JOB_END"])
    BY <1>1, CallsEngrave
  <2>2. Last(jobs').params = params
    <3>1. PICK j : j = [paths |-> Flushed, params |-> params]
      OBVIOUS
    <3>2. jobs \in Seq(Jobs \cup {j})
      <4>1. jobs \in Seq(Jobs)
        BY <1>1 DEF TranslatorTypes, Jobs
      <4>2. QED BY <4>1
    <3>3. Last(Append(jobs, j)) = j
      BY <3>2, LastOfAppend
    <3>4. QED BY <2>1, <3>1, <3>3
  <2>3. \A op \in Kinds : LastSet(heard', op) = LastSet(heard, op)
    <3>1. [op |-> "JOB_END"] \in Moves \cup Brackets
      BY DEF Brackets
    <3>2. QED BY <1>1, <2>1, <3>1, LastSetSame DEF Settled
  <2>4. \A op \in Kinds : \A v \in LastSet(heard, op) : v \in U16
    BY <1>1, LastSetValues DEF Settled
  <2>5. ASSUME NEW v \in LastSet(heard', "SET_MARK_SPEED")
        PROVE  params.speed = Max({256, v * 60})
    <3>1. v \in LastSet(heard, "SET_MARK_SPEED") /\ v \in U16
      BY <2>3, <2>4 DEF Kinds
    <3>2. params.speed = SpeedOf(v)
      BY <1>1, <3>1, Zenon DEF Settled
    <3>3. QED BY <3>1, <3>2, SpeedLimit
  <2>6. ASSUME NEW v \in LastSet(heard', "SET_POWER")
        PROVE  params.power = Min({4095, v})
    <3>1. v \in LastSet(heard, "SET_POWER") /\ v \in U16
      BY <2>3, <2>4 DEF Kinds
    <3>2. params.power = PowerOf(v)
      BY <1>1, <3>1, Zenon DEF Settled
    <3>3. QED BY <3>1, <3>2, PowerLimit
  <2>7. ASSUME NEW v \in LastSet(heard', "SET_Q_PERIOD")
        PROVE  params.period = v
    BY <1>1, <2>3 DEF Settled, Kinds
  <2>8. QED BY <2>2, <2>5, <2>6, <2>7
<1>2. UNCHANGED translatorVars => jobs' = jobs
  BY DEF translatorVars
<1>3. TranslatorTypes /\ Settled /\ [TranslatorNext]_translatorVars
        => [jobs' # jobs => Carried(Last(jobs'), heard')]_translatorVars
  BY <1>1, <1>2
<1>4. TranslatorSpec => [][jobs' # jobs => Carried(Last(jobs'), heard')
                          ]_translatorVars
  BY <1>3, TypeInit, TypeKept, SettledInit, SettledKept, PTL
  DEF TranslatorSpec
<1>5. QED BY <1>4 DEF JobHasLastSettings

-----------------------------------------------------------------------------
(* The drawing.  The rows that Stroke and Drawing flatten.                 *)
Mark1(h, m, x) == IF InStroke(h, m, x) THEN <<h[x].at>> ELSE <<>>
Marks(h, m)    == [x \in DOMAIN h |-> Mark1(h, m, x)]
Row1(h, m)     == IF Counts(h, m) THEN <<Stroke(h, m)>> ELSE <<>>
Row(h)         == [m \in DOMAIN h |-> Row1(h, m)]
(* The drawing without the stroke that begins at l.                        *)
RowBut(h, l)   == [m \in DOMAIN h |-> IF m = l THEN <<>> ELSE Row1(h, m)]
Others(h, l)   == FlattenSeq(RowBut(h, l))

LEMMA Rows ==
  ASSUME NEW h
  PROVE  /\ \A m : Stroke(h, m) = FlattenSeq(Marks(h, m))
         /\ Drawing(h) = FlattenSeq(Row(h))
BY Zenon DEF Stroke, Drawing, Marks, Mark1, Row, Row1

LEMMA MovedPoint ==
  ASSUME NEW c \in Cmds, Moved(c)
  PROVE  c.at \in Points /\ <<c.at>> \in Seq(Points)
<1>1. c \notin Setters /\ c \notin Brackets
  BY DEF Moved, Setters, Brackets
<1>2. c \in Moves
  BY <1>1 DEF Cmds
<1>3. c.at \in Points
  BY <1>2, Zenon DEF Moves
<1>4. QED BY <1>3

LEMMA MarksType ==
  ASSUME NEW h \in Seq(Cmds), NEW m
  PROVE  /\ Marks(h, m) \in [1..Len(h) -> Seq(Points)]
         /\ Marks(h, m) \in Seq(Seq(Points)) /\ Len(Marks(h, m)) = Len(h)
         /\ Stroke(h, m) \in Seq(Points)
<1>1. Len(h) \in Nat /\ DOMAIN h = 1..Len(h)
  BY LenProperties
<1>2. ASSUME NEW x \in 1..Len(h) PROVE Mark1(h, m, x) \in Seq(Points)
  <2>1. h[x] \in Cmds
    BY ElementOfSeq
  <2>2. CASE InStroke(h, m, x)
    <3>1. Moved(h[x])
      BY <2>2 DEF InStroke
    <3>2. QED BY <2>1, <2>2, <3>1, MovedPoint DEF Mark1
  <2>3. CASE ~InStroke(h, m, x)
    BY <2>3, EmptySeq DEF Mark1
  <2>4. QED BY <2>2, <2>3
<1>3. Marks(h, m) \in [1..Len(h) -> Seq(Points)]
  BY <1>1, <1>2 DEF Marks
<1>4. Marks(h, m) \in Seq(Seq(Points)) /\ Len(Marks(h, m)) = Len(h)
  BY <1>1, <1>3, IsSeq
<1>5. FlattenSeq(Marks(h, m)) \in Seq(Points)
  BY <1>4, FlattenType
<1>6. QED BY <1>3, <1>4, <1>5, Rows

LEMMA RowsType ==
  ASSUME NEW h \in Seq(Cmds)
  PROVE  /\ \A m : Row1(h, m) \in Seq(Strokes)
         /\ Row(h) \in [1..Len(h) -> Seq(Strokes)]
         /\ \A l : /\ RowBut(h, l) \in [1..Len(h) -> Seq(Strokes)]
                   /\ RowBut(h, l) \in Seq(Seq(Strokes))
                   /\ Len(RowBut(h, l)) = Len(h)
                   /\ Others(h, l) \in Seq(Strokes)
<1>1. Len(h) \in Nat /\ DOMAIN h = 1..Len(h)
  BY LenProperties
<1>2. ASSUME NEW m PROVE Row1(h, m) \in Seq(Strokes)
  <2>1. PICK s : s = Stroke(h, m)
    OBVIOUS
  <2>2. CASE Counts(h, m)
    <3>1. s \in Strokes
      BY <2>1, <2>2, MarksType DEF Counts, Strokes
    <3>2. <<s>> \in Seq(Strokes)
      BY <3>1
    <3>3. QED BY <2>1, <2>2, <3>2 DEF Row1
  <2>3. CASE ~Counts(h, m)
    BY <2>3, EmptySeq DEF Row1
  <2>4. QED BY <2>2, <2>3
<1>3. Row(h) \in [1..Len(h) -> Seq(Strokes)]
  BY <1>1, <1>2 DEF Row
<1>4. ASSUME NEW l
      PROVE  /\ RowBut(h, l) \in [1..Len(h) -> Seq(Strokes)]
             /\ RowBut(h, l) \in Seq(Seq(Strokes))
             /\ Len(RowBut(h, l)) = Len(h)
             /\ Others(h, l) \in Seq(Strokes)
  <2>1. <<>> \in Seq(Strokes)
    BY EmptySeq
  <2>2. RowBut(h, l) \in [1..Len(h) -> Seq(Strokes)]
    BY <1>1, <1>2, <2>1 DEF RowBut
  <2>3. RowBut(h, l) \in Seq(Seq(Strokes)) /\ Len(RowBut(h, l)) = Len(h)
    BY <1>1, <2>2, IsSeq
  <2>4. QED BY <2>2, <2>3, FlattenType DEF Others
<1>5. QED BY <1>2, <1>3, <1>4

(* One more command adds its point to the strokes that have not ended.     *)
Longer(h, c, g, n) ==
  /\ g \in Seq(Cmds) /\ n \in Nat /\ n = Len(h) /\ Len(g) = n + 1
  /\ DOMAIN h = 1..n /\ DOMAIN g = 1..(n + 1)
  /\ g[n + 1] = c /\ \A i \in 1..n : g[i] = h[i]

LEMMA Lengthened ==
  ASSUME NEW h \in Seq(Cmds), NEW c \in Cmds
  PROVE  \E g \in Seq(Cmds), n \in Nat : g = Append(h, c) /\ Longer(h, c, g, n)
<1>1. PICK g \in Seq(Cmds) : g = Append(h, c)
  BY AppendProperties
<1>2. PICK n \in Nat : n = Len(h)
  BY LenProperties
<1>3. /\ Len(g) = n + 1 /\ g[n + 1] = c
      /\ \A i \in 1..n : g[i] = h[i]
  BY <1>1, <1>2, AppendProperties
<1>4. DOMAIN h = 1..n /\ DOMAIN g = 1..(n + 1)
  BY <1>2, <1>3, LenProperties
<1>5. QED BY <1>1, <1>2, <1>3, <1>4 DEF Longer

LEMMA StrokeGrows ==
  ASSUME NEW h \in Seq(Cmds), NEW c \in Cmds, NEW g, NEW n,
         Longer(h, c, g, n), NEW m \in 1..(n + 1)
  PROVE  Stroke(g, m) = Stroke(h, m) \o Mark1(g, m, n + 1)
<1>1. /\ n \in Nat /\ n = Len(h) /\ Len(g) = n + 1 /\ g \in Seq(Cmds)
      /\ DOMAIN h = 1..n /\ DOMAIN g = 1..(n + 1)
      /\ \A i \in 1..n : g[i] = h[i]
  BY DEF Longer
<1>2. PICK s : s = Marks(h, m)
  OBVIOUS
<1>3. PICK t : t = Marks(g, m)
  OBVIOUS
<1>4. s \in Seq(Seq(Points)) /\ Len(s) = n
  BY <1>1, <1>2, MarksType
<1>5. t \in [1..(n + 1) -> Seq(Points)]
  <2>1. Marks(g, m) \in [1..Len(g) -> Seq(Points)]
    BY <1>1, MarksType
  <2>2. QED BY <1>1, <1>3, <2>1
<1>6. ASSUME NEW i \in 1..n PROVE t[i] = s[i]
  <2>1. g[i] = h[i] /\ \A y \in m + 1..i : g[y] = h[y]
    BY <1>1
  <2>2. InStroke(g, m, i) <=> InStroke(h, m, i)
    BY <2>1 DEF InStroke
  <2>3. Mark1(g, m, i) = Mark1(h, m, i)
    BY <2>1, <2>2 DEF Mark1
  <2>4. s[i] = Mark1(h, m, i) /\ t[i] = Mark1(g, m, i)
    BY <1>1, <1>2, <1>3 DEF Marks
  <2>5. QED BY <2>3, <2>4
<1>7. t[n + 1] = Mark1(g, m, n + 1) /\ t[n + 1] \in Seq(Points)
  <2>1. n + 1 \in 1..(n + 1)
    BY <1>1
  <2>2. QED BY <1>1, <1>3, <1>5, <2>1 DEF Marks
<1>8. t = Append(s, t[n + 1])
  BY <1>1, <1>4, <1>5, <1>6, Grown
<1>9. FlattenSeq(Append(s, t[n + 1])) = FlattenSeq(s) \o t[n + 1]
  BY <1>4, <1>7, FlattenAppend
<1>10. Stroke(h, m) = FlattenSeq(s) /\ Stroke(g, m) = FlattenSeq(t)
  BY <1>2, <1>3, Rows
<1>11. QED BY <1>7, <1>8, <1>9, <1>10

LEMMA StrokeNotBegun ==
  ASSUME NEW h \in Seq(Cmds), NEW n \in Nat, n = Len(h)
  PROVE  Stroke(h, n + 1) = <<>>
<1>1. DOMAIN h = 1..n
  BY LenProperties
<1>2. ASSUME NEW x \in 1..n PROVE Mark1(h, n + 1, x) = <<>>
  BY DEF Mark1, InStroke
<1>3. PICK d : d = Marks(h, n + 1)
  OBVIOUS
<1>4. d = [x \in 1..n |-> <<>>]
  BY <1>1, <1>2, <1>3 DEF Marks
<1>5. FlattenSeq(d) = <<>>
  BY <1>4, FlattenNothing
<1>6. QED BY <1>3, <1>5, Rows

(* The stroke that was begun last, and the drawing put together from it    *)
(* and the others.                                                         *)
LastBegun(h, l) ==
  l \in DOMAIN h /\ Begins(h[l]) /\ \A y \in l + 1..Len(h) : ~Begins(h[y])
WithStroke(p, c) == IF Len(c) >= 2 THEN Append(p, c) ELSE p

LEMMA DrawingIs ==
  ASSUME NEW h \in Seq(Cmds), NEW l, LastBegun(h, l)
  PROVE  Drawing(h) = WithStroke(Others(h, l), Stroke(h, l))
<1>1. PICK n \in Nat : n = Len(h) /\ DOMAIN h = 1..n
  BY LenProperties
<1>2. l \in 1..n /\ Begins(h[l]) /\ \A y \in l + 1..n : ~Begins(h[y])
  BY <1>1 DEF LastBegun
<1>3. OfTheJob(h, l)
  BY <1>1, <1>2 DEF OfTheJob, Begins
<1>4. PICK d : d = Row(h)
  OBVIOUS
<1>5. PICK e : e = RowBut(h, l)
  OBVIOUS
<1>6. d \in [1..n -> Seq(Strokes)] /\ e \in [1..n -> Seq(Strokes)]
  BY <1>1, <1>4, <1>5, RowsType
<1>7. e[l] = <<>> /\ \A i \in 1..n : i # l => d[i] = e[i]
  BY <1>1, <1>2, <1>4, <1>5 DEF Row, RowBut
<1>8. ASSUME NEW i \in l + 1..n PROVE d[i] = <<>>
  <2>1. i \in 1..n /\ ~Begins(h[i])
    BY <1>2
  <2>2. ~Counts(h, i)
    BY <2>1 DEF Counts, OfTheJob
  <2>3. QED BY <1>1, <1>4, <2>1, <2>2 DEF Row, Row1
<1>9. FlattenSeq(d) = FlattenSeq(e) \o d[l]
  <2>1. Inserted(d, e, l, n)
    BY <1>7, <1>8 DEF Inserted
  <2>2. QED BY <1>2, <1>6, <2>1, FlattenOneMore
<1>10. d[l] = Row1(h, l)
  BY <1>1, <1>2, <1>4 DEF Row
<1>11. PICK o \in Seq(Strokes) : o = Others(h, l) /\ o = FlattenSeq(e)
  BY <1>5, RowsType DEF Others
<1>12. PICK s : s = Stroke(h, l)
  OBVIOUS
<1>13. CASE Len(s) >= 2
  <2>1. s \in Strokes
    BY <1>12, <1>13, MarksType DEF Strokes
  <2>2. d[l] = <<s>>
    BY <1>3, <1>10, <1>12, <1>13 DEF Row1, Counts
  <2>3. o \o <<s>> = Append(o, s)
    BY <2>1, AppendIsConcat
  <2>4. QED BY <1>4, <1>9, <1>11, <1>12, <1>13, <2>2, <2>3, Rows
            DEF WithStroke
<1>14. CASE ~(Len(s) >= 2)
  <2>1. d[l] = <<>>
    BY <1>10, <1>12, <1>14 DEF Row1, Counts
  <2>2. o \o <<>> = o
    BY ConcatEmptySeq
  <2>3. QED BY <1>4, <1>9, <1>11, <1>12, <1>14, <2>1, <2>2, Rows
            DEF WithStroke
<1>15. QED BY <1>13, <1>14

(* Rows of a longer list: the last is empty, and so the rest is all.       *)
LEMMA OthersGrow ==
  ASSUME NEW h \in Seq(Cmds), NEW c \in Cmds, NEW g, NEW n,
         Longer(h, c, g, n), NEW l, NEW s \in Seq(Seq(Strokes)), Len(s) = n,
         \A i \in 1..n : RowBut(g, l)[i] = s[i],
         RowBut(g, l)[n + 1] = <<>>
  PROVE  Others(g, l) = FlattenSeq(s)
<1>1. n \in Nat /\ Len(g) = n + 1 /\ g \in Seq(Cmds)
  BY DEF Longer
<1>2. PICK t : t = RowBut(g, l)
  OBVIOUS
<1>3. t \in [1..(n + 1) -> Seq(Strokes)]
  <2>1. RowBut(g, l) \in [1..Len(g) -> Seq(Strokes)]
    BY <1>1, RowsType
  <2>2. QED BY <1>1, <1>2, <2>1
<1>4. (\A i \in 1..n : t[i] = s[i]) /\ t[n + 1] = <<>>
  BY <1>2
<1>5. t = Append(s, t[n + 1])
  BY <1>1, <1>3, <1>4, Grown
<1>6. <<>> \in Seq(Strokes) /\ FlattenSeq(s) \in Seq(Strokes)
  BY EmptySeq, FlattenType
<1>7. FlattenSeq(Append(s, <<>>)) = FlattenSeq(s) \o <<>>
  BY <1>6, FlattenAppend
<1>8. FlattenSeq(s) \o <<>> = FlattenSeq(s)
  BY <1>6, ConcatEmptySeq
<1>9. QED BY <1>2, <1>4, <1>5, <1>7, <1>8 DEF Others

(* A stroke after which another has begun does not change any more.        *)
LEMMA StrokeEnded ==
  ASSUME NEW h \in Seq(Cmds), NEW c \in Cmds, NEW g, NEW n,
         Longer(h, c, g, n), NEW m \in 1..n,
         \E y \in m + 1..(n + 1) : Begins(g[y])
  PROVE  Stroke(g, m) = Stroke(h, m)
<1>1. n \in Nat
  BY DEF Longer
<1>2. m \in 1..(n + 1)
  BY <1>1
<1>3. Mark1(g, m, n + 1) = <<>>
  BY DEF Mark1, InStroke
<1>4. Stroke(g, m) = Stroke(h, m) \o Mark1(g, m, n + 1)
  BY <1>2, StrokeGrows
<1>5. Stroke(h, m) \in Seq(Points)
  BY MarksType
<1>6. QED BY <1>3, <1>4, <1>5, ConcatEmptySeq

LEMMA OfTheJobSame ==
  ASSUME NEW h \in Seq(Cmds), NEW c \in Cmds, NEW g, NEW n,
         Longer(h, c, g, n), NEW m \in 1..n, c.op # "JOB_BEGIN"
  PROVE  OfTheJob(g, m) <=> OfTheJob(h, m)
<1>1. /\ n \in Nat /\ n = Len(h) /\ Len(g) = n + 1 /\ g[n + 1] = c
      /\ \A i \in 1..n : g[i] = h[i]
  BY DEF Longer
<1>2. (\A y \in m + 1..(n + 1) : g[y].op # "JOB_BEGIN")
        <=> (\A y \in m + 1..n : h[y].op # "JOB_BEGIN")
  <2>1. ASSUME \A y \in m + 1..(n + 1) : g[y].op # "JOB_BEGIN",
               NEW y \in m + 1..n
        PROVE  h[y].op # "JOB_BEGIN"
    <3>1. y \in m + 1..(n + 1) /\ y \in 1..n
      BY <1>1
    <3>2. QED BY <1>1, <2>1, <3>1
  <2>2. ASSUME \A y \in m + 1..n : h[y].op # "JOB_BEGIN",
               NEW y \in m + 1..(n + 1)
        PROVE  g[y].op # "JOB_BEGIN"
    <3>1. CASE y = n + 1
      BY <1>1, <3>1
    <3>2. CASE y # n + 1
      <4>1. y \in m + 1..n /\ y \in 1..n
        BY <1>1, <3>2
      <4>2. QED BY <1>1, <2>2, <4>1
    <3>3. QED BY <3>1, <3>2
  <2>3. QED BY <2>1, <2>2
<1>3. g[m] = h[m]
  BY <1>1
<1>4. QED BY <1>1, <1>2, <1>3 DEF OfTheJob

LEMMA OthersSame ==
  ASSUME NEW h \in Seq(Cmds), NEW c \in Cmds, NEW g, NEW n,
         Longer(h, c, g, n), NEW l, LastBegun(h, l), ~Begins(c)
  PROVE  /\ LastBegun(g, l) /\ Others(g, l) = Others(h, l)
         /\ Moved(c) => Stroke(g, l) = Stroke(h, l) \o <<c.at>>
         /\ ~Moved(c) => Stroke(g, l) = Stroke(h, l)
<1>1. /\ n \in Nat /\ n = Len(h) /\ Len(g) = n + 1 /\ g[n + 1] = c
      /\ DOMAIN h = 1..n /\ DOMAIN g = 1..(n + 1)
      /\ \A i \in 1..n : g[i] = h[i]
  BY DEF Longer
<1>2. l \in 1..n /\ Begins(h[l]) /\ \A y \in l + 1..n : ~Begins(h[y])
  BY <1>1 DEF LastBegun
<1>3. \A y \in l + 1..(n + 1) : ~Begins(g[y])
  <2>1. ASSUME NEW y \in l + 1..(n + 1) PROVE ~Begins(g[y])
    <3>1. CASE y = n + 1
      BY <1>1, <3>1
    <3>2. CASE y # n + 1
      <4>1. y \in l + 1..n /\ y \in 1..n
        BY <1>1, <1>2, <3>2
      <4>2. QED BY <1>1, <1>2, <4>1
    <3>3. QED BY <3>1, <3>2
  <2>2. QED BY <2>1
<1>4. LastBegun(g, l)
  <2>1. l \in 1..(n + 1) /\ g[l] = h[l]
    BY <1>1, <1>2
  <2>2. QED BY <1>1, <1>2, <1>3, <2>1 DEF LastBegun
<1>5. Stroke(g, l) = Stroke(h, l) \o Mark1(g, l, n + 1)
  <2>1. l \in 1..(n + 1)
    BY <1>1, <1>2
  <2>2. QED BY <2>1, StrokeGrows
<1>6. Mark1(g, l, n + 1) = IF Moved(c) THEN <<c.at>> ELSE <<>>
  <2>1. n + 1 >= l
    BY <1>1, <1>2
  <2>2. QED BY <1>1, <1>3, <2>1 DEF Mark1, InStroke
<1>7. ASSUME NEW i \in 1..n PROVE RowBut(g, l)[i] = RowBut(h, l)[i]
  <2>1. /\ i \in 1..(n + 1)
        /\ RowBut(g, l)[i] = IF i = l THEN <<>> ELSE Row1(g, i)
        /\ RowBut(h, l)[i] = IF i = l THEN <<>> ELSE Row1(h, i)
    BY <1>1 DEF RowBut
  <2>2. CASE i # l
    <3>1. c.op # "JOB_BEGIN"
      BY DEF Begins
    <3>2. OfTheJob(g, i) <=> OfTheJob(h, i)
      BY <3>1, OfTheJobSame
    <3>3. CASE OfTheJob(h, i)
      <4>1. Begins(h[i])
        BY <3>3 DEF OfTheJob
      <4>2. l \in i + 1..(n + 1) /\ Begins(g[l])
        BY <1>1, <1>2, <2>2, <4>1
      <4>3. Stroke(g, i) = Stroke(h, i)
        BY <4>2, StrokeEnded
      <4>4. QED BY <2>1, <3>2, <4>3 DEF Row1, Counts
    <3>4. CASE ~OfTheJob(h, i)
      BY <2>1, <3>2, <3>4 DEF Row1, Counts
    <3>5. QED BY <3>3, <3>4
  <2>3. QED BY <2>1, <2>2
<1>8. RowBut(g, l)[n + 1] = <<>>
  <2>1. n + 1 \in 1..(n + 1) /\ ~Begins(g[n + 1])
    BY <1>1
  <2>2. Row1(g, n + 1) = <<>>
    BY <2>1 DEF Row1, Counts, OfTheJob
  <2>3. QED BY <1>1, <2>1, <2>2 DEF RowBut
<1>9. PICK s : s = RowBut(h, l)
  OBVIOUS
<1>10. Others(g, l) = FlattenSeq(s)
  <2>1. s \in Seq(Seq(Strokes)) /\ Len(s) = n
    BY <1>1, <1>9, RowsType
  <2>2. \A i \in 1..n : RowBut(g, l)[i] = s[i]
    BY <1>7, <1>9
  <2>3. QED BY <1>8, <2>1, <2>2, OthersGrow
<1>11. ~Moved(c) => Stroke(g, l) = Stroke(h, l)
  <2>1. Stroke(h, l) \in Seq(Points)
    BY MarksType
  <2>2. QED BY <1>5, <1>6, <2>1, ConcatEmptySeq
<1>12. QED BY <1>4, <1>5, <1>6, <1>9, <1>10, <1>11 DEF Others

(* A command that begins a stroke.                                         *)
LEMMA NewStroke ==
  ASSUME NEW h \in Seq(Cmds), NEW c \in Cmds, NEW g, NEW n,
         Longer(h, c, g, n), Begins(c)
  PROVE  /\ LastBegun(g, n + 1)
         /\ Moved(c) => Stroke(g, n + 1) = <<c.at>>
         /\ ~Moved(c) => Stroke(g, n + 1) = <<>>
<1>1. /\ n \in Nat /\ n = Len(h) /\ Len(g) = n + 1 /\ g[n + 1] = c
      /\ DOMAIN g = 1..(n + 1) /\ n + 1 \in 1..(n + 1) /\ g \in Seq(Cmds)
  BY DEF Longer
<1>2. LastBegun(g, n + 1)
  BY <1>1 DEF LastBegun
<1>3. Stroke(h, n + 1) = <<>>
  BY <1>1, StrokeNotBegun
<1>4. Stroke(g, n + 1) = Stroke(h, n + 1) \o Mark1(g, n + 1, n + 1)
  <2>1. \A m \in 1..(n + 1) :
          Stroke(g, m) = Stroke(h, m) \o Mark1(g, m, n + 1)
    BY StrokeGrows
  <2>2. QED BY <1>1, <2>1
<1>5. Mark1(g, n + 1, n + 1) = IF Moved(c) THEN <<c.at>> ELSE <<>>
  <2>1. InStroke(g, n + 1, n + 1) <=> Moved(c)
    BY <1>1 DEF InStroke
  <2>2. QED BY <1>1, <2>1 DEF Mark1
<1>6. Mark1(g, n + 1, n + 1) \in Seq(Points)
  BY <1>5, MovedPoint, EmptySeq
<1>7. <<>> \o Mark1(g, n + 1, n + 1) = Mark1(g, n + 1, n + 1)
  BY <1>6, ConcatEmptySeq
<1>8. QED BY <1>2, <1>3, <1>4, <1>5, <1>7

LEMMA NewTravel ==
  ASSUME NEW h \in Seq(Cmds), NEW c \in Cmds, NEW g, NEW n,
         Longer(h, c, g, n), c.op = "TRAVEL"
  PROVE  Others(g, n + 1) = Drawing(h)
<1>1. /\ n \in Nat /\ n = Len(h) /\ Len(g) = n + 1 /\ g[n + 1] = c
      /\ DOMAIN h = 1..n /\ DOMAIN g = 1..(n + 1)
  BY DEF Longer
<1>2. Begins(c) /\ c.op # "JOB_BEGIN"
  BY DEF Begins
<1>3. ASSUME NEW i \in 1..n PROVE RowBut(g, n + 1)[i] = Row(h)[i]
  <2>1. /\ i \in 1..(n + 1) /\ i # n + 1
        /\ RowBut(g, n + 1)[i] = Row1(g, i) /\ Row(h)[i] = Row1(h, i)
    BY <1>1 DEF RowBut, Row
  <2>2. OfTheJob(g, i) <=> OfTheJob(h, i)
    BY <1>2, OfTheJobSame
  <2>3. n + 1 \in i + 1..(n + 1) /\ Begins(g[n + 1])
    BY <1>1, <1>2
  <2>4. Stroke(g, i) = Stroke(h, i)
    BY <2>3, StrokeEnded
  <2>5. QED BY <2>1, <2>2, <2>4 DEF Row1, Counts
<1>4. RowBut(g, n + 1)[n + 1] = <<>>
  BY <1>1 DEF RowBut
<1>5. Row(h) \in Seq(Seq(Strokes)) /\ Len(Row(h)) = n
  <2>1. Row(h) \in [1..n -> Seq(Strokes)]
    BY <1>1, RowsType
  <2>2. QED BY <1>1, <2>1, IsSeq
<1>6. Others(g, n + 1) = FlattenSeq(Row(h))
  BY <1>3, <1>4, <1>5, OthersGrow
<1>7. QED BY <1>6, Rows

LEMMA NewJob ==
  ASSUME NEW h \in Seq(Cmds), NEW c \in Cmds, NEW g, NEW n,
         Longer(h, c, g, n), c.op = "JOB_BEGIN"
  PROVE  Others(g, n + 1) = <<>>
<1>1. /\ n \in Nat /\ Len(g) = n + 1 /\ g[n + 1] = c /\ DOMAIN g = 1..(n + 1)
  BY DEF Longer
<1>2. ASSUME NEW i \in 1..(n + 1) PROVE RowBut(g, n + 1)[i] = <<>>
  <2>1. CASE i = n + 1
    BY <1>1, <2>1 DEF RowBut
  <2>2. CASE i # n + 1
    <3>1. n + 1 \in i + 1..(n + 1)
      BY <1>1, <2>2
    <3>2. ~OfTheJob(g, i)
      BY <1>1, <3>1 DEF OfTheJob
    <3>3. QED BY <1>1, <2>2, <3>2 DEF RowBut, Row1, Counts
  <2>3. QED BY <2>1, <2>2
<1>3. PICK m \in Nat : m = n + 1
  BY <1>1
<1>4. PICK d : d = RowBut(g, m)
  OBVIOUS
<1>5. d = [i \in 1..m |-> <<>>]
  BY <1>1, <1>2, <1>3, <1>4 DEF RowBut
<1>6. FlattenSeq(d) = <<>>
  BY <1>5, FlattenNothing
<1>7. QED BY <1>3, <1>4, <1>6 DEF Others

(* Inside of a job, the current path is the stroke begun last, and the     *)
(* paths are the others.  Before, between and after jobs nothing is said:  *)
(* the translator collects strokes there as well.                          *)
Inside(h) ==
  \E b \in DOMAIN h : /\ h[b].op = "JOB_BEGIN"
                      /\ \A y \in b + 1..Len(h) : h[y].op # "JOB_END"
Follows(h, cur, ps, l) ==
  LastBegun(h, l) /\ cur = Stroke(h, l) /\ ps = Others(h, l)
Following == Inside(heard) => \E l : Follows(heard, current, paths, l)

LEMMA InsideBefore ==
  ASSUME NEW h, NEW c, NEW g, NEW n, Longer(h, c, g, n),
         Inside(g) \/ Bracketed(g), c.op # "JOB_BEGIN"
  PROVE  Inside(h) /\ (Inside(g) => c.op # "JOB_END")
<1>1. /\ n \in Nat /\ n = Len(h) /\ Len(g) = n + 1 /\ g[n + 1] = c
      /\ DOMAIN h = 1..n /\ DOMAIN g = 1..(n + 1)
      /\ \A i \in 1..n : g[i] = h[i]
  BY DEF Longer
<1>2. PICK b \in 1..(n + 1) :
        /\ g[b].op = "JOB_BEGIN"
        /\ \A y \in b + 1..n : g[y].op # "JOB_END"
  <2>1. CASE Inside(g)
    <3>1. PICK b \in DOMAIN g : g[b].op = "JOB_BEGIN"
               /\ \A y \in b + 1..Len(g) : g[y].op # "JOB_END"
      BY <2>1 DEF Inside
    <3>2. b \in 1..(n + 1) /\ \A y \in b + 1..n : y \in b + 1..Len(g)
      BY <1>1
    <3>3. QED BY <3>1, <3>2
  <2>2. CASE Bracketed(g)
    <3>1. PICK b \in DOMAIN g : g[b].op = "JOB_BEGIN"
               /\ \A y \in b + 1..Len(g) - 1 : g[y].op # "JOB_END"
      BY <2>2 DEF Bracketed
    <3>2. b \in 1..(n + 1) /\ Len(g) - 1 = n
      BY <1>1
    <3>3. QED BY <3>1, <3>2
  <2>3. QED BY <2>1, <2>2
<1>3. b \in 1..n
  BY <1>1, <1>2
<1>4. h[b].op = "JOB_BEGIN" /\ \A y \in b + 1..n : h[y].op # "JOB_END"
  <2>1. \A y \in b + 1..n : y \in 1..n
    BY <1>1, <1>3
  <2>2. QED BY <1>1, <1>2, <1>3, <2>1
<1>5. ASSUME Inside(g) PROVE c.op # "JOB_END"
  <2>1. PICK d \in 1..(n + 1) : g[d].op = "JOB_BEGIN"
             /\ \A y \in d + 1..(n + 1) : g[y].op # "JOB_END"
    BY <1>1, <1>5 DEF Inside
  <2>2. d # n + 1
    BY <1>1, <2>1
  <2>3. n + 1 \in d + 1..(n + 1)
    BY <1>1, <2>2
  <2>4. QED BY <1>1, <2>1, <2>3
<1>6. QED BY <1>1, <1>3, <1>4, <1>5 DEF Inside

(* In a job, what a TRAVEL or a JOB_END leaves in paths is the drawing.    *)
LEMMA FlushedIs ==
  ASSUME heard \in Seq(Cmds), Following, Inside(heard)
  PROVE  Flushed = Drawing(heard)
<1>1. PICK l : Follows(heard, current, paths, l)
  BY DEF Following
<1>2. PICK h \in Seq(Cmds) : h = heard
  OBVIOUS
<1>3. Drawing(h) = WithStroke(Others(h, l), Stroke(h, l))
  BY <1>1, <1>2, DrawingIs DEF Follows
<1>4. QED BY <1>1, <1>2, <1>3 DEF Follows, Flushed, WithStroke

LEMMA FollowTravel ==
  ASSUME heard \in Seq(Cmds), Following, NEW pt \in Points, Travel(pt)
  PROVE  Following'
<1>0. PICK c : c = [op |-> "TRAVEL", at |-> pt]
  OBVIOUS
<1>1. c \in Cmds /\ c.op = "TRAVEL" /\ c.at = pt /\ Begins(c) /\ Moved(c)
  BY <1>0 DEF Cmds, Moves, Begins, Moved
<1>2. /\ heard' = Append(heard, c) /\ paths' = Flushed
      /\ current' = <<pt>>
  BY <1>0 DEF Travel, Hear
<1>3. PICK h \in Seq(Cmds) : h = heard
  OBVIOUS
<1>4. PICK g \in Seq(Cmds), n \in Nat : g = Append(h, c) /\ Longer(h, c, g, n)
  BY <1>1, Lengthened
<1>5. SUFFICES ASSUME Inside(g)
               PROVE  Follows(g, current', paths', n + 1)
  BY <1>2, <1>3, <1>4 DEF Following
<1>6. Inside(h)
  BY <1>1, <1>4, <1>5, InsideBefore
<1>7. paths' = Drawing(h)
  BY <1>2, <1>3, <1>6, FlushedIs
<1>8. Others(g, n + 1) = Drawing(h)
  BY <1>1, <1>4, NewTravel
<1>9. LastBegun(g, n + 1) /\ Stroke(g, n + 1) = <<pt>>
  <2>1. /\ LastBegun(g, n + 1)
        /\ Moved(c) => Stroke(g, n + 1) = <<c.at>>
        /\ ~Moved(c) => Stroke(g, n + 1) = <<>>
    <3>1. c \in Cmds /\ Begins(c)
      BY <1>1
    <3>2. Longer(h, c, g, n)
      BY <1>4
    <3>3. QED BY <3>1, <3>2, NewStroke
  <2>2. QED BY <1>1, <2>1
<1>10. QED BY <1>2, <1>7, <1>8, <1>9 DEF Follows

LEMMA FollowBegin == ASSUME heard \in Seq(Cmds), JobBegin PROVE Following'
<1> DEFINE c == [op |-> "JOB_BEGIN"]
<1>1. c \in Cmds /\ c.op = "JOB_BEGIN" /\ Begins(c) /\ ~Moved(c)
  BY DEF Cmds, Brackets, Begins, Moved
<1>2. heard' = Append(heard, c) /\ paths' = <<>> /\ current' = <<>>
  BY DEF JobBegin, StartOver, Hear
<1> HIDE DEF c
<1>3. PICK h \in Seq(Cmds) : h = heard
  OBVIOUS
<1>4. PICK g \in Seq(Cmds), n \in Nat : g = Append(h, c) /\ Longer(h, c, g, n)
  BY <1>1, Lengthened
<1>5. Others(g, n + 1) = <<>>
  BY <1>1, <1>4, NewJob
<1>6. LastBegun(g, n + 1) /\ Stroke(g, n + 1) = <<>>
  BY <1>1, <1>4, NewStroke, Zenon
<1>7. QED BY <1>2, <1>3, <1>4, <1>5, <1>6 DEF Follows, Following

(* A MARK and a setting go to the stroke that is being drawn; a JOB_END is *)
(* not inside of a job any more.                                           *)
LEMMA FollowOn ==
  ASSUME heard \in Seq(Cmds), Following, NEW c \in Cmds, ~Begins(c),
         heard' = Append(heard, c), c.op # "JOB_END" => paths' = paths,
         c.op # "JOB_END" =>
           current' = IF Moved(c) THEN Append(current, c.at) ELSE current
  PROVE  Following'
<1>1. PICK h \in Seq(Cmds) : h = heard
  OBVIOUS
<1>2. PICK g \in Seq(Cmds), n \in Nat : g = Append(h, c) /\ Longer(h, c, g, n)
  BY Lengthened
<1>3. SUFFICES ASSUME Inside(g)
               PROVE  \E l : Follows(g, current', paths', l)
  BY <1>1, <1>2 DEF Following
<1>4. c.op # "JOB_BEGIN"
  BY DEF Begins
<1>5. Inside(h) /\ c.op # "JOB_END"
  BY <1>2, <1>3, <1>4, InsideBefore
<1>6. PICK l : Follows(h, current, paths, l)
  BY <1>1, <1>5 DEF Following
<1>7. /\ LastBegun(g, l) /\ Others(g, l) = Others(h, l)
      /\ Moved(c) => Stroke(g, l) = Stroke(h, l) \o <<c.at>>
      /\ ~Moved(c) => Stroke(g, l) = Stroke(h, l)
  <2>1. LastBegun(h, l)
    BY <1>6, Zenon DEF Follows
  <2>2. Longer(h, c, g, n)
    BY <1>2
  <2>3. QED BY <2>1, <2>2, OthersSame, Zenon
<1>8. PICK s \in Seq(Points) : s = Stroke(h, l)
  BY MarksType
<1>9. Moved(c) => s \o <<c.at>> = Append(s, c.at)
  BY MovedPoint, AppendIsConcat
<1>10. current' = Stroke(g, l)
  BY <1>5, <1>6, <1>7, <1>8, <1>9 DEF Follows
<1>11. QED BY <1>5, <1>6, <1>7, <1>10 DEF Follows

LEMMA FollowingInit == TranslatorInit => Following
<1>1. DOMAIN <<>> = {}
  BY EmptySeq
<1>2. QED BY <1>1 DEF TranslatorInit, Following, Inside

LEMMA FollowingKept ==
  ASSUME Settled, Following, [TranslatorNext]_translatorVars
  PROVE  Following'
<1>1. heard \in Seq(Cmds)
  BY DEF Settled
<1>2. CASE UNCHANGED translatorVars
  BY <1>2 DEF translatorVars, Following
<1>3. ASSUME NEW pt \in Points, Travel(pt) PROVE Following'
  BY <1>1, <1>3, FollowTravel
<1>4. ASSUME NEW pt \in Points, Mark(pt) PROVE Following'
  <2>1. PICK c : c = [op |-> "MARK", at |-> pt]
    OBVIOUS
  <2>2. /\ c \in Cmds /\ ~Begins(c) /\ Moved(c) /\ c.at = pt
        /\ c.op # "JOB_END"
    BY <2>1 DEF Cmds, Moves, Begins, Moved
  <2>3. /\ heard' = Append(heard, c) /\ paths' = paths
        /\ current' = Append(current, c.at)
    BY <1>4, <2>1, <2>2 DEF Mark, Hear
  <2>4. QED BY <1>1, <2>2, <2>3, FollowOn
<1>5. ASSUME NEW cmd \in Setters, Set(cmd) PROVE Following'
  <2>1. cmd \in Cmds /\ ~Begins(cmd) /\ ~Moved(cmd)
    BY DEF Cmds, Setters, Begins, Moved
  <2>2. heard' = Append(heard, cmd) /\ paths' = paths /\ current' = current
    BY <1>5 DEF Set, Hear
  <2>3. QED BY <1>1, <2>1, <2>2, FollowOn
<1>6. CASE JobBegin
  BY <1>1, <1>6, FollowBegin
<1>7. CASE JobEnd
  <2>1. PICK c : c = [op |-> "JOB_END"]
    OBVIOUS
  <2>2. c \in Cmds /\ ~Begins(c) /\ c.op = "JOB_END"
    BY <2>1 DEF Cmds, Brackets, Begins
  <2>3. heard' = Append(heard, c)
    BY <1>7, <2>1 DEF JobEnd, Hear
  <2>4. QED BY <1>1, <2>2, <2>3, FollowOn
<1>8. QED BY <1>2, <1>3, <1>4, <1>5, <1>6, <1>7 DEF TranslatorNext

(* What the end of a job hands to engrave() is the drawing of the list.    *)
LEMMA EndDraws ==
  ASSUME heard \in Seq(Cmds), Following, JobEnd, Bracketed(heard')
  PROVE  Flushed = Drawing(heard')
<1>1. PICK c : c = [op |-> "JOB_END"]
  OBVIOUS
<1>2. /\ c \in Cmds /\ ~Begins(c) /\ ~Moved(c) /\ c.op # "JOB_BEGIN"
      /\ heard' = Append(heard, c)
  BY <1>1 DEF Cmds, Brackets, Begins, Moved, JobEnd, Hear
<1>3. PICK h \in Seq(Cmds) : h = heard
  OBVIOUS
<1>4. PICK g \in Seq(Cmds), n \in Nat : g = Append(h, c) /\ Longer(h, c, g, n)
  BY <1>2, Lengthened
<1>5. g = heard'
  BY <1>2, <1>3, <1>4
<1>6. Inside(h)
  BY <1>2, <1>4, <1>5, InsideBefore
<1>7. PICK l : Follows(h, current, paths, l)
  BY <1>3, <1>6 DEF Following
<1>8. /\ LastBegun(g, l) /\ Others(g, l) = Others(h, l)
      /\ Stroke(g, l) = Stroke(h, l)
  <2>1. LastBegun(h, l)
    BY <1>7, Zenon DEF Follows
  <2>2. Longer(h, c, g, n)
    BY <1>4
  <2>3. /\ LastBegun(g, l) /\ Others(g, l) = Others(h, l)
        /\ Moved(c) => Stroke(g, l) = Stroke(h, l) \o <<c.at>>
        /\ ~Moved(c) => Stroke(g, l) = Stroke(h, l)
    BY <1>2, <2>1, <2>2, OthersSame, Zenon
  <2>4. QED BY <1>2, <2>3
<1>9. Drawing(g) = WithStroke(Others(g, l), Stroke(g, l))
  BY <1>8, DrawingIs
<1>10. Drawing(h) = WithStroke(Others(h, l), Stroke(h, l))
  BY <1>7, DrawingIs DEF Follows
<1>11. Flushed = Drawing(h)
  BY <1>3, <1>6, FlushedIs
<1>12. QED BY <1>5, <1>8, <1>9, <1>10, <1>11

(* A step whose command is a JOB_END is JobEnd.                            *)
LEMMA EndsAreEnds ==
  ASSUME heard \in Seq(Cmds), TranslatorNext, JobEnds PROVE JobEnd
<1>1. ASSUME NEW c \in Moves \cup Setters \cup {[op |-> "JOB_BEGIN"]},
             heard' = Append(heard, c)
      PROVE  FALSE
  <2>1. c \in Cmds /\ c.op # "JOB_END"
    BY DEF Cmds, Moves, Setters, Brackets
  <2>2. Last(heard') = c
    BY <1>1, <2>1, LastOfAppend
  <2>3. QED BY <2>1, <2>2 DEF JobEnds
<1>2. ASSUME NEW pt \in Points
      PROVE  /\ [op |-> "TRAVEL", at |-> pt] \in Moves
             /\ [op |-> "MARK", at |-> pt] \in Moves
  BY DEF Moves
<1>3. ASSUME NEW pt \in Points, Travel(pt) \/ Mark(pt) PROVE FALSE
  BY <1>1, <1>2, <1>3 DEF Travel, Mark, Hear
<1>4. ASSUME NEW cmd \in Setters, Set(cmd) PROVE FALSE
  BY <1>1, <1>4 DEF Set, Hear
<1>5. ~JobBegin
  BY <1>1 DEF JobBegin, Hear
<1>6. QED BY <1>3, <1>4, <1>5 DEF TranslatorNext

(* THEOREM: a job that was begun and is ended is the drawing between the   *)
(* two: every stroke of two points or more, each once and in order, for    *)
(* any list, whatever came before and whatever engrave() did with it.      *)
THEOREM JobsAreTheDrawings == TranslatorSpec => JobIsTheDrawing
<1> DEFINE Draws(js, ks, h) ==
      IF Drawing(h) = <<>> THEN ks = js
      ELSE Front(ks) = js /\ Last(ks).paths = Drawing(h)
<1>1. ASSUME TranslatorTypes, Settled, Following, TranslatorNext,
             JobEnds, Bracketed(heard')
      PROVE  Draws(jobs, jobs', heard')
  <2>1. heard \in Seq(Cmds)
    BY <1>1 DEF Settled
  <2>2. JobEnd
    BY <1>1, <2>1, EndsAreEnds
  <2>3. Flushed = Drawing(heard')
    BY <1>1, <2>1, <2>2, EndDraws
  <2>4. CASE Flushed = <<>>
    BY <2>2, <2>3, <2>4 DEF JobEnd
  <2>5. CASE Flushed # <<>>
    <3>1. PICK j : j = [paths |-> Flushed, params |-> params]
      OBVIOUS
    <3>2. jobs' = Append(jobs, j) /\ j.paths = Flushed
      BY <2>2, <2>5, <3>1 DEF JobEnd
    <3>3. jobs \in Seq(Jobs \cup {j})
      <4>1. jobs \in Seq(Jobs)
        BY <1>1 DEF TranslatorTypes, Jobs
      <4>2. QED BY <4>1
    <3>4. Last(Append(jobs, j)) = j /\ Front(Append(jobs, j)) = jobs
      BY <3>3, LastOfAppend, FrontIs
    <3>5. QED BY <2>3, <2>5, <3>2, <3>4
  <2>6. QED BY <2>4, <2>5
<1>2. UNCHANGED translatorVars => ~JobEnds
  BY DEF translatorVars, JobEnds
<1>3. TranslatorTypes /\ Settled /\ Following
        /\ [TranslatorNext]_translatorVars
        => [JobEnds /\ Bracketed(heard') => Draws(jobs, jobs', heard')
           ]_translatorVars
  BY <1>1, <1>2
<1>4. TranslatorSpec =>
        [][JobEnds /\ Bracketed(heard') => Draws(jobs, jobs', heard')
          ]_translatorVars
  BY <1>3, TypeInit, TypeKept, SettledInit, SettledKept, FollowingInit,
     FollowingKept, PTL DEF TranslatorSpec
<1>5. QED BY <1>4 DEF JobIsTheDrawing

-----------------------------------------------------------------------------
(* The monitor.                                                            *)
(* The callback runs only on an interface taken for online, and a read     *)
(* loop that is sent no jobs does not touch the connection.                *)
Watch ==
  /\ mpc \in MonitorPCs
  /\ mpc \in {"dialing", "identifying", "pausing"} => online
  /\ ~jobDialled => jpc = "idle"
  /\ ConnectedIsWatched
  /\ SilentIsDropped

LEMMA InitWatch == Init => Watch
BY DEF Init, Watch, MonitorPCs, ConnectedIsWatched, SilentIsDropped

LEMMA MonitorWatch == ASSUME Watch, MonitorStep PROVE Watch'
<1> USE DEF Watch, MonitorPCs, ConnectedIsWatched, SilentIsDropped, objVars,
            jobVars
<1>1. CASE CheckUp
  BY <1>1, Zenon DEF CheckUp
<1>2. CASE CheckDown
  BY <1>2, Zenon DEF CheckDown
<1>3. CASE CheckSame
  BY <1>3, Zenon DEF CheckSame
<1>4. CASE Hangup
  BY <1>4, Zenon DEF Hangup, CallDown, Disconnect
<1>5. CASE Dial
  BY <1>5, Zenon DEF Dial, Connect
<1>6. CASE GiveUp
  BY <1>6, Zenon DEF GiveUp
<1>7. CASE Identify
  BY <1>7, Zenon DEF Identify, Identified
<1>8. CASE NotIdentified
  BY <1>8, Zenon DEF NotIdentified, DropSilent, Disconnect
<1>9. CASE Pause
  BY <1>9, Zenon DEF Pause
<1>10. CASE Wait
  BY <1>10, Zenon DEF Wait
<1>11. QED
  BY <1>1, <1>2, <1>3, <1>4, <1>5, <1>6, <1>7, <1>8, <1>9, <1>10
  DEF MonitorStep

LEMMA WatchKept == Watch /\ [Next]_vars => Watch'
<1> SUFFICES ASSUME Watch, [Next]_vars PROVE Watch'
  OBVIOUS
<1> USE DEF Watch, ConnectedIsWatched, SilentIsDropped, monitorVars, objVars,
            jobVars
<1>1. CASE MonitorStep
  BY <1>1, MonitorWatch
<1>2. CASE JobStep
  BY <1>2, Zenon DEF JobStep, JobStart, JobDial, JobIdentify, MonitorPCs
<1>3. CASE NoticeLoss
  BY <1>3, Zenon DEF NoticeLoss
<1>4. CASE StopMonitor
  BY <1>4, Zenon DEF StopMonitor
<1>5. CASE ShutDown
  BY <1>5, Zenon DEF ShutDown, Disconnect
<1>6. CASE LaserChanges
  BY <1>6, Zenon DEF LaserChanges
<1>7. CASE UNCHANGED vars
  BY <1>7, Zenon DEF vars
<1>8. QED BY <1>1, <1>2, <1>3, <1>4, <1>5, <1>6, <1>7 DEF Next

LEMMA WatchAlways == Spec => []Watch
BY InitWatch, WatchKept, PTL DEF Spec

(* Without jobs that reconnect, the object is connected only while the     *)
(* monitor will act on the interface's disappearance.                      *)
THEOREM ConnectedWatched == Spec => []ConnectedIsWatched
<1>1. Watch => ConnectedIsWatched
  BY DEF Watch
<1>2. QED BY <1>1, WatchAlways, PTL

(* Whatever the laser does, on_laser_up() leaves no connection to a laser  *)
(* that never told its name.                                               *)
THEOREM SilentDropped == Spec => []SilentIsDropped
<1>1. Watch => SilentIsDropped
  BY DEF Watch
<1>2. QED BY <1>1, WatchAlways, PTL
-----------------------------------------------------------------------------
(* A thread that is in the middle of an attempt has one left to count.     *)
Counted ==
  /\ TypeOK
  /\ mpc \in {"identifying", "pausing"} => tries > 0
  /\ jpc # "idle" => jobTries > 0

LEMMA InitCounted == Init => Counted
<1> SUFFICES ASSUME Init PROVE Counted
  OBVIOUS
<1>1. tries \in 0..Tries /\ jobTries \in 0..JobTries /\ stop \in 0..2
  BY MonitorAssumption DEF Init
<1>2. QED BY <1>1 DEF Init, Counted, TypeOK, MonitorPCs

LEMMA MonitorCounts == ASSUME Counted, MonitorStep PROVE Counted'
<1> USE MonitorAssumption DEF Counted, TypeOK, MonitorPCs, objVars, jobVars
<1>1. CASE CheckUp
  BY <1>1 DEF CheckUp
<1>2. CASE CheckDown
  BY <1>2 DEF CheckDown
<1>3. CASE CheckSame
  BY <1>3 DEF CheckSame
<1>4. CASE Hangup
  BY <1>4 DEF Hangup, CallDown, Disconnect
<1>5. CASE Dial
  <2>1. connected' \in BOOLEAN
    BY <1>5 DEF Dial, Connect, Accepts
  <2>2. QED BY <1>5, <2>1 DEF Dial, Connect
<1>6. CASE GiveUp
  BY <1>6 DEF GiveUp
<1>7. CASE Identify
  BY <1>7 DEF Identify, Identified, Answered
<1>8. CASE NotIdentified
  BY <1>8 DEF NotIdentified, DropSilent, Disconnect
<1>9. CASE Pause
  BY <1>9 DEF Pause, Retry
<1>10. CASE Wait
  BY <1>10 DEF Wait
<1>11. QED
  BY <1>1, <1>2, <1>3, <1>4, <1>5, <1>6, <1>7, <1>8, <1>9, <1>10
  DEF MonitorStep

LEMMA StopRange == 2 \in 0..2
OBVIOUS

LEMMA CountedKept == Counted /\ [Next]_vars => Counted'
<1> SUFFICES ASSUME Counted, [Next]_vars PROVE Counted'
  OBVIOUS
<1> USE MonitorAssumption DEF Counted, TypeOK, MonitorPCs, monitorVars,
        objVars, jobVars
<1>1. CASE MonitorStep
  BY <1>1, MonitorCounts
<1>2. CASE JobStart
  BY <1>2 DEF JobStart
<1>3. CASE JobDial
  <2>1. connected' \in BOOLEAN
    BY <1>3 DEF JobDial, Connect, Accepts
  <2>2. QED BY <1>3, <2>1 DEF JobDial, Connect, LastTry
<1>4. CASE JobIdentify
  <2>1. named' \in BOOLEAN
    BY <1>4 DEF JobIdentify, Identified, Answered
  <2>2. jobTries' \in 0..JobTries /\ (jpc' # "idle" => jobTries' > 0)
    BY <1>4, <2>1 DEF JobIdentify
  <2>3. jpc' \in {"idle", "dialing"}
    BY <1>4 DEF JobIdentify
  <2>4. UNCHANGED <<laser, monitorVars, connected, link, jobDialled, stop>>
    BY <1>4 DEF JobIdentify
  <2>5. QED BY <2>1, <2>2, <2>3, <2>4
<1>5. CASE NoticeLoss \/ StopMonitor
  <2>1. CASE NoticeLoss
    BY <2>1 DEF NoticeLoss
  <2>2. CASE StopMonitor
    BY <2>2 DEF StopMonitor
  <2>3. QED BY <1>5, <2>1, <2>2
<1>6. CASE ShutDown
  <2>1. connected' = FALSE /\ link' = "none" /\ stop' = 2
    BY <1>6, Zenon DEF ShutDown, Disconnect
  <2>2. UNCHANGED <<laser, monitorVars, named, jobVars>>
    BY <1>6, Zenon DEF ShutDown, Disconnect
  <2>3. QED BY <2>1, <2>2, StopRange, Zenon
<1>7. CASE LaserChanges
  BY <1>7 DEF LaserChanges
<1>8. CASE UNCHANGED vars
  BY <1>8 DEF vars
<1>9. QED
  BY <1>1, <1>2, <1>3, <1>4, <1>5, <1>6, <1>7, <1>8 DEF Next, JobStep

(* THEOREM: neither the monitor nor a job ever counts below its last       *)
(* attempt or past its first, whoever changes the connection meanwhile.    *)
THEOREM AttemptsCounted == Spec => []TypeOK
<1>1. Counted => TypeOK
  BY DEF Counted
<1>2. QED BY <1>1, InitCounted, CountedKept, PTL DEF Spec
=============================================================================
