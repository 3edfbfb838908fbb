---------------------------- MODULE JczTranslator ----------------------------
(***************************************************************************)
(* JCZTranslator of jcz_bridge/jcz_bridge.py: the state machine that turns *)
(* the list commands LightBurn sends for a galvo controller into jobs for  *)
(* D1Ultra.engrave().  A point stands for a galvo coordinate pair; the     *)
(* centring of the coordinates on their bounding box is left out.  The     *)
(* definitions carry the translator's name, because JczPartsProofs is also *)
(* about LaserMonitor.                                                     *)
(***************************************************************************)
EXTENDS Naturals, Sequences, SequencesExt, FiniteSetsExt

CONSTANTS Points,   \* coordinates that occur in TRAVEL and MARK
          Values,   \* first parameters that occur in SET_* commands
          MaxLen    \* bound: commands in a behaviour

U16     == 0..65535
Speeds  == Nat \ 0..255    \* at least 1 mm/min
Powers  == 0..4095
Periods == Nat \ {0}

ASSUME TranslatorAssumption == Values \subseteq U16 /\ MaxLen \in Nat

VARIABLES
  current,  \* self._current_path
  paths,    \* self._all_paths
  inJob,    \* self._in_job
  params,   \* speed in 1/256 mm/min, power in 1/4095, Q period in us
  laserOn,  \* self._laser_on
  jobs,     \* the calls of engrave(), in order
  heard     \* history: the commands handled so far

translatorVars == <<current, paths, inJob, params, laserOn, jobs, heard>>

Moves   == [op : {"TRAVEL", "MARK"}, at : Points]
Setters == [op : {"SET_MARK_SPEED", "SET_POWER", "SET_Q_PERIOD",
                  "LASER_SWITCH"}, p1 : Values]
Brackets == [op : {"JOB_BEGIN", "JOB_END"}]

Strokes == {s \in Seq(Points) : Len(s) >= 2}
Params == [speed : Speeds, power : Powers, period : Periods]

(* What is sent is never empty, and in the laser's range.                  *)
TranslatorTypes ==
  /\ current \in Seq(Points) /\ paths \in Seq(Strokes)
  /\ inJob \in BOOLEAN /\ laserOn \in BOOLEAN /\ params \in Params
  /\ jobs \in Seq([paths : Seq(Strokes) \ {<<>>}, params : Params])

(* 1000 mm/min, 50 % and 50 kHz; speed and period kept as received.        *)
Defaults == [speed |-> 256000, power |-> 2047, period |-> 20]

TranslatorInit ==
  /\ current = <<>> /\ paths = <<>> /\ inJob = FALSE /\ laserOn = FALSE
  /\ params = Defaults /\ jobs = <<>> /\ heard = <<>>

Hear(cmd) == Len(heard) < MaxLen /\ heard' = Append(heard, cmd)

(* A path of fewer than two points is dropped.                             *)
Flushed == IF Len(current) >= 2 THEN Append(paths, current) ELSE paths

-----------------------------------------------------------------------------
Travel(pt) ==
  /\ Hear([op |-> "TRAVEL", at |-> pt])
  /\ paths' = Flushed /\ current' = <<pt>>
  /\ UNCHANGED <<inJob, params, laserOn, jobs>>

Mark(pt) ==
  /\ Hear([op |-> "MARK", at |-> pt])
  /\ current' = Append(current, pt)
  /\ UNCHANGED <<paths, inJob, params, laserOn, jobs>>

(* SET_MARK_SPEED is scaled by 60/256 and at least 1; zero is ignored, as  *)
(* is a zero period.  Power is clamped to full scale.                      *)
SpeedRaw(v) == v * 60              \* variant: no lower limit
SpeedOf(v)  == IF v * 60 > 256 THEN v * 60 ELSE 256
PowerOf(v)  == IF v < 4095 THEN v ELSE 4095

AfterSet(op, v) ==
  [speed  |-> IF op = "SET_MARK_SPEED" /\ v > 0 THEN SpeedOf(v)
              ELSE params.speed,
   power  |-> IF op = "SET_POWER" THEN PowerOf(v) ELSE params.power,
   period |-> IF op = "SET_Q_PERIOD" /\ v > 0 THEN v ELSE params.period]

Set(cmd) ==
  /\ Hear(cmd)
  /\ params' = AfterSet(cmd.op, cmd.p1)
  /\ laserOn' = IF cmd.op = "LASER_SWITCH" THEN cmd.p1 # 0 ELSE laserOn
  /\ UNCHANGED <<current, paths, inJob, jobs>>

ResumeJob == UNCHANGED <<paths, current>>  \* variant: nothing is cleared
StartOver == paths' = <<>> /\ current' = <<>>

JobBegin ==
  /\ Hear([op |-> "JOB_BEGIN"])
  /\ inJob' = TRUE /\ StartOver
  /\ UNCHANGED <<params, laserOn, jobs>>

(* The paths stay where they are.  engrave() may raise, and then the       *)
(* translator stays inside the job.                                        *)
JobEnd ==
  /\ Hear([op |-> "JOB_END"])
  /\ paths' = Flushed /\ current' = <<>>
  /\ jobs' = IF Flushed = <<>> THEN jobs
             ELSE Append(jobs, [paths |-> Flushed, params |-> params])
  /\ inJob' \in {FALSE} \cup (IF Flushed = <<>> THEN {} ELSE {inJob})
  /\ UNCHANGED <<params, laserOn>>

TranslatorNext ==
  \/ \E pt \in Points : Travel(pt) \/ Mark(pt)
  \/ \E cmd \in Setters : Set(cmd)
  \/ JobBegin \/ JobEnd

TranslatorSpec == TranslatorInit /\ [][TranslatorNext]_translatorVars

-----------------------------------------------------------------------------
(* What a list of commands h draws, a JOB_END being its last command.      *)
Begins(cmd) == cmd.op \in {"TRAVEL", "JOB_BEGIN"}
Moved(cmd)  == cmd.op \in {"TRAVEL", "MARK"}

Bracketed(h) ==
  \E b \in DOMAIN h : /\ h[b].op = "JOB_BEGIN"
                      /\ \A y \in b + 1..Len(h) - 1 : h[y].op # "JOB_END"

(* The stroke begun at m: the points of the moves until the next begins.   *)
InStroke(h, m, x) ==
  x >= m /\ Moved(h[x]) /\ \A y \in m + 1..x : ~Begins(h[y])
Stroke(h, m) ==
  FlattenSeq([x \in DOMAIN h |->
                IF InStroke(h, m, x) THEN <<h[x].at>> ELSE <<>>])

(* The strokes of the last JOB_BEGIN; those of a single point are left out.*)
OfTheJob(h, m) ==
  Begins(h[m]) /\ \A y \in m + 1..Len(h) : h[y].op # "JOB_BEGIN"
Counts(h, m) == OfTheJob(h, m) /\ Len(Stroke(h, m)) >= 2
Drawing(h) ==
  FlattenSeq([m \in DOMAIN h |->
                IF Counts(h, m) THEN <<Stroke(h, m)>> ELSE <<>>])

(* The last value in h that a command of this kind can set.                *)
LastSet(h, op) ==
  LET sets == {m \in DOMAIN h : h[m].op = op
                                /\ (h[m].p1 > 0 \/ op = "SET_POWER")}
  IN  {h[m].p1 : m \in {x \in sets : \A y \in sets : y <= x}}

JobEnds == heard' # heard /\ Last(heard').op = "JOB_END"

(* A JOB_END that closes a JOB_BEGIN sends exactly the strokes drawn       *)
(* between the two, in order: nothing of earlier jobs or of the moves      *)
(* before it, and no job at all if there is no stroke.                     *)
JobIsTheDrawing ==
  [][JobEnds /\ Bracketed(heard') =>
       IF Drawing(heard') = <<>> THEN jobs' = jobs
       ELSE Front(jobs') = jobs /\ Last(jobs').paths = Drawing(heard')
    ]_translatorVars

(* A job that is sent carries the settings last given, brought into the    *)
(* laser's range; a setting without effect does not disturb them.          *)
JobHasLastSettings ==
  [][jobs' # jobs =>
       LET p == Last(jobs').params
       IN  /\ \A v \in LastSet(heard', "SET_MARK_SPEED") :
                p.speed = Max({256, v * 60})
           /\ \A v \in LastSet(heard', "SET_POWER") : p.power = Min({4095, v})
           /\ \A v \in LastSet(heard', "SET_Q_PERIOD") : p.period = v
    ]_translatorVars
=============================================================================
