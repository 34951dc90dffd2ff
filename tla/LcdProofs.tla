----------------------------- MODULE LcdProofs -----------------------------
(***************************************************************************)
(* Theorems about LcdDemo, for any number of Timers, any delay and any     *)
(* brightness scale.                                                       *)
(***************************************************************************)
EXTENDS LcdDemo, TLAPS

LEMMA ClampRange == \A b \in Int : Clamp(b) \in 0..MaxBright
BY BrightAssumption DEF Clamp

(* A new Timer and a scheduled one are well typed.                          *)
LEMMA NewTimerType ==
    ASSUME TypeOK, NEW t \in Tasks, NewTimer(t)
    PROVE  /\ made' \in 0..MaxTimers
           /\ task' \in [Timers -> Tasks] /\ phase' \in [Timers -> Phases]
           /\ overlaps' \in [Timers -> BOOLEAN] /\ field' \in [Tasks -> 0..MaxTimers]
<1>1. made + 1 \in 0..MaxTimers
  BY TimersAssumption DEF NewTimer, TypeOK, Timers
<1>. QED  BY <1>1 DEF NewTimer, TypeOK, Phases, Unfinished

LEMMA ScheduleType ==
    ASSUME TypeOK, NEW t \in Tasks, NEW d \in Nat, Schedule(t, d)
    PROVE  /\ phase' \in [Timers -> Phases] /\ left' \in [Timers -> Nat]
           /\ crashed' \in BOOLEAN
BY DEF Schedule, TypeOK, Phases, Unfinished

LEMMA TypeStep == TypeOK /\ [Next]_vars => TypeOK'
<1>. SUFFICES ASSUME TypeOK, [Next]_vars PROVE TypeOK'
  OBVIOUS
<1>d. OffDelay \in Nat /\ OffDelay + 1 \in Nat /\ 1 \in Nat
  BY DelayAssumption
<1>t. "screenTask" \in Tasks /\ "queryTask" \in Tasks
  BY DEF Tasks
<1>1. CASE Button1
  BY <1>1 DEF Button1, TypeOK, timerVars
<1>2. CASE Button2
  <2>1. mdelay' \in Nat /\ mpc' = "screen"
    BY <1>2, <1>d DEF Button2
  <2>. QED  BY <1>2, <2>1, <1>t, NewTimerType DEF Button2, TypeOK
<1>3. CASE ScheduleOff
  BY <1>3, <1>d, <1>t, ScheduleType DEF ScheduleOff, Schedule, TypeOK
<1>4. CASE NewQueryTimer
  BY <1>4, <1>t, NewTimerType DEF NewQueryTimer, TypeOK
<1>5. CASE ScheduleQuery
  <2>1. mdelay \in Nat
    BY DEF TypeOK
  <2>. QED  BY <1>5, <2>1, <1>t, ScheduleType DEF ScheduleQuery, Schedule, TypeOK
<1>6. CASE Button3 \/ Button4
  <2>1. bright - Step \in Int /\ bright + Step \in Int
    BY BrightAssumption DEF TypeOK
  <2>2. bright' \in -1..MaxBright
    BY <1>6, <2>1, ClampRange, BrightAssumption DEF Button3, Button4
  <2>. QED  BY <1>6, <2>2 DEF Button3, Button4, TypeOK, timerVars
<1>7. ASSUME NEW i \in Timers, Run(i) PROVE TypeOK'
  BY <1>7 DEF Run, TypeOK, Phases, Unfinished
<1>8. ASSUME NEW i \in Timers, CancelField(i) PROVE TypeOK'
  BY <1>8 DEF CancelField, TypeOK, Phases, Unfinished
<1>9. CASE Tick
  <2>1. \A i \in Timers : phase[i] = "scheduled" => left[i] - 1 \in Nat
    BY <1>9 DEF Tick, Due, TypeOK
  <2>2. left' \in [Timers -> Nat]
    BY <1>9, <2>1 DEF Tick, TypeOK
  <2>. QED  BY <1>9, <2>2 DEF Tick, TypeOK
<1>10. CASE WakeUp
  BY <1>10 DEF WakeUp, TypeOK, timerVars
<1>11. CASE UNCHANGED vars
  BY <1>11 DEF vars, timerVars, TypeOK
<1>. QED
  BY <1>1, <1>2, <1>3, <1>4, <1>5, <1>6, <1>7, <1>8, <1>9, <1>10, <1>11
  DEF Next, Click, TimerThread

LEMMA TypeInit == Init => TypeOK
<1>. SUFFICES ASSUME Init PROVE TypeOK
  OBVIOUS
<1>1. /\ task \in [Timers -> Tasks] /\ phase \in [Timers -> Phases]
      /\ left \in [Timers -> Nat] /\ overlaps \in [Timers -> BOOLEAN]
  BY DEF Init, Tasks, Phases
<1>2. made \in 0..MaxTimers /\ field \in [Tasks -> 0..MaxTimers]
  BY TimersAssumption DEF Init
<1>3. bright \in -1..MaxBright
  BY BrightAssumption DEF Init
<1>. QED  BY <1>1, <1>2, <1>3 DEF Init, TypeOK

(* Fields, Timers and the brightness keep their types: in particular the    *)
(* brightness that is stored never leaves 0..255.                           *)
THEOREM TypeCorrect == Spec => []TypeOK
<1>. QED  BY TypeInit, TypeStep, PTL DEF Spec

(* The fields hold the newest Timer of their kind, and a Timer with an      *)
(* unfinished elder was made while that elder was unfinished.               *)
FieldIsNewest ==
    \A j \in Timers : phase[j] # "none" => j <= made /\ j <= field[task[j]]

FieldFits ==
    \A t \in Tasks, i \in Timers : field[t] = i => task[i] = t /\ phase[i] # "none"

EldersOverlap ==
    \A i, j \in Timers :
        j < i /\ task[j] = task[i] /\ phase[j] \in Unfinished /\ phase[i] # "none"
            => overlaps[i]

Unmade == \A i \in Timers : i > made => phase[i] = "none"

(* Between "new Timer()" and schedule only a cancel can reach the Timer.    *)
Fresh(t) == field[t] \in Timers /\ phase[field[t]] \in {"new", "cancelled"}

FreshScheduled ==
    /\ mpc = "screen" => Fresh("screenTask")
    /\ mpc = "query" => Fresh("queryTask")

LostInv ==
    FieldIsNewest /\ FieldFits /\ EldersOverlap /\ Unmade /\ FreshScheduled
        /\ LostOnlyIfOverlapped

LEMMA LostNew ==
    ASSUME TypeOK, LostInv, NEW t \in Tasks, NewTimer(t), mpc' \in {"screen", "query"},
           mpc' = "screen" => t = "screenTask", mpc' = "query" => t = "queryTask"
    PROVE  LostInv'
<1>. DEFINE i == made + 1
<1>1. /\ i \in Timers /\ made' = i /\ i \in Nat /\ made \in Nat
      /\ \A j \in Timers : j \in Nat
  BY TimersAssumption DEF NewTimer, TypeOK, Timers
<1>2. /\ \A j \in Timers : task'[j] = IF j = i THEN t ELSE task[j]
      /\ \A j \in Timers : phase'[j] = IF j = i THEN "new" ELSE phase[j]
      /\ \A j \in Timers : j # i => overlaps'[j] = overlaps[j]
      /\ \A u \in Tasks : field'[u] = IF u = t THEN i ELSE field[u]
      /\ overlaps'[i] = \E j \in Timers : task[j] = t /\ phase[j] \in Unfinished
  BY <1>1 DEF NewTimer, TypeOK
<1>3. phase[i] = "none" /\ \A u \in Tasks : field[u] # i
  BY <1>1 DEF LostInv, Unmade, FieldFits
<1>. HIDE DEF i
<1>4. FieldIsNewest'
  BY <1>1, <1>2, <1>3 DEF LostInv, FieldIsNewest, TypeOK, i
<1>5. FieldFits'
  BY <1>1, <1>2, <1>3 DEF LostInv, FieldFits
<1>6. EldersOverlap'
  <2>. SUFFICES ASSUME NEW k \in Timers, NEW j \in Timers, j < k,
                       task'[j] = task'[k], phase'[j] \in Unfinished, phase'[k] # "none"
                PROVE  overlaps'[k]
    BY DEF EldersOverlap
  <2>1. CASE k = i
    <3>1. j # i
      BY <1>1, <2>1
    <3>2. task[j] = t /\ phase[j] \in Unfinished
      BY <1>1, <1>2, <2>1, <3>1
    <3>. QED  BY <1>2, <2>1, <3>2
  <2>2. CASE k # i /\ j # i
    BY <1>2, <2>2 DEF LostInv, EldersOverlap
  <2>3. CASE k # i /\ j = i
    BY <1>1, <1>2, <2>3 DEF LostInv, Unmade, i
  <2>. QED  BY <2>1, <2>2, <2>3
<1>7. Unmade'
  BY <1>1, <1>2 DEF LostInv, Unmade, i
<1>8. FreshScheduled'
  BY <1>1, <1>2 DEF FreshScheduled, Fresh
<1>9. LostOnlyIfOverlapped'
  BY <1>1, <1>2 DEF LostInv, LostOnlyIfOverlapped
<1>. QED  BY <1>4, <1>5, <1>6, <1>7, <1>8, <1>9 DEF LostInv

(* Steps that move Timers forward and cancel none but the one of a field.   *)
LEMMA LostPhase ==
    ASSUME TypeOK, LostInv, UNCHANGED <<made, task, overlaps, field>>,
           phase' \in [Timers -> Phases],
           \A j \in Timers : phase'[j] = "none" <=> phase[j] = "none",
           \A j \in Timers : phase'[j] \in Unfinished => phase[j] \in Unfinished,
           \A j \in Timers : phase'[j] = "cancelled" => phase[j] = "cancelled" \/ overlaps[j],
           FreshScheduled'
    PROVE  LostInv'
BY DEF LostInv, FieldIsNewest, FieldFits, EldersOverlap, Unmade, LostOnlyIfOverlapped

LEMMA LostSchedule ==
    ASSUME TypeOK, LostInv, NEW t \in Tasks, NEW d \in Nat, Schedule(t, d), Fresh(t),
           mpc' \in {"idle", "toQuery"}
    PROVE  LostInv'
<1>1. FreshScheduled'
  BY DEF FreshScheduled
<1>2. phase' \in [Timers -> Phases]
  BY ScheduleType
<1>3. /\ \A j \in Timers : phase'[j] = phase[j]
                           \/ (j = field[t] /\ phase[j] = "new" /\ phase'[j] = "scheduled")
      /\ UNCHANGED <<made, task, overlaps, field>>
  BY DEF Schedule, Fresh, TypeOK
<1>4. /\ \A j \in Timers : phase'[j] = "none" <=> phase[j] = "none"
      /\ \A j \in Timers : phase'[j] \in Unfinished => phase[j] \in Unfinished
      /\ \A j \in Timers : phase'[j] = "cancelled" => phase[j] = "cancelled" \/ overlaps[j]
  BY <1>3 DEF Unfinished
<1>. QED  BY <1>1, <1>2, <1>3, <1>4, LostPhase

LEMMA LostStep ==
    TypeOK /\ LostInv /\ [Next]_vars => LostInv'
<1>. SUFFICES ASSUME TypeOK, LostInv, [Next]_vars PROVE LostInv'
  OBVIOUS
<1>t. "screenTask" \in Tasks /\ "queryTask" \in Tasks
  BY DEF Tasks
<1>d. OffDelay \in Nat /\ mdelay \in Nat
  BY DelayAssumption DEF TypeOK
<1>1. CASE Button2
  BY <1>1, <1>t, LostNew DEF Button2
<1>2. CASE NewQueryTimer
  BY <1>2, <1>t, LostNew DEF NewQueryTimer
<1>3. CASE ScheduleOff
  BY <1>3, <1>t, <1>d, LostSchedule DEF ScheduleOff, LostInv, FreshScheduled
<1>4. CASE ScheduleQuery
  BY <1>4, <1>t, <1>d, LostSchedule DEF ScheduleQuery, LostInv, FreshScheduled
<1>5. ASSUME NEW i \in Timers, Run(i) PROVE LostInv'
  <2>1. /\ \A j \in Timers : phase'[j] = IF j = i THEN "ran" ELSE phase[j]
        /\ phase[i] = "scheduled" /\ phase' \in [Timers -> Phases]
        /\ UNCHANGED <<made, task, overlaps, field, mpc>>
    BY <1>5 DEF Run, Due, TypeOK, Phases, Unfinished
  <2>2. FreshScheduled'
    BY <2>1 DEF LostInv, FreshScheduled, Fresh
  <2>. QED  BY <2>1, <2>2, LostPhase DEF Unfinished
<1>6. ASSUME NEW i \in Timers, CancelField(i) PROVE LostInv'
  <2>. DEFINE f == field[task[i]]
  <2>1. /\ \A j \in Timers : phase'[j] = IF j = i THEN "done"
                             ELSE IF j = f /\ phase[j] \in {"new", "scheduled"}
                                  THEN "cancelled" ELSE phase[j]
        /\ phase[i] = "ran" /\ phase' \in [Timers -> Phases]
        /\ UNCHANGED <<made, task, overlaps, field, mpc>>
    BY <1>6 DEF CancelField, TypeOK, Phases, Unfinished
  <2>2. f \in Timers /\ f # i => overlaps[f]
    <3>1. i <= f
      BY <2>1 DEF LostInv, FieldIsNewest
    <3>2. f \in Timers => task[f] = task[i] /\ phase[f] # "none"
      BY DEF LostInv, FieldFits, TypeOK
    <3>3. f \in Timers /\ f # i => i < f
      BY <3>1 DEF Timers
    <3>. HIDE DEF f
    <3>. QED  BY <2>1, <3>2, <3>3 DEF LostInv, EldersOverlap, Unfinished
  <2>3. FreshScheduled'
    BY <2>1 DEF LostInv, FreshScheduled, Fresh
  <2>. HIDE DEF f
  <2>. QED  BY <2>1, <2>2, <2>3, LostPhase DEF Unfinished
<1>7. CASE Button1
  BY <1>7 DEF Button1, timerVars, LostInv, FieldIsNewest, FieldFits, EldersOverlap,
     Unmade, FreshScheduled, Fresh, LostOnlyIfOverlapped
<1>8. CASE Button3 \/ Button4 \/ Tick \/ WakeUp \/ UNCHANGED vars
  <2>1. UNCHANGED <<made, task, phase, overlaps, field, mpc>>
    BY <1>8 DEF Button3, Button4, Tick, WakeUp, vars, timerVars
  <2>. QED
    BY <2>1 DEF LostInv, FieldIsNewest, FieldFits, EldersOverlap, Unmade,
       FreshScheduled, Fresh, LostOnlyIfOverlapped
<1>. QED
  BY <1>1, <1>2, <1>3, <1>4, <1>5, <1>6, <1>7, <1>8 DEF Next, Click, TimerThread

LEMMA LostInit == Init => LostInv
<1>. SUFFICES ASSUME Init PROVE LostInv
  OBVIOUS
<1>1. \A t \in Tasks, i \in Timers : field[t] # i
  BY DEF Init, Timers
<1>. QED
  BY <1>1 DEF Init, LostInv, FieldIsNewest, FieldFits, EldersOverlap, Unmade,
     FreshScheduled, LostOnlyIfOverlapped, Unfinished

(* Whatever the overlap of the Timer threads with the clicks, a task that   *)
(* is lost was asked for while an older one of its kind was unfinished.     *)
THEOREM TasksLostOnlyIfOverlapped == Spec => []LostOnlyIfOverlapped
<1>1. LostInv => LostOnlyIfOverlapped
  BY DEF LostInv
<1>. QED  BY <1>1, TypeInit, TypeStep, LostInit, LostStep, PTL DEF Spec

(* A press of mButton2 is the Timer of its panel-off task and the one made  *)
(* after it, which its query gets.  While onClick is under way the query's  *)
(* Timer has yet to be made or scheduled; once it is scheduled it has more  *)
(* time left than the panel-off task, as long as that one waits too.        *)
Pressed(i) == task[i] = "screenTask" /\ phase[i] # "none"

OnClickMakes ==
    /\ mpc = "screen" => made = field["screenTask"]
    /\ mpc = "query" => made = field["queryTask"]
    /\ mpc = "screen" => mdelay = OffDelay + 1

QueryLater(i) ==
    /\ phase[i] = "new" => mpc = "screen" /\ i = made
    /\ phase[i + 1] = "none" =>
           i = made /\ mpc \in {"screen", "toQuery"} /\ mdelay = OffDelay + 1
    /\ phase[i + 1] = "new" =>
           i + 1 = made /\ mpc = "query" /\ mdelay = OffDelay + 1
    /\ phase[i] = "scheduled" => left[i] <= OffDelay
    /\ phase[i] = "scheduled" /\ phase[i + 1] = "scheduled" => left[i] < left[i + 1]
    /\ phase[i + 1] \in {"ran", "done"} => phase[i] \in {"ran", "done", "cancelled"}

QueryInv ==
    /\ OnClickMakes
    /\ \A i \in Timers : i <= made => phase[i] # "none"
    /\ \A i \in 1..(MaxTimers - 1) : Pressed(i) => QueryLater(i)

LEMMA TwoTimers ==
    \A i \in 1..(MaxTimers - 1) : i \in Timers /\ i + 1 \in Timers /\ i \in Nat /\ i # i + 1
BY TimersAssumption DEF Timers

(* Steps of the Timer threads, which move Timers forward only: a Timer that *)
(* waits has waited before, and one that has run had no time left.          *)
LEMMA QueryPhase ==
    ASSUME TypeOK, LostInv, QueryInv, UNCHANGED <<made, task, field, mpc, mdelay, left>>,
           \A j \in Timers : \/ phase'[j] = phase[j]
                             \/ phase[j] = "scheduled" /\ left[j] = 0 /\ phase'[j] = "ran"
                             \/ phase[j] = "ran" /\ phase'[j] = "done"
                             \/ phase[j] \in {"new", "scheduled"} /\ phase'[j] = "cancelled"
    PROVE  QueryInv'
<1>1. OnClickMakes' /\ \A i \in Timers : i <= made' => phase'[i] # "none"
  BY DEF QueryInv, OnClickMakes
<1>2. ASSUME NEW i \in 1..(MaxTimers - 1), Pressed(i)' PROVE QueryLater(i)'
  <2>1. i \in Timers /\ i + 1 \in Timers /\ i \in Nat /\ i # i + 1
    BY <1>2, TwoTimers
  <2>2. task[i] = "screenTask" /\ phase[i] # "none"
    BY <1>2, <2>1 DEF Pressed
  <2>3. QueryLater(i)
    BY <2>2 DEF QueryInv, Pressed
  <2>4. ASSUME phase'[i + 1] \in {"ran", "done"}
        PROVE  phase'[i] \in {"ran", "done", "cancelled"}
    <3>1. CASE phase[i + 1] \in {"ran", "done"}
      BY <3>1, <2>1, <2>3 DEF QueryLater
    <3>2. CASE phase[i + 1] = "scheduled" /\ left[i + 1] = 0
      <4>1. phase[i] # "new"
        BY <3>2, <2>1, <2>3 DEF QueryLater, LostInv, Unmade, TypeOK
      <4>2. phase[i] # "scheduled"
        BY <3>2, <2>1, <2>3 DEF QueryLater, TypeOK
      <4>3. phase[i] \in {"ran", "done", "cancelled"}
        BY <4>1, <4>2, <2>1, <2>2 DEF TypeOK, Phases, Unfinished
      <4>. QED  BY <4>3, <2>1
    <3>. QED  BY <3>1, <3>2, <2>4, <2>1
  <2>. QED  BY <2>1, <2>3, <2>4 DEF QueryLater
<1>. QED  BY <1>1, <1>2 DEF QueryInv

(* new Timer(), by mButton2 or for a query: every earlier press has both    *)
(* its Timers by then, or is the press whose query this Timer is for.       *)
LEMMA QueryNew ==
    ASSUME TypeOK, LostInv, QueryInv, NEW t \in Tasks, NewTimer(t), UNCHANGED left,
           \/ t = "screenTask" /\ mpc = "idle" /\ mpc' = "screen" /\ mdelay' = OffDelay + 1
           \/ t = "queryTask" /\ mpc = "toQuery" /\ mpc' = "query" /\ mdelay' = mdelay
    PROVE  QueryInv'
<1>. DEFINE n == made + 1
<1>1. /\ n \in Timers /\ made' = n /\ n \in Nat /\ made \in Nat
      /\ \A j \in Timers : j \in Nat
  BY TimersAssumption DEF NewTimer, TypeOK, Timers
<1>2. /\ \A j \in Timers : task'[j] = IF j = n THEN t ELSE task[j]
      /\ \A j \in Timers : phase'[j] = IF j = n THEN "new" ELSE phase[j]
      /\ field'[t] = n
  BY <1>1 DEF NewTimer, TypeOK
<1>3. phase[n] = "none" /\ \A j \in Timers : j > n => phase[j] = "none"
  BY <1>1 DEF LostInv, Unmade
<1>4. OnClickMakes'
  BY <1>1, <1>2 DEF OnClickMakes
<1>5. \A i \in Timers : i <= made' => phase'[i] # "none"
  BY <1>1, <1>2 DEF QueryInv
<1>6. ASSUME NEW i \in 1..(MaxTimers - 1), Pressed(i)' PROVE QueryLater(i)'
  <2>1. i \in Timers /\ i + 1 \in Timers /\ i \in Nat /\ i # i + 1
    BY TwoTimers
  <2>2. CASE i = n
    <3>1. t = "screenTask" /\ phase'[i] = "new" /\ phase'[i + 1] = "none"
      BY <1>1, <1>2, <1>3, <1>6, <2>1, <2>2 DEF Pressed
    <3>. QED  BY <3>1, <1>1, <2>2 DEF QueryLater
  <2>3. CASE i # n
    <3>1. phase'[i] = phase[i] /\ Pressed(i)
      BY <1>2, <1>6, <2>1, <2>3 DEF Pressed
    <3>2. QueryLater(i) /\ i <= made
      BY <3>1, <1>1, <1>3, <2>1, <2>3 DEF QueryInv, Pressed
    <3>3. phase[i] # "new"
      BY <3>2 DEF QueryLater
    <3>4. CASE i + 1 = n
      <4>1. mpc = "toQuery" /\ mdelay = OffDelay + 1
        BY <3>2, <3>4, <1>3 DEF QueryLater
      <4>2. phase'[i + 1] = "new"
        BY <1>2, <2>1, <3>4
      <4>. QED  BY <4>1, <4>2, <3>1, <3>2, <3>3, <3>4, <1>1 DEF QueryLater
    <3>5. CASE i + 1 # n
      <4>1. phase'[i + 1] = phase[i + 1] /\ i # made
        BY <1>1, <1>2, <2>1, <3>5
      <4>2. phase[i + 1] # "none" /\ phase[i + 1] # "new"
        BY <4>1, <3>2, <1>1 DEF QueryLater
      <4>. QED  BY <4>1, <4>2, <3>1, <3>2, <3>3 DEF QueryLater
    <3>. QED  BY <3>4, <3>5
  <2>. QED  BY <2>2, <2>3
<1>. QED  BY <1>4, <1>5, <1>6 DEF QueryInv

(* schedule on the panel-off Timer: its query's Timer is not made yet.      *)
LEMMA QueryOffScheduled ==
    ASSUME TypeOK, LostInv, QueryInv, ScheduleOff
    PROVE  QueryInv'
<1>1. /\ made \in Timers /\ made = field["screenTask"] /\ mdelay = OffDelay + 1
      /\ mpc = "screen" /\ mpc' = "toQuery" /\ UNCHANGED <<made, task, field, mdelay>>
      /\ phase[made] \in {"new", "cancelled"}
  BY DEF ScheduleOff, Schedule, LostInv, FreshScheduled, Fresh, QueryInv, OnClickMakes
<1>2. /\ \A j \in Timers : j # made => phase'[j] = phase[j] /\ left'[j] = left[j]
      /\ \/ phase'[made] = "cancelled" /\ UNCHANGED <<phase, left>>
         \/ phase[made] = "new" /\ phase'[made] = "scheduled" /\ left'[made] = OffDelay
  BY <1>1 DEF ScheduleOff, Schedule, TypeOK
<1>3. OnClickMakes' /\ \A i \in Timers : i <= made' => phase'[i] # "none"
  BY <1>1, <1>2 DEF QueryInv, OnClickMakes
<1>4. ASSUME NEW i \in 1..(MaxTimers - 1), Pressed(i)' PROVE QueryLater(i)'
  <2>1. i \in Timers /\ i + 1 \in Timers /\ i \in Nat /\ i # i + 1
    BY TwoTimers
  <2>2. Pressed(i) /\ QueryLater(i)
    BY <1>1, <1>2, <1>4, <2>1 DEF Pressed, QueryInv
  <2>3. CASE i = made
    <3>1. phase[i + 1] = "none" /\ phase'[i + 1] = "none"
      BY <1>2, <2>1, <2>3 DEF LostInv, Unmade
    <3>. QED  BY <1>1, <1>2, <2>3, <3>1, DelayAssumption DEF QueryLater
  <2>4. CASE i # made
    <3>1. phase'[i] = phase[i] /\ left'[i] = left[i] /\ phase[i] # "new"
      BY <1>2, <2>1, <2>2, <2>4 DEF QueryLater
    <3>2. phase'[i + 1] = phase[i + 1] /\ left'[i + 1] = left[i + 1]
      BY <1>1, <1>2, <2>1, <2>2 DEF QueryLater
    <3>. QED  BY <1>1, <2>2, <2>4, <3>1, <3>2 DEF QueryLater
  <2>. QED  BY <2>3, <2>4
<1>. QED  BY <1>3, <1>4 DEF QueryInv

(* schedule on the query's Timer: it gets more time than is left before the *)
(* panel-off task of its press.                                             *)
LEMMA QueryScheduled ==
    ASSUME TypeOK, LostInv, QueryInv, ScheduleQuery
    PROVE  QueryInv'
<1>1. /\ made \in Timers /\ made = field["queryTask"] /\ task[made] = "queryTask"
      /\ mpc = "query" /\ mpc' = "idle" /\ UNCHANGED <<made, task, field, mdelay>>
      /\ phase[made] \in {"new", "cancelled"}
  BY DEF ScheduleQuery, Schedule, LostInv, FreshScheduled, Fresh, FieldFits, Tasks,
     QueryInv, OnClickMakes
<1>2. /\ \A j \in Timers : j # made => phase'[j] = phase[j] /\ left'[j] = left[j]
      /\ \/ phase'[made] = "cancelled" /\ UNCHANGED <<phase, left>>
         \/ phase[made] = "new" /\ phase'[made] = "scheduled" /\ left'[made] = mdelay
  BY <1>1 DEF ScheduleQuery, Schedule, TypeOK
<1>3. OnClickMakes' /\ \A i \in Timers : i <= made' => phase'[i] # "none"
  BY <1>1, <1>2 DEF QueryInv, OnClickMakes
<1>4. ASSUME NEW i \in 1..(MaxTimers - 1), Pressed(i)' PROVE QueryLater(i)'
  <2>1. i \in Timers /\ i + 1 \in Timers /\ i \in Nat /\ i # i + 1
    BY TwoTimers
  <2>2. i # made
    BY <1>1, <1>4 DEF Pressed
  <2>3. phase'[i] = phase[i] /\ left'[i] = left[i] /\ Pressed(i) /\ QueryLater(i)
    BY <1>1, <1>2, <1>4, <2>1, <2>2 DEF Pressed, QueryInv
  <2>4. phase[i] # "new" /\ phase[i + 1] # "none"
    BY <1>1, <2>3 DEF QueryLater
  <2>5. CASE i + 1 = made /\ phase'[made] = "scheduled"
    <3>1. mdelay = OffDelay + 1 /\ left'[i + 1] = mdelay
      BY <1>2, <2>3, <2>5, <1>1 DEF QueryLater
    <3>2. phase'[i] = "scheduled" => left'[i] <= OffDelay /\ left[i] \in Nat
      BY <2>1, <2>3 DEF QueryLater, TypeOK
    <3>3. phase'[i] = "scheduled" => left'[i] < left'[i + 1]
      BY <3>1, <3>2, <2>3, DelayAssumption
    <3>. QED  BY <2>3, <2>4, <2>5, <3>2, <3>3 DEF QueryLater
  <2>6. CASE i + 1 = made /\ phase'[made] = "cancelled"
    BY <2>3, <2>4, <2>6 DEF QueryLater
  <2>7. CASE i + 1 # made
    <3>1. phase'[i + 1] = phase[i + 1] /\ left'[i + 1] = left[i + 1]
      BY <1>2, <2>1, <2>7
    <3>. QED  BY <2>3, <2>4, <2>7, <3>1 DEF QueryLater
  <2>. QED  BY <1>2, <2>5, <2>6, <2>7
<1>. QED  BY <1>3, <1>4 DEF QueryInv

LEMMA QueryStep ==
    TypeOK /\ LostInv /\ QueryInv /\ [Next]_vars => QueryInv'
<1>. SUFFICES ASSUME TypeOK, LostInv, QueryInv, [Next]_vars PROVE QueryInv'
  OBVIOUS
<1>t. "screenTask" \in Tasks /\ "queryTask" \in Tasks
  BY DEF Tasks
<1>1. CASE Button1
  <2>1. UNCHANGED timerVars /\ mpc = "idle"
    BY <1>1 DEF Button1, Idle
  <2>2. ASSUME NEW i \in 1..(MaxTimers - 1), Pressed(i)' PROVE QueryLater(i)'
    <3>1. QueryLater(i)
      BY <2>1, <2>2 DEF QueryInv, Pressed, timerVars
    <3>. QED  BY <2>1, <3>1 DEF QueryLater, timerVars
  <2>3. OnClickMakes' /\ \A i \in Timers : i <= made' => phase'[i] # "none"
    BY <1>1, <2>1 DEF Button1, QueryInv, OnClickMakes, timerVars
  <2>. QED  BY <2>2, <2>3 DEF QueryInv
<1>2. CASE Button2
  BY <1>2, <1>t, QueryNew DEF Button2, Idle
<1>3. CASE NewQueryTimer
  BY <1>3, <1>t, QueryNew DEF NewQueryTimer
<1>4. CASE ScheduleOff
  BY <1>4, QueryOffScheduled
<1>5. CASE ScheduleQuery
  BY <1>5, QueryScheduled
<1>6. ASSUME NEW i \in Timers, Run(i) PROVE QueryInv'
  <2>1. /\ \A j \in Timers : phase'[j] = IF j = i THEN "ran" ELSE phase[j]
        /\ phase[i] = "scheduled" /\ left[i] = 0
        /\ UNCHANGED <<made, task, field, mpc, mdelay, left>>
    BY <1>6 DEF Run, Due, TypeOK
  <2>. QED  BY <2>1, QueryPhase
<1>7. ASSUME NEW i \in Timers, CancelField(i) PROVE QueryInv'
  <2>1. /\ \A j \in Timers : phase'[j] = IF j = i THEN "done"
                             ELSE IF j = field[task[i]] /\ phase[j] \in {"new", "scheduled"}
                                  THEN "cancelled" ELSE phase[j]
        /\ phase[i] = "ran" /\ UNCHANGED <<made, task, field, mpc, mdelay, left>>
    BY <1>7 DEF CancelField, TypeOK
  <2>. QED  BY <2>1, QueryPhase
<1>8. CASE Tick
  <2>1. /\ UNCHANGED <<made, task, phase, field, mpc, mdelay>>
        /\ \A i \in Timers : left'[i] = IF phase[i] = "scheduled" THEN left[i] - 1 ELSE left[i]
    BY <1>8 DEF Tick
  <2>2. ASSUME NEW i \in 1..(MaxTimers - 1), Pressed(i)' PROVE QueryLater(i)'
    <3>1. i \in Timers /\ i + 1 \in Timers
      BY TwoTimers
    <3>2. QueryLater(i)
      BY <2>1, <2>2 DEF QueryInv, Pressed
    <3>3. left[i] \in Nat /\ left[i + 1] \in Nat /\ OffDelay \in Nat
      BY <3>1, DelayAssumption DEF TypeOK
    <3>4. /\ phase[i] = "scheduled" => left'[i] <= OffDelay
          /\ phase[i] = "scheduled" /\ phase[i + 1] = "scheduled"
                 => left'[i] < left'[i + 1]
      BY <2>1, <3>1, <3>2, <3>3 DEF QueryLater
    <3>. QED  BY <2>1, <3>2, <3>4 DEF QueryLater
  <2>3. OnClickMakes' /\ \A i \in Timers : i <= made' => phase'[i] # "none"
    BY <2>1 DEF QueryInv, OnClickMakes
  <2>. QED  BY <2>2, <2>3 DEF QueryInv
<1>9. CASE Button3 \/ Button4 \/ WakeUp \/ UNCHANGED vars
  <2>1. UNCHANGED <<made, task, phase, left, field, mpc, mdelay>>
    BY <1>9 DEF Button3, Button4, WakeUp, vars, timerVars
  <2>. QED  BY <2>1 DEF QueryInv, OnClickMakes, Pressed, QueryLater
<1>. QED
  BY <1>1, <1>2, <1>3, <1>4, <1>5, <1>6, <1>7, <1>8, <1>9 DEF Next, Click, TimerThread

LEMMA QueryInit == Init => QueryInv
BY TimersAssumption DEF Init, QueryInv, OnClickMakes, Pressed, Timers

(* The query of a press of mButton2 never runs before the panel-off task of *)
(* that press, unless that task has been cancelled: on two Timer threads,   *)
(* for any OffDelay, and however many presses overlap.                      *)
THEOREM QueryComesAfterOff == Spec => []QueryFollowsOff
<1>1. TypeOK /\ LostInv /\ QueryInv => QueryFollowsOff
  <2>. SUFFICES ASSUME TypeOK, LostInv, QueryInv, NEW i \in 1..(MaxTimers - 1),
                       task[i] = "screenTask", phase[i + 1] \in {"ran", "done"}
                PROVE  phase[i] \in {"ran", "done", "cancelled"}
    BY DEF QueryFollowsOff
  <2>1. i \in Timers /\ i + 1 \in Timers /\ i \in Nat
    BY TwoTimers
  <2>2. i + 1 <= made /\ made \in Nat
    BY <2>1 DEF LostInv, Unmade, TypeOK
  <2>3. Pressed(i)
    BY <2>1, <2>2 DEF QueryInv, Pressed
  <2>. QED  BY <2>3 DEF QueryInv, QueryLater
<1>. QED  BY <1>1, TypeInit, TypeStep, LostInit, LostStep, QueryInit, QueryStep, PTL DEF Spec

=============================================================================
