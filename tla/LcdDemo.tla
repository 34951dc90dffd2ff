------------------------------ MODULE LcdDemo ------------------------------
(***************************************************************************)
(* The LCD demo: two buttons that turn the panel off and query its state   *)
(* through java.util.Timer objects kept in the fields timer1 and timer2,   *)
(* and two buttons that change the brightness.  Each Timer has a thread of *)
(* its own; a task, once it has run, cancels whatever Timer the FIELD      *)
(* holds by then.  Time is counted in units of the 50 ms query delay.      *)
(***************************************************************************)
EXTENDS Integers

CONSTANTS
    MaxTimers,   \* bound on the Timers of a behaviour
    OffDelay,    \* the 5000 ms of setScreenOffTime, in units of 50 ms
    MaxBright,   \* 255
    Step         \* the 10 of bvGet() - 10 and bvGet() + 10

ASSUME TimersAssumption == MaxTimers \in Nat
ASSUME DelayAssumption == OffDelay \in Nat /\ OffDelay >= 1
ASSUME BrightAssumption == MaxBright \in Nat /\ Step \in 1..MaxBright

Timers == 1..MaxTimers
Tasks == {"screenTask", "queryTask"}

VARIABLES
    made,      \* Timers made so far, in the order of "new Timer()"
    task,      \* which task a Timer is for, hence which field it was put in
    phase,     \* of each Timer
    left,      \* time before its task is due
    overlaps,  \* history: an older Timer of that field was unfinished when made
    field,     \* timer1 (screenTask) and timer2 (queryTask); 0 is null
    mpc,       \* the onClick under way on the main thread
    mdelay,    \* the delay its queryStateTimer call was given
    panel,     \* "on" or "off"
    bright,    \* Settings.System.SCREEN_BRIGHTNESS, -1 when it is not set
    crashed

timerVars == <<made, task, phase, left, overlaps, field>>
vars == <<timerVars, mpc, mdelay, panel, bright, crashed>>

Unfinished == {"new", "scheduled", "ran"}
Phases == Unfinished \cup {"none", "done", "cancelled"}

TypeOK ==
    /\ made \in 0..MaxTimers
    /\ task \in [Timers -> Tasks]
    /\ phase \in [Timers -> Phases]
    /\ left \in [Timers -> Nat]
    /\ overlaps \in [Timers -> BOOLEAN]
    /\ field \in [Tasks -> 0..MaxTimers]
    /\ mpc \in {"idle", "screen", "toQuery", "query"}
    /\ mdelay \in Nat
    /\ panel \in {"on", "off"}
    /\ bright \in -1..MaxBright
    /\ crashed \in BOOLEAN

Init ==
    /\ made = 0
    /\ task = [i \in Timers |-> "screenTask"]
    /\ phase = [i \in Timers |-> "none"]
    /\ left = [i \in Timers |-> 0]
    /\ overlaps = [i \in Timers |-> FALSE]
    /\ field = [t \in Tasks |-> 0]
    /\ mpc = "idle" /\ mdelay = 0
    /\ panel = "on"
    /\ bright \in {-1, MaxBright}
    /\ crashed = FALSE

-----------------------------------------------------------------------------
(* The main thread.                                                         *)

(* timerN = new Timer()                                                     *)
NewTimer(t) ==
    LET i == made + 1
    IN  /\ i \in Timers
        /\ made' = i
        /\ task' = [task EXCEPT ![i] = t]
        /\ phase' = [phase EXCEPT ![i] = "new"]
        /\ overlaps' = [overlaps EXCEPT ![i] =
                           \E j \in Timers : task[j] = t /\ phase[j] \in Unfinished]
        /\ field' = [field EXCEPT ![t] = i]

(* timerN.schedule(new xTask(), delay): IllegalStateException, which nobody *)
(* catches, if the Timer has been cancelled in between.                     *)
Schedule(t, delay) ==
    LET i == field[t]
    IN  /\ IF phase[i] = "cancelled"
           THEN crashed' = TRUE /\ UNCHANGED <<phase, left>>
           ELSE /\ phase' = [phase EXCEPT ![i] = "scheduled"]
                /\ left' = [left EXCEPT ![i] = delay]
                /\ UNCHANGED crashed
        /\ UNCHANGED <<made, task, overlaps, field>>

Idle == ~crashed /\ mpc = "idle"

(* mButton1: screenToggle(false); queryStateTimer(50).                      *)
Button1 ==
    /\ Idle
    /\ made < MaxTimers
    /\ panel' = "off"
    /\ mpc' = "toQuery" /\ mdelay' = 1
    /\ UNCHANGED <<timerVars, bright, crashed>>

(* Mutant: the delay of mButton1 is used for the query of mButton2.         *)
MutEarlyQuery ==
    /\ Idle
    /\ made + 1 < MaxTimers
    /\ NewTimer("screenTask")
    /\ mpc' = "screen" /\ mdelay' = 1
    /\ UNCHANGED <<left, panel, bright, crashed>>

(* mButton2: setScreenOffTime(5000); queryStateTimer(5050).                 *)
Button2 ==
    /\ Idle
    /\ made + 1 < MaxTimers
    /\ NewTimer("screenTask")
    /\ mpc' = "screen" /\ mdelay' = OffDelay + 1
    /\ UNCHANGED <<left, panel, bright, crashed>>

ScheduleOff ==
    /\ ~crashed /\ mpc = "screen"
    /\ Schedule("screenTask", OffDelay)
    /\ mpc' = "toQuery"
    /\ UNCHANGED <<mdelay, panel, bright>>

NewQueryTimer ==
    /\ ~crashed /\ mpc = "toQuery"
    /\ NewTimer("queryTask")
    /\ mpc' = "query"
    /\ UNCHANGED <<left, mdelay, panel, bright, crashed>>

ScheduleQuery ==
    /\ ~crashed /\ mpc = "query"
    /\ Schedule("queryTask", mdelay)
    /\ mpc' = "idle"
    /\ UNCHANGED <<mdelay, panel, bright>>

(* bvSet clamps; bvGet gives -1 when the setting does not exist.  (The      *)
(* mutant forgets the lower end.)                                           *)
MutClamp(b) == IF b > MaxBright THEN MaxBright ELSE b
Clamp(b) == IF b > MaxBright THEN MaxBright ELSE IF b < 0 THEN 0 ELSE b

Button3 ==
    /\ Idle
    /\ bright' = Clamp(bright - Step)
    /\ UNCHANGED <<timerVars, mpc, mdelay, panel, crashed>>

Button4 ==
    /\ Idle
    /\ bright' = Clamp(bright + Step)
    /\ UNCHANGED <<timerVars, mpc, mdelay, panel, crashed>>

-----------------------------------------------------------------------------
(* The Timer threads.                                                       *)

Due(i) == phase[i] = "scheduled" /\ left[i] = 0

(* screenTask.run: screenToggle(false).  queryTask.run: getprop, logged.    *)
Run(i) ==
    /\ ~crashed
    /\ Due(i)
    /\ phase' = [phase EXCEPT ![i] = "ran"]
    /\ panel' = IF task[i] = "screenTask" THEN "off" ELSE panel
    /\ UNCHANGED <<made, task, left, overlaps, field, mpc, mdelay, bright, crashed>>

(* Mutant: both tasks cancel timer2.                                        *)
MutCancelField(i) ==
    /\ ~crashed
    /\ phase[i] = "ran"
    /\ phase' = [j \in Timers |->
                    IF j = i THEN "done"
                    ELSE IF j = field["queryTask"] /\ phase[j] \in {"new", "scheduled"}
                         THEN "cancelled"
                         ELSE phase[j]]
    /\ UNCHANGED <<made, task, left, overlaps, field, mpc, mdelay, panel, bright,
                   crashed>>

(* The last statement of run: timer1.cancel() or timer2.cancel().           *)
CancelField(i) ==
    /\ ~crashed
    /\ phase[i] = "ran"
    /\ phase' = [j \in Timers |->
                    IF j = i THEN "done"
                    ELSE IF j = field[task[i]] /\ phase[j] \in {"new", "scheduled"}
                         THEN "cancelled"
                         ELSE phase[j]]
    /\ UNCHANGED <<made, task, left, overlaps, field, mpc, mdelay, panel, bright,
                   crashed>>

(* Time passes, but not past a task that is due and has not begun.          *)
Tick ==
    /\ ~crashed
    /\ \E i \in Timers : phase[i] = "scheduled"
    /\ ~\E i \in Timers : Due(i)
    /\ left' = [i \in Timers |-> IF phase[i] = "scheduled" THEN left[i] - 1 ELSE left[i]]
    /\ UNCHANGED <<made, task, phase, overlaps, field, mpc, mdelay, panel, bright,
                   crashed>>

(* The user wakes the panel.                                                *)
WakeUp ==
    /\ ~crashed
    /\ panel = "off" /\ panel' = "on"
    /\ UNCHANGED <<timerVars, mpc, mdelay, bright, crashed>>

Click == ScheduleOff \/ NewQueryTimer \/ ScheduleQuery
TimerThread(i) == Run(i) \/ CancelField(i)

Next ==
    \/ Button1 \/ Button2 \/ Button3 \/ Button4 \/ Click
    \/ \E i \in Timers : TimerThread(i)
    \/ Tick \/ WakeUp

Spec == Init /\ [][Next]_vars

(* A Timer thread runs its task when it is due, time passes, and the main   *)
(* thread finishes an onClick it has begun.                                 *)
FairSpec ==
    /\ Spec
    /\ WF_vars(Click) /\ WF_vars(Tick)
    /\ \A i \in Timers : WF_vars(TimerThread(i))

-----------------------------------------------------------------------------
(* Properties.                                                              *)

(* run() cancels the Timer its field holds, which may be a newer one: a     *)
(* task is lost only if its button was pressed while an older task of the   *)
(* same kind had not finished.  (This also bounds the IllegalStateException *)
(* of schedule, which needs a cancelled Timer.)                             *)
LostOnlyIfOverlapped ==
    \A i \in Timers : phase[i] = "cancelled" => overlaps[i]

(* A task asked for while no other of its kind was unfinished does run:     *)
(* no later press of any button can cancel it.                              *)
UnhurriedTaskRuns ==
    \A i \in Timers :
        (phase[i] = "scheduled" /\ ~overlaps[i]) ~> (crashed \/ phase[i] = "done")

(* The query of one press of mButton2 does not run before the panel-off     *)
(* task of that press: 5000 ms against 5050 ms on two Timer threads.        *)
QueryFollowsOff ==
    \A i \in 1..(MaxTimers - 1) :
        task[i] = "screenTask" /\ phase[i + 1] \in {"ran", "done"}
            => phase[i] \in {"ran", "done", "cancelled"}

(* LCD_Demo.java:44 says that mButton2 turns off the panel after 5000 ms:   *)
(* of every press, then, the panel-off task runs.  It does not hold.        *)
EveryPressTurnsOff ==
    \A i \in Timers :
        (phase[i] = "scheduled" /\ task[i] = "screenTask")
            ~> (crashed \/ phase[i] \in {"ran", "done"})

=============================================================================
