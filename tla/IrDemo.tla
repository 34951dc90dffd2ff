------------------------------- MODULE IrDemo -------------------------------
(***************************************************************************)
(* IrDemo.java: the button that learns a key of a remote control, and the  *)
(* button that sends it.  A learning runs in a thread of its own, leaves   *)
(* its result to a Handler and only then gives the flag "learning" back;   *)
(* nothing synchronises the flag.  The main thread serves the taps and the *)
(* results in the order they were queued, and may test the flag at any     *)
(* moment after it took the tap.  A rotation creates the activity again:   *)
(* the threads of the old one go on, with its flag and its text.           *)
(***************************************************************************)
EXTENDS Naturals, Sequences

CONSTANTS IrTaps,       \* bound: taps on the two buttons
          IrScreens     \* bound: instances of the activity

ASSUME IrAssumption == IrTaps \in Nat /\ IrScreens \in Nat

VARIABLES
    irProcess,  \* whether the process is there
    irScreen,   \* the instance on the screen, 0 before the first
    learning,   \* per instance, its flag
    text,       \* per instance, its text
    irLearn,    \* the learnings, in the order their threads were started
    irQueue,    \* the main thread's messages
    irClick,    \* the main thread took a tap and has not tested the flag
    irTapped    \* taps so far

irVars == <<irProcess, irScreen, learning, text, irLearn, irQueue, irClick,
            irTapped>>

Instances == 1..IrScreens
Idle == [shows |-> "nothing", of |-> 0]
Learning == [shows |-> "learning", of |-> 0]
ResultOf(k) == [shows |-> "result", of |-> k]
Tapped(button) == [what |-> button, of |-> irScreen]
Result(k) == [what |-> "result", of |-> k]
IsResult(message) == message.what = "result"

IrInit ==
    /\ irProcess = "closed" /\ irScreen = 0
    /\ learning = [s \in Instances |-> FALSE]
    /\ text = [s \in Instances |-> Idle]
    /\ irLearn = << >> /\ irQueue = << >>
    /\ irClick = FALSE /\ irTapped = 0

\* onCreate, the first or after a rotation.  Without an Ir the list of brands
\* is asked of null.
IrOnCreate ==
    /\ irProcess # "dead" /\ ~irClick /\ irScreen < IrScreens
    /\ \/ irProcess' = "running" /\ irScreen' = irScreen + 1
       \/ irProcess' = "dead" /\ UNCHANGED irScreen
    /\ UNCHANGED <<learning, text, irLearn, irQueue, irClick, irTapped>>

IrTap(button) ==
    /\ irProcess = "running" /\ irTapped < IrTaps
    /\ irTapped' = irTapped + 1
    /\ irQueue' = Append(irQueue, Tapped(button))
    /\ UNCHANGED <<irProcess, irScreen, learning, text, irLearn, irClick>>

IrTakes(what) ==
    /\ irProcess = "running" /\ ~irClick
    /\ irQueue # << >> /\ Head(irQueue).what = what
    /\ irQueue' = Tail(irQueue)

\* A tap that waited for a button of an earlier instance is not delivered,
\* and button2 sends a key: whatever txLearn answers or throws, nothing is
\* shown.
IrTakesTap ==
    \E button \in {"button1", "button2"} :
        /\ IrTakes(button)
        /\ irClick' = (button = "button1" /\ Head(irQueue).of = irScreen)
        /\ UNCHANGED <<irProcess, irScreen, learning, text, irLearn, irTapped>>

IrShowsResult ==
    /\ IrTakes("result")
    /\ LET k == Head(irQueue).of
       IN text' = [text EXCEPT ![irLearn[k].screen] = ResultOf(k)]
    /\ UNCHANGED <<irProcess, irScreen, learning, irLearn, irClick, irTapped>>

IrClickIgnored ==
    /\ irClick /\ learning[irScreen]
    /\ irClick' = FALSE
    /\ UNCHANGED <<irProcess, irScreen, learning, text, irLearn, irQueue,
                   irTapped>>

IrStartLearning ==
    /\ irClick /\ ~learning[irScreen]
    /\ irClick' = FALSE
    /\ learning' = [learning EXCEPT ![irScreen] = TRUE]
    /\ text' = [text EXCEPT ![irScreen] = Learning]
    /\ irLearn' = Append(irLearn,
            [screen |-> irScreen, at |-> "learning", threw |-> FALSE])
    /\ UNCHANGED <<irProcess, irScreen, irQueue, irTapped>>

\* A thread that gives the flag back before it sends its message.
MutLearnShort(k) ==
    \/ /\ irProcess = "running" /\ irLearn[k].at = "learning"
       /\ learning' = [learning EXCEPT ![irLearn[k].screen] = FALSE]
       /\ UNCHANGED <<irProcess, irScreen, text, irLearn, irQueue, irClick,
                      irTapped>>
    \/ /\ irProcess = "running" /\ irLearn[k].at = "learning"
       /\ irLearn' = [irLearn EXCEPT ![k].at = "sent"]
       /\ irQueue' = Append(irQueue, Result(k))
       /\ UNCHANGED <<irProcess, irScreen, learning, text, irClick, irTapped>>

\* The thread of learning k: learnShort and the message, unless it throws,
\* then the flag.
LearnShort(k) ==
    /\ irProcess = "running" /\ irLearn[k].at = "learning"
    /\ \/ /\ irLearn' = [irLearn EXCEPT ![k].at = "sent"]
          /\ irQueue' = Append(irQueue, Result(k))
       \/ /\ irLearn' = [irLearn EXCEPT ![k].at = "sent", ![k].threw = TRUE]
          /\ UNCHANGED irQueue
    /\ UNCHANGED <<irProcess, irScreen, learning, text, irClick, irTapped>>

EndLearning(k) ==
    /\ irProcess = "running" /\ irLearn[k].at = "sent"
    /\ learning' = [learning EXCEPT ![irLearn[k].screen] = FALSE]
    /\ irLearn' = [irLearn EXCEPT ![k].at = "ended"]
    /\ UNCHANGED <<irProcess, irScreen, text, irQueue, irClick, irTapped>>

IrMain ==
    \/ IrOnCreate
    \/ IrTakesTap
    \/ IrShowsResult
    \/ IrClickIgnored
    \/ IrStartLearning

IrNext ==
    \/ \E button \in {"button1", "button2"} : IrTap(button)
    \/ IrMain
    \/ \E k \in DOMAIN irLearn : LearnShort(k) \/ EndLearning(k)

IrSpec == IrInit /\ [][IrNext]_irVars

----------------------------------------------------------------------------
LearningsOf(s) == {k \in DOMAIN irLearn : irLearn[k].screen = s}

Settled(s) ==
    /\ \A k \in LearningsOf(s) : irLearn[k].at = "ended"
    /\ \A i \in DOMAIN irQueue :
            ~(IsResult(irQueue[i]) /\ irQueue[i].of \in LearningsOf(s))

\* When nothing of an instance is under way any more, its text is the result
\* of its last learning: an older result may be shown over a newer
\* "learning...", but never stays there, because a thread sends its message
\* before it lets the next learning start (run, lines 192 to 204).
LastResultIsShown ==
    \A s \in Instances : \A k \in LearningsOf(s) :
        Settled(s) /\ (\A j \in LearningsOf(s) : j <= k) /\ ~irLearn[k].threw
            => text[s] = ResultOf(k)
=============================================================================
