------------------------------ MODULE GpioDemo ------------------------------
(***************************************************************************)
(* GpioDemo.java: a thread reads the four input pins every 100 ms into one *)
(* array and sends the array itself, not a copy, to a Handler, which shows *)
(* it pin by pin while the thread may be reading the next poll into it; a  *)
(* pair of buttons per output pin shows and sets its level.  Any call of   *)
(* the library may throw an IOException.                                   *)
(***************************************************************************)
EXTENDS Naturals

CONSTANTS Gpis,         \* input pins, numbered from 1 in the order of polling
          Gpos,         \* output pins
          MaxPending    \* bound: messages that wait for the Handler

ASSUME GpioAssumption == Gpis \in Nat \ {0} /\ MaxPending \in Nat \ {0}

VARIABLES
    gpioProcess,    \* whether the process is there
    gpi,            \* the levels at the input pins
    level,          \* the array the thread and the Handler share
    polled,         \* the thread: pins of this poll that are read
    pending,        \* messages in the queue of the main thread
    showing,        \* the Handler: pins it has shown, Gpis when it is idle
    gpiText,        \* the text of each input pin
    gpo,            \* the levels of the output pins
    colour,         \* the level of each output pin whose button is white
    thrown          \* history: is the number of reads that have failed odd?

gpioVars == <<gpioProcess, gpi, level, polled, pending, showing, gpiText, gpo,
              colour, thrown>>
outputs == <<gpo, colour>>

Pins == 1..Gpis
Level == {"HIGH", "LOW"}
NotShowing == Gpis

GpioInit ==
    /\ gpioProcess = "closed"
    /\ gpi \in [Pins -> Level] /\ gpo \in [Gpos -> Level]
    /\ level = [i \in Pins |-> "null"]
    /\ polled = 0 /\ pending = 0 /\ showing = NotShowing
    /\ gpiText = [i \in Pins |-> ""]
    /\ colour = [o \in Gpos |-> "none"]
    /\ thrown = FALSE

\* onCreate: if one level cannot be read, no button is made white.
GpioOnCreate ==
    /\ gpioProcess = "closed"
    /\ gpioProcess' = "running"
    /\ colour' \in {gpo, colour}
    /\ UNCHANGED <<gpi, level, polled, pending, showing, gpiText, gpo, thrown>>

\* onClick: the colours first, then setGpo, which may throw.
PressGpo(o, l) ==
    /\ gpioProcess = "running" /\ showing = NotShowing
    /\ colour' = [colour EXCEPT ![o] = l]
    /\ gpo' \in {[gpo EXCEPT ![o] = l], gpo}
    /\ UNCHANGED <<gpioProcess, gpi, level, polled, pending, showing, gpiText, thrown>>

InputChanges ==
    /\ gpi' \in [Pins -> Level]
    /\ UNCHANGED <<gpioProcess, level, polled, pending, showing, gpiText,
                   outputs, thrown>>

(***************************************************************************)
(* The thread.  An exception ends the poll, the array is sent all the same *)
(* and the next poll begins.                                               *)
(***************************************************************************)
GetGpi ==
    /\ gpioProcess = "running" /\ polled < Gpis
    /\ polled' = polled + 1
    /\ level' = [level EXCEPT ![polled + 1] = gpi[polled + 1]]
    /\ UNCHANGED <<gpioProcess, gpi, pending, showing, gpiText, outputs, thrown>>

\* A try around the loop: the exception ends the thread.
MutGetGpiThrows ==
    /\ gpioProcess = "running" /\ polled < Gpis
    /\ polled' = Gpis + 1
    /\ thrown' = ~thrown
    /\ UNCHANGED <<gpioProcess, gpi, level, pending, showing, gpiText, outputs>>

GetGpiThrows ==
    /\ gpioProcess = "running" /\ polled < Gpis
    /\ polled' = Gpis
    /\ thrown' = ~thrown
    /\ UNCHANGED <<gpioProcess, gpi, level, pending, showing, gpiText, outputs>>

SendLevels ==
    /\ gpioProcess = "running" /\ polled = Gpis /\ pending < MaxPending
    /\ pending' = pending + 1
    /\ polled' = 0
    /\ UNCHANGED <<gpioProcess, gpi, level, showing, gpiText, outputs, thrown>>

(***************************************************************************)
(* The Handler, one text after another: a level that was never read is     *)
(* null, and its toString ends the process.                                *)
(***************************************************************************)
TakeLevels ==
    /\ gpioProcess = "running" /\ showing = NotShowing /\ pending > 0
    /\ pending' = pending - 1
    /\ showing' = 0
    /\ UNCHANGED <<gpioProcess, gpi, level, polled, gpiText, outputs, thrown>>

ShowLevel ==
    /\ gpioProcess = "running" /\ showing # NotShowing
    /\ IF level[showing + 1] = "null"
       THEN gpioProcess' = "dead" /\ UNCHANGED <<showing, gpiText>>
       ELSE /\ gpiText' = [gpiText EXCEPT ![showing + 1] = level[showing + 1]]
            /\ showing' = showing + 1
            /\ UNCHANGED gpioProcess
    /\ UNCHANGED <<gpi, level, polled, pending, outputs, thrown>>

PollingThread == GetGpi \/ GetGpiThrows \/ SendLevels
Handler == TakeLevels \/ ShowLevel

GpioNext ==
    \/ GpioOnCreate
    \/ \E o \in Gpos, l \in Level : PressGpo(o, l)
    \/ InputChanges
    \/ PollingThread
    \/ Handler

\* The scheduler runs the thread, and the looper serves its queue.
GpioFairness == WF_gpioVars(PollingThread) /\ WF_gpioVars(Handler)

GpioSpec == GpioInit /\ [][GpioNext]_gpioVars /\ GpioFairness

----------------------------------------------------------------------------
\* Once the inputs stay as they are and the reads stop failing, the screen
\* shows the inputs for good, whatever failed before and whichever polls the
\* Handler saw mixed, unless an early failure left a null in the array and
\* killed the process (the loop of lines 134 to 157 and mHandler).
DisplayCatchesUp ==
    <>[][UNCHANGED <<gpi, thrown>>]_gpioVars
        => <>[](gpioProcess # "running" \/ gpiText = gpi)
=============================================================================
