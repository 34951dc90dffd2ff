----------------------------- MODULE BoardDemos -----------------------------
(***************************************************************************)
(* The demos of the board's infrared and I/O pins, and the two clients of  *)
(* its RS485 service, which run beside each other; started one at a time:  *)
(* the first whose process is there is the one that runs.                  *)
(***************************************************************************)
EXTENDS IrDemo, IrDemoLearn, GpioDemo, BinderClients

vars == <<irVars, lnVars, gpioVars, binderVars>>

Init == IrInit /\ LnInit /\ GpioInit /\ BinderInit

\* A demo that has not been started.  What only it looks at, the pins and the
\* Ir that IrDemoMain may have made, has one value as long as others run.
Closed(process) == process = "closed"
NoIr == Closed(irProcess)
NoLearn == Closed(lnProcess) /\ lnIr
NoClients == Closed(hello) /\ client = "getService" /\ lives = 0
NoGpio ==
    /\ Closed(gpioProcess)
    /\ gpi = [i \in Pins |-> "LOW"] /\ gpo = [o \in Gpos |-> "LOW"]

Next ==
    \/ /\ NoLearn /\ NoGpio /\ NoClients
       /\ IrNext
       /\ UNCHANGED <<lnVars, gpioVars, binderVars>>
    \/ /\ NoIr /\ NoGpio /\ NoClients
       /\ LnNext
       /\ UNCHANGED <<irVars, gpioVars, binderVars>>
    \/ /\ NoIr /\ NoLearn /\ NoClients
       /\ GpioNext
       /\ UNCHANGED <<irVars, lnVars, binderVars>>
    \/ /\ NoIr /\ NoLearn /\ NoGpio
       /\ BinderNext
       /\ UNCHANGED <<irVars, lnVars, gpioVars>>

Spec == Init /\ [][Next]_vars /\ GpioFairness /\ BinderFairness
=============================================================================
