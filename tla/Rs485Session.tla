---------------------------- MODULE Rs485Session ----------------------------
(***************************************************************************)
(* What the master promises the user of one or more RS485 ports, without   *)
(* threads, timers or buffers: a request opens a wait; a wait is closed by *)
(* at most one verdict; and the verdict "CRC pass" reports an answer that  *)
(* a device has really sent to that port and that was not reported before. *)
(***************************************************************************)
EXTENDS Naturals

CONSTANTS Ports, Requests

VARIABLES
    waiting,   \* a request whose verdict is still to come
    answered,  \* answers sent to a port, per request
    passed     \* answers reported with "CRC pass"

vars == <<waiting, answered, passed>>

Init ==
    /\ waiting = [p \in Ports |-> FALSE]
    /\ answered = [p \in Ports |-> [r \in Requests |-> 0]]
    /\ passed = [p \in Ports |-> [r \in Requests |-> 0]]

Ask(p) ==
    /\ waiting' = [waiting EXCEPT ![p] = TRUE]
    /\ UNCHANGED <<answered, passed>>

Answer(p, r) ==
    /\ answered' = [answered EXCEPT ![p][r] = @ + 1]
    /\ UNCHANGED <<waiting, passed>>

Pass(p, r) ==
    /\ waiting[p]
    /\ passed[p][r] < answered[p][r]
    /\ waiting' = [waiting EXCEPT ![p] = FALSE]
    /\ passed' = [passed EXCEPT ![p][r] = @ + 1]
    /\ UNCHANGED answered

Fail(p) ==
    /\ waiting[p]
    /\ waiting' = [waiting EXCEPT ![p] = FALSE]
    /\ UNCHANGED <<answered, passed>>

Next ==
    \E p \in Ports :
        \/ Ask(p) \/ Fail(p)
        \/ \E r \in Requests : Answer(p, r) \/ Pass(p, r)

Spec == Init /\ [][Next]_vars

=============================================================================
