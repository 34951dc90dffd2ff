---------------------------- MODULE EthernetDemo ----------------------------
(***************************************************************************)
(* The Ethernet demo: one switch and one state text per interface.  The    *)
(* activity reads the states when it is created and follows broadcasts     *)
(* afterwards; a switch the user toggles sends a command, a switch the     *)
(* program sets must not.  The main thread also runs RemoveAllRouteTables. *)
(***************************************************************************)
EXTENDS EthernetRoutes

CONSTANTS
    Initial,        \* the states an interface may start in
    MaxChanges,     \* bound: changes of state that nobody asked for
    MaxToggles,     \* bound: presses of a switch
    MaxRotations,   \* bound: re-creations of the activity
    MaxOthers       \* bound: changes of the routing table by others

VARIABLES
    net,            \* the state of each interface, in the service
    bcast,          \* INTERFACE_STATE_CHANGED broadcasts not delivered yet
    cmds,           \* calls of reconnect_m and teardown_m not served yet
    text,           \* text_state0 and text_state1
    checked, enabled,   \* Switch0 and Switch1
    mpc,            \* the main thread: read, register, restore, run, remove, dead
    unread,         \* the interfaces onCreate has still to read
    saved,          \* the switches in the saved instance state
    drift,          \* history: the saved switch and the interface differ
    missed,         \* history: a change after the read, before the receiver
    refused,        \* history: a command that changed nothing
    changes, toggles, rotations, others     \* for the bounds

switchVars == <<text, checked, enabled>>
netVars == <<net, bcast, cmds, missed, refused>>
bounds == <<changes, toggles, rotations, others>>
vars == <<net, bcast, cmds, text, checked, enabled, mpc, unread, saved, drift,
          missed, refused, changes, toggles, rotations, others,
          table, RTBS, row, touched>>

(* eth0 and eth1: one switch, one text and one case of onReceive for each. *)
Ifaces == {0, 1}

States == {"CONNECTING", "CONNECTED", "SUSPENDED",
           "DISCONNECTING", "DISCONNECTED", "UNKNOWN"}

(* What the layout shows before onCreate has read a state. *)
NoText == ""

ASSUME InitialAssumption == Initial \subseteq States

(* State_Switch: what each state sets. *)
ShownChecked(st) == st \in {"CONNECTING", "CONNECTED", "SUSPENDED", "DISCONNECTING"}
ShownEnabled(st) == st \notin {"CONNECTING", "DISCONNECTING"}

(* Mutant: the listener does not look at SetStateOnly. *)
MutListener(i, on, SetStateOnly) ==
    <<[iface |-> i, op |-> IF on THEN "reconnect" ELSE "teardown"]>>

(* onCheckedChanged: nothing while SetStateOnly is true. *)
Listener(i, on, SetStateOnly) ==
    IF SetStateOnly THEN <<>>
    ELSE <<[iface |-> i, op |-> IF on THEN "reconnect" ELSE "teardown"]>>

(* setChecked calls the listener when the switch changes. *)
SetChecked(i, on, SetStateOnly) ==
    IF checked[i] = on THEN <<>> ELSE Listener(i, on, SetStateOnly)

Registered == mpc \in {"restore", "run", "remove"}

Init ==
    /\ net \in [Ifaces -> Initial]
    /\ bcast = <<>>
    /\ cmds = <<>>
    /\ text = [i \in Ifaces |-> NoText]
    /\ checked = [i \in Ifaces |-> FALSE]
    /\ enabled = [i \in Ifaces |-> TRUE]
    /\ mpc = "read"
    /\ unread = Ifaces
    /\ saved = <<>>
    /\ drift = [i \in Ifaces |-> FALSE]
    /\ missed = [i \in Ifaces |-> FALSE]
    /\ refused = [i \in Ifaces |-> FALSE]
    /\ changes = 0 /\ toggles = 0 /\ rotations = 0 /\ others = 0
    /\ RoutesInit

(* Mutant: a switch that was disabled is not enabled again. *)
MutShow(i, st) ==
    /\ text' = [text EXCEPT ![i] = st]
    /\ checked' = [checked EXCEPT ![i] = ShownChecked(st)]
    /\ enabled' = [enabled EXCEPT ![i] = @ /\ ShownEnabled(st)]
    /\ cmds' = cmds \o SetChecked(i, ShownChecked(st), TRUE)
    /\ missed' = [missed EXCEPT ![i] = FALSE]
    /\ refused' = [refused EXCEPT ![i] = FALSE]

(* setText and State_Switch, which sets SetStateOnly around its work. *)
Show(i, st) ==
    /\ text' = [text EXCEPT ![i] = st]
    /\ checked' = [checked EXCEPT ![i] = ShownChecked(st)]
    /\ enabled' = [enabled EXCEPT ![i] = ShownEnabled(st)]
    /\ cmds' = cmds \o SetChecked(i, ShownChecked(st), TRUE)
    /\ missed' = [missed EXCEPT ![i] = FALSE]
    /\ refused' = [refused EXCEPT ![i] = FALSE]

(* onCreate: getNetworkState of eth0, then of eth1. *)
ReadState(i) ==
    /\ mpc = "read"
    /\ i \in unread
    /\ \A k \in unread : i <= k
    /\ Show(i, net[i])
    /\ unread' = unread \ {i}
    /\ mpc' = IF unread = {i} THEN "register" ELSE "read"
    /\ UNCHANGED <<net, bcast, saved, drift, bounds, routeVars>>

(* onCreate: registerReceiver. *)
Register ==
    /\ mpc = "register"
    /\ mpc' = IF saved = <<>> THEN "run" ELSE "restore"
    /\ UNCHANGED <<netVars, switchVars, unread, saved, drift, bounds, routeVars>>

(* onRestoreInstanceState gives the switches back the state they had: the  *)
(* listeners are in place and SetStateOnly is false.                       *)
Restore ==
    /\ mpc = "restore"
    /\ checked' = saved
    /\ cmds' = cmds \o SetChecked(0, saved[0], FALSE) \o SetChecked(1, saved[1], FALSE)
    /\ mpc' = "run"
    /\ UNCHANGED <<net, bcast, missed, refused, text, enabled, unread, saved,
                   drift, bounds, routeVars>>

(* onReceive. *)
Receive ==
    /\ mpc = "run"
    /\ bcast # <<>>
    /\ Show(Head(bcast).iface, Head(bcast).state)
    /\ bcast' = Tail(bcast)
    /\ UNCHANGED <<net, mpc, unread, saved, drift, bounds, routeVars>>

(* The user toggles a switch that is enabled. *)
Toggle(i) ==
    /\ mpc = "run"
    /\ enabled[i]
    /\ toggles < MaxToggles
    /\ toggles' = toggles + 1
    /\ checked' = [checked EXCEPT ![i] = ~@]
    /\ cmds' = cmds \o SetChecked(i, ~checked[i], FALSE)
    /\ UNCHANGED <<net, bcast, missed, refused, text, enabled, mpc, unread, saved,
                   drift, changes, rotations, others, routeVars>>

(* A configuration change: the state of the views is saved, and a new      *)
(* activity starts with those of the layout.  The old receiver is gone.    *)
Recreate ==
    /\ mpc = "run"
    /\ rotations < MaxRotations
    /\ rotations' = rotations + 1
    /\ saved' = checked
    /\ drift' = [i \in Ifaces |-> checked[i] # ShownChecked(net[i])]
    /\ text' = [i \in Ifaces |-> NoText]
    /\ checked' = [i \in Ifaces |-> FALSE]
    /\ enabled' = [i \in Ifaces |-> TRUE]
    /\ mpc' = "read"
    /\ unread' = Ifaces
    /\ bcast' = <<>>
    /\ UNCHANGED <<net, cmds, missed, refused, changes, toggles, others, routeVars>>

(* The interface changes: everybody registered is told. *)
NetBecomes(i, st) ==
    /\ net' = [net EXCEPT ![i] = st]
    /\ bcast' = IF Registered THEN Append(bcast, [iface |-> i, state |-> st]) ELSE bcast
    /\ missed' = IF Registered THEN missed ELSE [missed EXCEPT ![i] = i \notin unread]
    /\ drift' = IF mpc = "run" THEN drift ELSE [drift EXCEPT ![i] = TRUE]

(* What the service and the cable do without being asked. *)
Spontaneous ==
    [CONNECTING |-> {"CONNECTED", "DISCONNECTED"},
     CONNECTED |-> {"SUSPENDED", "DISCONNECTED"},
     SUSPENDED |-> {"CONNECTED", "DISCONNECTED"},
     DISCONNECTING |-> {"DISCONNECTED"},
     DISCONNECTED |-> {"CONNECTING"},
     UNKNOWN |-> {"DISCONNECTED"}]

NetChanges(i) ==
    /\ changes < MaxChanges
    /\ changes' = changes + 1
    /\ \E st \in Spontaneous[net[i]] : NetBecomes(i, st)
    /\ UNCHANGED <<cmds, refused, switchVars, mpc, unread, saved, toggles,
                   rotations, others, routeVars>>

(* The service serves a command; it may change nothing, or refuse. *)
Effect(op, st) ==
    CASE op = "reconnect" /\ st \in {"DISCONNECTED", "UNKNOWN"} -> {"CONNECTING"}
      [] op = "teardown" /\ st \in {"CONNECTING", "CONNECTED", "SUSPENDED"} -> {"DISCONNECTING"}
      [] OTHER -> {}

Serve ==
    /\ cmds # <<>>
    /\ LET c == Head(cmds) IN
         \/ /\ \E st \in Effect(c.op, net[c.iface]) : NetBecomes(c.iface, st)
            /\ UNCHANGED refused
         \/ /\ refused' = [refused EXCEPT ![c.iface] = TRUE]
            /\ UNCHANGED <<net, bcast, missed, drift>>
    /\ cmds' = Tail(cmds)
    /\ UNCHANGED <<switchVars, mpc, unread, saved, bounds, routeVars>>

(* RemoveAllRouteTables: the rows are read, then removed; the main thread  *)
(* does nothing else meanwhile.                                            *)
RemoveAllRouteTables ==
    /\ mpc = "run"
    /\ \E rows \in RowsRead :
         IF TooManyRows(rows)
           THEN mpc' = "dead" /\ UNCHANGED <<RTBS, row, touched>>
           ELSE /\ ReadRows(rows)
                /\ row' = 1
                /\ mpc' = "remove"
                /\ touched' = {}
    /\ UNCHANGED <<table, netVars, switchVars, unread, saved, drift, bounds>>

RemoveNext ==
    /\ mpc = "remove"
    /\ \/ RemoveRow /\ UNCHANGED mpc
       \/ RowsDone /\ mpc' = "run"
    /\ UNCHANGED <<netVars, switchVars, unread, saved, drift, bounds>>

(* Integer.valueOf of a prefix or a port that is no number: uncaught. *)
BadNumber ==
    /\ mpc = "run"
    /\ mpc' = "dead"
    /\ UNCHANGED <<netVars, switchVars, unread, saved, drift, bounds, routeVars>>

RoutesChange ==
    /\ others < MaxOthers
    /\ others' = others + 1
    /\ OthersChange
    /\ UNCHANGED <<netVars, switchVars, mpc, unread, saved, drift, changes,
                   toggles, rotations>>

Next ==
    \/ \E i \in Ifaces : ReadState(i) \/ Toggle(i) \/ NetChanges(i)
    \/ Register \/ Restore \/ Receive \/ Recreate \/ Serve
    \/ RemoveAllRouteTables \/ RemoveNext \/ BadNumber \/ RoutesChange

Spec == Init /\ [][Next]_vars

-----------------------------------------------------------------------------
(* The states, broadcasts, commands and switches keep their types.          *)
TypeOK ==
    /\ net \in [Ifaces -> States]
    /\ bcast \in Seq([iface : Ifaces, state : States])
    /\ cmds \in Seq([iface : Ifaces, op : {"reconnect", "teardown"}])
    /\ text \in [Ifaces -> States \union {NoText}]
    /\ checked \in [Ifaces -> BOOLEAN] /\ enabled \in [Ifaces -> BOOLEAN]
    /\ mpc \in {"read", "register", "restore", "run", "remove", "dead"}
    /\ unread \subseteq Ifaces
    /\ saved = <<>> \/ saved \in [Ifaces -> BOOLEAN]
    /\ drift \in [Ifaces -> BOOLEAN]
    /\ missed \in [Ifaces -> BOOLEAN] /\ refused \in [Ifaces -> BOOLEAN]

Commanded(i) ==
    \E n \in (Len(cmds) + 1) .. Len(cmds') : cmds'[n].iface = i

(* Showing a state commands nothing: a command comes from the user, or     *)
(* from a restored switch that no longer agrees with its interface         *)
(* (SetStateOnly; onRestoreInstanceState runs outside it).                 *)
OnlyUsersCommand ==
    [][\A i \in Ifaces : Commanded(i) =>
           toggles' # toggles \/ (mpc = "restore" /\ drift[i])]_vars

(* Once the broadcasts are delivered and the commands served, text and     *)
(* switch tell the state of the interface, unless a change fell between    *)
(* getNetworkState and registerReceiver, or the service did nothing.       *)
SwitchAgreesWhenSettled ==
    \A i \in Ifaces :
        /\ mpc \in {"run", "remove"}
        /\ ~missed[i] /\ ~refused[i]
        /\ \A n \in DOMAIN bcast : bcast[n].iface # i
        /\ \A n \in DOMAIN cmds : cmds[n].iface # i
        => /\ text[i] = net[i]
           /\ checked[i] <=> net[i] \notin {"DISCONNECTED", "UNKNOWN"}
           /\ enabled[i] <=> net[i] \notin {"CONNECTING", "DISCONNECTING"}

=============================================================================
