--------------------------- MODULE BinderClients ---------------------------
(***************************************************************************)
(* The two clients of the RS485 service "Demo": the program client.cpp,    *)
(* with its proxy in binderClient.cpp, and the application HelloActivity.  *)
(* The service is not in the repository; it is modelled by what its        *)
(* clients rely on.  It may die and be started again, any call may fail,   *)
(* and a proxy keeps referring to the life of the service it was made for. *)
(* Both clients build their tokens as "token" and a digit, so they share   *)
(* them.  HelloActivity may be re-created; every press starts a thread     *)
(* that reads the reply of its own token one second later.                 *)
(***************************************************************************)
EXTENDS Naturals, Sequences

CONSTANTS Presses,      \* presses of the button send
          Tokens,       \* the tokens that can be typed
          Commands,     \* the tokens of client.cpp, a sequence
          MaxLives,     \* bound: lives of the service
          MaxScreens    \* bound: instances of HelloActivity

ASSUME CommandsAssumption == Commands \in Seq(Tokens) \ {<< >>}
ASSUME BoundsAssumption == MaxLives \in Nat /\ MaxScreens \in Nat

VARIABLES
    service,    \* the life of the service that runs, 0 for none
    lives,      \* how many it has had
    accepted,   \* per life, the pairs <<client, token>> of commands it took
    asked,      \* per life, the pairs <<client, token>> it was asked about
    hello,      \* the process of HelloActivity
    screen,     \* the instance of HelloActivity on the screen
    mService,   \* per instance, the life its proxy refers to
    press,      \* per press, how far it is
    messages,   \* the messages of mHandler, oldest first
    client,     \* the statement of client.cpp's main
    command,    \* the index of the command it is at
    binder,     \* the life its proxy refers to
    printed     \* what printReplay printed last

serviceVars == <<service, lives, accepted, asked>>
helloVars == <<hello, screen, mService, press, messages>>
clientVars == <<client, command, binder, printed>>
binderVars == <<serviceVars, helloVars, clientVars>>

Lives == 1..MaxLives
Screens == 1..MaxScreens
Clients == {"hello", "native"}
Calls == Clients \X Tokens

Unpressed == [state |-> "none"]
Pressed(state, t) == [state |-> state, token |-> t, screen |-> screen]
InState(p, state) == press[p].state = state

\* The lives, presses and client.cpp's place keep their types.
TypeOK ==
    /\ service \in 0..MaxLives /\ lives \in 0..MaxLives
    /\ accepted \in [Lives -> SUBSET Calls]
    /\ asked \in [Lives -> SUBSET Calls]
    /\ hello \in {"closed", "running", "exited"}
    /\ screen \in 0..MaxScreens
    /\ mService \in [Screens -> 0..MaxLives]
    /\ press \in [Presses -> {Unpressed} \cup
            [state : {"sleeping", "posted", "shown", "lost", "refused"},
             token : Tokens, screen : Screens]]
    /\ messages \in Seq(Presses)
    /\ client \in {"getService", "open", "send", "read", "exit", "aborted"}
    /\ command \in 1..Len(Commands) /\ binder \in 0..MaxLives
    /\ printed \in {"nothing", "reply", "freed bytes"}

BinderInit ==
    /\ service = 0 /\ lives = 0
    /\ accepted = [l \in Lives |-> {}]
    /\ asked = [l \in Lives |-> {}]
    /\ hello = "closed" /\ screen = 0
    /\ mService = [s \in Screens |-> 0]
    /\ press = [p \in Presses |-> Unpressed]
    /\ messages = << >>
    /\ client = "getService" /\ command = 1 /\ binder = 0
    /\ printed = "nothing"

(***************************************************************************)
(* The service, and a transaction with the life l of it: only the life     *)
(* that runs can take it, and it may fail all the same.                    *)
(***************************************************************************)
ServiceStarts ==
    /\ service = 0 /\ lives < MaxLives
    /\ lives' = lives + 1 /\ service' = lives + 1
    /\ UNCHANGED <<accepted, asked, helloVars, clientVars>>

ServiceDies ==
    /\ service # 0
    /\ service' = 0
    /\ UNCHANGED <<lives, accepted, asked, helloVars, clientVars>>

SendReaches(l, c, t) ==
    /\ l # 0 /\ service = l
    /\ accepted' = [accepted EXCEPT ![l] = @ \cup {<<c, t>>}]
    /\ UNCHANGED <<service, lives, asked>>

ReadReaches(l, c, t) ==
    /\ l # 0 /\ service = l
    /\ asked' = [asked EXCEPT ![l] = @ \cup {<<c, t>>}]
    /\ UNCHANGED <<service, lives, accepted>>

CallFails == UNCHANGED serviceVars

(***************************************************************************)
(* HelloActivity.  onCreate asks the service manager for the service, and  *)
(* ends the process if there is none; a failed openRS485 is only logged.   *)
(***************************************************************************)
OnCreate ==
    /\ hello \in {"closed", "running"} /\ screen < MaxScreens
    /\ IF service = 0
       THEN hello' = "exited" /\ UNCHANGED <<screen, mService>>
       ELSE /\ hello' = "running" /\ screen' = screen + 1
            /\ mService' = [mService EXCEPT ![screen + 1] = service]
    /\ UNCHANGED <<serviceVars, press, messages, clientVars>>

\* A thread that does not look whether the call has failed.
MutDoSend(p) ==
    /\ hello = "running" /\ InState(p, "none")
    /\ \E t \in Tokens :
        /\ SendReaches(mService[screen], "hello", t) \/ CallFails
        /\ press' = [press EXCEPT ![p] = Pressed("sleeping", t)]
    /\ UNCHANGED <<hello, screen, mService, messages, clientVars>>

\* doSend: the command first; only if the call returns is the thread started.
DoSend(p) ==
    /\ hello = "running" /\ InState(p, "none")
    /\ \E t \in Tokens :
        \/ /\ SendReaches(mService[screen], "hello", t)
           /\ press' = [press EXCEPT ![p] = Pressed("sleeping", t)]
        \/ /\ CallFails
           /\ press' = [press EXCEPT ![p] = Pressed("refused", t)]
    /\ UNCHANGED <<hello, screen, mService, messages, clientVars>>

\* The thread of a press, after its sleep: it asks the service its own
\* instance was bound to.
ReadReply(p) ==
    /\ hello = "running" /\ InState(p, "sleeping")
    /\ \/ /\ ReadReaches(mService[press[p].screen], "hello", press[p].token)
          /\ press' = [press EXCEPT ![p].state = "posted"]
          /\ messages' = Append(messages, p)
       \/ /\ CallFails
          /\ press' = [press EXCEPT ![p].state = "lost"]
          /\ UNCHANGED messages
    /\ UNCHANGED <<hello, screen, mService, clientVars>>

\* A Handler that takes two messages and shows the later one.
MutHandleMessage ==
    /\ hello = "running" /\ messages # << >>
    /\ press' = [press EXCEPT ![messages[Len(messages)]].state = "shown"]
    /\ messages' = << >>
    /\ UNCHANGED <<serviceVars, hello, screen, mService, clientVars>>

HandleMessage ==
    /\ hello = "running" /\ messages # << >>
    /\ press' = [press EXCEPT ![Head(messages)].state = "shown"]
    /\ messages' = Tail(messages)
    /\ UNCHANGED <<serviceVars, hello, screen, mService, clientVars>>

(***************************************************************************)
(* client.cpp: the status of a transaction is never looked at, so the      *)
(* program goes on whatever happened.  The text readReply returns is in a  *)
(* String8 that no longer exists when it is printed.                       *)
(***************************************************************************)
GetDemoServ ==
    /\ client = "getService"
    /\ IF service = 0
       THEN client' = "aborted" /\ UNCHANGED binder
       ELSE client' = "open" /\ binder' = service
    /\ UNCHANGED <<serviceVars, helloVars, command, printed>>

OpenRS485 ==
    /\ client = "open"
    /\ client' = "send"
    /\ UNCHANGED <<serviceVars, helloVars, command, binder, printed>>

Advance(next) ==
    IF command < Len(Commands)
    THEN command' = command + 1 /\ UNCHANGED client
    ELSE command' = 1 /\ client' = next

SendCommand ==
    /\ client = "send"
    /\ SendReaches(binder, "native", Commands[command]) \/ CallFails
    /\ Advance("read")
    /\ UNCHANGED <<helloVars, binder, printed>>

PrintReplay ==
    /\ client = "read"
    /\ ReadReaches(binder, "native", Commands[command]) \/ CallFails
    /\ printed' \in {"reply", "freed bytes"}
    /\ Advance("exit")
    /\ UNCHANGED <<helloVars, binder>>

Client == GetDemoServ \/ OpenRS485 \/ SendCommand \/ PrintReplay

BinderNext ==
    \/ ServiceStarts
    \/ ServiceDies
    \/ OnCreate
    \/ \E p \in Presses : DoSend(p) \/ ReadReply(p)
    \/ HandleMessage
    \/ Client

\* Threads that sleep wake up, and the looper serves its queue.
BinderFairness ==
    /\ \A p \in Presses : WF_binderVars(ReadReply(p))
    /\ WF_binderVars(HandleMessage)

BinderSpec == BinderInit /\ [][BinderNext]_binderVars /\ BinderFairness

----------------------------------------------------------------------------
\* A press may only ask about a token whose command was taken by the very
\* life of the service it asks: a call that failed starts no thread, and
\* neither a restart of the service nor a new instance of the activity can
\* redirect the threads that are asleep (doSend and getDemoAPIService).
HelloReadsWhatItSent ==
    \A l \in Lives : \A t \in Tokens :
        <<"hello", t>> \in asked[l] => <<"hello", t>> \in accepted[l]

\* A press whose command was taken is answered on the screen it was made on,
\* however many others are waiting, unless its read fails or the process
\* ends (doSend's thread and mHandler).
AcceptedPressIsShown ==
    \A p \in Presses :
        InState(p, "sleeping") ~>
            (InState(p, "shown") \/ InState(p, "lost") \/ hello = "exited")
=============================================================================
