---------------------------- MODULE BinderProofs ----------------------------
(***************************************************************************)
(* Proofs about BinderClients, for any number of presses, tokens, lives of *)
(* the service and instances of the activity.                              *)
(*                                                                         *)
(* HelloReadsWhatItSent follows from what is known of a thread that still  *)
(* sleeps: the life of the service its instance refers to has taken its    *)
(* command.  This is inductive because the entry of mService that belongs  *)
(* to an instance is written once, before any press of that instance.      *)
(***************************************************************************)
EXTENDS BinderClients, TLAPS

\* Every instance so far refers to a life of the service, and a process that
\* runs has one on the screen.
ScreenIsBound ==
    /\ hello = "running" => screen # 0
    /\ \A s \in 1..screen : mService[s] \in Lives

\* A message belongs to a press that was made.
QueuedWerePressed == \A i \in 1..Len(messages) : press[messages[i]] # Unpressed

\* The command of a sleeping thread was taken by the life it will ask.
SleepersSent ==
    \A p \in Presses :
        InState(p, "sleeping") =>
            /\ press[p].screen \in 1..screen
            /\ <<"hello", press[p].token>> \in accepted[mService[press[p].screen]]

IInv == TypeOK /\ ScreenIsBound /\ QueuedWerePressed /\ SleepersSent
            /\ HelloReadsWhatItSent

Made == [state : {"sleeping", "posted", "shown", "lost", "refused"},
         token : Tokens, screen : Screens]

\* What a press that was made looks like, and that it is not Unpressed.
LEMMA MadeOrNot ==
    ASSUME TypeOK, NEW p \in Presses
    PROVE  /\ press[p] = Unpressed \/ press[p] \in Made
           /\ InState(p, "none") <=> press[p] = Unpressed
<1>1. press[p] \in {Unpressed} \cup Made
    BY DEF TypeOK, Made
<1> QED
    BY <1>1 DEF Made, Unpressed, InState

\* The initial state satisfies the invariant.
LEMMA InitIInv == BinderInit => IInv
BY CommandsAssumption, BoundsAssumption
   DEF BinderInit, IInv, TypeOK, ScreenIsBound, QueuedWerePressed, SleepersSent,
       HelloReadsWhatItSent, InState, Unpressed, Lives, Screens, Clients

\* The calls: what a transaction adds is typed, and nothing is taken away.
LEMMA SendAdds ==
    ASSUME TypeOK, NEW l \in 0..MaxLives, NEW c \in Clients, NEW t \in Tokens,
           SendReaches(l, c, t)
    PROVE  /\ l \in Lives /\ <<c, t>> \in accepted'[l]
           /\ accepted' \in [Lives -> SUBSET Calls]
           /\ \A m \in Lives : accepted[m] \subseteq accepted'[m]
           /\ UNCHANGED <<service, lives, asked>>
<1>1. l \in Lives
    BY BoundsAssumption DEF SendReaches, Lives
<1>2. <<c, t>> \in Calls
    BY DEF Calls
<1>3. accepted' = [accepted EXCEPT ![l] = accepted[l] \cup {<<c, t>>}]
    BY DEF SendReaches
<1>4. accepted \in [Lives -> SUBSET Calls]
    BY DEF TypeOK
<1>5. accepted' \in [Lives -> SUBSET Calls]
    BY <1>1, <1>2, <1>3, <1>4
<1>6. \A m \in Lives : accepted[m] \subseteq accepted'[m]
    BY <1>3, <1>4
<1> QED
    BY <1>1, <1>3, <1>4, <1>5, <1>6 DEF SendReaches

LEMMA ReadAdds ==
    ASSUME TypeOK, NEW l \in 0..MaxLives, NEW c \in Clients, NEW t \in Tokens,
           ReadReaches(l, c, t)
    PROVE  /\ l \in Lives
           /\ asked' \in [Lives -> SUBSET Calls]
           /\ \A m \in Lives : \A x \in asked'[m] :
                    x \in asked[m] \/ (m = l /\ x = <<c, t>>)
           /\ UNCHANGED <<service, lives, accepted>>
<1>1. l \in Lives
    BY BoundsAssumption DEF ReadReaches, Lives
<1>2. <<c, t>> \in Calls
    BY DEF Calls
<1>3. asked' = [asked EXCEPT ![l] = asked[l] \cup {<<c, t>>}]
    BY DEF ReadReaches
<1>4. asked \in [Lives -> SUBSET Calls]
    BY DEF TypeOK
<1>5. asked' \in [Lives -> SUBSET Calls]
    BY <1>1, <1>2, <1>3, <1>4
<1>6. \A m \in Lives : \A x \in asked'[m] :
            x \in asked[m] \/ (m = l /\ x = <<c, t>>)
    BY <1>3, <1>4
<1> QED
    BY <1>1, <1>5, <1>6 DEF ReadReaches

\* Only DoSend puts a thread to sleep, after its command was taken.
LEMMA DoSendIInv ==
    ASSUME IInv, NEW p \in Presses, DoSend(p)
    PROVE  IInv'
<1> USE BoundsAssumption
<1>1. /\ TypeOK /\ ScreenIsBound /\ QueuedWerePressed /\ SleepersSent
      /\ HelloReadsWhatItSent
    BY DEF IInv
<1>2. /\ screen \in 1..screen /\ screen \in Screens
      /\ mService[screen] \in Lives /\ mService[screen] \in 0..MaxLives
      /\ press[p] = Unpressed
      /\ UNCHANGED <<hello, screen, mService, messages, clientVars>>
    <2>1. screen \in 0..MaxScreens
        BY <1>1 DEF TypeOK
    <2>2. hello = "running" /\ InState(p, "none")
        BY DEF DoSend
    <2>3. screen \in 1..screen /\ screen \in Screens
        BY <1>1, <2>1, <2>2 DEF ScreenIsBound, Screens
    <2>4. mService[screen] \in Lives
        BY <1>1, <2>3 DEF ScreenIsBound
    <2>5. mService[screen] \in 0..MaxLives
        BY <2>4 DEF Lives
    <2>6. press[p] = Unpressed
        BY <1>1, <2>2, MadeOrNot
    <2> QED
        BY <2>3, <2>4, <2>5, <2>6 DEF DoSend
<1>3. PICK t \in Tokens :
        \/ /\ SendReaches(mService[screen], "hello", t)
           /\ press' = [press EXCEPT ![p] = Pressed("sleeping", t)]
        \/ /\ CallFails
           /\ press' = [press EXCEPT ![p] = Pressed("refused", t)]
    BY DEF DoSend
<1>4. "hello" \in Clients
    BY DEF Clients
<1>5. /\ accepted' \in [Lives -> SUBSET Calls]
      /\ \A m \in Lives : accepted[m] \subseteq accepted'[m]
      /\ UNCHANGED <<service, lives, asked>>
    BY <1>1, <1>2, <1>3, <1>4, SendAdds DEF CallFails, serviceVars, TypeOK
<1>6. PICK state \in {"sleeping", "refused"} :
        /\ press' = [press EXCEPT ![p] = Pressed(state, t)]
        /\ state = "sleeping" =>
                <<"hello", t>> \in accepted'[mService[screen]]
    BY <1>1, <1>2, <1>3, <1>4, SendAdds
<1>7. Pressed(state, t) \in Made /\ Pressed(state, t) # Unpressed
    BY <1>2 DEF Pressed, Made, Unpressed
<1>8. press \in [Presses -> {Unpressed} \cup Made]
    BY <1>1 DEF TypeOK, Made
<1>9. /\ press' \in [Presses -> {Unpressed} \cup Made]
      /\ press'[p] = Pressed(state, t)
      /\ \A q \in Presses : q # p => press'[q] = press[q]
    BY <1>6, <1>7, <1>8
<1>10. TypeOK'
    BY <1>1, <1>2, <1>5, <1>9 DEF TypeOK, Made, clientVars
<1>11. QueuedWerePressed'
    <2> SUFFICES ASSUME NEW i \in 1..Len(messages)
                 PROVE  press'[messages[i]] # Unpressed
        BY <1>2 DEF QueuedWerePressed
    <2>0. messages \in Seq(Presses)
        BY <1>1 DEF TypeOK
    <2>1. messages[i] \in Presses
        BY <2>0
    <2> QED
        BY <1>1, <1>2, <1>7, <1>9, <2>1 DEF QueuedWerePressed
<1>12. SleepersSent'
    <2> SUFFICES ASSUME NEW q \in Presses, press'[q].state = "sleeping"
                 PROVE  /\ press'[q].screen \in 1..screen
                        /\ <<"hello", press'[q].token>>
                                \in accepted'[mService[press'[q].screen]]
        BY <1>2 DEF SleepersSent, InState
    <2>1. CASE q = p
        BY <1>2, <1>6, <1>9, <2>1 DEF Pressed
    <2>2. CASE q # p
        <3>1. /\ press'[q] = press[q] /\ press[q].screen \in 1..screen
              /\ <<"hello", press[q].token>>
                    \in accepted[mService[press[q].screen]]
            BY <1>1, <1>9, <2>2 DEF SleepersSent, InState
        <3>2. mService[press[q].screen] \in Lives
            BY <1>1, <3>1 DEF ScreenIsBound
        <3> QED
            BY <1>5, <3>1, <3>2
    <2> QED
        BY <2>1, <2>2
<1>13. HelloReadsWhatItSent'
    BY <1>1, <1>5 DEF HelloReadsWhatItSent
<1>14. ScreenIsBound'
    BY <1>1, <1>2 DEF ScreenIsBound
<1> QED
    BY <1>10, <1>11, <1>12, <1>13, <1>14 DEF IInv

\* A thread asks the life its instance refers to, which took its command.
LEMMA ReadReplyIInv ==
    ASSUME IInv, NEW p \in Presses, ReadReply(p)
    PROVE  IInv'
<1> USE BoundsAssumption
<1>1. /\ TypeOK /\ ScreenIsBound /\ QueuedWerePressed /\ SleepersSent
      /\ HelloReadsWhatItSent
    BY DEF IInv
<1> DEFINE l == mService[press[p].screen]
           t == press[p].token
<1>2. /\ InState(p, "sleeping")
      /\ UNCHANGED <<hello, screen, mService, clientVars>>
    BY DEF ReadReply
<1>3. press[p] \in Made /\ press[p] # Unpressed
    BY <1>1, <1>2, MadeOrNot DEF InState, Unpressed
<1>4. /\ press[p].screen \in 1..screen /\ t \in Tokens
      /\ l \in Lives /\ l \in 0..MaxLives
      /\ <<"hello", t>> \in accepted[l]
    BY <1>1, <1>2, <1>3 DEF SleepersSent, ScreenIsBound, Made, Lives
<1>5. "hello" \in Clients
    BY DEF Clients
<1>6. \/ ReadReaches(l, "hello", t)
      \/ CallFails
    BY DEF ReadReply
<1>7. /\ asked' \in [Lives -> SUBSET Calls]
      /\ \A m \in Lives : \A x \in asked'[m] :
              x \in asked[m] \/ (m = l /\ x = <<"hello", t>>)
      /\ UNCHANGED <<service, lives, accepted>>
    <2>1. CASE ReadReaches(l, "hello", t)
        <3> HIDE DEF l, t
        <3> QED
            BY <1>1, <1>4, <1>5, <2>1, ReadAdds
    <2>2. CASE CallFails
        BY <1>1, <2>2 DEF CallFails, serviceVars, TypeOK
    <2> QED
        BY <1>6, <2>1, <2>2
<1>8. PICK state \in {"posted", "lost"} :
        press' = [press EXCEPT ![p].state = state]
    BY DEF ReadReply
<1>9. press \in [Presses -> {Unpressed} \cup Made]
    BY <1>1 DEF TypeOK, Made
<1>10. [press[p] EXCEPT !.state = state] \in Made
    BY <1>3 DEF Made
<1>11. /\ press' \in [Presses -> {Unpressed} \cup Made]
       /\ press'[p] = [press[p] EXCEPT !.state = state]
       /\ \A q \in Presses : q # p => press'[q] = press[q]
    BY <1>8, <1>9, <1>10
<1>12. press'[p] # Unpressed /\ press'[p].state # "sleeping"
    BY <1>3, <1>11 DEF Made, Unpressed
<1>13. \/ messages' = Append(messages, p)
       \/ messages' = messages
    BY DEF ReadReply
<1>14. TypeOK'
    <2>1. messages' \in Seq(Presses)
        <3>1. messages \in Seq(Presses)
            BY <1>1 DEF TypeOK
        <3> QED
            BY <1>13, <3>1
    <2> QED
        BY <1>1, <1>2, <1>7, <1>11, <2>1 DEF TypeOK, Made, clientVars
<1>15. QueuedWerePressed'
    <2> SUFFICES ASSUME NEW i \in 1..Len(messages')
                 PROVE  press'[messages'[i]] # Unpressed
        BY DEF QueuedWerePressed
    <2>1. messages \in Seq(Presses)
        BY <1>1 DEF TypeOK
    <2>2. \/ messages'[i] = p
          \/ i \in 1..Len(messages) /\ messages'[i] = messages[i]
        <3>1. CASE messages' = messages
            BY <3>1
        <3>2. CASE messages' = Append(messages, p)
            <4>1. /\ Len(messages') = Len(messages) + 1
                  /\ Len(messages) \in Nat
                  /\ messages'[Len(messages) + 1] = p
                  /\ \A j \in 1..Len(messages) : messages'[j] = messages[j]
                BY <2>1, <3>2
            <4>2. i \in 1..(Len(messages) + 1)
                BY <4>1
            <4>3. i = Len(messages) + 1 \/ i \in 1..Len(messages)
                BY <4>1, <4>2
            <4> QED
                BY <4>1, <4>3
        <3> QED
            BY <1>13, <3>1, <3>2
    <2>3. ASSUME i \in 1..Len(messages) PROVE messages[i] \in Presses
        BY <2>1, <2>3
    <2> QED
        BY <1>1, <1>11, <1>12, <2>2, <2>3 DEF QueuedWerePressed
<1>16. SleepersSent'
    BY <1>1, <1>2, <1>7, <1>11, <1>12 DEF SleepersSent, InState
<1>17. HelloReadsWhatItSent'
    BY <1>1, <1>4, <1>7 DEF HelloReadsWhatItSent
<1>18. ScreenIsBound'
    BY <1>1, <1>2 DEF ScreenIsBound
<1> QED
    BY <1>14, <1>15, <1>16, <1>17, <1>18 DEF IInv

\* A Handler wakes nobody up.
LEMMA HandleMessageIInv ==
    ASSUME IInv, HandleMessage
    PROVE  IInv'
<1>1. /\ TypeOK /\ ScreenIsBound /\ QueuedWerePressed /\ SleepersSent
      /\ HelloReadsWhatItSent
    BY DEF IInv
<1> DEFINE p == Head(messages)
<1>2. /\ messages # << >> /\ messages' = Tail(messages)
      /\ press' = [press EXCEPT ![p].state = "shown"]
      /\ UNCHANGED <<serviceVars, hello, screen, mService, clientVars>>
    BY DEF HandleMessage
<1>3. messages \in Seq(Presses)
    BY <1>1 DEF TypeOK
<1>4. p \in Presses /\ p = messages[1] /\ 1 \in 1..Len(messages)
    BY <1>2, <1>3
<1>5. press[p] # Unpressed
    BY <1>1, <1>4 DEF QueuedWerePressed
<1> HIDE DEF p
<1>6. press[p] \in Made
    BY <1>1, <1>4, <1>5, MadeOrNot
<1>7. press \in [Presses -> {Unpressed} \cup Made]
    BY <1>1 DEF TypeOK, Made
<1>8. [press[p] EXCEPT !.state = "shown"] \in Made
    BY <1>6 DEF Made
<1>9. /\ press' \in [Presses -> {Unpressed} \cup Made]
      /\ press'[p] = [press[p] EXCEPT !.state = "shown"]
      /\ \A q \in Presses : q # p => press'[q] = press[q]
    BY <1>2, <1>4, <1>7, <1>8
<1>10. press'[p] # Unpressed /\ press'[p].state # "sleeping"
    BY <1>6, <1>9 DEF Made, Unpressed
<1>11. TypeOK'
    <2>1. messages' \in Seq(Presses)
        BY <1>2, <1>3
    <2> QED
        BY <1>1, <1>2, <1>9, <2>1 DEF TypeOK, Made, serviceVars, clientVars
<1>12. QueuedWerePressed'
    <2> SUFFICES ASSUME NEW i \in 1..Len(messages')
                 PROVE  press'[messages'[i]] # Unpressed
        BY DEF QueuedWerePressed
    <2>1. /\ i + 1 \in 1..Len(messages) /\ messages'[i] = messages[i + 1]
          /\ messages[i + 1] \in Presses
        BY <1>2, <1>3
    <2> QED
        BY <1>1, <1>9, <1>10, <2>1 DEF QueuedWerePressed
<1>13. SleepersSent'
    BY <1>1, <1>2, <1>9, <1>10 DEF SleepersSent, InState, serviceVars
<1>14. HelloReadsWhatItSent' /\ ScreenIsBound'
    BY <1>1, <1>2 DEF HelloReadsWhatItSent, ScreenIsBound, serviceVars
<1> QED
    BY <1>11, <1>12, <1>13, <1>14 DEF IInv

\* The index of client.cpp stays in its commands.
LEMMA AdvanceInRange ==
    ASSUME NEW next, command \in 1..Len(Commands), Advance(next)
    PROVE  command' \in 1..Len(Commands)
<1> DEFINE n == Len(Commands)
<1>1. n \in Nat
    BY CommandsAssumption
<1>2. /\ command \in 1..n
      /\ \/ command < n /\ command' = command + 1
         \/ command' = 1
    BY DEF Advance
<1> HIDE DEF n
<1>3. command' \in 1..n
    BY <1>1, <1>2
<1> QED
    BY <1>3 DEF n

\* client.cpp only adds to what the service has taken and was asked, under
\* its own name.
LEMMA ClientIInv ==
    ASSUME IInv, Client
    PROVE  IInv'
<1> USE BoundsAssumption, CommandsAssumption
<1>1. /\ TypeOK /\ ScreenIsBound /\ QueuedWerePressed /\ SleepersSent
      /\ HelloReadsWhatItSent
    BY DEF IInv
<1>2. UNCHANGED helloVars
    BY DEF Client, GetDemoServ, OpenRS485, SendCommand, PrintReplay
<1>3. /\ client' \in {"getService", "open", "send", "read", "exit", "aborted"}
      /\ command' \in 1..Len(Commands) /\ binder' \in 0..MaxLives
      /\ printed' \in {"nothing", "reply", "freed bytes"}
    <2>1. /\ client \in {"getService", "open", "send", "read", "exit", "aborted"}
          /\ command \in 1..Len(Commands) /\ binder \in 0..MaxLives
          /\ printed \in {"nothing", "reply", "freed bytes"}
          /\ service \in 0..MaxLives
        BY <1>1 DEF TypeOK
    <2>3. CASE GetDemoServ \/ OpenRS485
        BY <2>1, <2>3 DEF GetDemoServ, OpenRS485
    <2>4. CASE SendCommand \/ PrintReplay
        <3>1. /\ Advance("read") \/ Advance("exit")
              /\ UNCHANGED binder
              /\ printed' \in {"reply", "freed bytes", printed}
            BY <2>4 DEF SendCommand, PrintReplay
        <3>3. command' \in 1..Len(Commands)
            BY <2>1, <3>1, AdvanceInRange
        <3>4. client' \in {client, "read", "exit"}
            BY <3>1 DEF Advance
        <3> QED
            BY <2>1, <3>1, <3>3, <3>4
    <2> QED
        BY <2>3, <2>4 DEF Client
<1>4. /\ service' \in 0..MaxLives /\ lives' \in 0..MaxLives
      /\ accepted' \in [Lives -> SUBSET Calls]
      /\ asked' \in [Lives -> SUBSET Calls]
      /\ \A m \in Lives : accepted[m] \subseteq accepted'[m]
      /\ \A m \in Lives, s \in Tokens :
              <<"hello", s>> \in asked'[m] => <<"hello", s>> \in asked[m]
    <2>1. CASE UNCHANGED serviceVars
        BY <1>1, <2>1 DEF serviceVars, TypeOK
    <2>2. CASE client \in {"send", "read"} /\ ~UNCHANGED serviceVars
        <3> DEFINE t == Commands[command]
        <3>1. \/ client = "send" /\ SendReaches(binder, "native", t)
              \/ client = "read" /\ ReadReaches(binder, "native", t)
            BY <2>2 DEF Client, GetDemoServ, OpenRS485, SendCommand,
                PrintReplay, CallFails
        <3>2. t \in Tokens
            <4>1. command \in 1..Len(Commands)
                BY <1>1 DEF TypeOK
            <4> QED
                BY <4>1
        <3>3. "native" \in Clients /\ binder \in 0..MaxLives
            BY <1>1 DEF Clients, TypeOK
        <3>a. /\ service \in 0..MaxLives /\ lives \in 0..MaxLives
              /\ accepted \in [Lives -> SUBSET Calls]
              /\ asked \in [Lives -> SUBSET Calls]
            BY <1>1 DEF TypeOK
        <3> HIDE DEF t
        <3>4. CASE SendReaches(binder, "native", t)
            BY <1>1, <3>a, <3>2, <3>3, <3>4, SendAdds
        <3>5. CASE ReadReaches(binder, "native", t)
            BY <1>1, <3>a, <3>2, <3>3, <3>5, ReadAdds
        <3> QED
            BY <3>1, <3>4, <3>5
    <2> QED
        BY <2>1, <2>2 DEF Client, GetDemoServ, OpenRS485, SendCommand,
            PrintReplay
<1>5. TypeOK'
    BY <1>1, <1>2, <1>3, <1>4 DEF TypeOK, helloVars
<1>6. SleepersSent'
    BY <1>1, <1>2, <1>4 DEF SleepersSent, ScreenIsBound, InState, helloVars
<1>7. HelloReadsWhatItSent'
    BY <1>1, <1>4 DEF HelloReadsWhatItSent
<1>8. QueuedWerePressed' /\ ScreenIsBound'
    BY <1>1, <1>2 DEF QueuedWerePressed, ScreenIsBound, helloVars
<1> QED
    BY <1>5, <1>6, <1>7, <1>8 DEF IInv

\* A new instance gets an entry of mService of its own.
LEMMA OnCreateIInv ==
    ASSUME IInv, OnCreate
    PROVE  IInv'
<1> USE BoundsAssumption
<1>1. /\ TypeOK /\ ScreenIsBound /\ QueuedWerePressed /\ SleepersSent
      /\ HelloReadsWhatItSent
    BY DEF IInv
<1>2. UNCHANGED <<serviceVars, press, messages, clientVars>>
    BY DEF OnCreate
<1>3. /\ screen' \in 0..MaxScreens /\ screen' >= screen
      /\ mService' \in [Screens -> 0..MaxLives]
      /\ \A s \in 1..screen : mService'[s] = mService[s]
      /\ hello' \in {"running", "exited"}
      /\ ScreenIsBound'
    <2>a. /\ service \in 0..MaxLives /\ screen \in 0..MaxScreens
          /\ mService \in [Screens -> 0..MaxLives]
        BY <1>1 DEF TypeOK
    <2>1. CASE service = 0
        BY <1>1, <2>a, <2>1 DEF OnCreate, ScreenIsBound
    <2>2. CASE service # 0
        <3>1. /\ screen' = screen + 1 /\ screen + 1 \in Screens
              /\ mService' = [mService EXCEPT ![screen + 1] = service]
              /\ hello' = "running" /\ service \in Lives
              /\ service \in 0..MaxLives
              /\ mService \in [Screens -> 0..MaxLives]
            BY <2>a, <2>2 DEF OnCreate, Screens, Lives
        <3>2. /\ mService' \in [Screens -> 0..MaxLives]
              /\ mService'[screen + 1] = service
              /\ \A s \in Screens : s # screen + 1 => mService'[s] = mService[s]
            BY <3>1
        <3>3. /\ \A s \in 1..screen : s \in Screens /\ s # screen + 1
              /\ screen \in Nat
            BY <2>a DEF Screens
        <3>4. \A s \in 1..(screen + 1) : s = screen + 1 \/ s \in 1..screen
            BY <3>3
        <3> QED
            BY <1>1, <3>1, <3>2, <3>3, <3>4 DEF ScreenIsBound, Screens
    <2> QED
        BY <2>1, <2>2
<1>4. TypeOK'
    BY <1>1, <1>2, <1>3 DEF TypeOK, serviceVars, clientVars
<1>5. SleepersSent'
    <2> SUFFICES ASSUME NEW q \in Presses, press[q].state = "sleeping"
                 PROVE  /\ press[q].screen \in 1..screen'
                        /\ <<"hello", press[q].token>>
                                \in accepted[mService'[press[q].screen]]
        BY <1>2 DEF SleepersSent, InState, serviceVars
    <2>1. /\ press[q].screen \in 1..screen
          /\ <<"hello", press[q].token>>
                \in accepted[mService[press[q].screen]]
        BY <1>1 DEF SleepersSent, InState
    <2>2. screen \in Nat /\ screen' \in Nat
        <3>1. screen \in 0..MaxScreens
            BY <1>1 DEF TypeOK
        <3> QED
            BY <1>3, <3>1
    <2>3. press[q].screen \in 1..screen'
        BY <1>3, <2>1, <2>2
    <2> QED
        BY <1>3, <2>1, <2>3
<1>6. QueuedWerePressed' /\ HelloReadsWhatItSent'
    BY <1>1, <1>2 DEF QueuedWerePressed, HelloReadsWhatItSent, serviceVars
<1> QED
    BY <1>3, <1>4, <1>5, <1>6 DEF IInv

\* Every step preserves the invariant.
LEMMA NextIInv == IInv /\ [BinderNext]_binderVars => IInv'
<1> SUFFICES ASSUME IInv, [BinderNext]_binderVars PROVE IInv'
    OBVIOUS
<1>1. CASE ServiceStarts \/ ServiceDies
    <2>1. /\ service \in 0..MaxLives /\ lives \in 0..MaxLives
        BY DEF IInv, TypeOK
    <2>2. service' \in 0..MaxLives /\ lives' \in 0..MaxLives
        BY <1>1, <2>1, BoundsAssumption DEF ServiceStarts, ServiceDies
    <2>3. UNCHANGED <<accepted, asked, helloVars, clientVars>>
        BY <1>1 DEF ServiceStarts, ServiceDies
    <2> QED
        BY <2>2, <2>3 DEF IInv, helloVars, clientVars, TypeOK, ScreenIsBound,
            QueuedWerePressed, SleepersSent, HelloReadsWhatItSent, InState
<1>2. CASE OnCreate
    BY <1>2, OnCreateIInv
<1>3. CASE \E p \in Presses : DoSend(p) \/ ReadReply(p)
    BY <1>3, DoSendIInv, ReadReplyIInv
<1>4. CASE HandleMessage
    BY <1>4, HandleMessageIInv
<1>5. CASE Client
    BY <1>5, ClientIInv
<1>6. CASE UNCHANGED binderVars
    BY <1>6 DEF IInv, binderVars, serviceVars, helloVars, clientVars, TypeOK,
        ScreenIsBound, QueuedWerePressed, SleepersSent, HelloReadsWhatItSent,
        InState
<1> QED
    BY <1>1, <1>2, <1>3, <1>4, <1>5, <1>6 DEF BinderNext

\* The thread of a press asks about a token only where its command was taken.
THEOREM ReadsFollowCommands == BinderSpec => []HelloReadsWhatItSent
<1>1. IInv => HelloReadsWhatItSent
    BY DEF IInv
<1> QED
    BY <1>1, InitIInv, NextIInv, PTL DEF BinderSpec
=============================================================================
