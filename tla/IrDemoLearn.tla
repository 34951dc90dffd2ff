---------------------------- MODULE IrDemoLearn ----------------------------
(***************************************************************************)
(* IrDemoLearn.java: five radio buttons choose the key to learn, and the   *)
(* button learn starts a thread that learns it.  The listener of learn     *)
(* makes the button not clickable, the thread makes it clickable again,    *)
(* but taps that were accepted before wait in the main thread's queue.     *)
(* The thread reads keyId when it runs.  When the activity is created      *)
(* again the framework restores the radio buttons, and keyId starts at 0.  *)
(***************************************************************************)
EXTENDS Naturals, Sequences

CONSTANTS Keys,         \* the radio buttons, 0 the first
          LnTaps,       \* bound: taps on the screen
          LnScreens     \* bound: instances of the activity

ASSUME LnAssumption == 0 \in Keys /\ LnTaps \in Nat /\ LnScreens \in Nat

VARIABLES
    lnProcess,      \* whether the process is there
    lnIr,           \* whether IrDemoMain has made its Ir
    lnScreen,       \* the instance on the screen, 0 before the first
    radio,          \* per instance, the radio button that is checked
    keyId,          \* per instance, the field keyId
    learnClickable, \* per instance, whether learn takes taps
    status,         \* the text of the one static view
    lnLearn,        \* the learnings, in the order they were started
    lnQueue,        \* the main thread's messages
    lnTapped,       \* taps so far
    untouched       \* per instance: restored, and no radio button tapped since

lnVars == <<lnProcess, lnIr, lnScreen, radio, keyId, learnClickable, status,
            lnLearn, lnQueue, lnTapped, untouched>>

LnInstances == 1..LnScreens
LnResult == [what |-> "result", key |-> 0, screen |-> 0]
LnTap(what, key) == [what |-> what, key |-> key, screen |-> lnScreen]

LnInit ==
    /\ lnProcess = "closed" /\ lnIr \in BOOLEAN /\ lnScreen = 0
    /\ radio = [s \in LnInstances |-> 0]
    /\ keyId = [s \in LnInstances |-> 0]
    /\ learnClickable = [s \in LnInstances |-> TRUE]
    /\ status = "" /\ lnLearn = << >> /\ lnQueue = << >>
    /\ lnTapped = 0
    /\ untouched = [s \in LnInstances |-> FALSE]

\* onCreate, and the restoring of the state of the instance before it.
LnOnCreate ==
    /\ lnProcess # "dead" /\ lnScreen < LnScreens
    /\ lnProcess' = "running" /\ lnScreen' = lnScreen + 1
    /\ status' = ""
    /\ \/ UNCHANGED <<radio, untouched>>
       \/ /\ lnScreen > 0
          /\ radio' = [radio EXCEPT ![lnScreen + 1] = radio[lnScreen]]
          /\ untouched' = [untouched EXCEPT ![lnScreen + 1] = TRUE]
    /\ UNCHANGED <<lnIr, keyId, learnClickable, lnLearn, lnQueue, lnTapped>>

\* The screen takes the tap, if the button is clickable: its listener is
\* queued.
LnTouch ==
    /\ lnProcess = "running" /\ lnTapped < LnTaps
    /\ lnTapped' = lnTapped + 1
    /\ \/ \E key \in Keys : lnQueue' = Append(lnQueue, LnTap("radio", key))
       \/ /\ learnClickable[lnScreen]
          /\ lnQueue' = Append(lnQueue, LnTap("learn", 0))
       \/ lnQueue' = Append(lnQueue, LnTap("send", 0))
    /\ UNCHANGED <<lnProcess, lnIr, lnScreen, radio, keyId, learnClickable,
                   status, lnLearn, untouched>>

Delivers(what) ==
    /\ lnProcess = "running"
    /\ lnQueue # << >> /\ Head(lnQueue).what = what
    /\ what # "result" => Head(lnQueue).screen = lnScreen
    /\ lnQueue' = Tail(lnQueue)
    /\ UNCHANGED <<lnScreen, lnIr, lnTapped>>

\* The tap waited for a button of an earlier instance.
LnDropsTap ==
    /\ lnProcess = "running" /\ lnQueue # << >>
    /\ Head(lnQueue).what # "result" /\ Head(lnQueue).screen # lnScreen
    /\ lnQueue' = Tail(lnQueue)
    /\ UNCHANGED <<lnProcess, lnIr, lnScreen, radio, keyId, learnClickable,
                   status, lnLearn, lnTapped, untouched>>

\* Learnings of instance s whose thread has not read keyId see the new choice.
SeenBy(s, key) ==
    [k \in DOMAIN lnLearn |->
        IF lnLearn[k].screen = s /\ lnLearn[k].at = "started"
        THEN [lnLearn[k] EXCEPT !.seen = @ \cup {key}]
        ELSE lnLearn[k]]

\* A listener pasted from the one before it: the key of the first button.
MutOnRadio ==
    /\ Delivers("radio")
    /\ LET key == Head(lnQueue).key IN
        /\ radio' = [radio EXCEPT ![lnScreen] = key]
        /\ keyId' = [keyId EXCEPT ![lnScreen] = 0]
        /\ lnLearn' = SeenBy(lnScreen, key)
    /\ untouched' = [untouched EXCEPT ![lnScreen] = FALSE]
    /\ UNCHANGED <<lnProcess, learnClickable, status>>

OnRadio ==
    /\ Delivers("radio")
    /\ LET key == Head(lnQueue).key IN
        /\ radio' = [radio EXCEPT ![lnScreen] = key]
        /\ keyId' = [keyId EXCEPT ![lnScreen] = key]
        /\ lnLearn' = SeenBy(lnScreen, key)
    /\ untouched' = [untouched EXCEPT ![lnScreen] = FALSE]
    /\ UNCHANGED <<lnProcess, learnClickable, status>>

OnLearn ==
    /\ Delivers("learn")
    /\ learnClickable' = [learnClickable EXCEPT ![lnScreen] = FALSE]
    /\ status' = "BUSY..."
    /\ lnLearn' = Append(lnLearn,
            [screen |-> lnScreen, at |-> "started", key |-> 0,
             seen |-> {radio[lnScreen]}, untouched |-> untouched[lnScreen]])
    /\ UNCHANGED <<lnProcess, radio, keyId, untouched>>

\* send is made clickable again before its listener returns.
OnSend ==
    /\ Delivers("send")
    /\ \/ lnIr /\ status' \in {"SD", status} /\ UNCHANGED lnProcess
       \/ ~lnIr /\ lnProcess' = "dead" /\ UNCHANGED status
    /\ UNCHANGED <<radio, keyId, learnClickable, lnLearn, untouched>>

\* LearnHandler: status is static, the message may be of an older instance.
HandleLearnt ==
    /\ Delivers("result")
    /\ status' = "LN"
    /\ UNCHANGED <<lnProcess, radio, keyId, learnClickable, lnLearn, untouched>>

\* The thread: it reads keyId of its own instance, learns, sends its message
\* unless learnShort throws, and makes the button clickable.
ReadKeyId(k) ==
    /\ lnProcess = "running" /\ lnLearn[k].at = "started"
    /\ IF lnIr
       THEN /\ lnLearn' = [lnLearn EXCEPT ![k].at = "learning",
                                ![k].key = keyId[lnLearn[k].screen]]
            /\ UNCHANGED lnProcess
       ELSE lnProcess' = "dead" /\ UNCHANGED lnLearn
    /\ UNCHANGED <<lnIr, lnScreen, radio, keyId, learnClickable, status,
                   lnQueue, lnTapped, untouched>>

LearnReturns(k) ==
    /\ lnProcess = "running" /\ lnLearn[k].at = "learning"
    /\ lnLearn' = [lnLearn EXCEPT ![k].at = "sent"]
    /\ lnQueue' \in {Append(lnQueue, LnResult), lnQueue}
    /\ UNCHANGED <<lnProcess, lnIr, lnScreen, radio, keyId, learnClickable,
                   status, lnTapped, untouched>>

SetClickable(k) ==
    /\ lnProcess = "running" /\ lnLearn[k].at = "sent"
    /\ lnLearn' = [lnLearn EXCEPT ![k].at = "ended"]
    /\ learnClickable' = [learnClickable EXCEPT ![lnLearn[k].screen] = TRUE]
    /\ UNCHANGED <<lnProcess, lnIr, lnScreen, radio, keyId, status, lnQueue,
                   lnTapped, untouched>>

LnMain == LnOnCreate \/ LnDropsTap \/ OnRadio \/ OnLearn \/ OnSend \/ HandleLearnt

LnNext ==
    \/ LnTouch
    \/ LnMain
    \/ \E k \in DOMAIN lnLearn :
            ReadKeyId(k) \/ LearnReturns(k) \/ SetClickable(k)

LnSpec == LnInit /\ [][LnNext]_lnVars

----------------------------------------------------------------------------
\* The key a thread learns is one that was checked on its screen at some time
\* since learn was pressed, although the thread reads a field another tap or a
\* re-creation may have changed.  The exception is a screen whose radio
\* buttons were restored and not tapped since: there keyId is 0 whatever
\* button is checked (the listeners, and the thread at line 110).
LearntKeyWasChecked ==
    \A k \in DOMAIN lnLearn :
        lnLearn[k].at # "started" =>
            lnLearn[k].key \in lnLearn[k].seen \/ lnLearn[k].untouched
=============================================================================
