------------------------------ MODULE IrProofs ------------------------------
(***************************************************************************)
(* Proofs about the two screens that learn infrared keys, for any number   *)
(* of taps, keys and instances of the activities.                          *)
(***************************************************************************)
EXTENDS IrDemo, IrDemoLearn, TLAPS

(***************************************************************************)
(* IrDemoLearn.  A thread that has not read keyId yet will find a key that *)
(* was checked since its press, because every tap changes the field and    *)
(* the buttons together.                                                   *)
(***************************************************************************)
KeyLearning ==
    [screen : LnInstances, at : {"started", "learning", "sent", "ended"},
     key : Keys, seen : SUBSET Keys, untouched : BOOLEAN]

KeyMessage ==
    [what : {"radio", "learn", "send", "result"}, key : Keys, screen : Nat]

LnTyped ==
    /\ lnProcess \in {"closed", "running", "dead"}
    /\ lnScreen \in 0..LnScreens
    /\ lnProcess = "running" => lnScreen \in LnInstances
    /\ radio \in [LnInstances -> Keys] /\ keyId \in [LnInstances -> Keys]
    /\ untouched \in [LnInstances -> BOOLEAN]
    /\ lnLearn \in Seq(KeyLearning)
    /\ lnQueue \in Seq(KeyMessage)

\* The field and the buttons agree, but on a restored screen.
FieldIsButton == \A s \in LnInstances : untouched[s] \/ keyId[s] = radio[s]

\* The key a waiting thread would read now.
WillReadChecked ==
    \A k \in 1..Len(lnLearn) :
        lnLearn[k].at = "started" =>
            lnLearn[k].untouched \/ keyId[lnLearn[k].screen] \in lnLearn[k].seen

LnInv == LnTyped /\ FieldIsButton /\ WillReadChecked /\ LearntKeyWasChecked

\* The initial state satisfies the invariant.
LEMMA LnInitInv == LnInit => LnInv
<1> SUFFICES ASSUME LnInit PROVE LnInv
    OBVIOUS
<1>1. /\ Len(lnLearn) = 0 /\ DOMAIN lnLearn = {}
      /\ lnLearn \in Seq(KeyLearning) /\ lnQueue \in Seq(KeyMessage)
    <2>1. lnLearn = << >> /\ lnQueue = << >>
        BY DEF LnInit
    <2>2. Len(lnLearn) = 0 /\ lnLearn \in Seq(KeyLearning)
        BY <2>1
    <2>3. DOMAIN lnLearn = 1..Len(lnLearn)
        BY <2>2
    <2> QED
        BY <2>1, <2>2, <2>3
<1>2. /\ radio = [s \in LnInstances |-> 0]
      /\ keyId = [s \in LnInstances |-> 0]
      /\ untouched = [s \in LnInstances |-> FALSE]
      /\ lnProcess = "closed" /\ lnScreen = 0
    BY DEF LnInit
<1>3. LnTyped
    <2>1. 0 \in Keys /\ 0 \in 0..LnScreens
        BY LnAssumption
    <2> QED
        BY <1>1, <1>2, <2>1 DEF LnTyped
<1>4. FieldIsButton
    BY <1>2 DEF FieldIsButton
<1>5. WillReadChecked /\ LearntKeyWasChecked
    BY <1>1 DEF WillReadChecked, LearntKeyWasChecked
<1> QED
    BY <1>3, <1>4, <1>5 DEF LnInv

\* What a delivered message is.
LEMMA Delivered ==
    ASSUME LnTyped, NEW what, Delivers(what), what # "result"
    PROVE  /\ lnProcess = "running" /\ lnScreen \in LnInstances
           /\ Head(lnQueue).key \in Keys
           /\ lnQueue' \in Seq(KeyMessage)
           /\ lnScreen' = lnScreen
<1>1. lnQueue \in Seq(KeyMessage) /\ lnQueue # << >>
    BY DEF LnTyped, Delivers
<1>2. Head(lnQueue) \in KeyMessage /\ Tail(lnQueue) \in Seq(KeyMessage)
    BY <1>1
<1> QED
    BY <1>2 DEF Delivers, LnTyped, KeyMessage

\* A tap on a radio button.
LEMMA OnRadioInv ==
    ASSUME LnInv, OnRadio
    PROVE  LnInv'
<1> DEFINE s == lnScreen
           key == Head(lnQueue).key
<1>1. /\ LnTyped /\ FieldIsButton /\ WillReadChecked /\ LearntKeyWasChecked
      /\ Delivers("radio")
    BY DEF LnInv, OnRadio
<1>2. /\ s \in LnInstances /\ key \in Keys /\ lnQueue' \in Seq(KeyMessage)
      /\ lnScreen' = lnScreen /\ lnProcess' = lnProcess
    BY <1>1, Delivered DEF OnRadio
<1>3. /\ radio' = [radio EXCEPT ![s] = key]
      /\ keyId' = [keyId EXCEPT ![s] = key]
      /\ untouched' = [untouched EXCEPT ![s] = FALSE]
      /\ lnLearn' = SeenBy(s, key)
    BY DEF OnRadio
<1> HIDE DEF s, key
<1>4. /\ radio \in [LnInstances -> Keys] /\ keyId \in [LnInstances -> Keys]
      /\ untouched \in [LnInstances -> BOOLEAN]
      /\ lnLearn \in Seq(KeyLearning)
    BY <1>1 DEF LnTyped
<1>5. /\ Len(lnLearn) \in Nat /\ DOMAIN lnLearn = 1..Len(lnLearn)
      /\ \A k \in 1..Len(lnLearn) : lnLearn[k] \in KeyLearning
    BY <1>4
<1>6. \A k \in 1..Len(lnLearn) :
        lnLearn'[k] = IF lnLearn[k].screen = s /\ lnLearn[k].at = "started"
                      THEN [lnLearn[k] EXCEPT !.seen = @ \cup {key}]
                      ELSE lnLearn[k]
    BY <1>3, <1>5 DEF SeenBy
<1>7. \A k \in 1..Len(lnLearn) : [lnLearn[k] EXCEPT !.seen = @ \cup {key}]
                                    \in KeyLearning
    BY <1>2, <1>5 DEF KeyLearning
<1>8. \A k \in 1..Len(lnLearn) :
        /\ lnLearn'[k] \in KeyLearning
        /\ lnLearn'[k].screen = lnLearn[k].screen
        /\ lnLearn'[k].at = lnLearn[k].at
        /\ lnLearn'[k].key = lnLearn[k].key
        /\ lnLearn'[k].untouched = lnLearn[k].untouched
        /\ lnLearn[k].at # "started" => lnLearn'[k].seen = lnLearn[k].seen
        /\ lnLearn[k].seen \subseteq lnLearn'[k].seen
        /\ lnLearn[k].at = "started" /\ lnLearn[k].screen = s
                => key \in lnLearn'[k].seen
    <2> SUFFICES ASSUME NEW k \in 1..Len(lnLearn)
                 PROVE  /\ lnLearn'[k] \in KeyLearning
                        /\ lnLearn'[k].screen = lnLearn[k].screen
                        /\ lnLearn'[k].at = lnLearn[k].at
                        /\ lnLearn'[k].key = lnLearn[k].key
                        /\ lnLearn'[k].untouched = lnLearn[k].untouched
                        /\ lnLearn[k].at # "started"
                                => lnLearn'[k].seen = lnLearn[k].seen
                        /\ lnLearn[k].seen \subseteq lnLearn'[k].seen
                        /\ lnLearn[k].at = "started" /\ lnLearn[k].screen = s
                                => key \in lnLearn'[k].seen
        OBVIOUS
    <2> DEFINE r == lnLearn[k]
    <2>1. r \in KeyLearning
        BY <1>5
    <2>2. CASE r.screen = s /\ r.at = "started"
        <3>1. lnLearn'[k] = [r EXCEPT !.seen = @ \cup {key}]
            BY <1>6, <2>2
        <3> HIDE DEF r
        <3>2. lnLearn'[k] \in KeyLearning
            BY <1>7, <3>1 DEF r
        <3>3. /\ lnLearn'[k].seen = r.seen \cup {key}
              /\ lnLearn'[k].screen = r.screen /\ lnLearn'[k].at = r.at
              /\ lnLearn'[k].key = r.key /\ lnLearn'[k].untouched = r.untouched
            BY <2>1, <3>1 DEF KeyLearning
        <3> QED
            BY <2>2, <3>2, <3>3 DEF r
    <2>3. CASE ~(r.screen = s /\ r.at = "started")
        BY <1>6, <2>1, <2>3
    <2> QED
        BY <2>2, <2>3
<1>9. /\ lnLearn' \in Seq(KeyLearning) /\ Len(lnLearn') = Len(lnLearn)
      /\ DOMAIN lnLearn' = 1..Len(lnLearn)
    <2>1. lnLearn' = [k \in 1..Len(lnLearn) |-> lnLearn'[k]]
        BY <1>3, <1>5 DEF SeenBy
    <2>2. lnLearn' \in [1..Len(lnLearn) -> KeyLearning]
        BY <1>8, <2>1
    <2> QED
        BY <1>5, <2>2
<1>10. /\ keyId' \in [LnInstances -> Keys] /\ radio' \in [LnInstances -> Keys]
       /\ untouched' \in [LnInstances -> BOOLEAN]
       /\ keyId'[s] = key /\ radio'[s] = key
       /\ \A r \in LnInstances : r # s =>
            /\ keyId'[r] = keyId[r] /\ radio'[r] = radio[r]
            /\ untouched'[r] = untouched[r]
    BY <1>2, <1>3, <1>4
<1>11. LnTyped'
    BY <1>1, <1>2, <1>9, <1>10 DEF LnTyped
<1>12. FieldIsButton'
    BY <1>1, <1>10 DEF FieldIsButton
<1>13. WillReadChecked'
    <2> SUFFICES ASSUME NEW k \in 1..Len(lnLearn), lnLearn'[k].at = "started",
                        ~lnLearn'[k].untouched
                 PROVE  keyId'[lnLearn'[k].screen] \in lnLearn'[k].seen
        BY <1>9 DEF WillReadChecked
    <2>1. lnLearn[k].screen \in LnInstances
        BY <1>5 DEF KeyLearning
    <2>2. CASE lnLearn[k].screen = s
        BY <1>8, <1>10, <2>2
    <2>3. CASE lnLearn[k].screen # s
        BY <1>1, <1>8, <1>10, <2>1, <2>3 DEF WillReadChecked
    <2> QED
        BY <2>2, <2>3
<1>14. LearntKeyWasChecked'
    BY <1>1, <1>5, <1>8, <1>9 DEF LearntKeyWasChecked
<1> QED
    BY <1>11, <1>12, <1>13, <1>14 DEF LnInv

\* The button learn: the new thread has seen the button that is checked.
LEMMA OnLearnInv ==
    ASSUME LnInv, OnLearn
    PROVE  LnInv'
<1> DEFINE s == lnScreen
           new == [screen |-> s, at |-> "started", key |-> 0,
                   seen |-> {radio[s]}, untouched |-> untouched[s]]
           n == Len(lnLearn)
<1>1. /\ LnTyped /\ FieldIsButton /\ WillReadChecked /\ LearntKeyWasChecked
      /\ Delivers("learn")
    BY DEF LnInv, OnLearn
<1>2. /\ s \in LnInstances /\ lnQueue' \in Seq(KeyMessage)
      /\ lnScreen' = lnScreen
    BY <1>1, Delivered
<1>3. /\ lnLearn' = Append(lnLearn, new)
      /\ UNCHANGED <<lnProcess, radio, keyId, untouched>>
    BY DEF OnLearn
<1>4. /\ radio[s] \in Keys /\ untouched[s] \in BOOLEAN
      /\ lnLearn \in Seq(KeyLearning)
    BY <1>1, <1>2 DEF LnTyped
<1>5. new \in KeyLearning
    BY <1>2, <1>4, LnAssumption DEF KeyLearning
<1>6. /\ new.at = "started" /\ new.screen = s /\ new.seen = {radio[s]}
      /\ new.untouched = untouched[s]
    OBVIOUS
<1> HIDE DEF new
<1>7. /\ lnLearn' \in Seq(KeyLearning) /\ Len(lnLearn') = n + 1 /\ n \in Nat
      /\ lnLearn'[n + 1] = new
      /\ \A k \in 1..n : lnLearn'[k] = lnLearn[k]
      /\ DOMAIN lnLearn' = 1..(n + 1) /\ DOMAIN lnLearn = 1..n
    BY <1>3, <1>4, <1>5
<1> HIDE DEF n
<1>8. \A k \in 1..(n + 1) : k = n + 1 \/ k \in 1..n
    BY <1>7
<1>9. LnTyped'
    BY <1>1, <1>2, <1>3, <1>7 DEF LnTyped
<1>10. FieldIsButton'
    BY <1>1, <1>3 DEF FieldIsButton
<1>11. WillReadChecked'
    <2> SUFFICES ASSUME NEW k \in 1..(n + 1), lnLearn'[k].at = "started",
                        ~lnLearn'[k].untouched
                 PROVE  keyId[lnLearn'[k].screen] \in lnLearn'[k].seen
        BY <1>3, <1>7 DEF WillReadChecked
    <2>1. CASE k = n + 1
        BY <1>1, <1>2, <1>6, <1>7, <2>1 DEF FieldIsButton
    <2>2. CASE k \in 1..n
        BY <1>1, <1>7, <2>2 DEF WillReadChecked, n
    <2> QED
        BY <1>8, <2>1, <2>2
<1>12. LearntKeyWasChecked'
    BY <1>1, <1>6, <1>7, <1>8 DEF LearntKeyWasChecked
<1> QED
    BY <1>9, <1>10, <1>11, <1>12 DEF LnInv

\* A step of a thread changes the stage of its learning only; what it reads
\* was checked.
LEMMA ThreadInv ==
    ASSUME LnInv, NEW k \in DOMAIN lnLearn,
           ReadKeyId(k) \/ LearnReturns(k) \/ SetClickable(k)
    PROVE  LnInv'
<1>1. LnTyped /\ FieldIsButton /\ WillReadChecked /\ LearntKeyWasChecked
    BY DEF LnInv
<1>2. /\ lnLearn \in Seq(KeyLearning) /\ DOMAIN lnLearn = 1..Len(lnLearn)
      /\ keyId \in [LnInstances -> Keys] /\ lnQueue \in Seq(KeyMessage)
    BY <1>1 DEF LnTyped
<1>3. lnLearn[k] \in KeyLearning
    BY <1>2
<1>4. /\ UNCHANGED <<lnScreen, radio, keyId, untouched>>
      /\ lnProcess' \in {lnProcess, "dead"}
    BY DEF ReadKeyId, LearnReturns, SetClickable
<1>5. lnQueue' \in Seq(KeyMessage)
    <2>1. LnResult \in KeyMessage
        BY LnAssumption DEF LnResult, KeyMessage
    <2>2. lnQueue' = lnQueue \/ lnQueue' = Append(lnQueue, LnResult)
        BY DEF ReadKeyId, LearnReturns, SetClickable
    <2> QED
        BY <1>2, <2>1, <2>2
<1>6. CASE UNCHANGED lnLearn
    BY <1>1, <1>4, <1>5, <1>6 DEF LnInv, LnTyped, FieldIsButton,
        WillReadChecked, LearntKeyWasChecked
<1>7. CASE ~UNCHANGED lnLearn
    <2>1. PICK r \in KeyLearning :
            /\ lnLearn' = [lnLearn EXCEPT ![k] = r]
            /\ r.at # "started"
            /\ r.key \in r.seen \/ r.untouched
        <3>1. CASE ReadKeyId(k)
            <4> DEFINE r == [lnLearn[k] EXCEPT !.at = "learning",
                                !.key = keyId[lnLearn[k].screen]]
            <4>1. lnLearn[k].screen \in LnInstances
                BY <1>3 DEF KeyLearning
            <4>2. keyId[lnLearn[k].screen] \in Keys
                BY <1>2, <4>1
            <4>3. r \in KeyLearning /\ r.at = "learning"
                    /\ r.key = keyId[lnLearn[k].screen]
                    /\ r.seen = lnLearn[k].seen
                    /\ r.untouched = lnLearn[k].untouched
                BY <1>3, <4>2 DEF KeyLearning
            <4>4. lnLearn' = [lnLearn EXCEPT ![k] = r]
                BY <1>7, <3>1 DEF ReadKeyId
            <4>5. lnLearn[k].untouched \/ keyId[lnLearn[k].screen]
                        \in lnLearn[k].seen
                BY <1>1, <1>2, <3>1 DEF WillReadChecked, ReadKeyId
            <4> QED
                BY <4>3, <4>4, <4>5
        <3>2. CASE LearnReturns(k) \/ SetClickable(k)
            <4>1. PICK at \in {"sent", "ended"} :
                    /\ lnLearn' = [lnLearn EXCEPT ![k].at = at]
                    /\ lnLearn[k].at # "started"
                BY <3>2 DEF LearnReturns, SetClickable
            <4> DEFINE r == [lnLearn[k] EXCEPT !.at = at]
            <4>2. r \in KeyLearning /\ r.at = at /\ r.key = lnLearn[k].key
                    /\ r.seen = lnLearn[k].seen
                    /\ r.untouched = lnLearn[k].untouched
                BY <1>3 DEF KeyLearning
            <4>3. lnLearn' = [lnLearn EXCEPT ![k] = r]
                BY <4>1
            <4>4. lnLearn[k].key \in lnLearn[k].seen \/ lnLearn[k].untouched
                BY <1>1, <4>1 DEF LearntKeyWasChecked
            <4> QED
                BY <4>2, <4>3, <4>4
        <3> QED
            BY <3>1, <3>2
    <2>2. /\ lnLearn' \in Seq(KeyLearning) /\ Len(lnLearn') = Len(lnLearn)
          /\ DOMAIN lnLearn' = DOMAIN lnLearn /\ lnLearn'[k] = r
          /\ \A j \in DOMAIN lnLearn : j # k => lnLearn'[j] = lnLearn[j]
        BY <1>2, <2>1
    <2>3. LnTyped'
        BY <1>1, <1>4, <1>5, <2>2 DEF LnTyped
    <2>4. FieldIsButton'
        BY <1>1, <1>4 DEF FieldIsButton
    <2>5. WillReadChecked'
        BY <1>1, <1>2, <1>4, <2>1, <2>2 DEF WillReadChecked
    <2>6. LearntKeyWasChecked'
        BY <1>1, <2>1, <2>2 DEF LearntKeyWasChecked
    <2> QED
        BY <2>3, <2>4, <2>5, <2>6 DEF LnInv
<1> QED
    BY <1>6, <1>7

\* The other steps leave the field alone; a restored screen is marked.
LEMMA OtherLnInv ==
    ASSUME LnInv,
           LnTouch \/ LnOnCreate \/ LnDropsTap \/ OnSend \/ HandleLearnt
    PROVE  LnInv'
<1>1. LnTyped /\ FieldIsButton /\ WillReadChecked /\ LearntKeyWasChecked
    BY DEF LnInv
<1>2. UNCHANGED <<keyId, lnLearn>>
    BY DEF LnTouch, LnOnCreate, LnDropsTap, OnSend, HandleLearnt
<1>3. lnQueue \in Seq(KeyMessage) /\ lnScreen \in 0..LnScreens
    BY <1>1 DEF LnTyped
<1>4. lnQueue' \in Seq(KeyMessage)
    <2>1. lnScreen \in Nat
        BY <1>3
    <2>2. CASE LnTouch
        <3>1. PICK what \in {"radio", "learn", "send"}, key \in Keys :
                lnQueue' = Append(lnQueue, LnTap(what, key))
            BY <2>2, LnAssumption DEF LnTouch
        <3>2. LnTap(what, key) \in KeyMessage
            BY <2>1 DEF LnTap, KeyMessage
        <3> QED
            BY <1>3, <3>1, <3>2
    <2>3. CASE LnDropsTap \/ OnSend \/ HandleLearnt
        <3>1. lnQueue # << >> /\ lnQueue' = Tail(lnQueue)
            BY <2>3 DEF LnDropsTap, OnSend, HandleLearnt, Delivers
        <3> QED
            BY <1>3, <3>1
    <2>4. CASE LnOnCreate
        BY <1>3, <2>4 DEF LnOnCreate
    <2> QED
        BY <2>2, <2>3, <2>4
<1>5. /\ LnTyped' /\ FieldIsButton'
    <2>1. CASE LnOnCreate
        <3>0. /\ lnScreen < LnScreens /\ lnScreen' = lnScreen + 1
              /\ lnProcess' = "running"
            BY <2>1 DEF LnOnCreate
        <3>1. /\ lnScreen + 1 \in LnInstances /\ lnScreen' = lnScreen + 1
              /\ lnProcess' = "running"
            BY <1>3, <3>0, LnAssumption DEF LnInstances
        <3>2. /\ radio \in [LnInstances -> Keys]
              /\ untouched \in [LnInstances -> BOOLEAN]
            BY <1>1 DEF LnTyped
        <3>3. lnScreen + 1 \in 0..LnScreens
            BY <3>1, LnAssumption DEF LnInstances
        <3>4. CASE UNCHANGED <<radio, untouched>>
            BY <1>1, <1>2, <1>4, <3>1, <3>3, <3>4 DEF LnTyped, FieldIsButton
        <3>5. CASE ~UNCHANGED <<radio, untouched>>
            <4>1. /\ lnScreen > 0
                  /\ radio' = [radio EXCEPT ![lnScreen + 1] = radio[lnScreen]]
                  /\ untouched' = [untouched EXCEPT ![lnScreen + 1] = TRUE]
                BY <2>1, <3>5 DEF LnOnCreate
            <4>2. lnScreen \in LnInstances
                BY <1>3, <4>1, LnAssumption DEF LnInstances
            <4>3. radio[lnScreen] \in Keys
                BY <3>2, <4>2
            <4> DEFINE new == lnScreen + 1
            <4>4. /\ radio' \in [LnInstances -> Keys]
                  /\ untouched' \in [LnInstances -> BOOLEAN]
                  /\ untouched'[new]
                  /\ \A s \in LnInstances : s # new =>
                        radio'[s] = radio[s] /\ untouched'[s] = untouched[s]
                <5> HIDE DEF new
                <5> QED
                    BY <3>1, <3>2, <4>1, <4>3 DEF new
            <4> QED
                BY <1>1, <1>2, <1>4, <3>1, <3>3, <4>4 DEF LnTyped, FieldIsButton
        <3> QED
            BY <3>4, <3>5
    <2>2. CASE LnTouch \/ LnDropsTap \/ OnSend \/ HandleLearnt
        <3>1. UNCHANGED <<lnScreen, radio, untouched>>
                /\ lnProcess' \in {lnProcess, "dead"}
            BY <2>2 DEF LnTouch, LnDropsTap, OnSend, HandleLearnt, Delivers
        <3> QED
            BY <1>1, <1>2, <1>4, <3>1 DEF LnTyped, FieldIsButton
    <2> QED
        BY <2>1, <2>2
<1>6. WillReadChecked' /\ LearntKeyWasChecked'
    BY <1>1, <1>2 DEF WillReadChecked, LearntKeyWasChecked
<1> QED
    BY <1>5, <1>6 DEF LnInv

\* The thread that learns finds a key the user had checked since the press,
\* unless the buttons of its screen were restored and not tapped since.
THEOREM LearntKeysWereChecked == LnSpec => []LearntKeyWasChecked
<1>1. LnInv /\ [LnNext]_lnVars => LnInv'
    <2> SUFFICES ASSUME LnInv, [LnNext]_lnVars PROVE LnInv'
        OBVIOUS
    <2>1. CASE UNCHANGED lnVars
        BY <2>1 DEF lnVars, LnInv, LnTyped, FieldIsButton, WillReadChecked,
            LearntKeyWasChecked
    <2> QED
        BY <2>1, OnRadioInv, OnLearnInv, ThreadInv, OtherLnInv
           DEF LnNext, LnMain
<1>2. LnInv => LearntKeyWasChecked
    BY DEF LnInv
<1> QED
    BY <1>1, <1>2, LnInitInv, PTL DEF LnSpec
(***************************************************************************)
(* IrDemo.  At most the last learning of an instance is under way, because *)
(* a new one starts only when the flag is down, and the flag goes down     *)
(* after the message is queued.  So the messages of an instance wait in    *)
(* the order of their learnings, and the last one is shown last.           *)
(***************************************************************************)
IrLearning ==
    [screen : Instances, at : {"learning", "sent", "ended"}, threw : BOOLEAN]

IrMessage == [what : {"button1", "button2", "result"}, of : Nat]

IrTyped ==
    /\ irProcess \in {"closed", "running", "dead"}
    /\ irScreen \in 0..IrScreens
    /\ irProcess = "running" => irScreen \in Instances
    /\ irClick \in BOOLEAN /\ (irClick => irProcess = "running")
    /\ learning \in [Instances -> BOOLEAN]
    /\ DOMAIN text = Instances
    /\ irLearn \in Seq(IrLearning)
    /\ irQueue \in Seq(IrMessage)

\* A learning that is under way is the last of its instance, the flag is up.
OneUnderWay ==
    \A k \in 1..Len(irLearn) :
        irLearn[k].at # "ended" =>
            /\ learning[irLearn[k].screen]
            /\ \A j \in 1..Len(irLearn) :
                    irLearn[j].screen = irLearn[k].screen => j <= k

\* The message at place i is the result of a learning of instance s.
Waits(i, s) ==
    /\ irQueue[i].what = "result"
    /\ irLearn[irQueue[i].of].screen = s

\* Messages are of learnings that have returned.
MessagesAreResults ==
    \A i \in 1..Len(irQueue) :
        irQueue[i].what = "result" =>
            /\ irQueue[i].of \in 1..Len(irLearn)
            /\ irLearn[irQueue[i].of].at # "learning"

\* The messages of an instance wait in the order of its learnings.
MessagesInOrder ==
    \A i, j \in 1..Len(irQueue) : \A s \in Instances :
        i < j /\ Waits(i, s) /\ Waits(j, s) => irQueue[i].of < irQueue[j].of

\* Learning k is the last of instance s.
IsLast(k, s) ==
    /\ irLearn[k].screen = s
    /\ \A j \in 1..Len(irLearn) : irLearn[j].screen = s => j <= k

\* The result of the last learning waits to be shown, or is shown and nothing
\* waits to replace it.
LastWaitsOrStays ==
    \A s \in Instances : \A k \in 1..Len(irLearn) :
        IsLast(k, s) /\ irLearn[k].at # "learning" /\ ~irLearn[k].threw =>
            \/ \E i \in 1..Len(irQueue) :
                    irQueue[i].what = "result" /\ irQueue[i].of = k
            \/ /\ text[s] = ResultOf(k)
               /\ \A i \in 1..Len(irQueue) : ~Waits(i, s)

IrInv ==
    /\ IrTyped /\ OneUnderWay /\ MessagesAreResults
    /\ MessagesInOrder /\ LastWaitsOrStays

\* The initial state satisfies the invariant.
LEMMA IrInitInv == IrInit => IrInv
<1> SUFFICES ASSUME IrInit PROVE IrInv
    OBVIOUS
<1>1. /\ irLearn = << >> /\ irQueue = << >>
      /\ learning = [s \in Instances |-> FALSE]
      /\ text = [s \in Instances |-> Idle]
      /\ irProcess = "closed" /\ irScreen = 0 /\ irClick = FALSE
    BY DEF IrInit
<1>2. /\ Len(irLearn) = 0 /\ Len(irQueue) = 0
      /\ irLearn \in Seq(IrLearning) /\ irQueue \in Seq(IrMessage)
    BY <1>1
<1>3. 0 \in 0..IrScreens
    BY IrAssumption
<1>4. IrTyped
    BY <1>1, <1>2, <1>3 DEF IrTyped
<1>5. /\ OneUnderWay /\ MessagesAreResults /\ MessagesInOrder
      /\ LastWaitsOrStays
    BY <1>2 DEF OneUnderWay, MessagesAreResults, MessagesInOrder,
        LastWaitsOrStays
<1> QED
    BY <1>4, <1>5 DEF IrInv

\* What holds between two states in which the learnings, the flags and the
\* texts are the same and the queue has grown by a tap or not at all.
LEMMA QuietIrInv ==
    ASSUME IrInv, IrTyped', UNCHANGED <<learning, text, irLearn>>,
           \/ UNCHANGED irQueue
           \/ \E m \in IrMessage :
                m.what # "result" /\ irQueue' = Append(irQueue, m)
    PROVE  IrInv'
<1>1. IrTyped /\ OneUnderWay /\ MessagesAreResults /\ MessagesInOrder
        /\ LastWaitsOrStays
    BY DEF IrInv
<1>2. CASE UNCHANGED irQueue
    BY <1>1, <1>2 DEF IrInv, OneUnderWay, MessagesAreResults, MessagesInOrder,
        LastWaitsOrStays, Waits, IsLast
<1>3. ASSUME NEW m \in IrMessage, m.what # "result",
             irQueue' = Append(irQueue, m)
      PROVE  IrInv'
    <2> DEFINE n == Len(irQueue)
    <2>1. irQueue \in Seq(IrMessage)
        BY <1>1 DEF IrTyped
    <2>2. /\ n \in Nat /\ Len(irQueue') = n + 1 /\ irQueue'[n + 1] = m
          /\ \A i \in 1..n : irQueue'[i] = irQueue[i]
        BY <1>3, <2>1
    <2> HIDE DEF n
    <2>3. /\ \A i \in 1..(n + 1) : i = n + 1 \/ i \in 1..n
          /\ \A i \in 1..n : i \in 1..(n + 1)
        BY <2>2
    <2>4. /\ \A i \in 1..(n + 1) : irQueue'[i].what = "result"
                => i \in 1..n /\ irQueue'[i] = irQueue[i]
          /\ \A i \in 1..(n + 1), s \in Instances : Waits(i, s)'
                => i \in 1..n /\ irQueue'[i] = irQueue[i] /\ Waits(i, s)
        BY <1>3, <2>2, <2>3 DEF Waits
    <2>5. OneUnderWay'
        BY <1>1 DEF OneUnderWay
    <2>6. MessagesAreResults'
        BY <1>1, <2>2, <2>4 DEF MessagesAreResults, n
    <2>7. MessagesInOrder'
        BY <1>1, <2>2, <2>4 DEF MessagesInOrder, n
    <2>8. LastWaitsOrStays'
        <3> SUFFICES ASSUME NEW s \in Instances, NEW k \in 1..Len(irLearn),
                            IsLast(k, s), irLearn[k].at # "learning",
                            ~irLearn[k].threw
                     PROVE  \/ \E i \in 1..(n + 1) :
                                    irQueue'[i].what = "result"
                                        /\ irQueue'[i].of = k
                            \/ /\ text[s] = ResultOf(k)
                               /\ \A i \in 1..(n + 1) : ~Waits(i, s)'
            BY <2>2 DEF LastWaitsOrStays, IsLast
        <3>1. \/ \E i \in 1..n :
                    irQueue[i].what = "result" /\ irQueue[i].of = k
              \/ /\ text[s] = ResultOf(k)
                 /\ \A i \in 1..n : ~Waits(i, s)
            BY <1>1 DEF LastWaitsOrStays, n
        <3> QED
            BY <2>2, <2>3, <2>4, <3>1
    <2> QED
        BY <2>5, <2>6, <2>7, <2>8 DEF IrInv
<1> QED
    BY <1>2, <1>3

\* The head of the queue goes: the messages behind it move up by one place.
LEMMA QueueMoves ==
    ASSUME IrTyped, irQueue # << >>, irQueue' = Tail(irQueue),
           UNCHANGED irLearn
    PROVE  /\ irQueue' \in Seq(IrMessage)
           /\ Len(irQueue) \in Nat /\ 1 \in 1..Len(irQueue)
           /\ Head(irQueue) = irQueue[1] /\ Head(irQueue) \in IrMessage
           /\ Len(irQueue') = Len(irQueue) - 1
           /\ \A i \in 1..Len(irQueue') :
                /\ i + 1 \in 1..Len(irQueue) /\ i + 1 > 1
                /\ irQueue'[i] = irQueue[i + 1]
                /\ \A s \in Instances : Waits(i, s)' <=> Waits(i + 1, s)
           /\ \A i \in 1..Len(irQueue) : i = 1 \/
                (i - 1 \in 1..Len(irQueue') /\ irQueue'[i - 1] = irQueue[i])
<1>1. irQueue \in Seq(IrMessage)
    BY DEF IrTyped
<1>2. /\ irQueue' \in Seq(IrMessage)
      /\ Len(irQueue) \in Nat /\ Len(irQueue) # 0
      /\ Head(irQueue) = irQueue[1]
      /\ Len(irQueue') = Len(irQueue) - 1
      /\ \A i \in 1..Len(irQueue') : irQueue'[i] = irQueue[i + 1]
    BY <1>1
<1>3. 1 \in 1..Len(irQueue)
    BY <1>2
<1>4. Head(irQueue) \in IrMessage
    BY <1>1, <1>2, <1>3
<1>5. \A i \in 1..Len(irQueue') : i + 1 \in 1..Len(irQueue) /\ i + 1 > 1
    BY <1>2
<1>6. \A i \in 1..Len(irQueue) : i = 1 \/
        (i - 1 \in 1..Len(irQueue') /\ irQueue'[i - 1] = irQueue[i])
    <2> SUFFICES ASSUME NEW i \in 1..Len(irQueue), i # 1
                 PROVE  i - 1 \in 1..Len(irQueue')
                            /\ irQueue'[i - 1] = irQueue[i]
        OBVIOUS
    <2>1. i - 1 \in 1..Len(irQueue') /\ (i - 1) + 1 = i
        BY <1>2
    <2> QED
        BY <1>2, <2>1
<1> QED
    BY <1>2, <1>3, <1>4, <1>5, <1>6 DEF Waits

\* A tap leaves the queue.
LEMMA TakesTapIrInv ==
    ASSUME IrInv, IrTakesTap
    PROVE  IrInv'
<1>1. IrTyped /\ OneUnderWay /\ MessagesAreResults /\ MessagesInOrder
        /\ LastWaitsOrStays
    BY DEF IrInv
<1>2. /\ irQueue # << >> /\ irQueue' = Tail(irQueue)
      /\ Head(irQueue).what # "result" /\ irProcess = "running"
      /\ irClick' \in BOOLEAN
      /\ UNCHANGED <<irProcess, irScreen, learning, text, irLearn>>
    BY DEF IrTakesTap, IrTakes
<1>3. IrTyped'
    BY <1>1, <1>2, QueueMoves DEF IrTyped
<1>4. OneUnderWay'
    BY <1>1, <1>2 DEF OneUnderWay
<1>5. MessagesAreResults'
    BY <1>1, <1>2, QueueMoves DEF MessagesAreResults
<1>6. MessagesInOrder'
    <2> SUFFICES ASSUME NEW i \in 1..Len(irQueue'), NEW j \in 1..Len(irQueue'),
                        NEW s \in Instances, i < j, Waits(i, s)', Waits(j, s)'
                 PROVE  irQueue'[i].of < irQueue'[j].of
        BY DEF MessagesInOrder
    <2>1. /\ i + 1 \in 1..Len(irQueue) /\ j + 1 \in 1..Len(irQueue)
          /\ Waits(i + 1, s) /\ Waits(j + 1, s) /\ i + 1 < j + 1
          /\ irQueue'[i] = irQueue[i + 1] /\ irQueue'[j] = irQueue[j + 1]
        BY <1>1, <1>2, QueueMoves
    <2> QED
        BY <1>1, <2>1 DEF MessagesInOrder
<1>7. LastWaitsOrStays'
    <2> SUFFICES ASSUME NEW s \in Instances, NEW k \in 1..Len(irLearn),
                        IsLast(k, s), irLearn[k].at # "learning",
                        ~irLearn[k].threw
                 PROVE  \/ \E i \in 1..Len(irQueue') :
                            irQueue'[i].what = "result" /\ irQueue'[i].of = k
                        \/ /\ text[s] = ResultOf(k)
                           /\ \A i \in 1..Len(irQueue') : ~Waits(i, s)'
        BY <1>2 DEF LastWaitsOrStays, IsLast
    <2>1. CASE \E i \in 1..Len(irQueue) :
                    irQueue[i].what = "result" /\ irQueue[i].of = k
        <3>1. PICK i \in 1..Len(irQueue) :
                    irQueue[i].what = "result" /\ irQueue[i].of = k
            BY <2>1
        <3>2. i # 1
            BY <1>1, <1>2, <3>1, QueueMoves
        <3>3. i - 1 \in 1..Len(irQueue') /\ irQueue'[i - 1] = irQueue[i]
            BY <1>1, <1>2, <3>2, QueueMoves
        <3> QED
            BY <3>1, <3>3
    <2>2. CASE text[s] = ResultOf(k) /\ \A i \in 1..Len(irQueue) : ~Waits(i, s)
        BY <1>1, <1>2, <2>2, QueueMoves
    <2> QED
        BY <1>1, <2>1, <2>2 DEF LastWaitsOrStays
<1> QED
    BY <1>3, <1>4, <1>5, <1>6, <1>7 DEF IrInv

\* A result is shown: it is the last one, or the last one still waits.
LEMMA ShowsResultIrInv ==
    ASSUME IrInv, IrShowsResult
    PROVE  IrInv'
<1> DEFINE h == Head(irQueue).of
           t == irLearn[h].screen
<1>1. IrTyped /\ OneUnderWay /\ MessagesAreResults /\ MessagesInOrder
        /\ LastWaitsOrStays
    BY DEF IrInv
<1>2. /\ irQueue # << >> /\ irQueue' = Tail(irQueue)
      /\ Head(irQueue).what = "result"
      /\ text' = [text EXCEPT ![t] = ResultOf(h)]
      /\ UNCHANGED <<irProcess, irScreen, learning, irLearn, irClick>>
    BY DEF IrShowsResult, IrTakes
<1>3. /\ h \in 1..Len(irLearn) /\ 1 \in 1..Len(irQueue)
      /\ irQueue[1].what = "result" /\ irQueue[1].of = h
    BY <1>1, <1>2, QueueMoves DEF MessagesAreResults
<1>4. t \in Instances
    <2>1. irLearn \in Seq(IrLearning)
        BY <1>1 DEF IrTyped
    <2>2. irLearn[h] \in IrLearning
        BY <1>3, <2>1
    <2> QED
        BY <2>2 DEF IrLearning
<1>5. /\ text'[t] = ResultOf(h) /\ DOMAIN text' = Instances
      /\ \A s \in Instances : s # t => text'[s] = text[s]
    BY <1>1, <1>2, <1>4 DEF IrTyped
<1>6. IrTyped'
    BY <1>1, <1>2, <1>5, QueueMoves DEF IrTyped
<1>7. OneUnderWay'
    BY <1>1, <1>2 DEF OneUnderWay
<1>8. MessagesAreResults'
    BY <1>1, <1>2, QueueMoves DEF MessagesAreResults
<1>9. MessagesInOrder'
    <2> SUFFICES ASSUME NEW i \in 1..Len(irQueue'), NEW j \in 1..Len(irQueue'),
                        NEW s \in Instances, i < j, Waits(i, s)', Waits(j, s)'
                 PROVE  irQueue'[i].of < irQueue'[j].of
        BY DEF MessagesInOrder
    <2>1. /\ i + 1 \in 1..Len(irQueue) /\ j + 1 \in 1..Len(irQueue)
          /\ Waits(i + 1, s) /\ Waits(j + 1, s) /\ i + 1 < j + 1
          /\ irQueue'[i] = irQueue[i + 1] /\ irQueue'[j] = irQueue[j + 1]
        BY <1>1, <1>2, QueueMoves
    <2> QED
        BY <1>1, <2>1 DEF MessagesInOrder
<1>10. LastWaitsOrStays'
    <2> SUFFICES ASSUME NEW s \in Instances, NEW k \in 1..Len(irLearn),
                        IsLast(k, s), irLearn[k].at # "learning",
                        ~irLearn[k].threw
                 PROVE  \/ \E i \in 1..Len(irQueue') :
                            irQueue'[i].what = "result" /\ irQueue'[i].of = k
                        \/ /\ text'[s] = ResultOf(k)
                           /\ \A i \in 1..Len(irQueue') : ~Waits(i, s)'
        BY <1>2 DEF LastWaitsOrStays, IsLast
    <2>1. CASE \E i \in 2..Len(irQueue) :
                    irQueue[i].what = "result" /\ irQueue[i].of = k
        <3>1. PICK i \in 2..Len(irQueue) :
                    irQueue[i].what = "result" /\ irQueue[i].of = k
            BY <2>1
        <3>2. i - 1 \in 1..Len(irQueue') /\ irQueue'[i - 1] = irQueue[i]
            BY <1>1, <1>2, QueueMoves
        <3> QED
            BY <3>1, <3>2
    <2>2. CASE h = k
        <3>1. s = t /\ Waits(1, s)
            BY <1>3, <2>2 DEF IsLast, Waits
        <3>2. ASSUME NEW i \in 1..Len(irQueue'), Waits(i, s)' PROVE FALSE
            <4>1. /\ i + 1 \in 1..Len(irQueue) /\ Waits(i + 1, s) /\ 1 < i + 1
                BY <1>1, <1>2, <3>2, QueueMoves
            <4>2. irQueue[1].of < irQueue[i + 1].of
                BY <1>1, <1>3, <3>1, <4>1 DEF MessagesInOrder
            <4>3. /\ irQueue[i + 1].of \in 1..Len(irLearn)
                  /\ irQueue[i + 1].of <= k
                BY <1>1, <4>1 DEF MessagesAreResults, Waits, IsLast
            <4> QED
                BY <1>3, <2>2, <4>2, <4>3
        <3> QED
            BY <1>5, <2>2, <3>1, <3>2
    <2>3. CASE /\ text[s] = ResultOf(k)
               /\ \A i \in 1..Len(irQueue) : ~Waits(i, s)
        <3>1. s # t
            BY <1>3, <2>3 DEF Waits
        <3> QED
            BY <1>1, <1>2, <1>5, <2>3, <3>1, QueueMoves
    <2>4. \A i \in 1..Len(irQueue) : i = 1 \/ i \in 2..Len(irQueue)
        BY <1>1, <1>2, QueueMoves
    <2> QED
        BY <1>1, <1>3, <2>1, <2>2, <2>3, <2>4 DEF LastWaitsOrStays
<1> QED
    BY <1>6, <1>7, <1>8, <1>9, <1>10 DEF IrInv

\* A new learning starts when none of its instance is under way.
LEMMA StartIrInv ==
    ASSUME IrInv, IrStartLearning
    PROVE  IrInv'
<1> DEFINE n == Len(irLearn)
           new == [screen |-> irScreen, at |-> "learning", threw |-> FALSE]
<1>1. IrTyped /\ OneUnderWay /\ MessagesAreResults /\ MessagesInOrder
        /\ LastWaitsOrStays
    BY DEF IrInv
<1>2. /\ irClick /\ ~learning[irScreen] /\ irClick' = FALSE
      /\ learning' = [learning EXCEPT ![irScreen] = TRUE]
      /\ text' = [text EXCEPT ![irScreen] = Learning]
      /\ irLearn' = Append(irLearn, new)
      /\ UNCHANGED <<irProcess, irScreen, irQueue>>
    BY DEF IrStartLearning
<1>3. /\ irScreen \in Instances /\ learning \in [Instances -> BOOLEAN]
      /\ DOMAIN text = Instances /\ irLearn \in Seq(IrLearning)
    BY <1>1, <1>2 DEF IrTyped
<1>4. /\ new \in IrLearning /\ new.screen = irScreen
      /\ new.at = "learning"
    BY <1>3 DEF IrLearning
<1>5. /\ n \in Nat /\ Len(irLearn') = n + 1 /\ irLearn'[n + 1] = new
      /\ \A k \in 1..n : irLearn'[k] = irLearn[k]
      /\ irLearn' \in Seq(IrLearning)
    BY <1>2, <1>3, <1>4
<1> HIDE DEF n, new
<1>6. /\ \A k \in 1..(n + 1) : k = n + 1 \/ k \in 1..n
      /\ \A k \in 1..n : k \in 1..(n + 1) /\ k <= n + 1
    BY <1>5
<1>7. /\ learning' \in [Instances -> BOOLEAN] /\ learning'[irScreen]
      /\ DOMAIN text' = Instances
      /\ \A s \in Instances : s # irScreen =>
            learning'[s] = learning[s] /\ text'[s] = text[s]
    BY <1>2, <1>3
<1>8. \A k \in 1..n : irLearn[k].screen \in Instances
    <2>1. \A k \in 1..n : irLearn[k] \in IrLearning
        BY <1>3 DEF n
    <2> QED
        BY <2>1 DEF IrLearning
<1>9. IrTyped'
    BY <1>1, <1>2, <1>5, <1>7 DEF IrTyped
<1>10. OneUnderWay'
    <2> SUFFICES ASSUME NEW k \in 1..(n + 1), irLearn'[k].at # "ended"
                 PROVE  /\ learning'[irLearn'[k].screen]
                        /\ \A j \in 1..(n + 1) :
                              irLearn'[j].screen = irLearn'[k].screen => j <= k
        BY <1>5 DEF OneUnderWay
    <2>1. CASE k = n + 1
        BY <1>4, <1>5, <1>6, <1>7, <2>1
    <2>2. CASE k \in 1..n
        <3>1. /\ learning[irLearn[k].screen]
              /\ \A j \in 1..n : irLearn[j].screen = irLearn[k].screen => j <= k
            BY <1>1, <1>5, <2>2 DEF OneUnderWay, n
        <3>2. irLearn[k].screen # irScreen
            BY <1>2, <3>1
        <3> QED
            BY <1>4, <1>5, <1>6, <1>7, <1>8, <2>2, <3>1, <3>2
    <2> QED
        BY <1>6, <2>1, <2>2
<1>11. MessagesAreResults'
    BY <1>1, <1>2, <1>5, <1>6 DEF MessagesAreResults, n
<1>12. \A i \in 1..Len(irQueue), s \in Instances : Waits(i, s)' <=> Waits(i, s)
    BY <1>1, <1>2, <1>5 DEF MessagesAreResults, Waits, n
<1>13. MessagesInOrder'
    BY <1>1, <1>2, <1>12 DEF MessagesInOrder
<1>14. LastWaitsOrStays'
    <2> SUFFICES ASSUME NEW s \in Instances, NEW k \in 1..(n + 1),
                        IsLast(k, s)', irLearn'[k].at # "learning",
                        ~irLearn'[k].threw
                 PROVE  \/ \E i \in 1..Len(irQueue) :
                            irQueue[i].what = "result" /\ irQueue[i].of = k
                        \/ /\ text'[s] = ResultOf(k)
                           /\ \A i \in 1..Len(irQueue) : ~Waits(i, s)'
        BY <1>2, <1>5 DEF LastWaitsOrStays
    <2>1. k \in 1..n
        BY <1>4, <1>5, <1>6
    <2>2. IsLast(k, s)
        BY <1>5, <1>6, <2>1 DEF IsLast, n
    <2>3. s # irScreen
        <3>1. ASSUME s = irScreen PROVE FALSE
            <4>1. n + 1 \in 1..(n + 1) /\ irLearn'[n + 1].screen = s
                BY <1>4, <1>5, <3>1
            <4>2. n + 1 <= k
                BY <1>5, <4>1 DEF IsLast
            <4> QED
                BY <1>5, <2>1, <4>2
        <3> QED
            BY <3>1
    <2> QED
        BY <1>1, <1>5, <1>7, <1>12, <2>1, <2>2, <2>3 DEF LastWaitsOrStays, n
<1> QED
    BY <1>9, <1>10, <1>11, <1>13, <1>14 DEF IrInv

\* learnShort returns: the result goes to the end of the queue, behind the
\* results of older learnings of its instance.
LEMMA LearnShortIrInv ==
    ASSUME IrInv, NEW k \in DOMAIN irLearn, LearnShort(k)
    PROVE  IrInv'
<1> DEFINE n == Len(irQueue)
<1>1. IrTyped /\ OneUnderWay /\ MessagesAreResults /\ MessagesInOrder
        /\ LastWaitsOrStays
    BY DEF IrInv
<1>2. /\ irLearn \in Seq(IrLearning) /\ irQueue \in Seq(IrMessage)
      /\ k \in 1..Len(irLearn) /\ irLearn[k] \in IrLearning
      /\ Len(irLearn) \in Nat /\ n \in Nat
    BY <1>1 DEF IrTyped
<1>3. /\ irLearn[k].at = "learning"
      /\ UNCHANGED <<irProcess, irScreen, learning, text, irClick>>
    BY DEF LearnShort
<1>4. PICK r \in IrLearning :
        /\ irLearn' = [irLearn EXCEPT ![k] = r]
        /\ r.at = "sent" /\ r.screen = irLearn[k].screen
        /\ \/ irQueue' = Append(irQueue, Result(k))
           \/ r.threw /\ irQueue' = irQueue
    <2>1. CASE /\ irLearn' = [irLearn EXCEPT ![k].at = "sent"]
               /\ irQueue' = Append(irQueue, Result(k))
        <3> DEFINE r == [irLearn[k] EXCEPT !.at = "sent"]
        <3>1. r \in IrLearning /\ r.at = "sent" /\ r.screen = irLearn[k].screen
            BY <1>2 DEF IrLearning
        <3>2. irLearn' = [irLearn EXCEPT ![k] = r]
            BY <2>1
        <3> QED
            BY <2>1, <3>1, <3>2
    <2>2. CASE /\ irLearn' = [irLearn EXCEPT ![k].at = "sent", ![k].threw = TRUE]
               /\ irQueue' = irQueue
        <3> DEFINE r == [irLearn[k] EXCEPT !.at = "sent", !.threw = TRUE]
        <3>1. /\ r \in IrLearning /\ r.at = "sent"
              /\ r.screen = irLearn[k].screen /\ r.threw
            BY <1>2 DEF IrLearning
        <3>2. irLearn' = [irLearn EXCEPT ![k] = r]
            BY <1>2, <2>2
        <3> QED
            BY <2>2, <3>1, <3>2
    <2> QED
        BY <2>1, <2>2 DEF LearnShort
<1>5. /\ irLearn' \in Seq(IrLearning) /\ Len(irLearn') = Len(irLearn)
      /\ irLearn'[k] = r
      /\ \A j \in 1..Len(irLearn) : j # k => irLearn'[j] = irLearn[j]
      /\ \A j \in 1..Len(irLearn) : irLearn'[j].screen = irLearn[j].screen
    BY <1>2, <1>4
<1>6. /\ Result(k) \in IrMessage /\ Result(k).what = "result"
      /\ Result(k).of = k
    BY <1>2 DEF Result, IrMessage
<1>7. /\ irQueue' \in Seq(IrMessage)
      /\ \A i \in 1..n : i \in 1..Len(irQueue') /\ irQueue'[i] = irQueue[i]
      /\ \A i \in 1..Len(irQueue') :
            \/ i \in 1..n
            \/ i = n + 1 /\ irQueue'[i] = Result(k)
      /\ ~r.threw => n + 1 \in 1..Len(irQueue') /\ irQueue'[n + 1] = Result(k)
    <2>1. CASE irQueue' = Append(irQueue, Result(k))
        <3>1. /\ irQueue' \in Seq(IrMessage) /\ Len(irQueue') = n + 1
              /\ irQueue'[n + 1] = Result(k)
              /\ \A i \in 1..n : irQueue'[i] = irQueue[i]
            BY <1>2, <1>6, <2>1
        <3> HIDE DEF n
        <3> QED
            BY <1>2, <3>1
    <2>2. CASE r.threw /\ irQueue' = irQueue
        BY <1>2, <2>2
    <2> QED
        BY <1>4, <2>1, <2>2
<1> HIDE DEF n
<1>8. \A j \in 1..Len(irLearn) : irLearn[j].screen = irLearn[k].screen => j <= k
    BY <1>1, <1>2, <1>3 DEF OneUnderWay
<1>9. \A i \in 1..n : irQueue[i].what = "result" =>
            irQueue[i].of \in 1..Len(irLearn) /\ irQueue[i].of # k
    BY <1>1, <1>3 DEF MessagesAreResults, n
<1>10. IrTyped'
    BY <1>1, <1>3, <1>5, <1>7 DEF IrTyped
<1>11. OneUnderWay'
    <2> SUFFICES ASSUME NEW j \in 1..Len(irLearn), irLearn'[j].at # "ended"
                 PROVE  /\ learning[irLearn[j].screen]
                        /\ \A l \in 1..Len(irLearn) :
                              irLearn[l].screen = irLearn[j].screen => l <= j
        BY <1>3, <1>5 DEF OneUnderWay
    <2>1. irLearn[j].at # "ended"
        BY <1>3, <1>5
    <2> QED
        BY <1>1, <2>1 DEF OneUnderWay
<1>12. MessagesAreResults'
    <2> SUFFICES ASSUME NEW i \in 1..Len(irQueue'), irQueue'[i].what = "result"
                 PROVE  /\ irQueue'[i].of \in 1..Len(irLearn)
                        /\ irLearn'[irQueue'[i].of].at # "learning"
        BY <1>5 DEF MessagesAreResults
    <2>1. CASE i \in 1..n
        BY <1>1, <1>5, <1>7, <1>9, <2>1 DEF MessagesAreResults, n
    <2>2. CASE irQueue'[i] = Result(k)
        BY <1>2, <1>4, <1>5, <1>6, <2>2
    <2> QED
        BY <1>7, <2>1, <2>2
<1>13. \A i \in 1..n, s \in Instances : Waits(i, s)' <=> Waits(i, s)
    BY <1>5, <1>7, <1>9 DEF Waits
<1>14. MessagesInOrder'
    <2> SUFFICES ASSUME NEW i \in 1..Len(irQueue'), NEW j \in 1..Len(irQueue'),
                        NEW s \in Instances, i < j, Waits(i, s)', Waits(j, s)'
                 PROVE  irQueue'[i].of < irQueue'[j].of
        BY DEF MessagesInOrder
    <2>1. i \in 1..n
        BY <1>2, <1>7
    <2>2. CASE j \in 1..n
        <3>1. Waits(i, s) /\ Waits(j, s)
            BY <1>13, <2>1, <2>2
        <3> QED
            BY <1>1, <1>7, <2>1, <2>2, <3>1 DEF MessagesInOrder, n
    <2>3. CASE irQueue'[j] = Result(k)
        <3>1. irLearn[k].screen = s
            BY <1>2, <1>5, <1>6, <2>3 DEF Waits
        <3>2. Waits(i, s)
            BY <1>13, <2>1
        <3>3. /\ irQueue[i].of \in 1..Len(irLearn) /\ irQueue[i].of # k
              /\ irLearn[irQueue[i].of].screen = s
            BY <1>9, <2>1, <3>2 DEF Waits
        <3>4. irQueue[i].of <= k
            BY <1>8, <3>1, <3>3
        <3> QED
            BY <1>2, <1>6, <1>7, <2>1, <2>3, <3>3, <3>4
    <2> QED
        BY <1>7, <2>2, <2>3
<1>15. LastWaitsOrStays'
    <2> SUFFICES ASSUME NEW s \in Instances, NEW j \in 1..Len(irLearn),
                        IsLast(j, s), irLearn'[j].at # "learning",
                        ~irLearn'[j].threw
                 PROVE  \/ \E i \in 1..Len(irQueue') :
                            irQueue'[i].what = "result" /\ irQueue'[i].of = j
                        \/ /\ text[s] = ResultOf(j)
                           /\ \A i \in 1..Len(irQueue') : ~Waits(i, s)'
        BY <1>3, <1>5 DEF LastWaitsOrStays, IsLast
    <2>1. CASE j = k
        BY <1>5, <1>6, <1>7, <2>1
    <2>2. CASE j # k
        <3>1. \/ \E i \in 1..n :
                    irQueue[i].what = "result" /\ irQueue[i].of = j
              \/ text[s] = ResultOf(j) /\ \A i \in 1..n : ~Waits(i, s)
            BY <1>1, <1>5, <2>2 DEF LastWaitsOrStays, n
        <3>2. irLearn[k].screen # s
            <4>1. ASSUME irLearn[k].screen = s PROVE FALSE
                <5>1. k <= j /\ j <= k
                    BY <1>2, <1>8, <4>1 DEF IsLast
                <5> QED
                    BY <1>2, <2>2, <5>1
            <4> QED
                BY <4>1
        <3>3. \A i \in 1..Len(irQueue') : Waits(i, s)' => i \in 1..n
            BY <1>2, <1>5, <1>6, <1>7, <3>2 DEF Waits
        <3> QED
            BY <1>7, <1>13, <3>1, <3>3
    <2> QED
        BY <2>1, <2>2
<1> QED
    BY <1>10, <1>11, <1>12, <1>14, <1>15 DEF IrInv

\* The flag goes down: no other learning of the instance was under way.
LEMMA EndLearningIrInv ==
    ASSUME IrInv, NEW k \in DOMAIN irLearn, EndLearning(k)
    PROVE  IrInv'
<1> DEFINE s == irLearn[k].screen
           r == [irLearn[k] EXCEPT !.at = "ended"]
<1>1. IrTyped /\ OneUnderWay /\ MessagesAreResults /\ MessagesInOrder
        /\ LastWaitsOrStays
    BY DEF IrInv
<1>2. /\ irLearn \in Seq(IrLearning) /\ k \in 1..Len(irLearn)
      /\ irLearn[k] \in IrLearning /\ Len(irLearn) \in Nat
      /\ learning \in [Instances -> BOOLEAN]
    BY <1>1 DEF IrTyped
<1>3. /\ irLearn[k].at = "sent"
      /\ learning' = [learning EXCEPT ![s] = FALSE]
      /\ irLearn' = [irLearn EXCEPT ![k] = r]
      /\ UNCHANGED <<irProcess, irScreen, text, irQueue, irClick>>
    BY DEF EndLearning
<1>4. /\ r \in IrLearning /\ r.at = "ended" /\ r.screen = s
      /\ r.threw = irLearn[k].threw /\ s \in Instances
    BY <1>2 DEF IrLearning
<1> HIDE DEF s, r
<1>5. /\ irLearn' \in Seq(IrLearning) /\ Len(irLearn') = Len(irLearn)
      /\ irLearn'[k] = r
      /\ \A j \in 1..Len(irLearn) : j # k => irLearn'[j] = irLearn[j]
      /\ \A j \in 1..Len(irLearn) :
            /\ irLearn'[j].screen = irLearn[j].screen
            /\ irLearn'[j].threw = irLearn[j].threw
            /\ irLearn'[j].at # "learning" <=> irLearn[j].at # "learning"
    BY <1>2, <1>3, <1>4 DEF s
<1>6. /\ learning' \in [Instances -> BOOLEAN]
      /\ \A t \in Instances : t # s => learning'[t] = learning[t]
    BY <1>2, <1>3
<1>7. IrTyped'
    BY <1>1, <1>3, <1>5, <1>6 DEF IrTyped
<1>8. OneUnderWay'
    <2> SUFFICES ASSUME NEW j \in 1..Len(irLearn), irLearn'[j].at # "ended"
                 PROVE  /\ learning'[irLearn[j].screen]
                        /\ \A l \in 1..Len(irLearn) :
                              irLearn[l].screen = irLearn[j].screen => l <= j
        BY <1>5 DEF OneUnderWay
    <2>1. j # k /\ irLearn[j].at # "ended"
        BY <1>4, <1>5
    <2>2. /\ learning[irLearn[j].screen]
          /\ \A l \in 1..Len(irLearn) :
                irLearn[l].screen = irLearn[j].screen => l <= j
        BY <1>1, <2>1 DEF OneUnderWay
    <2>3. \A l \in 1..Len(irLearn) : irLearn[l].screen = s => l <= k
        BY <1>1, <1>2, <1>3 DEF OneUnderWay, s
    <2>4. irLearn[j].screen # s
        <3>1. ASSUME irLearn[j].screen = s PROVE FALSE
            <4>1. j <= k /\ k <= j
                BY <1>2, <2>2, <2>3, <3>1 DEF s
            <4> QED
                BY <1>2, <2>1, <4>1
        <3> QED
            BY <3>1
    <2>5. irLearn[j] \in IrLearning
        BY <1>2
    <2> QED
        BY <1>6, <2>2, <2>4, <2>5 DEF IrLearning
<1>9. MessagesAreResults'
    BY <1>1, <1>3, <1>5 DEF MessagesAreResults
<1>10. \A i \in 1..Len(irQueue), t \in Instances : Waits(i, t)' <=> Waits(i, t)
    BY <1>1, <1>3, <1>5 DEF MessagesAreResults, Waits
<1>11. MessagesInOrder'
    BY <1>1, <1>3, <1>10 DEF MessagesInOrder
<1>12. LastWaitsOrStays'
    <2> SUFFICES ASSUME NEW t \in Instances, NEW j \in 1..Len(irLearn),
                        IsLast(j, t), irLearn[j].at # "learning",
                        ~irLearn[j].threw
                 PROVE  \/ \E i \in 1..Len(irQueue) :
                            irQueue[i].what = "result" /\ irQueue[i].of = j
                        \/ /\ text[t] = ResultOf(j)
                           /\ \A i \in 1..Len(irQueue) : ~Waits(i, t)'
        BY <1>3, <1>5 DEF LastWaitsOrStays, IsLast
    <2> QED
        BY <1>1, <1>10 DEF LastWaitsOrStays
<1> QED
    BY <1>7, <1>8, <1>9, <1>11, <1>12 DEF IrInv

\* The steps that touch neither the learnings nor their messages.
LEMMA OtherIrInv ==
    ASSUME IrInv,
           \/ \E button \in {"button1", "button2"} : IrTap(button)
           \/ IrOnCreate
           \/ IrClickIgnored
    PROVE  IrInv'
<1>1. IrTyped
    BY DEF IrInv
<1>2. /\ irScreen \in 0..IrScreens /\ irQueue \in Seq(IrMessage)
      /\ irClick \in BOOLEAN /\ (irClick => irProcess = "running")
    BY <1>1 DEF IrTyped
<1>3. UNCHANGED <<learning, text, irLearn>>
    BY DEF IrTap, IrOnCreate, IrClickIgnored
<1>4. CASE \E button \in {"button1", "button2"} : IrTap(button)
    <2>1. PICK button \in {"button1", "button2"} : IrTap(button)
        BY <1>4
    <2>2. /\ Tapped(button) \in IrMessage /\ Tapped(button).what # "result"
        BY <1>2 DEF Tapped, IrMessage
    <2>3. /\ irQueue' = Append(irQueue, Tapped(button))
          /\ UNCHANGED <<irProcess, irScreen, irClick>>
        BY <2>1 DEF IrTap
    <2>4. irQueue' \in Seq(IrMessage)
        BY <1>2, <2>2, <2>3
    <2>5. IrTyped'
        BY <1>1, <1>3, <2>3, <2>4 DEF IrTyped
    <2> QED
        BY <1>3, <2>2, <2>3, <2>5, QuietIrInv
<1>5. CASE IrOnCreate \/ IrClickIgnored
    <2>1. UNCHANGED irQueue /\ irClick' = FALSE
        BY <1>2, <1>5 DEF IrOnCreate, IrClickIgnored
    <2>2. /\ irScreen' \in 0..IrScreens
          /\ irProcess' \in {"closed", "running", "dead"}
          /\ irProcess' = "running" => irScreen' \in Instances
        <3>1. CASE IrOnCreate
            BY <1>2, <3>1, IrAssumption DEF IrOnCreate, Instances
        <3>2. CASE IrClickIgnored
            BY <1>1, <3>2 DEF IrClickIgnored, IrTyped
        <3> QED
            BY <1>5, <3>1, <3>2
    <2>3. IrTyped'
        BY <1>1, <1>3, <2>1, <2>2 DEF IrTyped
    <2> QED
        BY <1>3, <2>1, <2>3, QuietIrInv
<1> QED
    BY <1>4, <1>5

\* When nothing of an instance is under way, the result of its last learning
\* is what its screen shows.
THEOREM LastResultsAreShown == IrSpec => []LastResultIsShown
<1>1. IrInv /\ [IrNext]_irVars => IrInv'
    <2> SUFFICES ASSUME IrInv, [IrNext]_irVars PROVE IrInv'
        OBVIOUS
    <2>1. CASE UNCHANGED irVars
        <3>1. IrTyped'
            BY <2>1 DEF irVars, IrInv, IrTyped
        <3> QED
            BY <2>1, <3>1, QuietIrInv DEF irVars
    <2> QED
        BY <2>1, OtherIrInv, TakesTapIrInv, ShowsResultIrInv, StartIrInv,
            LearnShortIrInv, EndLearningIrInv DEF IrNext, IrMain
<1>2. IrInv => LastResultIsShown
    <2> SUFFICES ASSUME IrInv, NEW s \in Instances, NEW k \in LearningsOf(s),
                        Settled(s), \A j \in LearningsOf(s) : j <= k,
                        ~irLearn[k].threw
                 PROVE  text[s] = ResultOf(k)
        BY DEF LastResultIsShown
    <2>1. /\ irLearn \in Seq(IrLearning) /\ irQueue \in Seq(IrMessage)
          /\ LastWaitsOrStays
        BY DEF IrInv, IrTyped
    <2>2. DOMAIN irLearn = 1..Len(irLearn) /\ DOMAIN irQueue = 1..Len(irQueue)
        BY <2>1
    <2>3. k \in 1..Len(irLearn) /\ IsLast(k, s) /\ irLearn[k].at = "ended"
        BY <2>2 DEF LearningsOf, Settled, IsLast
    <2>4. ~\E i \in 1..Len(irQueue) :
                irQueue[i].what = "result" /\ irQueue[i].of = k
        BY <2>2 DEF Settled, IsResult
    <2> QED
        BY <2>1, <2>3, <2>4 DEF LastWaitsOrStays
<1> QED
    BY <1>1, <1>2, IrInitInv, PTL DEF IrSpec
=============================================================================
