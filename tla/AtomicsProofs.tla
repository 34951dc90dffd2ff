--------------------------- MODULE AtomicsProofs ---------------------------
(***************************************************************************)
(* Proofs about NativeAtomics, for every processor, word size, set of      *)
(* threads and of calls: the loops implement one atomic step of the word.  *)
(***************************************************************************)
EXTENDS NativeAtomics, TLAPS

(* A call leaves a value of the word's width. *)
LEMMA NewValueFits ==
    ASSUME NEW r \in Requests, NEW w \in Word
    PROVE  AW!NewValue(r, w) \in Word
<1>1. r.op \in {"add", "and", "or", "cas", "swap"} /\ r.arg \in Int
    BY RequestsAssumption
<1>2. CASE r.op = "add"
    BY <1>1, <1>2, SizeAssumption DEF AW!NewValue, Word
<1>3. CASE r.op \in {"and", "or"}
    BY <1>3, BitwiseCloses DEF AW!NewValue
<1>4. CASE r.op \in {"swap", "cas"}
    BY <1>4, NewValuesFit DEF AW!NewValue
<1> QED BY <1>1, <1>2, <1>3, <1>4

(* The inductive invariant: types, current reservations, and no           *)
(* reservation at all on x86, whose plain loads make none.                *)
PlainLoadsReserveNothing == LinkedStores \/ reserved = {}

Inv ==
    /\ TypeOK
    /\ ReservationIsCurrent
    /\ PlainLoadsReserveNothing

LEMMA InitInv == Init => Inv
<1> SUFFICES ASSUME Init PROVE Inv
    OBVIOUS
<1>1. (CHOOSE r \in Requests : TRUE) \in Requests
    BY SomeRequest
<1>2. 0 \in Word
    BY SizeAssumption DEF Word
<1> QED
    BY <1>1, <1>2, BoundsAssumption
    DEF Init, Inv, TypeOK, ReservationIsCurrent, PlainLoadsReserveNothing

LEMMA NextInv == Inv /\ [Next]_vars => Inv'
<1> SUFFICES ASSUME Inv, [Next]_vars PROVE Inv'
    OBVIOUS
<1> USE DEF Inv, TypeOK, ReservationIsCurrent, PlainLoadsReserveNothing, LinkedStores
<1>1. ASSUME NEW t \in Threads, Call(t) PROVE Inv'
    <2>1. calls' \in [Threads -> 0 .. MaxCalls]
        BY <1>1, BoundsAssumption DEF Call
    <2>2. req' \in [Threads -> Requests]
        BY <1>1 DEF Call, Offered
    <2> QED BY <1>1, <2>1, <2>2 DEF Call
<1>2. ASSUME NEW t \in Threads, LoadLinked(t) PROVE Inv'
    BY <1>2 DEF LoadLinked
<1>3. ASSUME NEW t \in Threads, StoreConditional(t) PROVE Inv'
    <2>1. word' \in Word
        BY <1>3, NewValueFits DEF StoreConditional
    <2> QED BY <1>3, <2>1 DEF StoreConditional
<1>4. ASSUME NEW t \in Threads, StoreFails(t) PROVE Inv'
    BY <1>4 DEF StoreFails
<1>5. ASSUME NEW t \in Threads, LoseReservation(t) PROVE Inv'
    BY <1>5, BoundsAssumption DEF LoseReservation
<1>6. ASSUME NEW t \in Threads, LockedOp(t) PROVE Inv'
    <2>1. word' \in Word
        BY <1>6, NewValueFits DEF LockedOp
    <2> QED BY <1>6, <2>1 DEF LockedOp, OneInstruction
<1>7. ASSUME NEW t \in Threads, PlainLoad(t) PROVE Inv'
    BY <1>7 DEF PlainLoad
<1>8. ASSUME NEW t \in Threads, CompareExchange(t) PROVE Inv'
    <2>1. word' \in Word
        BY <1>8, NewValueFits DEF CompareExchange
    <2> QED BY <1>8, <2>1 DEF CompareExchange
<1>9. ASSUME NEW t \in Threads, Return(t) PROVE Inv'
    BY <1>9 DEF Return
<1>10. CASE UNCHANGED vars
    BY <1>10 DEF vars
<1> QED
    BY <1>1, <1>2, <1>3, <1>4, <1>5, <1>6, <1>7, <1>8, <1>9, <1>10
    DEF Next, Instruction

LEMMA SpecInv == Spec => []Inv
    BY InitInv, NextInv, PTL DEF Spec

(* The word and the registers keep their types.                            *)
THEOREM AtomicsTyped == Spec => []TypeOK
<1>1. Inv => TypeOK
    BY DEF Inv
<1> QED BY <1>1, SpecInv, PTL

(* A conditional store that succeeds stores a value computed from what the *)
(* word holds (ldrex/strex, ll/sc).                                        *)
THEOREM StoresAreCurrent == Spec => []ReservationIsCurrent
<1>1. Inv => ReservationIsCurrent
    BY DEF Inv
<1> QED BY <1>1, SpecInv, PTL

-----------------------------------------------------------------------------
(* The refinement.  A step of thread t changes what is seen of t's call    *)
(* alone.                                                                  *)
LEMMA OneCallChanges ==
    ASSUME NEW t \in Threads,
           \A u \in Threads \ {t} :
               pc'[u] = pc[u] /\ req'[u] = req[u] /\ prev'[u] = prev[u]
    PROVE  callSeen' = [callSeen EXCEPT ![t] = callSeen'[t]]
<1>1. ASSUME NEW u \in Threads \ {t} PROVE callSeen'[u] = callSeen[u]
    BY DEF callSeen, Told
<1>2. callSeen' = [u \in Threads |-> callSeen'[u]]
    BY DEF callSeen
<1>3. callSeen = [u \in Threads |-> callSeen[u]]
    BY DEF callSeen
<1> QED BY <1>1, <1>2, <1>3

LEMMA SameCalls ==
    ASSUME \A u \in Threads : callSeen'[u] = callSeen[u]
    PROVE  callSeen' = callSeen
BY DEF callSeen

(* A thread that is about to store or to load has only asked.              *)
LEMMA AskedSeen ==
    ASSUME NEW t \in Threads, pc[t] \in {"load", "store"}
    PROVE  callSeen[t] = AW!Pending(req[t])
BY DEF callSeen, AW!Pending

(* The instant of a call: the register takes the word, and the word takes  *)
(* the new value, whatever instruction does it.                            *)
LEMMA DecidingStep ==
    ASSUME TypeOK, NEW t \in Threads,
           pc[t] \in {"load", "store"}, pc'[t] = "ret",
           req'[t] = req[t], prev'[t] = word,
           word' = AW!NewValue(req[t], word),
           \A u \in Threads \ {t} :
               pc'[u] = pc[u] /\ req'[u] = req[u] /\ prev'[u] = prev[u]
    PROVE  AW!Apply(t)
<1>1. callSeen[t] = AW!Pending(req[t])
    BY AskedSeen
<1>2. callSeen'[t] = AW!Done(req[t], AW!Returned(req[t], word))
    BY DEF callSeen, Told, AW!Done, AW!Returned
<1>3. callSeen' = [callSeen EXCEPT ![t] = callSeen'[t]]
    BY OneCallChanges
<1>4. req[t] \in Requests
    BY DEF TypeOK
<1> QED BY <1>1, <1>2, <1>3, <1>4 DEF AW!Apply

LEMMA InitRefines == Init => AW!AWInit
    BY DEF Init, AW!AWInit, AW!Idle, callSeen

LEMMA StepRefines == Inv /\ [Next]_vars => [AW!AWNext]_<<word, callSeen>>
<1> SUFFICES ASSUME Inv, [Next]_vars PROVE [AW!AWNext]_<<word, callSeen>>
    OBVIOUS
<1> USE DEF Inv, TypeOK
<1>1. ASSUME NEW t \in Threads, Call(t) PROVE AW!Invoke(t)
    <2>1. PICK r \in Requests : req' = [req EXCEPT ![t] = r]
        BY <1>1 DEF Call, Offered
    <2>2. callSeen[t] = AW!Idle
        BY <1>1 DEF Call, callSeen, AW!Idle
    <2>3. callSeen'[t] = AW!Pending(r)
        BY <1>1, <2>1 DEF Call, callSeen, AW!Pending
    <2>4. callSeen' = [callSeen EXCEPT ![t] = callSeen'[t]]
        BY <1>1, <2>1, OneCallChanges DEF Call
    <2> QED BY <1>1, <2>2, <2>3, <2>4 DEF AW!Invoke, Call
<1>2. ASSUME NEW t \in Threads, LoadLinked(t)
      PROVE  AW!Apply(t) \/ UNCHANGED <<word, callSeen>>
    <2>1. CASE req[t].op = "cas" /\ word # req[t].old
        <3>1. word' = AW!NewValue(req[t], word)
            BY <1>2, <2>1 DEF LoadLinked, AW!NewValue
        <3> QED BY <1>2, <2>1, <3>1, DecidingStep DEF LoadLinked
    <2>2. CASE ~(req[t].op = "cas" /\ word # req[t].old)
        <3>1. \A u \in Threads : callSeen'[u] = callSeen[u]
            BY <1>2, <2>2 DEF LoadLinked, callSeen, Told
        <3> QED BY <1>2, <3>1, SameCalls DEF LoadLinked
    <2> QED BY <2>1, <2>2
<1>3. ASSUME NEW t \in Threads, StoreConditional(t) PROVE AW!Apply(t)
    <2>1. prev[t] = word
        BY <1>3 DEF StoreConditional, ReservationIsCurrent
    <2> QED BY <1>3, <2>1, DecidingStep DEF StoreConditional
<1>4. ASSUME NEW t \in Threads, StoreFails(t) PROVE UNCHANGED <<word, callSeen>>
    <2>1. \A u \in Threads : callSeen'[u] = callSeen[u]
        BY <1>4 DEF StoreFails, callSeen, Told
    <2> QED BY <1>4, <2>1, SameCalls DEF StoreFails
<1>5. ASSUME NEW t \in Threads, LoseReservation(t)
      PROVE  UNCHANGED <<word, callSeen>>
    <2>1. \A u \in Threads : callSeen'[u] = callSeen[u]
        BY <1>5 DEF LoseReservation, callSeen, Told
    <2> QED BY <1>5, <2>1, SameCalls DEF LoseReservation
<1>6. ASSUME NEW t \in Threads, LockedOp(t) PROVE AW!Apply(t)
    BY <1>6, DecidingStep DEF LockedOp
<1>7. ASSUME NEW t \in Threads, PlainLoad(t) PROVE UNCHANGED <<word, callSeen>>
    <2>1. \A u \in Threads : callSeen'[u] = callSeen[u]
        BY <1>7 DEF PlainLoad, callSeen, Told
    <2> QED BY <1>7, <2>1, SameCalls DEF PlainLoad
<1>8. ASSUME NEW t \in Threads, CompareExchange(t)
      PROVE  AW!Apply(t) \/ UNCHANGED <<word, callSeen>>
    <2>1. CASE word = prev[t]
        BY <1>8, <2>1, DecidingStep DEF CompareExchange
    <2>2. CASE word # prev[t]
        <3>1. \A u \in Threads : callSeen'[u] = callSeen[u]
            BY <1>8, <2>2 DEF CompareExchange, callSeen, Told
        <3> QED BY <1>8, <2>2, <3>1, SameCalls DEF CompareExchange
    <2> QED BY <2>1, <2>2
<1>9. ASSUME NEW t \in Threads, Return(t) PROVE AW!Return(t)
    <2>1. callSeen[t].phase = "done"
        BY <1>9 DEF Return, callSeen
    <2>2. callSeen'[t] = AW!Idle
        BY <1>9 DEF Return, callSeen, AW!Idle
    <2>3. callSeen' = [callSeen EXCEPT ![t] = callSeen'[t]]
        BY <1>9, OneCallChanges DEF Return
    <2> QED BY <1>9, <2>1, <2>2, <2>3 DEF AW!Return, Return
<1>10. CASE UNCHANGED vars
    <2>1. \A u \in Threads : callSeen'[u] = callSeen[u]
        BY <1>10 DEF vars, callSeen, Told
    <2> QED BY <1>10, <2>1, SameCalls DEF vars
<1> QED
    BY <1>1, <1>2, <1>3, <1>4, <1>5, <1>6, <1>7, <1>8, <1>9, <1>10
    DEF Next, Instruction, AW!AWNext

(* Every run of the loops is a run of a word that each call reads and      *)
(* replaces in one instant (android_atomic_add, and, or, cas and swap).    *)
THEOREM LoopsAreAtomic == Spec => Linearizable
<1>1. Spec => AW!AWInit
    BY InitRefines DEF Spec
<1>2. Spec => [][Next]_vars
    BY DEF Spec
<1> QED
    BY <1>1, <1>2, SpecInv, StepRefines, PTL DEF Linearizable, AW!AWSpec

=============================================================================
