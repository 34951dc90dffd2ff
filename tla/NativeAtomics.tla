--------------------------- MODULE NativeAtomics ---------------------------
(***************************************************************************)
(* android_atomic_add, inc, dec, and, or, cas and swap as the three inline *)
(* headers write them:                                                     *)
(*                                                                         *)
(*   arm     load-exclusive / store-exclusive, repeated until it stores;   *)
(*   mips    load-linked / store-conditional, the same loop, and swap;     *)
(*   x86     one locked instruction for add and cas, a plain load and a    *)
(*           locked compare-exchange, repeated, for and / or.              *)
(*                                                                         *)
(* The words other threads see are those of a sequentially consistent      *)
(* memory: the barriers order other words, and there are none here.        *)
(***************************************************************************)
EXTENDS Integers

CONSTANTS
    Threads, Size, Requests, AndInstr(_, _), OrInstr(_, _),
    Archs,          \* the processors the library is built for
    MaxCalls,       \* bound: the calls one thread makes
    MaxLost         \* bound: reservations lost to something but a store

VARIABLES
    arch,           \* the header atomic-inline.h takes in this build
    word,           \* *ptr
    pc,             \* idle, load, store or ret
    req,            \* the call a thread is in
    prev,           \* the register of that name
    reserved,       \* the threads whose load-linked reservation stands
    calls, lost     \* for the two bounds

vars == <<arch, word, pc, req, prev, reserved, calls, lost>>

(* What a call looks like from outside: asked for, then decided with the  *)
(* value its last instruction read.                                        *)
Told(t) ==
    IF req[t].op = "cas"
      THEN (IF prev[t] = req[t].old THEN 0 ELSE 1)
      ELSE prev[t]

callSeen ==
    [t \in Threads |->
        IF pc[t] = "idle" THEN [phase |-> "idle"]
        ELSE IF pc[t] = "ret"
          THEN [phase |-> "done", req |-> req[t], value |-> Told(t)]
          ELSE [phase |-> "pending", req |-> req[t]]]

AW == INSTANCE AtomicWord WITH call <- callSeen

Word == 0 .. Size - 1

ASSUME ArchsAssumption == Archs \subseteq {"arm", "mips", "x86"}

ASSUME SizeAssumption == Size \in Nat \ {0}

(* arg is the increment, the mask or the new value; old is what cas expects. *)
ASSUME RequestsAssumption ==
    Requests \subseteq [op: {"add", "and", "or", "cas", "swap"}, arg: Int, old: Word]

ASSUME NewValuesFit ==
    \A r \in Requests : r.op \in {"swap", "cas"} => r.arg \in Word

ASSUME BitwiseCloses ==
    \A r \in Requests, w \in Word :
        AndInstr(w, r.arg) \in Word /\ OrInstr(w, r.arg) \in Word

ASSUME BoundsAssumption ==
    /\ MaxCalls \in Nat
    /\ MaxLost \in Nat

ASSUME SomeRequest == Requests # {}

(* swap exists in the MIPS header alone. *)
Offered == {r \in Requests : r.op = "swap" => arch = "mips"}

(* Arm and MIPS guard the store by a reservation, x86 by the value. *)
LinkedStores == arch \in {"arm", "mips"}

(* The x86 instruction that needs no loop: lock xadd, lock cmpxchg. *)
OneInstruction(r) == arch = "x86" /\ r.op \in {"add", "cas"}

Init ==
    /\ arch \in Archs
    /\ word = 0
    /\ pc = [t \in Threads |-> "idle"]
    /\ req \in [Threads -> {CHOOSE r \in Requests : TRUE}]
    /\ prev = [t \in Threads |-> 0]
    /\ reserved = {}
    /\ calls = [t \in Threads |-> 0]
    /\ lost = 0

Call(t) ==
    /\ pc[t] = "idle"
    /\ calls[t] < MaxCalls
    /\ \E r \in Offered : req' = [req EXCEPT ![t] = r]
    /\ pc' = [pc EXCEPT ![t] = "load"]
    /\ calls' = [calls EXCEPT ![t] = @ + 1]
    /\ UNCHANGED <<arch, word, prev, reserved, lost>>

(* ldrex or ll: reads, and sets the reservation.  A compare-and-swap whose  *)
(* comparison fails leaves the loop without storing.                       *)
LoadLinked(t) ==
    /\ LinkedStores
    /\ pc[t] = "load"
    /\ prev' = [prev EXCEPT ![t] = word]
    /\ reserved' = reserved \union {t}
    /\ pc' = [pc EXCEPT ![t] =
                IF req[t].op = "cas" /\ word # req[t].old THEN "ret" ELSE "store"]
    /\ UNCHANGED <<arch, word, req, calls, lost>>

(* strex or sc stores, and takes every other thread's reservation with it. *)
StoreConditional(t) ==
    /\ LinkedStores
    /\ pc[t] = "store"
    /\ t \in reserved
    /\ word' = AW!NewValue(req[t], prev[t])
    /\ reserved' = {}
    /\ pc' = [pc EXCEPT ![t] = "ret"]
    /\ UNCHANGED <<arch, req, prev, calls, lost>>

(* Mutant: the status is not tested. *)
MutStoreFails(t) ==
    /\ LinkedStores
    /\ pc[t] = "store"
    /\ t \notin reserved
    /\ pc' = [pc EXCEPT ![t] = "ret"]
    /\ UNCHANGED <<arch, word, req, prev, reserved, calls, lost>>

(* Mutant: the loop goes back to the store, not to the load. *)
MutRetry(t) ==
    /\ LinkedStores
    /\ pc[t] = "store"
    /\ t \notin reserved
    /\ pc' = [pc EXCEPT ![t] = "store"]
    /\ UNCHANGED <<arch, word, req, prev, reserved, calls, lost>>

(* Mutant: prev is read once, before the loop; a new try reserves the word  *)
(* again, but what it loads goes to a register that is not used.           *)
MutPrevBeforeLoop(t) ==
    /\ LinkedStores
    /\ pc[t] = "store"
    /\ t \notin reserved
    /\ reserved' = reserved \union {t}
    /\ UNCHANGED <<arch, word, pc, req, prev, calls, lost>>

(* It stores nothing without a reservation, and the loop starts again. *)
StoreFails(t) ==
    /\ LinkedStores
    /\ pc[t] = "store"
    /\ t \notin reserved
    /\ pc' = [pc EXCEPT ![t] = "load"]
    /\ UNCHANGED <<arch, word, req, prev, reserved, calls, lost>>

(* A context switch, an exception or a neighbour in the cache line. *)
LoseReservation(t) ==
    /\ t \in reserved
    /\ lost < MaxLost
    /\ reserved' = reserved \ {t}
    /\ lost' = lost + 1
    /\ UNCHANGED <<arch, word, pc, req, prev, calls>>

(* lock xadd and lock cmpxchg: the whole call in one instruction. *)
LockedOp(t) ==
    /\ pc[t] = "load"
    /\ OneInstruction(req[t])
    /\ prev' = [prev EXCEPT ![t] = word]
    /\ word' = AW!NewValue(req[t], word)
    /\ pc' = [pc EXCEPT ![t] = "ret"]
    /\ UNCHANGED <<arch, req, reserved, calls, lost>>

(* prev = *ptr, a plain load that reserves nothing. *)
PlainLoad(t) ==
    /\ arch = "x86"
    /\ pc[t] = "load"
    /\ ~OneInstruction(req[t])
    /\ prev' = [prev EXCEPT ![t] = word]
    /\ pc' = [pc EXCEPT ![t] = "store"]
    /\ UNCHANGED <<arch, word, req, reserved, calls, lost>>

(* android_atomic_cas(prev, prev & value, ptr), repeated while it is told 1. *)
CompareExchange(t) ==
    /\ arch = "x86"
    /\ pc[t] = "store"
    /\ IF word = prev[t]
         THEN /\ word' = AW!NewValue(req[t], prev[t])
              /\ pc' = [pc EXCEPT ![t] = "ret"]
         ELSE /\ pc' = [pc EXCEPT ![t] = "load"]
              /\ UNCHANGED word
    /\ UNCHANGED <<arch, req, prev, reserved, calls, lost>>

Return(t) ==
    /\ pc[t] = "ret"
    /\ pc' = [pc EXCEPT ![t] = "idle"]
    /\ UNCHANGED <<arch, word, req, prev, reserved, calls, lost>>

(* The instructions of a call: the thread runs them without being asked. *)
Instruction(t) ==
    \/ LoadLinked(t)
    \/ StoreConditional(t)
    \/ StoreFails(t)
    \/ LockedOp(t)
    \/ PlainLoad(t)
    \/ CompareExchange(t)
    \/ Return(t)

Next == \E t \in Threads : Call(t) \/ Instruction(t) \/ LoseReservation(t)

Spec == Init /\ [][Next]_vars

(* Every thread keeps being scheduled. *)
FairSpec == Spec /\ \A t \in Threads : WF_vars(Instruction(t))

(* The registers and the word keep their types. *)
TypeOK ==
    /\ arch \in Archs
    /\ word \in Word
    /\ pc \in [Threads -> {"idle", "load", "store", "ret"}]
    /\ req \in [Threads -> Requests]
    /\ prev \in [Threads -> Word]
    /\ reserved \subseteq Threads
    /\ calls \in [Threads -> 0 .. MaxCalls]
    /\ lost \in 0 .. MaxLost

(* Before a store, a standing reservation means that the register still    *)
(* holds what the word holds: no thread stores a value computed from a     *)
(* word that has moved on (atomic-arm.h, atomic-mips.h).                   *)
ReservationIsCurrent ==
    \A t \in reserved : pc[t] = "store" => prev[t] = word

(* Each loop is one atomic step of the word, whatever runs between its     *)
(* instructions, and returns the value of that instant: no update is lost, *)
(* no two decrements are told the same count.                              *)
Linearizable == AW!AWSpec

(* A call returns: a loop that repeats does so because another thread      *)
(* stored, or because the reservation was lost.                            *)
CallsReturn == \A t \in Threads : pc[t] # "idle" ~> pc[t] = "idle"

=============================================================================
