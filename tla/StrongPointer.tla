--------------------------- MODULE StrongPointer ---------------------------
(***************************************************************************)
(* sp<T>, wp<T> and the counted object they point to (utils/StrongPointer, *)
(* utils/RefBase): each thread has its own pointers, all threads share the *)
(* objects.  android_atomic_inc and dec are one step here; NativeAtomics   *)
(* shows that they are.                                                    *)
(*                                                                         *)
(* A pointer that does not exist and one that holds 0 are both Null: the   *)
(* constructors are assignments to a Null pointer, and the destructor is   *)
(* clear().                                                                *)
(***************************************************************************)
EXTENDS Integers, FiniteSets

CONSTANTS
    Threads,
    Pointers,       \* the sp of one thread
    Objects,
    Null,           \* m_ptr == 0
    New,            \* stands for the value an operator= is about to store
    MaxOps          \* bound: the operations one thread starts

VARIABLES
    m_ptr,          \* m_ptr[t][p]: the object of thread t's sp p
    weak,           \* weak[t]: m_ptr of thread t's wp
    mCount,         \* mCount[o]: the strong count of the object
    life,           \* unborn, new (not counted yet), live or deleted
    pc,             \* where thread t is in its operation
    dst, other,     \* the sp assigned to, and the object it will hold
    ops             \* for the bound

vars == <<m_ptr, weak, mCount, life, pc, dst, other, ops>>

ASSUME NamesDiffer == Null \notin Objects /\ New \notin Pointers

ASSUME Finite == IsFiniteSet(Threads) /\ IsFiniteSet(Pointers)

ASSUME MaxOpsAssumption == MaxOps \in Nat

ASSUME SomePointer == Pointers # {}

(* The sp p of t counts for object o: until decStrong has given it up.     *)
Owns(t, p, o) ==
    /\ m_ptr[t][p] = o
    /\ ~(pc[t] \in {"delete", "store"} /\ dst[t] = p)

(* incStrong has run for the value t is about to store.                    *)
OwnsNew(t, o) == pc[t] \in {"dec", "delete", "store"} /\ other[t] = o

References(o) ==
    { w \in Threads \X (Pointers \union {New}) :
        IF w[2] = New THEN OwnsNew(w[1], o) ELSE Owns(w[1], w[2], o) }

(* Threads are started with an sp or a wp to one object made before them.  *)
Init ==
    \E o \in Objects, holders \in SUBSET Threads, first \in Pointers :
        /\ holders # {}
        /\ m_ptr = [t \in Threads |-> [p \in Pointers |->
                      IF t \in holders /\ p = first THEN o ELSE Null]]
        /\ weak = [t \in Threads |-> IF t \in holders THEN Null ELSE o]
        /\ mCount = [x \in Objects |-> IF x = o THEN Cardinality(holders) ELSE 0]
        /\ life = [x \in Objects |-> IF x = o THEN "live" ELSE "unborn"]
        /\ pc = [t \in Threads |-> "idle"]
        /\ dst = [t \in Threads |-> first]
        /\ other = [t \in Threads |-> Null]
        /\ ops = [t \in Threads |-> 0]

(* The next test in operator=: "if (m_ptr) m_ptr->decStrong(this)".        *)
TestOld(t, p) == IF m_ptr[t][p] # Null THEN "dec" ELSE "store"

Start(t, p, o, where) ==
    /\ pc[t] = "idle"
    /\ ops[t] < MaxOps
    /\ pc' = [pc EXCEPT ![t] = where]
    /\ dst' = [dst EXCEPT ![t] = p]
    /\ other' = [other EXCEPT ![t] = o]
    /\ ops' = [ops EXCEPT ![t] = @ + 1]

(* operator=(const sp&), and the copy constructors.                        *)
AssignSp(t, p, q) ==
    /\ LET o == m_ptr[t][q] IN
         Start(t, p, o, IF o # Null THEN "inc" ELSE TestOld(t, p))
    /\ UNCHANGED <<m_ptr, weak, mCount, life>>

(* operator=(T* ) with a new object, whose count starts at 0.              *)
AssignNew(t, p, o) ==
    /\ life[o] = "unborn"
    /\ Start(t, p, o, "inc")
    /\ life' = [life EXCEPT ![o] = "new"]
    /\ UNCHANGED <<m_ptr, weak, mCount>>

(* clear() and the destructor.                                             *)
Clear(t, p) ==
    /\ m_ptr[t][p] # Null
    /\ Start(t, p, Null, "dec")
    /\ UNCHANGED <<m_ptr, weak, mCount, life>>

(* wp<T>::operator=(const sp&): the weak count is not the object's life.   *)
AssignWp(t, p) ==
    /\ pc[t] = "idle"
    /\ ops[t] < MaxOps
    /\ weak' = [weak EXCEPT ![t] = m_ptr[t][p]]
    /\ ops' = [ops EXCEPT ![t] = @ + 1]
    /\ UNCHANGED <<m_ptr, mCount, life, pc, dst, other>>

(* Mutant: a count that has come back to zero is taken up again.           *)
MutAttemptIncStrong(o) == mCount' = [mCount EXCEPT ![o] = @ + 1]

(* weakref_type::attemptIncStrong of libutils: it counts up from a count   *)
(* above zero, or fails.                                                   *)
AttemptIncStrong(o) ==
    /\ mCount[o] > 0
    /\ mCount' = [mCount EXCEPT ![o] = @ + 1]

(* Mutant: promote() assigns the pointer it was given a count for.         *)
MutPromote(t, p) ==
    /\ pc[t] = "idle"
    /\ ops[t] < MaxOps
    /\ weak[t] # Null
    /\ m_ptr[t][p] = Null
    /\ mCount[weak[t]] > 0
    /\ mCount' = [mCount EXCEPT ![weak[t]] = @ + 2]
    /\ m_ptr' = [m_ptr EXCEPT ![t][p] = weak[t]]
    /\ ops' = [ops EXCEPT ![t] = @ + 1]
    /\ UNCHANGED <<weak, life, pc, dst, other>>

(* promote() makes a new sp, and set_pointer() counts nothing more.        *)
Promote(t, p) ==
    /\ pc[t] = "idle"
    /\ ops[t] < MaxOps
    /\ weak[t] # Null
    /\ m_ptr[t][p] = Null
    /\ AttemptIncStrong(weak[t])
    /\ m_ptr' = [m_ptr EXCEPT ![t][p] = weak[t]]
    /\ ops' = [ops EXCEPT ![t] = @ + 1]
    /\ UNCHANGED <<weak, life, pc, dst, other>>

(* other->incStrong(this)                                                  *)
IncStrong(t) ==
    /\ pc[t] = "inc"
    /\ mCount' = [mCount EXCEPT ![other[t]] = @ + 1]
    /\ life' = [life EXCEPT ![other[t]] = "live"]
    /\ pc' = [pc EXCEPT ![t] = TestOld(t, dst[t])]
    /\ UNCHANGED <<m_ptr, weak, dst, other, ops>>

(* Mutant: the count returned is taken for the new one, and 1 for the last.  *)
MutEarlyDelete(t) ==
    /\ pc[t] = "dec"
    /\ LET o == m_ptr[t][dst[t]] IN
         /\ mCount' = [mCount EXCEPT ![o] = @ - 1]
         /\ pc' = [pc EXCEPT ![t] = IF mCount[o] <= 2 THEN "delete" ELSE "store"]
    /\ UNCHANGED <<m_ptr, weak, life, dst, other, ops>>

(* Mutant: the count returned is compared with 0.                          *)
MutNoDelete(t) ==
    /\ pc[t] = "dec"
    /\ LET o == m_ptr[t][dst[t]] IN
         /\ mCount' = [mCount EXCEPT ![o] = @ - 1]
         /\ pc' = [pc EXCEPT ![t] = IF mCount[o] = 0 THEN "delete" ELSE "store"]
    /\ UNCHANGED <<m_ptr, weak, life, dst, other, ops>>

(* m_ptr->decStrong(this): the thread told 1 deletes.                      *)
DecStrong(t) ==
    /\ pc[t] = "dec"
    /\ LET o == m_ptr[t][dst[t]] IN
         /\ mCount' = [mCount EXCEPT ![o] = @ - 1]
         /\ pc' = [pc EXCEPT ![t] = IF mCount[o] = 1 THEN "delete" ELSE "store"]
    /\ UNCHANGED <<m_ptr, weak, life, dst, other, ops>>

(* delete static_cast<const T*>(this)                                      *)
DeleteObject(t) ==
    /\ pc[t] = "delete"
    /\ life' = [life EXCEPT ![m_ptr[t][dst[t]]] = "deleted"]
    /\ pc' = [pc EXCEPT ![t] = "store"]
    /\ UNCHANGED <<m_ptr, weak, mCount, dst, other, ops>>

(* m_ptr = other                                                           *)
StorePtr(t) ==
    /\ pc[t] = "store"
    /\ m_ptr' = [m_ptr EXCEPT ![t][dst[t]] = other[t]]
    /\ pc' = [pc EXCEPT ![t] = "idle"]
    /\ UNCHANGED <<weak, mCount, life, dst, other, ops>>

Step(t) == IncStrong(t) \/ DecStrong(t) \/ DeleteObject(t) \/ StorePtr(t)

Operation(t) ==
    \E p \in Pointers :
        \/ \E q \in Pointers : AssignSp(t, p, q)
        \/ \E o \in Objects : AssignNew(t, p, o)
        \/ Clear(t, p)
        \/ AssignWp(t, p)
        \/ Promote(t, p)

Next == \E t \in Threads : Step(t) \/ Operation(t)

Spec == Init /\ [][Next]_vars

(* A thread inside an operation keeps being scheduled.                     *)
FairSpec == Spec /\ \A t \in Threads : WF_vars(Step(t))

-----------------------------------------------------------------------------
(* The pointers, counts and places in an operation keep their types.       *)
TypeOK ==
    /\ m_ptr \in [Threads -> [Pointers -> Objects \union {Null}]]
    /\ weak \in [Threads -> Objects \union {Null}]
    /\ mCount \in [Objects -> Nat]
    /\ life \in [Objects -> {"unborn", "new", "live", "deleted"}]
    /\ pc \in [Threads -> {"idle", "inc", "dec", "delete", "store"}]
    /\ dst \in [Threads -> Pointers]
    /\ other \in [Threads -> Objects \union {Null}]
    /\ ops \in [Threads -> 0 .. MaxOps]

(* The count of an object is the number of sp that hold it, those in the   *)
(* middle of an operator= included: counted once before m_ptr changes.     *)
CountIsReferences == \A o \in Objects : mCount[o] = Cardinality(References(o))

(* No thread reaches a deleted object: not through an sp it holds, not     *)
(* while it counts up, down or deletes (operator=, clear, promote).        *)
NoUseAfterFree ==
    \A t \in Threads :
        /\ \A p \in Pointers, o \in Objects : Owns(t, p, o) => life[o] = "live"
        /\ pc[t] = "inc" => life[other[t]] \in {"new", "live"}
        /\ pc[t] \in {"dec", "delete"} => life[m_ptr[t][dst[t]]] = "live"

(* The counts implement ownership: an object is taken up only while        *)
(* somebody holds it, and deleted once, when nobody does.                  *)
SO == INSTANCE SharedObject WITH
        held <- [o \in Objects |-> References(o)],
        Owners <- Threads \X (Pointers \union {New})

Implements == SO!SOSpec

(* An object nobody holds any more is deleted: the last decrement is told. *)
LastDropDeletes ==
    \A o \in Objects :
        (life[o] = "live" /\ References(o) = {}) ~> life[o] = "deleted"

=============================================================================
