----------------------------- MODULE AtomicWord -----------------------------
(***************************************************************************)
(* What the functions of cutils/atomic-*.h promise of one int32_t: between *)
(* the call and the return there is one instant at which the word is read  *)
(* and replaced, and the value returned is the one read at that instant.   *)
(***************************************************************************)
EXTENDS Integers

CONSTANTS
    Threads,        \* the threads that use the word
    Size,           \* the word holds 0 .. Size - 1 (2^32 in the code)
    Requests,       \* the calls considered: [op, arg, old]
    AndInstr(_, _), \* the processor's bitwise instructions
    OrInstr(_, _)

VARIABLES
    word,           \* *ptr
    call            \* call[t]: what thread t has asked for, or been told

(* Mutant: the sum is wider than the word. *)
MutNewValue(r, w) ==
    CASE r.op = "add"  -> w + r.arg
      [] r.op = "and"  -> AndInstr(w, r.arg)
      [] r.op = "or"   -> OrInstr(w, r.arg)
      [] r.op = "swap" -> r.arg
      [] r.op = "cas"  -> IF w = r.old THEN r.arg ELSE w

(* The value a call leaves in a word that held w: addition wraps. *)
NewValue(r, w) ==
    CASE r.op = "add"  -> (w + r.arg) % Size
      [] r.op = "and"  -> AndInstr(w, r.arg)
      [] r.op = "or"   -> OrInstr(w, r.arg)
      [] r.op = "swap" -> r.arg
      [] r.op = "cas"  -> IF w = r.old THEN r.arg ELSE w

(* What the call returns: the old value, but 0 or 1 for a compare-and-swap. *)
Returned(r, w) ==
    IF r.op = "cas" THEN (IF w = r.old THEN 0 ELSE 1) ELSE w

Idle == [phase |-> "idle"]
Pending(r) == [phase |-> "pending", req |-> r]
Done(r, v) == [phase |-> "done", req |-> r, value |-> v]

AWInit ==
    /\ word = 0
    /\ call = [t \in Threads |-> Idle]

Invoke(t) ==
    /\ call[t] = Idle
    /\ \E r \in Requests : call' = [call EXCEPT ![t] = Pending(r)]
    /\ UNCHANGED word

(* The instant of the call: read, replace and remember in one step. *)
Apply(t) ==
    \E r \in Requests :
        /\ call[t] = Pending(r)
        /\ word' = NewValue(r, word)
        /\ call' = [call EXCEPT ![t] = Done(r, Returned(r, word))]

Return(t) ==
    /\ call[t].phase = "done"
    /\ call' = [call EXCEPT ![t] = Idle]
    /\ UNCHANGED word

AWNext == \E t \in Threads : Invoke(t) \/ Apply(t) \/ Return(t)

AWSpec == AWInit /\ [][AWNext]_<<word, call>>

=============================================================================
