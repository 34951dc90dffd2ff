------------------------------ MODULE SpProofs ------------------------------
(***************************************************************************)
(* Proofs about StrongPointer, for any finite number of threads and of     *)
(* pointers per thread, and any set of objects.                            *)
(***************************************************************************)
EXTENDS StrongPointer, FiniteSetTheorems, TLAPS

(* Every object is held by a finite number of pointers.                    *)
LEMMA ReferencesFinite == \A o : IsFiniteSet(References(o))
<1>1. IsFiniteSet(Pointers \union {New})
    BY Finite, FS_AddElement
<1>2. IsFiniteSet(Threads \X (Pointers \union {New}))
    BY <1>1, Finite, FS_Product
<1>3. \A o : References(o) \subseteq Threads \X (Pointers \union {New})
    BY DEF References
<1> QED BY <1>2, <1>3, FS_Subset

(* What is held is alive; what is about to be counted up is held by the    *)
(* same thread, or new and known to no other thread; what is about to be   *)
(* deleted has count 0 and one thread deletes it.                          *)
HeldIsLive == \A o \in Objects : References(o) # {} => life[o] = "live"

CountedUpIsHeld ==
    \A t \in Threads : pc[t] = "inc" =>
        /\ other[t] \in Objects
        /\ \/ life[other[t]] = "new"
           \/ \E p \in Pointers : m_ptr[t][p] = other[t]

NewIsPrivate ==
    \A t, u \in Threads :
        /\ pc[t] = "inc" /\ pc[u] = "inc"
        /\ other[t] = other[u]
        /\ life[other[t]] = "new"
        => t = u

CountedDownIsHeld ==
    \A t \in Threads : pc[t] = "dec" => m_ptr[t][dst[t]] \in Objects

DeletedIsDropped ==
    \A t \in Threads : pc[t] = "delete" =>
        /\ m_ptr[t][dst[t]] \in Objects
        /\ mCount[m_ptr[t][dst[t]]] = 0
        /\ life[m_ptr[t][dst[t]]] = "live"

DeletedOnce ==
    \A t, u \in Threads :
        /\ pc[t] = "delete" /\ pc[u] = "delete"
        /\ m_ptr[t][dst[t]] = m_ptr[u][dst[u]]
        => t = u

Inv ==
    /\ TypeOK
    /\ CountIsReferences
    /\ HeldIsLive
    /\ CountedUpIsHeld
    /\ NewIsPrivate
    /\ CountedDownIsHeld
    /\ DeletedIsDropped
    /\ DeletedOnce

(* Who is among the references.                                            *)
LEMMA OwnerIsReference ==
    ASSUME NEW t \in Threads, NEW p \in Pointers, NEW o, Owns(t, p, o)
    PROVE  <<t, p>> \in References(o)
BY NamesDiffer DEF References

(* An object with a count above zero is held, and one that is held has a   *)
(* count above zero.                                                       *)
LEMMA CountedIsHeld ==
    ASSUME CountIsReferences, NEW o \in Objects
    PROVE  (mCount[o] = 0 <=> References(o) = {}) /\ mCount[o] \in Nat
BY ReferencesFinite, FS_EmptySet, FS_CardinalityType DEF CountIsReferences

(* One more reference, one more count; and one less.                       *)
LEMMA CountUp ==
    ASSUME CountIsReferences, NEW o \in Objects, NEW w,
           w \notin References(o), References(o)' = References(o) \union {w},
           mCount \in [Objects -> Nat], mCount' = [mCount EXCEPT ![o] = @ + 1],
           \A x \in Objects \ {o} : References(x)' = References(x)
    PROVE  CountIsReferences'
BY ReferencesFinite, FS_AddElement, FS_CardinalityType DEF CountIsReferences

LEMMA CountDown ==
    ASSUME CountIsReferences, NEW o \in Objects, NEW w,
           w \in References(o), References(o)' = References(o) \ {w},
           mCount \in [Objects -> Nat], mCount' = [mCount EXCEPT ![o] = @ - 1],
           \A x \in Objects \ {o} : References(x)' = References(x)
    PROVE  CountIsReferences' /\ mCount' \in [Objects -> Nat]
<1>1. Cardinality(References(o)') = Cardinality(References(o)) - 1
    BY ReferencesFinite, FS_RemoveElement
<1>2. mCount[o] \in Nat /\ mCount[o] > 0
    BY CountedIsHeld
<1>3. mCount'[o] = mCount[o] - 1 /\ mCount[o] = Cardinality(References(o))
    BY DEF CountIsReferences
<1>4. ASSUME NEW x \in Objects \ {o}
      PROVE  mCount'[x] = mCount[x] /\ Cardinality(References(x)') = mCount[x]
    BY DEF CountIsReferences
<1>5. mCount' \in [Objects -> Nat]
    BY <1>2
<1>6. CountIsReferences'
    BY <1>1, <1>3, <1>4 DEF CountIsReferences
<1> QED BY <1>5, <1>6

(* No reference comes or goes.                                             *)
LEMMA CountSame ==
    ASSUME CountIsReferences, mCount' = mCount,
           \A x \in Objects : References(x)' = References(x)
    PROVE  CountIsReferences'
BY DEF CountIsReferences

-----------------------------------------------------------------------------
(* Who is among the references, before and after a step.                   *)
Tokens == Threads \X (Pointers \union {New})

LEMMA TokensOfReferences ==
    ASSUME NEW x, NEW u \in Threads
    PROVE  /\ References(x) \subseteq Tokens /\ References(x)' \subseteq Tokens
           /\ <<u, New>> \in References(x) <=> OwnsNew(u, x)
           /\ <<u, New>> \in References(x)' <=> OwnsNew(u, x)'
           /\ \A q \in Pointers :
                /\ <<u, q>> \in References(x) <=> Owns(u, q, x)
                /\ <<u, q>> \in References(x)' <=> Owns(u, q, x)'
<1> USE NamesDiffer
<1>1. References(x) \subseteq Tokens /\ References(x)' \subseteq Tokens
    BY DEF References, Tokens
<1>2. /\ <<u, New>> \in References(x) <=> OwnsNew(u, x)
      /\ <<u, New>> \in References(x)' <=> OwnsNew(u, x)'
    BY DEF References
<1>3. ASSUME NEW q \in Pointers
      PROVE  /\ <<u, q>> \in References(x) <=> Owns(u, q, x)
             /\ <<u, q>> \in References(x)' <=> Owns(u, q, x)'
    BY DEF References
<1> QED BY <1>1, <1>2, <1>3

LEMMA SameTokens ==
    ASSUME NEW R, NEW S, R \subseteq Tokens, S \subseteq Tokens,
           \A u \in Threads, q \in Pointers \union {New} : <<u, q>> \in R <=> <<u, q>> \in S
    PROVE  R = S
BY DEF Tokens

LEMMA OneTokenLess ==
    ASSUME NEW R, NEW S, R \subseteq Tokens, S \subseteq Tokens,
           NEW t \in Threads, NEW p \in Pointers \union {New},
           \A u \in Threads, q \in Pointers \union {New} :
               <<u, q>> \in S <=> (<<u, q>> \in R /\ ~(u = t /\ q = p))
    PROVE  S = R \ {<<t, p>>}
<1>1. ASSUME NEW w \in S PROVE w \in R \ {<<t, p>>}
    BY DEF Tokens
<1>2. ASSUME NEW w \in R \ {<<t, p>>} PROVE w \in S
    BY DEF Tokens
<1> QED BY <1>1, <1>2

(* The references of an object, action by action.                          *)
LEMMA StartReferences ==
    ASSUME TypeOK, NEW t \in Threads, NEW p \in Pointers,
           NEW o \in Objects \union {Null}, NEW where,
           Start(t, p, o, where), m_ptr' = m_ptr,
           where \in {"inc", "dec", "store"},
           where # "inc" => o = Null,
           where = "store" => m_ptr[t][p] = Null
    PROVE  \A x \in Objects : References(x)' = References(x)
<1> SUFFICES ASSUME NEW x \in Objects PROVE References(x)' = References(x)
    OBVIOUS
<1> USE NamesDiffer DEF TypeOK, Start
<1>1. ASSUME NEW u \in Threads PROVE OwnsNew(u, x)' = OwnsNew(u, x)
    BY DEF OwnsNew
<1>2. ASSUME NEW u \in Threads, NEW q \in Pointers
      PROVE  Owns(u, q, x)' <=> Owns(u, q, x)
    BY DEF Owns
<1> QED BY <1>1, <1>2 DEF References

LEMMA IncReferences ==
    ASSUME TypeOK, NEW t \in Threads, IncStrong(t), other[t] \in Objects
    PROVE  /\ <<t, New>> \notin References(other[t])
           /\ References(other[t])' = References(other[t]) \union {<<t, New>>}
           /\ \A x \in Objects \ {other[t]} : References(x)' = References(x)
<1> USE NamesDiffer DEF TypeOK, IncStrong, TestOld
<1>1. ASSUME NEW x \in Objects, NEW u \in Threads
      PROVE  OwnsNew(u, x)' <=> (OwnsNew(u, x) \/ (u = t /\ x = other[t]))
    BY DEF OwnsNew
<1>2. ASSUME NEW x \in Objects, NEW u \in Threads, NEW q \in Pointers
      PROVE  Owns(u, q, x)' <=> Owns(u, q, x)
    BY DEF Owns
<1>3. ~OwnsNew(t, other[t])
    BY DEF OwnsNew
<1>4. <<t, New>> \notin References(other[t]) /\ <<t, New>> \in Tokens
    BY <1>3, TokensOfReferences DEF Tokens
<1>5. References(other[t])' = References(other[t]) \union {<<t, New>>}
    <2> DEFINE R == References(other[t])
               S == References(other[t])'
    <2>1. \A u \in Threads, q \in Pointers \union {New} :
             <<u, q>> \in S
               <=> (<<u, q>> \in R \/ (u = t /\ q = New))
        BY <1>1, <1>2, TokensOfReferences
    <2>2. S \subseteq Tokens /\ R \subseteq Tokens
        BY <1>4, TokensOfReferences
    <2> HIDE DEF R, S
    <2>3. S = R \union {<<t, New>>}
        <3>1. ASSUME NEW w \in S PROVE w \in R \union {<<t, New>>}
            BY <2>1, <2>2 DEF Tokens
        <3>2. ASSUME NEW w \in R \union {<<t, New>>} PROVE w \in S
            BY <2>1, <2>2 DEF Tokens
        <3> QED BY <3>1, <3>2
    <2> QED BY <2>3 DEF R, S
<1>6. ASSUME NEW x \in Objects \ {other[t]} PROVE References(x)' = References(x)
    <2>1. \A u \in Threads, q \in Pointers \union {New} :
             <<u, q>> \in References(x)' <=> <<u, q>> \in References(x)
        BY <1>1, <1>2, TokensOfReferences
    <2>2. References(x)' \subseteq Tokens /\ References(x) \subseteq Tokens
        BY TokensOfReferences
    <2> QED BY <2>1, <2>2, SameTokens
<1> QED BY <1>4, <1>5, <1>6

LEMMA DecReferences ==
    ASSUME TypeOK, NEW t \in Threads, DecStrong(t), NEW o \in Objects,
           o = m_ptr[t][dst[t]]
    PROVE  /\ <<t, dst[t]>> \in References(o)
           /\ References(o)' = References(o) \ {<<t, dst[t]>>}
           /\ \A x \in Objects \ {o} : References(x)' = References(x)
<1> USE NamesDiffer DEF TypeOK, DecStrong
<1>1. ASSUME NEW x \in Objects, NEW u \in Threads
      PROVE  OwnsNew(u, x)' <=> OwnsNew(u, x)
    BY DEF OwnsNew
<1>2. ASSUME NEW x \in Objects, NEW u \in Threads, NEW q \in Pointers
      PROVE  Owns(u, q, x)' <=> (Owns(u, q, x) /\ ~(u = t /\ q = dst[t]))
    BY DEF Owns
<1>3. Owns(t, dst[t], o)
    BY DEF Owns
<1>4. ~\E x \in Objects \ {o} : Owns(t, dst[t], x)
    BY DEF Owns
<1>5. <<t, dst[t]>> \in References(o)
    BY <1>3, TokensOfReferences
<1>6. References(o)' = References(o) \ {<<t, dst[t]>>}
    <2> DEFINE R == References(o)
               S == References(o)'
    <2>1. \A u \in Threads, q \in Pointers \union {New} :
             <<u, q>> \in S
               <=> (<<u, q>> \in R /\ ~(u = t /\ q = dst[t]))
        BY <1>1, <1>2, TokensOfReferences
    <2>2. S \subseteq Tokens /\ R \subseteq Tokens
        BY TokensOfReferences
    <2> HIDE DEF R, S
    <2>3. S = R \ {<<t, dst[t]>>}
        BY <2>1, <2>2, OneTokenLess
    <2> QED BY <2>3 DEF R, S
<1>7. ASSUME NEW x \in Objects \ {o} PROVE References(x)' = References(x)
    <2>1. \A u \in Threads, q \in Pointers \union {New} :
             <<u, q>> \in References(x)' <=> <<u, q>> \in References(x)
        BY <1>1, <1>2, <1>4, TokensOfReferences
    <2>2. References(x)' \subseteq Tokens /\ References(x) \subseteq Tokens
        BY TokensOfReferences
    <2> QED BY <2>1, <2>2, SameTokens
<1> QED BY <1>5, <1>6, <1>7

LEMMA DeleteReferences ==
    ASSUME TypeOK, NEW t \in Threads, DeleteObject(t)
    PROVE  \A x \in Objects : References(x)' = References(x)
<1> USE NamesDiffer DEF TypeOK, DeleteObject
<1>1. ASSUME NEW x \in Objects, NEW u \in Threads
      PROVE  OwnsNew(u, x)' <=> OwnsNew(u, x)
    BY DEF OwnsNew
<1>2. ASSUME NEW x \in Objects, NEW u \in Threads, NEW q \in Pointers
      PROVE  Owns(u, q, x)' <=> Owns(u, q, x)
    BY DEF Owns
<1> QED BY <1>1, <1>2 DEF References

(* Storing the pointer hands the new reference over to it.                 *)
LEMMA StoreReferences ==
    ASSUME TypeOK, NEW t \in Threads, StorePtr(t)
    PROVE  /\ \A x \in Objects \ {other[t]} : References(x)' = References(x)
           /\ \A x \in Objects : x = other[t] =>
                 /\ <<t, New>> \in References(x)
                 /\ <<t, dst[t]>> \notin References(x)
                 /\ References(x)' =
                      (References(x) \ {<<t, New>>}) \union {<<t, dst[t]>>}
<1> USE NamesDiffer DEF TypeOK, StorePtr
<1>1. ASSUME NEW x \in Objects, NEW u \in Threads
      PROVE  OwnsNew(u, x)' <=> (OwnsNew(u, x) /\ u # t)
    BY DEF OwnsNew
<1>2. ASSUME NEW x \in Objects, NEW u \in Threads, NEW q \in Pointers
      PROVE  Owns(u, q, x)' <=>
                (Owns(u, q, x) \/ (u = t /\ q = dst[t] /\ x = other[t]))
    BY DEF Owns
<1>3. ASSUME NEW x \in Objects
      PROVE  OwnsNew(t, x) = (x = other[t]) /\ ~Owns(t, dst[t], x)
    BY DEF Owns, OwnsNew
<1>4. ASSUME NEW x \in Objects \ {other[t]} PROVE References(x)' = References(x)
    BY <1>1, <1>2, <1>3 DEF References
<1>5. ASSUME NEW x \in Objects, x = other[t]
      PROVE  /\ <<t, New>> \in References(x)
             /\ <<t, dst[t]>> \notin References(x)
             /\ References(x)' =
                  (References(x) \ {<<t, New>>}) \union {<<t, dst[t]>>}
    <2> DEFINE R == References(x)
               S == References(x)'
    <2>1. /\ <<t, New>> \in R
          /\ <<t, dst[t]>> \notin R
          /\ <<t, dst[t]>> \in Tokens
        BY <1>3, <1>5, TokensOfReferences DEF Tokens
    <2>2. \A u \in Threads, q \in Pointers \union {New} :
             <<u, q>> \in S
               <=> \/ <<u, q>> \in R /\ ~(u = t /\ q = New)
                   \/ u = t /\ q = dst[t]
        BY <1>1, <1>2, <1>5, TokensOfReferences
    <2>3. /\ S \subseteq Tokens
          /\ R \subseteq Tokens
        BY TokensOfReferences
    <2> HIDE DEF R, S
    <2>4. S = (R \ {<<t, New>>}) \union {<<t, dst[t]>>}
        <3>1. ASSUME NEW w \in S
              PROVE  w \in (R \ {<<t, New>>}) \union {<<t, dst[t]>>}
            BY <2>2, <2>3 DEF Tokens
        <3>2. ASSUME NEW w \in (R \ {<<t, New>>}) \union {<<t, dst[t]>>}
              PROVE  w \in S
            BY <2>2, <2>3 DEF Tokens
        <3> QED BY <3>1, <3>2
    <2> QED BY <2>1, <2>4 DEF R, S
<1> QED BY <1>4, <1>5

LEMMA PromoteReferences ==
    ASSUME TypeOK, NEW t \in Threads, NEW p \in Pointers, Promote(t, p)
    PROVE  /\ <<t, p>> \notin References(weak[t])
           /\ References(weak[t])' = References(weak[t]) \union {<<t, p>>}
           /\ \A x \in Objects \ {weak[t]} : References(x)' = References(x)
<1> USE NamesDiffer DEF TypeOK, Promote
<1>1. ASSUME NEW x \in Objects, NEW u \in Threads
      PROVE  OwnsNew(u, x)' <=> OwnsNew(u, x)
    BY DEF OwnsNew
<1>2. ASSUME NEW x \in Objects, NEW u \in Threads, NEW q \in Pointers
      PROVE  Owns(u, q, x)' <=> (Owns(u, q, x) \/ (u = t /\ q = p /\ x = weak[t]))
    BY DEF Owns
<1>3. ~Owns(t, p, weak[t]) /\ weak[t] \in Objects
    BY DEF Owns
<1>4. <<t, p>> \notin References(weak[t]) /\ <<t, p>> \in Tokens
    BY <1>3, TokensOfReferences DEF Tokens
<1>5. References(weak[t])' = References(weak[t]) \union {<<t, p>>}
    <2> DEFINE R == References(weak[t])
               S == References(weak[t])'
    <2>1. \A u \in Threads, q \in Pointers \union {New} :
             <<u, q>> \in S
               <=> (<<u, q>> \in R \/ (u = t /\ q = p))
        BY <1>1, <1>2, <1>3, TokensOfReferences
    <2>2. S \subseteq Tokens /\ R \subseteq Tokens
        BY <1>4, TokensOfReferences
    <2> HIDE DEF R, S
    <2>3. S = R \union {<<t, p>>}
        <3>1. ASSUME NEW w \in S PROVE w \in R \union {<<t, p>>}
            BY <2>1, <2>2 DEF Tokens
        <3>2. ASSUME NEW w \in R \union {<<t, p>>} PROVE w \in S
            BY <2>1, <2>2 DEF Tokens
        <3> QED BY <3>1, <3>2
    <2> QED BY <2>3 DEF R, S
<1>6. ASSUME NEW x \in Objects \ {weak[t]} PROVE References(x)' = References(x)
    <2>1. \A u \in Threads, q \in Pointers \union {New} :
             <<u, q>> \in References(x)' <=> <<u, q>> \in References(x)
        BY <1>1, <1>2, TokensOfReferences
    <2>2. References(x)' \subseteq Tokens /\ References(x) \subseteq Tokens
        BY TokensOfReferences
    <2> QED BY <2>1, <2>2, SameTokens
<1> QED BY <1>4, <1>5, <1>6

-----------------------------------------------------------------------------
(* The invariant holds initially: one reference per thread that was given  *)
(* an sp.                                                                  *)
LEMMA InitInv == Init => Inv
<1> SUFFICES ASSUME Init PROVE Inv
    OBVIOUS
<1> USE NamesDiffer
<1>1. PICK o \in Objects, holders \in SUBSET Threads, first \in Pointers :
        /\ holders # {}
        /\ m_ptr = [t \in Threads |-> [p \in Pointers |->
                      IF t \in holders /\ p = first THEN o ELSE Null]]
        /\ weak = [t \in Threads |-> IF t \in holders THEN Null ELSE o]
        /\ mCount = [x \in Objects |-> IF x = o THEN Cardinality(holders) ELSE 0]
        /\ life = [x \in Objects |-> IF x = o THEN "live" ELSE "unborn"]
        /\ pc = [t \in Threads |-> "idle"]
        /\ dst = [t \in Threads |-> first]
        /\ other = [t \in Threads |-> Null]
        /\ ops = [t \in Threads |-> 0]
    BY DEF Init
<1>2. IsFiniteSet(holders) /\ Cardinality(holders) \in Nat
    BY Finite, FS_Subset, FS_CardinalityType
<1>3. TypeOK
    BY <1>1, <1>2, MaxOpsAssumption DEF TypeOK
<1>4. References(o) = holders \X {first}
    BY <1>1 DEF References, Owns, OwnsNew
<1>5. Cardinality(References(o)) = Cardinality(holders)
    <2>1. IsFiniteSet({first}) /\ Cardinality({first}) = 1
        BY FS_Singleton
    <2> QED BY <1>2, <1>4, <2>1, FS_Product
<1>6. ASSUME NEW x \in Objects, x # o PROVE References(x) = {}
    BY <1>1, <1>6 DEF References, Owns, OwnsNew
<1>7. CountIsReferences
    BY <1>1, <1>5, <1>6, FS_EmptySet DEF CountIsReferences
<1>8. HeldIsLive
    BY <1>1, <1>6 DEF HeldIsLive
<1> QED
    BY <1>1, <1>3, <1>7, <1>8
    DEF Inv, CountedUpIsHeld, NewIsPrivate, CountedDownIsHeld,
        DeletedIsDropped, DeletedOnce

(* While a pointer is counted, its object is alive.                        *)
LEMMA PointedIsLive ==
    ASSUME HeldIsLive, NEW t \in Threads, NEW p \in Pointers, NEW o \in Objects,
           m_ptr[t][p] = o, pc[t] \notin {"delete", "store"}
    PROVE  life[o] = "live"
<1>1. Owns(t, p, o)
    BY DEF Owns
<1> QED BY <1>1, OwnerIsReference DEF HeldIsLive

LEMMA CountedUpIsAlive ==
    ASSUME HeldIsLive, CountedUpIsHeld, NEW t \in Threads, pc[t] = "inc"
    PROVE  other[t] \in Objects /\ life[other[t]] \in {"new", "live"}
BY PointedIsLive DEF CountedUpIsHeld

(* Starting an assignment: nothing is counted yet.                         *)
LEMMA StartInv ==
    ASSUME Inv, NEW t \in Threads, NEW p \in Pointers,
           NEW o \in Objects \union {Null}, NEW where,
           Start(t, p, o, where), UNCHANGED <<m_ptr, weak, mCount>>,
           where \in {"inc", "dec", "store"},
           where # "inc" => o = Null,
           where = "store" => m_ptr[t][p] = Null,
           where = "dec" => m_ptr[t][p] # Null,
           \/ life' = life /\ (where = "inc" => \E q \in Pointers : m_ptr[t][q] = o)
           \/ /\ o \in Objects /\ life[o] = "unborn" /\ where = "inc"
              /\ life' = [life EXCEPT ![o] = "new"],
           where = "inc" => o # Null
    PROVE  Inv'
<1> USE NamesDiffer DEF Inv
<1>1. \A x \in Objects : References(x)' = References(x)
    BY StartReferences
<1>2. TypeOK'
    <2>1. ops' \in [Threads -> 0 .. MaxOps]
        BY MaxOpsAssumption DEF TypeOK, Start
    <2>2. life' \in [Objects -> {"unborn", "new", "live", "deleted"}]
        BY DEF TypeOK
    <2> QED BY <2>1, <2>2 DEF TypeOK, Start
<1>3. CountIsReferences'
    BY <1>1, CountSame
<1>4. HeldIsLive'
    BY <1>1 DEF HeldIsLive, TypeOK
<1>5. CountedUpIsHeld'
    BY DEF CountedUpIsHeld, TypeOK, Start
<1>6. ASSUME NEW u \in Threads, u # t, pc'[u] = "inc"
      PROVE  pc[u] = "inc" /\ other'[u] = other[u] /\ other[u] \in Objects
             /\ life[other[u]] \in {"new", "live"}
    BY <1>6, CountedUpIsAlive DEF TypeOK, Start
<1>7. NewIsPrivate'
    <2> SUFFICES ASSUME NEW u \in Threads, NEW v \in Threads,
                        pc'[u] = "inc", pc'[v] = "inc",
                        other'[u] = other'[v], life'[other'[u]] = "new"
                 PROVE  u = v
        BY DEF NewIsPrivate
    <2>1. CASE u # t /\ v # t
        <3>1. other'[u] = other[u] /\ other'[v] = other[v] /\ life[other[u]] = "new"
            BY <1>6, <2>1 DEF TypeOK, Start
        <3>2. pc[u] = "inc" /\ pc[v] = "inc"
            BY <1>6, <2>1
        <3> QED BY <3>1, <3>2 DEF NewIsPrivate
    <2>2. ASSUME NEW w \in Threads, w # t, pc'[w] = "inc", pc'[t] = "inc",
                 other'[w] = other'[t], life'[other'[t]] = "new"
          PROVE  FALSE
        <3>1. where = "inc" /\ other'[t] = o /\ other[w] = o /\ o \in Objects
            BY <1>6, <2>2 DEF TypeOK, Start
        <3>2. life[o] \in {"new", "live"}
            BY <1>6, <2>2, <3>1
        <3>3. PICK q \in Pointers : m_ptr[t][q] = o
            BY <3>1, <3>2
        <3>4. life[o] = "live" /\ life' = life
            BY <3>1, <3>2, <3>3, PointedIsLive DEF Start
        <3> QED BY <2>2, <3>1, <3>4
    <2> QED BY <2>1, <2>2
<1>8. CountedDownIsHeld'
    BY DEF CountedDownIsHeld, TypeOK, Start
<1>9. DeletedIsDropped'
    BY DEF DeletedIsDropped, TypeOK, Start
<1>10. DeletedOnce'
    BY DEF DeletedOnce, TypeOK, Start
<1> QED BY <1>2, <1>3, <1>4, <1>5, <1>7, <1>8, <1>9, <1>10

LEMMA AssignSpInv ==
    ASSUME Inv, NEW t \in Threads, NEW p \in Pointers, NEW q \in Pointers,
           AssignSp(t, p, q)
    PROVE  Inv'
BY StartInv DEF AssignSp, TestOld, Inv, TypeOK

LEMMA AssignNewInv ==
    ASSUME Inv, NEW t \in Threads, NEW p \in Pointers, NEW o \in Objects,
           AssignNew(t, p, o)
    PROVE  Inv'
BY NamesDiffer, StartInv DEF AssignNew

LEMMA ClearInv ==
    ASSUME Inv, NEW t \in Threads, NEW p \in Pointers, Clear(t, p)
    PROVE  Inv'
BY StartInv DEF Clear

LEMMA AssignWpInv ==
    ASSUME Inv, NEW t \in Threads, NEW p \in Pointers, AssignWp(t, p)
    PROVE  Inv'
<1> USE DEF Inv, AssignWp
<1>1. \A x \in Objects : References(x)' = References(x)
    BY DEF References, Owns, OwnsNew
<1>2. TypeOK'
    <2>1. ops' \in [Threads -> 0 .. MaxOps]
        BY MaxOpsAssumption DEF TypeOK
    <2> QED BY <2>1 DEF TypeOK
<1>3. CountIsReferences'
    BY <1>1, CountSame
<1>4. HeldIsLive'
    BY <1>1 DEF HeldIsLive
<1> QED
    BY <1>2, <1>3, <1>4
    DEF CountedUpIsHeld, NewIsPrivate, CountedDownIsHeld, DeletedIsDropped, DeletedOnce

(* promote() joins the owners of an object that has a count, so an owner.  *)
LEMMA PromoteInv ==
    ASSUME Inv, NEW t \in Threads, NEW p \in Pointers, Promote(t, p)
    PROVE  Inv'
<1> USE NamesDiffer DEF Inv
<1> DEFINE o == weak[t]
<1>1. o \in Objects /\ mCount[o] > 0
    BY DEF Promote, AttemptIncStrong, TypeOK
<1>2. References(o) # {} /\ life[o] = "live"
    BY <1>1, CountedIsHeld DEF HeldIsLive
<1>3. /\ <<t, p>> \notin References(o)
      /\ References(o)' = References(o) \union {<<t, p>>}
      /\ \A x \in Objects \ {o} : References(x)' = References(x)
    BY PromoteReferences
<1>4. CountIsReferences'
    BY <1>1, <1>3, CountUp DEF Promote, AttemptIncStrong, TypeOK
<1>5. TypeOK'
    <2>1. ops' \in [Threads -> 0 .. MaxOps]
        BY MaxOpsAssumption DEF TypeOK, Promote
    <2>2. mCount' \in [Objects -> Nat]
        BY <1>1 DEF TypeOK, Promote, AttemptIncStrong
    <2> QED BY <1>1, <2>1, <2>2 DEF TypeOK, Promote
<1>6. HeldIsLive'
    BY <1>2, <1>3 DEF HeldIsLive, Promote
<1>7. ASSUME NEW u \in Threads, NEW q \in Pointers, m_ptr[u][q] # Null
      PROVE  m_ptr'[u][q] = m_ptr[u][q]
    BY <1>7 DEF Promote, TypeOK
<1>8. CountedUpIsHeld'
    <2> SUFFICES ASSUME NEW u \in Threads, pc'[u] = "inc"
                 PROVE  /\ other'[u] \in Objects
                        /\ \/ life'[other'[u]] = "new"
                           \/ \E q \in Pointers : m_ptr'[u][q] = other'[u]
        BY DEF CountedUpIsHeld
    <2>1. pc[u] = "inc" /\ other'[u] = other[u] /\ life' = life
        BY DEF Promote
    <2> QED BY <1>7, <2>1 DEF CountedUpIsHeld
<1>9. NewIsPrivate'
    BY DEF NewIsPrivate, Promote
<1>10. CountedDownIsHeld'
    <2> SUFFICES ASSUME NEW u \in Threads, pc'[u] = "dec"
                 PROVE  m_ptr'[u][dst'[u]] \in Objects
        BY DEF CountedDownIsHeld
    <2>1. m_ptr[u][dst[u]] \in Objects /\ dst'[u] = dst[u] /\ dst[u] \in Pointers
        BY DEF CountedDownIsHeld, Promote, TypeOK
    <2> QED BY <1>7, <2>1
<1>11. ASSUME NEW u \in Threads, pc'[u] = "delete"
       PROVE  /\ pc[u] = "delete" /\ m_ptr[u][dst[u]] \in Objects
              /\ m_ptr'[u][dst'[u]] = m_ptr[u][dst[u]]
              /\ m_ptr[u][dst[u]] # o
    BY <1>1, <1>7, <1>11 DEF Promote, DeletedIsDropped, TypeOK
<1>12. DeletedIsDropped'
    BY <1>11 DEF DeletedIsDropped, Promote, AttemptIncStrong, TypeOK
<1>13. DeletedOnce'
    BY <1>11 DEF DeletedOnce
<1> QED BY <1>4, <1>5, <1>6, <1>8, <1>9, <1>10, <1>12, <1>13

(* incStrong: the object is held already, or new and nobody else counts it. *)
LEMMA IncInv ==
    ASSUME Inv, NEW t \in Threads, IncStrong(t)
    PROVE  Inv'
<1> USE NamesDiffer DEF Inv
<1> DEFINE o == other[t]
<1>1. o \in Objects /\ life[o] \in {"new", "live"}
    BY CountedUpIsAlive DEF IncStrong
<1>2. /\ <<t, New>> \notin References(o)
      /\ References(o)' = References(o) \union {<<t, New>>}
      /\ \A x \in Objects \ {o} : References(x)' = References(x)
    BY <1>1, IncReferences
<1>3. CountIsReferences'
    BY <1>1, <1>2, CountUp DEF IncStrong, TypeOK
<1>4. TypeOK'
    <2>1. mCount' \in [Objects -> Nat]
        BY <1>1 DEF TypeOK, IncStrong
    <2>2. life' \in [Objects -> {"unborn", "new", "live", "deleted"}]
        BY DEF TypeOK, IncStrong
    <2> QED BY <2>1, <2>2 DEF TypeOK, IncStrong, TestOld
<1>5. life' = [life EXCEPT ![o] = "live"]
    BY DEF IncStrong
<1>6. HeldIsLive'
    BY <1>1, <1>2, <1>5 DEF HeldIsLive, TypeOK
<1>7. ASSUME NEW u \in Threads, pc'[u] = "inc"
      PROVE  u # t /\ pc[u] = "inc" /\ other'[u] = other[u] /\ m_ptr' = m_ptr
    BY <1>7 DEF IncStrong, TestOld, TypeOK
<1>8. CountedUpIsHeld'
    <2> SUFFICES ASSUME NEW u \in Threads, pc'[u] = "inc"
                 PROVE  /\ other'[u] \in Objects
                        /\ \/ life'[other'[u]] = "new"
                           \/ \E q \in Pointers : m_ptr'[u][q] = other'[u]
        BY DEF CountedUpIsHeld
    <2>1. u # t /\ pc[u] = "inc" /\ other'[u] = other[u] /\ m_ptr' = m_ptr
        BY <1>7
    <2>2. CASE other[u] = o /\ life[o] = "new"
        BY <2>1, <2>2 DEF NewIsPrivate, IncStrong
    <2>3. CASE other[u] # o \/ life[o] # "new"
        BY <1>1, <1>5, <2>1, <2>3 DEF CountedUpIsHeld, TypeOK
    <2> QED BY <2>2, <2>3
<1>9. NewIsPrivate'
    BY <1>5, <1>7 DEF NewIsPrivate, CountedUpIsHeld, TypeOK
<1>10. CountedDownIsHeld'
    BY DEF CountedDownIsHeld, IncStrong, TestOld, TypeOK
<1>11. ASSUME NEW u \in Threads, pc'[u] = "delete"
       PROVE  /\ pc[u] = "delete" /\ m_ptr' = m_ptr /\ dst' = dst
              /\ m_ptr[u][dst[u]] \in Objects
              /\ m_ptr[u][dst[u]] # o
    <2>1. pc[u] = "delete" /\ m_ptr' = m_ptr /\ dst' = dst
        BY <1>11 DEF IncStrong, TestOld, TypeOK
    <2>2. m_ptr[u][dst[u]] \in Objects /\ mCount[m_ptr[u][dst[u]]] = 0
          /\ life[m_ptr[u][dst[u]]] = "live"
        BY <2>1 DEF DeletedIsDropped
    <2>3. References(m_ptr[u][dst[u]]) = {}
        BY <2>2, CountedIsHeld
    <2>4. m_ptr[u][dst[u]] # o
        <3> SUFFICES ASSUME m_ptr[u][dst[u]] = o PROVE FALSE
            OBVIOUS
        <3>1. pc[t] = "inc"
            BY DEF IncStrong
        <3>2. PICK q \in Pointers : m_ptr[t][q] = o
            BY <2>2, <3>1 DEF CountedUpIsHeld
        <3>3. Owns(t, q, o)
            BY <3>1, <3>2 DEF Owns
        <3> QED BY <2>3, <3>3, OwnerIsReference
    <2> QED BY <2>1, <2>2, <2>4
<1>12. DeletedIsDropped'
    BY <1>11 DEF DeletedIsDropped, IncStrong, TypeOK
<1>13. DeletedOnce'
    BY <1>11 DEF DeletedOnce
<1> QED BY <1>3, <1>4, <1>6, <1>8, <1>9, <1>10, <1>12, <1>13

(* decStrong: the thread that takes the count to zero, and no other, goes  *)
(* on to delete.                                                           *)
LEMMA DecInv ==
    ASSUME Inv, NEW t \in Threads, DecStrong(t)
    PROVE  Inv'
<1> USE NamesDiffer DEF Inv
<1> PICK o \in Objects : o = m_ptr[t][dst[t]]
    BY DEF CountedDownIsHeld, DecStrong
<1>1. pc[t] = "dec" /\ o \in Objects /\ dst[t] \in Pointers
    BY DEF DecStrong, TypeOK
<1>2. /\ <<t, dst[t]>> \in References(o)
      /\ References(o)' = References(o) \ {<<t, dst[t]>>}
      /\ \A x \in Objects \ {o} : References(x)' = References(x)
    BY <1>1, DecReferences
<1>3. CountIsReferences' /\ mCount' \in [Objects -> Nat]
    BY <1>1, <1>2, CountDown DEF DecStrong, TypeOK
<1>4. life[o] = "live" /\ mCount[o] \in Nat /\ mCount[o] # 0
    BY <1>1, <1>2, CountedIsHeld DEF HeldIsLive
<1>5. TypeOK'
    BY <1>3 DEF TypeOK, DecStrong
<1>6. /\ mCount'[o] = mCount[o] - 1
      /\ pc' = [pc EXCEPT ![t] = IF mCount[o] = 1 THEN "delete" ELSE "store"]
      /\ UNCHANGED <<m_ptr, weak, life, dst, other, ops>>
    BY <1>1 DEF DecStrong, TypeOK
<1>7. HeldIsLive'
    BY <1>1, <1>2, <1>4, <1>6 DEF HeldIsLive
<1>8. CountedUpIsHeld'
    BY <1>6 DEF CountedUpIsHeld, TypeOK
<1>9. NewIsPrivate'
    BY <1>6 DEF NewIsPrivate, TypeOK
<1>10. CountedDownIsHeld'
    BY <1>6 DEF CountedDownIsHeld, TypeOK
<1>11. ASSUME NEW u \in Threads, u # t, pc'[u] = "delete"
       PROVE  /\ pc[u] = "delete" /\ m_ptr[u][dst[u]] \in Objects
              /\ mCount'[m_ptr[u][dst[u]]] = 0
              /\ life[m_ptr[u][dst[u]]] = "live"
              /\ m_ptr[u][dst[u]] # o
    <2>1. pc[u] = "delete"
        BY <1>6, <1>11 DEF TypeOK
    <2>2. /\ m_ptr[u][dst[u]] \in Objects
          /\ mCount[m_ptr[u][dst[u]]] = 0
          /\ life[m_ptr[u][dst[u]]] = "live"
        BY <2>1 DEF DeletedIsDropped
    <2>3. m_ptr[u][dst[u]] # o
        BY <1>4, <2>2
    <2> QED BY <2>1, <2>2, <2>3 DEF DecStrong, TypeOK
<1>12. pc'[t] = "delete" => mCount'[o] = 0
    BY <1>4, <1>6 DEF TypeOK
<1>13. DeletedIsDropped'
    BY <1>1, <1>4, <1>6, <1>11, <1>12 DEF DeletedIsDropped
<1>14. DeletedOnce'
    BY <1>6, <1>11 DEF DeletedOnce
<1> QED BY <1>3, <1>5, <1>7, <1>8, <1>9, <1>10, <1>13, <1>14

LEMMA DeleteInv ==
    ASSUME Inv, NEW t \in Threads, DeleteObject(t)
    PROVE  Inv'
<1> USE NamesDiffer DEF Inv
<1> DEFINE o == m_ptr[t][dst[t]]
<1>1. pc[t] = "delete" /\ o \in Objects /\ mCount[o] = 0 /\ life[o] = "live"
    BY DEF DeletedIsDropped, DeleteObject
<1>2. References(o) = {}
    BY <1>1, CountedIsHeld
<1>3. \A x \in Objects : References(x)' = References(x)
    BY DeleteReferences
<1>4. /\ life' = [life EXCEPT ![o] = "deleted"]
      /\ pc' = [pc EXCEPT ![t] = "store"]
      /\ UNCHANGED <<m_ptr, weak, mCount, dst, other, ops>>
    BY DEF DeleteObject
<1>5. TypeOK'
    BY <1>4 DEF TypeOK
<1>6. CountIsReferences'
    BY <1>3, <1>4, CountSame
<1>7. HeldIsLive'
    BY <1>1, <1>2, <1>3, <1>4 DEF HeldIsLive, TypeOK
<1>8. CountedUpIsHeld'
    BY <1>1, <1>4 DEF CountedUpIsHeld, TypeOK
<1>9. NewIsPrivate'
    BY <1>4 DEF NewIsPrivate, CountedUpIsHeld, TypeOK
<1>10. CountedDownIsHeld'
    BY <1>4 DEF CountedDownIsHeld, TypeOK
<1>11. ASSUME NEW u \in Threads, pc'[u] = "delete"
       PROVE  pc[u] = "delete" /\ m_ptr[u][dst[u]] # o
    <2>1. u # t /\ pc[u] = "delete"
        BY <1>4, <1>11 DEF TypeOK
    <2> QED BY <1>1, <2>1 DEF DeletedOnce
<1>12. DeletedIsDropped'
    BY <1>4, <1>11 DEF DeletedIsDropped, TypeOK
<1>13. DeletedOnce'
    BY <1>4, <1>11 DEF DeletedOnce
<1> QED BY <1>5, <1>6, <1>7, <1>8, <1>9, <1>10, <1>12, <1>13

LEMMA StoreInv ==
    ASSUME Inv, NEW t \in Threads, StorePtr(t)
    PROVE  Inv'
<1> USE NamesDiffer DEF Inv
<1> DEFINE o == other[t]
<1>1. /\ \A x \in Objects \ {o} : References(x)' = References(x)
      /\ \A x \in Objects : x = o =>
            /\ <<t, New>> \in References(x)
            /\ <<t, dst[t]>> \notin References(x)
            /\ References(x)' = (References(x) \ {<<t, New>>}) \union {<<t, dst[t]>>}
    BY StoreReferences
<1>2. /\ m_ptr' = [m_ptr EXCEPT ![t][dst[t]] = o]
      /\ pc[t] = "store" /\ pc' = [pc EXCEPT ![t] = "idle"]
      /\ UNCHANGED <<weak, mCount, life, dst, other, ops>>
    BY DEF StorePtr
<1>3. TypeOK'
    BY <1>2 DEF TypeOK
<1>4. ASSUME NEW x \in Objects
      PROVE  /\ Cardinality(References(x)') = Cardinality(References(x))
             /\ References(x)' # {} => References(x) # {}
    <2>1. CASE x # o
        BY <1>1, <2>1
    <2>2. CASE x = o
        <3> DEFINE R == References(x) \ {<<t, New>>}
        <3>1. IsFiniteSet(References(x))
            BY ReferencesFinite
        <3>2. IsFiniteSet(R) /\ Cardinality(R) = Cardinality(References(x)) - 1
            BY <1>1, <2>2, <3>1, FS_RemoveElement
        <3>3. <<t, dst[t]>> \notin R /\ References(x)' = R \union {<<t, dst[t]>>}
            BY <1>1, <2>2
        <3>4. Cardinality(References(x)') = Cardinality(R) + 1
            BY <3>2, <3>3, FS_AddElement
        <3>5. Cardinality(References(x)) \in Nat
            BY <3>1, FS_CardinalityType
        <3> QED BY <1>1, <2>2, <3>2, <3>4, <3>5
    <2> QED BY <2>1, <2>2
<1>5. CountIsReferences'
    BY <1>2, <1>4 DEF CountIsReferences
<1>6. HeldIsLive'
    BY <1>2, <1>4 DEF HeldIsLive
<1>7. ASSUME NEW u \in Threads, pc'[u] # "idle"
      PROVE  u # t /\ pc'[u] = pc[u] /\ m_ptr'[u] = m_ptr[u]
    BY <1>2, <1>7 DEF TypeOK
<1>8. CountedUpIsHeld'
    BY <1>2, <1>7 DEF CountedUpIsHeld
<1>9. NewIsPrivate'
    BY <1>2, <1>7 DEF NewIsPrivate
<1>10. CountedDownIsHeld'
    BY <1>2, <1>7 DEF CountedDownIsHeld
<1>11. DeletedIsDropped'
    BY <1>2, <1>7 DEF DeletedIsDropped
<1>12. DeletedOnce'
    BY <1>2, <1>7 DEF DeletedOnce
<1> QED BY <1>3, <1>5, <1>6, <1>8, <1>9, <1>10, <1>11, <1>12

-----------------------------------------------------------------------------
LEMMA StutterInv ==
    ASSUME Inv, UNCHANGED vars
    PROVE  Inv'
<1>1. \A x \in Objects : References(x)' = References(x)
    BY DEF References, Owns, OwnsNew, vars
<1> QED
    BY <1>1
    DEF Inv, vars, TypeOK, CountIsReferences, HeldIsLive, CountedUpIsHeld,
        NewIsPrivate, CountedDownIsHeld, DeletedIsDropped, DeletedOnce

LEMMA NextInv == Inv /\ [Next]_vars => Inv'
<1> SUFFICES ASSUME Inv, [Next]_vars PROVE Inv'
    OBVIOUS
<1>1. ASSUME NEW t \in Threads, Step(t) PROVE Inv'
    BY <1>1, IncInv, DecInv, DeleteInv, StoreInv DEF Step
<1>2. ASSUME NEW t \in Threads, Operation(t) PROVE Inv'
    BY <1>2, AssignSpInv, AssignNewInv, ClearInv, AssignWpInv, PromoteInv DEF Operation
<1>3. CASE UNCHANGED vars
    BY <1>3, StutterInv
<1> QED BY <1>1, <1>2, <1>3 DEF Next

LEMMA SpecInv == Spec => []Inv
    BY InitInv, NextInv, PTL DEF Spec

(* The count is the number of references, in the middle of an operator=    *)
(* too.                                                                    *)
THEOREM CountsAreReferences == Spec => []CountIsReferences
<1>1. Inv => CountIsReferences
    BY DEF Inv
<1> QED BY <1>1, SpecInv, PTL

(* No thread reaches a deleted object.                                     *)
THEOREM NothingFreedIsUsed == Spec => []NoUseAfterFree
<1>1. ASSUME Inv PROVE NoUseAfterFree
    <2> USE <1>1 DEF Inv
    <2> SUFFICES ASSUME NEW t \in Threads
                 PROVE  /\ \A p \in Pointers, o \in Objects :
                              Owns(t, p, o) => life[o] = "live"
                        /\ pc[t] = "inc" => life[other[t]] \in {"new", "live"}
                        /\ pc[t] \in {"dec", "delete"} =>
                              life[m_ptr[t][dst[t]]] = "live"
        BY DEF NoUseAfterFree
    <2>1. \A p \in Pointers, o \in Objects : Owns(t, p, o) => life[o] = "live"
        BY OwnerIsReference DEF HeldIsLive
    <2>2. pc[t] = "inc" => life[other[t]] \in {"new", "live"}
        BY CountedUpIsAlive
    <2>3. pc[t] = "delete" => life[m_ptr[t][dst[t]]] = "live"
        BY DEF DeletedIsDropped
    <2>4. pc[t] = "dec" => life[m_ptr[t][dst[t]]] = "live"
        BY PointedIsLive DEF CountedDownIsHeld, TypeOK
    <2> QED BY <2>1, <2>2, <2>3, <2>4
<1> QED BY <1>1, SpecInv, PTL

-----------------------------------------------------------------------------
(* The refinement: who holds an object changes as SharedObject allows.     *)
Held == [o \in Objects |-> References(o)]

LEMMA SameHeld ==
    ASSUME \A x \in Objects : References(x)' = References(x)
    PROVE  Held' = Held
BY DEF Held

LEMMA OneHeldChanges ==
    ASSUME NEW o \in Objects, NEW S, References(o)' = S,
           \A x \in Objects \ {o} : References(x)' = References(x)
    PROVE  Held' = [Held EXCEPT ![o] = S]
<1>1. \A x \in Objects : Held'[x] = IF x = o THEN S ELSE Held[x]
    BY DEF Held
<1>2. Held' = [x \in Objects |-> Held'[x]]
    BY DEF Held
<1>3. [Held EXCEPT ![o] = S] = [x \in Objects |-> IF x = o THEN S ELSE Held[x]]
    BY DEF Held
<1> QED BY <1>1, <1>2, <1>3

LEMMA InitRefines == Init => SO!SOInit
<1> SUFFICES ASSUME Init PROVE SO!SOInit
    OBVIOUS
<1>1. Inv
    BY InitInv
<1>2. Held \in [Objects -> SUBSET (Threads \X (Pointers \union {New}))]
    BY DEF Held, References
<1>3. ASSUME NEW o \in Objects
      PROVE  life[o] = IF Held[o] = {} THEN "unborn" ELSE "live"
    <2>1. life[o] = IF mCount[o] = 0 THEN "unborn" ELSE "live"
        <3>1. PICK x \in Objects, holders \in SUBSET Threads :
                /\ holders # {}
                /\ mCount = [y \in Objects |-> IF y = x THEN Cardinality(holders) ELSE 0]
                /\ life = [y \in Objects |-> IF y = x THEN "live" ELSE "unborn"]
            BY DEF Init
        <3>2. IsFiniteSet(holders)
            BY Finite, FS_Subset
        <3>3. Cardinality(holders) # 0
            BY <3>1, <3>2, FS_EmptySet
        <3> QED BY <3>1, <3>3
    <2>2. mCount[o] = 0 <=> References(o) = {}
        BY <1>1, CountedIsHeld DEF Inv
    <2> QED BY <2>1, <2>2 DEF Held
<1>4. life = [o \in Objects |-> IF Held[o] = {} THEN "unborn" ELSE "live"]
    BY <1>1, <1>3 DEF Inv, TypeOK
<1> QED BY <1>2, <1>4 DEF SO!SOInit, Held

LEMMA StartRefines ==
    ASSUME Inv, NEW t \in Threads, Operation(t)
    PROVE  [SO!SONext]_<<Held, life>>
<1> USE NamesDiffer DEF Inv
<1>1. PICK p \in Pointers :
        \/ \E q \in Pointers : AssignSp(t, p, q)
        \/ \E o \in Objects : AssignNew(t, p, o)
        \/ Clear(t, p)
        \/ AssignWp(t, p)
        \/ Promote(t, p)
    BY DEF Operation
<1>2. ASSUME NEW q \in Pointers, AssignSp(t, p, q) PROVE UNCHANGED <<Held, life>>
    BY <1>2, StartReferences, SameHeld DEF AssignSp, TestOld, TypeOK
<1>3. ASSUME NEW o \in Objects, AssignNew(t, p, o) PROVE SO!Create(o)
    <2>1. Held' = Held
        BY <1>3, StartReferences, SameHeld DEF AssignNew
    <2> QED BY <1>3, <2>1 DEF AssignNew, SO!Create, Held
<1>4. ASSUME Clear(t, p) PROVE UNCHANGED <<Held, life>>
    BY <1>4, StartReferences, SameHeld DEF Clear
<1>5. ASSUME AssignWp(t, p) PROVE UNCHANGED <<Held, life>>
    <2>1. \A x \in Objects : References(x)' = References(x)
        BY <1>5 DEF AssignWp, References, Owns, OwnsNew
    <2> QED BY <1>5, <2>1, SameHeld DEF AssignWp
<1>6. ASSUME Promote(t, p) PROVE \E o \in Objects : SO!Join(o)
    <2> PICK o \in Objects : o = weak[t] /\ mCount[o] > 0
        BY <1>6 DEF Promote, AttemptIncStrong, TypeOK
    <2>1. /\ <<t, p>> \notin References(o)
          /\ References(o)' = References(o) \union {<<t, p>>}
          /\ \A x \in Objects \ {o} : References(x)' = References(x)
        BY <1>6, PromoteReferences DEF Promote
    <2>2. References(o) # {} /\ life[o] = "live"
        BY CountedIsHeld DEF HeldIsLive
    <2>3. Held' = [Held EXCEPT ![o] = References(o) \union {<<t, p>>}]
        BY <2>1, OneHeldChanges
    <2> QED BY <1>6, <2>1, <2>2, <2>3 DEF SO!Join, Held, Promote
<1> QED BY <1>1, <1>2, <1>3, <1>4, <1>5, <1>6 DEF SO!SONext

LEMMA StepRefines ==
    ASSUME Inv, NEW t \in Threads, Step(t)
    PROVE  [SO!SONext]_<<Held, life>>
<1> USE NamesDiffer DEF Inv
<1>1. ASSUME IncStrong(t) PROVE \E o \in Objects : SO!First(o) \/ SO!Join(o)
    <2> PICK o \in Objects : o = other[t]
        BY <1>1, CountedUpIsAlive DEF IncStrong
    <2>1. /\ <<t, New>> \notin References(o)
          /\ References(o)' = References(o) \union {<<t, New>>}
          /\ \A x \in Objects \ {o} : References(x)' = References(x)
        BY <1>1, IncReferences DEF IncStrong
    <2>2. Held' = [Held EXCEPT ![o] = References(o) \union {<<t, New>>}]
        BY <2>1, OneHeldChanges
    <2>3. life' = [life EXCEPT ![o] = "live"] /\ pc[t] = "inc"
        BY <1>1 DEF IncStrong
    <2>4. CASE life[o] = "new"
        <3>1. References(o) = {}
            BY <2>4 DEF HeldIsLive
        <3>2. Held' = [Held EXCEPT ![o] = {<<t, New>>}]
            BY <2>2, <3>1
        <3> QED BY <2>3, <2>4, <3>2 DEF SO!First, Held
    <2>5. CASE life[o] # "new"
        <3>1. PICK q \in Pointers : m_ptr[t][q] = o
            BY <2>3, <2>5 DEF CountedUpIsHeld
        <3>2. Owns(t, q, o)
            BY <2>3, <3>1 DEF Owns
        <3>3. References(o) # {} /\ life[o] = "live"
            BY <3>2, OwnerIsReference DEF HeldIsLive
        <3>4. life' = life
            BY <2>3, <3>3 DEF TypeOK
        <3> QED BY <2>1, <2>2, <3>3, <3>4 DEF SO!Join, Held
    <2> QED BY <2>4, <2>5
<1>2. ASSUME DecStrong(t) PROVE \E o \in Objects : SO!Leave(o)
    <2> PICK o \in Objects : o = m_ptr[t][dst[t]]
        BY <1>2 DEF CountedDownIsHeld, DecStrong
    <2>1. /\ <<t, dst[t]>> \in References(o)
          /\ References(o)' = References(o) \ {<<t, dst[t]>>}
          /\ \A x \in Objects \ {o} : References(x)' = References(x)
        BY <1>2, DecReferences
    <2>2. Held' = [Held EXCEPT ![o] = References(o) \ {<<t, dst[t]>>}]
        BY <2>1, OneHeldChanges
    <2> QED BY <1>2, <2>1, <2>2 DEF SO!Leave, Held, DecStrong
<1>3. ASSUME DeleteObject(t) PROVE \E o \in Objects : SO!Delete(o)
    <2> PICK o \in Objects :
          o = m_ptr[t][dst[t]] /\ mCount[o] = 0 /\ life[o] = "live"
        BY <1>3 DEF DeletedIsDropped, DeleteObject
    <2>1. References(o) = {}
        BY CountedIsHeld
    <2>2. Held' = Held
        BY <1>3, DeleteReferences, SameHeld
    <2> QED BY <1>3, <2>1, <2>2 DEF SO!Delete, Held, DeleteObject
<1>4. ASSUME StorePtr(t)
      PROVE  (\E o \in Objects : SO!Rename(o)) \/ UNCHANGED <<Held, life>>
    <2>1. CASE other[t] \notin Objects
        <3>1. \A x \in Objects : References(x)' = References(x)
            BY <1>4, <2>1, StoreReferences
        <3> QED BY <1>4, <3>1, SameHeld DEF StorePtr
    <2>2. CASE other[t] \in Objects
        <3> PICK o \in Objects : o = other[t]
            BY <2>2
        <3>1. /\ <<t, New>> \in References(o)
              /\ <<t, dst[t]>> \notin References(o)
              /\ References(o)' = (References(o) \ {<<t, New>>}) \union {<<t, dst[t]>>}
              /\ \A x \in Objects \ {o} : References(x)' = References(x)
            BY <1>4, StoreReferences
        <3>2. Held' = [Held EXCEPT ![o] =
                         (References(o) \ {<<t, New>>}) \union {<<t, dst[t]>>}]
            BY <3>1, OneHeldChanges
        <3>3. <<t, dst[t]>> \in Threads \X (Pointers \union {New})
            BY DEF TypeOK
        <3>4. \E w \in Held[o],
                 v \in (Threads \X (Pointers \union {New})) \ Held[o] :
                 Held' = [Held EXCEPT ![o] = (@ \ {w}) \union {v}]
            <4>1. <<t, New>> \in Held[o] /\ Held[o] = References(o)
                BY <3>1 DEF Held
            <4>2. <<t, dst[t]>> \in (Threads \X (Pointers \union {New})) \ Held[o]
                BY <3>1, <3>3, <4>1
            <4> QED BY <3>2, <4>1, <4>2
        <3>5. SO!Rename(o)
            BY <1>4, <3>4 DEF SO!Rename, Held, StorePtr
        <3> QED BY <3>5
    <2> QED BY <2>1, <2>2
<1> QED BY <1>1, <1>2, <1>3, <1>4 DEF Step, SO!SONext

LEMMA NextRefines == Inv /\ [Next]_vars => [SO!SONext]_<<Held, life>>
<1> SUFFICES ASSUME Inv, [Next]_vars PROVE [SO!SONext]_<<Held, life>>
    OBVIOUS
<1>1. ASSUME UNCHANGED vars PROVE UNCHANGED <<Held, life>>
    <2>1. \A x \in Objects : References(x)' = References(x)
        BY <1>1 DEF vars, References, Owns, OwnsNew
    <2> QED BY <1>1, <2>1, SameHeld DEF vars
<1> QED BY <1>1, StartRefines, StepRefines DEF Next

(* sp, wp and the counts implement shared ownership: an object is joined   *)
(* only while it is held, and deleted once, after it is let go.            *)
THEOREM CountsImplementOwnership == Spec => Implements
<1>1. Spec => SO!SOInit
    BY InitRefines DEF Spec
<1>2. Spec => [][Next]_vars
    BY DEF Spec
<1>3. Inv /\ [Next]_vars => [SO!SONext]_<<[o \in Objects |-> References(o)], life>>
    BY NextRefines DEF Held
<1> QED BY <1>1, <1>2, <1>3, SpecInv, PTL DEF Implements, SO!SOSpec

=============================================================================
