---------------------------- MODULE SharedObject ----------------------------
(***************************************************************************)
(* What reference counting promises: an object is held by a set of owners, *)
(* an owner joins only while another one holds it, and it is deleted once, *)
(* after the last owner has let go.                                        *)
(***************************************************************************)
CONSTANTS Objects, Owners

VARIABLES
    held,           \* held[o]: the owners of object o
    life            \* unborn, new (held by nobody yet), live or deleted

SOInit ==
    \E holders \in [Objects -> SUBSET Owners] :
        /\ held = holders
        /\ life = [o \in Objects |-> IF holders[o] = {} THEN "unborn" ELSE "live"]

Create(o) ==
    /\ life[o] = "unborn"
    /\ life' = [life EXCEPT ![o] = "new"]
    /\ UNCHANGED held

First(o) ==
    /\ life[o] = "new"
    /\ life' = [life EXCEPT ![o] = "live"]
    /\ \E w \in Owners : held' = [held EXCEPT ![o] = {w}]

Join(o) ==
    /\ life[o] = "live"
    /\ held[o] # {}
    /\ \E w \in Owners \ held[o] : held' = [held EXCEPT ![o] = @ \union {w}]
    /\ UNCHANGED life

Leave(o) ==
    /\ \E w \in held[o] : held' = [held EXCEPT ![o] = @ \ {w}]
    /\ UNCHANGED life

(* An owner keeps the object under another name: a local becomes a member. *)
Rename(o) ==
    /\ \E w \in held[o], v \in Owners \ held[o] :
           held' = [held EXCEPT ![o] = (@ \ {w}) \union {v}]
    /\ UNCHANGED life

Delete(o) ==
    /\ life[o] = "live"
    /\ held[o] = {}
    /\ life' = [life EXCEPT ![o] = "deleted"]
    /\ UNCHANGED held

SONext ==
    \E o \in Objects :
        Create(o) \/ First(o) \/ Join(o) \/ Leave(o) \/ Rename(o) \/ Delete(o)

SOSpec == SOInit /\ [][SONext]_<<held, life>>

=============================================================================
