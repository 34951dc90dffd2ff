--------------------------- MODULE EthernetRoutes ---------------------------
(***************************************************************************)
(* "Remove all route tables" of the Ethernet demo: it reads the rows that  *)
(* busybox route prints and removes them one by one, while other processes *)
(* change the kernel's table.                                              *)
(***************************************************************************)
EXTENDS Integers, SequencesExt

CONSTANTS
    Routes,         \* the routes considered: [dest, len, gw, iface, named]
    Tables,         \* the routing tables the demo may find
    MaxRows         \* the length of RTBS (128 in the code)

VARIABLES
    table,          \* the kernel's routing table
    RTBS,           \* the rows read
    row,            \* the row the loop is at, 0 outside it
    touched         \* history: rows whose route somebody else changed, or
                    \* whose removal failed

routeVars == <<table, RTBS, row, touched>>

ASSUME MaxRowsAssumption == MaxRows \in Nat

(* The kernel's table is finite, and a prefix has at most 32 bits.          *)
ASSUME RoutesAssumption ==
    IsFiniteSet(Routes) /\ \A r \in Routes : r.len \in 0 .. 32

ASSUME TablesAssumption == Tables \subseteq SUBSET Routes

Default == "0.0.0.0"

(* 1 << j.                                                                  *)
Bit(j) == 2 ^ j

(* A mask as busybox prints it: four octets, the first len bits set.       *)
MaskOf(len) ==
    [i \in 1 .. 4 |->
        LET bits == IF len >= 8 * i THEN 8
                    ELSE IF len <= 8 * (i - 1) THEN 0 ELSE len - 8 * (i - 1)
        IN 256 - Bit(8 - bits)]

(* The set bits of an octet before its first clear bit, from bit 7 down.   *)
LeadingOnes(octet) ==
    Cardinality({j \in 0 .. 7 : \A k \in j .. 7 : (octet \div Bit(k)) % 2 = 1})

(* Octets of 255 count 8 each, and the first other one ends the count.     *)
GetPrefixLen(mask) ==
    LET full == Cardinality({i \in 1 .. 4 : \A k \in 1 .. i : mask[k] = 255})
    IN 8 * full + (IF full = 4 THEN 0 ELSE LeadingOnes(mask[full + 1]))

(* A row of the output.  A destination the resolver knows is printed by    *)
(* its name; "default" and "*" are read back as 0.0.0.0.                   *)
Printed(r) ==
    [dest |-> IF r.named THEN "name" ELSE r.dest,
     gw |-> r.gw, mask |-> MaskOf(r.len), iface |-> r.iface, of |-> r]

RoutesInit ==
    /\ table \in Tables
    /\ RTBS = <<>>
    /\ row = 0
    /\ touched = {}

(* getCurrentRTBS: an IOException keeps the rows read so far, a row beyond *)
(* the last one of RTBS throws.                                            *)
ReadRows(rows) == RTBS' = [i \in DOMAIN rows |-> Printed(rows[i])]

TooManyRows(rows) == Len(rows) > MaxRows

(* The kernel's order of the rows is one order of the table.               *)
RowsRead == {SubSeq(SetToSeq(table), 1, n) : n \in 0 .. Cardinality(table)}

(* Mutant: only a default route without a gateway is skipped. *)
MutSkipped(entry) == entry.dest = Default /\ entry.gw = Default

(* Routes without a gateway, and the default route, are skipped.           *)
Skipped(entry) == entry.dest = Default \/ entry.gw = Default

(* rmRoutertb of the service: it removes the route with exactly these      *)
(* parts, if the table has it and the service lets it.                     *)
rmRoutertb(dest, len, gw, iface) ==
    {r \in table : r.dest = dest /\ r.len = len /\ r.gw = gw /\ r.iface = iface}

(* One turn of the loop of RemoveAllRouteTables.                           *)
RemoveRow ==
    LET entry == RTBS[row]
        found == rmRoutertb(entry.dest, GetPrefixLen(entry.mask), entry.gw, entry.iface)
    IN  /\ row \in DOMAIN RTBS
        /\ \/ /\ Skipped(entry)
              /\ UNCHANGED <<table, touched>>
           \/ /\ ~Skipped(entry)
              /\ table' = table \ found
              /\ touched' = IF entry.of.named THEN touched \union {entry.of} ELSE touched
           \/ /\ ~Skipped(entry)
              /\ touched' = touched \union {entry.of}
              /\ UNCHANGED table
        /\ row' = row + 1
        /\ UNCHANGED RTBS

(* The loop ends; CurrentRTBS was a local variable.                        *)
RowsDone ==
    /\ row > Len(RTBS)
    /\ row' = 0
    /\ RTBS' = <<>>
    /\ touched' = {}
    /\ UNCHANGED table

(* The rest of the system adds and drops routes.                           *)
OthersChange ==
    /\ \E r \in Routes :
         /\ table' = IF r \in table THEN table \ {r} ELSE table \union {r}
         /\ touched' = IF row = 0 THEN {} ELSE touched \union {r}
    /\ UNCHANGED <<RTBS, row>>

(* The rows the loop is done with. *)
Processed == 1 .. row - 1

(* The loop removes the routes through a gateway and no other: whatever    *)
(* prefix the mask was printed for, the service finds the route again      *)
(* (RemoveAllRouteTables, GetPrefixLen).                                   *)
OnlyGatewayRoutesGo ==
    \A j \in Processed :
        LET r == RTBS[j].of
        IN r \notin touched =>
             (r \in table <=> (r.dest = "0.0.0.0" \/ r.gw = "0.0.0.0"))

=============================================================================
