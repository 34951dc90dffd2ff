--------------------------- MODULE EthernetProofs ---------------------------
(***************************************************************************)
(* Theorems about EthernetDemo and the loop of EthernetRoutes: for any     *)
(* routes and tables, any initial states and any bounds.                   *)
(***************************************************************************)
EXTENDS EthernetDemo, FiniteSetTheorems, SequenceTheorems, TLAPS

(* A broadcast, or a command, for interface i is on its way.                *)
About(s, i) == \E n \in DOMAIN s : s[n].iface = i
Told(i) == About(bcast, i)
Asked(i) == About(cmds, i)

(* The last broadcast on its way for i carries the state i has.             *)
LastOf(s, i, st) ==
    \A n \in DOMAIN s :
        s[n].iface = i /\ (\A m \in DOMAIN s : m > n => s[m].iface # i)
            => s[n].state = st
LastTold(i) == LastOf(bcast, i, net[i])

(* What the views of an interface onCreate has read say of it: the switch   *)
(* is out of step only while a broadcast or a command is on its way, after  *)
(* a change nobody was told of, or after a command that changed nothing.    *)
ViewsOf(i) ==
    /\ enabled[i] <=> ShownEnabled(text[i])
    /\ ~missed[i] /\ ~Told(i) =>
         /\ text[i] = net[i]
         /\ ~refused[i] /\ ~Asked(i) => (checked[i] <=> ShownChecked(net[i]))

MainInv ==
    /\ mpc # "read" => unread = {}
    /\ mpc \in {"read", "register"} => bcast = <<>>
    /\ mpc = "restore" => saved # <<>>

SwitchInv ==
    mpc # "dead" => \A i \in Ifaces : LastTold(i) /\ (i \notin unread => ViewsOf(i))

(* Until onRestoreInstanceState, an interface that has not changed since    *)
(* the activity went still has the state its saved switch was shown for.    *)
SavedInv ==
    mpc \in {"read", "register", "restore"} /\ saved # <<>> =>
        \A i \in Ifaces :
            ~drift[i] => /\ saved[i] <=> ShownChecked(net[i])
                         /\ i \notin unread => (checked[i] <=> ShownChecked(net[i]))

(* The rows are those printed for routes; a row the loop skips keeps its    *)
(* route, another loses it in its turn, unless somebody else touched it.    *)
Kept(r) == r.dest = Default \/ r.gw = Default

RowInv(j) ==
    LET r == RTBS[j].of
    IN  /\ r \in Routes /\ RTBS[j] = Printed(r)
        /\ r \notin touched /\ Kept(r) => r \in table
        /\ r \notin touched /\ ~Kept(r) /\ j < row => r \notin table

RoutesInv ==
    /\ table \subseteq Routes
    /\ row \in Nat /\ row <= Len(RTBS) + 1
    /\ row = 0 => RTBS = <<>>
    /\ row # 0 => mpc \in {"remove", "dead"}
    /\ DOMAIN RTBS = 1 .. Len(RTBS) /\ Len(RTBS) \in Nat
    /\ \A j \in DOMAIN RTBS : RowInv(j)

-----------------------------------------------------------------------------
(* The prefix of a mask.                                                    *)

LEMMA Bits ==
    /\ Bit(0) = 1 /\ Bit(1) = 2 /\ Bit(2) = 4 /\ Bit(3) = 8 /\ Bit(4) = 16
    /\ Bit(5) = 32 /\ Bit(6) = 64 /\ Bit(7) = 128 /\ Bit(8) = 256
BY DEF Bit

(* An octet with its first b bits set, bit by bit.                          *)
LEMMA OctetBits ==
    ASSUME NEW b \in 0 .. 7, NEW k \in 0 .. 7
    PROVE  ((256 - Bit(8 - b)) \div Bit(k)) % 2 = 1 <=> k >= 8 - b
<1>1. /\ b \in {0, 1, 2, 3, 4, 5, 6, 7} /\ k \in {0, 1, 2, 3, 4, 5, 6, 7}
  OBVIOUS
<1>2. Bit(8 - b) = CASE b = 0 -> 256 [] b = 1 -> 128 [] b = 2 -> 64 [] b = 3 -> 32
                     [] b = 4 -> 16 [] b = 5 -> 8 [] b = 6 -> 4 [] b = 7 -> 2
  BY <1>1, Bits
<1>3. Bit(k) = CASE k = 0 -> 1 [] k = 1 -> 2 [] k = 2 -> 4 [] k = 3 -> 8
                 [] k = 4 -> 16 [] k = 5 -> 32 [] k = 6 -> 64 [] k = 7 -> 128
  BY <1>1, Bits
<1>. QED  BY <1>1, <1>2, <1>3

LEMMA OctetCount ==
    ASSUME NEW b \in 0 .. 7
    PROVE  LeadingOnes(256 - Bit(8 - b)) = b
<1>. DEFINE o == 256 - Bit(8 - b)
            S == {j \in 0 .. 7 : \A k \in j .. 7 : (o \div Bit(k)) % 2 = 1}
<1>1. \A k \in 0 .. 7 : (o \div Bit(k)) % 2 = 1 <=> k >= 8 - b
  BY OctetBits
<1>2. S = (8 - b) .. 7
  <2>. HIDE DEF o
  <2>. QED  BY <1>1
<1>3. Cardinality((8 - b) .. 7) = b
  BY FS_Interval
<1>. QED  BY <1>2, <1>3 DEF LeadingOnes

LEMMA OctetFull ==
    ASSUME NEW b \in 0 .. 8
    PROVE  256 - Bit(8 - b) = 255 <=> b = 8
<1>1. b \in {0, 1, 2, 3, 4, 5, 6, 7, 8}
  OBVIOUS
<1>. QED  BY <1>1, Bits

(* Whatever prefix busybox printed a mask for, GetPrefixLen gives it back.  *)
THEOREM PrefixIsFoundAgain == \A len \in 0 .. 32 : GetPrefixLen(MaskOf(len)) = len
<1>. SUFFICES ASSUME NEW len \in 0 .. 32 PROVE GetPrefixLen(MaskOf(len)) = len
  OBVIOUS
<1>. DEFINE q == len \div 8
            bits(i) == IF len >= 8 * i THEN 8
                       ELSE IF len <= 8 * (i - 1) THEN 0 ELSE len - 8 * (i - 1)
            mask == MaskOf(len)
            full == {i \in 1 .. 4 : \A k \in 1 .. i : mask[k] = 255}
<1>1. q \in 0 .. 4 /\ 8 * q <= len /\ len < 8 * q + 8
  OBVIOUS
<1>2. \A i \in 1 .. 4 : bits(i) \in 0 .. 8 /\ (bits(i) = 8 <=> i <= q)
  BY <1>1
<1>3. \A i \in 1 .. 4 : mask[i] = 256 - Bit(8 - bits(i))
  BY DEF MaskOf
<1>4. \A i \in 1 .. 4 : mask[i] = 255 <=> i <= q
  BY <1>2, <1>3, OctetFull
<1>5. full = 1 .. q
  <2>. HIDE DEF mask, q
  <2>. QED  BY <1>1, <1>4
<1>6. Cardinality(full) = q
  <2>1. Cardinality(1 .. q) = q
    <3>. HIDE DEF q
    <3>1. Cardinality(1 .. q) = IF 1 > q THEN 0 ELSE q - 1 + 1
      BY <1>1, FS_Interval
    <3>. QED  BY <1>1, <3>1
  <2>. QED  BY <1>5, <2>1
<1>7. CASE q = 4
  BY <1>1, <1>6, <1>7 DEF GetPrefixLen
<1>8. CASE q # 4
  <2>1. q + 1 \in 1 .. 4 /\ bits(q + 1) = len - 8 * q /\ len - 8 * q \in 0 .. 7
    BY <1>1, <1>8
  <2>2. LeadingOnes(mask[q + 1]) = len - 8 * q
    BY <1>3, <2>1, OctetCount
  <2>3. GetPrefixLen(mask) = 8 * q + LeadingOnes(mask[q + 1])
    BY <1>6, <1>8 DEF GetPrefixLen
  <2>. QED  BY <2>1, <2>2, <2>3
<1>. QED  BY <1>7, <1>8

-----------------------------------------------------------------------------
(* The loop of RemoveAllRouteTables.                                        *)

(* The rows that busybox prints are rows of the kernel's table.             *)
LEMMA RowsAreRoutes ==
    ASSUME table \subseteq Routes, NEW rows \in RowsRead
    PROVE  /\ DOMAIN rows = 1 .. Len(rows) /\ Len(rows) \in Nat
           /\ \A j \in DOMAIN rows : rows[j] \in table
<1>1. IsFiniteSet(table)
  BY RoutesAssumption, FS_Subset
<1>. DEFINE c == Cardinality(table)
            s == SetToSeq(table)
<1>2. c \in Nat
  BY <1>1, FS_CardinalityType
<1>3. PICK f : f \in [1 .. c -> table] /\ IsInjective(f)
  <2>1. \E f : f \in Bijection(1 .. c, table)
    BY <1>1, FS_CardinalityType DEF ExistsBijection
  <2>. QED  BY <2>1 DEF Bijection, Injection, IsInjective
<1>4. s \in [1 .. c -> table]
  BY <1>3 DEF SetToSeq
<1>5. PICK n \in 0 .. c : rows = SubSeq(s, 1, n)
  BY DEF RowsRead
<1>6. s \in Seq(table) /\ Len(s) = c
  <2>. HIDE DEF s, c
  <2>. QED  BY <1>2, <1>4
<1>7. /\ rows \in Seq(table)
      /\ Len(rows) = n
  <2>. HIDE DEF s, c
  <2>. QED  BY <1>2, <1>5, <1>6
<1>. QED  BY <1>7

(* A turn of the loop, the end of the loop and everybody else's changes.    *)
LEMMA RowStep ==
    ASSUME RoutesInv, RemoveRow, mpc' = "remove"
    PROVE  RoutesInv'
<1>. DEFINE e == RTBS[row]
            r0 == e.of
            found == rmRoutertb(e.dest, GetPrefixLen(e.mask), e.gw, e.iface)
<1>1. /\ row \in DOMAIN RTBS /\ row' = row + 1 /\ RTBS' = RTBS /\ row \in Nat
      /\ Len(RTBS) \in Nat /\ DOMAIN RTBS = 1 .. Len(RTBS)
  BY DEF RemoveRow, RoutesInv
<1>2. /\ r0 \in Routes /\ e = Printed(r0)
  BY <1>1 DEF RoutesInv, RowInv
<1>3. /\ e.gw = r0.gw /\ e.iface = r0.iface /\ e.mask = MaskOf(r0.len)
      /\ e.dest = IF r0.named THEN "name" ELSE r0.dest
  BY <1>2 DEF Printed
<1>4. GetPrefixLen(e.mask) = r0.len
  BY <1>2, <1>3, RoutesAssumption, PrefixIsFoundAgain
<1>5. touched \subseteq touched'
  BY DEF RemoveRow
<1>6. ~Skipped(e) => \A r \in found : ~Kept(r)
  BY DEF Skipped, Kept, rmRoutertb
<1>7. r0 \in table /\ ~r0.named => r0 \in found
  BY <1>3, <1>4 DEF rmRoutertb
<1>8. Skipped(e) => Kept(r0)
  BY <1>3 DEF Skipped, Kept, Default
<1>9. \/ Skipped(e) /\ table' = table /\ touched' = touched
      \/ ~Skipped(e) /\ table' = table \ found
         /\ (r0.named => r0 \in touched')
      \/ ~Skipped(e) /\ table' = table /\ r0 \in touched'
  BY DEF RemoveRow
<1>10. ASSUME NEW j \in DOMAIN RTBS PROVE RowInv(j)'
  <2>. DEFINE r == RTBS[j].of
  <2>1. RowInv(j) /\ j \in Nat
    BY <1>1, <1>10 DEF RoutesInv
  <2>2. r \in Routes /\ RTBS[j] = Printed(r)
    BY <2>1 DEF RowInv
  <2>3. r \notin touched' /\ Kept(r) => r \in table'
    BY <1>5, <1>6, <1>9, <2>1 DEF RowInv
  <2>4. ASSUME r \notin touched', ~Kept(r), j < row + 1 PROVE r \notin table'
    <3>1. CASE j < row
      BY <1>5, <1>9, <2>1, <2>4, <3>1 DEF RowInv
    <3>2. CASE j = row
      BY <1>3, <1>5, <1>7, <1>8, <1>9, <2>4, <3>2 DEF Kept
    <3>. QED  BY <1>1, <2>1, <2>4, <3>1, <3>2
  <2>. QED  BY <1>1, <2>2, <2>3, <2>4 DEF RowInv, Kept
<1>11. table' \subseteq Routes
  BY <1>9 DEF RoutesInv
<1>. QED  BY <1>1, <1>10, <1>11 DEF RoutesInv

LEMMA OthersStep ==
    ASSUME RoutesInv, OthersChange, UNCHANGED mpc
    PROVE  RoutesInv'
<1>1. PICK x \in Routes :
         /\ table' = IF x \in table THEN table \ {x} ELSE table \union {x}
         /\ touched' = IF row = 0 THEN {} ELSE touched \union {x}
         /\ UNCHANGED <<RTBS, row>>
  BY DEF OthersChange
<1>2. table' \subseteq Routes
  BY <1>1 DEF RoutesInv
<1>3. ASSUME NEW j \in DOMAIN RTBS PROVE RowInv(j)'
  <2>1. RowInv(j) /\ row # 0
    BY <1>3 DEF RoutesInv
  <2>2. touched' = touched \union {x}
    BY <1>1, <2>1
  <2>3. \A r : r # x => (r \in table' <=> r \in table)
    BY <1>1
  <2>. QED  BY <1>1, <2>1, <2>2, <2>3 DEF RowInv, Kept
<1>. QED  BY <1>1, <1>2, <1>3 DEF RoutesInv

LEMMA RoutesStart ==
    ASSUME RoutesInv, RemoveAllRouteTables
    PROVE  RoutesInv'
<1>1. PICK rows \in RowsRead :
         IF TooManyRows(rows)
           THEN mpc' = "dead" /\ UNCHANGED <<RTBS, row, touched>>
           ELSE /\ ReadRows(rows) /\ row' = 1 /\ mpc' = "remove" /\ touched' = {}
  BY DEF RemoveAllRouteTables
<1>2. table' = table /\ table \subseteq Routes
  BY DEF RemoveAllRouteTables, RoutesInv
<1>3. CASE TooManyRows(rows)
  BY <1>1, <1>2, <1>3 DEF RoutesInv, RowInv, Kept
<1>4. CASE ~TooManyRows(rows)
  <2>1. /\ DOMAIN rows = 1 .. Len(rows) /\ Len(rows) \in Nat
        /\ \A j \in DOMAIN rows : rows[j] \in table
    BY <1>2, RowsAreRoutes
  <2>2. /\ RTBS' = [j \in 1 .. Len(rows) |-> Printed(rows[j])]
        /\ row' = 1 /\ touched' = {} /\ mpc' = "remove"
    BY <1>1, <1>4, <2>1 DEF ReadRows
  <2>3. DOMAIN RTBS' = 1 .. Len(rows) /\ Len(RTBS') = Len(rows)
    BY <2>1, <2>2
  <2>4. ASSUME NEW j \in 1 .. Len(rows) PROVE RowInv(j)'
    <3>1. rows[j] \in table /\ RTBS'[j] = Printed(rows[j])
      BY <2>1, <2>2
    <3>2. RTBS'[j].of = rows[j]
      BY <3>1 DEF Printed
    <3>3. ~(j < 1)
      BY <2>1
    <3>. QED  BY <1>2, <2>2, <3>1, <3>2, <3>3 DEF RowInv, Kept
  <2>. QED  BY <1>2, <2>1, <2>2, <2>3, <2>4 DEF RoutesInv
<1>. QED  BY <1>3, <1>4

LEMMA RoutesStep == RoutesInv /\ [Next]_vars => RoutesInv'
<1>. SUFFICES ASSUME RoutesInv, [Next]_vars PROVE RoutesInv'
  OBVIOUS
<1>1. CASE RemoveAllRouteTables
  BY <1>1, RoutesStart
<1>2. CASE RemoveNext
  <2>1. CASE RemoveRow /\ mpc' = "remove"
    BY <1>2, <2>1, RowStep DEF RemoveNext
  <2>2. CASE RowsDone
    BY <2>2 DEF RowsDone, RoutesInv
  <2>. QED  BY <1>2, <2>1, <2>2 DEF RemoveNext
<1>3. CASE RoutesChange
  BY <1>3, OthersStep DEF RoutesChange
<1>4. ASSUME UNCHANGED routeVars,
             mpc \in {"remove", "dead"} => mpc' \in {"remove", "dead"}
      PROVE  RoutesInv'
  BY <1>4 DEF RoutesInv, RowInv, Kept, routeVars
<1>5. ASSUME NEW i \in Ifaces, ReadState(i) \/ Toggle(i) \/ NetChanges(i) PROVE RoutesInv'
  BY <1>4, <1>5 DEF ReadState, Toggle, NetChanges
<1>6. CASE Register \/ Restore \/ Receive \/ Recreate \/ Serve \/ BadNumber
  BY <1>4, <1>6 DEF Register, Restore, Receive, Recreate, Serve, BadNumber
<1>7. CASE UNCHANGED vars
  BY <1>4, <1>7 DEF vars, routeVars
<1>. QED  BY <1>1, <1>2, <1>3, <1>5, <1>6, <1>7 DEF Next

LEMMA RoutesBegin == Init => RoutesInv
BY TablesAssumption DEF Init, RoutesInit, RoutesInv

-----------------------------------------------------------------------------
(* The types.                                                               *)

Broadcast == [iface : Ifaces, state : States]
Command == [iface : Ifaces, op : {"reconnect", "teardown"}]

(* What a switch that is set sends: nothing, or one command of its own.     *)
LEMMA SetSends ==
    ASSUME NEW i \in Ifaces, NEW on, NEW only
    PROVE  \/ SetChecked(i, on, only) = <<>>
           \/ /\ ~only /\ checked[i] # on
              /\ \E c \in Command : c.iface = i /\ SetChecked(i, on, only) = <<c>>
<1>1. CASE checked[i] = on \/ only
  BY <1>1 DEF SetChecked, Listener
<1>2. CASE checked[i] # on /\ ~only
  <2>. DEFINE c == [iface |-> i, op |-> IF on THEN "reconnect" ELSE "teardown"]
  <2>1. c \in Command /\ c.iface = i
    BY DEF Command
  <2>2. SetChecked(i, on, only) = <<c>>
    BY <1>2 DEF SetChecked, Listener
  <2>. QED  BY <1>2, <2>1, <2>2
<1>. QED  BY <1>1, <1>2

(* A switch that changes while SetStateOnly is false sends its command.     *)
LEMMA UserSends ==
    ASSUME NEW i \in Ifaces, NEW on, checked[i] # on
    PROVE  \E c \in Command : c.iface = i /\ SetChecked(i, on, FALSE) = <<c>>
<1>. DEFINE c == [iface |-> i, op |-> IF on THEN "reconnect" ELSE "teardown"]
<1>1. c \in Command /\ c.iface = i
  BY DEF Command
<1>2. SetChecked(i, on, FALSE) = <<c>>
  BY DEF SetChecked, Listener
<1>. QED  BY <1>1, <1>2

LEMMA EitherSends ==
    ASSUME NEW i \in Ifaces, NEW on
    PROVE  \/ SetChecked(i, on, FALSE) = <<>> /\ on = checked[i]
           \/ \E c \in Command : /\ c.iface = i /\ SetChecked(i, on, FALSE) = <<c>>
                               /\ on # checked[i]
<1>1. CASE checked[i] = on
  BY <1>1 DEF SetChecked
<1>2. CASE checked[i] # on
  BY <1>2, UserSends
<1>. QED  BY <1>1, <1>2

LEMMA SendsType ==
    ASSUME NEW i \in Ifaces, NEW on, NEW only
    PROVE  SetChecked(i, on, only) \in Seq(Command)
<1>1. CASE SetChecked(i, on, only) = <<>>
  BY <1>1
<1>2. CASE SetChecked(i, on, only) # <<>>
  <2>1. PICK c \in Command : SetChecked(i, on, only) = <<c>>
    BY <1>2, SetSends
  <2>. QED  BY <2>1
<1>. QED  BY <1>1, <1>2

(* State_Switch sets its switch with SetStateOnly true: it sends nothing.   *)
LEMMA ShowIsSilent ==
    ASSUME TypeOK, NEW i \in Ifaces, NEW st, Show(i, st)
    PROVE  cmds' = cmds
<1>1. SetChecked(i, ShownChecked(st), TRUE) = <<>>
  BY DEF SetChecked, Listener
<1>2. cmds \in Seq(Command) /\ cmds' = cmds \o <<>>
  BY <1>1 DEF Show, TypeOK, Command
<1>. QED  BY <1>2

LEMMA ShowType ==
    ASSUME TypeOK, NEW i \in Ifaces, NEW st \in States, Show(i, st)
    PROVE  /\ text' \in [Ifaces -> States \union {NoText}]
           /\ checked' \in [Ifaces -> BOOLEAN] /\ enabled' \in [Ifaces -> BOOLEAN]
           /\ cmds' \in Seq(Command)
           /\ missed' \in [Ifaces -> BOOLEAN] /\ refused' \in [Ifaces -> BOOLEAN]
<1>1. ShownChecked(st) \in BOOLEAN /\ ShownEnabled(st) \in BOOLEAN
  BY DEF ShownChecked, ShownEnabled
<1>2. cmds' \in Seq(Command)
  BY ShowIsSilent DEF TypeOK, Command
<1>. QED  BY <1>1, <1>2 DEF Show, TypeOK

LEMMA NetType ==
    ASSUME TypeOK, NEW i \in Ifaces, NEW st \in States, NetBecomes(i, st)
    PROVE  /\ net' \in [Ifaces -> States] /\ bcast' \in Seq(Broadcast)
           /\ missed' \in [Ifaces -> BOOLEAN] /\ drift' \in [Ifaces -> BOOLEAN]
<1>1. [iface |-> i, state |-> st] \in Broadcast
  BY DEF Broadcast
<1>2. bcast \in Seq(Broadcast)
  BY DEF TypeOK, Broadcast
<1>3. bcast' \in Seq(Broadcast)
  BY <1>1, <1>2 DEF NetBecomes
<1>. QED  BY <1>3 DEF NetBecomes, TypeOK

(* Whatever is served or changes of itself, a state follows a state.        *)
LEMMA StatesFollow ==
    /\ \A st \in States : Spontaneous[st] \subseteq States
    /\ \A op, st : Effect(op, st) \subseteq States
BY DEF Spontaneous, States, Effect

LEMMA TypeStep == TypeOK /\ MainInv /\ [Next]_vars => TypeOK'
<1>. SUFFICES ASSUME TypeOK, MainInv, [Next]_vars PROVE TypeOK'
  OBVIOUS
<1>t. bcast \in Seq(Broadcast) /\ cmds \in Seq(Command)
  BY DEF TypeOK, Broadcast, Command
<1>1. ASSUME NEW i \in Ifaces, ReadState(i) PROVE TypeOK'
  <2>1. net[i] \in States /\ Show(i, net[i])
    BY <1>1 DEF ReadState, TypeOK
  <2>2. /\ UNCHANGED <<net, bcast, saved, drift>>
        /\ unread' \subseteq Ifaces /\ mpc' \in {"register", "read"}
    BY <1>1 DEF ReadState, TypeOK
  <2>. QED  BY <2>1, <2>2, ShowType DEF TypeOK, Command
<1>2. ASSUME NEW i \in Ifaces, Toggle(i) PROVE TypeOK'
  <2>1. cmds' \in Seq(Command)
    <3>1. SetChecked(i, ~checked[i], FALSE) \in Seq(Command)
      BY SendsType
    <3>2. cmds' = cmds \o SetChecked(i, ~checked[i], FALSE)
      BY <1>2 DEF Toggle
    <3>. QED  BY <1>t, <3>1, <3>2, ConcatProperties
  <2>2. checked' \in [Ifaces -> BOOLEAN]
    BY <1>2 DEF Toggle, TypeOK
  <2>. QED  BY <1>2, <2>1, <2>2 DEF Toggle, TypeOK, Command
<1>3. ASSUME NEW i \in Ifaces, NetChanges(i) PROVE TypeOK'
  <2>1. PICK st \in Spontaneous[net[i]] : NetBecomes(i, st)
    BY <1>3 DEF NetChanges
  <2>2. st \in States
    BY StatesFollow DEF TypeOK
  <2>3. UNCHANGED <<cmds, refused, text, checked, enabled, mpc, unread, saved>>
    BY <1>3 DEF NetChanges, switchVars
  <2>. QED  BY <2>1, <2>2, <2>3, NetType DEF TypeOK, Broadcast
<1>4. CASE Register
  BY <1>4 DEF Register, TypeOK, netVars, switchVars
<1>5. CASE Restore
  <2>1. 0 \in Ifaces /\ 1 \in Ifaces
    BY DEF Ifaces
  <2>2. cmds' \in Seq(Command)
    <3>1. /\ SetChecked(0, saved[0], FALSE) \in Seq(Command)
          /\ SetChecked(1, saved[1], FALSE) \in Seq(Command)
      BY <2>1, SendsType
    <3>2. cmds \o SetChecked(0, saved[0], FALSE) \in Seq(Command)
      BY <1>t, <3>1, ConcatProperties
    <3>3. cmds' = cmds \o SetChecked(0, saved[0], FALSE) \o SetChecked(1, saved[1], FALSE)
      BY <1>5 DEF Restore
    <3>. QED  BY <3>1, <3>2, <3>3, ConcatProperties
  <2>3. checked' \in [Ifaces -> BOOLEAN]
    BY <1>5 DEF Restore, TypeOK, MainInv
  <2>. QED  BY <1>5, <2>2, <2>3 DEF Restore, TypeOK, Command
<1>6. CASE Receive
  <2>1. Head(bcast) \in Broadcast /\ Tail(bcast) \in Seq(Broadcast)
    BY <1>t, <1>6 DEF Receive
  <2>2. Head(bcast).iface \in Ifaces /\ Head(bcast).state \in States
    BY <2>1 DEF Broadcast
  <2>3. Show(Head(bcast).iface, Head(bcast).state) /\ bcast' \in Seq(Broadcast)
        /\ UNCHANGED <<net, mpc, unread, saved, drift>>
    BY <1>6, <2>1 DEF Receive
  <2>. QED  BY <2>2, <2>3, ShowType DEF TypeOK, Broadcast, Command
<1>7. CASE Recreate
  BY <1>7 DEF Recreate, TypeOK
<1>8. CASE Serve
  <2>. DEFINE c == Head(cmds)
  <2>1. c \in Command /\ Tail(cmds) \in Seq(Command)
    BY <1>t, <1>8 DEF Serve
  <2>c. c.iface \in Ifaces
    BY <2>1 DEF Command
  <2>2. UNCHANGED <<text, checked, enabled, mpc, unread, saved>> /\ cmds' = Tail(cmds)
    BY <1>8 DEF Serve, switchVars
  <2>3. CASE \E st \in Effect(c.op, net[c.iface]) :
               NetBecomes(c.iface, st) /\ UNCHANGED refused
    <3>1. PICK st \in Effect(c.op, net[c.iface]) :
            NetBecomes(c.iface, st) /\ UNCHANGED refused
      BY <2>3
    <3>2. st \in States
      BY StatesFollow
    <3>. QED  BY <2>1, <2>c, <2>2, <3>1, <3>2, NetType DEF TypeOK, Broadcast, Command
  <2>4. CASE /\ refused' = [refused EXCEPT ![c.iface] = TRUE]
             /\ UNCHANGED <<net, bcast, missed, drift>>
    BY <2>1, <2>c, <2>2, <2>4 DEF TypeOK, Command
  <2>. QED  BY <1>8, <2>3, <2>4 DEF Serve
<1>9. CASE RemoveAllRouteTables \/ RemoveNext \/ BadNumber
  <2>1. mpc' \in {"run", "remove", "dead"}
    BY <1>9 DEF RemoveAllRouteTables, RemoveNext, BadNumber
  <2>2. UNCHANGED <<netVars, switchVars, unread, saved, drift>>
    BY <1>9 DEF RemoveAllRouteTables, RemoveNext, BadNumber
  <2>. QED  BY <2>1, <2>2 DEF TypeOK, netVars, switchVars
<1>10. CASE RoutesChange \/ UNCHANGED vars
  BY <1>10 DEF RoutesChange, vars, netVars, switchVars, TypeOK
<1>. QED
  BY <1>1, <1>2, <1>3, <1>4, <1>5, <1>6, <1>7, <1>8, <1>9, <1>10 DEF Next

LEMMA TypeBegin == Init => TypeOK
BY InitialAssumption DEF Init, TypeOK

LEMMA MainBegin == Init => MainInv
BY DEF Init, MainInv

LEMMA MainStep == MainInv /\ [Next]_vars => MainInv'
<1>. SUFFICES ASSUME MainInv, [Next]_vars PROVE MainInv'
  OBVIOUS
<1>1. ASSUME NEW i \in Ifaces, ReadState(i) PROVE MainInv'
  BY <1>1 DEF ReadState, MainInv
<1>2. ASSUME NEW i \in Ifaces, NEW st, NetBecomes(i, st), UNCHANGED <<mpc, unread, saved>>
      PROVE  MainInv'
  BY <1>2 DEF NetBecomes, Registered, MainInv
<1>3. ASSUME NEW i \in Ifaces, Toggle(i) PROVE MainInv'
  BY <1>3 DEF Toggle, MainInv
<1>4. CASE Register
  BY <1>4 DEF Register, MainInv, netVars
<1>5. CASE Restore \/ Receive \/ Recreate
  BY <1>5 DEF Restore, Receive, Recreate, MainInv
<1>6. ASSUME NEW i \in Ifaces, NetChanges(i) PROVE MainInv'
  BY <1>2, <1>6 DEF NetChanges
<1>7. CASE RemoveAllRouteTables \/ RemoveNext \/ BadNumber
  BY <1>7 DEF RemoveAllRouteTables, RemoveNext, BadNumber, MainInv, netVars
<1>8. CASE RoutesChange \/ UNCHANGED vars
  BY <1>8 DEF RoutesChange, vars, netVars, MainInv
<1>9. CASE Serve
  <2>1. UNCHANGED <<mpc, unread, saved>>
    BY <1>9 DEF Serve
  <2>2. CASE UNCHANGED bcast
    BY <2>1, <2>2 DEF MainInv
  <2>3. CASE \E i, st : NetBecomes(i, st)
    BY <2>1, <2>3 DEF NetBecomes, Registered, MainInv
  <2>. QED  BY <1>9, <2>2, <2>3 DEF Serve
<1>. QED
  BY <1>1, <1>3, <1>4, <1>5, <1>6, <1>7, <1>8, <1>9 DEF Next

(* The types of the demo: in particular every broadcast and every command   *)
(* on its way is about an interface the demo has, in a state it knows.      *)
THEOREM TypesKept == Spec => []TypeOK
<1>. QED  BY TypeBegin, TypeStep, MainBegin, MainStep, PTL DEF Spec

-----------------------------------------------------------------------------
(* The broadcasts and the commands on their way.                            *)

LEMMA AboutConcat ==
    ASSUME NEW S, NEW s \in Seq(S), NEW t \in Seq(S), NEW i
    PROVE  About(s \o t, i) <=> About(s, i) \/ About(t, i)
<1>. DEFINE u == s \o t
<1>1. /\ u \in Seq(S) /\ Len(u) = Len(s) + Len(t)
      /\ \A n \in 1 .. Len(s) + Len(t) : u[n] = IF n <= Len(s) THEN s[n] ELSE t[n - Len(s)]
  BY ConcatProperties
<1>2. /\ DOMAIN u = 1 .. Len(u) /\ DOMAIN s = 1 .. Len(s) /\ DOMAIN t = 1 .. Len(t)
      /\ Len(s) \in Nat /\ Len(t) \in Nat
  BY <1>1
<1>. HIDE DEF u
<1>3. ASSUME NEW n \in DOMAIN u, u[n].iface = i PROVE About(s, i) \/ About(t, i)
  <2>1. CASE n <= Len(s)
    BY <1>1, <1>2, <1>3, <2>1 DEF About
  <2>2. CASE ~(n <= Len(s))
    <3>1. n - Len(s) \in DOMAIN t /\ u[n] = t[n - Len(s)]
      BY <1>1, <1>2, <2>2
    <3>. QED  BY <1>3, <3>1 DEF About
  <2>. QED  BY <2>1, <2>2
<1>4. ASSUME NEW n \in DOMAIN s, s[n].iface = i PROVE About(u, i)
  <2>1. n \in DOMAIN u /\ u[n] = s[n]
    BY <1>1, <1>2
  <2>. QED  BY <1>4, <2>1 DEF About
<1>5. ASSUME NEW n \in DOMAIN t, t[n].iface = i PROVE About(u, i)
  <2>1. n + Len(s) \in DOMAIN u /\ u[n + Len(s)] = t[n]
    BY <1>1, <1>2
  <2>. QED  BY <1>5, <2>1 DEF About
<1>6. About(u, i) <=> About(s, i) \/ About(t, i)
  BY <1>3, <1>4, <1>5 DEF About
<1>. QED  BY <1>6 DEF u

LEMMA AboutTail ==
    ASSUME NEW S, NEW s \in Seq(S), s # <<>>, NEW i
    PROVE  About(s, i) <=> Head(s).iface = i \/ About(Tail(s), i)
<1>. DEFINE t == Tail(s)
<1>1. /\ t \in Seq(S) /\ Len(t) = Len(s) - 1
      /\ \A n \in 1 .. Len(t) : t[n] = s[n + 1]
  BY HeadTailProperties
<1>2. /\ DOMAIN s = 1 .. Len(s) /\ DOMAIN t = 1 .. Len(t) /\ Len(s) \in Nat /\ Len(s) # 0
      /\ Head(s) = s[1]
  BY <1>1
<1>. HIDE DEF t
<1>3. ASSUME NEW n \in DOMAIN s, s[n].iface = i PROVE Head(s).iface = i \/ About(t, i)
  <2>1. CASE n = 1
    BY <1>2, <1>3, <2>1
  <2>2. CASE n # 1
    <3>1. n - 1 \in DOMAIN t /\ t[n - 1] = s[n]
      BY <1>1, <1>2, <2>2
    <3>. QED  BY <1>3, <3>1 DEF About
  <2>. QED  BY <2>1, <2>2
<1>4. ASSUME NEW n \in DOMAIN t, t[n].iface = i PROVE About(s, i)
  <2>1. n + 1 \in DOMAIN s /\ s[n + 1] = t[n]
    BY <1>1, <1>2
  <2>. QED  BY <1>4, <2>1 DEF About
<1>5. 1 \in DOMAIN s
  BY <1>2
<1>6. About(s, i) <=> Head(s).iface = i \/ About(t, i)
  BY <1>2, <1>3, <1>4, <1>5 DEF About
<1>. QED  BY <1>6 DEF t

LEMMA LastTail ==
    ASSUME NEW S, NEW s \in Seq(S), s # <<>>, NEW i, NEW st, LastOf(s, i, st)
    PROVE  /\ LastOf(Tail(s), i, st)
           /\ Head(s).iface = i /\ ~About(Tail(s), i) => Head(s).state = st
<1>. DEFINE t == Tail(s)
<1>1. /\ t \in Seq(S) /\ Len(t) = Len(s) - 1
      /\ \A n \in 1 .. Len(t) : t[n] = s[n + 1]
  BY HeadTailProperties
<1>2. /\ DOMAIN s = 1 .. Len(s) /\ DOMAIN t = 1 .. Len(t) /\ Len(s) \in Nat /\ Len(s) # 0
      /\ Head(s) = s[1]
  BY <1>1
<1>. HIDE DEF t
<1>3. ASSUME NEW m \in DOMAIN s, m > 1 PROVE m - 1 \in DOMAIN t /\ t[m - 1] = s[m]
  BY <1>1, <1>2, <1>3
<1>4. ASSUME NEW n \in DOMAIN t, t[n].iface = i, \A m \in DOMAIN t : m > n => t[m].iface # i
      PROVE  t[n].state = st
  <2>1. n + 1 \in DOMAIN s /\ s[n + 1] = t[n]
    BY <1>1, <1>2
  <2>2. \A m \in DOMAIN s : m > n + 1 => s[m].iface # i
    BY <1>2, <1>3, <1>4
  <2>. QED  BY <1>4, <2>1, <2>2 DEF LastOf
<1>5. ASSUME s[1].iface = i, ~About(t, i) PROVE s[1].state = st
  <2>1. 1 \in DOMAIN s
    BY <1>2
  <2>2. \A m \in DOMAIN s : m > 1 => s[m].iface # i
    BY <1>3, <1>5 DEF About
  <2>. QED  BY <1>5, <2>1, <2>2 DEF LastOf
<1>6. LastOf(t, i, st) /\ (Head(s).iface = i /\ ~About(t, i) => Head(s).state = st)
  BY <1>2, <1>4, <1>5 DEF LastOf
<1>. QED  BY <1>6 DEF t

LEMMA LastAppend ==
    ASSUME NEW S, NEW s \in Seq(S), NEW e \in S, NEW i, NEW st
    PROVE  /\ About(Append(s, e), i) <=> About(s, i) \/ e.iface = i
           /\ e.iface = i => LastOf(Append(s, e), i, e.state)
           /\ e.iface # i /\ LastOf(s, i, st) => LastOf(Append(s, e), i, st)
<1>. DEFINE u == Append(s, e)
<1>1. /\ u \in Seq(S) /\ Len(u) = Len(s) + 1
      /\ \A n \in 1 .. Len(s) : u[n] = s[n]
      /\ u[Len(s) + 1] = e
  BY AppendProperties
<1>2. /\ DOMAIN s = 1 .. Len(s) /\ DOMAIN u = 1 .. Len(s) + 1 /\ Len(s) \in Nat
  BY <1>1
<1>. HIDE DEF u
<1>. DEFINE z == Len(s) + 1
<1>3. /\ z \in DOMAIN u /\ u[z] = e
      /\ \A n \in DOMAIN s : n \in DOMAIN u /\ u[n] = s[n] /\ n < z
      /\ \A n \in DOMAIN u : n = z \/ n \in DOMAIN s
  BY <1>1, <1>2
<1>. HIDE DEF z
<1>4. About(u, i) <=> About(s, i) \/ e.iface = i
  BY <1>3 DEF About
<1>5. e.iface = i => LastOf(u, i, e.state)
  BY <1>3 DEF LastOf
<1>6. e.iface # i /\ LastOf(s, i, st) => LastOf(u, i, st)
  BY <1>3 DEF LastOf
<1>. QED  BY <1>4, <1>5, <1>6 DEF u

-----------------------------------------------------------------------------
(* The views of the switches.                                               *)

(* What Show does to the interface it shows, and to another.                *)
LEMMA Shown ==
    ASSUME TypeOK, NEW i \in Ifaces, NEW st \in States, Show(i, st)
    PROVE  /\ text'[i] = st
           /\ checked'[i] <=> ShownChecked(st)
           /\ enabled'[i] <=> ShownEnabled(st)
           /\ ~missed'[i] /\ ~refused'[i]
           /\ UNCHANGED cmds
           /\ \A k \in Ifaces : k # i =>
                /\ text'[k] = text[k] /\ checked'[k] = checked[k] /\ enabled'[k] = enabled[k]
                /\ missed'[k] = missed[k] /\ refused'[k] = refused[k]
<1>1. ShownChecked(st) \in BOOLEAN /\ ShownEnabled(st) \in BOOLEAN
  BY DEF ShownChecked, ShownEnabled
<1>2. UNCHANGED cmds
  BY ShowIsSilent
<1>. QED  BY <1>1, <1>2 DEF Show, TypeOK

LEMMA SwitchRead ==
    ASSUME TypeOK, MainInv, SwitchInv, NEW i \in Ifaces, ReadState(i)
    PROVE  SwitchInv'
<1>1. /\ mpc = "read" /\ bcast = <<>> /\ bcast' = <<>> /\ net' = net
      /\ unread' = unread \ {i} /\ net[i] \in States /\ Show(i, net[i])
  BY DEF ReadState, MainInv, TypeOK
<1>2. \A k \in Ifaces : LastTold(k)'
  BY <1>1 DEF LastTold, LastOf
<1>3. ASSUME NEW k \in Ifaces, k \notin unread' PROVE ViewsOf(k)'
  <2>1. CASE k = i
    BY <1>1, <2>1, Shown DEF ViewsOf
  <2>2. CASE k # i
    <3>1. ViewsOf(k)
      BY <1>1, <1>3, <2>2 DEF SwitchInv
    <3>. QED  BY <1>1, <2>2, <3>1, Shown DEF ViewsOf, Told, Asked, About
  <2>. QED  BY <2>1, <2>2
<1>. QED  BY <1>2, <1>3 DEF SwitchInv

LEMMA SwitchReceive ==
    ASSUME TypeOK, MainInv, SwitchInv, Receive
    PROVE  SwitchInv'
<1>. DEFINE e == Head(bcast)
<1>1. /\ mpc = "run" /\ UNCHANGED <<net, mpc, unread>> /\ bcast' = Tail(bcast)
      /\ Show(e.iface, e.state) /\ bcast # <<>> /\ bcast \in Seq(Broadcast)
      /\ unread = {}
  BY DEF Receive, TypeOK, Broadcast, MainInv
<1>2. e \in Broadcast
  BY <1>1, HeadTailProperties
<1>3. e.iface \in Ifaces /\ e.state \in States
  BY <1>2 DEF Broadcast
<1>. HIDE DEF e
<1>4. ASSUME NEW k \in Ifaces
      PROVE  /\ LastTold(k)'
             /\ e.iface = k /\ ~Told(k)' => e.state = net[k]
             /\ e.iface # k => (Told(k)' <=> Told(k))
  <2>1. LastOf(bcast, k, net[k])
    BY <1>1 DEF SwitchInv, LastTold
  <2>2. /\ LastOf(Tail(bcast), k, net[k])
        /\ e.iface = k /\ ~About(Tail(bcast), k) => e.state = net[k]
    BY <1>1, <2>1, LastTail DEF e
  <2>3. About(bcast, k) <=> e.iface = k \/ About(Tail(bcast), k)
    BY <1>1, AboutTail DEF e
  <2>4. LastTold(k)'
    BY <1>1, <2>2 DEF LastTold
  <2>5. Told(k)' <=> About(Tail(bcast), k)
    BY <1>1 DEF Told
  <2>. QED  BY <2>2, <2>3, <2>4, <2>5 DEF Told
<1>5. ASSUME NEW k \in Ifaces PROVE ViewsOf(k)'
  <2>1. CASE k = e.iface
    BY <1>1, <1>3, <1>4, <2>1, Shown DEF ViewsOf
  <2>2. CASE k # e.iface
    <3>1. ViewsOf(k)
      BY <1>1 DEF SwitchInv
    <3>2. Asked(k)' <=> Asked(k)
      BY <1>1, <1>3, Shown DEF Asked
    <3>. QED  BY <1>1, <1>3, <1>4, <2>2, <3>1, <3>2, Shown DEF ViewsOf
  <2>. QED  BY <2>1, <2>2
<1>. QED  BY <1>4, <1>5 DEF SwitchInv

LEMMA SwitchToggle ==
    ASSUME TypeOK, MainInv, SwitchInv, NEW i \in Ifaces, Toggle(i)
    PROVE  SwitchInv'
<1>1. /\ mpc = "run" /\ UNCHANGED <<net, bcast, missed, refused, text, enabled, mpc, unread>>
      /\ checked' = [checked EXCEPT ![i] = ~@]
      /\ cmds' = cmds \o SetChecked(i, ~checked[i], FALSE) /\ cmds \in Seq(Command)
  BY DEF Toggle, TypeOK, Command
<1>2. PICK c \in Command : c.iface = i /\ SetChecked(i, ~checked[i], FALSE) = <<c>>
  <2>. DEFINE on == ~checked[i]
  <2>1. checked[i] # on
    BY DEF TypeOK
  <2>. HIDE DEF on
  <2>2. \E c \in Command : c.iface = i /\ SetChecked(i, on, FALSE) = <<c>>
    BY <2>1, UserSends
  <2>. QED  BY <2>2 DEF on
<1>3. About(<<c>>, i) /\ \A k \in Ifaces : k # i => ~About(<<c>>, k)
  BY <1>2 DEF About
<1>4. \A k \in Ifaces : Asked(k)' <=> Asked(k) \/ k = i
  <2>1. <<c>> \in Seq(Command)
    OBVIOUS
  <2>2. \A k : About(cmds \o <<c>>, k) <=> About(cmds, k) \/ About(<<c>>, k)
    BY <1>1, <2>1, AboutConcat
  <2>. QED  BY <1>1, <1>2, <1>3, <2>2 DEF Asked
<1>5. ASSUME NEW k \in Ifaces, k \notin unread' PROVE ViewsOf(k)'
  <2>1. ViewsOf(k)
    BY <1>1, <1>5 DEF SwitchInv
  <2>2. k # i => checked'[k] = checked[k]
    BY <1>1 DEF TypeOK
  <2>. QED  BY <1>1, <1>4, <2>1, <2>2 DEF ViewsOf, Told
<1>. QED  BY <1>1, <1>5 DEF SwitchInv, LastTold

LEMMA SwitchNet ==
    ASSUME TypeOK, MainInv, SwitchInv, NEW i \in Ifaces, NEW st \in States, NetBecomes(i, st),
           UNCHANGED <<text, checked, enabled, mpc, unread, refused>>,
           \A k \in Ifaces : k # i => (Asked(k)' <=> Asked(k))
    PROVE  SwitchInv'
<1>. SUFFICES ASSUME mpc # "dead", NEW k \in Ifaces
              PROVE  LastTold(k)' /\ (k \notin unread => ViewsOf(k)')
  BY DEF SwitchInv
<1>1. LastTold(k) /\ (k \notin unread => ViewsOf(k))
  BY DEF SwitchInv
<1>2. net'[i] = st /\ (k # i => net'[k] = net[k])
  BY DEF NetBecomes, TypeOK
<1>3. CASE Registered
  <2>. DEFINE e == [iface |-> i, state |-> st]
  <2>1. /\ e \in Broadcast /\ e.iface = i /\ e.state = st
        /\ bcast \in Seq(Broadcast) /\ bcast' = Append(bcast, e) /\ missed' = missed
    BY <1>3 DEF NetBecomes, TypeOK, Broadcast
  <2>. HIDE DEF e
  <2>2. /\ About(Append(bcast, e), k) <=> About(bcast, k) \/ e.iface = k
        /\ e.iface = k => LastOf(Append(bcast, e), k, e.state)
        /\ e.iface # k /\ LastOf(bcast, k, net[k]) => LastOf(Append(bcast, e), k, net[k])
    BY <2>1, LastAppend
  <2>3. LastTold(k)'
    BY <1>1, <1>2, <2>1, <2>2 DEF LastTold
  <2>4. Told(k)' <=> Told(k) \/ k = i
    BY <2>1, <2>2 DEF Told
  <2>. QED  BY <1>1, <1>2, <2>1, <2>3, <2>4 DEF ViewsOf
<1>4. CASE ~Registered
  <2>1. bcast = <<>> /\ bcast' = <<>>
    BY <1>4 DEF NetBecomes, Registered, MainInv, TypeOK
  <2>2. k \notin unread => (k = i => missed'[k]) /\ (k # i => missed'[k] = missed[k])
    BY <1>4 DEF NetBecomes, TypeOK
  <2>3. LastTold(k)' /\ ~Told(k) /\ ~Told(k)'
    BY <2>1 DEF LastTold, LastOf, Told, About
  <2>. QED  BY <1>1, <1>2, <2>2, <2>3 DEF ViewsOf
<1>. QED  BY <1>3, <1>4

LEMMA SwitchServe ==
    ASSUME TypeOK, MainInv, SwitchInv, Serve
    PROVE  SwitchInv'
<1>. DEFINE c == Head(cmds)
<1>1. /\ cmds \in Seq(Command) /\ cmds # <<>> /\ cmds' = Tail(cmds)
      /\ UNCHANGED <<text, checked, enabled, mpc, unread>>
  BY DEF Serve, switchVars, TypeOK, Command
<1>2. c \in Command
  BY <1>1, HeadTailProperties
<1>3. c.iface \in Ifaces
  BY <1>2 DEF Command
<1>4. \A k \in Ifaces : k # c.iface => (Asked(k)' <=> Asked(k))
  <2>1. \A k : About(cmds, k) <=> c.iface = k \/ About(Tail(cmds), k)
    BY <1>1, AboutTail
  <2>. QED  BY <1>1, <2>1 DEF Asked
<1>5. CASE \E st \in Effect(c.op, net[c.iface]) : NetBecomes(c.iface, st) /\ UNCHANGED refused
  <2>1. PICK st \in Effect(c.op, net[c.iface]) : NetBecomes(c.iface, st) /\ UNCHANGED refused
    BY <1>5
  <2>2. st \in States
    BY StatesFollow
  <2>. HIDE DEF c
  <2>. QED  BY <1>1, <1>3, <1>4, <2>1, <2>2, SwitchNet
<1>6. CASE /\ refused' = [refused EXCEPT ![c.iface] = TRUE]
           /\ UNCHANGED <<net, bcast, missed, drift>>
  <2>. HIDE DEF c
  <2>1. /\ refused'[c.iface]
        /\ \A k \in Ifaces : k # c.iface => refused'[k] = refused[k]
    BY <1>3, <1>6 DEF TypeOK
  <2>2. ASSUME NEW k \in Ifaces, ViewsOf(k) PROVE ViewsOf(k)'
    BY <1>1, <1>4, <1>6, <2>1, <2>2 DEF ViewsOf, Told
  <2>3. \A k : LastTold(k)' <=> LastTold(k)
    BY <1>6 DEF LastTold
  <2>. QED  BY <1>1, <2>2, <2>3 DEF SwitchInv
<1>. QED  BY <1>5, <1>6 DEF Serve

(* A switch that is restored sends a command exactly if it changes.         *)
LEMMA RestoreSends ==
    ASSUME TypeOK, MainInv, Restore, NEW k \in Ifaces
    PROVE  /\ Asked(k) \/ saved[k] # checked[k] => Asked(k)'
           /\ (\E n \in (Len(cmds) + 1) .. Len(cmds') : cmds'[n].iface = k)
                  => saved[k] # checked[k]
<1>. DEFINE a == SetChecked(0, saved[0], FALSE)
            b == SetChecked(1, saved[1], FALSE)
            u == cmds \o a
<1>1. cmds \in Seq(Command) /\ cmds' = u \o b
  BY DEF Restore, TypeOK, Command
<1>2. 0 \in Ifaces /\ 1 \in Ifaces /\ k \in {0, 1}
  BY DEF Ifaces
<1>3. a \in Seq(Command) /\ b \in Seq(Command)
  BY <1>2, SendsType
<1>4. \/ a = <<>> /\ saved[0] = checked[0]
      \/ \E c \in Command : c.iface = 0 /\ a = <<c>> /\ saved[0] # checked[0]
  BY <1>2, EitherSends
<1>5. \/ b = <<>> /\ saved[1] = checked[1]
      \/ \E c \in Command : c.iface = 1 /\ b = <<c>> /\ saved[1] # checked[1]
  BY <1>2, EitherSends
<1>. HIDE DEF a, b
<1>6. /\ u \in Seq(Command) /\ Len(u) = Len(cmds) + Len(a)
      /\ \A n \in 1 .. Len(cmds) + Len(a) :
            u[n] = IF n <= Len(cmds) THEN cmds[n] ELSE a[n - Len(cmds)]
      /\ About(u, k) <=> About(cmds, k) \/ About(a, k)
  BY <1>1, <1>3, ConcatProperties, AboutConcat
<1>. HIDE DEF u
<1>7. /\ Len(cmds') = Len(u) + Len(b)
      /\ \A n \in 1 .. Len(u) + Len(b) :
            cmds'[n] = IF n <= Len(u) THEN u[n] ELSE b[n - Len(u)]
      /\ About(cmds', k) <=> About(u, k) \/ About(b, k)
  <2>1. /\ Len(u \o b) = Len(u) + Len(b)
        /\ \A n \in 1 .. Len(u) + Len(b) :
              (u \o b)[n] = IF n <= Len(u) THEN u[n] ELSE b[n - Len(u)]
    <3>1. u \in Seq(Command) /\ b \in Seq(Command)
      BY <1>3, <1>6
    <3>. QED  BY ONLY <3>1, ConcatProperties, Zenon
  <2>2. About(u \o b, k) <=> About(u, k) \/ About(b, k)
    BY <1>3, <1>6, AboutConcat
  <2>. QED  BY <1>1, <2>1, <2>2
<1>8. /\ About(a, 0) <=> saved[0] # checked[0]
      /\ About(b, 1) <=> saved[1] # checked[1]
  BY <1>4, <1>5 DEF About
<1>9. Asked(k) \/ saved[k] # checked[k] => Asked(k)'
  BY <1>2, <1>6, <1>7, <1>8 DEF Asked
<1>10. ASSUME NEW n \in (Len(cmds) + 1) .. Len(cmds'), cmds'[n].iface = k
       PROVE  saved[k] # checked[k]
  <2>1. /\ Len(cmds) \in Nat /\ Len(a) \in Nat /\ Len(b) \in Nat
        /\ DOMAIN a = 1 .. Len(a) /\ DOMAIN b = 1 .. Len(b)
    BY <1>1, <1>3
  <2>2. CASE n <= Len(u)
    <3>1. n - Len(cmds) \in DOMAIN a /\ cmds'[n] = a[n - Len(cmds)]
      BY <1>6, <1>7, <2>1, <2>2
    <3>2. a[n - Len(cmds)].iface = 0 /\ saved[0] # checked[0]
      BY <1>4, <3>1
    <3>. QED  BY <1>10, <3>1, <3>2
  <2>3. CASE ~(n <= Len(u))
    <3>1. n - Len(u) \in DOMAIN b /\ cmds'[n] = b[n - Len(u)]
      BY <1>6, <1>7, <2>1, <2>3
    <3>2. b[n - Len(u)].iface = 1 /\ saved[1] # checked[1]
      BY <1>5, <3>1
    <3>. QED  BY <1>10, <3>1, <3>2
  <2>. QED  BY <2>2, <2>3
<1>. QED  BY <1>9, <1>10

LEMMA SwitchRestore ==
    ASSUME TypeOK, MainInv, SwitchInv, Restore
    PROVE  SwitchInv'
<1>1. /\ mpc = "restore" /\ checked' = saved
      /\ UNCHANGED <<net, bcast, missed, refused, text, enabled, unread>>
  BY DEF Restore
<1>2. ASSUME NEW k \in Ifaces, k \notin unread' PROVE ViewsOf(k)'
  <2>1. ViewsOf(k)
    BY <1>1, <1>2 DEF SwitchInv
  <2>2. ~Asked(k)' => ~Asked(k) /\ saved[k] = checked[k]
    BY RestoreSends
  <2>. QED  BY <1>1, <2>1, <2>2 DEF ViewsOf, Told
<1>. QED  BY <1>1, <1>2 DEF SwitchInv, LastTold

LEMMA SwitchStep == TypeOK /\ MainInv /\ SwitchInv /\ [Next]_vars => SwitchInv'
<1>. SUFFICES ASSUME TypeOK, MainInv, SwitchInv, [Next]_vars PROVE SwitchInv'
  OBVIOUS
<1>1. ASSUME NEW i \in Ifaces, NetChanges(i) PROVE SwitchInv'
  <2>1. PICK st \in Spontaneous[net[i]] : NetBecomes(i, st)
    BY <1>1 DEF NetChanges
  <2>2. st \in States
    BY StatesFollow DEF TypeOK
  <2>3. UNCHANGED <<cmds, text, checked, enabled, mpc, unread, refused>>
    BY <1>1 DEF NetChanges, switchVars
  <2>4. \A k \in Ifaces : Asked(k)' <=> Asked(k)
    BY <2>3 DEF Asked
  <2>. QED  BY <2>1, <2>2, <2>3, <2>4, SwitchNet
<1>2. CASE Recreate
  <2>1. bcast' = <<>> /\ unread' = Ifaces
    BY <1>2 DEF Recreate
  <2>. QED  BY <2>1 DEF SwitchInv, LastTold, LastOf
<1>3. ASSUME UNCHANGED <<netVars, switchVars, unread>>, mpc # "dead" \/ mpc' = "dead"
      PROVE  SwitchInv'
  BY <1>3 DEF netVars, switchVars, SwitchInv, LastTold, ViewsOf, Told, Asked
<1>4. CASE Register \/ RoutesChange
  BY <1>3, <1>4 DEF Register, RoutesChange
<1>5. CASE RemoveAllRouteTables \/ RemoveNext \/ BadNumber
  BY <1>3, <1>5 DEF RemoveAllRouteTables, RemoveNext, BadNumber
<1>6. CASE UNCHANGED vars
  BY <1>3, <1>6 DEF vars, netVars, switchVars
<1>. QED
  BY <1>1, <1>2, <1>4, <1>5, <1>6, SwitchRead, SwitchToggle, SwitchReceive, SwitchServe,
     SwitchRestore DEF Next

LEMMA SavedStep == TypeOK /\ SavedInv /\ [Next]_vars => SavedInv'
<1>. SUFFICES ASSUME TypeOK, SavedInv, [Next]_vars PROVE SavedInv'
  OBVIOUS
<1>1. ASSUME NEW i \in Ifaces, ReadState(i) PROVE SavedInv'
  <2>1. /\ mpc = "read" /\ UNCHANGED <<net, saved, drift>> /\ unread' = unread \ {i}
        /\ net[i] \in States /\ Show(i, net[i])
    BY <1>1 DEF ReadState, TypeOK
  <2>. QED  BY <2>1, Shown DEF SavedInv
<1>2. ASSUME NEW i \in Ifaces, NEW st \in States, NetBecomes(i, st),
             UNCHANGED <<checked, mpc, unread, saved>>
      PROVE  SavedInv'
  <2>1. \A k \in Ifaces : k # i => net'[k] = net[k]
    BY <1>2 DEF NetBecomes, TypeOK
  <2>2. mpc # "run" => drift'[i] /\ \A k \in Ifaces : k # i => drift'[k] = drift[k]
    BY <1>2 DEF NetBecomes, TypeOK
  <2>. QED  BY <1>2, <2>1, <2>2 DEF SavedInv
<1>3. ASSUME NEW i \in Ifaces, NetChanges(i) PROVE SavedInv'
  <2>1. PICK st \in Spontaneous[net[i]] : NetBecomes(i, st)
    BY <1>3 DEF NetChanges
  <2>2. st \in States
    BY StatesFollow DEF TypeOK
  <2>. QED  BY <1>2, <1>3, <2>1, <2>2 DEF NetChanges, switchVars
<1>4. CASE Serve
  <2>. DEFINE c == Head(cmds)
  <2>1. UNCHANGED <<checked, mpc, unread, saved>> /\ c.iface \in Ifaces
    <3>1. cmds \in Seq(Command) /\ cmds # <<>>
      BY <1>4 DEF Serve, TypeOK, Command
    <3>2. c \in Command
      BY <3>1, HeadTailProperties
    <3>. QED  BY <1>4, <3>2 DEF Serve, switchVars, Command
  <2>2. CASE \E st \in Effect(c.op, net[c.iface]) : NetBecomes(c.iface, st)
    <3>1. PICK st \in Effect(c.op, net[c.iface]) : NetBecomes(c.iface, st)
      BY <2>2
    <3>2. st \in States
      BY StatesFollow
    <3>. HIDE DEF c
    <3>. QED  BY <1>2, <2>1, <3>1, <3>2
  <2>3. CASE UNCHANGED <<net, drift>>
    BY <2>1, <2>3 DEF SavedInv
  <2>. QED  BY <1>4, <2>2, <2>3 DEF Serve
<1>5. CASE Recreate
  <2>1. \A k \in Ifaces : ShownChecked(net[k]) \in BOOLEAN /\ checked[k] \in BOOLEAN
    BY DEF ShownChecked, TypeOK
  <2>. QED  BY <1>5, <2>1 DEF Recreate, SavedInv
<1>6. CASE Register
  BY <1>6 DEF Register, SavedInv, netVars, switchVars
<1>7. ASSUME mpc' \in {"run", "remove", "dead"} PROVE SavedInv'
  BY <1>7 DEF SavedInv
<1>8. CASE Restore \/ Receive \/ RemoveAllRouteTables \/ RemoveNext \/ BadNumber
  BY <1>7, <1>8 DEF Restore, Receive, RemoveAllRouteTables, RemoveNext, BadNumber
<1>9. ASSUME NEW i \in Ifaces, Toggle(i) PROVE SavedInv'
  BY <1>7, <1>9 DEF Toggle
<1>10. CASE RoutesChange \/ UNCHANGED vars
  BY <1>10 DEF RoutesChange, vars, netVars, switchVars, SavedInv
<1>. QED
  BY <1>1, <1>3, <1>4, <1>5, <1>6, <1>8, <1>9, <1>10 DEF Next

-----------------------------------------------------------------------------
(* The theorems.                                                            *)

EthernetInv ==
    TypeOK /\ MainInv /\ SwitchInv /\ SavedInv /\ RoutesInv /\ toggles \in Nat

LEMMA EthernetInvAlways == Spec => []EthernetInv
<1>1. Init => EthernetInv
  <2>1. Init => SwitchInv /\ SavedInv /\ toggles \in Nat
    BY DEF Init, SwitchInv, SavedInv, LastTold, LastOf
  <2>. QED  BY <2>1, TypeBegin, MainBegin, RoutesBegin DEF EthernetInv
<1>2. EthernetInv /\ [Next]_vars => EthernetInv'
  <2>1. toggles \in Nat /\ [Next]_vars => toggles' \in Nat
    <3>. SUFFICES ASSUME toggles \in Nat, [Next]_vars PROVE toggles' \in Nat
      OBVIOUS
    <3>1. toggles' = toggles \/ toggles' = toggles + 1
      BY DEF Next, ReadState, Toggle, NetChanges, Register, Restore, Receive, Recreate,
         Serve, RemoveAllRouteTables, RemoveNext, BadNumber, RoutesChange, vars, bounds
    <3>. QED  BY <3>1
  <2>. QED
    BY <2>1, TypeStep, MainStep, SwitchStep, SavedStep, RoutesStep DEF EthernetInv
<1>. QED  BY <1>1, <1>2, PTL DEF Spec

(* Once the broadcasts are delivered and the commands served, text, switch  *)
(* and its being enabled tell the state of the interface, however often     *)
(* interfaces changed, switches were pressed and the activity was created   *)
(* again, unless a change fell between getNetworkState and                  *)
(* registerReceiver or the service did nothing.                             *)
THEOREM SettledSwitchesAgree == Spec => []SwitchAgreesWhenSettled
<1>1. EthernetInv => SwitchAgreesWhenSettled
  <2>. SUFFICES ASSUME EthernetInv, NEW i \in Ifaces, mpc \in {"run", "remove"},
                       ~missed[i], ~refused[i],
                       \A n \in DOMAIN bcast : bcast[n].iface # i,
                       \A n \in DOMAIN cmds : cmds[n].iface # i
                PROVE  /\ text[i] = net[i]
                       /\ checked[i] <=> net[i] \notin {"DISCONNECTED", "UNKNOWN"}
                       /\ enabled[i] <=> net[i] \notin {"CONNECTING", "DISCONNECTING"}
    BY DEF SwitchAgreesWhenSettled
  <2>1. ~Told(i) /\ ~Asked(i)
    BY DEF Told, Asked, About
  <2>2. ViewsOf(i)
    BY DEF EthernetInv, MainInv, SwitchInv
  <2>3. net[i] \in States
    BY DEF EthernetInv, TypeOK
  <2>. QED  BY <2>1, <2>2, <2>3 DEF ViewsOf, ShownChecked, ShownEnabled, States
<1>. QED  BY <1>1, EthernetInvAlways, PTL

(* No switch the program sets commands the service: a command is the        *)
(* user's, or that of a switch restored after its interface has changed.    *)
THEOREM CommandsAreUsers == Spec => OnlyUsersCommand
<1>1. ASSUME EthernetInv, [Next]_vars, NEW i \in Ifaces, Commanded(i)
      PROVE  toggles' # toggles \/ (mpc = "restore" /\ drift[i])
  <2>1. cmds' # cmds
    <3>1. Len(cmds) \in Nat
      BY <1>1 DEF EthernetInv, TypeOK
    <3>. QED  BY <1>1, <3>1 DEF Commanded
  <2>2. ASSUME NEW k \in Ifaces, ReadState(k) PROVE FALSE
    <3>1. net[k] \in States /\ Show(k, net[k])
      BY <1>1, <2>2 DEF ReadState, EthernetInv, TypeOK
    <3>. QED  BY <1>1, <2>1, <3>1, ShowIsSilent DEF EthernetInv
  <2>3. ASSUME NEW k \in Ifaces, Toggle(k) PROVE toggles' # toggles
    BY <1>1, <2>3 DEF Toggle, EthernetInv
  <2>4. CASE Receive
    <3>1. Head(bcast) \in Broadcast
      <4>1. bcast \in Seq(Broadcast) /\ bcast # <<>>
        BY <1>1, <2>4 DEF Receive, EthernetInv, TypeOK, Broadcast
      <4>. QED  BY <4>1, HeadTailProperties
    <3>2. Head(bcast).iface \in Ifaces /\ Show(Head(bcast).iface, Head(bcast).state)
      BY <2>4, <3>1 DEF Receive, Broadcast
    <3>. QED  BY <1>1, <2>1, <3>2, ShowIsSilent DEF EthernetInv
  <2>5. CASE Serve
    <3>1. cmds \in Seq(Command) /\ cmds # <<>> /\ cmds' = Tail(cmds)
      BY <1>1, <2>5 DEF Serve, EthernetInv, TypeOK, Command
    <3>2. Len(cmds') = Len(cmds) - 1 /\ Len(cmds) \in Nat
      BY <3>1, HeadTailProperties
    <3>. QED  BY <1>1, <3>2 DEF Commanded
  <2>6. CASE Restore
    <3>1. saved[i] # checked[i]
      BY <1>1, <2>6, RestoreSends DEF Commanded, EthernetInv
    <3>2. mpc = "restore" /\ saved # <<>> /\ unread = {}
      BY <1>1, <2>6 DEF Restore, EthernetInv, MainInv
    <3>3. saved[i] \in BOOLEAN /\ checked[i] \in BOOLEAN
      BY <1>1, <3>2 DEF EthernetInv, TypeOK
    <3>. QED  BY <1>1, <3>1, <3>2, <3>3 DEF EthernetInv, SavedInv
  <2>7. ASSUME UNCHANGED cmds PROVE FALSE
    BY <2>1, <2>7
  <2>8. \/ \E k \in Ifaces : ReadState(k) \/ Toggle(k)
        \/ Receive \/ Serve \/ Restore \/ UNCHANGED cmds
    BY <1>1 DEF Next, NetChanges, Register, Recreate, RemoveAllRouteTables, RemoveNext,
       BadNumber, RoutesChange, vars, netVars
  <2>. QED  BY <2>2, <2>3, <2>4, <2>5, <2>6, <2>7, <2>8
<1>2. EthernetInv /\ [Next]_vars =>
        [\A i \in Ifaces : Commanded(i) =>
             toggles' # toggles \/ (mpc = "restore" /\ drift[i])]_vars
  BY <1>1
<1>. QED  BY <1>2, EthernetInvAlways, PTL DEF Spec, OnlyUsersCommand

(* The loop of RemoveAllRouteTables removes the routes through a gateway    *)
(* and no other, for any routes, prefixes and tables, while others change   *)
(* the table; a route they touched, or one it could not remove, excepted.   *)
THEOREM LoopSparesTheRest == Spec => []OnlyGatewayRoutesGo
<1>1. EthernetInv => OnlyGatewayRoutesGo
  <2>. SUFFICES ASSUME RoutesInv, NEW j \in 1 .. row - 1, RTBS[j].of \notin touched
                PROVE  RTBS[j].of \in table <=> Kept(RTBS[j].of)
    BY DEF EthernetInv, OnlyGatewayRoutesGo, Processed, Kept, Default
  <2>1. j \in DOMAIN RTBS /\ j < row
    BY DEF RoutesInv
  <2>. QED  BY <2>1 DEF RoutesInv, RowInv
<1>. QED  BY <1>1, EthernetInvAlways, PTL

=============================================================================
