----------------------------- MODULE ModbusFrame -----------------------------
(***************************************************************************)
(* The request frames of RS485_demo2, F1_ReadCoilStatus to                 *)
(* F24_ReadFIFOQueue, and CheckReceivedData, byte by byte.  One behaviour  *)
(* is one call: the frame is laid out in request.buff, sendFrame closes it *)
(* with its CRC, a reply comes back whole, damaged or cut, and is checked. *)
(***************************************************************************)
EXTENDS Sequences, ModbusCrc

CONSTANTS
    Slaves,      \* slave_addr arguments, out of range ones included
    Starts,      \* start_addr arguments
    Words,       \* 16-bit arguments: lengths of reads, values, masks
    Counts,      \* how many registers or sub-requests a call carries
    SubCounts,   \* how many sub-requests F21 carries, of that many registers each
    CoilCounts,  \* the "length" of F15, in bits
    DamageLen    \* bound: replies up to this length are damaged bit by bit

ASSUME ArgumentsAssumption ==
    /\ Slaves \subseteq Int /\ Starts \subseteq Int /\ Words \subseteq Int
    /\ Counts \subseteq Nat /\ SubCounts \subseteq Nat /\ CoilCounts \subseteq Nat

(* crc_hi and crc_lo before the first byte.                                 *)
CrcStart == [hi |-> 255, lo |-> 255]
ReferenceStart == 65535

BuffLen == 256   \* ModbusMessage.buff

VARIABLES
    pc,        \* how far the call has come
    crc,       \* [at, value, ref]: the loop of crc16, and the reference CRC
    request,   \* request.buff[0 .. request.length - 1]
    counted,   \* history: [at, bits]: where the byte count is, what it covers
    reply,     \* rcv_data[0 .. data_index - 1]
    intact,    \* history: the reply is the frame that was sent
    verdict    \* what CheckReceivedData returned

frameVars == <<pc, crc, request, counted, reply, intact, verdict>>

NoCount == [at |-> 0, bits |-> 0]

FrameTypeOK ==
    /\ pc \in {"idle", "built", "sent", "replied", "checking", "checked", "refused",
               "overrun"}
    /\ crc \in [at : 0..BuffLen, ref : Word16, value : [hi : Octet, lo : Octet]]
    /\ request \in Seq(Octet) /\ Len(request) <= BuffLen
    /\ counted \in [at : 0..BuffLen, bits : Nat]
    /\ reply \in Seq(Octet)
    /\ intact \in BOOLEAN /\ verdict \in BOOLEAN

crc0 == [at |-> 0, value |-> CrcStart, ref |-> ReferenceStart]

FrameInit ==
    /\ pc = "idle" /\ crc = crc0
    /\ request = <<>> /\ counted = NoCount
    /\ reply = <<>> /\ intact = FALSE /\ verdict = FALSE

-----------------------------------------------------------------------------
(* (byte) ((x >> 8) & 0xFF) and (byte) ((x >> 0) & 0xFF).                   *)
Hi(x) == (x \div 256) % 256
Lo(x) == x % 256
Word(x) == <<Hi(x), Lo(x)>>

(* k parts of m bytes each, one after the other.                            *)
Joined(parts, k, m) ==
    [i \in 1..(k * m) |-> parts[(i - 1) \div m + 1][((i - 1) % m) + 1]]

WordsOf(n) == Joined([i \in 1..n |-> Word(4660 + i)], n, 2)

(* frame_init: an id or a start address out of range is refused with        *)
(* IllegalArgumentException before anything is written.                     *)
InRange(slave, start) == slave \in Octet /\ start \in Word16

(* An array store past request.buff throws: the payload and the two bytes   *)
(* of the CRC have to fit.  (The mutant lets the array grow.)               *)
MutFits(bytes) == bytes = bytes
Fits(bytes) == Len(bytes) + 2 <= BuffLen

Build(slave, start, bytes, count) ==
    /\ pc = "idle"
    /\ pc' = IF ~InRange(slave, start) THEN "refused"
             ELSE IF ~Fits(bytes) THEN "overrun"
             ELSE "built"
    /\ request' = IF pc' = "built" THEN bytes ELSE <<>>
    /\ counted' = IF pc' = "built" THEN count ELSE NoCount
    /\ UNCHANGED <<crc, reply, intact, verdict>>

(* F1 to F4: a range of coils, inputs or registers.                         *)
ReadRange(code, slave, start, length) ==
    Build(slave, start, <<slave, code>> \o Word(start) \o Word(length), NoCount)

F5_ForceSingleCoil(slave, start, on) ==
    Build(slave, start,
          <<slave, 5>> \o Word(start) \o <<IF on = 0 THEN 0 ELSE 255, 0>>, NoCount)

F6_PresetSingleRegister(slave, start, value) ==
    Build(slave, start, <<slave, 6>> \o Word(start) \o Word(value), NoCount)

(* F7, F11, F12 and F17 have no argument but the slave.                     *)
Bare(code, slave) == Build(slave, 0, <<slave, code>>, NoCount)

F8_DiagnosticsQuery(slave, subfunction, data) ==
    Build(slave, 0, <<slave, 8>> \o Word(subfunction) \o Word(data), NoCount)

(* The byte count of F15.  (The mutant rounds down.)                        *)
MutCoilBytes(length) == length \div 8
CoilBytes(length) == length \div 8 + 1

F15_ForceMultipleCoils(slave, start, length) ==
    Build(slave, start,
          <<slave, 15, Hi(start), Lo(start), Hi(length), Lo(length),
            CoilBytes(length) % 256>>
             \o [i \in 1..CoilBytes(length) |-> i % 256],
          [at |-> 7, bits |-> length])

F16_PresetMultipleRegs(slave, start, n) ==
    Build(slave, start,
          <<slave, 16, Hi(start), Lo(start), Hi(n), Lo(n), (2 * n) % 256>> \o WordsOf(n),
          [at |-> 7, bits |-> 16 * n])

SubReq(i, n) == <<6, Hi(i), Lo(i), Hi(100 + i), Lo(100 + i), Hi(n), Lo(n)>>

F20_ReadGenegalReference(slave, k) ==
    Build(slave, 0,
          <<slave, 20, (7 * k) % 256>> \o Joined([i \in 1..k |-> SubReq(i, 2)], k, 7),
          [at |-> 3, bits |-> 56 * k])

(* F21: buff[2] starts at 7 per sub-request and grows by 2 per register.    *)
F21_WriteGenegalReference(slave, k, n) ==
    Build(slave, 0,
          <<slave, 21, (k * (7 + 2 * n)) % 256>>
             \o Joined([i \in 1..k |-> SubReq(i, n) \o WordsOf(n)], k, 7 + 2 * n),
          [at |-> 3, bits |-> k * (56 + 16 * n)])

F22_MaskWrite4XRegister(slave, start, and_mask, or_mask) ==
    Build(slave, start,
          <<slave, 22>> \o Word(start) \o Word(and_mask) \o Word(or_mask), NoCount)

F23_ReadWrite4XRegisters(slave, read_addr, read_num, write_addr, n) ==
    Build(slave, 0,
          <<slave, 23, Hi(read_addr), Lo(read_addr), Hi(read_num), Lo(read_num),
            Hi(write_addr), Lo(write_addr), Hi(n), Lo(n), (2 * n) % 256>> \o WordsOf(n),
          [at |-> 11, bits |-> 16 * n])

F24_ReadFIFOQueue(slave, start) ==
    Build(slave, start, <<slave, 24>> \o Word(start), NoCount)

Request ==
    \E slave \in Slaves :
        \/ \E code \in {7, 11, 12, 17} : Bare(code, slave)
        \/ \E x \in Words, y \in Words : F8_DiagnosticsQuery(slave, x, y)
        \/ \E k \in Counts : F20_ReadGenegalReference(slave, k)
        \/ \E k \in SubCounts, n \in Counts : F21_WriteGenegalReference(slave, k, n)
        \/ \E a \in Words, n \in Counts : F23_ReadWrite4XRegisters(slave, a, 2, a, n)
        \/ \E start \in Starts :
             \/ \E code \in 1..4, x \in Words : ReadRange(code, slave, start, x)
             \/ \E on \in {0, 1} : F5_ForceSingleCoil(slave, start, on)
             \/ \E x \in Words : F6_PresetSingleRegister(slave, start, x)
             \/ \E n \in CoilCounts : F15_ForceMultipleCoils(slave, start, n)
             \/ \E n \in Counts : F16_PresetMultipleRegs(slave, start, n)
             \/ \E x, y \in Words : F22_MaskWrite4XRegister(slave, start, x, y)
             \/ F24_ReadFIFOQueue(slave, start)

-----------------------------------------------------------------------------
(* One iteration of the loop of crc16 over the first n bytes of a buffer.   *)
crc16(buffer, n) ==
    /\ crc.at < n
    /\ crc' = [at    |-> crc.at + 1,
               value |-> Lookup(crc.value, buffer[crc.at + 1]),
               ref   |-> CrcReference(crc.ref, buffer[crc.at + 1])]

CrcOfRequest ==
    /\ pc = "built"
    /\ crc16(request, Len(request))
    /\ UNCHANGED <<pc, request, counted, reply, intact, verdict>>

(* The two bytes of the CRC, crc >> 8 and crc & 0xFF.                       *)
CrcBytes == <<crc.value.hi, crc.value.lo>>

sendFrame ==
    /\ pc = "built" /\ crc.at = Len(request)
    /\ pc' = "sent"
    /\ request' = request \o CrcBytes
    /\ UNCHANGED <<crc, counted, reply, intact, verdict>>

(* A device sends a frame with the id and the function of the request: here *)
(* an echo, as F5 and F6 are answered.  It arrives whole, damaged or cut.   *)
Arrive(bytes) ==
    /\ pc = "sent"
    /\ pc' = "replied"
    /\ reply' = bytes
    /\ intact' = (bytes = request)
    /\ crc' = crc0
    /\ UNCHANGED <<request, counted, verdict>>

ReplyIntact == Arrive(request)

Flipped(x, b) == IF (x \div b) % 2 = 1 THEN x - b ELSE x + b

ReplyDamaged ==
    /\ Len(request) <= DamageLen
    /\ \E i \in 1..Len(request), b \in {1, 2, 4, 8, 16, 32, 64, 128} :
         Arrive([request EXCEPT ![i] = Flipped(@, b)])

ReplyCut ==
    /\ Len(request) <= DamageLen
    /\ \E n \in 0..(Len(request) - 1) : Arrive(SubSeq(request, 1, n))

(* CheckReceivedData: too short, or not the current id and function.        *)
CheckHeader ==
    /\ pc = "replied"
    /\ pc' = IF Len(reply) >= 2 /\ SubSeq(reply, 1, 2) = SubSeq(request, 1, 2)
             THEN "checking" ELSE "checked"
    /\ verdict' = FALSE
    /\ UNCHANGED <<crc, request, counted, reply, intact>>

CrcOfReply ==
    /\ pc = "checking"
    /\ crc16(reply, Len(reply) - 2)
    /\ UNCHANGED <<pc, request, counted, reply, intact, verdict>>

(* Mutant: one of the two bytes is enough.                                  *)
MutCheckCrc ==
    /\ pc = "checking" /\ crc.at = Len(reply) - 2
    /\ pc' = "checked"
    /\ verdict' = \/ reply[Len(reply) - 1] = CrcBytes[1]
                  \/ reply[Len(reply)] = CrcBytes[2]
    /\ UNCHANGED <<crc, request, counted, reply, intact>>

CheckCrc ==
    /\ pc = "checking" /\ crc.at = Len(reply) - 2
    /\ pc' = "checked"
    /\ verdict' = (SubSeq(reply, Len(reply) - 1, Len(reply)) = CrcBytes)
    /\ UNCHANGED <<crc, request, counted, reply, intact>>

FrameNext ==
    \/ Request \/ CrcOfRequest \/ sendFrame
    \/ ReplyIntact \/ ReplyDamaged \/ ReplyCut
    \/ CheckHeader \/ CrcOfReply \/ CheckCrc

FrameSpec == FrameInit /\ [][FrameNext]_frameVars

-----------------------------------------------------------------------------
(* Properties.                                                              *)

(* The two 256-entry tables compute the CRC-16 of Modbus, byte after byte,  *)
(* on every frame that is sent and every reply that is checked.             *)
TablesAreCrc16 == crc.value.lo * 256 + crc.value.hi = crc.ref

(* A reply as long as the request passes when it is the request and not     *)
(* when a bit of it is flipped, although the header is compared before the  *)
(* CRC is looked at.  CheckReceivedData compares no lengths, so a reply cut *)
(* short passes when the two bytes it then ends with happen to be the CRC   *)
(* of those before them.                                                    *)
VerdictIsIntact == pc = "checked" /\ Len(reply) = Len(request) => verdict = intact

(* The one-byte counts of F15, F16, F20, F21 and F23 are computed modulo    *)
(* 256: in every frame that fits in request.buff the count is the number of *)
(* bytes that follow it, so it has not wrapped.                             *)
ByteCountIsRest ==
    pc = "built" /\ counted.at > 0 => request[counted.at] = Len(request) - counted.at

(* The bytes announced hold what is written: registers exactly, and the     *)
(* coils of F15 with less than one byte to spare, or one whole byte when    *)
(* their number is a multiple of 8.                                         *)
PayloadIsCovered ==
    pc = "built" /\ counted.at > 0 =>
        LET spare == 8 * request[counted.at] - counted.bits
        IN  spare \in 0..(IF request[2] = 15 THEN 8 ELSE 0)

=============================================================================
