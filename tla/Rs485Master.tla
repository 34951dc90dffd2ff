---------------------------- MODULE Rs485Master ----------------------------
(***************************************************************************)
(* The Modbus master of RS485_demo2: for each RS485 port a reader thread,  *)
(* a 20 ms CountDownTimer and a Handler on the main thread, and the        *)
(* buttons that send a request and arm the reception of its answer.  The   *)
(* fields check_rcv_data, data_index and rcv_data are shared between the   *)
(* reader and the main thread without a lock, and data_tx is shared by the *)
(* writer threads of BOTH ports, so each access to a shared field is a     *)
(* step of its own.                                                        *)
(*                                                                         *)
(* A byte is symbolic: which reply it belongs to (its id and function) and *)
(* its place in that reply.  The CRC is perfect: it passes for exactly one *)
(* whole reply (module ModbusFrame is about the CRC and the frames).       *)
(***************************************************************************)
EXTENDS Integers, Sequences

CONSTANTS
    Ports,         \* the ports opened by the activity: PORT_0, PORT_1
    Devices,       \* the ports that have a device connected to them
    Buttons,       \* the request buttons that may be clicked
    ReplyLen,      \* bytes in a reply: id, function, ..., CRC
    BufferSize,    \* rcv_data0.length (256 in the code)
    MaxClicks,     \* bound on the requests of a behaviour
    MaxFaults,     \* bound on the I/O errors of a behaviour
    MidFrameGap    \* may the timer expire between two bytes of one reply?

Framed == {"F5_ForceSingleCoil", "F16_PresetMultipleRegs",
           "F21_WriteGenegalReference"}

PortOf(b) == IF b = "F21_WriteGenegalReference" THEN 1 ELSE 0

ASSUME PortsAssumption == Ports \subseteq {0, 1} /\ Devices \subseteq Ports
ASSUME ButtonsAssumption ==
    /\ Buttons # {}
    /\ Buttons \subseteq Framed \cup {"sendRaw"}
    /\ \A b \in Buttons : PortOf(b) \in Ports
ASSUME ReplyAssumption == ReplyLen \in Nat /\ ReplyLen >= 3
ASSUME BufferAssumption == BufferSize \in Nat /\ BufferSize >= ReplyLen
ASSUME BoundsAssumption == MaxClicks \in Nat /\ MaxFaults \in Nat
ASSUME GapAssumption == MidFrameGap \in BOOLEAN

NoHeader == [id |-> 0, func |-> 0]

(* What frame_init puts in buff[0], buff[1] and in current_send_id/func.   *)
HeaderOf(b) ==
    CASE b = "F5_ForceSingleCoil"        -> [id |-> 16, func |-> 5]
      [] b = "F16_PresetMultipleRegs"    -> [id |-> 123, func |-> 16]
      [] b = "F21_WriteGenegalReference" -> [id |-> 123, func |-> 21]
      [] OTHER                           -> NoHeader

(* A Modbus device refuses a request with the top bit of the function set. *)
Refusal(h) == [h EXCEPT !.func = @ + 128]

Header == [id : Nat, func : Nat]
Byte == [id : Nat, func : Nat, pos : Nat]
ZeroByte == [id |-> 0, func |-> 0, pos |-> 0]

Reply(h) ==
    [i \in 1..ReplyLen |->
        [id   |-> IF i = 2 THEN 0 ELSE h.id,
         func |-> IF i = 1 THEN 0 ELSE h.func,
         pos  |-> i]]

(* What a writer thread can find in data_tx: a finished request, or the    *)
(* zeroes of "new byte[length]" before Arrays.copyOf has replaced them.    *)
Frames == Framed \cup {"sendRaw", "zeros"}

ReaderSteps == {"start", "read", "cancel", "test", "load", "store", "reload", "inc"}
MainSteps == {"idle", "copy", "spawn", "ready", "verify", "stop"}
Stores == {"check_rcv_data", "data_index"}

VARIABLES
    opened,          \* adam4055_0 / adam4055_1 is not null
    wire,            \* bytes a device has sent and the reader has not read
    line,            \* frames written to a port, not yet seen by its devices
    rpc, rbyte, ridx,  \* reader thread: its step, data[0], the index it holds
    ticks,           \* pending ticks of the CountDownTimer (0: cancelled)
    timeouts,        \* MSG_RECEIVE_TIMEOUTs in the queue of the main thread
    check_rcv_data, data_index, rcv_data,
    current,         \* current_send_id, current_send_func
    data_tx,         \* the one transmit buffer
    writers,         \* writer threads that have not written yet
    mpc, mport, mbutton, mleft, \* main thread: its step, port, button, stores left
    clicks, faults, crashed,
    answered, passed, \* history: replies sent, "CRC pass" verdicts, per request
    clean            \* history: nothing has disturbed the exchange on a port

readerVars == <<rpc, rbyte, ridx>>
portVars == <<check_rcv_data, data_index, rcv_data>>
mainVars == <<mpc, mport, mbutton, mleft>>
history == <<answered, passed>>
vars == <<opened, wire, line, readerVars, ticks, timeouts, portVars, current,
          data_tx, writers, mainVars, clicks, faults, crashed, history, clean>>

TypeOK ==
    /\ opened \in [Ports -> BOOLEAN]
    /\ wire \in [Ports -> Seq(Byte)]
    /\ line \in [Ports -> Seq(Frames)]
    /\ rpc \in [Ports -> ReaderSteps]
    /\ rbyte \in [Ports -> Byte]
    /\ ridx \in [Ports -> Nat]
    /\ ticks \in [Ports -> Nat]
    /\ timeouts \in [Ports -> Nat]
    /\ check_rcv_data \in [Ports -> BOOLEAN]
    /\ data_index \in [Ports -> Nat]
    /\ rcv_data \in [Ports -> [0..(BufferSize - 1) -> Byte]]
    /\ current \in [Ports -> Header]
    /\ data_tx \in Frames
    /\ writers \subseteq [port : Ports, button : Buttons, req : 1..MaxClicks]
    /\ mpc \in MainSteps
    /\ mport \in Ports
    /\ mbutton \in Buttons
    /\ mleft \subseteq Stores
    /\ clicks \in 0..MaxClicks
    /\ faults \in 0..MaxFaults
    /\ crashed \in BOOLEAN
    /\ answered \in [Ports -> [Framed -> Nat]]
    /\ passed \in [Ports -> [Framed -> Nat]]
    /\ clean \in [Ports -> BOOLEAN]

(* onCreate: either constructor may have thrown, which leaves a null field. *)
Init ==
    /\ opened \in [Ports -> BOOLEAN]
    /\ wire = [p \in Ports |-> <<>>]
    /\ line = [p \in Ports |-> <<>>]
    /\ rpc = [p \in Ports |-> "start"]
    /\ rbyte = [p \in Ports |-> ZeroByte]
    /\ ridx = [p \in Ports |-> 0]
    /\ ticks = [p \in Ports |-> 0]
    /\ timeouts = [p \in Ports |-> 0]
    /\ check_rcv_data = [p \in Ports |-> FALSE]
    /\ data_index = [p \in Ports |-> 0]
    /\ rcv_data = [p \in Ports |-> [i \in 0..(BufferSize - 1) |-> ZeroByte]]
    /\ current = [p \in Ports |-> NoHeader]
    /\ data_tx = "zeros"
    /\ writers = {}
    /\ mpc = "idle"
    /\ mbutton = CHOOSE b \in Buttons : TRUE
    /\ mport = PortOf(mbutton)
    /\ mleft = {}
    /\ clicks = 0
    /\ faults = 0
    /\ crashed = FALSE
    /\ answered = [p \in Ports |-> [b \in Framed |-> 0]]
    /\ passed = [p \in Ports |-> [b \in Framed |-> 0]]
    /\ clean = [p \in Ports |-> FALSE]

-----------------------------------------------------------------------------
(* The reader thread of port p: Adam4055_thread0.run, Adam4055_thread1.run. *)

ReaderGoes(p, from, to) ==
    /\ ~crashed
    /\ rpc[p] = from
    /\ rpc' = [rpc EXCEPT ![p] = to]

(* CountDownTimer.start posts a tick and leaves those of earlier calls.     *)
ReaderStart(p) ==
    /\ ReaderGoes(p, "start", "read")
    /\ ticks' = [ticks EXCEPT ![p] = @ + 1]
    /\ UNCHANGED <<opened, wire, line, rbyte, ridx, timeouts, portVars, current,
                   data_tx, writers, mainVars, clicks, faults, crashed, history, clean>>

ReaderRead(p) ==
    /\ ReaderGoes(p, "read", "cancel")
    /\ opened[p] /\ wire[p] # <<>>
    /\ rbyte' = [rbyte EXCEPT ![p] = Head(wire[p])]
    /\ wire' = [wire EXCEPT ![p] = Tail(@)]
    /\ UNCHANGED <<opened, line, ridx, ticks, timeouts, portVars, current, data_tx,
                   writers, mainVars, clicks, faults, crashed, history, clean>>

(* read returned -1: data[0] keeps the last byte, and ret is not looked at. *)
ReaderReadsNothing(p) ==
    /\ ReaderGoes(p, "read", "cancel")
    /\ opened[p] /\ faults < MaxFaults
    /\ faults' = faults + 1
    /\ clean' = [clean EXCEPT ![p] = FALSE]
    /\ UNCHANGED <<opened, wire, line, rbyte, ridx, ticks, timeouts, portVars,
                   current, data_tx, writers, mainVars, clicks, crashed, history>>

(* read threw IOException: caught, and the loop starts the timer once more. *)
ReaderFails(p) ==
    /\ ReaderGoes(p, "read", "start")
    /\ opened[p] /\ faults < MaxFaults
    /\ faults' = faults + 1
    /\ clean' = [clean EXCEPT ![p] = FALSE]
    /\ UNCHANGED <<opened, wire, line, rbyte, ridx, ticks, timeouts, portVars,
                   current, data_tx, writers, mainVars, clicks, crashed, history>>

(* read on a null field: NullPointerException is not caught.                *)
ReaderHasNoPort(p) ==
    /\ ~crashed
    /\ rpc[p] = "read" /\ ~opened[p]
    /\ crashed' = TRUE
    /\ UNCHANGED <<opened, wire, line, readerVars, ticks, timeouts, portVars, current,
                   data_tx, writers, mainVars, clicks, faults, history, clean>>

ReaderCancel(p) ==
    /\ ReaderGoes(p, "cancel", "test")
    /\ ticks' = [ticks EXCEPT ![p] = 0]
    /\ UNCHANGED <<opened, wire, line, rbyte, ridx, timeouts, portVars, current,
                   data_tx, writers, mainVars, clicks, faults, crashed, history, clean>>

ReaderTest(p) ==
    /\ ReaderGoes(p, "test", IF check_rcv_data[p] THEN "load" ELSE "start")
    /\ clean' = [clean EXCEPT ![p] = @ /\ check_rcv_data[p] /\ mpc # "ready"]
    /\ UNCHANGED <<opened, wire, line, rbyte, ridx, ticks, timeouts, portVars,
                   current, data_tx, writers, mainVars, clicks, faults, crashed, history>>

(* Mutant: the byte is stored over the last one.                            *)
MutLoadBehind(p, from, to) ==
    /\ ReaderGoes(p, from, to)
    /\ ridx' = [ridx EXCEPT ![p] = IF data_index[p] > 0 THEN data_index[p] - 1 ELSE 0]
    /\ UNCHANGED <<opened, wire, line, rbyte, ticks, timeouts, portVars, current,
                   data_tx, writers, mainVars, clicks, faults, crashed, history, clean>>

(* Mutant: the bytes are counted from one, the array from zero: data_index  *)
(* - 1 is the place of the byte, and the first byte has none.               *)
MutLoadBefore(p, from, to) ==
    /\ ReaderGoes(p, from, to)
    /\ ridx' = [ridx EXCEPT ![p] = data_index[p] - 1]
    /\ UNCHANGED <<opened, wire, line, rbyte, ticks, timeouts, portVars, current,
                   data_tx, writers, mainVars, clicks, faults, crashed, history, clean>>

(* data_index is read to index rcv_data, and read again to be incremented.  *)
ReaderLoad(p, from, to) ==
    /\ ReaderGoes(p, from, to)
    /\ ridx' = [ridx EXCEPT ![p] = data_index[p]]
    /\ UNCHANGED <<opened, wire, line, rbyte, ticks, timeouts, portVars, current,
                   data_tx, writers, mainVars, clicks, faults, crashed, history, clean>>

(* Is there room for a byte at index i?  (And a mutant one place too long.)  *)
MutHasRoom(i) == i <= BufferSize
HasRoom(i) == i < BufferSize

ReaderStore(p) ==
    /\ ReaderGoes(p, "store", "reload")
    /\ HasRoom(ridx[p])
    /\ rcv_data' = [rcv_data EXCEPT ![p][ridx[p]] = rbyte[p]]
    /\ UNCHANGED <<opened, wire, line, rbyte, ridx, ticks, timeouts, check_rcv_data,
                   data_index, current, data_tx, writers, mainVars, clicks, faults,
                   crashed, history, clean>>

(* ArrayIndexOutOfBoundsException is not caught either.                     *)
ReaderOverruns(p) ==
    /\ ~crashed
    /\ rpc[p] = "store" /\ ~HasRoom(ridx[p])
    /\ crashed' = TRUE
    /\ UNCHANGED <<opened, wire, line, readerVars, ticks, timeouts, portVars, current,
                   data_tx, writers, mainVars, clicks, faults, history, clean>>

ReaderIncrement(p) ==
    /\ ReaderGoes(p, "inc", "start")
    /\ data_index' = [data_index EXCEPT ![p] = ridx[p] + 1]
    /\ UNCHANGED <<opened, wire, line, rbyte, ridx, ticks, timeouts, check_rcv_data,
                   rcv_data, current, data_tx, writers, mainVars, clicks, faults,
                   crashed, history, clean>>

Reader(p) ==
    \/ ReaderStart(p) \/ ReaderRead(p) \/ ReaderHasNoPort(p) \/ ReaderCancel(p)
    \/ ReaderTest(p) \/ ReaderLoad(p, "load", "store") \/ ReaderStore(p)
    \/ ReaderOverruns(p) \/ ReaderLoad(p, "reload", "inc") \/ ReaderIncrement(p)

-----------------------------------------------------------------------------
(* The main thread: one callback at a time, each in several steps.          *)

MainGoes(from, to) ==
    /\ ~crashed
    /\ mpc = from
    /\ mpc' = to

(* Nothing is under way on port p: what a careful operator waits for.       *)
Quiet(p) ==
    /\ writers = {} /\ line[p] = <<>> /\ wire[p] = <<>>
    /\ rpc[p] = "read" /\ ticks[p] = 0 /\ timeouts[p] = 0

(* onClick of button b, up to "data_tx = new byte[length]": frame_init has  *)
(* set the expected id and function; sendRaw sets neither.                  *)
Click(b) ==
    /\ MainGoes("idle", "copy")
    /\ clicks < MaxClicks
    /\ clicks' = clicks + 1
    /\ mport' = PortOf(b) /\ mbutton' = b
    /\ current' = IF b \in Framed THEN [current EXCEPT ![PortOf(b)] = HeaderOf(b)]
                                  ELSE current
    /\ data_tx' = "zeros"
    /\ clean' = [p \in Ports |-> p = PortOf(b) /\ Quiet(p)]
    /\ UNCHANGED <<opened, wire, line, readerVars, ticks, timeouts, portVars, writers,
                   mleft, faults, crashed, history>>

(* Mutant: the new array is never filled.                                   *)
MutCopyNothing ==
    /\ MainGoes("copy", "spawn")
    /\ UNCHANGED <<opened, wire, line, readerVars, ticks, timeouts, portVars, current,
                   data_tx, writers, mport, mbutton, mleft, clicks, faults, crashed,
                   history, clean>>

CopyFrame ==
    /\ MainGoes("copy", "spawn")
    /\ data_tx' = mbutton
    /\ UNCHANGED <<opened, wire, line, readerVars, ticks, timeouts, portVars, current,
                   writers, mport, mbutton, mleft, clicks, faults, crashed, history,
                   clean>>

SpawnWriter ==
    /\ MainGoes("spawn", "ready")
    /\ writers' = writers \cup {[port |-> mport, button |-> mbutton, req |-> clicks]}
    /\ mleft' = Stores
    /\ UNCHANGED <<opened, wire, line, readerVars, ticks, timeouts, portVars, current,
                   data_tx, mport, mbutton, clicks, faults, crashed, history, clean>>

(* Mutant: the index is not reset.                                          *)
MutKeepIndex(f, check) ==
    /\ f \in mleft
    /\ mleft' = mleft \ {f}
    /\ check_rcv_data' = IF f = "check_rcv_data"
                         THEN [check_rcv_data EXCEPT ![mport] = check]
                         ELSE check_rcv_data
    /\ UNCHANGED data_index

(* One of the two stores of ReadyToReceive or StopReceive: the fields are   *)
(* not volatile, so the reader may see the two in either order.             *)
StoreField(f, check) ==
    /\ f \in mleft
    /\ mleft' = mleft \ {f}
    /\ check_rcv_data' = IF f = "check_rcv_data"
                         THEN [check_rcv_data EXCEPT ![mport] = check]
                         ELSE check_rcv_data
    /\ data_index' = IF f = "data_index" THEN [data_index EXCEPT ![mport] = 0]
                                         ELSE data_index

ReadyToReceive ==
    /\ \E f \in Stores :
         /\ MainGoes("ready", IF mleft = {f} THEN "idle" ELSE "ready")
         /\ StoreField(f, TRUE)
    /\ UNCHANGED <<opened, wire, line, readerVars, ticks, timeouts, rcv_data, current,
                   data_tx, writers, mport, mbutton, clicks, faults, crashed, history,
                   clean>>

(* onFinish runs on the main thread and queues a message to its Handler.    *)
TimerFires(p) ==
    /\ MainGoes("idle", "idle")
    /\ ticks[p] > 0
    /\ MidFrameGap \/ (wire[p] = <<>> /\ rpc[p] = "read")
    /\ ticks' = [ticks EXCEPT ![p] = @ - 1]
    /\ timeouts' = [timeouts EXCEPT ![p] = @ + 1]
    /\ UNCHANGED <<opened, wire, line, readerVars, portVars, current, data_tx, writers,
                   mport, mbutton, mleft, clicks, faults, crashed, history, clean>>

(* Mutant: a short reception is left to go on.                              *)
MutWaitForMore(p) ==
    /\ MainGoes("idle", IF check_rcv_data[p] /\ data_index[p] >= 2 THEN "verify"
                                                                   ELSE "idle")
    /\ timeouts[p] > 0
    /\ timeouts' = [timeouts EXCEPT ![p] = @ - 1]
    /\ ticks' = [ticks EXCEPT ![p] = 0]
    /\ mport' = p
    /\ UNCHANGED <<opened, wire, line, readerVars, portVars, current, data_tx, writers,
                   mbutton, mleft, clicks, faults, crashed, history, clean>>

(* handleMessage: the timer is cancelled whatever comes next.               *)
HandleTimeout(p) ==
    /\ MainGoes("idle", IF check_rcv_data[p] THEN "verify" ELSE "idle")
    /\ timeouts[p] > 0
    /\ timeouts' = [timeouts EXCEPT ![p] = @ - 1]
    /\ ticks' = [ticks EXCEPT ![p] = 0]
    /\ mport' = p
    /\ UNCHANGED <<opened, wire, line, readerVars, portVars, current, data_tx, writers,
                   mbutton, mleft, clicks, faults, crashed, history, clean>>

(* CheckReceivedData: at least two bytes, the id and the function of the    *)
(* current request, then a CRC that closes the frame.                       *)
CRCPass(p) ==
    LET n == data_index[p]
        buf == rcv_data[p]
    IN  /\ n >= 2
        /\ buf[0].pos = 1 /\ buf[0].id = current[p].id
        /\ buf[1].pos = 2 /\ buf[1].func = current[p].func
        /\ n = ReplyLen
        /\ \A i \in 1..ReplyLen : buf[i - 1] = Reply(current[p])[i]

CheckReceivedData ==
    /\ MainGoes("verify", "stop")
    /\ passed' = [passed EXCEPT ![mport] =
                     [b \in Framed |-> @[b] + IF CRCPass(mport) /\ HeaderOf(b) = current[mport]
                                              THEN 1 ELSE 0]]
    /\ mleft' = Stores
    /\ UNCHANGED <<opened, wire, line, readerVars, ticks, timeouts, portVars, current,
                   data_tx, writers, mport, mbutton, clicks, faults, crashed, answered,
                   clean>>

(* The last step of StopReceive also forgets the id and the function, which *)
(* only the main thread reads.                                              *)
StopReceive ==
    /\ \E f \in Stores :
         /\ MainGoes("stop", IF mleft = {f} THEN "idle" ELSE "stop")
         /\ StoreField(f, FALSE)
         /\ current' = IF mleft = {f} THEN [current EXCEPT ![mport] = NoHeader]
                                      ELSE current
    /\ UNCHANGED <<opened, wire, line, readerVars, ticks, timeouts, rcv_data, data_tx,
                   writers, mport, mbutton, clicks, faults, crashed, history, clean>>

Main ==
    \/ CopyFrame \/ SpawnWriter \/ ReadyToReceive \/ CheckReceivedData \/ StopReceive
    \/ \E p \in Ports : HandleTimeout(p)

-----------------------------------------------------------------------------
(* The writer threads and the devices on the line.                          *)

(* The thread reads the field data_tx when it runs, not when it is made.    *)
WriterRuns(w) ==
    /\ ~crashed
    /\ opened[w.port]
    /\ writers' = writers \ {w}
    /\ line' = [line EXCEPT ![w.port] = Append(@, data_tx)]
    /\ UNCHANGED <<opened, wire, readerVars, ticks, timeouts, portVars, current,
                   data_tx, mainVars, clicks, faults, crashed, history, clean>>

(* write threw IOException: printed, and the request is lost.               *)
WriterFails(w) ==
    /\ ~crashed
    /\ opened[w.port] /\ faults < MaxFaults
    /\ faults' = faults + 1
    /\ writers' = writers \ {w}
    /\ UNCHANGED <<opened, wire, line, readerVars, ticks, timeouts, portVars, current,
                   data_tx, mainVars, clicks, crashed, history, clean>>

WriterHasNoPort(w) ==
    /\ ~crashed
    /\ ~opened[w.port]
    /\ crashed' = TRUE
    /\ UNCHANGED <<opened, wire, line, readerVars, ticks, timeouts, portVars, current,
                   data_tx, writers, mainVars, clicks, faults, history, clean>>

TakesFrame(p) ==
    /\ ~crashed
    /\ line[p] # <<>>
    /\ line' = [line EXCEPT ![p] = Tail(@)]

DeviceAnswers(p) ==
    /\ TakesFrame(p)
    /\ p \in Devices /\ Head(line[p]) \in Framed
    /\ wire' = [wire EXCEPT ![p] = @ \o Reply(HeaderOf(Head(line[p])))]
    /\ answered' = [answered EXCEPT ![p][Head(line[p])] = @ + 1]
    /\ UNCHANGED <<opened, readerVars, ticks, timeouts, portVars, current, data_tx,
                   writers, mainVars, clicks, faults, crashed, passed, clean>>

DeviceRefuses(p) ==
    /\ TakesFrame(p)
    /\ p \in Devices /\ Head(line[p]) \in Framed
    /\ wire' = [wire EXCEPT ![p] = @ \o Reply(Refusal(HeaderOf(Head(line[p]))))]
    /\ clean' = [clean EXCEPT ![p] = FALSE]
    /\ UNCHANGED <<opened, readerVars, ticks, timeouts, portVars, current, data_tx,
                   writers, mainVars, clicks, faults, crashed, history>>

(* No device at that address, or not a frame at all.                        *)
NobodyAnswers(p) ==
    /\ TakesFrame(p)
    /\ UNCHANGED <<opened, wire, readerVars, ticks, timeouts, portVars, current,
                   data_tx, writers, mainVars, clicks, faults, crashed, history, clean>>

Next ==
    \/ \E p \in Ports :
         \/ Reader(p) \/ ReaderReadsNothing(p) \/ ReaderFails(p) \/ TimerFires(p)
         \/ DeviceAnswers(p) \/ DeviceRefuses(p) \/ NobodyAnswers(p)
    \/ \E b \in Buttons : Click(b)
    \/ Main
    \/ \E w \in writers : WriterRuns(w) \/ WriterFails(w) \/ WriterHasNoPort(w)

Spec == Init /\ [][Next]_vars

(* The scheduler runs a thread that can run, a started timer expires, and   *)
(* the looper takes its messages.  No device has to answer, no one to click. *)
FairSpec ==
    /\ Spec
    /\ \A p \in Ports : WF_vars(Reader(p)) /\ WF_vars(TimerFires(p))
    /\ WF_vars(Main)

-----------------------------------------------------------------------------
(* Properties.                                                              *)

(* rcv_data0[data_index0] and data_index0++: whatever the races on the      *)
(* index, it never passes the end of the array in a running program (the    *)
(* reader dies of the exception first, and never skips the failing store).  *)
IndexInBuffer == \A p \in Ports : data_index[p] <= BufferSize

(* The Handler passes rcv_data by reference while the reader may be storing *)
(* into it: the byte being stored is never one of the first data_index      *)
(* bytes, so the frame that CheckReceivedData looks at does not change.     *)
VerifiedBytesAreStable ==
    \A p \in Ports : rpc[p] = "store" => data_index[p] <= ridx[p]

BusyOn(p) == mport = p /\ mpc \in {"ready", "verify", "stop"}

(* The timer is cancelled by two threads.  A reception that has begun, with *)
(* its reader blocked in read and the main thread not working on that port, *)
(* always has a timeout to come: a lost answer byte cannot hang it.         *)
NoStuckReception ==
    \A p \in Ports :
        ~BusyOn(p) /\ check_rcv_data[p] /\ data_index[p] > 0 /\ rpc[p] = "read"
            => ticks[p] > 0 \/ timeouts[p] > 0

(* rcv_data is never cleared and the reset of data_index races with its     *)
(* increment: even so the bytes of one answer are not passed twice.         *)
NoAnswerReportedTwice ==
    \A p \in Ports, b \in Framed : passed[p][b] <= answered[p][b]

(* data_tx is one field for both ports: the frame a writer thread is about  *)
(* to send is the one of its own request unless a later click came first.   *)
NotOvertaken ==
    \A w \in writers : w.req = clicks => data_tx = w.button

(* A request made while nothing was under way on its port, answered after   *)
(* ReadyToReceive with one whole reply, gets the verdict "CRC pass".        *)
CleanExchangePasses ==
    [][(mpc = "verify" /\ mpc' = "stop" /\ clean[mport]) => passed' # passed]_vars

(* A reception that has begun comes to an end: its verdict is given, or a   *)
(* new request starts it again, or the program has died.                    *)
ReceptionEnds ==
    \A p \in Ports :
        (check_rcv_data[p] /\ data_index[p] > 0)
            ~> (crashed \/ ~check_rcv_data[p] \/ data_index[p] = 0)

(* The port as its user sees it: waiting from ReadyToReceive to the verdict. *)
Session ==
    INSTANCE Rs485Session WITH
        Requests <- Framed,
        waiting <- [p \in Ports |-> check_rcv_data[p] /\ ~(mpc = "stop" /\ mport = p)]

(* Threads, timers and buffers implement the promise of Rs485Session.       *)
ImplementsSession == Session!Spec

=============================================================================
