----------------------------- MODULE Rs485Proofs -----------------------------
(***************************************************************************)
(* Theorems about Rs485Master, for any ports, buttons, reply and buffer    *)
(* lengths, and any number of clicks and faults; then about ModbusCrc, for *)
(* any tables that hold the CRC of every byte; and about the frames of     *)
(* ModbusFrame, for any arguments.                                         *)
(***************************************************************************)
EXTENDS Rs485Master, ModbusFrame, SequenceTheorems, FiniteSetTheorems, TLAPS

(* The bytes of a reply are bytes.                                          *)
LEMMA ReplyIsBytes ==
    ASSUME NEW h \in Header
    PROVE  Reply(h) \in Seq(Byte)
<1>1. Reply(h) \in [1..ReplyLen -> Byte]
  BY ReplyAssumption DEF Reply, Header, Byte
<1>. QED  BY <1>1, SeqDef, ReplyAssumption

(* What a request expects, and what refuses it, are headers.                *)
LEMMA HeadersOfFrames ==
    ASSUME NEW b \in Framed
    PROVE  HeaderOf(b) \in Header /\ Refusal(HeaderOf(b)) \in Header
BY DEF Framed, HeaderOf, Refusal, Header, NoHeader

LEMMA PortOfButton == \A b \in Buttons : PortOf(b) \in Ports
BY ButtonsAssumption

(* Every field keeps its type: the types the code declares, and the range   *)
(* of each thread's program counter.                                        *)
LEMMA TypeInit == Init => TypeOK
<1>. SUFFICES ASSUME Init PROVE TypeOK
  OBVIOUS
<1>1. mbutton \in Buttons /\ mport \in Ports
  BY ButtonsAssumption, PortOfButton DEF Init
<1>2. ZeroByte \in Byte /\ NoHeader \in Header
  BY DEF ZeroByte, Byte, NoHeader, Header
<1>3. wire \in [Ports -> Seq(Byte)] /\ line \in [Ports -> Seq(Frames)]
  BY EmptySeq DEF Init
<1>4. rcv_data \in [Ports -> [0..(BufferSize - 1) -> Byte]]
  BY <1>2 DEF Init
<1>5. answered \in [Ports -> [Framed -> Nat]] /\ passed \in [Ports -> [Framed -> Nat]]
  BY DEF Init
<1>6. /\ ticks \in [Ports -> Nat] /\ timeouts \in [Ports -> Nat]
      /\ ridx \in [Ports -> Nat] /\ data_index \in [Ports -> Nat]
      /\ clicks \in 0..MaxClicks /\ faults \in 0..MaxFaults
  BY BoundsAssumption DEF Init
<1>7. /\ rpc \in [Ports -> ReaderSteps] /\ rbyte \in [Ports -> Byte]
      /\ current \in [Ports -> Header]
  BY <1>2 DEF Init, ReaderSteps
<1>8. /\ opened \in [Ports -> BOOLEAN] /\ check_rcv_data \in [Ports -> BOOLEAN]
      /\ clean \in [Ports -> BOOLEAN] /\ crashed \in BOOLEAN
      /\ data_tx \in Frames /\ mpc \in MainSteps
      /\ mleft \subseteq Stores
      /\ writers \subseteq [port : Ports, button : Buttons, req : 1..MaxClicks]
  BY DEF Init, Frames, MainSteps
<1>. QED
  BY <1>1, <1>3, <1>4, <1>5, <1>6, <1>7, <1>8 DEF TypeOK

LEMMA TypeReader ==
    ASSUME TypeOK, NEW p \in Ports,
           Reader(p) \/ ReaderReadsNothing(p) \/ ReaderFails(p)
    PROVE  TypeOK'
<1>. USE DEF TypeOK, ReaderGoes, ReaderSteps
<1>1. CASE ReaderStart(p)
  <2>1. ticks[p] + 1 \in Nat
    OBVIOUS
  <2>2. ticks' \in [Ports -> Nat]
    BY <1>1, <2>1 DEF ReaderStart
  <2>. QED  BY <1>1, <2>2 DEF ReaderStart, portVars, mainVars, history
<1>2. CASE ReaderRead(p)
  <2>1. Head(wire[p]) \in Byte /\ Tail(wire[p]) \in Seq(Byte)
    BY <1>2, HeadTailProperties DEF ReaderRead
  <2>. QED  BY <1>2, <2>1 DEF ReaderRead, portVars, mainVars, history
<1>3. CASE ReaderHasNoPort(p)
  BY <1>3 DEF ReaderHasNoPort, readerVars, portVars, mainVars, history
<1>4. CASE ReaderCancel(p)
  BY <1>4 DEF ReaderCancel, portVars, mainVars, history
<1>5. CASE ReaderTest(p)
  BY <1>5 DEF ReaderTest, portVars, mainVars, history
<1>6. CASE ReaderLoad(p, "load", "store")
  BY <1>6 DEF ReaderLoad, portVars, mainVars, history
<1>7. CASE ReaderStore(p)
  BY <1>7, BufferAssumption DEF ReaderStore, HasRoom, mainVars, history
<1>8. CASE ReaderOverruns(p)
  BY <1>8 DEF ReaderOverruns, readerVars, portVars, mainVars, history
<1>9. CASE ReaderLoad(p, "reload", "inc")
  BY <1>9 DEF ReaderLoad, portVars, mainVars, history
<1>10. CASE ReaderIncrement(p)
  <2>1. ridx[p] + 1 \in Nat
    OBVIOUS
  <2>2. data_index' \in [Ports -> Nat]
    BY <1>10, <2>1 DEF ReaderIncrement
  <2>. QED  BY <1>10, <2>2 DEF ReaderIncrement, mainVars, history
<1>11. CASE ReaderReadsNothing(p)
  <2>1. faults' \in 0..MaxFaults
    BY <1>11, BoundsAssumption DEF ReaderReadsNothing
  <2>2. rpc' \in [Ports -> ReaderSteps] /\ clean' \in [Ports -> BOOLEAN]
    BY <1>11 DEF ReaderReadsNothing
  <2>. QED  BY <1>11, <2>1, <2>2 DEF ReaderReadsNothing, portVars, mainVars, history
<1>12. CASE ReaderFails(p)
  <2>1. faults' \in 0..MaxFaults
    BY <1>12, BoundsAssumption DEF ReaderFails
  <2>2. rpc' \in [Ports -> ReaderSteps] /\ clean' \in [Ports -> BOOLEAN]
    BY <1>12 DEF ReaderFails
  <2>. QED  BY <1>12, <2>1, <2>2 DEF ReaderFails, portVars, mainVars, history
<1>. QED
  BY <1>1, <1>2, <1>3, <1>4, <1>5, <1>6, <1>7, <1>8, <1>9, <1>10, <1>11, <1>12
  DEF Reader

(* The request number of a click that is under way is a request number.     *)
ClickCounted ==
    /\ mpc \in {"copy", "spawn"} => clicks >= 1 /\ \A w \in writers : w.req < clicks
    /\ mpc = "spawn" => data_tx = mbutton
    /\ \A w \in writers : w.req <= clicks

LEMMA TypeMain ==
    ASSUME TypeOK, ClickCounted,
           Main \/ \E b \in Buttons : Click(b)
    PROVE  TypeOK'
<1>. USE DEF TypeOK, MainGoes, MainSteps
<1>1. ASSUME NEW b \in Buttons, Click(b) PROVE TypeOK'
  <2>1. clicks' \in 0..MaxClicks
    BY <1>1, BoundsAssumption DEF Click
  <2>2. current' \in [Ports -> Header]
    BY <1>1, HeadersOfFrames DEF Click
  <2>3. clean' \in [Ports -> BOOLEAN]
    BY <1>1 DEF Click, Quiet
  <2>4. data_tx' \in Frames /\ mport' \in Ports /\ mbutton' \in Buttons
    BY <1>1, PortOfButton DEF Click, Frames
  <2>. QED
    BY <1>1, <2>1, <2>2, <2>3, <2>4 DEF Click, readerVars, portVars, history
<1>2. CASE CopyFrame
  <2>1. data_tx' \in Frames
    BY <1>2, ButtonsAssumption DEF CopyFrame, Frames
  <2>. QED  BY <1>2, <2>1 DEF CopyFrame, readerVars, portVars, history
<1>3. CASE SpawnWriter
  <2>1. clicks \in 1..MaxClicks
    BY <1>3, BoundsAssumption DEF SpawnWriter, ClickCounted
  <2>2. writers' \subseteq [port : Ports, button : Buttons, req : 1..MaxClicks]
    BY <1>3, <2>1 DEF SpawnWriter
  <2>. QED  BY <1>3, <2>2 DEF SpawnWriter, readerVars, portVars, history
<1>4. CASE ReadyToReceive
  <2>. PICK f \in Stores : StoreField(f, TRUE)
    BY <1>4 DEF ReadyToReceive
  <2>1. /\ mleft' \subseteq Stores
        /\ check_rcv_data' \in [Ports -> BOOLEAN] /\ data_index' \in [Ports -> Nat]
    BY DEF StoreField
  <2>2. mpc' \in MainSteps
    BY <1>4 DEF ReadyToReceive
  <2>. QED  BY <1>4, <2>1, <2>2 DEF ReadyToReceive, readerVars, history
<1>5. CASE CheckReceivedData
  <2>1. passed' \in [Ports -> [Framed -> Nat]]
    <3>. DEFINE new == [b \in Framed |->
                  passed[mport][b] + IF CRCPass(mport) /\ HeaderOf(b) = current[mport]
                                     THEN 1 ELSE 0]
    <3>1. new \in [Framed -> Nat]
      OBVIOUS
    <3>2. passed' = [passed EXCEPT ![mport] = new]
      BY <1>5 DEF CheckReceivedData
    <3>. HIDE DEF new
    <3>. QED  BY <3>1, <3>2
  <2>. QED
    BY <1>5, <2>1 DEF CheckReceivedData, readerVars, portVars, Stores
<1>6. CASE StopReceive
  <2>. PICK f \in Stores : /\ StoreField(f, FALSE)
                           /\ current' = IF mleft = {f}
                                         THEN [current EXCEPT ![mport] = NoHeader]
                                         ELSE current
    BY <1>6 DEF StopReceive
  <2>1. /\ mleft' \subseteq Stores
        /\ check_rcv_data' \in [Ports -> BOOLEAN] /\ data_index' \in [Ports -> Nat]
    BY DEF StoreField
  <2>2. current' \in [Ports -> Header]
    BY DEF NoHeader, Header
  <2>3. mpc' \in MainSteps
    BY <1>6 DEF StopReceive
  <2>. QED  BY <1>6, <2>1, <2>2, <2>3 DEF StopReceive, readerVars, history
<1>7. ASSUME NEW p \in Ports, HandleTimeout(p) PROVE TypeOK'
  <2>1. timeouts' \in [Ports -> Nat] /\ ticks' \in [Ports -> Nat]
    BY <1>7 DEF HandleTimeout
  <2>. QED  BY <1>7, <2>1 DEF HandleTimeout, readerVars, portVars, history
<1>. QED  BY <1>1, <1>2, <1>3, <1>4, <1>5, <1>6, <1>7 DEF Main

LEMMA TypeLine ==
    ASSUME TypeOK, NEW p \in Ports,
           TimerFires(p) \/ DeviceAnswers(p) \/ DeviceRefuses(p) \/ NobodyAnswers(p)
    PROVE  TypeOK'
<1>. USE DEF TypeOK
<1>1. CASE TimerFires(p)
  <2>1. timeouts' \in [Ports -> Nat] /\ ticks' \in [Ports -> Nat]
    <3>1. ticks[p] - 1 \in Nat /\ timeouts[p] + 1 \in Nat
      BY <1>1 DEF TimerFires
    <3>. QED  BY <1>1, <3>1 DEF TimerFires
  <2>. QED
    BY <1>1, <2>1 DEF TimerFires, MainGoes, MainSteps, readerVars, portVars, history
<1>2. ASSUME TakesFrame(p) PROVE line' \in [Ports -> Seq(Frames)]
  <2>1. Tail(line[p]) \in Seq(Frames)
    BY <1>2, HeadTailProperties DEF TakesFrame
  <2>. QED  BY <1>2, <2>1 DEF TakesFrame
<1>3. CASE DeviceAnswers(p)
  <2>. DEFINE b == Head(line[p])
  <2>1. b \in Framed
    BY <1>3 DEF DeviceAnswers
  <2>2. wire[p] \o Reply(HeaderOf(b)) \in Seq(Byte)
    BY <2>1, HeadersOfFrames, ReplyIsBytes, ConcatProperties
  <2>3. wire' \in [Ports -> Seq(Byte)]
    BY <1>3, <2>2 DEF DeviceAnswers
  <2>4. answered' \in [Ports -> [Framed -> Nat]]
    <3>. answered \in [Ports -> [Framed -> Nat]]
      OBVIOUS
    <3>. HIDE DEF TypeOK, b
    <3>1. answered[p] \in [Framed -> Nat] /\ answered[p][b] + 1 \in Nat
      BY <2>1
    <3>2. answered' = [answered EXCEPT ![p] = [answered[p] EXCEPT ![b] = answered[p][b] + 1]]
      BY <1>3 DEF DeviceAnswers, b
    <3>3. [answered[p] EXCEPT ![b] = answered[p][b] + 1] \in [Framed -> Nat]
      BY <3>1
    <3>. QED  BY <3>2, <3>3
  <2>5. line' \in [Ports -> Seq(Frames)]
    BY <1>3, <1>2 DEF DeviceAnswers
  <2>. QED
    BY <1>3, <2>3, <2>4, <2>5 DEF DeviceAnswers, readerVars, portVars, mainVars
<1>4. CASE DeviceRefuses(p)
  <2>. DEFINE b == Head(line[p])
  <2>1. b \in Framed
    BY <1>4 DEF DeviceRefuses
  <2>2. wire[p] \o Reply(Refusal(HeaderOf(b))) \in Seq(Byte)
    BY <2>1, HeadersOfFrames, ReplyIsBytes, ConcatProperties
  <2>3. wire' \in [Ports -> Seq(Byte)]
    BY <1>4, <2>2 DEF DeviceRefuses
  <2>5. line' \in [Ports -> Seq(Frames)]
    BY <1>4, <1>2 DEF DeviceRefuses
  <2>. QED
    BY <1>4, <2>3, <2>5 DEF DeviceRefuses, readerVars, portVars, mainVars, history
<1>5. CASE NobodyAnswers(p)
  <2>5. line' \in [Ports -> Seq(Frames)]
    BY <1>5, <1>2 DEF NobodyAnswers
  <2>. QED
    BY <1>5, <2>5 DEF NobodyAnswers, readerVars, portVars, mainVars, history
<1>. QED  BY <1>1, <1>3, <1>4, <1>5

LEMMA TypeWriter ==
    ASSUME TypeOK, NEW w \in writers,
           WriterRuns(w) \/ WriterFails(w) \/ WriterHasNoPort(w)
    PROVE  TypeOK'
<1>. USE DEF TypeOK
<1>1. CASE WriterRuns(w)
  <2>1. Append(line[w.port], data_tx) \in Seq(Frames)
    BY AppendProperties
  <2>2. line' \in [Ports -> Seq(Frames)]
    BY <1>1, <2>1 DEF WriterRuns
  <2>. QED
    BY <1>1, <2>2 DEF WriterRuns, readerVars, portVars, mainVars, history
<1>2. CASE WriterFails(w)
  <2>1. faults' \in 0..MaxFaults
    BY <1>2, BoundsAssumption DEF WriterFails
  <2>2. writers' \subseteq [port : Ports, button : Buttons, req : 1..MaxClicks]
    BY <1>2 DEF WriterFails
  <2>. QED
    BY <1>2, <2>1, <2>2 DEF WriterFails, readerVars, portVars, mainVars, history
<1>3. CASE WriterHasNoPort(w)
  BY <1>3 DEF WriterHasNoPort, readerVars, portVars, mainVars, history
<1>. QED  BY <1>1, <1>2, <1>3

(* A click is counted before its writer exists, and data_tx holds its frame *)
(* from the copy to the next click.                                         *)
LEMMA CountedStep ==
    ASSUME TypeOK, ClickCounted, NotOvertaken, [Next]_vars
    PROVE  (ClickCounted /\ NotOvertaken)'
<1>. USE DEF ClickCounted, NotOvertaken, MainGoes
<1>1. ASSUME NEW b \in Buttons, Click(b) PROVE (ClickCounted /\ NotOvertaken)'
  <2>1. clicks' = clicks + 1 /\ clicks \in Nat /\ \A w \in writers : w.req \in Nat
    BY <1>1, BoundsAssumption DEF Click, TypeOK
  <2>2. \A w \in writers : w.req <= clicks' /\ w.req < clicks' /\ w.req # clicks'
    BY <2>1
  <2>. QED  BY <1>1, <2>1, <2>2 DEF Click
<1>2. CASE CopyFrame
  <2>1. clicks \in Nat /\ \A w \in writers : w.req # clicks
    BY <1>2, BoundsAssumption DEF CopyFrame, TypeOK
  <2>. QED  BY <1>2, <2>1 DEF CopyFrame
<1>3. CASE SpawnWriter
  <2>1. clicks \in Nat
    BY BoundsAssumption DEF TypeOK
  <2>. QED  BY <1>3, <2>1 DEF SpawnWriter
<1>4. CASE ReadyToReceive
  BY <1>4 DEF ReadyToReceive
<1>5. CASE CheckReceivedData
  BY <1>5 DEF CheckReceivedData
<1>6. CASE StopReceive
  BY <1>6 DEF StopReceive
<1>7. ASSUME NEW p \in Ports, HandleTimeout(p) PROVE (ClickCounted /\ NotOvertaken)'
  BY <1>7 DEF HandleTimeout
<1>8. ASSUME NEW p \in Ports,
             Reader(p) \/ ReaderReadsNothing(p) \/ ReaderFails(p) \/ TimerFires(p)
               \/ DeviceAnswers(p) \/ DeviceRefuses(p) \/ NobodyAnswers(p)
      PROVE (ClickCounted /\ NotOvertaken)'
  <2>1. UNCHANGED <<mpc, clicks, data_tx, mbutton, writers>>
    BY <1>8 DEF Reader, ReaderStart, ReaderRead, ReaderHasNoPort, ReaderCancel,
       ReaderTest, ReaderLoad, ReaderStore, ReaderOverruns, ReaderIncrement,
       ReaderReadsNothing, ReaderFails, TimerFires, DeviceAnswers, DeviceRefuses,
       NobodyAnswers, mainVars
  <2>. QED  BY <2>1
<1>9. ASSUME NEW w \in writers, WriterRuns(w) \/ WriterFails(w) \/ WriterHasNoPort(w)
      PROVE (ClickCounted /\ NotOvertaken)'
  <2>1. UNCHANGED <<mpc, clicks, data_tx, mbutton>> /\ writers' \subseteq writers
    BY <1>9 DEF WriterRuns, WriterFails, WriterHasNoPort, mainVars
  <2>. QED  BY <2>1
<1>10. CASE UNCHANGED vars
  BY <1>10 DEF vars, mainVars
<1>. QED
  BY <1>1, <1>2, <1>3, <1>4, <1>5, <1>6, <1>7, <1>8, <1>9, <1>10 DEF Next, Main

LEMMA TypeStep ==
    ASSUME TypeOK, ClickCounted, [Next]_vars PROVE TypeOK'
<1>1. CASE UNCHANGED vars
  BY <1>1 DEF vars, readerVars, portVars, mainVars, history, TypeOK
<1>. QED
  BY <1>1, TypeReader, TypeMain, TypeLine, TypeWriter DEF Next

(* Every field keeps its type, whatever the interleaving of the main        *)
(* thread, the readers and the writers.                                     *)
THEOREM TypeCorrect == Spec => []TypeOK
<1>. DEFINE I == TypeOK /\ ClickCounted /\ NotOvertaken
<1>1. Init => I
  BY TypeInit DEF Init, ClickCounted, NotOvertaken
<1>2. I /\ [Next]_vars => I'
  BY CountedStep, TypeStep
<1>. QED  BY <1>1, <1>2, PTL DEF Spec

(* A writer thread whose request has not been overtaken by another click    *)
(* finds in data_tx the frame it was made for.                              *)
THEOREM FrameNotOvertaken == Spec => []NotOvertaken
<1>. DEFINE I == TypeOK /\ ClickCounted /\ NotOvertaken
<1>1. Init => I
  BY TypeInit DEF Init, ClickCounted, NotOvertaken
<1>2. I /\ [Next]_vars => I'
  BY CountedStep, TypeStep
<1>. QED  BY <1>1, <1>2, PTL DEF Spec

-----------------------------------------------------------------------------
(* The index.  Between its two reads of data_index the reader has passed    *)
(* the bounds check of the store, and the main thread can only lower the    *)
(* index to 0: so the incremented value is at most the length of the array. *)
IndexInv(p) ==
    /\ data_index[p] <= BufferSize
    /\ rpc[p] = "store" => data_index[p] <= ridx[p]
    /\ rpc[p] = "reload" => data_index[p] < BufferSize
    /\ rpc[p] = "inc" => ridx[p] < BufferSize

(* The reader of another port does not touch this one.                      *)
LEMMA ReaderLocal ==
    ASSUME TypeOK, NEW p \in Ports, NEW q \in Ports, p # q,
           Reader(q) \/ ReaderReadsNothing(q) \/ ReaderFails(q)
    PROVE  /\ rpc'[p] = rpc[p] /\ ridx'[p] = ridx[p]
           /\ data_index'[p] = data_index[p]
           /\ check_rcv_data'[p] = check_rcv_data[p]
           /\ ticks'[p] = ticks[p] /\ timeouts'[p] = timeouts[p]
           /\ UNCHANGED mainVars
BY DEF Reader, ReaderStart, ReaderRead, ReaderHasNoPort, ReaderCancel, ReaderTest,
       ReaderLoad, ReaderStore, ReaderOverruns, ReaderIncrement, ReaderReadsNothing,
       ReaderFails, ReaderGoes, TypeOK, readerVars, portVars

LEMMA IndexStep ==
    ASSUME TypeOK, [Next]_vars, NEW p \in Ports, IndexInv(p)
    PROVE  IndexInv(p)'
<1>. USE DEF IndexInv
<1>. /\ data_index[p] \in Nat /\ ridx[p] \in Nat /\ BufferSize \in Nat
     /\ data_index \in [Ports -> Nat] /\ ridx \in [Ports -> Nat]
     /\ rpc \in [Ports -> ReaderSteps] /\ mport \in Ports
  BY BufferAssumption DEF TypeOK
<1>1. CASE Reader(p)
  <2>. USE DEF ReaderGoes
  <2>1. CASE ReaderLoad(p, "load", "store") \/ ReaderLoad(p, "reload", "inc")
    BY <2>1 DEF ReaderLoad, portVars
  <2>2. CASE ReaderStore(p)
    BY <2>2 DEF ReaderStore, HasRoom
  <2>3. CASE ReaderIncrement(p)
    <3>1. data_index'[p] = ridx[p] + 1 /\ rpc'[p] = "start"
      BY <2>3 DEF ReaderIncrement
    <3>2. ridx[p] < BufferSize
      BY <2>3 DEF ReaderIncrement
    <3>. QED  BY <3>1, <3>2
  <2>4. CASE ReaderStart(p) \/ ReaderRead(p) \/ ReaderHasNoPort(p) \/ ReaderCancel(p)
             \/ ReaderTest(p) \/ ReaderOverruns(p)
    BY <2>4 DEF ReaderStart, ReaderRead, ReaderHasNoPort, ReaderCancel, ReaderTest,
       ReaderOverruns, readerVars, portVars
  <2>. QED  BY <1>1, <2>1, <2>2, <2>3, <2>4 DEF Reader
<1>2. CASE ReaderReadsNothing(p) \/ ReaderFails(p)
  BY <1>2 DEF ReaderReadsNothing, ReaderFails, ReaderGoes, portVars
<1>3. ASSUME NEW q \in Ports, q # p, Reader(q) \/ ReaderReadsNothing(q) \/ ReaderFails(q)
      PROVE  IndexInv(p)'
  BY <1>3, ReaderLocal
<1>4. ASSUME UNCHANGED <<rpc, ridx>>, data_index'[p] \in {0, data_index[p]}
      PROVE  IndexInv(p)'
  BY <1>4, BufferAssumption
<1>5. CASE ReadyToReceive \/ StopReceive
  <2>1. PICK f \in Stores : StoreField(f, TRUE) \/ StoreField(f, FALSE)
    BY <1>5 DEF ReadyToReceive, StopReceive
  <2>2. data_index'[p] \in {0, data_index[p]}
    BY <2>1 DEF StoreField
  <2>3. UNCHANGED <<rpc, ridx>>
    BY <1>5 DEF ReadyToReceive, StopReceive, readerVars
  <2>. QED  BY <2>2, <2>3, <1>4
<1>6. ASSUME \/ \E b \in Buttons : Click(b)
             \/ CopyFrame \/ SpawnWriter \/ CheckReceivedData
             \/ \E q \in Ports : \/ HandleTimeout(q) \/ TimerFires(q)
                                 \/ DeviceAnswers(q) \/ DeviceRefuses(q)
                                 \/ NobodyAnswers(q)
             \/ \E w \in writers : WriterRuns(w) \/ WriterFails(w) \/ WriterHasNoPort(w)
             \/ UNCHANGED vars
      PROVE  UNCHANGED <<rpc, ridx, data_index>>
  BY <1>6 DEF Click, CopyFrame, SpawnWriter, CheckReceivedData, HandleTimeout,
     TimerFires, DeviceAnswers, DeviceRefuses, NobodyAnswers, WriterRuns, WriterFails,
     WriterHasNoPort, vars, readerVars, portVars
<1>. QED  BY <1>1, <1>2, <1>3, <1>4, <1>5, <1>6 DEF Next, Main

(* The conjunction that each step preserves.                                *)
Typed == TypeOK /\ ClickCounted /\ NotOvertaken

LEMMA TypedInit == Init => Typed
BY TypeInit DEF Init, Typed, ClickCounted, NotOvertaken

LEMMA TypedStep == Typed /\ [Next]_vars => Typed'
BY CountedStep, TypeStep DEF Typed

(* In a running program data_index never passes the end of rcv_data, in     *)
(* spite of the unlocked resets.                                            *)
THEOREM IndexStaysInBuffer == Spec => []IndexInBuffer
<1>. DEFINE I == Typed /\ \A p \in Ports : IndexInv(p)
<1>1. Init => I
  BY TypedInit, BufferAssumption DEF Init, IndexInv
<1>2. I /\ [Next]_vars => I'
  BY TypedStep, IndexStep DEF Typed
<1>3. I => IndexInBuffer
  BY Zenon DEF IndexInv, IndexInBuffer
<1>. QED  BY <1>1, <1>2, <1>3, PTL DEF Spec

(* The bytes the Handler verifies are not the byte the reader is storing.   *)
THEOREM VerifiedBytesDoNotChange == Spec => []VerifiedBytesAreStable
<1>. DEFINE I == Typed /\ \A p \in Ports : IndexInv(p)
<1>1. Init => I
  BY TypedInit, BufferAssumption DEF Init, IndexInv
<1>2. I /\ [Next]_vars => I'
  BY TypedStep, IndexStep DEF Typed
<1>3. I => VerifiedBytesAreStable
  BY DEF IndexInv, VerifiedBytesAreStable
<1>. QED  BY <1>1, <1>2, <1>3, PTL DEF Spec

-----------------------------------------------------------------------------
(* The timer.  NoStuckReception says nothing of a port the main thread is   *)
(* working on, so it is not inductive: what holds half way through          *)
(* ReadyToReceive (once the index is reset, a byte that raises it again     *)
(* re-arms the timer) and half way through StopReceive has to be added.     *)
Armed(p) == ticks[p] > 0 \/ timeouts[p] > 0
Blocked(p) == data_index[p] > 0 /\ rpc[p] = "read"

StuckInv(p) ==
    /\ ~BusyOn(p) /\ check_rcv_data[p] /\ Blocked(p) => Armed(p)
    /\ mport = p /\ mpc = "ready" /\ "data_index" \notin mleft /\ Blocked(p) => Armed(p)
    /\ mport = p /\ mpc = "stop" /\ "check_rcv_data" \notin mleft => ~check_rcv_data[p]

LEMMA StuckStep ==
    ASSUME TypeOK, [Next]_vars, NEW p \in Ports, StuckInv(p)
    PROVE  StuckInv(p)'
<1>. USE DEF StuckInv, Armed, Blocked, BusyOn
<1>t. /\ data_index \in [Ports -> Nat] /\ check_rcv_data \in [Ports -> BOOLEAN]
      /\ ticks \in [Ports -> Nat] /\ timeouts \in [Ports -> Nat]
      /\ rpc \in [Ports -> ReaderSteps] /\ mport \in Ports /\ mleft \subseteq Stores
      /\ ticks[p] \in Nat /\ timeouts[p] \in Nat
  BY DEF TypeOK
<1>1. CASE Reader(p) \/ ReaderReadsNothing(p) \/ ReaderFails(p)
  <2>0. UNCHANGED <<mport, mpc, mleft, check_rcv_data, timeouts>>
    BY <1>1 DEF Reader, ReaderStart, ReaderRead, ReaderHasNoPort, ReaderCancel,
       ReaderTest, ReaderLoad, ReaderStore, ReaderOverruns, ReaderIncrement,
       ReaderReadsNothing, ReaderFails, portVars, mainVars
  <2>1. CASE ReaderStart(p)
    <3>1. ticks'[p] = ticks[p] + 1
      BY <2>1, <1>t DEF ReaderStart
    <3>2. Armed(p)'
      BY <3>1, <1>t
    <3>. QED  BY <2>0, <3>2
  <2>2. CASE ReaderHasNoPort(p) \/ ReaderOverruns(p)
    BY <2>0, <2>2 DEF ReaderHasNoPort, ReaderOverruns, readerVars, portVars
  <2>3. CASE \/ ReaderRead(p) \/ ReaderCancel(p) \/ ReaderTest(p)
             \/ ReaderLoad(p, "load", "store") \/ ReaderStore(p)
             \/ ReaderLoad(p, "reload", "inc") \/ ReaderIncrement(p)
             \/ ReaderReadsNothing(p) \/ ReaderFails(p)
    <3>1. rpc'[p] # "read"
      BY <2>3, <1>t DEF ReaderRead, ReaderCancel, ReaderTest, ReaderLoad, ReaderStore,
         ReaderIncrement, ReaderReadsNothing, ReaderFails, ReaderGoes
    <3>. QED  BY <2>0, <3>1
  <2>. QED  BY <1>1, <2>1, <2>2, <2>3 DEF Reader
<1>2. ASSUME NEW q \in Ports, q # p, Reader(q) \/ ReaderReadsNothing(q) \/ ReaderFails(q)
      PROVE  StuckInv(p)'
  <2>1. UNCHANGED <<mport, mpc, mleft>>
    BY <1>2, ReaderLocal DEF mainVars
  <2>. QED  BY <1>2, <2>1, ReaderLocal
<1>3. ASSUME NEW b \in Buttons, Click(b) PROVE StuckInv(p)'
  BY <1>3 DEF Click, MainGoes, readerVars, portVars
<1>4. CASE CopyFrame
  BY <1>4 DEF CopyFrame, MainGoes, readerVars, portVars
<1>5. CASE SpawnWriter
  BY <1>5 DEF SpawnWriter, MainGoes, Stores, readerVars, portVars
<1>6. CASE ReadyToReceive
  <2>. PICK f \in Stores : /\ MainGoes("ready", IF mleft = {f} THEN "idle" ELSE "ready")
                           /\ StoreField(f, TRUE)
    BY <1>6 DEF ReadyToReceive
  <2>0. UNCHANGED <<rpc, ticks, timeouts, mport>>
    BY <1>6 DEF ReadyToReceive, readerVars
  <2>1. CASE mport # p
    BY <1>t, <2>0, <2>1 DEF StoreField, MainGoes
  <2>2. CASE mport = p /\ f = "data_index"
    <3>1. ~Blocked(p)'
      BY <1>t, <2>2 DEF StoreField
    <3>2. mpc' # "stop"
      BY DEF MainGoes
    <3>. QED  BY <3>1, <3>2
  <2>3. CASE mport = p /\ f = "check_rcv_data"
    <3>1. data_index' = data_index /\ mleft' = mleft \ {f} /\ f \in mleft
      BY <2>3 DEF StoreField
    <3>2. CASE "data_index" \in mleft
      <4>1. mleft # {f} /\ "data_index" \in mleft'
        BY <2>3, <3>1, <3>2
      <4>. QED  BY <2>0, <2>3, <4>1 DEF MainGoes
    <3>3. CASE "data_index" \notin mleft
      <4>1. Blocked(p)' => Armed(p)'
        BY <2>0, <2>3, <3>1, <3>3 DEF MainGoes
      <4>2. mpc' # "stop"
        BY DEF MainGoes
      <4>. QED  BY <4>1, <4>2
    <3>. QED  BY <3>2, <3>3
  <2>. QED  BY <2>1, <2>2, <2>3 DEF Stores
<1>7. CASE CheckReceivedData
  BY <1>7 DEF CheckReceivedData, MainGoes, Stores, readerVars, portVars
<1>8. CASE StopReceive
  <2>. PICK f \in Stores : /\ MainGoes("stop", IF mleft = {f} THEN "idle" ELSE "stop")
                           /\ StoreField(f, FALSE)
    BY <1>8 DEF StopReceive
  <2>0. UNCHANGED <<rpc, ticks, timeouts, mport>>
    BY <1>8 DEF StopReceive, readerVars
  <2>1. CASE mport # p
    BY <1>t, <2>0, <2>1 DEF StoreField, MainGoes
  <2>2. CASE mport = p /\ f = "check_rcv_data"
    <3>1. ~check_rcv_data'[p] /\ mpc' # "ready"
      BY <1>t, <2>2 DEF StoreField, MainGoes
    <3>. QED  BY <3>1
  <2>3. CASE mport = p /\ f = "data_index"
    <3>1. ~Blocked(p)' /\ mpc' # "ready"
      BY <1>t, <2>3 DEF StoreField, MainGoes
    <3>2. check_rcv_data' = check_rcv_data /\ mleft' = mleft \ {f}
      BY <2>3 DEF StoreField
    <3>. QED  BY <2>0, <2>3, <3>1, <3>2 DEF MainGoes
  <2>. QED  BY <2>1, <2>2, <2>3 DEF Stores
<1>9. ASSUME NEW q \in Ports, TimerFires(q) PROVE StuckInv(p)'
  <2>1. UNCHANGED <<mport, mpc, mleft, rpc, data_index, check_rcv_data>> /\ mpc = "idle"
    BY <1>9 DEF TimerFires, MainGoes, readerVars, portVars
  <2>2. Armed(p) => Armed(p)'
    <3>1. CASE q = p
      <4>1. timeouts'[p] = timeouts[p] + 1
        BY <1>t, <1>9, <3>1 DEF TimerFires
      <4>. QED  BY <1>t, <4>1
    <3>2. CASE q # p
      BY <1>t, <1>9, <3>2 DEF TimerFires
    <3>. QED  BY <3>1, <3>2
  <2>. QED  BY <2>1, <2>2
<1>10. ASSUME NEW q \in Ports, HandleTimeout(q) PROVE StuckInv(p)'
  <2>1. /\ UNCHANGED <<mleft, rpc, data_index, check_rcv_data>> /\ mport' = q
        /\ mpc = "idle" /\ mpc' = IF check_rcv_data[q] THEN "verify" ELSE "idle"
    BY <1>10 DEF HandleTimeout, MainGoes, readerVars, portVars
  <2>2. CASE q = p
    BY <2>1, <2>2
  <2>3. CASE q # p
    <3>1. ticks'[p] = ticks[p] /\ timeouts'[p] = timeouts[p]
      BY <1>t, <1>10, <2>3 DEF HandleTimeout
    <3>. QED  BY <2>1, <2>3, <3>1
  <2>. QED  BY <2>2, <2>3
<1>11. CASE \/ \E q \in Ports : DeviceAnswers(q) \/ DeviceRefuses(q) \/ NobodyAnswers(q)
            \/ \E w \in writers : WriterRuns(w) \/ WriterFails(w) \/ WriterHasNoPort(w)
            \/ UNCHANGED vars
  BY <1>11 DEF DeviceAnswers, DeviceRefuses, NobodyAnswers, WriterRuns, WriterFails,
     WriterHasNoPort, vars, readerVars, portVars, mainVars
<1>. QED
  BY <1>1, <1>2, <1>3, <1>4, <1>5, <1>6, <1>7, <1>8, <1>9, <1>10, <1>11
  DEF Next, Main

(* A reception that has begun never waits in read with no timeout to come.  *)
THEOREM NoReceptionStuck == Spec => []NoStuckReception
<1>. DEFINE I == Typed /\ \A p \in Ports : StuckInv(p)
<1>1. Init => I
  BY TypedInit DEF Init, StuckInv, Blocked
<1>2. I /\ [Next]_vars => I'
  BY TypedStep, StuckStep DEF Typed
<1>3. I => NoStuckReception
  BY DEF StuckInv, NoStuckReception, Blocked, Armed
<1>. QED  BY <1>1, <1>2, <1>3, PTL DEF Spec

-----------------------------------------------------------------------------
(* Verdicts and answers.  A verdict "CRC pass" for request b needs the last *)
(* two bytes of its reply at the end of the buffer and data_index just      *)
(* behind them.  The index gets there only by the increment that follows    *)
(* the store of that last byte, so one last byte is used up by one verdict, *)
(* however the unlocked resets fall and however stale the other bytes are.  *)
LastByte(b) == Reply(HeaderOf(b))[ReplyLen]
ByteBefore(b) == Reply(HeaderOf(b))[ReplyLen - 1]

Places(w, x) == {i \in 1..Len(w) : w[i] = x}
OnWire(p, b) == Cardinality(Places(wire[p], LastByte(b)))

(* The last byte has been read, and would be stored behind the one before.  *)
Coming(p, b) ==
    /\ rpc[p] \in {"start", "read", "cancel", "test", "load", "store"}
    /\ rbyte[p] = LastByte(b)
    /\ data_index[p] = ReplyLen - 1
    /\ rcv_data[p][ReplyLen - 2] = ByteBefore(b)

(* Both are in the buffer, and the index is, or will be, just behind them.  *)
(* Once the verdict is given the index counts no more until it is reset.    *)
Stored(p, b) ==
    /\ rcv_data[p][ReplyLen - 2] = ByteBefore(b)
    /\ rcv_data[p][ReplyLen - 1] = LastByte(b)
    /\ \/ rpc[p] = "reload" /\ data_index[p] = ReplyLen - 1
       \/ rpc[p] = "inc" /\ ridx[p] = ReplyLen - 1
       \/ /\ data_index[p] = ReplyLen
          /\ ~(mpc = "stop" /\ mport = p /\ "data_index" \in mleft)

(* While a byte is being stored the index is the one it is stored at, or 0. *)
StoreInv(p) ==
    /\ rpc[p] = "store" => data_index[p] \in {ridx[p], 0}
    /\ rpc[p] = "reload" /\ data_index[p] # 0 => rcv_data[p][data_index[p]] = rbyte[p]
    /\ rpc[p] = "inc" => /\ data_index[p] \in {ridx[p], 0}
                         /\ ridx[p] # 0 => rcv_data[p][ridx[p]] = rbyte[p]

Pending(p, b) == IF Coming(p, b) \/ Stored(p, b) THEN 1 ELSE 0

(* Every answer has been passed, can still be passed, is on the wire, or is *)
(* lost: no more of them than were sent.                                    *)
CountInv(p, b) == passed[p][b] + OnWire(p, b) + Pending(p, b) <= answered[p][b]

LEMMA PlacesFinite ==
    ASSUME NEW w \in Seq(Byte), NEW x
    PROVE  IsFiniteSet(Places(w, x)) /\ Cardinality(Places(w, x)) \in Nat
<1>1. IsFiniteSet(1..Len(w)) /\ Places(w, x) \in SUBSET (1..Len(w))
  BY FS_Interval DEF Places
<1>. QED  BY <1>1, FS_Subset, FS_CardinalityType

(* Reading a byte takes its place away, and no other.                       *)
LEMMA PlacesTail ==
    ASSUME NEW w \in Seq(Byte), w # <<>>, NEW x
    PROVE  Cardinality(Places(w, x)) =
               Cardinality(Places(Tail(w), x)) + (IF Head(w) = x THEN 1 ELSE 0)
<1>. DEFINE S == Places(w, x) \ {1}
            T == Places(Tail(w), x)
            f == [i \in S |-> i - 1]
<1>1. /\ Len(w) \in Nat /\ Len(w) >= 1 /\ Len(Tail(w)) = Len(w) - 1 /\ Head(w) = w[1]
      /\ \A i \in 1..Len(Tail(w)) : Tail(w)[i] = w[i + 1]
      /\ Tail(w) \in Seq(Byte)
  BY EmptySeq, LenProperties, HeadTailProperties
<1>2. IsFiniteSet(Places(w, x)) /\ Cardinality(Places(w, x)) \in Nat
  BY PlacesFinite
<1>3. /\ IsFiniteSet(S)
      /\ Cardinality(S) = IF 1 \in Places(w, x) THEN Cardinality(Places(w, x)) - 1
                                                ELSE Cardinality(Places(w, x))
  BY <1>2, FS_RemoveElement
<1>4. 1 \in Places(w, x) <=> Head(w) = x
  BY <1>1 DEF Places
<1>5. f \in Bijection(S, T)
  <2>1. \A i \in S : i - 1 \in T
    BY <1>1 DEF Places
  <2>2. \A i, j \in S : i - 1 = j - 1 => i = j
    BY <1>1 DEF Places
  <2>3. \A k \in T : k + 1 \in S /\ (k + 1) - 1 = k
    BY <1>1 DEF Places
  <2>4. \A k \in T : \E i \in S : f[i] = k
    BY <2>3
  <2>. QED  BY <2>1, <2>2, <2>4 DEF Bijection, Injection, Surjection, IsInjective
<1>6. Cardinality(T) = Cardinality(S)
  BY <1>3, <1>5, FS_Bijection DEF ExistsBijection
<1>. QED  BY <1>2, <1>3, <1>4, <1>6

(* A reply with x at most at its end brings at most one more x.             *)
LEMMA PlacesConcat ==
    ASSUME NEW w \in Seq(Byte), NEW r \in Seq(Byte), Len(r) >= 1, NEW x,
           \A i \in 1..(Len(r) - 1) : r[i] # x
    PROVE  Cardinality(Places(w \o r, x)) =
               Cardinality(Places(w, x)) + (IF r[Len(r)] = x THEN 1 ELSE 0)
<1>. DEFINE n == Len(w) + Len(r)
<1>1. /\ Len(w) \in Nat /\ Len(r) \in Nat /\ Len(w \o r) = n
      /\ \A i \in 1..n : (w \o r)[i] = IF i <= Len(w) THEN w[i] ELSE r[i - Len(w)]
  BY ConcatProperties, LenProperties
<1>2. \A i \in 1..n : i > Len(w) =>
          i - Len(w) \in 1..Len(r) /\ (i # n => i - Len(w) \in 1..(Len(r) - 1))
  <2>. DEFINE a == Len(w)
              b == Len(r)
  <2>1. a \in Nat /\ b \in Nat
    BY <1>1
  <2>. HIDE DEF a, b
  <2>2. \A i \in 1..(a + b) :
           i > a => i - a \in 1..b /\ (i # a + b => i - a \in 1..(b - 1))
    BY <2>1
  <2>. QED  BY <2>2 DEF a, b
<1>3. n \in 1..n /\ n > Len(w) /\ n - Len(w) = Len(r)
  BY <1>1
<1>4. CASE r[Len(r)] = x
  <2>1. Places(w \o r, x) = Places(w, x) \cup {n}
    BY <1>1, <1>2, <1>3, <1>4 DEF Places
  <2>2. n \notin Places(w, x)
    BY <1>1, <1>3 DEF Places
  <2>. QED  BY <1>4, <2>1, <2>2, PlacesFinite, FS_AddElement
<1>5. CASE r[Len(r)] # x
  <2>1. Places(w \o r, x) = Places(w, x)
    BY <1>1, <1>2, <1>3, <1>5 DEF Places
  <2>. QED  BY <1>5, <2>1, PlacesFinite
<1>. QED  BY <1>4, <1>5

(* The bytes of a reply lie in order, and the last names id and function.   *)
LEMMA ReplyBytes ==
    ASSUME NEW h \in Header
    PROVE  /\ Reply(h) \in Seq(Byte) /\ Len(Reply(h)) = ReplyLen
           /\ \A i \in 1..ReplyLen : Reply(h)[i].pos = i
           /\ Reply(h)[ReplyLen] = [id |-> h.id, func |-> h.func, pos |-> ReplyLen]
<1>1. Reply(h) \in Seq(Byte) /\ Len(Reply(h)) = ReplyLen
  BY ReplyIsBytes, ReplyAssumption, LenProperties DEF Reply
<1>. QED  BY <1>1, ReplyAssumption DEF Reply

(* A device that answers request c puts one more last byte of c on the      *)
(* wire, and none of another request; one that refuses puts none.           *)
LEMMA LastBytesOnWire ==
    ASSUME NEW w \in Seq(Byte), NEW b \in Framed, NEW c \in Framed
    PROVE  /\ Cardinality(Places(w \o Reply(HeaderOf(c)), LastByte(b))) =
                  Cardinality(Places(w, LastByte(b))) + (IF b = c THEN 1 ELSE 0)
           /\ Cardinality(Places(w \o Reply(Refusal(HeaderOf(c))), LastByte(b))) =
                  Cardinality(Places(w, LastByte(b)))
<1>1. ASSUME NEW h \in Header
      PROVE  Cardinality(Places(w \o Reply(h), LastByte(b))) =
                 Cardinality(Places(w, LastByte(b)))
                     + (IF h.id = HeaderOf(b).id /\ h.func = HeaderOf(b).func
                        THEN 1 ELSE 0)
  <2>1. LastByte(b) = [id |-> HeaderOf(b).id, func |-> HeaderOf(b).func, pos |-> ReplyLen]
    BY ReplyBytes, HeadersOfFrames DEF LastByte
  <2>2. /\ Reply(h) \in Seq(Byte) /\ Len(Reply(h)) = ReplyLen
        /\ \A i \in 1..ReplyLen : Reply(h)[i].pos = i
        /\ Reply(h)[ReplyLen] = [id |-> h.id, func |-> h.func, pos |-> ReplyLen]
    BY ReplyBytes
  <2>3. LastByte(b).pos = ReplyLen /\ ReplyLen \in Nat /\ ReplyLen >= 3
    BY <2>1, ReplyAssumption
  <2>4. \A i \in 1..(Len(Reply(h)) - 1) : Reply(h)[i] # LastByte(b)
    BY <2>2, <2>3
  <2>5. Reply(h)[ReplyLen] = LastByte(b) <=>
            h.id = HeaderOf(b).id /\ h.func = HeaderOf(b).func
    <3>. DEFINE k == HeaderOf(b)
    <3>. HIDE DEF k
    <3>1. [id |-> h.id, func |-> h.func, pos |-> ReplyLen]
              = [id |-> k.id, func |-> k.func, pos |-> ReplyLen]
            <=> h.id = k.id /\ h.func = k.func
      OBVIOUS
    <3>. QED  BY <2>1, <2>2, <3>1 DEF k
  <2>6. Cardinality(Places(w \o Reply(h), LastByte(b))) =
            Cardinality(Places(w, LastByte(b)))
                + (IF Reply(h)[Len(Reply(h))] = LastByte(b) THEN 1 ELSE 0)
    BY <2>2, <2>3, <2>4, PlacesConcat
  <2>. QED  BY <2>2, <2>5, <2>6
<1>2. /\ HeaderOf(c).id = HeaderOf(b).id /\ HeaderOf(c).func = HeaderOf(b).func <=> b = c
      /\ Refusal(HeaderOf(c)).func # HeaderOf(b).func
  BY DEF Framed, HeaderOf, Refusal
<1>. QED  BY <1>1, <1>2, PlacesFinite, HeadersOfFrames

LEMMA LastIsNotBefore ==
    ASSUME NEW b \in Framed
    PROVE  LastByte(b) # ByteBefore(b)
<1>1. \A i \in 1..ReplyLen : Reply(HeaderOf(b))[i].pos = i
  BY ReplyBytes, HeadersOfFrames
<1>2. LastByte(b).pos = ReplyLen /\ ByteBefore(b).pos = ReplyLen - 1
  BY <1>1, ReplyAssumption DEF LastByte, ByteBefore
<1>. QED  BY <1>2, ReplyAssumption

(* What the reader of one port leaves alone on every other one.             *)
LEMMA OtherReader ==
    ASSUME TypeOK, NEW p \in Ports, NEW q \in Ports, p # q,
           Reader(q) \/ ReaderReadsNothing(q) \/ ReaderFails(q)
    PROVE  /\ rpc'[p] = rpc[p] /\ ridx'[p] = ridx[p] /\ rbyte'[p] = rbyte[p]
           /\ data_index'[p] = data_index[p] /\ rcv_data'[p] = rcv_data[p]
           /\ wire'[p] = wire[p] /\ UNCHANGED <<mainVars, history>>
BY DEF Reader, ReaderStart, ReaderRead, ReaderHasNoPort, ReaderCancel, ReaderTest,
       ReaderLoad, ReaderStore, ReaderOverruns, ReaderIncrement, ReaderReadsNothing,
       ReaderFails, ReaderGoes, TypeOK, readerVars, portVars

(* Everybody but the readers leaves the buffers and the readers alone, and  *)
(* an index as it is or 0.                                                  *)
LEMMA NotAReader ==
    ASSUME TypeOK, NEW p \in Ports, [Next]_vars,
           \A q \in Ports : ~(Reader(q) \/ ReaderReadsNothing(q) \/ ReaderFails(q))
    PROVE  /\ UNCHANGED <<rpc, ridx, rbyte, rcv_data>>
           /\ data_index'[p] \in {data_index[p], 0}
<1>1. CASE ReadyToReceive \/ StopReceive
  <2>1. PICK f \in Stores : StoreField(f, TRUE) \/ StoreField(f, FALSE)
    BY <1>1 DEF ReadyToReceive, StopReceive
  <2>2. data_index'[p] \in {data_index[p], 0}
    BY <2>1 DEF StoreField, TypeOK
  <2>. QED  BY <1>1, <2>2 DEF ReadyToReceive, StopReceive, readerVars
<1>2. CASE \/ \E b \in Buttons : Click(b)
           \/ CopyFrame \/ SpawnWriter \/ CheckReceivedData
           \/ \E q \in Ports : \/ HandleTimeout(q) \/ TimerFires(q)
                               \/ DeviceAnswers(q) \/ DeviceRefuses(q)
                               \/ NobodyAnswers(q)
           \/ \E w \in writers : WriterRuns(w) \/ WriterFails(w) \/ WriterHasNoPort(w)
           \/ UNCHANGED vars
  BY <1>2 DEF Click, CopyFrame, SpawnWriter, CheckReceivedData, HandleTimeout,
     TimerFires, DeviceAnswers, DeviceRefuses, NobodyAnswers, WriterRuns, WriterFails,
     WriterHasNoPort, vars, readerVars, portVars
<1>. QED  BY <1>1, <1>2 DEF Next, Main

LEMMA StoreStep ==
    ASSUME TypeOK, [Next]_vars, NEW p \in Ports, IndexInv(p), StoreInv(p)
    PROVE  StoreInv(p)'
<1>. USE DEF StoreInv
<1>t. /\ data_index \in [Ports -> Nat] /\ ridx \in [Ports -> Nat]
      /\ rbyte \in [Ports -> Byte] /\ rpc \in [Ports -> ReaderSteps]
      /\ rcv_data \in [Ports -> [0..(BufferSize - 1) -> Byte]]
      /\ BufferSize \in Nat
  BY BufferAssumption DEF TypeOK
<1>1. CASE Reader(p) \/ ReaderReadsNothing(p) \/ ReaderFails(p)
  <2>1. CASE ReaderLoad(p, "load", "store")
    BY <2>1, <1>t DEF ReaderLoad, ReaderGoes, portVars
  <2>2. CASE ReaderStore(p)
    <3>1. /\ rpc'[p] = "reload" /\ data_index' = data_index /\ rbyte' = rbyte
          /\ ridx[p] < BufferSize /\ data_index[p] \in {ridx[p], 0}
          /\ rcv_data' = [rcv_data EXCEPT ![p][ridx[p]] = rbyte[p]]
      BY <2>2, <1>t DEF ReaderStore, ReaderGoes, HasRoom
    <3>2. rcv_data'[p][ridx[p]] = rbyte[p]
      BY <1>t, <3>1
    <3>. QED  BY <3>1, <3>2
  <2>3. CASE ReaderLoad(p, "reload", "inc")
    BY <2>3, <1>t DEF ReaderLoad, ReaderGoes, portVars
  <2>4. CASE \/ ReaderIncrement(p) \/ ReaderStart(p) \/ ReaderRead(p) \/ ReaderCancel(p)
             \/ ReaderTest(p) \/ ReaderReadsNothing(p) \/ ReaderFails(p)
    <3>1. rpc'[p] \in {"start", "read", "cancel", "test", "load"}
      BY <2>4, <1>t DEF ReaderIncrement, ReaderStart, ReaderRead, ReaderCancel, ReaderTest,
         ReaderReadsNothing, ReaderFails, ReaderGoes
    <3>. QED  BY <3>1
  <2>5. CASE ReaderHasNoPort(p) \/ ReaderOverruns(p)
    BY <2>5 DEF ReaderHasNoPort, ReaderOverruns, readerVars, portVars
  <2>. QED  BY <1>1, <2>1, <2>2, <2>3, <2>4, <2>5 DEF Reader
<1>2. ASSUME NEW q \in Ports, q # p, Reader(q) \/ ReaderReadsNothing(q) \/ ReaderFails(q)
      PROVE  StoreInv(p)'
  BY <1>2, OtherReader
<1>3. CASE \A q \in Ports : ~(Reader(q) \/ ReaderReadsNothing(q) \/ ReaderFails(q))
  BY <1>3, NotAReader
<1>. QED  BY <1>1, <1>2, <1>3

LEMMA CountTypes ==
    ASSUME TypeOK, NEW p \in Ports, NEW b \in Framed
    PROVE  /\ passed[p][b] \in Nat /\ answered[p][b] \in Nat /\ OnWire(p, b) \in Nat
           /\ rcv_data[p] \in [0..(BufferSize - 1) -> Byte]
           /\ data_index[p] \in Nat /\ ridx[p] \in Nat
           /\ BufferSize \in Nat /\ ReplyLen \in Nat /\ ReplyLen >= 3
           /\ ReplyLen <= BufferSize
BY PlacesFinite, BufferAssumption, ReplyAssumption DEF TypeOK, OnWire

(* A step that neither answers nor passes keeps the count if it leaves no   *)
(* reply to pass that was not there before.                                 *)
LEMMA CountKept ==
    ASSUME TypeOK, NEW p \in Ports, NEW b \in Framed, CountInv(p, b),
           passed'[p][b] = passed[p][b], answered'[p][b] = answered[p][b],
           wire'[p] = wire[p],
           Coming(p, b)' \/ Stored(p, b)' => Coming(p, b) \/ Stored(p, b)
    PROVE  CountInv(p, b)'
<1>1. OnWire(p, b)' = OnWire(p, b)
  BY DEF OnWire
<1>2. /\ Pending(p, b) \in {0, 1} /\ Pending(p, b)' \in {0, 1}
      /\ Pending(p, b)' <= Pending(p, b)
  BY DEF Pending
<1>. HIDE DEF Pending
<1>. QED  BY <1>1, <1>2, CountTypes DEF CountInv

LEMMA CountRead ==
    ASSUME TypeOK, NEW p \in Ports, NEW b \in Framed, CountInv(p, b), ReaderRead(p)
    PROVE  CountInv(p, b)'
<1>1. /\ wire[p] \in Seq(Byte) /\ wire[p] # <<>> /\ wire'[p] = Tail(wire[p])
      /\ rbyte'[p] = Head(wire[p]) /\ rpc[p] = "read" /\ rpc'[p] = "cancel"
      /\ UNCHANGED <<portVars, history, mainVars>>
  BY DEF ReaderRead, ReaderGoes, TypeOK
<1>2. OnWire(p, b) = OnWire(p, b)' + (IF Head(wire[p]) = LastByte(b) THEN 1 ELSE 0)
  <2>1. Cardinality(Places(wire'[p], LastByte(b)))
            = Cardinality(Places(Tail(wire[p]), LastByte(b)))
    BY <1>1
  <2>. QED  BY <1>1, <2>1, PlacesTail DEF OnWire
<1>3. OnWire(p, b)' \in Nat
  <2>1. wire'[p] \in Seq(Byte)
    BY <1>1, HeadTailProperties
  <2>. QED  BY <2>1, PlacesFinite DEF OnWire
<1>4. Pending(p, b) \in {0, 1} /\ Pending(p, b)' \in {0, 1}
  BY DEF Pending
<1>t. /\ passed[p][b] \in Nat /\ answered[p][b] \in Nat
      /\ passed'[p][b] = passed[p][b] /\ answered'[p][b] = answered[p][b]
  BY <1>1, CountTypes DEF history
<1>5. CASE Head(wire[p]) = LastByte(b)
  <2>1. OnWire(p, b) = OnWire(p, b)' + 1
    BY <1>2, <1>5
  <2>. QED  BY <1>t, <1>3, <1>4, <2>1 DEF CountInv
<1>6. CASE Head(wire[p]) # LastByte(b)
  <2>1. ~Coming(p, b)'
    BY <1>1, <1>6 DEF Coming, LastByte, Reply, HeaderOf
  <2>2. Stored(p, b)' => Stored(p, b)
    BY <1>1 DEF Stored, portVars, mainVars, LastByte, ByteBefore
  <2>3. Pending(p, b)' <= Pending(p, b)
    BY <2>1, <2>2 DEF Pending
  <2>4. OnWire(p, b) = OnWire(p, b)'
    BY <1>2, <1>3, <1>6
  <2>. QED  BY <1>t, <1>3, <1>4, <2>3, <2>4 DEF CountInv
<1>. QED  BY <1>5, <1>6

LEMMA CountReader ==
    ASSUME TypeOK, NEW p \in Ports, NEW b \in Framed, StoreInv(p), CountInv(p, b),
           Reader(p) \/ ReaderReadsNothing(p) \/ ReaderFails(p)
    PROVE  CountInv(p, b)'
<1>. DEFINE Kept == Coming(p, b)' \/ Stored(p, b)' => Coming(p, b) \/ Stored(p, b)
            L == ReplyLen
            k == ridx[p]
<1>t. /\ data_index \in [Ports -> Nat] /\ ridx \in [Ports -> Nat]
      /\ rbyte \in [Ports -> Byte] /\ rpc \in [Ports -> ReaderSteps]
      /\ rcv_data \in [Ports -> [0..(BufferSize - 1) -> Byte]]
      /\ rcv_data[p] \in [0..(BufferSize - 1) -> Byte]
      /\ data_index[p] \in Nat /\ k \in Nat
      /\ BufferSize \in Nat /\ L \in Nat /\ L >= 3 /\ L <= BufferSize
  BY CountTypes DEF TypeOK
<1>1. CASE ReaderRead(p)
  BY <1>1, CountRead
<1>2. CASE \/ ReaderStart(p) \/ ReaderCancel(p) \/ ReaderTest(p)
           \/ ReaderLoad(p, "load", "store") \/ ReaderReadsNothing(p) \/ ReaderFails(p)
  <2>1. /\ rpc[p] \in {"start", "read", "cancel", "test", "load"}
        /\ rpc'[p] \in {"start", "read", "cancel", "test", "load", "store"}
        /\ UNCHANGED <<rbyte, wire, portVars, mainVars, history>>
    BY <1>2, <1>t DEF ReaderStart, ReaderCancel, ReaderTest, ReaderLoad, ReaderReadsNothing,
       ReaderFails, ReaderGoes
  <2>2. Kept
    BY <2>1 DEF Coming, Stored, portVars, mainVars, LastByte, ByteBefore
  <2>. QED  BY <2>1, <2>2, CountKept DEF history
<1>3. CASE ReaderHasNoPort(p) \/ ReaderOverruns(p)
  <2>1. UNCHANGED <<wire, readerVars, portVars, mainVars, history>>
    BY <1>3 DEF ReaderHasNoPort, ReaderOverruns
  <2>2. Kept
    BY <2>1 DEF Coming, Stored, readerVars, portVars, mainVars, LastByte, ByteBefore
  <2>. QED  BY <2>1, <2>2, CountKept DEF history
<1>4. CASE ReaderStore(p)
  <2>1. /\ rpc[p] = "store" /\ rpc'[p] = "reload" /\ k < BufferSize
        /\ rcv_data'[p] = [rcv_data[p] EXCEPT ![k] = rbyte[p]]
        /\ data_index[p] \in {k, 0}
        /\ UNCHANGED <<wire, rbyte, data_index, mainVars, history>>
    BY <1>4, <1>t DEF ReaderStore, ReaderGoes, HasRoom, StoreInv
  <2>2. ~Coming(p, b)'
    BY <2>1 DEF Coming
  <2>3. Stored(p, b)' => Coming(p, b) \/ Stored(p, b)
    <3>. SUFFICES ASSUME Stored(p, b)' PROVE Coming(p, b) \/ Stored(p, b)
      OBVIOUS
    <3>1. /\ rcv_data'[p][L - 2] = ByteBefore(b) /\ rcv_data'[p][L - 1] = LastByte(b)
          /\ data_index[p] \in {L - 1, L}
          /\ data_index[p] = L => ~(mpc = "stop" /\ mport = p /\ "data_index" \in mleft)
      BY <2>1, <1>t DEF Stored, mainVars, LastByte, ByteBefore
    <3>2. data_index[p] = k
      BY <2>1, <3>1, <1>t
    <3>3. CASE k = L - 1
      <4>1. rcv_data[p][L - 2] = ByteBefore(b) /\ rbyte[p] = LastByte(b)
        BY <2>1, <3>1, <3>3, <1>t
      <4>. QED  BY <2>1, <3>2, <3>3, <4>1 DEF Coming
    <3>4. CASE k = L
      <4>1. rcv_data[p][L - 2] = ByteBefore(b) /\ rcv_data[p][L - 1] = LastByte(b)
        BY <2>1, <3>1, <3>4, <1>t
      <4>. QED  BY <3>1, <3>2, <3>4, <4>1 DEF Stored
    <3>. QED  BY <3>1, <3>2, <3>3, <3>4
  <2>. QED  BY <2>1, <2>2, <2>3, CountKept DEF history
<1>5. CASE ReaderLoad(p, "reload", "inc")
  <2>1. /\ rpc[p] = "reload" /\ rpc'[p] = "inc" /\ ridx'[p] = data_index[p]
        /\ UNCHANGED <<wire, rbyte, portVars, mainVars, history>>
    BY <1>5, <1>t DEF ReaderLoad, ReaderGoes
  <2>2. Kept
    BY <2>1 DEF Coming, Stored, portVars, mainVars, LastByte, ByteBefore
  <2>. QED  BY <2>1, <2>2, CountKept DEF history
<1>6. CASE ReaderIncrement(p)
  <2>1. /\ rpc[p] = "inc" /\ rpc'[p] = "start" /\ data_index'[p] = k + 1
        /\ k # 0 => rcv_data[p][k] = rbyte[p]
        /\ UNCHANGED <<wire, rbyte, rcv_data, mainVars, history>>
    BY <1>6, <1>t DEF ReaderIncrement, ReaderGoes, StoreInv
  <2>2. ~Coming(p, b)'
    <3>. SUFFICES ASSUME Coming(p, b)' PROVE FALSE
      OBVIOUS
    <3>1. k + 1 = L - 1 /\ rcv_data[p][L - 2] = ByteBefore(b) /\ rbyte[p] = LastByte(b)
      BY <2>1 DEF Coming, LastByte, ByteBefore
    <3>2. k = L - 2 /\ k # 0
      BY <3>1, <1>t
    <3>. QED  BY <2>1, <3>1, <3>2, LastIsNotBefore
  <2>3. Stored(p, b)' => Stored(p, b)
    <3>. SUFFICES ASSUME Stored(p, b)' PROVE Stored(p, b)
      OBVIOUS
    <3>1. /\ rcv_data[p][L - 2] = ByteBefore(b) /\ rcv_data[p][L - 1] = LastByte(b)
          /\ k + 1 = L
      BY <2>1 DEF Stored, LastByte, ByteBefore
    <3>2. k = L - 1
      BY <3>1, <1>t
    <3>. QED  BY <2>1, <3>1, <3>2 DEF Stored
  <2>. QED  BY <2>1, <2>2, <2>3, CountKept DEF history
<1>. QED  BY <1>1, <1>2, <1>3, <1>4, <1>5, <1>6 DEF Reader

(* What passes the CRC as the answer to b is the reply to b, at the index.  *)
LEMMA PassIsPending ==
    ASSUME TypeOK, NEW b \in Framed, mpc = "verify",
           CRCPass(mport), HeaderOf(b) = current[mport]
    PROVE  Stored(mport, b) /\ data_index[mport] = ReplyLen
<1>1. /\ data_index[mport] = ReplyLen
      /\ \A i \in 1..ReplyLen : rcv_data[mport][i - 1] = Reply(HeaderOf(b))[i]
  BY DEF CRCPass
<1>2. /\ rcv_data[mport][(ReplyLen - 1) - 1] = ByteBefore(b)
      /\ rcv_data[mport][ReplyLen - 1] = LastByte(b)
  BY <1>1, ReplyAssumption DEF LastByte, ByteBefore
<1>3. (ReplyLen - 1) - 1 = ReplyLen - 2
  BY ReplyAssumption
<1>. QED  BY <1>1, <1>2, <1>3 DEF Stored

LEMMA CountVerdict ==
    ASSUME TypeOK, NEW p \in Ports, NEW b \in Framed, StoreInv(p), CountInv(p, b),
           CheckReceivedData
    PROVE  CountInv(p, b)'
<1>t. /\ passed[p][b] \in Nat /\ answered[p][b] \in Nat /\ OnWire(p, b) \in Nat
      /\ data_index[p] \in Nat /\ ridx[p] \in Nat /\ ReplyLen \in Nat /\ ReplyLen >= 3
      /\ passed \in [Ports -> [Framed -> Nat]] /\ mport \in Ports
  BY CountTypes DEF TypeOK
<1>1. /\ mpc = "verify" /\ mpc' = "stop" /\ "data_index" \in mleft'
      /\ UNCHANGED <<rpc, rbyte, ridx, data_index, rcv_data, wire, answered, mport>>
  BY DEF CheckReceivedData, MainGoes, Stores, readerVars, portVars
<1>2. (Coming(p, b)' => Coming(p, b)) /\ (Stored(p, b)' => Stored(p, b))
  BY <1>1 DEF Coming, Stored, LastByte, ByteBefore
<1>3. CASE p = mport /\ CRCPass(mport) /\ HeaderOf(b) = current[mport]
  <2>1. passed'[p][b] = passed[p][b] + 1
    BY <1>t, <1>3 DEF CheckReceivedData
  <2>2. Stored(p, b) /\ data_index[p] = ReplyLen
    BY <1>1, <1>3, PassIsPending
  <2>3. ~Coming(p, b)' /\ ~Stored(p, b)'
    BY <1>t, <1>1, <1>3, <2>2 DEF Coming, Stored, StoreInv
  <2>4. Pending(p, b) = 1 /\ Pending(p, b)' = 0
    BY <2>2, <2>3 DEF Pending
  <2>5. OnWire(p, b)' = OnWire(p, b) /\ answered'[p][b] = answered[p][b]
    BY <1>1 DEF OnWire
  <2>. QED  BY <1>t, <2>1, <2>4, <2>5 DEF CountInv
<1>4. CASE ~(p = mport /\ CRCPass(mport) /\ HeaderOf(b) = current[mport])
  <2>1. passed'[p][b] = passed[p][b]
    BY <1>t, <1>4 DEF CheckReceivedData
  <2>. QED  BY <1>1, <1>2, <2>1, CountKept
<1>. QED  BY <1>3, <1>4

LEMMA CountAnswer ==
    ASSUME TypeOK, NEW p \in Ports, NEW b \in Framed, CountInv(p, b),
           NEW q \in Ports, DeviceAnswers(q) \/ DeviceRefuses(q)
    PROVE  CountInv(p, b)'
<1>. DEFINE c == Head(line[q])
<1>t. /\ passed[p][b] \in Nat /\ answered[p][b] \in Nat /\ OnWire(p, b) \in Nat
      /\ Pending(p, b) \in {0, 1}
  BY CountTypes DEF Pending
<1>1. /\ c \in Framed /\ UNCHANGED <<readerVars, portVars, mainVars, passed>>
      /\ wire \in [Ports -> Seq(Byte)] /\ answered \in [Ports -> [Framed -> Nat]]
  BY DEF DeviceAnswers, DeviceRefuses, history, TypeOK
<1>2. Pending(p, b)' = Pending(p, b)
  BY <1>1 DEF Pending, Coming, Stored, readerVars, portVars, mainVars, LastByte, ByteBefore
<1>. HIDE DEF c
<1>3. CASE q # p
  <2>1. wire'[p] = wire[p] /\ answered'[p] = answered[p]
    BY <1>1, <1>3 DEF DeviceAnswers, DeviceRefuses, history
  <2>. QED  BY <1>1, <1>2, <2>1, <1>t DEF CountInv, OnWire
<1>4. CASE q = p /\ DeviceAnswers(p)
  <2>1. /\ wire'[p] = wire[p] \o Reply(HeaderOf(c))
        /\ answered' = [answered EXCEPT ![p][c] = @ + 1]
    BY <1>1, <1>4 DEF DeviceAnswers, c
  <2>2. answered'[p][b] = answered[p][b] + (IF b = c THEN 1 ELSE 0)
    BY <1>1, <2>1
  <2>3. OnWire(p, b)' = OnWire(p, b) + (IF b = c THEN 1 ELSE 0)
    <3>1. OnWire(p, b)' = Cardinality(Places(wire[p] \o Reply(HeaderOf(c)), LastByte(b)))
      BY <2>1 DEF OnWire
    <3>. QED  BY <1>1, <3>1, LastBytesOnWire DEF OnWire
  <2>4. passed'[p][b] = passed[p][b]
    BY <1>1
  <2>. QED  BY <1>t, <1>2, <2>2, <2>3, <2>4 DEF CountInv
<1>5. CASE q = p /\ DeviceRefuses(p)
  <2>1. wire'[p] = wire[p] \o Reply(Refusal(HeaderOf(c))) /\ answered' = answered
    BY <1>1, <1>5 DEF DeviceRefuses, history, c
  <2>3. OnWire(p, b)' = OnWire(p, b)
    <3>1. OnWire(p, b)' =
              Cardinality(Places(wire[p] \o Reply(Refusal(HeaderOf(c))), LastByte(b)))
      BY <2>1 DEF OnWire
    <3>. QED  BY <1>1, <3>1, LastBytesOnWire DEF OnWire
  <2>4. passed'[p][b] = passed[p][b]
    BY <1>1
  <2>. QED  BY <1>t, <1>2, <2>1, <2>3, <2>4 DEF CountInv
<1>. QED  BY <1>3, <1>4, <1>5

(* No other step of the main thread, the timers or the writers makes a      *)
(* reply pass again: leaving StopReceive goes through the reset.            *)
LEMMA CountMain ==
    ASSUME TypeOK, NEW p \in Ports, NEW b \in Framed, CountInv(p, b), [Next]_vars,
           \A q \in Ports : ~(Reader(q) \/ ReaderReadsNothing(q) \/ ReaderFails(q)),
           \A q \in Ports : ~(DeviceAnswers(q) \/ DeviceRefuses(q)),
           ~CheckReceivedData
    PROVE  CountInv(p, b)'
<1>. DEFINE Reported == mpc = "stop" /\ mport = p /\ "data_index" \in mleft
<1>1. /\ UNCHANGED <<rpc, ridx, rbyte, rcv_data>>
      /\ data_index'[p] \in {data_index[p], 0}
  BY NotAReader
<1>2. /\ UNCHANGED <<wire, passed, answered>>
      /\ Reported => Reported' \/ data_index'[p] = 0
  <2>1. CASE ReadyToReceive
    BY <2>1 DEF ReadyToReceive, MainGoes, history
  <2>2. CASE StopReceive
    <3>. PICK f \in Stores : StoreField(f, FALSE)
                             /\ MainGoes("stop", IF mleft = {f} THEN "idle" ELSE "stop")
      BY <2>2 DEF StopReceive
    <3>1. UNCHANGED <<wire, passed, answered, mport>>
      BY <2>2 DEF StopReceive, history
    <3>2. CASE f = "data_index"
      <4>1. Reported => data_index'[p] = 0
        BY <3>2 DEF StoreField, TypeOK
      <4>. QED  BY <3>1, <4>1
    <3>3. CASE f # "data_index"
      <4>1. Reported => Reported'
        BY <3>1, <3>3 DEF StoreField, MainGoes
      <4>. QED  BY <3>1, <4>1
    <3>. QED  BY <3>2, <3>3
  <2>3. CASE \/ \E c \in Buttons : Click(c)
             \/ CopyFrame \/ SpawnWriter
             \/ \E q \in Ports : HandleTimeout(q) \/ TimerFires(q)
    BY <2>3 DEF Click, CopyFrame, SpawnWriter, HandleTimeout, TimerFires, MainGoes, history
  <2>4. CASE \/ \E q \in Ports : NobodyAnswers(q)
             \/ \E w \in writers : WriterRuns(w) \/ WriterFails(w) \/ WriterHasNoPort(w)
             \/ UNCHANGED vars
    BY <2>4 DEF NobodyAnswers, WriterRuns, WriterFails, WriterHasNoPort, vars, mainVars,
       history
  <2>. QED  BY <2>1, <2>2, <2>3, <2>4 DEF Next, Main
<1>3. ReplyLen - 1 # 0 /\ ReplyLen # 0
  BY ReplyAssumption
<1>4. Coming(p, b)' => Coming(p, b)
  BY <1>1, <1>3 DEF Coming, LastByte, ByteBefore
<1>5. Stored(p, b)' => Stored(p, b)
  BY <1>1, <1>2, <1>3 DEF Stored, LastByte, ByteBefore
<1>. QED  BY <1>2, <1>4, <1>5, CountKept

LEMMA CountStep ==
    ASSUME TypeOK, [Next]_vars, NEW p \in Ports, NEW b \in Framed,
           StoreInv(p), CountInv(p, b)
    PROVE  CountInv(p, b)'
<1>1. CASE Reader(p) \/ ReaderReadsNothing(p) \/ ReaderFails(p)
  BY <1>1, CountReader
<1>2. ASSUME NEW q \in Ports, q # p, Reader(q) \/ ReaderReadsNothing(q) \/ ReaderFails(q)
      PROVE  CountInv(p, b)'
  <2>1. /\ rpc'[p] = rpc[p] /\ ridx'[p] = ridx[p] /\ rbyte'[p] = rbyte[p]
        /\ data_index'[p] = data_index[p] /\ rcv_data'[p] = rcv_data[p]
        /\ wire'[p] = wire[p] /\ UNCHANGED <<mainVars, history>>
    BY <1>2, OtherReader
  <2>2. (Coming(p, b)' => Coming(p, b)) /\ (Stored(p, b)' => Stored(p, b))
    BY <2>1 DEF Coming, Stored, mainVars, LastByte, ByteBefore
  <2>. QED  BY <2>1, <2>2, CountKept DEF history
<1>. QED  BY <1>1, <1>2, CountVerdict, CountAnswer, CountMain

Counted == \A p \in Ports : /\ IndexInv(p) /\ StoreInv(p)
                            /\ \A b \in Framed : CountInv(p, b)

LEMMA CountedAlways == Spec => [](Typed /\ Counted)
<1>1. Init => Typed /\ Counted
  <2>. SUFFICES ASSUME Init, NEW p \in Ports, NEW b \in Framed
                PROVE  IndexInv(p) /\ StoreInv(p) /\ CountInv(p, b)
    BY TypedInit DEF Counted, Framed
  <2>1. /\ data_index[p] = 0 /\ wire[p] = <<>> /\ rpc[p] = "start"
        /\ passed[p][b] = 0 /\ answered[p][b] = 0
    BY DEF Init
  <2>2. Places(wire[p], LastByte(b)) = {}
    BY <2>1 DEF Places
  <2>3. OnWire(p, b) = 0
    BY <2>2, FS_EmptySet DEF OnWire
  <2>4. Pending(p, b) = 0
    BY <2>1, ReplyAssumption DEF Pending, Coming, Stored
  <2>. QED
    BY <2>1, <2>3, <2>4, BufferAssumption DEF IndexInv, StoreInv, CountInv
<1>2. Typed /\ Counted /\ [Next]_vars => (Typed /\ Counted)'
  BY TypedStep, IndexStep, StoreStep, CountStep DEF Typed, Counted
<1>. QED  BY <1>1, <1>2, PTL DEF Spec

(* No answer of a device is reported twice, though the buffer is never      *)
(* cleared and the index is reset under the reader's feet.                  *)
THEOREM NoDoubleReport == Spec => []NoAnswerReportedTwice
<1>1. Typed /\ Counted => NoAnswerReportedTwice
  <2>. SUFFICES ASSUME Typed, Counted, NEW p \in Ports, NEW b \in Framed
                PROVE  passed[p][b] <= answered[p][b]
    BY DEF NoAnswerReportedTwice
  <2>1. Pending(p, b) \in {0, 1}
    BY DEF Pending
  <2>. QED  BY <2>1, CountTypes DEF Typed, Counted, CountInv
<1>. QED  BY <1>1, CountedAlways, PTL

-----------------------------------------------------------------------------
(* The refinement of Rs485Session.  A verdict closes a wait: when one is    *)
(* given, a reception was on; and StopReceive has cleared the flag by the   *)
(* time the main thread leaves it, whichever of its stores comes first.     *)
Waiting == [p \in Ports |-> check_rcv_data[p] /\ ~(mpc = "stop" /\ mport = p)]

WaitInv ==
    /\ mpc = "verify" => check_rcv_data[mport]
    /\ mpc = "stop" /\ "check_rcv_data" \notin mleft => ~check_rcv_data[mport]

(* Only the main thread writes the flag or moves on, and only at a verdict  *)
(* or in ReadyToReceive does what the user waits for change.                *)
LEMMA OthersKeepWaiting ==
    ASSUME TypeOK, [Next]_vars, ~ReadyToReceive, ~StopReceive, ~CheckReceivedData,
           \A p \in Ports : ~HandleTimeout(p), \A b \in Buttons : ~Click(b)
    PROVE  /\ UNCHANGED <<check_rcv_data, mport, passed>>
           /\ mpc' \in {mpc, "spawn", "ready"}
           /\ mpc \in {"stop", "verify"} => UNCHANGED <<mpc, mleft>>
<1>1. CASE CopyFrame \/ SpawnWriter
  BY <1>1 DEF CopyFrame, SpawnWriter, MainGoes, portVars, history
<1>2. CASE \E p \in Ports : Reader(p) \/ ReaderReadsNothing(p) \/ ReaderFails(p)
  BY <1>2 DEF Reader, ReaderStart, ReaderRead, ReaderHasNoPort, ReaderCancel, ReaderTest,
     ReaderLoad, ReaderStore, ReaderOverruns, ReaderIncrement, ReaderReadsNothing,
     ReaderFails, portVars, mainVars, history
<1>3. CASE \E p \in Ports : TimerFires(p)
  BY <1>3 DEF TimerFires, MainGoes, portVars, history
<1>4. CASE \/ \E p \in Ports : DeviceAnswers(p) \/ DeviceRefuses(p) \/ NobodyAnswers(p)
           \/ \E w \in writers : WriterRuns(w) \/ WriterFails(w) \/ WriterHasNoPort(w)
           \/ UNCHANGED vars
  BY <1>4 DEF DeviceAnswers, DeviceRefuses, NobodyAnswers, WriterRuns, WriterFails,
     WriterHasNoPort, vars, portVars, mainVars, history
<1>. QED  BY <1>1, <1>2, <1>3, <1>4 DEF Next, Main

LEMMA WaitStep ==
    ASSUME TypeOK, WaitInv, [Next]_vars
    PROVE  WaitInv'
<1>. USE DEF WaitInv, MainGoes
<1>1. CASE ReadyToReceive
  BY <1>1 DEF ReadyToReceive
<1>2. CASE StopReceive
  <2>. PICK f \in Stores : /\ MainGoes("stop", IF mleft = {f} THEN "idle" ELSE "stop")
                           /\ StoreField(f, FALSE)
    BY <1>2 DEF StopReceive
  <2>1. mport' = mport /\ mport \in Ports /\ check_rcv_data \in [Ports -> BOOLEAN]
    BY <1>2 DEF StopReceive, TypeOK
  <2>. QED  BY <2>1 DEF StoreField
<1>3. CASE CheckReceivedData
  BY <1>3 DEF CheckReceivedData, Stores
<1>4. ASSUME NEW p \in Ports, HandleTimeout(p) PROVE WaitInv'
  BY <1>4 DEF HandleTimeout, portVars
<1>5. ASSUME NEW b \in Buttons, Click(b) PROVE WaitInv'
  BY <1>5 DEF Click
<1>6. CASE /\ UNCHANGED <<check_rcv_data, mport>>
           /\ mpc' \in {mpc, "spawn", "ready"}
           /\ mpc \in {"stop", "verify"} => UNCHANGED <<mpc, mleft>>
  BY <1>6
<1>. QED  BY <1>1, <1>2, <1>3, <1>4, <1>5, <1>6, OthersKeepWaiting

(* Two requests never expect the same header.                               *)
LEMMA HeadersDiffer ==
    ASSUME NEW b \in Framed, NEW c \in Framed, HeaderOf(b) = HeaderOf(c)
    PROVE  b = c
BY DEF Framed, HeaderOf

(* The verdict: "CRC pass" for one request, whose answer is on the books    *)
(* and was not passed before, or a failure.                                 *)
LEMMA VerdictRefines ==
    ASSUME Typed, Counted, WaitInv, CheckReceivedData
    PROVE  Session!Next
<1>t. /\ mport \in Ports /\ check_rcv_data \in [Ports -> BOOLEAN]
      /\ passed \in [Ports -> [Framed -> Nat]]
      /\ check_rcv_data[mport] /\ mpc = "verify" /\ mpc' = "stop"
      /\ UNCHANGED <<check_rcv_data, mport, answered>>
      /\ passed' = [passed EXCEPT ![mport] =
                       [b \in Framed |-> @[b] + IF CRCPass(mport) /\ HeaderOf(b) = current[mport]
                                                THEN 1 ELSE 0]]
  BY DEF Typed, TypeOK, WaitInv, CheckReceivedData, MainGoes, portVars
<1>1. Waiting[mport] /\ Waiting' = [Waiting EXCEPT ![mport] = FALSE]
  BY <1>t DEF Waiting
<1>2. CASE \E b \in Framed : CRCPass(mport) /\ HeaderOf(b) = current[mport]
  <2>. PICK b \in Framed : CRCPass(mport) /\ HeaderOf(b) = current[mport]
    BY <1>2
  <2>1. passed[mport][b] < answered[mport][b]
    <3>1. Pending(mport, b) = 1
      BY <1>t, PassIsPending DEF Pending, Typed
    <3>2. CountInv(mport, b)
      BY <1>t DEF Counted
    <3>. QED  BY <1>t, <3>1, <3>2, CountTypes DEF CountInv, Typed
  <2>2. \A c \in Framed : CRCPass(mport) /\ HeaderOf(c) = current[mport] <=> c = b
    BY HeadersDiffer
  <2>3. passed' = [passed EXCEPT ![mport][b] = @ + 1]
    <3>. DEFINE f == passed[mport]
                new == [c \in Framed |-> f[c] + IF CRCPass(mport) /\ HeaderOf(c) = current[mport]
                                                THEN 1 ELSE 0]
    <3>1. f \in [Framed -> Nat] /\ passed' = [passed EXCEPT ![mport] = new]
      BY <1>t
    <3>. HIDE DEF f
    <3>2. new = [f EXCEPT ![b] = f[b] + 1]
      <4>1. \A c \in Framed : new[c] = IF c = b THEN f[c] + 1 ELSE f[c]
        BY <2>2, <3>1
      <4>. QED  BY <3>1, <4>1
    <3>. HIDE DEF new
    <3>. QED  BY <3>1, <3>2 DEF f
  <2>. PICK p \in Ports : p = mport
    BY <1>t
  <2>4. Session!Pass(p, b)
    BY <1>t, <1>1, <2>1, <2>3 DEF Session!Pass, Waiting
  <2>. QED  BY <2>4 DEF Session!Next
<1>3. CASE ~ \E b \in Framed : CRCPass(mport) /\ HeaderOf(b) = current[mport]
  <2>1. passed' = passed
    <3>. DEFINE f == passed[mport]
                new == [c \in Framed |-> f[c] + IF CRCPass(mport) /\ HeaderOf(c) = current[mport]
                                                THEN 1 ELSE 0]
    <3>1. f \in [Framed -> Nat] /\ passed' = [passed EXCEPT ![mport] = new]
      BY <1>t
    <3>. HIDE DEF f
    <3>2. new = f
      BY <1>3, <3>1
    <3>. HIDE DEF new
    <3>. QED  BY <1>t, <3>1, <3>2 DEF f
  <2>. PICK p \in Ports : p = mport
    BY <1>t
  <2>2. Session!Fail(p)
    BY <1>t, <1>1, <2>1 DEF Session!Fail, Waiting
  <2>. QED  BY <2>2 DEF Session!Next
<1>. QED  BY <1>2, <1>3

LEMMA SessionStep ==
    ASSUME Typed, Counted, WaitInv, [Next]_vars
    PROVE  [Session!Next]_<<Waiting, answered, passed>>
<1>t. /\ mport \in Ports /\ check_rcv_data \in [Ports -> BOOLEAN] /\ TypeOK
      /\ mleft \subseteq Stores
  BY DEF Typed, TypeOK
<1>1. ASSUME NEW p \in Ports, DeviceAnswers(p)
      PROVE  Session!Next
  <2>1. /\ Head(line[p]) \in Framed /\ UNCHANGED <<check_rcv_data, mpc, mport, passed>>
        /\ answered' = [answered EXCEPT ![p][Head(line[p])] = @ + 1]
    BY <1>1 DEF DeviceAnswers, portVars, mainVars
  <2>2. Session!Answer(p, Head(line[p]))
    BY <2>1 DEF Session!Answer
  <2>. QED  BY <2>1, <2>2 DEF Session!Next
<1>2. CASE ReadyToReceive
  <2>. PICK f \in Stores : /\ MainGoes("ready", IF mleft = {f} THEN "idle" ELSE "ready")
                           /\ StoreField(f, TRUE)
    BY <1>2 DEF ReadyToReceive
  <2>1. UNCHANGED <<mport, answered, passed>> /\ mpc # "stop" /\ mpc' # "stop"
    BY <1>2 DEF ReadyToReceive, MainGoes, history
  <2>2. CASE f = "check_rcv_data"
    <3>1. check_rcv_data' = [check_rcv_data EXCEPT ![mport] = TRUE]
      BY <2>2 DEF StoreField
    <3>2. Waiting' = [Waiting EXCEPT ![mport] = TRUE]
      BY <1>t, <2>1, <3>1 DEF Waiting
    <3>. PICK p \in Ports : p = mport
      BY <1>t
    <3>3. Session!Ask(p)
      BY <2>1, <3>2 DEF Session!Ask, Waiting
    <3>. QED  BY <3>3 DEF Session!Next
  <2>3. CASE f # "check_rcv_data"
    <3>1. Waiting' = Waiting
      BY <2>1, <2>3 DEF Waiting, StoreField
    <3>. QED  BY <2>1, <3>1
  <2>. QED  BY <2>2, <2>3
<1>3. CASE StopReceive
  <2>. PICK f \in Stores : /\ MainGoes("stop", IF mleft = {f} THEN "idle" ELSE "stop")
                           /\ StoreField(f, FALSE)
    BY <1>3 DEF StopReceive
  <2>1. UNCHANGED <<mport, answered, passed>> /\ mpc = "stop"
    BY <1>3 DEF StopReceive, MainGoes, history
  <2>2. \A p \in Ports : p # mport => check_rcv_data'[p] = check_rcv_data[p]
    BY <1>t DEF StoreField
  <2>3. mpc' = "stop" \/ ~check_rcv_data'[mport]
    BY <1>t, <2>1 DEF StoreField, MainGoes, WaitInv
  <2>4. Waiting' = Waiting
    BY <1>t, <2>1, <2>2, <2>3 DEF Waiting
  <2>. QED  BY <2>1, <2>4
<1>4. CASE \/ \E p \in Ports : HandleTimeout(p)
           \/ \E b \in Buttons : Click(b)
  <2>1. /\ UNCHANGED <<check_rcv_data, answered, passed>>
        /\ mpc # "stop" /\ mpc' # "stop"
    BY <1>4 DEF HandleTimeout, Click, MainGoes, portVars, history
  <2>2. Waiting' = Waiting
    BY <2>1 DEF Waiting
  <2>. QED  BY <2>1, <2>2
<1>5. CASE /\ \A p \in Ports : ~DeviceAnswers(p) /\ ~HandleTimeout(p)
           /\ \A b \in Buttons : ~Click(b)
           /\ ~ReadyToReceive /\ ~StopReceive /\ ~CheckReceivedData
  <2>1. /\ UNCHANGED <<check_rcv_data, mport, passed>>
        /\ mpc' \in {mpc, "spawn", "ready"} /\ (mpc = "stop" => mpc' = "stop")
    BY <1>5, <1>t, OthersKeepWaiting
  <2>2. UNCHANGED answered
    BY <1>5 DEF Next, Main, Reader, ReaderStart, ReaderRead, ReaderHasNoPort, ReaderCancel,
       ReaderTest, ReaderLoad, ReaderStore, ReaderOverruns, ReaderIncrement,
       ReaderReadsNothing, ReaderFails, TimerFires, CopyFrame, SpawnWriter,
       DeviceRefuses, NobodyAnswers, WriterRuns, WriterFails, WriterHasNoPort, vars,
       history
  <2>3. Waiting' = Waiting
    BY <2>1 DEF Waiting
  <2>. QED  BY <2>1, <2>2, <2>3
<1>. QED  BY <1>1, <1>2, <1>3, <1>4, <1>5, VerdictRefines

(* Threads, timers, buffers and unlocked fields implement the promise of    *)
(* Rs485Session: one verdict at most for a wait, and "CRC pass" only for an *)
(* answer that was sent and was not passed before.                          *)
THEOREM MasterImplementsSession == Spec => ImplementsSession
<1>1. Init => Session!Init /\ WaitInv
  <2>. SUFFICES ASSUME Init PROVE Session!Init /\ WaitInv
    OBVIOUS
  <2>. QED  BY DEF Init, Session!Init, WaitInv
<1>2. Typed /\ WaitInv /\ [Next]_vars => WaitInv'
  BY WaitStep DEF Typed
<1>3. Typed /\ Counted /\ WaitInv /\ [Next]_vars => [Session!Next]_(Session!vars)
  BY SessionStep DEF Session!vars, Waiting
<1>. QED
  BY <1>1, <1>2, <1>3, CountedAlways, PTL DEF Spec, ImplementsSession, Session!Spec

-----------------------------------------------------------------------------
(* A clean exchange.  A port whose exchange is clean is, since the click,   *)
(* in one of three stages: no byte of an answer has been sent; the reply is *)
(* arriving; the verdict has been given.                                    *)

ReadyStores(p) ==
    /\ "check_rcv_data" \notin mleft => check_rcv_data[p]
    /\ "data_index" \notin mleft => data_index[p] = 0

NoAnswerYet(p) ==
    /\ wire[p] = <<>> /\ rpc[p] = "read" /\ ticks[p] = 0 /\ timeouts[p] = 0
    /\ mbutton \in Framed => current[p] = HeaderOf(mbutton)
    /\ ~(mport = p /\ mpc \in {"verify", "stop"})
    /\ mpc \in {"copy", "spawn"} => writers = {} /\ line[p] = <<>>
    /\ mpc # "copy" => data_tx = mbutton
    /\ writers \subseteq {[port |-> p, button |-> mbutton, req |-> clicks]}
    /\ line[p] = <<>> \/ (line[p] = <<mbutton>> /\ writers = {})
    /\ mpc = "ready" => ReadyStores(p)
    /\ mpc \notin {"copy", "spawn", "ready"} => check_rcv_data[p] /\ data_index[p] = 0

Answer == Reply(HeaderOf(mbutton))

(* How many bytes of the reply the reader has taken, and how many of them   *)
(* it has stored and counted.                                               *)
Taken(p) == ReplyLen - Len(wire[p])
InHand(p) == rpc[p] \notin {"read", "start"}
Filed(p) == IF InHand(p) THEN Taken(p) - 1 ELSE Taken(p)

(* The bytes on the wire, in the reader's hand and in the buffer are those  *)
(* of the reply, in their order.                                            *)
InOrder(p) ==
    /\ Len(wire[p]) <= ReplyLen
    /\ \A j \in 1 .. Len(wire[p]) : wire[p][j] = Answer[Taken(p) + j]
    /\ InHand(p) => Taken(p) >= 1 /\ rbyte[p] = Answer[Taken(p)]
    /\ \A j \in 1 .. Filed(p) : rcv_data[p][j - 1] = Answer[j]
    /\ rpc[p] \in {"store", "inc"} => ridx[p] = Filed(p)
    /\ rpc[p] \in {"reload", "inc"} => rcv_data[p][Filed(p)] = rbyte[p]

Arriving(p) ==
    /\ mbutton \in Framed /\ current[p] = HeaderOf(mbutton)
    /\ line[p] = <<>> /\ writers = {}
    /\ InOrder(p)
    /\ mpc \notin {"copy", "spawn"} /\ ~(mpc = "stop" /\ mport = p)
    /\ mpc = "ready" =>
         ReadyStores(p) /\ Filed(p) = 0 /\ rpc[p] \in {"read", "cancel", "test"}
    /\ mpc # "ready" => check_rcv_data[p] /\ data_index[p] = Filed(p)
    /\ timeouts[p] > 0 \/ (mpc = "verify" /\ mport = p) =>
         wire[p] = <<>> /\ rpc[p] = "read"

ExchangeOver(p) ==
    /\ wire[p] = <<>> /\ rpc[p] = "read" /\ line[p] = <<>> /\ writers = {}
    /\ mpc \notin {"copy", "spawn", "ready"} /\ ~(mpc = "verify" /\ mport = p)
    /\ check_rcv_data[p] => mpc = "stop" /\ mport = p /\ "check_rcv_data" \in mleft

CleanPort(p) ==
    /\ mpc \in {"copy", "spawn", "ready"} => mport = p
    /\ NoAnswerYet(p) \/ Arriving(p) \/ ExchangeOver(p)

CleanInv == \A p \in Ports : clean[p] => CleanPort(p)

(* The parts of the state that the stages of port p speak of.               *)
ReaderOf(p) == <<rpc[p], rbyte[p], ridx[p], wire[p], data_index[p], rcv_data[p]>>
PortState(p) == <<line[p], ticks[p], timeouts[p], check_rcv_data[p], current[p]>>

LEMMA AnswerKept ==
    ASSUME mbutton' = mbutton
    PROVE  Answer' = Answer
BY DEF Answer, Reply, HeaderOf

(* A step that touches nothing of the port, and in which the main thread    *)
(* stays where it is or works on another port.                              *)
LEMMA CleanFrame ==
    ASSUME NEW p \in Ports, CleanPort(p),
           ReaderOf(p)' = ReaderOf(p), PortState(p)' = PortState(p),
           UNCHANGED <<writers, data_tx, clicks, mbutton>>,
           \/ UNCHANGED <<mpc, mport, mleft>>
           \/ /\ mpc = "idle" \/ (mport # p /\ mpc \in {"verify", "stop"})
              /\ mport' # p /\ mpc' \in {"idle", "verify", "stop"}
    PROVE  CleanPort(p)'
<1>e. /\ wire'[p] = wire[p] /\ rpc'[p] = rpc[p] /\ rbyte'[p] = rbyte[p]
      /\ ridx'[p] = ridx[p] /\ data_index'[p] = data_index[p]
      /\ rcv_data'[p] = rcv_data[p] /\ line'[p] = line[p] /\ ticks'[p] = ticks[p]
      /\ timeouts'[p] = timeouts[p] /\ check_rcv_data'[p] = check_rcv_data[p]
      /\ current'[p] = current[p]
  BY DEF ReaderOf, PortState
<1>a. Answer' = Answer
  BY AnswerKept
<1>1. Taken(p)' = Taken(p) /\ InHand(p)' = InHand(p) /\ Filed(p)' = Filed(p)
  BY <1>e DEF Taken, InHand, Filed
<1>2. InOrder(p) => InOrder(p)'
  BY <1>e, <1>1, <1>a DEF InOrder
<1>3. NoAnswerYet(p) => NoAnswerYet(p)'
  BY <1>e DEF NoAnswerYet, ReadyStores
<1>4. Arriving(p) => Arriving(p)'
  BY <1>e, <1>1, <1>2 DEF Arriving, ReadyStores
<1>5. ExchangeOver(p) => ExchangeOver(p)'
  BY <1>e DEF ExchangeOver
<1>. QED  BY <1>3, <1>4, <1>5 DEF CleanPort

(* The reader takes the reply byte by byte: in hand, stored, counted.  The  *)
(* test of check_rcv_data finds it set, or the exchange is no longer clean. *)
LEMMA CleanArrives ==
    ASSUME TypeOK, NEW p \in Ports, Arriving(p), clean'[p], Reader(p)
    PROVE  Arriving(p)'
<1>. DEFINE L == ReplyLen
            w == wire[p]
            n == data_index[p]
<1>t. /\ rpc \in [Ports -> ReaderSteps] /\ rbyte \in [Ports -> Byte]
      /\ ridx \in [Ports -> Nat] /\ data_index \in [Ports -> Nat]
      /\ wire \in [Ports -> Seq(Byte)] /\ w \in Seq(Byte) /\ Len(w) \in Nat
      /\ rcv_data \in [Ports -> [0..(BufferSize - 1) -> Byte]]
      /\ rcv_data[p] \in [0..(BufferSize - 1) -> Byte]
      /\ clean \in [Ports -> BOOLEAN] /\ ticks \in [Ports -> Nat]
      /\ L \in Nat /\ L >= 3 /\ BufferSize \in Nat /\ L <= BufferSize
  BY CountTypes, LenProperties, ReplyAssumption, BufferAssumption DEF TypeOK
<1>m. /\ UNCHANGED <<mainVars, writers, line, current, check_rcv_data, timeouts>>
      /\ Answer' = Answer
  <2>1. UNCHANGED <<mainVars, writers, line, current, check_rcv_data, timeouts>>
    BY DEF Reader, ReaderStart, ReaderRead, ReaderHasNoPort, ReaderCancel, ReaderTest,
       ReaderLoad, ReaderStore, ReaderOverruns, ReaderIncrement, readerVars, portVars
  <2>. QED  BY <2>1, AnswerKept DEF mainVars
<1>a. InOrder(p) /\ Len(w) <= L /\ Taken(p) = L - Len(w) /\ Taken(p) \in Nat
  BY <1>t DEF Arriving, InOrder, Taken
<1>f. Filed(p) \in Nat /\ (InHand(p) => Filed(p) + 1 = Taken(p))
      /\ (~InHand(p) => Filed(p) = Taken(p)) /\ Filed(p) <= L
  BY <1>a, <1>t DEF Filed, InOrder
<1>q. ASSUME InOrder(p)',
             mpc = "ready" => /\ data_index'[p] = n /\ Filed(p)' = Filed(p)
                              /\ rpc'[p] \in {"read", "cancel", "test"},
             mpc # "ready" => data_index'[p] = Filed(p)',
             timeouts[p] > 0 \/ (mpc = "verify" /\ mport = p) =>
                wire'[p] = <<>> /\ rpc'[p] = "read"
      PROVE  Arriving(p)'
  BY <1>q, <1>m DEF Arriving, ReadyStores, mainVars
<1>1. CASE ReaderHasNoPort(p) \/ ReaderOverruns(p)
  <2>1. UNCHANGED <<readerVars, portVars, wire>>
    BY <1>1 DEF ReaderHasNoPort, ReaderOverruns
  <2>2. InHand(p)' = InHand(p) /\ Taken(p)' = Taken(p) /\ Filed(p)' = Filed(p)
    BY <2>1 DEF InHand, Taken, Filed, readerVars
  <2>3. InOrder(p)'
    BY <1>a, <1>m, <2>1, <2>2 DEF InOrder, readerVars, portVars
  <2>. QED  BY <2>1, <2>2, <2>3, <1>q DEF Arriving, readerVars, portVars
<1>2. CASE ReaderStart(p)
  <2>1. /\ rpc[p] = "start" /\ rpc'[p] = "read"
        /\ UNCHANGED <<rbyte, ridx, portVars, wire>>
    BY <1>2, <1>t DEF ReaderStart, ReaderGoes
  <2>2. ~InHand(p) /\ ~InHand(p)' /\ Taken(p)' = Taken(p) /\ Filed(p)' = Filed(p)
    BY <2>1 DEF InHand, Taken, Filed
  <2>3. InOrder(p)'
    BY <1>a, <1>m, <2>1, <2>2 DEF InOrder, portVars
  <2>. QED  BY <2>1, <2>2, <2>3, <1>q DEF Arriving, portVars
<1>3. CASE ReaderRead(p)
  <2>1. /\ rpc[p] = "read" /\ rpc'[p] = "cancel" /\ w # <<>>
        /\ rbyte'[p] = Head(w) /\ wire'[p] = Tail(w)
        /\ UNCHANGED <<ridx, portVars>>
    BY <1>3, <1>t DEF ReaderRead, ReaderGoes
  <2>2. /\ Len(w) >= 1 /\ Len(Tail(w)) = Len(w) - 1 /\ Head(w) = w[1]
        /\ \A i \in 1..Len(Tail(w)) : Tail(w)[i] = w[i + 1]
    BY <2>1, <1>t, EmptySeq, LenProperties, HeadTailProperties
  <2>3. /\ ~InHand(p) /\ InHand(p)' /\ Taken(p)' = Taken(p) + 1
        /\ Filed(p) = Taken(p) /\ Filed(p)' = Filed(p)
    <3>1. ~InHand(p) /\ InHand(p)' /\ Taken(p)' = Taken(p) + 1
      BY <2>1, <2>2, <1>t DEF InHand, Taken
    <3>. QED  BY <3>1, <1>a DEF Filed
  <2>4. /\ Len(Tail(w)) <= L
        /\ \A j \in 1..Len(Tail(w)) : Tail(w)[j] = Answer[Taken(p) + 1 + j]
    <3>1. ASSUME NEW j \in 1..Len(Tail(w))
          PROVE  Tail(w)[j] = Answer[Taken(p) + 1 + j]
      <4>1. Tail(w)[j] = w[j + 1] /\ j + 1 \in 1..Len(w)
        BY <2>2, <1>t
      <4>2. w[j + 1] = Answer[Taken(p) + (j + 1)]
        BY <4>1, <1>a DEF InOrder
      <4>3. Taken(p) + (j + 1) = Taken(p) + 1 + j
        BY <1>a
      <4>. QED  BY <4>1, <4>2, <4>3
    <3>. QED  BY <3>1, <2>2, <1>a, <1>t
  <2>5. Head(w) = Answer[Taken(p) + 1] /\ Taken(p) + 1 >= 1
    <3>1. 1 \in 1..Len(w)
      BY <2>2, <1>t
    <3>2. w[1] = Answer[Taken(p) + 1]
      BY <3>1, <1>a DEF InOrder
    <3>. QED  BY <3>2, <2>2, <1>a
  <2>6. InOrder(p)'
    BY <1>a, <1>m, <2>1, <2>3, <2>4, <2>5 DEF InOrder, portVars
  <2>. QED  BY <2>1, <2>3, <2>6, <1>q DEF Arriving, portVars
<1>4. CASE ReaderCancel(p) \/ ReaderTest(p)
  <2>1. /\ rpc[p] \in {"cancel", "test"} /\ rpc'[p] \in {"test", "load"}
        /\ UNCHANGED <<rbyte, ridx, portVars, wire>>
        /\ rpc'[p] = "load" => mpc # "ready"
    <3>1. CASE ReaderCancel(p)
      BY <3>1, <1>t DEF ReaderCancel, ReaderGoes
    <3>2. CASE ReaderTest(p)
      <4>1. check_rcv_data[p] /\ mpc # "ready"
        BY <3>2, <1>t DEF ReaderTest
      <4>. QED  BY <3>2, <4>1, <1>t DEF ReaderTest, ReaderGoes
    <3>. QED  BY <1>4, <3>1, <3>2
  <2>2. InHand(p) /\ InHand(p)' /\ Taken(p)' = Taken(p) /\ Filed(p)' = Filed(p)
    BY <2>1 DEF InHand, Taken, Filed
  <2>3. InOrder(p)'
    BY <1>a, <1>m, <2>1, <2>2 DEF InOrder, portVars
  <2>. QED  BY <2>1, <2>2, <2>3, <1>q DEF Arriving, portVars
<1>5. CASE ReaderLoad(p, "load", "store") \/ ReaderLoad(p, "reload", "inc")
  <2>1. /\ rpc[p] \in {"load", "reload"} /\ rpc'[p] \in {"store", "inc"}
        /\ rpc'[p] = "inc" => rpc[p] = "reload"
        /\ ridx'[p] = n /\ UNCHANGED <<rbyte, portVars, wire>>
    BY <1>5, <1>t DEF ReaderLoad, ReaderGoes
  <2>2. InHand(p) /\ InHand(p)' /\ Taken(p)' = Taken(p) /\ Filed(p)' = Filed(p)
    BY <2>1 DEF InHand, Taken, Filed
  <2>3. mpc # "ready" /\ n = Filed(p)
    BY <2>1 DEF Arriving
  <2>4. InOrder(p)'
    BY <1>a, <1>m, <2>1, <2>2, <2>3 DEF InOrder, portVars
  <2>. QED  BY <2>1, <2>2, <2>3, <2>4, <1>q DEF Arriving, portVars
<1>6. CASE ReaderStore(p)
  <2>1. /\ rpc[p] = "store" /\ rpc'[p] = "reload" /\ ridx[p] = Filed(p)
        /\ Filed(p) < BufferSize
        /\ rcv_data'[p] = [rcv_data[p] EXCEPT ![Filed(p)] = rbyte[p]]
        /\ UNCHANGED <<rbyte, ridx, data_index, wire>>
    BY <1>6, <1>t, <1>a DEF ReaderStore, ReaderGoes, HasRoom, InOrder
  <2>2. InHand(p) /\ InHand(p)' /\ Taken(p)' = Taken(p) /\ Filed(p)' = Filed(p)
    BY <2>1 DEF InHand, Taken, Filed
  <2>3. /\ rcv_data'[p][Filed(p)] = rbyte[p]
        /\ \A j \in 1..Filed(p) : rcv_data'[p][j - 1] = rcv_data[p][j - 1]
    BY <2>1, <1>f, <1>t
  <2>4. InOrder(p)'
    BY <1>a, <1>m, <2>1, <2>2, <2>3 DEF InOrder
  <2>. QED  BY <2>1, <2>2, <2>4, <1>q DEF Arriving
<1>7. CASE ReaderIncrement(p)
  <2>1. /\ rpc[p] = "inc" /\ rpc'[p] = "start" /\ data_index'[p] = Filed(p) + 1
        /\ UNCHANGED <<rbyte, ridx, rcv_data, wire>>
    BY <1>7, <1>t, <1>a DEF ReaderIncrement, ReaderGoes, InOrder
  <2>2. InHand(p) /\ ~InHand(p)' /\ Taken(p)' = Taken(p) /\ Filed(p)' = Filed(p) + 1
    <3>1. InHand(p) /\ ~InHand(p)' /\ Taken(p)' = Taken(p)
      BY <2>1 DEF InHand, Taken
    <3>. QED  BY <3>1, <1>f DEF Filed
  <2>3. \A j \in 1..(Filed(p) + 1) : rcv_data[p][j - 1] = Answer[j]
    <3>1. rcv_data[p][Filed(p)] = Answer[Filed(p) + 1]
      BY <2>1, <2>2, <1>a, <1>f DEF InOrder
    <3>2. ASSUME NEW j \in 1..(Filed(p) + 1) PROVE rcv_data[p][j - 1] = Answer[j]
      <4>1. CASE j \in 1..Filed(p)
        BY <4>1, <1>a DEF InOrder
      <4>2. CASE j = Filed(p) + 1
        <5>1. j - 1 = Filed(p)
          BY <4>2, <1>f
        <5>. QED  BY <3>1, <4>2, <5>1
      <4>. QED  BY <4>1, <4>2, <1>f
    <3>. QED  BY <3>2
  <2>4. InOrder(p)'
    BY <1>a, <1>m, <2>1, <2>2, <2>3 DEF InOrder
  <2>. QED  BY <2>1, <2>2, <2>4, <1>q DEF Arriving
<1>. QED  BY <1>1, <1>2, <1>3, <1>4, <1>5, <1>6, <1>7 DEF Reader

(* The only steps of the reader while nothing arrives: it has no port.      *)
LEMMA CleanReader ==
    ASSUME TypeOK, NEW p \in Ports, CleanPort(p), clean'[p],
           Reader(p) \/ ReaderReadsNothing(p) \/ ReaderFails(p)
    PROVE  CleanPort(p)'
<1>1. CASE ReaderReadsNothing(p) \/ ReaderFails(p)
  BY <1>1 DEF ReaderReadsNothing, ReaderFails, TypeOK
<1>2. CASE ReaderHasNoPort(p)
  <2>1. /\ ReaderOf(p)' = ReaderOf(p) /\ PortState(p)' = PortState(p)
        /\ UNCHANGED <<writers, data_tx, clicks, mbutton, mpc, mport, mleft>>
    BY <1>2 DEF ReaderHasNoPort, ReaderOf, PortState, readerVars, portVars, mainVars
  <2>. QED  BY <2>1, CleanFrame
<1>3. CASE Reader(p) /\ ~ReaderHasNoPort(p)
  <2>1. ~(wire[p] = <<>> /\ rpc[p] = "read")
    BY <1>3 DEF Reader, ReaderStart, ReaderRead, ReaderCancel, ReaderTest, ReaderLoad,
       ReaderStore, ReaderOverruns, ReaderIncrement, ReaderGoes
  <2>2. Arriving(p)
    BY <2>1 DEF CleanPort, NoAnswerYet, ExchangeOver
  <2>3. UNCHANGED mainVars
    BY <1>3 DEF Reader, ReaderStart, ReaderRead, ReaderCancel, ReaderTest, ReaderLoad,
       ReaderStore, ReaderOverruns, ReaderIncrement
  <2>. QED  BY <1>3, <2>2, <2>3, CleanArrives DEF CleanPort, mainVars
<1>. QED  BY <1>1, <1>2, <1>3

(* The reader, the device and the timer of another port.                    *)
LEMMA CleanElsewhere ==
    ASSUME TypeOK, NEW p \in Ports, CleanPort(p), NEW q \in Ports, q # p,
           \/ Reader(q) \/ ReaderReadsNothing(q) \/ ReaderFails(q)
           \/ TimerFires(q) \/ HandleTimeout(q)
           \/ DeviceAnswers(q) \/ DeviceRefuses(q) \/ NobodyAnswers(q)
    PROVE  CleanPort(p)'
<1>1. CASE Reader(q) \/ ReaderReadsNothing(q) \/ ReaderFails(q)
  <2>1. /\ rpc'[p] = rpc[p] /\ ridx'[p] = ridx[p] /\ rbyte'[p] = rbyte[p]
        /\ data_index'[p] = data_index[p] /\ rcv_data'[p] = rcv_data[p]
        /\ wire'[p] = wire[p] /\ UNCHANGED mainVars
    BY <1>1, OtherReader
  <2>2. check_rcv_data'[p] = check_rcv_data[p] /\ ticks'[p] = ticks[p]
        /\ timeouts'[p] = timeouts[p]
    BY <1>1, ReaderLocal
  <2>3. UNCHANGED <<line, current, writers, data_tx, clicks>>
    BY <1>1 DEF Reader, ReaderStart, ReaderRead, ReaderHasNoPort, ReaderCancel, ReaderTest,
       ReaderLoad, ReaderStore, ReaderOverruns, ReaderIncrement, ReaderReadsNothing,
       ReaderFails
  <2>4. ReaderOf(p)' = ReaderOf(p) /\ PortState(p)' = PortState(p)
    BY <2>1, <2>2, <2>3 DEF ReaderOf, PortState
  <2>. QED  BY <2>1, <2>3, <2>4, CleanFrame DEF mainVars
<1>2. CASE DeviceAnswers(q) \/ DeviceRefuses(q) \/ NobodyAnswers(q)
  <2>1. /\ wire'[p] = wire[p] /\ line'[p] = line[p]
        /\ UNCHANGED <<readerVars, ticks, timeouts, portVars, current, writers, data_tx,
                       clicks, mainVars>>
    BY <1>2 DEF DeviceAnswers, DeviceRefuses, NobodyAnswers, TakesFrame, TypeOK
  <2>2. ReaderOf(p)' = ReaderOf(p) /\ PortState(p)' = PortState(p)
    BY <2>1 DEF ReaderOf, PortState, readerVars, portVars
  <2>. QED  BY <2>1, <2>2, CleanFrame DEF mainVars
<1>3. CASE TimerFires(q)
  <2>1. /\ ticks'[p] = ticks[p] /\ timeouts'[p] = timeouts[p]
        /\ UNCHANGED <<wire, line, readerVars, portVars, current, writers, data_tx,
                       clicks, mpc, mport, mbutton, mleft>>
    BY <1>3 DEF TimerFires, MainGoes, TypeOK
  <2>2. ReaderOf(p)' = ReaderOf(p) /\ PortState(p)' = PortState(p)
    BY <2>1 DEF ReaderOf, PortState, readerVars, portVars
  <2>. QED  BY <2>1, <2>2, CleanFrame
<1>4. CASE HandleTimeout(q)
  <2>1. /\ ticks'[p] = ticks[p] /\ timeouts'[p] = timeouts[p]
        /\ UNCHANGED <<wire, line, readerVars, portVars, current, writers, data_tx,
                       clicks, mbutton>>
        /\ mpc = "idle" /\ mpc' \in {"idle", "verify"} /\ mport' = q
    BY <1>4 DEF HandleTimeout, MainGoes, TypeOK
  <2>2. ReaderOf(p)' = ReaderOf(p) /\ PortState(p)' = PortState(p)
    BY <2>1 DEF ReaderOf, PortState, readerVars, portVars
  <2>. QED  BY <2>1, <2>2, CleanFrame
<1>. QED  BY <1>1, <1>2, <1>3, <1>4

(* No message of the timer is on its way until all of the reply is stored,  *)
(* since the timer does not expire within it.                               *)
LEMMA CleanTimeout ==
    ASSUME ~MidFrameGap, TypeOK, NEW p \in Ports, CleanPort(p),
           TimerFires(p) \/ HandleTimeout(p)
    PROVE  CleanPort(p)'
<1>1. /\ UNCHANGED <<wire, line, readerVars, portVars, current, writers, data_tx, clicks,
                     mbutton, mleft>>
      /\ mpc = "idle" /\ mpc' \in {"idle", "verify"}
      /\ mpc' = "verify" => mport' = p /\ check_rcv_data[p]
      /\ (wire[p] = <<>> /\ rpc[p] = "read") \/ timeouts[p] > 0
      /\ ticks[p] > 0 \/ timeouts[p] > 0
  BY DEF TimerFires, HandleTimeout, MainGoes
<1>2. ~NoAnswerYet(p)
  BY <1>1 DEF NoAnswerYet
<1>3. CASE Arriving(p)
  <2>1. wire[p] = <<>> /\ rpc[p] = "read"
    BY <1>1, <1>3 DEF Arriving
  <2>2. /\ Taken(p)' = Taken(p) /\ InHand(p)' = InHand(p) /\ Filed(p)' = Filed(p)
        /\ Answer' = Answer
    BY <1>1, AnswerKept DEF Taken, InHand, Filed, readerVars
  <2>3. InOrder(p)'
    BY <1>1, <1>3, <2>2 DEF Arriving, InOrder, readerVars, portVars
  <2>4. Arriving(p)'
    BY <1>1, <1>3, <2>1, <2>2, <2>3 DEF Arriving, readerVars, portVars
  <2>. QED  BY <1>1, <2>4 DEF CleanPort
<1>4. CASE ExchangeOver(p)
  <2>1. mpc' = "idle" /\ ~check_rcv_data[p]
    BY <1>1, <1>4 DEF ExchangeOver
  <2>. QED  BY <1>1, <1>4, <2>1 DEF CleanPort, ExchangeOver, readerVars, portVars
<1>. QED  BY <1>2, <1>3, <1>4 DEF CleanPort

(* The click begins a clean exchange on its own port, and nowhere else.     *)
LEMMA CleanClick ==
    ASSUME TypeOK, NEW b \in Buttons, Click(b), NEW p \in Ports, clean'[p]
    PROVE  CleanPort(p)'
<1>1. p = PortOf(b) /\ Quiet(p)
  BY DEF Click
<1>2. /\ mpc' = "copy" /\ mport' = p /\ mbutton' = b
      /\ b \in Framed => current'[p] = HeaderOf(b)
      /\ UNCHANGED <<writers, line, wire, rpc, ticks, timeouts>>
  BY <1>1 DEF Click, MainGoes, readerVars, TypeOK
<1>3. NoAnswerYet(p)'
  BY <1>1, <1>2 DEF NoAnswerYet, Quiet, HeaderOf
<1>. QED  BY <1>2, <1>3 DEF CleanPort

(* The request is made and sent.                                            *)
LEMMA CleanRequest ==
    ASSUME TypeOK, NEW p \in Ports, CleanPort(p), CopyFrame \/ SpawnWriter
    PROVE  CleanPort(p)'
<1>1. /\ mpc \in {"copy", "spawn"} /\ mport' = mport /\ mport = p
      /\ NoAnswerYet(p) /\ mbutton' = mbutton
      /\ UNCHANGED <<line, wire, readerVars, ticks, timeouts, portVars, current, clicks>>
  BY DEF CopyFrame, SpawnWriter, MainGoes, CleanPort, Arriving, ExchangeOver
<1>2. CASE CopyFrame
  <2>1. mpc' = "spawn" /\ data_tx' = mbutton /\ writers' = writers
    BY <1>2 DEF CopyFrame, MainGoes
  <2>. QED  BY <1>1, <2>1 DEF CleanPort, NoAnswerYet, HeaderOf, readerVars, portVars
<1>3. CASE SpawnWriter
  <2>1. /\ mpc = "spawn" /\ mpc' = "ready" /\ data_tx' = data_tx /\ mleft' = Stores
        /\ writers' = writers \cup {[port |-> p, button |-> mbutton, req |-> clicks]}
    BY <1>1, <1>3 DEF SpawnWriter, MainGoes
  <2>2. writers' = {[port |-> p, button |-> mbutton, req |-> clicks]}
        /\ line[p] = <<>>
    BY <1>1, <2>1 DEF NoAnswerYet
  <2>3. ReadyStores(p)'
    BY <2>1 DEF ReadyStores, Stores
  <2>. QED  BY <1>1, <2>1, <2>2, <2>3 DEF CleanPort, NoAnswerYet, HeaderOf, readerVars,
            portVars
<1>. QED  BY <1>2, <1>3

(* Both stores of ReadyToReceive are done before a byte of the reply is     *)
(* tested, or the exchange is no longer clean.                              *)
LEMMA CleanReady ==
    ASSUME TypeOK, NEW p \in Ports, CleanPort(p), ReadyToReceive
    PROVE  CleanPort(p)'
<1>. PICK f \in Stores : /\ MainGoes("ready", IF mleft = {f} THEN "idle" ELSE "ready")
                         /\ StoreField(f, TRUE)
  BY DEF ReadyToReceive
<1>1. /\ mpc = "ready" /\ mport' = mport /\ mport = p /\ mbutton' = mbutton
      /\ mpc' \in {"ready", "idle"}
      /\ mpc' = "idle" => mleft' = {}
      /\ UNCHANGED <<line, wire, readerVars, ticks, timeouts, rcv_data, current, clicks,
                     writers, data_tx>>
  BY DEF ReadyToReceive, MainGoes, StoreField, CleanPort
<1>2. ReadyStores(p) => ReadyStores(p)'
  BY <1>1 DEF ReadyStores, StoreField, TypeOK
<1>3. mleft' = {} /\ ReadyStores(p)' => check_rcv_data'[p] /\ data_index'[p] = 0
  BY DEF ReadyStores
<1>4. CASE NoAnswerYet(p)
  <2>1. NoAnswerYet(p)'
    BY <1>1, <1>2, <1>3, <1>4 DEF NoAnswerYet, HeaderOf, readerVars
  <2>. QED  BY <1>1, <2>1 DEF CleanPort
<1>5. CASE Arriving(p)
  <2>1. /\ Taken(p)' = Taken(p) /\ InHand(p)' = InHand(p) /\ Filed(p)' = Filed(p)
        /\ Answer' = Answer
    BY <1>1, AnswerKept DEF Taken, InHand, Filed, readerVars
  <2>2. InOrder(p)'
    BY <1>1, <1>5, <2>1 DEF Arriving, InOrder, readerVars
  <2>3. Arriving(p)'
    BY <1>1, <1>2, <1>3, <1>5, <2>1, <2>2 DEF Arriving, HeaderOf, readerVars
  <2>. QED  BY <1>1, <2>3 DEF CleanPort
<1>. QED  BY <1>1, <1>4, <1>5 DEF CleanPort, ExchangeOver

(* The verdict ends the exchange, and StopReceive closes the port.          *)
LEMMA CleanVerdict ==
    ASSUME TypeOK, NEW p \in Ports, CleanPort(p), CheckReceivedData \/ StopReceive
    PROVE  CleanPort(p)'
<1>1. /\ mpc \in {"verify", "stop"} /\ mpc' \in {"stop", "idle"} /\ mport' = mport
      /\ UNCHANGED <<line, wire, readerVars, ticks, timeouts, rcv_data, clicks,
                     writers, data_tx, mbutton>>
  BY DEF CheckReceivedData, StopReceive, MainGoes, portVars
<1>2. CASE mport # p
  <2>1. /\ check_rcv_data'[p] = check_rcv_data[p] /\ data_index'[p] = data_index[p]
        /\ current'[p] = current[p]
    BY <1>2 DEF CheckReceivedData, StopReceive, StoreField, TypeOK, portVars
  <2>2. ReaderOf(p)' = ReaderOf(p) /\ PortState(p)' = PortState(p)
    BY <1>1, <2>1 DEF ReaderOf, PortState, readerVars
  <2>. QED  BY <1>1, <1>2, <2>2, CleanFrame
<1>3. CASE mport = p /\ CheckReceivedData
  <2>1. mpc = "verify" /\ mpc' = "stop" /\ "check_rcv_data" \in mleft'
    BY <1>3 DEF CheckReceivedData, MainGoes, Stores
  <2>2. Arriving(p)
    BY <1>3, <2>1 DEF CleanPort, NoAnswerYet, ExchangeOver
  <2>3. ExchangeOver(p)'
    BY <1>1, <1>3, <2>1, <2>2 DEF Arriving, ExchangeOver, readerVars
  <2>. QED  BY <2>1, <2>3 DEF CleanPort
<1>4. CASE mport = p /\ StopReceive
  <2>. PICK f \in Stores : /\ MainGoes("stop", IF mleft = {f} THEN "idle" ELSE "stop")
                           /\ StoreField(f, FALSE)
    BY <1>4 DEF StopReceive
  <2>1. mpc = "stop" /\ ExchangeOver(p)
    BY <1>4 DEF CleanPort, NoAnswerYet, Arriving, MainGoes
  <2>2. check_rcv_data'[p] => mpc' = "stop" /\ "check_rcv_data" \in mleft'
    BY <1>4, <2>1 DEF StoreField, MainGoes, ExchangeOver, Stores, TypeOK
  <2>. QED  BY <1>1, <1>4, <2>1, <2>2 DEF CleanPort, ExchangeOver, readerVars
<1>. QED  BY <1>2, <1>3, <1>4

(* The request goes out once, by the only writer, and is the one of the     *)
(* click: data_tx holds it by then.                                         *)
LEMMA CleanWriter ==
    ASSUME TypeOK, NEW p \in Ports, CleanPort(p), NEW w \in writers,
           WriterRuns(w) \/ WriterFails(w) \/ WriterHasNoPort(w)
    PROVE  CleanPort(p)'
<1>1. /\ NoAnswerYet(p) /\ w.port = p /\ line[p] = <<>> /\ data_tx = mbutton
      /\ writers = {w} /\ mpc \notin {"copy", "spawn"}
  BY DEF CleanPort, NoAnswerYet, Arriving, ExchangeOver
<1>2. UNCHANGED <<mainVars, wire, readerVars, ticks, timeouts, portVars, current, clicks,
                  data_tx>>
  BY DEF WriterRuns, WriterFails, WriterHasNoPort
<1>3. /\ writers' \subseteq writers
      /\ line'[p] = <<>> \/ (line'[p] = <<mbutton>> /\ writers' = {})
  <2>1. CASE WriterRuns(w)
    <3>1. line'[p] = Append(<<>>, mbutton)
      BY <1>1, <2>1 DEF WriterRuns, TypeOK
    <3>. QED  BY <1>1, <2>1, <3>1 DEF WriterRuns
  <2>2. CASE WriterFails(w) \/ WriterHasNoPort(w)
    BY <1>1, <2>2 DEF WriterFails, WriterHasNoPort
  <2>. QED  BY <2>1, <2>2
<1>4. NoAnswerYet(p)'
  BY <1>1, <1>2, <1>3 DEF NoAnswerYet, ReadyStores, HeaderOf, mainVars, readerVars, portVars
<1>. QED  BY <1>2, <1>4 DEF CleanPort, mainVars

(* The device answers once, and with the reply to the request.              *)
LEMMA CleanDevice ==
    ASSUME TypeOK, NEW p \in Ports, CleanPort(p), DeviceAnswers(p) \/ NobodyAnswers(p)
    PROVE  CleanPort(p)'
<1>1. /\ NoAnswerYet(p) /\ line[p] = <<mbutton>> /\ writers = {}
      /\ mpc \notin {"copy", "spawn"}
  BY DEF DeviceAnswers, NobodyAnswers, TakesFrame, CleanPort, NoAnswerYet, Arriving,
     ExchangeOver
<1>2. /\ UNCHANGED <<mainVars, readerVars, ticks, timeouts, portVars, current, clicks,
                     data_tx, writers>>
      /\ line'[p] = <<>> /\ Answer' = Answer
  <2>1. /\ UNCHANGED <<mainVars, readerVars, ticks, timeouts, portVars, current, clicks,
                       data_tx, writers>>
        /\ line'[p] = Tail(<<mbutton>>)
    BY <1>1 DEF DeviceAnswers, NobodyAnswers, TakesFrame, TypeOK
  <2>. QED  BY <2>1, AnswerKept DEF mainVars
<1>3. CASE NobodyAnswers(p)
  <2>1. wire' = wire
    BY <1>3 DEF NobodyAnswers
  <2>2. NoAnswerYet(p)'
    BY <1>1, <1>2, <2>1 DEF NoAnswerYet, ReadyStores, HeaderOf, mainVars, readerVars, portVars
  <2>. QED  BY <1>2, <2>2 DEF CleanPort, mainVars
<1>4. CASE DeviceAnswers(p)
  <2>1. Head(line[p]) = mbutton /\ mbutton \in Framed
    BY <1>1, <1>4 DEF DeviceAnswers
  <2>2. Answer \in Seq(Byte) /\ Len(Answer) = ReplyLen
    BY <2>1, HeadersOfFrames, ReplyBytes DEF Answer
  <2>3. wire'[p] = Answer
    <3>1. wire'[p] = <<>> \o Answer
      BY <1>1, <1>4, <2>1 DEF DeviceAnswers, NoAnswerYet, Answer, TypeOK
    <3>. QED  BY <2>2, <3>1
  <2>4. rpc'[p] = "read" /\ ~InHand(p)' /\ Taken(p)' = 0 /\ Filed(p)' = 0
    <3>1. rpc'[p] = "read" /\ ~InHand(p)'
      BY <1>1, <1>2 DEF NoAnswerYet, readerVars, InHand
    <3>2. Taken(p)' = 0
      BY <2>2, <2>3, ReplyAssumption DEF Taken
    <3>. QED  BY <3>1, <3>2 DEF Filed
  <2>5. InOrder(p)'
    BY <1>2, <2>2, <2>3, <2>4, ReplyAssumption DEF InOrder
  <2>6. Arriving(p)'
    BY <1>1, <1>2, <2>1, <2>4, <2>5 DEF Arriving, NoAnswerYet, ReadyStores, HeaderOf,
       mainVars, readerVars, portVars
  <2>. QED  BY <1>1, <1>2, <2>6 DEF CleanPort, mainVars
<1>. QED  BY <1>3, <1>4

LEMMA CleanStep ==
    ASSUME ~MidFrameGap, TypeOK, CleanInv, [Next]_vars
    PROVE  CleanInv'
<1>. SUFFICES ASSUME NEW p \in Ports, clean'[p] PROVE CleanPort(p)'
  BY DEF CleanInv
<1>1. CASE \E b \in Buttons : Click(b)
  BY <1>1, CleanClick
<1>2. CASE \A b \in Buttons : ~Click(b)
  <2>1. clean[p]
    <3>1. CASE UNCHANGED clean
      BY <3>1
    <3>2. CASE \E q \in Ports : \/ Reader(q) \/ ReaderReadsNothing(q) \/ ReaderFails(q)
                                \/ DeviceRefuses(q)
      BY <3>2 DEF Reader, ReaderStart, ReaderRead, ReaderHasNoPort, ReaderCancel,
         ReaderTest, ReaderLoad, ReaderStore, ReaderOverruns, ReaderIncrement,
         ReaderReadsNothing, ReaderFails, DeviceRefuses, TypeOK
    <3>3. CASE \/ CopyFrame \/ SpawnWriter \/ ReadyToReceive \/ CheckReceivedData
               \/ StopReceive
               \/ \E q \in Ports : \/ HandleTimeout(q) \/ TimerFires(q)
                                   \/ DeviceAnswers(q) \/ NobodyAnswers(q)
               \/ \E w \in writers : WriterRuns(w) \/ WriterFails(w) \/ WriterHasNoPort(w)
               \/ UNCHANGED vars
      BY <3>1, <3>3 DEF CopyFrame, SpawnWriter, ReadyToReceive, CheckReceivedData,
         StopReceive, HandleTimeout, TimerFires, DeviceAnswers, NobodyAnswers, WriterRuns,
         WriterFails, WriterHasNoPort, vars
    <3>. QED  BY <1>2, <3>2, <3>3 DEF Next, Main
  <2>2. CleanPort(p)
    BY <2>1 DEF CleanInv
  <2>3. CASE Reader(p) \/ ReaderReadsNothing(p) \/ ReaderFails(p)
    BY <2>2, <2>3, CleanReader
  <2>4. ASSUME NEW q \in Ports, q # p,
               \/ Reader(q) \/ ReaderReadsNothing(q) \/ ReaderFails(q)
               \/ TimerFires(q) \/ HandleTimeout(q)
               \/ DeviceAnswers(q) \/ DeviceRefuses(q) \/ NobodyAnswers(q)
        PROVE  CleanPort(p)'
    BY <2>2, <2>4, CleanElsewhere
  <2>5. CASE TimerFires(p) \/ HandleTimeout(p)
    BY <2>2, <2>5, CleanTimeout
  <2>6. CASE CopyFrame \/ SpawnWriter
    BY <2>2, <2>6, CleanRequest
  <2>7. CASE ReadyToReceive
    BY <2>2, <2>7, CleanReady
  <2>8. CASE CheckReceivedData \/ StopReceive
    BY <2>2, <2>8, CleanVerdict
  <2>9. ASSUME NEW w \in writers, WriterRuns(w) \/ WriterFails(w) \/ WriterHasNoPort(w)
        PROVE  CleanPort(p)'
    BY <2>2, <2>9, CleanWriter
  <2>10. CASE DeviceAnswers(p) \/ NobodyAnswers(p)
    BY <2>2, <2>10, CleanDevice
  <2>11. ~DeviceRefuses(p)
    BY DEF DeviceRefuses, TypeOK
  <2>12. CASE UNCHANGED vars
    <3>1. /\ ReaderOf(p)' = ReaderOf(p) /\ PortState(p)' = PortState(p)
          /\ UNCHANGED <<writers, data_tx, clicks, mbutton, mpc, mport, mleft>>
      BY <2>12 DEF vars, ReaderOf, PortState, readerVars, portVars, mainVars
    <3>. QED  BY <2>2, <3>1, CleanFrame
  <2>. QED  BY <1>2, <2>3, <2>4, <2>5, <2>6, <2>7, <2>8, <2>9, <2>10, <2>11, <2>12
            DEF Next, Main
<1>. QED  BY <1>1, <1>2

(* At the verdict of a clean exchange the buffer holds the whole reply.     *)
LEMMA CleanVerdictPasses ==
    ASSUME TypeOK, CleanInv, [Next]_vars, mpc = "verify", mpc' = "stop", clean[mport]
    PROVE  passed' # passed
<1>. DEFINE p == mport
<1>t. /\ p \in Ports /\ passed \in [Ports -> [Framed -> Nat]]
      /\ ReplyLen \in Nat /\ ReplyLen >= 3
  BY ReplyAssumption DEF TypeOK
<1>1. Arriving(p) /\ wire[p] = <<>> /\ rpc[p] = "read"
  BY <1>t DEF CleanInv, CleanPort, NoAnswerYet, Arriving, ExchangeOver
<1>2. /\ mbutton \in Framed /\ current[p] = HeaderOf(mbutton)
      /\ data_index[p] = ReplyLen
      /\ \A j \in 1..ReplyLen : rcv_data[p][j - 1] = Answer[j]
  <2>1. Filed(p) = ReplyLen
    BY <1>1, <1>t, EmptySeq DEF Filed, InHand, Taken
  <2>. QED  BY <1>1, <2>1 DEF Arriving, InOrder
<1>3. CRCPass(p)
  <2>1. Answer = Reply(current[p])
    BY <1>2 DEF Answer
  <2>2. rcv_data[p][0] = Answer[1] /\ rcv_data[p][1] = Answer[2]
    <3>1. 1 \in 1..ReplyLen /\ 2 \in 1..ReplyLen /\ 1 - 1 = 0 /\ 2 - 1 = 1
      BY <1>t
    <3>. QED  BY <1>2, <3>1
  <2>3. /\ Answer[1].pos = 1 /\ Answer[1].id = current[p].id
        /\ Answer[2].pos = 2 /\ Answer[2].func = current[p].func
    BY <2>1, <1>t DEF Reply
  <2>. QED  BY <1>2, <1>t, <2>1, <2>2, <2>3 DEF CRCPass
<1>4. CheckReceivedData
  BY OthersKeepWaiting DEF ReadyToReceive, StopReceive, HandleTimeout, Click, MainGoes
<1>5. passed'[p][mbutton] = passed[p][mbutton] + 1
  BY <1>2, <1>3, <1>4, <1>t DEF CheckReceivedData
<1>. QED  BY <1>5, <1>2, <1>t

(* A request clicked while nothing is under way on its port, and answered   *)
(* with one whole reply after ReadyToReceive, gets the verdict "CRC pass",  *)
(* whatever the other port does: for any reply length and any faults, on a  *)
(* line that leaves no gap of 20 ms within a reply.                         *)
THEOREM CleanExchangesPass ==
    ASSUME ~MidFrameGap
    PROVE  Spec => CleanExchangePasses
<1>1. Init => CleanInv
  BY DEF Init, CleanInv
<1>2. Typed /\ CleanInv /\ [Next]_vars => (Typed /\ CleanInv)'
  BY TypedStep, CleanStep DEF Typed
<1>3. Typed /\ CleanInv /\ [Next]_vars =>
          [(mpc = "verify" /\ mpc' = "stop" /\ clean[mport]) => passed' # passed]_vars
  BY CleanVerdictPasses DEF Typed
<1>. QED  BY <1>1, <1>2, <1>3, TypedInit, PTL DEF Spec, CleanExchangePasses

-----------------------------------------------------------------------------

-----------------------------------------------------------------------------
(* The CRC of the same master: ModbusCrc for any tables that hold the CRC   *)
(* of every byte.                                                           *)

(* Bounds kept folded, so that no prover writes them out in unary.          *)
ByteSize == 256
HalfWordSize == 32768
WordSize == 65536

LEMMA BitRange ==
    ASSUME NEW x \in Nat, NEW y \in Nat, NEW w \in Nat, w > 0
    PROVE  XorBit(x, y, w) \in Nat /\ XorBit(x, y, w) <= w
BY DEF XorBit

LEMMA DivOfHalf ==
    ASSUME NEW x \in Nat, NEW w \in Nat, w > 0
    PROVE  x \div (2 * w) = (x \div 2) \div w
<1>. DEFINE q == (x \div 2) \div w
            r == (x \div 2) % w
            b == x % 2
<1>1. q \in Nat /\ r \in Nat /\ r < w /\ b \in {0, 1} /\ x \div 2 = w * q + r
  OBVIOUS
<1>2. x = 2 * (w * q + r) + b
  BY <1>1
<1>. HIDE DEF q, r, b
<1>3. x = (2 * w) * q + (2 * r + b)
  BY <1>1, <1>2
<1>4. 2 * r + b \in 0..(2 * w - 1)
  BY <1>1
<1>5. x \div (2 * w) = q
  BY <1>1, <1>3, <1>4
<1>. QED  BY <1>5 DEF q

LEMMA BitOfHalves ==
    ASSUME NEW x \in Nat, NEW y \in Nat, NEW w \in Nat, w > 0
    PROVE  XorBit(x, y, 2 * w) = 2 * XorBit(x \div 2, y \div 2, w)
<1>1. x \div (2 * w) = (x \div 2) \div w /\ y \div (2 * w) = (y \div 2) \div w
  BY DivOfHalf
<1>2. XorBit(x, y, 2 * w) = (2 * w) * (((x \div 2) \div w + (y \div 2) \div w) % 2)
  BY <1>1 DEF XorBit
<1>. DEFINE s == ((x \div 2) \div w + (y \div 2) \div w) % 2
<1>3. s \in Int
  OBVIOUS
<1>4. XorBit(x, y, 2 * w) = (2 * w) * s /\ XorBit(x \div 2, y \div 2, w) = w * s
  BY <1>2 DEF XorBit
<1>. HIDE DEF s
<1>. QED  BY <1>3, <1>4

(* The bits from w up, and the one that follows them.                       *)
LEMMA NibbleOfHalves ==
    ASSUME NEW x \in Nat, NEW y \in Nat, NEW w \in Nat, w > 0
    PROVE  /\ XorBit(x, y, w) + 2 * Nibble(x \div 2, y \div 2, w)
                = Nibble(x, y, w) + XorBit(x, y, 16 * w)
           /\ Nibble(x, y, w) \in Int
           /\ XorBit(x, y, 16 * w) \in Int
<1>. DEFINE u == x \div 2
            v == y \div 2
<1>n. u \in Nat /\ v \in Nat
  OBVIOUS
<1>1. XorBit(x, y, 2 * w) = 2 * XorBit(u, v, w)
  BY BitOfHalves
<1>w. /\ 2 * w \in Nat /\ 2 * w > 0 /\ 4 * w \in Nat /\ 4 * w > 0
      /\ 8 * w \in Nat /\ 8 * w > 0 /\ 16 * w \in Nat /\ 16 * w > 0
      /\ 2 * (2 * w) = 4 * w /\ 2 * (4 * w) = 8 * w /\ 2 * (8 * w) = 16 * w
  OBVIOUS
<1>. HIDE DEF u, v
<1>b. \A k \in Nat : k > 0 => XorBit(x, y, 2 * k) = 2 * XorBit(u, v, k)
  BY BitOfHalves, SMT DEF u, v
<1>2. XorBit(x, y, 4 * w) = 2 * XorBit(u, v, 2 * w)
  BY <1>b, <1>w, Zenon
<1>3. XorBit(x, y, 8 * w) = 2 * XorBit(u, v, 4 * w)
  BY <1>b, <1>w, Zenon
<1>4. XorBit(x, y, 16 * w) = 2 * XorBit(u, v, 8 * w)
  BY <1>b, <1>w, Zenon
<1>5. /\ XorBit(x, y, w) \in Int /\ XorBit(u, v, w) \in Int
      /\ XorBit(u, v, 2 * w) \in Int /\ XorBit(u, v, 4 * w) \in Int
      /\ XorBit(u, v, 8 * w) \in Int
  BY ONLY <1>n, <1>w, x \in Nat, y \in Nat, w \in Nat, w > 0, SMT DEF XorBit
<1>. HIDE DEF u, v
<1>6. /\ XorBit(x, y, w) + 2 * Nibble(u, v, w) = Nibble(x, y, w) + XorBit(x, y, 16 * w)
      /\ Nibble(x, y, w) \in Int /\ XorBit(x, y, 16 * w) \in Int
  BY ONLY <1>1, <1>2, <1>3, <1>4, <1>5, SMT DEF Nibble
<1>. QED  BY <1>6 DEF u, v

LEMMA XorHalves ==
    ASSUME NEW x \in Nat, NEW y \in Nat, x < 65536, y < 65536
    PROVE  Xor(x, y) = 2 * Xor(x \div 2, y \div 2) + ((x + y) % 2)
<1>. DEFINE u == x \div 2
            v == y \div 2
            X(w) == XorBit(x, y, w)
            N(w) == Nibble(x, y, w)
            H(w) == Nibble(u, v, w)
<1>0. X(1) = (x + y) % 2 /\ (x + y) % 2 \in Int
  BY SMT DEF XorBit
<1>1. X(65536) = 0
  BY SMT DEF XorBit
<1>2. ASSUME NEW w \in Nat, w > 0
      PROVE  /\ X(w) + 2 * H(w) = N(w) + X(16 * w)
             /\ N(w) \in Int /\ X(16 * w) \in Int /\ H(w) \in Int
  <2>1. u \in Nat /\ v \in Nat
    OBVIOUS
  <2>2. H(w) \in Int
    BY ONLY <2>1, <1>2, NibbleOfHalves, Zenon
  <2>3. /\ X(w) + 2 * H(w) = N(w) + X(16 * w)
        /\ N(w) \in Int /\ X(16 * w) \in Int
    BY ONLY x \in Nat, y \in Nat, <1>2, NibbleOfHalves, Zenon
  <2>. QED  BY ONLY <2>2, <2>3
<1>4. Xor(x, y) = N(1) + N(16) + N(256) + N(4096)
  BY SMT DEF Xor
<1>5. Xor(u, v) = H(1) + H(16) + H(256) + H(4096)
  BY SMT DEF Xor
<1>. HIDE DEF u, v, X, N, H
<1>6. X(1) + 2 * H(1) = N(1) + X(16) /\ X(16) \in Int /\ N(1) \in Int /\ H(1) \in Int
  BY ONLY <1>2, SMT
<1>7. X(16) + 2 * H(16) = N(16) + X(256) /\ X(256) \in Int /\ N(16) \in Int /\ H(16) \in Int
  BY ONLY <1>2, SMT
<1>8. X(256) + 2 * H(256) = N(256) + X(4096) /\ X(4096) \in Int /\ N(256) \in Int /\ H(256) \in Int
  BY ONLY <1>2, SMT
<1>9. X(4096) + 2 * H(4096) = N(4096) + X(65536) /\ N(4096) \in Int /\ H(4096) \in Int
  BY ONLY <1>2, SMT
<1>10. Xor(x, y) = 2 * Xor(u, v) + ((x + y) % 2)
  BY ONLY <1>0, <1>1, <1>4, <1>5, <1>6, <1>7, <1>8, <1>9, SMT
<1>. QED  BY <1>10 DEF u, v
(* Numbers below 2 * n are put together from those below n.                 *)
LEMMA HalvesOf ==
    ASSUME NEW n \in Nat, NEW x \in Nat, x < 2 * n
    PROVE  x \div 2 \in Nat /\ x \div 2 < n /\ x = 2 * (x \div 2) + (x % 2)
OBVIOUS

LEMMA SameParts ==
    ASSUME NEW a \in Nat, NEW b \in Nat, a \div 2 = b \div 2, a % 2 = b % 2
    PROVE  a = b
OBVIOUS

(* The laws of exclusive or on numbers below n.                             *)
XorCloses(n) == \A x, y \in Nat : x < n /\ y < n => Xor(x, y) \in Nat /\ Xor(x, y) < n
XorCommutes(n) == \A x, y \in Nat : x < n /\ y < n => Xor(x, y) = Xor(y, x)
XorOfZero(n) == \A x \in Nat : x < n => Xor(x, 0) = x
XorUndoes(n) == \A x, y \in Nat : x < n /\ y < n => Xor(Xor(x, y), y) = x
XorSwaps(n) ==
    \A x, y, z \in Nat :
        x < n /\ y < n /\ z < n => Xor(Xor(x, y), z) = Xor(Xor(x, z), y)

Laws(n) == XorCloses(n) /\ XorCommutes(n) /\ XorOfZero(n) /\ XorUndoes(n) /\ XorSwaps(n)

LEMMA XorParts ==
    ASSUME NEW n \in Nat, 2 * n <= WordSize, XorCloses(n),
           NEW x \in Nat, NEW y \in Nat, x < 2 * n, y < 2 * n
    PROVE  /\ Xor(x, y) \in Nat /\ Xor(x, y) < 2 * n
           /\ Xor(x, y) \div 2 = Xor(x \div 2, y \div 2)
           /\ Xor(x, y) % 2 = (x + y) % 2
<1>0. x < 65536 /\ y < 65536
  BY SMT DEF WordSize
<1>1. Xor(x, y) = 2 * Xor(x \div 2, y \div 2) + ((x + y) % 2)
  BY <1>0, XorHalves, SMT
<1>2. /\ x \div 2 \in Nat /\ x \div 2 < n /\ y \div 2 \in Nat /\ y \div 2 < n
  BY HalvesOf
<1>3. Xor(x \div 2, y \div 2) \in Nat /\ Xor(x \div 2, y \div 2) < n
  BY ONLY <1>2, XorCloses(n), Zenon DEF XorCloses
<1>. QED  BY ONLY <1>1, <1>3, x \in Nat, y \in Nat, n \in Nat, SMT

LEMMA LawsDouble ==
    ASSUME NEW n \in Nat, n > 0, 2 * n <= WordSize, Laws(n)
    PROVE  Laws(2 * n)
<1>1. /\ XorCloses(n) /\ XorCommutes(n) /\ XorOfZero(n) /\ XorUndoes(n) /\ XorSwaps(n)
  BY DEF Laws
<1>2. \A x, y \in Nat : x < 2 * n /\ y < 2 * n =>
        /\ Xor(x, y) \in Nat /\ Xor(x, y) < 2 * n
        /\ Xor(x, y) \div 2 = Xor(x \div 2, y \div 2)
        /\ Xor(x, y) % 2 = (x + y) % 2
  BY ONLY <1>1, n \in Nat, 2 * n <= WordSize, XorParts, Zenon
<1>3. \A x \in Nat : x < 2 * n =>
        x \div 2 \in Nat /\ x \div 2 < n /\ x = 2 * (x \div 2) + (x % 2)
  BY ONLY n \in Nat, HalvesOf, Zenon
<1>4. XorCloses(2 * n)
  BY ONLY <1>2, Zenon DEF XorCloses
<1>5. XorCommutes(2 * n)
  <2>. SUFFICES ASSUME NEW x \in Nat, NEW y \in Nat, x < 2 * n, y < 2 * n
                PROVE  Xor(x, y) = Xor(y, x)
    BY Zenon DEF XorCommutes
  <2>1. Xor(x \div 2, y \div 2) = Xor(y \div 2, x \div 2)
    BY ONLY x \in Nat, y \in Nat, x < 2 * n, y < 2 * n, <1>3, <1>1, Zenon DEF XorCommutes
  <2>2. /\ Xor(x, y) \in Nat /\ Xor(x, y) \div 2 = Xor(x \div 2, y \div 2)
        /\ Xor(x, y) % 2 = (x + y) % 2
    BY ONLY x \in Nat, y \in Nat, x < 2 * n, y < 2 * n, <1>2, Zenon
  <2>3. /\ Xor(y, x) \in Nat /\ Xor(y, x) \div 2 = Xor(y \div 2, x \div 2)
        /\ Xor(y, x) % 2 = (y + x) % 2
    BY ONLY x \in Nat, y \in Nat, x < 2 * n, y < 2 * n, <1>2, Zenon
  <2>4. (x + y) % 2 = (y + x) % 2
    OBVIOUS
  <2>. QED  BY ONLY <2>1, <2>2, <2>3, <2>4, SameParts, Zenon
<1>6. XorOfZero(2 * n)
  <2>. SUFFICES ASSUME NEW x \in Nat, x < 2 * n
                PROVE  Xor(x, 0) = x
    BY Zenon DEF XorOfZero
  <2>1. 0 \in Nat /\ 0 < 2 * n /\ 0 \div 2 = 0 /\ (x + 0) % 2 = x % 2
    OBVIOUS
  <2>2. Xor(x \div 2, 0) = x \div 2
    BY ONLY x \in Nat, x < 2 * n, <1>3, <1>1, Zenon DEF XorOfZero
  <2>3. Xor(x, 0) \in Nat /\ Xor(x, 0) \div 2 = x \div 2 /\ Xor(x, 0) % 2 = x % 2
    BY ONLY x \in Nat, x < 2 * n, <2>1, <2>2, <1>2, Zenon
  <2>. QED  BY ONLY x \in Nat, <2>3, SameParts, Zenon
<1>7. XorUndoes(2 * n)
  <2>. SUFFICES ASSUME NEW x \in Nat, NEW y \in Nat, x < 2 * n, y < 2 * n
                PROVE  Xor(Xor(x, y), y) = x
    BY Zenon DEF XorUndoes
  <2>1. Xor(Xor(x \div 2, y \div 2), y \div 2) = x \div 2
    BY ONLY x \in Nat, y \in Nat, x < 2 * n, y < 2 * n, <1>3, <1>1, Zenon DEF XorUndoes
  <2>2. /\ Xor(x, y) \in Nat /\ Xor(x, y) < 2 * n
        /\ Xor(x, y) \div 2 = Xor(x \div 2, y \div 2)
        /\ Xor(x, y) % 2 = (x + y) % 2
    BY ONLY x \in Nat, y \in Nat, x < 2 * n, y < 2 * n, <1>2, Zenon
  <2>. DEFINE a == Xor(x, y)
              u == x \div 2
              v == y \div 2
  <2>5. (x + y + y) % 2 = x % 2
    OBVIOUS
  <2>6. /\ a \in Nat /\ a < 2 * n /\ a \div 2 = Xor(u, v) /\ a % 2 = (x + y) % 2
        /\ y \div 2 = v /\ Xor(Xor(u, v), v) = u
    BY ONLY <2>1, <2>2
  <2>. HIDE DEF a, u, v
  <2>9. /\ Xor(a, y) \in Nat /\ Xor(a, y) \div 2 = Xor(a \div 2, y \div 2)
        /\ Xor(a, y) % 2 = (a + y) % 2
    BY ONLY y \in Nat, y < 2 * n, <2>6, <1>2, Zenon
  <2>3. Xor(a, y) \in Nat /\ Xor(a, y) \div 2 = u /\ Xor(a, y) % 2 = (a + y) % 2
    BY ONLY <2>6, <2>9, Zenon
  <2>4. (a + y) % 2 = x % 2
    BY ONLY x \in Nat, y \in Nat, <2>5, <2>6, SMT
  <2>7. x \div 2 = u
    BY DEF u
  <2>8. Xor(a, y) = x
    BY ONLY x \in Nat, <2>3, <2>4, <2>7, SameParts, Zenon
  <2>. QED  BY ONLY <2>8 DEF a
<1>8. XorSwaps(2 * n)
  <2>. SUFFICES ASSUME NEW x \in Nat, NEW y \in Nat, NEW z \in Nat,
                       x < 2 * n, y < 2 * n, z < 2 * n
                PROVE  Xor(Xor(x, y), z) = Xor(Xor(x, z), y)
    BY Zenon DEF XorSwaps
  <2>. DEFINE a == Xor(x, y)
              c == Xor(x, z)
              u == x \div 2
              v == y \div 2
              w == z \div 2
  <2>1. u \in Nat /\ u < n /\ v \in Nat /\ v < n /\ w \in Nat /\ w < n
    BY ONLY x \in Nat, y \in Nat, z \in Nat, x < 2 * n, y < 2 * n, z < 2 * n, <1>3, Zenon
  <2>2. /\ a \in Nat /\ a < 2 * n /\ a \div 2 = Xor(u, v) /\ a % 2 = (x + y) % 2
    BY ONLY x \in Nat, y \in Nat, x < 2 * n, y < 2 * n, <1>2, Zenon
  <2>3. /\ c \in Nat /\ c < 2 * n /\ c \div 2 = Xor(u, w) /\ c % 2 = (x + z) % 2
    BY ONLY x \in Nat, z \in Nat, x < 2 * n, z < 2 * n, <1>2, Zenon
  <2>4. y \div 2 = v /\ z \div 2 = w
    OBVIOUS
  <2>. HIDE DEF a, c, u, v, w
  <2>5. Xor(Xor(u, v), w) = Xor(Xor(u, w), v)
    BY ONLY <2>1, <1>1, SMT DEF XorSwaps
  <2>10. /\ Xor(a, z) \in Nat /\ Xor(a, z) \div 2 = Xor(a \div 2, z \div 2)
         /\ Xor(a, z) % 2 = (a + z) % 2
    BY ONLY z \in Nat, z < 2 * n, <2>2, <1>2, Zenon
  <2>6. /\ Xor(a, z) \in Nat /\ Xor(a, z) \div 2 = Xor(Xor(u, v), w)
        /\ Xor(a, z) % 2 = (a + z) % 2
    BY ONLY <2>2, <2>4, <2>10, Zenon
  <2>11. /\ Xor(c, y) \in Nat /\ Xor(c, y) \div 2 = Xor(c \div 2, y \div 2)
         /\ Xor(c, y) % 2 = (c + y) % 2
    BY ONLY y \in Nat, y < 2 * n, <2>3, <1>2, Zenon
  <2>7. /\ Xor(c, y) \in Nat /\ Xor(c, y) \div 2 = Xor(Xor(u, w), v)
        /\ Xor(c, y) % 2 = (c + y) % 2
    BY ONLY <2>3, <2>4, <2>11, Zenon
  <2>8. (a + z) % 2 = (c + y) % 2
    BY ONLY x \in Nat, y \in Nat, z \in Nat, <2>2, <2>3, SMT
  <2>9. Xor(a, z) = Xor(c, y)
    BY ONLY <2>5, <2>6, <2>7, <2>8, SameParts, Zenon
  <2>. QED  BY ONLY <2>9 DEF a, c
<1>. QED  BY ONLY <1>4, <1>5, <1>6, <1>7, <1>8 DEF Laws

LEMMA XorLaws == Laws(ByteSize) /\ Laws(HalfWordSize) /\ Laws(WordSize)
<1>0. Laws(1)
  <2>1. Xor(0, 0) = 0
    BY SMT DEF Xor, Nibble, XorBit
  <2>. QED  BY ONLY <2>1, SMT DEF Laws, XorCloses, XorCommutes, XorOfZero, XorUndoes, XorSwaps
<1>d. \A n \in Nat : n > 0 /\ 2 * n <= WordSize /\ Laws(n) => Laws(2 * n)
  BY ONLY LawsDouble, Zenon
<1>1. Laws(2)
  BY ONLY <1>0, <1>d, 1 \in Nat /\ 1 > 0 /\ 2 * 1 <= 65536 /\ 2 * 1 = 2, SMT DEF WordSize
<1>2. Laws(4)
  BY ONLY <1>1, <1>d, 2 \in Nat /\ 2 > 0 /\ 2 * 2 <= 65536 /\ 2 * 2 = 4, SMT DEF WordSize
<1>3. Laws(8)
  BY ONLY <1>2, <1>d, 4 \in Nat /\ 4 > 0 /\ 2 * 4 <= 65536 /\ 2 * 4 = 8, SMT DEF WordSize
<1>4. Laws(16)
  BY ONLY <1>3, <1>d, 8 \in Nat /\ 8 > 0 /\ 2 * 8 <= 65536 /\ 2 * 8 = 16, SMT DEF WordSize
<1>5. Laws(32)
  BY ONLY <1>4, <1>d, 16 \in Nat /\ 16 > 0 /\ 2 * 16 <= 65536 /\ 2 * 16 = 32, SMT DEF WordSize
<1>6. Laws(64)
  BY ONLY <1>5, <1>d, 32 \in Nat /\ 32 > 0 /\ 2 * 32 <= 65536 /\ 2 * 32 = 64, SMT DEF WordSize
<1>7. Laws(128)
  BY ONLY <1>6, <1>d, 64 \in Nat /\ 64 > 0 /\ 2 * 64 <= 65536 /\ 2 * 64 = 128, SMT DEF WordSize
<1>8. Laws(256)
  BY ONLY <1>7, <1>d, 128 \in Nat /\ 128 > 0 /\ 2 * 128 <= 65536 /\ 2 * 128 = 256, SMT DEF WordSize
<1>9. Laws(512)
  BY ONLY <1>8, <1>d, 256 \in Nat /\ 256 > 0 /\ 2 * 256 <= 65536 /\ 2 * 256 = 512, SMT DEF WordSize
<1>10. Laws(1024)
  BY ONLY <1>9, <1>d, 512 \in Nat /\ 512 > 0 /\ 2 * 512 <= 65536 /\ 2 * 512 = 1024, SMT DEF WordSize
<1>11. Laws(2048)
  BY ONLY <1>10, <1>d, 1024 \in Nat /\ 1024 > 0 /\ 2 * 1024 <= 65536 /\ 2 * 1024 = 2048,
     SMT DEF WordSize
<1>12. Laws(4096)
  BY ONLY <1>11, <1>d, 2048 \in Nat /\ 2048 > 0 /\ 2 * 2048 <= 65536 /\ 2 * 2048 = 4096,
     SMT DEF WordSize
<1>13. Laws(8192)
  BY ONLY <1>12, <1>d, 4096 \in Nat /\ 4096 > 0 /\ 2 * 4096 <= 65536 /\ 2 * 4096 = 8192,
     SMT DEF WordSize
<1>14. Laws(16384)
  BY ONLY <1>13, <1>d, 8192 \in Nat /\ 8192 > 0 /\ 2 * 8192 <= 65536 /\ 2 * 8192 = 16384,
     SMT DEF WordSize
<1>15. Laws(32768)
  BY ONLY <1>14, <1>d, 16384 \in Nat /\ 16384 > 0 /\ 2 * 16384 <= 65536 /\ 2 * 16384 = 32768,
     SMT DEF WordSize
<1>16. Laws(65536)
  BY ONLY <1>15, <1>d, 32768 \in Nat /\ 32768 > 0 /\ 2 * 32768 <= 65536 /\ 2 * 32768 = 65536,
     SMT DEF WordSize
<1>. QED  BY ONLY <1>8, <1>15, <1>16, SMT DEF ByteSize, HalfWordSize, WordSize

LEMMA XorOfBytes ==
    ASSUME NEW h \in Nat, NEW l \in Nat, NEW g \in Nat, NEW m \in Nat,
           h < ByteSize, l < ByteSize, g < ByteSize, m < ByteSize
    PROVE  Xor(256 * h + l, 256 * g + m) = 256 * Xor(h, g) + Xor(l, m)
<1>. DEFINE x == 256 * h + l
            y == 256 * g + m
<1>0. h < 256 /\ l < 256 /\ g < 256 /\ m < 256
  BY SMT DEF ByteSize
<1>1. Nibble(x, y, 1) = Nibble(l, m, 1)
  <2>1. x \div 1 = 256 * h + l /\ y \div 1 = 256 * g + m /\ l \div 1 = l /\ m \div 1 = m
    BY SMT
  <2>2. x \div 2 = 128 * h + (l \div 2) /\ y \div 2 = 128 * g + (m \div 2)
    BY SMT
  <2>3. x \div 4 = 64 * h + (l \div 4) /\ y \div 4 = 64 * g + (m \div 4)
    BY SMT
  <2>4. x \div 8 = 32 * h + (l \div 8) /\ y \div 8 = 32 * g + (m \div 8)
    BY SMT
  <2>. HIDE DEF x, y
  <2>5. XorBit(x, y, 1) = XorBit(l, m, 1)
    BY <2>1, SMT DEF XorBit
  <2>6. XorBit(x, y, 2) = XorBit(l, m, 2)
    BY <2>2, SMT DEF XorBit
  <2>7. XorBit(x, y, 4) = XorBit(l, m, 4)
    BY <2>3, SMT DEF XorBit
  <2>8. XorBit(x, y, 8) = XorBit(l, m, 8)
    BY <2>4, SMT DEF XorBit
  <2>. QED  BY ONLY <2>5, <2>6, <2>7, <2>8, SMT DEF Nibble
<1>2. Nibble(x, y, 16) = Nibble(l, m, 16)
  <2>1. x \div 16 = 16 * h + (l \div 16) /\ y \div 16 = 16 * g + (m \div 16)
    BY SMT
  <2>2. x \div 32 = 8 * h + (l \div 32) /\ y \div 32 = 8 * g + (m \div 32)
    BY SMT
  <2>3. x \div 64 = 4 * h + (l \div 64) /\ y \div 64 = 4 * g + (m \div 64)
    BY SMT
  <2>4. x \div 128 = 2 * h + (l \div 128) /\ y \div 128 = 2 * g + (m \div 128)
    BY SMT
  <2>. HIDE DEF x, y
  <2>5. XorBit(x, y, 16) = XorBit(l, m, 16)
    BY <2>1, SMT DEF XorBit
  <2>6. XorBit(x, y, 32) = XorBit(l, m, 32)
    BY <2>2, SMT DEF XorBit
  <2>7. XorBit(x, y, 64) = XorBit(l, m, 64)
    BY <2>3, SMT DEF XorBit
  <2>8. XorBit(x, y, 128) = XorBit(l, m, 128)
    BY <2>4, SMT DEF XorBit
  <2>. QED  BY ONLY <2>5, <2>6, <2>7, <2>8, SMT DEF Nibble
<1>3. Nibble(x, y, 256) = 256 * Nibble(h, g, 1) /\ Nibble(h, g, 1) \in Int
  <2>1. x \div 256 = h \div 1 /\ y \div 256 = g \div 1
    BY <1>0, SMT
  <2>2. x \div 512 = h \div 2 /\ y \div 512 = g \div 2
    BY <1>0, SMT
  <2>3. x \div 1024 = h \div 4 /\ y \div 1024 = g \div 4
    BY <1>0, SMT
  <2>4. x \div 2048 = h \div 8 /\ y \div 2048 = g \div 8
    BY <1>0, SMT
  <2>. HIDE DEF x, y
  <2>5. XorBit(x, y, 256) = 256 * XorBit(h, g, 1) /\ XorBit(h, g, 1) \in Int
    <3>. DEFINE s == (h \div 1 + g \div 1) % 2
    <3>1. s \in Int
      OBVIOUS
    <3>2. XorBit(x, y, 256) = 256 * s /\ XorBit(h, g, 1) = 1 * s
      BY ONLY <2>1 DEF XorBit
    <3>. QED  BY ONLY <3>1, <3>2, SMT
  <2>6. XorBit(x, y, 512) = 256 * XorBit(h, g, 2) /\ XorBit(h, g, 2) \in Int
    <3>. DEFINE s == (h \div 2 + g \div 2) % 2
    <3>1. s \in Int
      OBVIOUS
    <3>2. XorBit(x, y, 512) = 512 * s /\ XorBit(h, g, 2) = 2 * s
      BY ONLY <2>2 DEF XorBit
    <3>. QED  BY ONLY <3>1, <3>2, SMT
  <2>7. XorBit(x, y, 1024) = 256 * XorBit(h, g, 4) /\ XorBit(h, g, 4) \in Int
    BY <2>3, SMT DEF XorBit
  <2>8. XorBit(x, y, 2048) = 256 * XorBit(h, g, 8) /\ XorBit(h, g, 8) \in Int
    BY <2>4, SMT DEF XorBit
  <2>. QED  BY ONLY <2>5, <2>6, <2>7, <2>8, SMT DEF Nibble
<1>4. Nibble(x, y, 4096) = 256 * Nibble(h, g, 16) /\ Nibble(h, g, 16) \in Int
  <2>1. x \div 4096 = h \div 16 /\ y \div 4096 = g \div 16
    BY <1>0, SMT
  <2>2. x \div 8192 = h \div 32 /\ y \div 8192 = g \div 32
    BY <1>0, SMT
  <2>3. x \div 16384 = h \div 64 /\ y \div 16384 = g \div 64
    BY <1>0, SMT
  <2>4. x \div 32768 = h \div 128 /\ y \div 32768 = g \div 128
    BY <1>0, SMT
  <2>. HIDE DEF x, y
  <2>5. XorBit(x, y, 4096) = 256 * XorBit(h, g, 16) /\ XorBit(h, g, 16) \in Int
    BY <2>1, SMT DEF XorBit
  <2>6. XorBit(x, y, 8192) = 256 * XorBit(h, g, 32) /\ XorBit(h, g, 32) \in Int
    BY <2>2, SMT DEF XorBit
  <2>7. XorBit(x, y, 16384) = 256 * XorBit(h, g, 64) /\ XorBit(h, g, 64) \in Int
    BY <2>3, SMT DEF XorBit
  <2>8. XorBit(x, y, 32768) = 256 * XorBit(h, g, 128) /\ XorBit(h, g, 128) \in Int
    BY <2>4, SMT DEF XorBit
  <2>. QED  BY ONLY <2>5, <2>6, <2>7, <2>8, SMT DEF Nibble
<1>5. ASSUME NEW a \in Nat, NEW b \in Nat, a < 256, b < 256
      PROVE  Nibble(a, b, 256) = 0 /\ Nibble(a, b, 4096) = 0
  BY ONLY <1>5, SMT DEF Nibble, XorBit
<1>6. /\ Nibble(h, g, 256) = 0 /\ Nibble(h, g, 4096) = 0
      /\ Nibble(l, m, 256) = 0 /\ Nibble(l, m, 4096) = 0
  BY <1>0, <1>5, SMT
<1>7. Nibble(l, m, 1) \in Int /\ Nibble(l, m, 16) \in Int
  BY SMT DEF Nibble, XorBit
<1>. HIDE DEF x, y
<1>8. Xor(x, y) = 256 * Xor(h, g) + Xor(l, m)
  BY ONLY <1>1, <1>2, <1>3, <1>4, <1>6, <1>7, SMT DEF Xor
<1>. QED  BY <1>8 DEF x, y

IsByte(x) == x \in Nat /\ x < ByteSize
IsWord(x) == x \in Nat /\ x < WordSize

(* The laws, and the halves of an exclusive or, for 16-bit numbers.         *)
LEMMA WordLaws ==
    ASSUME NEW x, NEW y, IsWord(x), IsWord(y)
    PROVE  /\ IsWord(Xor(x, y))
           /\ Xor(x, y) = Xor(y, x)
           /\ Xor(x, 0) = x
           /\ Xor(Xor(x, y), y) = x
<1>1. x \in Nat /\ x < WordSize /\ y \in Nat /\ y < WordSize
  BY DEF IsWord
<1>2. /\ XorCloses(WordSize) /\ XorCommutes(WordSize) /\ XorOfZero(WordSize)
      /\ XorUndoes(WordSize)
  BY XorLaws DEF Laws
<1>3. IsWord(Xor(x, y))
  BY ONLY <1>1, <1>2, Zenon DEF XorCloses, IsWord
<1>4. Xor(x, y) = Xor(y, x)
  BY ONLY <1>1, <1>2, Zenon DEF XorCommutes
<1>5. Xor(x, 0) = x
  BY ONLY <1>1, <1>2, Zenon DEF XorOfZero
<1>6. Xor(Xor(x, y), y) = x
  BY ONLY <1>1, <1>2, Zenon DEF XorUndoes
<1>. QED  BY ONLY <1>3, <1>4, <1>5, <1>6

LEMMA WordSwaps ==
    ASSUME NEW x, NEW y, NEW z, IsWord(x), IsWord(y), IsWord(z)
    PROVE  Xor(Xor(x, y), z) = Xor(Xor(x, z), y)
<1>1. /\ x \in Nat /\ x < WordSize /\ y \in Nat /\ y < WordSize
      /\ z \in Nat /\ z < WordSize
  BY DEF IsWord
<1>2. XorSwaps(WordSize)
  BY XorLaws DEF Laws
<1>. QED  BY ONLY <1>1, <1>2, SMT DEF XorSwaps

LEMMA WordHalves ==
    ASSUME NEW x, NEW y, IsWord(x), IsWord(y)
    PROVE  /\ Xor(x, y) \div 2 = Xor(x \div 2, y \div 2)
           /\ Xor(x, y) % 2 = (x + y) % 2
<1>1. XorCloses(HalfWordSize)
  BY XorLaws DEF Laws
<1>2. /\ HalfWordSize \in Nat /\ 2 * HalfWordSize <= WordSize
      /\ x \in Nat /\ y \in Nat /\ x < 2 * HalfWordSize /\ y < 2 * HalfWordSize
  BY SMT DEF HalfWordSize, WordSize, IsWord
<1>. QED  BY ONLY <1>1, <1>2, XorParts, Zenon

(* A bit shifted out of a number, and one shifted out of an even number     *)
(* that is added to it.                                                     *)
Poly == 40961
LEMMA ShiftOutBits ==
    ASSUME NEW c, IsWord(c)
    PROVE  /\ ShiftOut(c) = IF c % 2 = 1 THEN Xor(c \div 2, Poly) ELSE c \div 2
           /\ IsWord(c \div 2) /\ IsWord(Poly) /\ IsWord(ShiftOut(c))
<1>1. ShiftOut(c) = IF c % 2 = 1 THEN Xor(c \div 2, Poly) ELSE c \div 2
  BY SMT DEF ShiftOut, Poly
<1>2. IsWord(c \div 2) /\ IsWord(Poly)
  BY SMT DEF IsWord, Poly, WordSize
<1>3. IsWord(Xor(c \div 2, Poly))
  BY ONLY <1>2, WordLaws, Zenon
<1>. QED  BY ONLY <1>1, <1>2, <1>3, Zenon

LEMMA ShiftOutLinear ==
    ASSUME NEW u, IsWord(u), NEW v \in Nat, v < HalfWordSize
    PROVE  ShiftOut(Xor(u, 2 * v)) = Xor(ShiftOut(u), v)
<1>1. IsWord(v) /\ IsWord(2 * v) /\ (2 * v) \div 2 = v /\ (u + 2 * v) % 2 = u % 2
  BY SMT DEF IsWord, WordSize, HalfWordSize
<1>. DEFINE w == Xor(u, 2 * v)
            d == u \div 2
<1>2. IsWord(w) /\ w \div 2 = Xor(d, v) /\ w % 2 = u % 2
  <2>1. IsWord(w)
    BY ONLY <1>1, IsWord(u), WordLaws, Zenon
  <2>2. w \div 2 = Xor(d, (2 * v) \div 2) /\ w % 2 = (u + 2 * v) % 2
    BY ONLY <1>1, IsWord(u), WordHalves, Zenon
  <2>. QED  BY ONLY <2>1, <2>2, <1>1, Zenon
<1>3. /\ ShiftOut(u) = IF u % 2 = 1 THEN Xor(d, Poly) ELSE d
      /\ IsWord(d) /\ IsWord(Poly)
  BY ONLY IsWord(u), ShiftOutBits, Zenon
<1>. HIDE DEF d, w
<1>4. ShiftOut(w) = IF w % 2 = 1 THEN Xor(w \div 2, Poly) ELSE w \div 2
  BY ONLY <1>2, ShiftOutBits, Zenon
<1>5. Xor(Xor(d, v), Poly) = Xor(Xor(d, Poly), v)
  BY ONLY <1>1, <1>3, WordSwaps, Zenon
<1>6. ShiftOut(w) = Xor(ShiftOut(u), v)
  BY ONLY <1>2, <1>3, <1>4, <1>5, Zenon
<1>. QED  BY <1>6 DEF w

LEMMA Shift2Linear ==
    ASSUME NEW u, IsWord(u), NEW v \in Nat, 2 * v < HalfWordSize
    PROVE  Shift2(Xor(u, 4 * v)) = Xor(Shift2(u), v) /\ IsWord(Shift2(u))
<1>1. /\ 2 * v \in Nat /\ v < HalfWordSize /\ 2 * (2 * v) = 4 * v
  BY SMT DEF HalfWordSize
<1>2. ShiftOut(Xor(u, 2 * (2 * v))) = Xor(ShiftOut(u), 2 * v)
  BY ONLY <1>1, IsWord(u), 2 * v < HalfWordSize, ShiftOutLinear, Zenon
<1>3. IsWord(ShiftOut(u)) /\ IsWord(ShiftOut(ShiftOut(u)))
  BY ONLY IsWord(u), ShiftOutBits, Zenon
<1>4. ShiftOut(Xor(ShiftOut(u), 2 * v)) = Xor(ShiftOut(ShiftOut(u)), v)
  BY ONLY <1>1, <1>3, v \in Nat, ShiftOutLinear, Zenon
<1>. QED  BY ONLY <1>1, <1>2, <1>3, <1>4, Zenon DEF Shift2

LEMMA Shift4Linear ==
    ASSUME NEW u, IsWord(u), NEW v \in Nat, 8 * v < HalfWordSize
    PROVE  Shift4(Xor(u, 16 * v)) = Xor(Shift4(u), v) /\ IsWord(Shift4(u))
<1>1. /\ 4 * v \in Nat /\ 2 * v < HalfWordSize /\ 2 * (4 * v) < HalfWordSize
      /\ 4 * (4 * v) = 16 * v
  BY SMT DEF HalfWordSize
<1>2. Shift2(Xor(u, 4 * (4 * v))) = Xor(Shift2(u), 4 * v) /\ IsWord(Shift2(u))
  BY ONLY <1>1, IsWord(u), Shift2Linear, Zenon
<1>3. /\ Shift2(Xor(Shift2(u), 4 * v)) = Xor(Shift2(Shift2(u)), v)
      /\ IsWord(Shift2(Shift2(u)))
  BY ONLY <1>1, <1>2, v \in Nat, Shift2Linear, Zenon
<1>. QED  BY ONLY <1>1, <1>2, <1>3, Zenon DEF Shift4

(* A whole byte is shifted out: what was in the other half is only moved.   *)
LEMMA Shift8Linear ==
    ASSUME NEW u, IsWord(u), NEW v, IsByte(v)
    PROVE  Shift8(Xor(u, 256 * v)) = Xor(Shift8(u), v) /\ IsWord(Shift8(u))
<1>1. /\ v \in Nat /\ 16 * v \in Nat /\ 8 * v < HalfWordSize
      /\ 8 * (16 * v) < HalfWordSize
  BY SMT DEF HalfWordSize, IsByte, ByteSize
<1>2. Shift4(Xor(u, 16 * (16 * v))) = Xor(Shift4(u), 16 * v) /\ IsWord(Shift4(u))
  BY ONLY <1>1, IsWord(u), Shift4Linear, Zenon
<1>3. /\ Shift4(Xor(Shift4(u), 16 * v)) = Xor(Shift4(Shift4(u)), v)
      /\ IsWord(Shift4(Shift4(u)))
  BY ONLY <1>1, <1>2, Shift4Linear, Zenon
<1>4. 16 * (16 * v) = 256 * v
  BY <1>1, SMT
<1>5. Shift8(Xor(u, 256 * v)) = Shift4(Shift4(Xor(u, 16 * (16 * v))))
  BY <1>4, SMT DEF Shift8
<1>. QED  BY ONLY <1>2, <1>3, <1>5, Zenon DEF Shift8

LEMMA ByteLaws ==
    ASSUME NEW x, NEW y, IsByte(x), IsByte(y)
    PROVE  IsByte(Xor(x, y)) /\ Xor(x, y) = Xor(y, x) /\ Xor(x, 0) = x /\ Xor(0, x) = x
<1>1. x \in Nat /\ x < ByteSize /\ y \in Nat /\ y < ByteSize /\ 0 \in Nat /\ 0 < ByteSize
  BY SMT DEF IsByte, ByteSize
<1>2. XorCloses(ByteSize) /\ XorCommutes(ByteSize) /\ XorOfZero(ByteSize)
  BY XorLaws DEF Laws
<1>3. IsByte(Xor(x, y))
  BY ONLY <1>1, <1>2, Zenon DEF XorCloses, IsByte
<1>4. Xor(x, y) = Xor(y, x) /\ Xor(0, x) = Xor(x, 0)
  BY ONLY <1>1, <1>2, Zenon DEF XorCommutes
<1>5. Xor(x, 0) = x
  BY ONLY <1>1, <1>2, Zenon DEF XorOfZero
<1>. QED  BY ONLY <1>3, <1>4, <1>5

(* The CRC that two bytes of the loop of crc16 stand for.                   *)
CrcValue(c) == c.lo * 256 + c.hi
IsCrc(c) == c = [hi |-> c.hi, lo |-> c.lo] /\ IsByte(c.hi) /\ IsByte(c.lo)

LEMMA TableEntries ==
    ASSUME NEW j, IsByte(j)
    PROVE  /\ IsByte(table_crc_hi[j + 1]) /\ IsByte(table_crc_lo[j + 1])
           /\ Shift8(j) = 256 * table_crc_lo[j + 1] + table_crc_hi[j + 1]
<1>1. j \in Octet /\ j + 1 \in Entries
  BY SMT DEF IsByte, ByteSize, Octet, Entries
<1>2. /\ table_crc_hi[j + 1] \in Octet /\ table_crc_lo[j + 1] \in Octet
      /\ table_crc_lo[j + 1] * 256 + table_crc_hi[j + 1] = Shift8(j)
  BY ONLY <1>1, TablesAssumption, Zenon
<1>. QED  BY ONLY <1>2, SMT DEF IsByte, ByteSize, Octet

(* One lookup in the two tables is one byte of the CRC-16.                  *)
LEMMA LookupIsCrc ==
    ASSUME NEW c, IsCrc(c), NEW b, IsByte(b)
    PROVE  /\ IsCrc(Lookup(c, b))
           /\ CrcValue(Lookup(c, b)) = CrcReference(CrcValue(c), b)
<1>. DEFINE j == Xor(c.hi, b)
            thi == table_crc_hi[j + 1]
            tlo == table_crc_lo[j + 1]
            lo == c.lo
            hi == c.hi
<1>1. IsByte(j) /\ IsByte(0) /\ IsByte(lo) /\ IsByte(hi)
  <2>1. IsByte(lo) /\ IsByte(hi)
    BY DEF IsCrc
  <2>2. IsByte(0)
    BY SMT DEF IsByte, ByteSize
  <2>. QED  BY ONLY <2>1, <2>2, IsByte(b), ByteLaws, Zenon
<1>2. /\ IsByte(thi) /\ IsByte(tlo) /\ Shift8(j) = 256 * tlo + thi
  BY ONLY <1>1, TableEntries, Zenon
<1>3. Lookup(c, b) = [hi |-> Xor(lo, thi), lo |-> tlo]
  BY Zenon DEF Lookup
<1>4. CrcReference(CrcValue(c), b) = Shift8(Xor(lo * 256 + hi, b))
  BY Zenon DEF CrcReference, CrcValue
<1>5. Xor(hi, b) = j
  OBVIOUS
<1>. HIDE DEF j, thi, tlo, lo, hi
<1>6. IsByte(Xor(lo, thi)) /\ Xor(lo, thi) = Xor(thi, lo)
  BY ONLY <1>1, <1>2, ByteLaws, Zenon
<1>b. \A h, l, g, m \in Nat : IsByte(h) /\ IsByte(l) /\ IsByte(g) /\ IsByte(m) =>
        Xor(256 * h + l, 256 * g + m) = 256 * Xor(h, g) + Xor(l, m)
  BY ONLY XorOfBytes, SMT DEF IsByte
<1>n. /\ lo \in Nat /\ hi \in Nat /\ thi \in Nat /\ tlo \in Nat /\ b \in Nat /\ 0 \in Nat
      /\ j \in Nat
  BY <1>1, <1>2 DEF IsByte
<1>7. Xor(256 * lo + hi, 256 * 0 + b) = 256 * lo + j
  <2>1. Xor(256 * lo + hi, 256 * 0 + b) = 256 * Xor(lo, 0) + Xor(hi, b)
    BY ONLY <1>b, <1>n, <1>1, IsByte(b), SMT
  <2>2. Xor(lo, 0) = lo
    BY ONLY <1>1, ByteLaws, Zenon
  <2>. QED  BY ONLY <2>1, <2>2, <1>5
<1>8. Xor(256 * 0 + j, 256 * lo + 0) = 256 * lo + j
  <2>1. Xor(256 * 0 + j, 256 * lo + 0) = 256 * Xor(0, lo) + Xor(j, 0)
    BY ONLY <1>b, <1>n, <1>1, SMT
  <2>2. Xor(0, lo) = lo /\ Xor(j, 0) = j
    BY ONLY <1>1, ByteLaws, Zenon
  <2>. QED  BY ONLY <2>1, <2>2
<1>9. Xor(256 * tlo + thi, 256 * 0 + lo) = 256 * tlo + Xor(lo, thi)
  <2>1. Xor(256 * tlo + thi, 256 * 0 + lo) = 256 * Xor(tlo, 0) + Xor(thi, lo)
    BY ONLY <1>b, <1>n, <1>1, <1>2, SMT
  <2>2. Xor(tlo, 0) = tlo
    BY ONLY <1>1, <1>2, ByteLaws, Zenon
  <2>. QED  BY ONLY <2>1, <2>2, <1>6
<1>10. Shift8(Xor(j, 256 * lo)) = Xor(Shift8(j), lo)
  <2>1. IsWord(j)
    BY <1>1, SMT DEF IsByte, IsWord, ByteSize, WordSize
  <2>. QED  BY ONLY <2>1, <1>1, Shift8Linear, Zenon
<1>11. /\ 256 * 0 + b = b /\ 256 * 0 + j = j /\ 256 * lo + 0 = 256 * lo /\ 256 * 0 + lo = lo
       /\ lo * 256 + hi = 256 * lo + hi /\ tlo * 256 + Xor(lo, thi) = 256 * tlo + Xor(lo, thi)
  BY ONLY <1>n, <1>6, SMT DEF IsByte
<1>12. CrcReference(CrcValue(c), b) = tlo * 256 + Xor(lo, thi)
  <2>1. Xor(lo * 256 + hi, b) = Xor(j, 256 * lo)
    BY ONLY <1>7, <1>8, <1>11
  <2>. QED  BY ONLY <2>1, <1>2, <1>4, <1>9, <1>10, <1>11
<1>13. CrcValue(Lookup(c, b)) = tlo * 256 + Xor(lo, thi)
  BY ONLY <1>3 DEF CrcValue
<1>14. IsCrc(Lookup(c, b))
  BY ONLY <1>2, <1>3, <1>6 DEF IsCrc
<1>. QED  BY ONLY <1>12, <1>13, <1>14

(* No two numbers lose a bit to the same number: subtracting the polynomial *)
(* sets the bit that halving leaves clear.                                  *)
LEMMA PolySetsTheTop ==
    ASSUME NEW y \in Nat, y < HalfWordSize
    PROVE  ~(Xor(y, Poly) < HalfWordSize)
<1>1. XorCloses(HalfWordSize)
  BY XorLaws DEF Laws
<1>2. /\ IsWord(y) /\ IsWord(Poly) /\ IsWord(0) /\ ~(Poly < HalfWordSize)
  BY SMT DEF IsWord, Poly, WordSize, HalfWordSize
<1>3. Xor(Xor(y, Poly), y) = Poly
  <2>1. Xor(Xor(y, Poly), y) = Xor(Xor(y, y), Poly)
    BY ONLY <1>2, WordSwaps, Zenon
  <2>2. Xor(y, y) = 0
    <3>1. Xor(0, y) = y
      <4>1. Xor(0, y) = Xor(y, 0) /\ Xor(y, 0) = y
        BY ONLY <1>2, WordLaws, Zenon
      <4>. QED  BY ONLY <4>1
    <3>2. Xor(Xor(0, y), y) = 0
      BY ONLY <1>2, WordLaws, Zenon
    <3>. QED  BY ONLY <3>1, <3>2
  <2>3. Xor(0, Poly) = Poly
    <3>1. Xor(0, Poly) = Xor(Poly, 0) /\ Xor(Poly, 0) = Poly
      BY ONLY <1>2, WordLaws, Zenon
    <3>. QED  BY ONLY <3>1
  <2>. QED  BY ONLY <2>1, <2>2, <2>3
<1>4. Xor(y, Poly) \in Nat
  <2>1. IsWord(Xor(y, Poly))
    BY ONLY <1>2, WordLaws, Zenon
  <2>. QED  BY <2>1 DEF IsWord
<1>. DEFINE t == Xor(y, Poly)
<1>5. t \in Nat /\ Xor(t, y) = Poly
  BY ONLY <1>3, <1>4
<1>. HIDE DEF t
<1>6. t < HalfWordSize => Xor(t, y) < HalfWordSize
  BY ONLY <1>1, <1>5, y \in Nat, y < HalfWordSize, Zenon DEF XorCloses
<1>7. ~(t < HalfWordSize)
  BY ONLY <1>2, <1>5, <1>6
<1>. QED  BY ONLY <1>7 DEF t

LEMMA XorInjective ==
    ASSUME NEW x, NEW y, NEW z, IsWord(x), IsWord(y), IsWord(z), Xor(x, z) = Xor(y, z)
    PROVE  x = y
<1>1. Xor(Xor(x, z), z) = x
  BY ONLY IsWord(x), IsWord(z), WordLaws, Zenon
<1>2. Xor(Xor(y, z), z) = y
  BY ONLY IsWord(y), IsWord(z), WordLaws, Zenon
<1>. QED  BY ONLY <1>1, <1>2, Xor(x, z) = Xor(y, z)

LEMMA ShiftOutInjective ==
    ASSUME NEW a, NEW b, IsWord(a), IsWord(b), ShiftOut(a) = ShiftOut(b)
    PROVE  a = b
<1>. DEFINE c == a \div 2
            d == b \div 2
<1>1. /\ a \in Nat /\ b \in Nat /\ c \in Nat /\ d \in Nat
      /\ c < HalfWordSize /\ d < HalfWordSize
      /\ (a % 2 = 1 \/ a % 2 = 0) /\ (b % 2 = 1 \/ b % 2 = 0)
  BY SMT DEF IsWord, WordSize, HalfWordSize
<1>2. /\ ShiftOut(a) = IF a % 2 = 1 THEN Xor(c, Poly) ELSE c
      /\ IsWord(c) /\ IsWord(Poly)
  BY ONLY IsWord(a), ShiftOutBits, Zenon
<1>3. ShiftOut(b) = (IF b % 2 = 1 THEN Xor(d, Poly) ELSE d) /\ IsWord(d)
  BY ONLY IsWord(b), ShiftOutBits, Zenon
<1>4. ~(Xor(c, Poly) < HalfWordSize) /\ ~(Xor(d, Poly) < HalfWordSize)
  BY ONLY <1>1, PolySetsTheTop, Zenon
<1>5. a % 2 = b % 2 /\ c = d
  <2>. HIDE DEF c, d
  <2>1. CASE a % 2 = 1 /\ b % 2 = 1
    <3>1. Xor(c, Poly) = Xor(d, Poly)
      BY ONLY <1>2, <1>3, <2>1, ShiftOut(a) = ShiftOut(b), Zenon
    <3>2. c = d
      BY ONLY <1>2, <1>3, <3>1, XorInjective, Zenon
    <3>. QED  BY ONLY <2>1, <3>2
  <2>2. CASE a % 2 # 1 /\ b % 2 # 1
    <3>1. c = d
      BY ONLY <1>2, <1>3, <2>2, ShiftOut(a) = ShiftOut(b), Zenon
    <3>. QED  BY ONLY <1>1, <2>2, <3>1
  <2>3. CASE a % 2 = 1 /\ b % 2 # 1
    <3>1. Xor(c, Poly) = d
      BY ONLY <1>2, <1>3, <2>3, ShiftOut(a) = ShiftOut(b), Zenon
    <3>. QED  BY ONLY <1>1, <1>4, <3>1, Zenon
  <2>4. CASE a % 2 # 1 /\ b % 2 = 1
    <3>1. c = Xor(d, Poly)
      BY ONLY <1>2, <1>3, <2>4, ShiftOut(a) = ShiftOut(b), Zenon
    <3>. QED  BY ONLY <1>1, <1>4, <3>1, Zenon
  <2>. QED  BY ONLY <2>1, <2>2, <2>3, <2>4, Zenon
<1>. QED  BY ONLY <1>1, <1>5, SameParts, Zenon

LEMMA Shift8Injective ==
    ASSUME NEW a, NEW b, IsWord(a), IsWord(b), Shift8(a) = Shift8(b)
    PROVE  a = b
<1>1. \A x, y : IsWord(x) /\ IsWord(y) /\ ShiftOut(x) = ShiftOut(y) => x = y
  BY ONLY ShiftOutInjective, Zenon
<1>2. \A x : IsWord(x) => IsWord(ShiftOut(x))
  BY ONLY ShiftOutBits, Zenon
<1>3. \A x, y : IsWord(x) /\ IsWord(y) /\ Shift2(x) = Shift2(y) => x = y
  BY ONLY <1>1, <1>2, Zenon DEF Shift2
<1>4. \A x : IsWord(x) => IsWord(Shift2(x))
  BY ONLY <1>2, Zenon DEF Shift2
<1>5. \A x, y : IsWord(x) /\ IsWord(y) /\ Shift4(x) = Shift4(y) => x = y
  BY ONLY <1>3, <1>4, Zenon DEF Shift4
<1>6. \A x : IsWord(x) => IsWord(Shift4(x))
  BY ONLY <1>4, Zenon DEF Shift4
<1>. QED  BY ONLY <1>5, <1>6, IsWord(a), IsWord(b), Shift8(a) = Shift8(b), Zenon DEF Shift8

(* crc16 forgets neither the byte nor what it had before.                   *)
LEMMA LookupInjective ==
    ASSUME NEW c, NEW d, IsCrc(c), IsCrc(d), NEW a, NEW b, IsByte(a), IsByte(b),
           Lookup(c, a) = Lookup(d, b)
    PROVE  (c = d) <=> (a = b)
<1>. DEFINE x == CrcValue(c)
            y == CrcValue(d)
<1>1. IsWord(x) /\ IsWord(y) /\ IsWord(a) /\ IsWord(b)
  BY SMT DEF IsCrc, CrcValue, IsByte, ByteSize, IsWord, WordSize
<1>2. x = y => c.hi = d.hi /\ c.lo = d.lo
  BY SMT DEF IsCrc, CrcValue, IsByte, ByteSize
<1>3. CrcReference(x, a) = CrcReference(y, b)
  <2>1. CrcValue(Lookup(c, a)) = CrcReference(x, a)
    BY ONLY IsCrc(c), IsByte(a), LookupIsCrc, Zenon
  <2>2. CrcValue(Lookup(d, b)) = CrcReference(y, b)
    BY ONLY IsCrc(d), IsByte(b), LookupIsCrc, Zenon
  <2>. QED  BY ONLY <2>1, <2>2, Lookup(c, a) = Lookup(d, b), Zenon
<1>. HIDE DEF x, y
<1>4. Xor(x, a) = Xor(y, b)
  <2>1. IsWord(Xor(x, a)) /\ IsWord(Xor(y, b))
    BY ONLY <1>1, WordLaws, Zenon
  <2>2. Shift8(Xor(x, a)) = Shift8(Xor(y, b))
    BY ONLY <1>3 DEF CrcReference
  <2>. QED  BY ONLY <2>1, <2>2, Shift8Injective, Zenon
<1>5. ASSUME a = b PROVE c = d
  <2>1. x = y
    BY ONLY <1>1, <1>4, <1>5, XorInjective, Zenon
  <2>. QED  BY ONLY <2>1, <1>2, IsCrc(c), IsCrc(d), Zenon DEF IsCrc
<1>6. ASSUME c = d PROVE a = b
  <2>1. x = y
    BY <1>6 DEF x, y
  <2>2. Xor(a, x) = Xor(b, x)
    <3>1. Xor(x, a) = Xor(a, x) /\ Xor(x, b) = Xor(b, x)
      BY ONLY <1>1, WordLaws, Zenon
    <3>. QED  BY ONLY <1>4, <2>1, <3>1
  <2>. QED  BY ONLY <1>1, <2>2, XorInjective, Zenon
<1>. QED  BY <1>5, <1>6

-----------------------------------------------------------------------------
(* The frames of the same master, byte by byte: ModbusFrame for any         *)
(* arguments.                                                               *)

(* The count at its place is the number of bytes behind it, and they hold   *)
(* the bits written with at most what F15 spares.                           *)
Spare(code) == IF code = 15 THEN 8 ELSE 0
CountIsExact(bytes, count) ==
    /\ bytes[count.at] = Len(bytes) - count.at
    /\ 8 * bytes[count.at] - count.bits \in 0..Spare(bytes[2])

WellLaidOut(bytes, count) ==
    /\ bytes \in Seq(Octet)
    /\ count \in [at : 0..BuffLen, bits : Nat]
    /\ Fits(bytes) /\ count.at > 0 => CountIsExact(bytes, count)

(* The heads of the frames that carry a count.                              *)
LEMMA Head3 ==
    ASSUME NEW a \in Octet, NEW b \in Octet, NEW c \in Octet
    PROVE  LET h == <<a, b, c>> IN h \in Seq(Octet) /\ Len(h) = 3 /\ h[2] = b /\ h[3] = c
OBVIOUS

LEMMA Head7 ==
    ASSUME NEW a \in Octet, NEW b \in Octet, NEW c \in Octet, NEW d \in Octet, NEW e \in Octet,
           NEW f \in Octet, NEW g \in Octet
    PROVE  LET h == <<a, b, c, d, e, f, g>>
           IN  h \in Seq(Octet) /\ Len(h) = 7 /\ h[2] = b /\ h[7] = g
OBVIOUS

LEMMA Head11 ==
    ASSUME NEW a \in Octet, NEW b \in Octet, NEW c \in Octet, NEW d \in Octet, NEW e \in Octet,
           NEW f \in Octet, NEW g \in Octet, NEW i \in Octet, NEW j \in Octet, NEW k \in Octet,
           NEW l \in Octet
    PROVE  LET h == <<a, b, c, d, e, f, g, i, j, k, l>>
           IN  h \in Seq(Octet) /\ Len(h) = 11 /\ h[2] = b /\ h[11] = l
OBVIOUS

LEMMA BytesOfNumbers ==
    ASSUME NEW x \in Int
    PROVE  Hi(x) \in Octet /\ Lo(x) \in Octet /\ x % 256 \in Octet
BY SMT DEF Hi, Lo, Octet

LEMMA FunctionCodes ==
    /\ 1..24 \subseteq Octet /\ 0 \in Octet /\ 255 \in Octet
BY SMT DEF Octet

LEMMA WordFollows ==
    ASSUME NEW s \in Seq(Octet), NEW x \in Int
    PROVE  s \o Word(x) \in Seq(Octet)
<1>1. Word(x) \in Seq(Octet)
  <2>1. Hi(x) \in Octet /\ Lo(x) \in Octet
    BY BytesOfNumbers
  <2>. QED  BY <2>1 DEF Word
<1>. QED  BY ONLY <1>1, s \in Seq(Octet), ConcatProperties

(* A frame is a head that ends with the count of the bytes behind it,       *)
(* modulo 256, and those bytes.  If it fits, the count has not wrapped: the *)
(* two bytes kept for the CRC leave less than 256 behind it.                *)
LEMMA HeadAndRest ==
    ASSUME NEW h \in Seq(Octet), NEW N \in Nat, NEW rest \in [1..N -> Octet],
           NEW at \in 0..BuffLen, at = Len(h), at >= 3, h[at] = N % 256,
           NEW bits \in Nat, 8 * N - bits \in 0..Spare(h[2])
    PROVE  WellLaidOut(h \o rest, [at |-> at, bits |-> bits])
<1>2. rest \in Seq(Octet) /\ Len(rest) = N
  <2>1. rest \in Seq(Octet)
    BY ONLY N \in Nat, rest \in [1..N -> Octet]
  <2>. QED  BY <2>1, LenProperties
<1>3. /\ h \o rest \in Seq(Octet) /\ Len(h \o rest) = Len(h) + Len(rest)
      /\ \A i \in 1 .. Len(h) + Len(rest) : (h \o rest)[i] =
             IF i <= Len(h) THEN h[i] ELSE rest[i - Len(h)]
  BY ONLY h \in Seq(Octet), <1>2, ConcatProperties, Zenon
<1>. DEFINE bytes == h \o rest
            count == [at |-> at, bits |-> bits]
<1>4. bytes \in Seq(Octet) /\ count \in [at : 0..BuffLen, bits : Nat]
  BY <1>3
<1>5. Len(bytes) = at + N /\ bytes[at] = N % 256 /\ bytes[2] = h[2]
  <2>1. at \in 1 .. Len(h) + Len(rest) /\ 2 \in 1 .. Len(h) + Len(rest)
    BY <1>2
  <2>. QED  BY <1>2, <1>3, <2>1
<1>6. count.at = at /\ count.bits = bits
  OBVIOUS
<1>. HIDE DEF bytes, count
<1>7. ASSUME Fits(bytes) PROVE CountIsExact(bytes, count)
  <2>1. at + N + 2 <= 256
    BY <1>5, <1>7 DEF Fits, BuffLen
  <2>2. N % 256 = N
    BY <2>1
  <2>3. bytes[count.at] = N /\ Len(bytes) - count.at = N
    BY <1>5, <1>6, <2>2
  <2>4. 8 * bytes[count.at] - count.bits \in 0..Spare(bytes[2])
    <3>1. 8 * bytes[count.at] - count.bits = 8 * N - bits
      BY <1>6, <2>3
    <3>2. Spare(bytes[2]) = Spare(h[2])
      BY <1>5
    <3>. QED  BY ONLY <3>1, <3>2, 8 * N - bits \in 0..Spare(h[2])
  <2>. QED  BY ONLY <2>3, <2>4 DEF CountIsExact
<1>. QED  BY <1>4, <1>7 DEF WellLaidOut, bytes, count

(* k parts of m bytes each, one after the other, are k * m bytes.           *)
LEMMA PlaceInPart ==
    ASSUME NEW k \in Nat, NEW m \in Nat, NEW i \in 1..(k * m)
    PROVE  (i - 1) \div m + 1 \in 1..k /\ ((i - 1) % m) + 1 \in 1..m
<1>1. m > 0
  <2>1. m = 0 => k * m = 0
    BY SMT
  <2>. QED  BY ONLY <2>1, i \in 1..(k * m), m \in Nat, SMT
<1>. DEFINE q == (i - 1) \div m
            r == (i - 1) % m
<1>2. q \in Nat /\ r \in 0..(m - 1) /\ i - 1 = m * q + r
  BY <1>1, SMT
<1>. HIDE DEF q, r
<1>3. q < k
  <2>1. m * q <= i - 1 /\ i - 1 < k * m
    BY ONLY <1>2, i \in 1..(k * m), m \in Nat, k \in Nat, SMT
  <2>2. q >= k => m * q >= m * k
    BY ONLY <1>2, m \in Nat, k \in Nat, SMT
  <2>. QED  BY ONLY <1>2, <2>1, <2>2, m \in Nat, k \in Nat, i \in 1..(k * m), SMT
<1>4. q + 1 \in 1..k /\ r + 1 \in 1..m
  BY ONLY <1>2, <1>3, m \in Nat, k \in Nat, SMT
<1>. QED  BY <1>4 DEF q, r

LEMMA JoinedParts ==
    ASSUME NEW k \in Nat, NEW m \in Nat, NEW parts \in [1..k -> [1..m -> Octet]]
    PROVE  Joined(parts, k, m) \in [1..(k * m) -> Octet]
<1>1. ASSUME NEW i \in 1..(k * m)
      PROVE  parts[(i - 1) \div m + 1][((i - 1) % m) + 1] \in Octet
  <2>. DEFINE p == (i - 1) \div m + 1
              c == ((i - 1) % m) + 1
  <2>1. p \in 1..k /\ c \in 1..m
    BY ONLY PlaceInPart, k \in Nat, m \in Nat, i \in 1..(k * m), Zenon
  <2>. HIDE DEF p, c
  <2>2. parts[p][c] \in Octet
    BY <2>1
  <2>. QED  BY <2>2 DEF p, c
<1>. QED  BY <1>1, Zenon DEF Joined

LEMMA PartsFollow ==
    ASSUME NEW n \in Nat, NEW m \in Nat, NEW f \in [1..n -> Octet], NEW g \in [1..m -> Octet]
    PROVE  f \o g \in [1..(n + m) -> Octet]
<1>1. f \in Seq(Octet) /\ g \in Seq(Octet)
  OBVIOUS
<1>2. Len(f) = n /\ Len(g) = m
  BY <1>1, LenProperties
<1>3. f \o g \in Seq(Octet) /\ Len(f \o g) = n + m
  BY <1>1, <1>2, ConcatProperties
<1>. QED  BY <1>3, LenProperties

LEMMA WordBytes ==
    ASSUME NEW x \in Int
    PROVE  Word(x) \in [1..2 -> Octet]
<1>1. Hi(x) \in Octet /\ Lo(x) \in Octet
  BY BytesOfNumbers
<1>. QED  BY <1>1 DEF Word

LEMMA SubReqBytes ==
    ASSUME NEW i \in Int, NEW n \in Int
    PROVE  SubReq(i, n) \in [1..7 -> Octet]
<1>1. /\ Hi(i) \in Octet /\ Lo(i) \in Octet /\ Hi(n) \in Octet /\ Lo(n) \in Octet
  BY BytesOfNumbers
<1>2. Hi(100 + i) \in Octet /\ Lo(100 + i) \in Octet
  BY BytesOfNumbers, 100 + i \in Int
<1>3. 6 \in Octet
  BY FunctionCodes, 6 \in 1..24
<1>. QED  BY ONLY <1>1, <1>2, <1>3 DEF SubReq

(* F15, F16, F20, F21 and F23 lay their frames out with an exact count.     *)
LEMMA CoilFrame ==
    ASSUME NEW slave \in Octet, NEW start \in Int, NEW n \in Nat
    PROVE  WellLaidOut(<<slave, 15, Hi(start), Lo(start), Hi(n),
                         Lo(n), CoilBytes(n) % 256>>
                           \o [i \in 1..CoilBytes(n) |-> i % 256],
                       [at |-> 7, bits |-> n])
<1>. DEFINE N == CoilBytes(n)
<1>1. N \in Nat /\ 8 * N - n \in 0..8
  BY DEF CoilBytes
<1>. HIDE DEF N
<1>. DEFINE h == <<slave, 15, Hi(start), Lo(start), Hi(n),
                   Lo(n), N % 256>>
            rest == [i \in 1..N |-> i % 256]
<1>2. h \in Seq(Octet) /\ Len(h) = 7 /\ h[7] = N % 256 /\ h[2] = 15
  <2>1. /\ Hi(start) \in Octet /\ Lo(start) \in Octet
        /\ Hi(n) \in Octet /\ Lo(n) \in Octet /\ N % 256 \in Octet
    BY <1>1, BytesOfNumbers
  <2>2. 15 \in Octet
    BY FunctionCodes, 15 \in 1..24
  <2>. QED  BY ONLY <2>1, <2>2, slave \in Octet, Head7
<1>3. rest \in [1..N -> Octet]
  <2>1. \A i \in 1..N : i % 256 \in Octet
    BY <1>1, BytesOfNumbers
  <2>. QED  BY <2>1
<1>. HIDE DEF h, rest
<1>4. 8 * N - n \in 0..Spare(h[2])
  BY <1>1, <1>2 DEF Spare
<1>5. WellLaidOut(h \o rest, [at |-> 7, bits |-> n])
  <2>1. h \in Seq(Octet) /\ 7 = Len(h) /\ h[7] = N % 256 /\ N \in Nat
    BY <1>1, <1>2
  <2>2. 7 \in 0..BuffLen /\ 7 >= 3 /\ n \in Nat
    BY SMT DEF BuffLen
  <2>. QED  BY ONLY <2>1, <2>2, <1>3, <1>4, HeadAndRest, Zenon
<1>. QED  BY <1>5 DEF h, rest, N

LEMMA WordsArePairs ==
    ASSUME NEW n \in Nat
    PROVE  WordsOf(n) \in [1..(2 * n) -> Octet]
<1>. DEFINE parts == [i \in 1..n |-> Word(4660 + i)]
<1>1. parts \in [1..n -> [1..2 -> Octet]]
  <2>1. \A i \in 1..n : 4660 + i \in Int
    BY SMT
  <2>2. \A i \in 1..n : Word(4660 + i) \in [1..2 -> Octet]
    BY ONLY <2>1, WordBytes, SMT
  <2>. QED  BY ONLY <2>2, SMT
<1>2. WordsOf(n) = Joined(parts, n, 2)
  BY SMT DEF WordsOf
<1>. HIDE DEF parts
<1>3. Joined(parts, n, 2) \in [1..(n * 2) -> Octet]
  BY ONLY <1>1, n \in Nat, 2 \in Nat, JoinedParts, Zenon
<1>4. n * 2 = 2 * n
  OBVIOUS
<1>. QED  BY ONLY <1>2, <1>3, <1>4, SMT

LEMMA RegsFrame ==
    ASSUME NEW slave \in Octet, NEW start \in Int, NEW n \in Nat
    PROVE  WellLaidOut(<<slave, 16, Hi(start), Lo(start), Hi(n),
                         Lo(n), (2 * n) % 256>> \o WordsOf(n),
                       [at |-> 7, bits |-> 16 * n])
<1>. DEFINE N == 2 * n
<1>1. N \in Nat /\ 8 * N - 16 * n = 0 /\ 16 * n \in Nat
  OBVIOUS
<1>2. WordsOf(n) \in [1..N -> Octet]
  BY WordsArePairs
<1>. HIDE DEF N
<1>. DEFINE h == <<slave, 16, Hi(start), Lo(start), Hi(n),
                   Lo(n), N % 256>>
<1>3. h \in Seq(Octet) /\ Len(h) = 7 /\ h[7] = N % 256 /\ h[2] = 16
  <2>1. /\ Hi(start) \in Octet /\ Lo(start) \in Octet
        /\ Hi(n) \in Octet /\ Lo(n) \in Octet /\ N % 256 \in Octet
    BY <1>1, BytesOfNumbers
  <2>2. 16 \in Octet
    BY FunctionCodes, 16 \in 1..24
  <2>. QED  BY ONLY <2>1, <2>2, slave \in Octet, Head7
<1>. HIDE DEF h
<1>4. WellLaidOut(h \o WordsOf(n), [at |-> 7, bits |-> 16 * n])
  <2>1. h \in Seq(Octet) /\ 7 = Len(h) /\ h[7] = N % 256 /\ N \in Nat
    BY <1>1, <1>3
  <2>2. 7 \in 0..BuffLen /\ 7 >= 3 /\ 16 * n \in Nat
    BY <1>1, SMT DEF BuffLen
  <2>3. 8 * N - 16 * n \in 0..Spare(h[2])
    BY <1>1, <1>3 DEF Spare
  <2>. QED  BY ONLY <2>1, <2>2, <2>3, <1>2, HeadAndRest, Zenon
<1>. QED  BY <1>4 DEF h, N

LEMMA ReadWriteFrame ==
    ASSUME NEW slave \in Octet, NEW a \in Int, NEW b \in Int, NEW c \in Int, NEW n \in Nat
    PROVE  WellLaidOut(<<slave, 23, Hi(a), Lo(a), Hi(b), Lo(b),
                         Hi(c), Lo(c), Hi(n), Lo(n),
                         (2 * n) % 256>> \o WordsOf(n),
                       [at |-> 11, bits |-> 16 * n])
<1>. DEFINE N == 2 * n
<1>1. N \in Nat /\ 8 * N - 16 * n = 0 /\ 16 * n \in Nat
  OBVIOUS
<1>2. WordsOf(n) \in [1..N -> Octet]
  BY WordsArePairs
<1>. HIDE DEF N
<1>. DEFINE h == <<slave, 23, Hi(a), Lo(a), Hi(b), Lo(b),
                   Hi(c), Lo(c), Hi(n), Lo(n), N % 256>>
<1>3. h \in Seq(Octet) /\ Len(h) = 11 /\ h[11] = N % 256 /\ h[2] = 23
  <2>1. /\ Hi(a) \in Octet /\ Lo(a) \in Octet
        /\ Hi(b) \in Octet /\ Lo(b) \in Octet
        /\ Hi(c) \in Octet /\ Lo(c) \in Octet
    BY BytesOfNumbers
  <2>2. Hi(n) \in Octet /\ Lo(n) \in Octet /\ N % 256 \in Octet /\ 23 \in Octet
    BY <1>1, BytesOfNumbers, FunctionCodes, 23 \in 1..24
  <2>. QED  BY ONLY <2>1, <2>2, slave \in Octet, Head11
<1>. HIDE DEF h
<1>4. WellLaidOut(h \o WordsOf(n), [at |-> 11, bits |-> 16 * n])
  <2>1. h \in Seq(Octet) /\ 11 = Len(h) /\ h[11] = N % 256 /\ N \in Nat
    BY <1>1, <1>3
  <2>2. 11 \in 0..BuffLen /\ 11 >= 3 /\ 16 * n \in Nat
    BY <1>1, SMT DEF BuffLen
  <2>3. 8 * N - 16 * n \in 0..Spare(h[2])
    BY <1>1, <1>3 DEF Spare
  <2>. QED  BY ONLY <2>1, <2>2, <2>3, <1>2, HeadAndRest, Zenon
<1>. QED  BY <1>4 DEF h, N

(* F20 and F21: k parts of m bytes.                                         *)
LEMMA PartsFrame ==
    ASSUME NEW slave \in Octet, NEW code \in Octet, code # 15,
           NEW N \in Nat, NEW rest \in [1..N -> Octet]
    PROVE  WellLaidOut(<<slave, code, N % 256>> \o rest, [at |-> 3, bits |-> 8 * N])
<1>. DEFINE h == <<slave, code, N % 256>>
<1>1. h \in Seq(Octet) /\ Len(h) = 3 /\ h[3] = N % 256 /\ h[2] = code
  <2>1. N % 256 \in Octet
    BY BytesOfNumbers
  <2>. QED  BY ONLY <2>1, slave \in Octet, code \in Octet, Head3
<1>. HIDE DEF h
<1>2. WellLaidOut(h \o rest, [at |-> 3, bits |-> 8 * N])
  <2>1. h \in Seq(Octet) /\ 3 = Len(h) /\ h[3] = N % 256 /\ N \in Nat
    BY <1>1
  <2>2. 3 \in 0..BuffLen /\ 3 >= 3 /\ 8 * N \in Nat
    BY SMT DEF BuffLen
  <2>3. 8 * N - 8 * N \in 0..Spare(h[2])
    BY <1>1 DEF Spare
  <2>. QED  BY ONLY <2>1, <2>2, <2>3, rest \in [1..N -> Octet], HeadAndRest, Zenon
<1>. QED  BY <1>2 DEF h

LEMMA ReadReferenceFrame ==
    ASSUME NEW slave \in Octet, NEW k \in Nat
    PROVE  WellLaidOut(<<slave, 20, (7 * k) % 256>>
                         \o Joined([i \in 1..k |-> SubReq(i, 2)], k, 7),
                       [at |-> 3, bits |-> 56 * k])
<1>. DEFINE parts == [i \in 1..k |-> SubReq(i, 2)]
            N == 7 * k
<1>1. N \in Nat /\ N = k * 7 /\ 8 * N = 56 * k
  OBVIOUS
<1>2. 7 \in Nat /\ 20 \in Octet /\ 20 # 15
  BY FunctionCodes, 20 \in 1..24
<1>3. parts \in [1..k -> [1..7 -> Octet]]
  <2>1. \A i \in 1..k : SubReq(i, 2) \in [1..7 -> Octet]
    BY ONLY SubReqBytes, 2 \in Int, 1..k \subseteq Int, SMT
  <2>. QED  BY ONLY <2>1, SMT
<1>. HIDE DEF parts, N
<1>4. WellLaidOut(<<slave, 20, N % 256>> \o Joined(parts, k, 7),
                  [at |-> 3, bits |-> 8 * N])
  <2>1. Joined(parts, k, 7) \in [1..(k * 7) -> Octet]
    BY ONLY <1>2, <1>3, k \in Nat, JoinedParts, Zenon
  <2>2. Joined(parts, k, 7) \in [1..N -> Octet]
    BY ONLY <1>1, <2>1, Zenon
  <2>. QED  BY ONLY <1>1, <1>2, <2>2, slave \in Octet, PartsFrame, Zenon
<1>5. WellLaidOut(<<slave, 20, N % 256>> \o Joined(parts, k, 7),
                  [at |-> 3, bits |-> 56 * k])
  BY ONLY <1>1, <1>4, Zenon
<1>. QED  BY ONLY <1>5 DEF parts, N

LEMMA WriteReferenceFrame ==
    ASSUME NEW slave \in Octet, NEW k \in Nat, NEW n \in Nat
    PROVE  WellLaidOut(<<slave, 21, (k * (7 + 2 * n)) % 256>>
                         \o Joined([i \in 1..k |-> SubReq(i, n) \o WordsOf(n)],
                                         k, 7 + 2 * n),
                       [at |-> 3, bits |-> k * (56 + 16 * n)])
<1>. DEFINE parts == [i \in 1..k |-> SubReq(i, n) \o WordsOf(n)]
            m == 7 + 2 * n
            N == k * m
            bits == k * (56 + 16 * n)
<1>1. k \in Nat /\ m \in Nat /\ N \in Nat /\ bits = 8 * N
  OBVIOUS
<1>2. 21 \in Octet /\ 21 # 15 /\ N = k * m
  BY FunctionCodes, 21 \in 1..24
<1>3. parts \in [1..k -> [1..m -> Octet]]
  <2>1. ASSUME NEW i \in 1..k PROVE SubReq(i, n) \o WordsOf(n) \in [1..m -> Octet]
    <3>1. SubReq(i, n) \in [1..7 -> Octet]
      BY SubReqBytes, i \in Int, n \in Int
    <3>2. WordsOf(n) \in [1..(2 * n) -> Octet]
      BY WordsArePairs
    <3>. QED  BY ONLY <3>1, <3>2, 7 \in Nat, 2 * n \in Nat, PartsFollow, Zenon
  <2>. QED  BY <2>1
<1>. HIDE DEF parts, m, N, bits
<1>4. WellLaidOut(<<slave, 21, N % 256>> \o Joined(parts, k, m),
                  [at |-> 3, bits |-> 8 * N])
  <2>1. Joined(parts, k, m) \in [1..(k * m) -> Octet]
    BY ONLY <1>1, <1>3, JoinedParts, Zenon
  <2>2. Joined(parts, k, m) \in [1..N -> Octet]
    BY ONLY <1>2, <2>1, Zenon
  <2>. QED  BY ONLY <1>1, <1>2, <2>2, slave \in Octet, PartsFrame, Zenon
<1>5. WellLaidOut(<<slave, 21, N % 256>> \o Joined(parts, k, m),
                  [at |-> 3, bits |-> bits])
  BY ONLY <1>1, <1>4, Zenon
<1>. QED  BY ONLY <1>5 DEF parts, m, N, bits

(* The other frames carry no count.                                         *)
LEMMA PlainFrame ==
    ASSUME NEW bytes \in Seq(Octet)
    PROVE  WellLaidOut(bytes, NoCount)
BY SMT DEF WellLaidOut, NoCount, BuffLen

LEMMA ShortFrames ==
    ASSUME NEW slave \in Octet, NEW code \in Octet
    PROVE  /\ <<slave, code>> \in Seq(Octet)
           /\ \A x \in Int : <<slave, code>> \o Word(x) \in Seq(Octet)
           /\ \A x, y \in Int :
                <<slave, code>> \o Word(x) \o Word(y) \in Seq(Octet)
           /\ \A x, y, z \in Int :
                <<slave, code>> \o Word(x) \o Word(y) \o Word(z)
                  \in Seq(Octet)
<1>. DEFINE h == <<slave, code>>
<1>1. h \in Seq(Octet)
  OBVIOUS
<1>. HIDE DEF h
<1>2. ASSUME NEW x \in Int PROVE h \o Word(x) \in Seq(Octet)
  BY <1>1, WordFollows, Zenon
<1>3. ASSUME NEW x \in Int, NEW y \in Int
      PROVE  h \o Word(x) \o Word(y) \in Seq(Octet)
  BY <1>2, WordFollows, Zenon
<1>4. ASSUME NEW x \in Int, NEW y \in Int, NEW z \in Int
      PROVE  h \o Word(x) \o Word(y) \o Word(z) \in Seq(Octet)
  BY <1>3, WordFollows, Zenon
<1>. QED  BY <1>1, <1>2, <1>3, <1>4, Zenon DEF h

(* Every call with an id in range lays its frame out well.                  *)
LaysOut(slave) ==
    \E start, bytes, count :
        Build(slave, start, bytes, count) /\ (slave \in Octet => WellLaidOut(bytes, count))

LEMMA RequestLaysOut ==
    ASSUME Request
    PROVE  \E slave : LaysOut(slave)
<1>1. PICK slave \in Slaves :
        \/ \E code \in {7, 11, 12, 17} : Bare(code, slave)
        \/ \E x \in Words, y \in Words : F8_DiagnosticsQuery(slave, x, y)
        \/ \E k \in Counts : F20_ReadGenegalReference(slave, k)
        \/ \E k \in SubCounts, n \in Counts : F21_WriteGenegalReference(slave, k, n)
        \/ \E a \in Words, n \in Counts : F23_ReadWrite4XRegisters(slave, a, 2, a, n)
        \/ \E start \in Starts :
             \/ \E code \in 1..4, x \in Words : ReadRange(code, slave, start, x)
             \/ \E on \in {0, 1} : F5_ForceSingleCoil(slave, start, on)
             \/ \E x \in Words : F6_PresetSingleRegister(slave, start, x)
             \/ \E n \in CoilCounts : F15_ForceMultipleCoils(slave, start, n)
             \/ \E n \in Counts : F16_PresetMultipleRegs(slave, start, n)
             \/ \E x, y \in Words : F22_MaskWrite4XRegister(slave, start, x, y)
             \/ F24_ReadFIFOQueue(slave, start)
  BY DEF Request
<1>3. ASSUME NEW start, NEW bytes, slave \in Octet => bytes \in Seq(Octet),
             Build(slave, start, bytes, NoCount)
      PROVE  LaysOut(slave)
  BY <1>3, PlainFrame DEF LaysOut
<1>4. ASSUME NEW code \in {7, 11, 12, 17}, Bare(code, slave) PROVE LaysOut(slave)
  <2>1. code \in Octet
    BY FunctionCodes, code \in 1..24
  <2>2. slave \in Octet => <<slave, code>> \in Seq(Octet)
    BY <2>1, ShortFrames, Zenon
  <2>. QED  BY <1>3, <1>4, <2>2, Zenon DEF Bare
<1>5. ASSUME NEW x \in Words, NEW y \in Words, F8_DiagnosticsQuery(slave, x, y)
      PROVE  LaysOut(slave)
  <2>1. x \in Int /\ y \in Int /\ 8 \in Octet
    BY ArgumentsAssumption, FunctionCodes, 8 \in 1..24
  <2>2. slave \in Octet => <<slave, 8>> \o Word(x) \o Word(y) \in Seq(Octet)
    BY <2>1, ShortFrames, Zenon
  <2>. QED  BY <1>3, <1>5, <2>2 DEF F8_DiagnosticsQuery
<1>6. ASSUME NEW k \in Counts, F20_ReadGenegalReference(slave, k) PROVE LaysOut(slave)
  <2>1. k \in Nat
    BY ArgumentsAssumption
  <2>. DEFINE bytes == <<slave, 20, (7 * k) % 256>>
                         \o Joined([i \in 1..k |-> SubReq(i, 2)], k, 7)
              count == [at |-> 3, bits |-> 56 * k]
  <2>2. slave \in Octet => WellLaidOut(bytes, count)
    BY <2>1, ReadReferenceFrame
  <2>3. Build(slave, 0, bytes, count)
    BY <1>6 DEF F20_ReadGenegalReference
  <2>. HIDE DEF bytes, count
  <2>. QED  BY <2>2, <2>3 DEF LaysOut
<1>7. ASSUME NEW k \in SubCounts, NEW n \in Counts,
             F21_WriteGenegalReference(slave, k, n)
      PROVE  LaysOut(slave)
  <2>1. k \in Nat /\ n \in Nat
    BY ArgumentsAssumption
  <2>. DEFINE bytes ==
                <<slave, 21, (k * (7 + 2 * n)) % 256>>
                  \o Joined([i \in 1..k |-> SubReq(i, n) \o WordsOf(n)],
                                  k, 7 + 2 * n)
              count == [at |-> 3, bits |-> k * (56 + 16 * n)]
  <2>2. slave \in Octet => WellLaidOut(bytes, count)
    BY <2>1, WriteReferenceFrame
  <2>3. Build(slave, 0, bytes, count)
    BY <1>7 DEF F21_WriteGenegalReference
  <2>. HIDE DEF bytes, count
  <2>. QED  BY <2>2, <2>3 DEF LaysOut
<1>8. ASSUME NEW a \in Words, NEW n \in Counts,
             F23_ReadWrite4XRegisters(slave, a, 2, a, n)
      PROVE  LaysOut(slave)
  <2>1. a \in Int /\ 2 \in Int /\ n \in Nat
    BY ArgumentsAssumption
  <2>. DEFINE bytes ==
                <<slave, 23, Hi(a), Lo(a), Hi(2), Lo(2),
                  Hi(a), Lo(a), Hi(n), Lo(n), (2 * n) % 256>>
                  \o WordsOf(n)
              count == [at |-> 11, bits |-> 16 * n]
  <2>2. slave \in Octet => WellLaidOut(bytes, count)
    BY <2>1, ReadWriteFrame
  <2>3. Build(slave, 0, bytes, count)
    BY <1>8 DEF F23_ReadWrite4XRegisters
  <2>. HIDE DEF bytes, count
  <2>. QED  BY <2>2, <2>3 DEF LaysOut
<1>9. ASSUME NEW start \in Starts, NEW code \in 1..4, NEW x \in Words,
              ReadRange(code, slave, start, x)
       PROVE  LaysOut(slave)
  <2>1. start \in Int /\ x \in Int /\ code \in Octet
    BY ArgumentsAssumption, FunctionCodes, code \in 1..24
  <2>2. slave \in Octet => <<slave, code>> \o Word(start) \o Word(x) \in Seq(Octet)
    BY <2>1, ShortFrames, Zenon
  <2>. QED  BY <1>3, <1>9, <2>2 DEF ReadRange
<1>10. ASSUME NEW start \in Starts, NEW on \in {0, 1},
              F5_ForceSingleCoil(slave, start, on)
       PROVE  LaysOut(slave)
  <2>1. start \in Int /\ 5 \in Octet
    BY ArgumentsAssumption, FunctionCodes, 5 \in 1..24
  <2>2. slave \in Octet => <<slave, 5>> \o Word(start) \in Seq(Octet)
    BY <2>1, ShortFrames, Zenon
  <2>3. <<IF on = 0 THEN 0 ELSE 255, 0>> \in Seq(Octet)
    BY FunctionCodes
  <2>4. slave \in Octet =>
          <<slave, 5>> \o Word(start) \o <<IF on = 0 THEN 0 ELSE 255, 0>> \in Seq(Octet)
    BY ONLY <2>2, <2>3, ConcatProperties
  <2>. QED  BY <1>3, <1>10, <2>4 DEF F5_ForceSingleCoil
<1>11. ASSUME NEW start \in Starts, NEW x \in Words,
              F6_PresetSingleRegister(slave, start, x)
       PROVE  LaysOut(slave)
  <2>1. start \in Int /\ x \in Int /\ 6 \in Octet
    BY ArgumentsAssumption, FunctionCodes, 6 \in 1..24
  <2>2. slave \in Octet => <<slave, 6>> \o Word(start) \o Word(x) \in Seq(Octet)
    BY <2>1, ShortFrames, Zenon
  <2>. QED  BY <1>3, <1>11, <2>2 DEF F6_PresetSingleRegister
<1>12. ASSUME NEW start \in Starts, NEW n \in CoilCounts,
              F15_ForceMultipleCoils(slave, start, n)
       PROVE  LaysOut(slave)
  <2>1. start \in Int /\ n \in Nat
    BY ArgumentsAssumption
  <2>. DEFINE bytes ==
                <<slave, 15, Hi(start), Lo(start), Hi(n), Lo(n),
                  CoilBytes(n) % 256>>
                  \o [i \in 1..CoilBytes(n) |-> i % 256]
              count == [at |-> 7, bits |-> n]
  <2>2. slave \in Octet => WellLaidOut(bytes, count)
    BY <2>1, CoilFrame
  <2>3. Build(slave, start, bytes, count)
    BY <1>12 DEF F15_ForceMultipleCoils
  <2>. HIDE DEF bytes, count
  <2>. QED  BY <2>2, <2>3 DEF LaysOut
<1>13. ASSUME NEW start \in Starts, NEW n \in Counts,
              F16_PresetMultipleRegs(slave, start, n)
       PROVE  LaysOut(slave)
  <2>1. start \in Int /\ n \in Nat
    BY ArgumentsAssumption
  <2>. DEFINE bytes ==
                <<slave, 16, Hi(start), Lo(start), Hi(n), Lo(n),
                  (2 * n) % 256>> \o WordsOf(n)
              count == [at |-> 7, bits |-> 16 * n]
  <2>2. slave \in Octet => WellLaidOut(bytes, count)
    BY <2>1, RegsFrame
  <2>3. Build(slave, start, bytes, count)
    BY <1>13 DEF F16_PresetMultipleRegs
  <2>. HIDE DEF bytes, count
  <2>. QED  BY <2>2, <2>3 DEF LaysOut
<1>14. ASSUME NEW start \in Starts, NEW x \in Words, NEW y \in Words,
              F22_MaskWrite4XRegister(slave, start, x, y)
       PROVE  LaysOut(slave)
  <2>1. start \in Int /\ x \in Int /\ y \in Int /\ 22 \in Octet
    BY ArgumentsAssumption, FunctionCodes, 22 \in 1..24
  <2>2. slave \in Octet => <<slave, 22>> \o Word(start) \o Word(x) \o Word(y) \in Seq(Octet)
    BY <2>1, ShortFrames, Zenon
  <2>. QED  BY <1>3, <1>14, <2>2 DEF F22_MaskWrite4XRegister
<1>15. ASSUME NEW start \in Starts, F24_ReadFIFOQueue(slave, start)
       PROVE  LaysOut(slave)
  <2>1. start \in Int /\ 24 \in Octet
    BY ArgumentsAssumption, FunctionCodes, 24 \in 1..24
  <2>2. slave \in Octet => <<slave, 24>> \o Word(start) \in Seq(Octet)
    BY <2>1, ShortFrames, Zenon
  <2>. QED  BY <1>3, <1>15, <2>2 DEF F24_ReadFIFOQueue
<1>. QED
  BY <1>1, <1>4, <1>5, <1>6, <1>7, <1>8, <1>9, <1>10, <1>11, <1>12, <1>13, <1>14, <1>15

(* What CheckReceivedData and sendFrame compute with has the width it is    *)
(* given: frames are sequences of bytes that fit request.buff, the two      *)
(* halves of the CRC are bytes, and they are those of the reference.        *)
FrameTyped ==
    /\ FrameTypeOK
    /\ IsCrc(crc.value) /\ crc.ref = CrcValue(crc.value)
    /\ Len(reply) <= BuffLen
    /\ pc \in {"idle", "replied"} => crc = crc0
    /\ pc = "built" => Fits(request) /\ crc.at <= Len(request)
    /\ pc = "checking" => crc.at <= Len(reply) - 2

LEMMA BytesAreOctets == \A x : IsByte(x) <=> x \in Octet
BY SMT DEF IsByte, ByteSize, Octet

LEMMA BytesOfFrame ==
    ASSUME NEW b \in Seq(Octet), NEW i \in 1..Len(b)
    PROVE  IsByte(b[i])
<1>1. b[i] \in Octet
  BY ElementOfSeq
<1>. QED  BY <1>1, BytesAreOctets

LEMMA CrcRecords ==
    ASSUME NEW c
    PROVE  /\ IsCrc(c) <=> c \in [hi : Octet, lo : Octet]
           /\ IsCrc(c) => CrcValue(c) \in Word16
<1>1. IsCrc(c) <=> c \in [hi : Octet, lo : Octet]
  <2>1. c \in [hi : Octet, lo : Octet] =>
          c.hi \in Octet /\ c.lo \in Octet /\ c = [hi |-> c.hi, lo |-> c.lo]
    OBVIOUS
  <2>2. c.hi \in Octet /\ c.lo \in Octet => [hi |-> c.hi, lo |-> c.lo] \in [hi : Octet, lo : Octet]
    OBVIOUS
  <2>. QED  BY <2>1, <2>2, BytesAreOctets, Zenon DEF IsCrc
<1>2. ASSUME IsCrc(c) PROVE CrcValue(c) \in Word16
  <2>1. IsByte(c.hi) /\ IsByte(c.lo)
    BY <1>2, Zenon DEF IsCrc
  <2>2. IsWord(CrcValue(c))
    BY <2>1, SMT DEF IsByte, ByteSize, IsWord, WordSize, CrcValue
  <2>. DEFINE top == 256 * 256 - 1
  <2>3. CrcValue(c) \in Nat /\ CrcValue(c) <= top /\ top \in Nat
    BY <2>2, SMT DEF IsWord, WordSize
  <2>4. Word16 = 0..top
    BY DEF Word16
  <2>. HIDE DEF top
  <2>. QED  BY ONLY <2>3, <2>4
<1>. QED  BY <1>1, <1>2

LEMMA CrcStarts ==
    /\ IsCrc(CrcStart) /\ CrcValue(CrcStart) = ReferenceStart
    /\ crc0 \in [at : 0..BuffLen, ref : Word16, value : [hi : Octet, lo : Octet]]
<1>1. IsCrc(CrcStart) /\ CrcValue(CrcStart) = ReferenceStart
  BY SMT DEF IsCrc, IsByte, ByteSize, CrcStart, CrcValue, ReferenceStart
<1>2. CrcStart \in [hi : Octet, lo : Octet] /\ ReferenceStart \in Word16
  BY <1>1, CrcRecords, Zenon
<1>3. 0 \in 0..BuffLen
  BY SMT DEF BuffLen
<1>. QED  BY ONLY <1>1, <1>2, <1>3 DEF crc0

(* One byte of crc16.                                                       *)
LEMMA CrcKeepsType ==
    ASSUME FrameTyped, NEW b \in Seq(Octet), NEW n \in Int, n <= Len(b), n <= BuffLen,
           crc16(b, n)
    PROVE  /\ crc' \in [at : 0..BuffLen, ref : Word16, value : [hi : Octet, lo : Octet]]
           /\ IsCrc(crc'.value) /\ crc'.ref = CrcValue(crc'.value)
           /\ crc'.at <= n
<1>1. /\ crc.at \in Nat /\ IsCrc(crc.value) /\ crc.ref = CrcValue(crc.value)
  BY SMT DEF FrameTyped, FrameTypeOK
<1>2. /\ crc.at < n
      /\ crc' = [at    |-> crc.at + 1,
                 value |-> Lookup(crc.value, b[crc.at + 1]),
                 ref   |-> CrcReference(crc.ref, b[crc.at + 1])]
  BY Zenon DEF crc16
<1>l. Len(b) \in Nat
  BY ONLY b \in Seq(Octet), LenProperties, Zenon
<1>. DEFINE k == crc.at
            L == Len(b)
<1>m. k \in Nat /\ k < n /\ L \in Nat /\ n <= L
  BY <1>1, <1>2, <1>l
<1>. HIDE DEF k, L
<1>n. k + 1 \in 1..L /\ k + 1 \in 0..BuffLen /\ k + 1 <= n
  BY ONLY <1>m, n \in Int, n <= BuffLen, SMT DEF BuffLen
<1>3. crc.at + 1 \in 1..Len(b) /\ crc.at + 1 \in 0..BuffLen /\ crc.at + 1 <= n
  BY <1>n DEF k, L
<1>4. IsByte(b[crc.at + 1])
  BY ONLY <1>3, b \in Seq(Octet), BytesOfFrame, Zenon
<1>. DEFINE v == Lookup(crc.value, b[crc.at + 1])
            r == CrcReference(crc.ref, b[crc.at + 1])
<1>5. IsCrc(v) /\ CrcValue(v) = r
  BY ONLY <1>1, <1>4, LookupIsCrc, Zenon
<1>6. v \in [hi : Octet, lo : Octet] /\ r \in Word16
  BY ONLY <1>5, CrcRecords, Zenon
<1>7. crc' = [at |-> crc.at + 1, value |-> v, ref |-> r]
  BY ONLY <1>2
<1>. HIDE DEF v, r
<1>. QED  BY ONLY <1>3, <1>5, <1>6, <1>7

LEMMA FrameTypedInit == FrameInit => FrameTyped
<1>. SUFFICES ASSUME FrameInit PROVE FrameTyped
  OBVIOUS
<1>1. /\ pc = "idle" /\ crc = crc0 /\ request = << >> /\ counted = NoCount
      /\ reply = << >> /\ intact = FALSE /\ verdict = FALSE
  BY DEF FrameInit
<1>2. << >> \in Seq(Octet) /\ Len(<< >>) <= BuffLen
  BY SMT DEF BuffLen
<1>3. NoCount \in [at : 0..BuffLen, bits : Nat]
  BY SMT DEF BuffLen, NoCount
<1>4. FrameTypeOK
  BY ONLY <1>1, <1>2, <1>3, CrcStarts DEF FrameTypeOK
<1>5. crc.value = CrcStart /\ crc.ref = ReferenceStart
  BY ONLY <1>1 DEF crc0
<1>. QED  BY ONLY <1>1, <1>2, <1>4, <1>5, CrcStarts DEF FrameTyped

LEMMA ArriveKeepsTyped ==
    ASSUME FrameTyped, NEW bytes \in Seq(Octet), Len(bytes) <= BuffLen, Arrive(bytes)
    PROVE  FrameTyped'
<1>1. /\ pc' = "replied" /\ reply' = bytes /\ intact' = (bytes = request) /\ crc' = crc0
      /\ request' = request /\ counted' = counted /\ verdict' = verdict
  BY DEF Arrive
<1>2. FrameTypeOK'
  BY ONLY <1>1, FrameTyped, bytes \in Seq(Octet), CrcStarts DEF FrameTyped, FrameTypeOK
<1>3. crc'.value = CrcStart /\ crc'.ref = ReferenceStart
  BY ONLY <1>1 DEF crc0
<1>. QED  BY ONLY <1>1, <1>2, <1>3, Len(bytes) <= BuffLen, CrcStarts DEF FrameTyped, IsCrc, CrcValue

(* One flipped bit of a byte is another byte.                               *)
LEMMA FlippedIsAnother ==
    ASSUME NEW x \in Octet, NEW b \in {1, 2, 4, 8, 16, 32, 64, 128}
    PROVE  Flipped(x, b) \in Octet /\ Flipped(x, b) # x
<1>1. CASE b = 1
  BY <1>1, SMT DEF Flipped, Octet
<1>2. CASE b = 2
  BY <1>2, SMT DEF Flipped, Octet
<1>3. CASE b = 4
  BY <1>3, SMT DEF Flipped, Octet
<1>4. CASE b = 8
  BY <1>4, SMT DEF Flipped, Octet
<1>5. CASE b = 16
  BY <1>5, SMT DEF Flipped, Octet
<1>6. CASE b = 32
  BY <1>6, SMT DEF Flipped, Octet
<1>7. CASE b = 64
  BY <1>7, SMT DEF Flipped, Octet
<1>8. CASE b = 128
  BY <1>8, SMT DEF Flipped, Octet
<1>. QED  BY <1>1, <1>2, <1>3, <1>4, <1>5, <1>6, <1>7, <1>8, SMT

LEMMA DamagedFrame ==
    ASSUME NEW s \in Seq(Octet), NEW i \in 1..Len(s), NEW b \in {1, 2, 4, 8, 16, 32, 64, 128}
    PROVE  LET d == [s EXCEPT ![i] = Flipped(@, b)]
           IN  /\ d \in Seq(Octet) /\ Len(d) = Len(s) /\ d[i] # s[i]
               /\ \A j \in 1..Len(s) : j # i => d[j] = s[j]
<1>. DEFINE x == Flipped(s[i], b)
            d == [s EXCEPT ![i] = x]
<1>1. s[i] \in Octet
  BY ElementOfSeq
<1>2. x \in Octet /\ x # s[i]
  BY ONLY <1>1, b \in {1, 2, 4, 8, 16, 32, 64, 128}, FlippedIsAnother, SMT
<1>3. [s EXCEPT ![i] = Flipped(@, b)] = d
  BY SMT
<1>. HIDE DEF x
<1>4. d \in Seq(Octet) /\ Len(d) = Len(s)
  BY <1>2, ExceptSeq
<1>5. d[i] = x /\ \A j \in 1..Len(s) : j # i => d[j] = s[j]
  BY <1>2
<1>. QED  BY ONLY <1>2, <1>3, <1>4, <1>5

LEMMA CutFrame ==
    ASSUME NEW s \in Seq(Octet), NEW n \in 0..(Len(s) - 1)
    PROVE  /\ SubSeq(s, 1, n) \in Seq(Octet) /\ Len(SubSeq(s, 1, n)) = n
           /\ n < Len(s)
<1>1. Len(s) \in Nat /\ n \in Nat /\ n <= Len(s)
  BY LenProperties
<1>2. SubSeq(s, 1, n) \in Seq(Octet) /\ Len(SubSeq(s, 1, n)) = n
  BY <1>1, SubSeqProperties
<1>. QED  BY <1>1, <1>2

(* What a call that is not refused leaves behind.                           *)
LEMMA RequestBuilds ==
    ASSUME Request
    PROVE  /\ pc = "idle" /\ pc' \in {"built", "refused", "overrun"}
           /\ UNCHANGED <<crc, reply, intact, verdict>>
           /\ pc' = "built" => WellLaidOut(request', counted') /\ Fits(request')
           /\ pc' # "built" => request' = << >> /\ counted' = NoCount
<1>1. PICK slave, start, bytes, count :
         Build(slave, start, bytes, count) /\ (slave \in Octet => WellLaidOut(bytes, count))
  BY RequestLaysOut DEF LaysOut
<1>2. /\ pc = "idle" /\ pc' \in {"built", "refused", "overrun"}
      /\ UNCHANGED <<crc, reply, intact, verdict>>
      /\ pc' = "built" => slave \in Octet /\ Fits(bytes) /\ request' = bytes /\ counted' = count
      /\ pc' # "built" => request' = << >> /\ counted' = NoCount
  BY <1>1, Zenon DEF Build, InRange
<1>. QED  BY ONLY <1>1, <1>2, Zenon

LEMMA FrameTypedStep ==
    ASSUME FrameTyped, [FrameNext]_frameVars
    PROVE  FrameTyped'
<1>1. CASE Request
  <2>1. /\ pc = "idle" /\ pc' \in {"built", "refused", "overrun"}
        /\ UNCHANGED <<crc, reply, intact, verdict>>
        /\ pc' = "built" => WellLaidOut(request', counted') /\ Fits(request')
        /\ pc' # "built" => request' = << >> /\ counted' = NoCount
    BY <1>1, RequestBuilds
  <2>2. /\ request' \in Seq(Octet) /\ Len(request') <= BuffLen
        /\ counted' \in [at : 0..BuffLen, bits : Nat]
    <3>1. CASE pc' = "built"
      <4>1. request' \in Seq(Octet) /\ counted' \in [at : 0..BuffLen, bits : Nat]
        BY ONLY <2>1, <3>1 DEF WellLaidOut
      <4>2. Len(request') <= BuffLen
        BY ONLY <2>1, <3>1, <4>1, LenProperties, SMT DEF Fits, BuffLen
      <4>. QED  BY <4>1, <4>2
    <3>2. CASE pc' # "built"
      BY ONLY <2>1, <3>2, SMT DEF NoCount, BuffLen
    <3>. QED  BY <3>1, <3>2
  <2>3. FrameTypeOK'
    BY ONLY <2>1, <2>2, FrameTyped DEF FrameTyped, FrameTypeOK
  <2>4. crc'.at = 0 /\ crc'.at <= Len(request')
    <3>1. crc' = crc0
      BY ONLY <2>1, FrameTyped DEF FrameTyped
    <3>. QED  BY ONLY <2>2, <3>1, LenProperties DEF crc0
  <2>. QED  BY ONLY <2>1, <2>3, <2>4, FrameTyped DEF FrameTyped, IsCrc, CrcValue
<1>2. CASE CrcOfRequest
  <2>1. /\ pc = "built" /\ crc16(request, Len(request))
        /\ UNCHANGED <<pc, request, counted, reply, intact, verdict>>
    BY <1>2 DEF CrcOfRequest
  <2>2. request \in Seq(Octet) /\ Len(request) \in Nat /\ Len(request) <= BuffLen
    BY ONLY FrameTyped, LenProperties DEF FrameTyped, FrameTypeOK
  <2>3. /\ crc' \in [at : 0..BuffLen, ref : Word16, value : [hi : Octet, lo : Octet]]
        /\ IsCrc(crc'.value) /\ crc'.ref = CrcValue(crc'.value)
        /\ crc'.at <= Len(request)
    <3>1. Len(request) \in Int /\ Len(request) <= Len(request)
      BY ONLY <2>2
    <3>. QED  BY ONLY FrameTyped, <2>1, <2>2, <3>1, CrcKeepsType, Zenon
  <2>4. FrameTypeOK'
    BY ONLY <2>1, <2>3, FrameTyped DEF FrameTyped, FrameTypeOK
  <2>. QED  BY ONLY <2>1, <2>3, <2>4, FrameTyped DEF FrameTyped, IsCrc, CrcValue, Fits
<1>3. CASE sendFrame
  <2>1. /\ pc = "built" /\ pc' = "sent" /\ request' = request \o <<crc.value.hi, crc.value.lo>>
        /\ UNCHANGED <<crc, counted, reply, intact, verdict>>
    BY <1>3 DEF sendFrame, CrcBytes
  <2>2. request \in Seq(Octet) /\ Len(request) \in Nat /\ Fits(request)
    BY ONLY <2>1, FrameTyped, LenProperties DEF FrameTyped, FrameTypeOK
  <2>3. <<crc.value.hi, crc.value.lo>> \in Seq(Octet)
    <3>1. crc.value.hi \in Octet /\ crc.value.lo \in Octet
      BY ONLY FrameTyped, BytesAreOctets, Zenon DEF FrameTyped, IsCrc
    <3>. QED  BY ONLY <3>1
  <2>4. request' \in Seq(Octet) /\ Len(request') = Len(request) + 2
    BY ONLY <2>1, <2>2, <2>3, ConcatProperties
  <2>5. Len(request') <= BuffLen
    BY ONLY <2>2, <2>4 DEF Fits
  <2>6. FrameTypeOK'
    BY ONLY <2>1, <2>4, <2>5, FrameTyped DEF FrameTyped, FrameTypeOK
  <2>. QED  BY ONLY <2>1, <2>6, FrameTyped DEF FrameTyped, IsCrc, CrcValue
<1>. DEFINE small == request \in Seq(Octet) /\ Len(request) \in Nat /\ Len(request) <= BuffLen
<1>r. small
  BY ONLY FrameTyped, LenProperties DEF FrameTyped, FrameTypeOK
<1>4. CASE ReplyIntact
  BY <1>4, <1>r, ArriveKeepsTyped DEF ReplyIntact
<1>5. CASE ReplyDamaged
  <2>1. PICK i \in 1..Len(request), b \in {1, 2, 4, 8, 16, 32, 64, 128} :
          Arrive([request EXCEPT ![i] = Flipped(@, b)])
    BY <1>5 DEF ReplyDamaged
  <2>. DEFINE d == [request EXCEPT ![i] = Flipped(@, b)]
  <2>2. d \in Seq(Octet) /\ Len(d) <= BuffLen
    BY <1>r, DamagedFrame
  <2>3. Arrive(d)
    BY <2>1
  <2>. HIDE DEF d
  <2>. QED  BY ONLY FrameTyped, <2>2, <2>3, ArriveKeepsTyped, Zenon
<1>6. CASE ReplyCut
  <2>1. PICK n \in 0..(Len(request) - 1) : Arrive(SubSeq(request, 1, n))
    BY <1>6 DEF ReplyCut
  <2>. DEFINE d == SubSeq(request, 1, n)
  <2>2. d \in Seq(Octet) /\ Len(d) <= BuffLen
    BY <1>r, CutFrame DEF BuffLen
  <2>3. Arrive(d)
    BY <2>1
  <2>. HIDE DEF d
  <2>. QED  BY ONLY FrameTyped, <2>2, <2>3, ArriveKeepsTyped, Zenon
<1>7. CASE CheckHeader
  <2>1. /\ pc = "replied" /\ verdict' = FALSE
        /\ UNCHANGED <<crc, request, counted, reply, intact>>
        /\ pc' \in {"checking", "checked"} /\ (pc' = "checking" => Len(reply) >= 2)
    BY <1>7 DEF CheckHeader
  <2>2. FrameTypeOK'
    BY ONLY <2>1, FrameTyped DEF FrameTyped, FrameTypeOK
  <2>3. pc' = "checking" => crc'.at <= Len(reply') - 2
    <3>1. crc.at = 0 /\ Len(reply) \in Nat
      BY ONLY <2>1, FrameTyped, LenProperties DEF FrameTyped, FrameTypeOK, crc0
    <3>. QED  BY ONLY <2>1, <3>1
  <2>. QED  BY ONLY <2>1, <2>2, <2>3, FrameTyped DEF FrameTyped, IsCrc, CrcValue
<1>8. CASE CrcOfReply
  <2>1. /\ pc = "checking" /\ crc16(reply, Len(reply) - 2)
        /\ UNCHANGED <<pc, request, counted, reply, intact, verdict>>
    BY <1>8 DEF CrcOfReply
  <2>2. reply \in Seq(Octet) /\ Len(reply) \in Nat /\ Len(reply) <= BuffLen
    BY ONLY FrameTyped, LenProperties DEF FrameTyped, FrameTypeOK
  <2>3. /\ crc' \in [at : 0..BuffLen, ref : Word16, value : [hi : Octet, lo : Octet]]
        /\ IsCrc(crc'.value) /\ crc'.ref = CrcValue(crc'.value)
        /\ crc'.at <= Len(reply) - 2
    <3>1. /\ Len(reply) - 2 \in Int /\ Len(reply) - 2 <= Len(reply)
          /\ Len(reply) - 2 <= BuffLen
      BY ONLY <2>2, SMT DEF BuffLen
    <3>. DEFINE n == Len(reply) - 2
    <3>2. n \in Int /\ n <= Len(reply) /\ n <= BuffLen /\ crc16(reply, n)
      BY ONLY <2>1, <3>1
    <3>. HIDE DEF n
    <3>3. /\ crc' \in [at : 0..BuffLen, ref : Word16, value : [hi : Octet, lo : Octet]]
          /\ IsCrc(crc'.value) /\ crc'.ref = CrcValue(crc'.value)
          /\ crc'.at <= n
      BY ONLY FrameTyped, <2>2, <3>2, CrcKeepsType, Zenon
    <3>. QED  BY ONLY <3>3 DEF n
  <2>4. FrameTypeOK'
    BY ONLY <2>1, <2>3, FrameTyped DEF FrameTyped, FrameTypeOK
  <2>. QED  BY ONLY <2>1, <2>3, <2>4, FrameTyped DEF FrameTyped, IsCrc, CrcValue
<1>9. CASE CheckCrc
  <2>1. /\ pc' = "checked" /\ verdict' \in BOOLEAN
        /\ UNCHANGED <<crc, request, counted, reply, intact>>
    BY <1>9 DEF CheckCrc
  <2>2. FrameTypeOK'
    BY ONLY <2>1, FrameTyped DEF FrameTyped, FrameTypeOK
  <2>. QED  BY ONLY <2>1, <2>2, FrameTyped DEF FrameTyped, IsCrc, CrcValue
<1>10. CASE UNCHANGED frameVars
  BY ONLY <1>10, FrameTyped
  DEF frameVars, FrameTyped, FrameTypeOK, IsCrc, CrcValue, Fits
<1>. QED
  BY <1>1, <1>2, <1>3, <1>4, <1>5, <1>6, <1>7, <1>8, <1>9, <1>10 DEF FrameNext

(* Every frame is a sequence of bytes that request.buff holds, every reply  *)
(* one of bytes, and crc16 computes with two bytes, for any arguments.      *)
THEOREM FrameTyping == FrameSpec => []FrameTypeOK
<1>1. FrameTyped /\ [FrameNext]_frameVars => FrameTyped'
  BY FrameTypedStep
<1>2. FrameTyped => FrameTypeOK
  BY DEF FrameTyped
<1>. QED  BY <1>1, <1>2, FrameTypedInit, PTL DEF FrameSpec

(* The two lookups per byte of crc16 compute the CRC-16 of Modbus over any  *)
(* sequence of bytes, because the tables hold it for every single byte.     *)
THEOREM TablesAreTheCrc == FrameSpec => []TablesAreCrc16
<1>1. FrameTyped /\ [FrameNext]_frameVars => FrameTyped'
  BY FrameTypedStep
<1>2. FrameTyped => TablesAreCrc16
  BY DEF FrameTyped, TablesAreCrc16, CrcValue
<1>. QED  BY <1>1, <1>2, FrameTypedInit, PTL DEF FrameSpec

(* f holds the CRC after each of the first n bytes of b, as crc16 computes  *)
(* it; it closes b when the two bytes behind them are the last CRC.         *)
Run(f, b, n) ==
    /\ f[0] = CrcStart
    /\ \A i \in 0..n : IsCrc(f[i])
    /\ \A i \in 1..n : f[i] = Lookup(f[i - 1], b[i])
Closes(f, b) ==
    /\ Run(f, b, Len(b) - 2)
    /\ b[Len(b) - 1] = f[Len(b) - 2].hi /\ b[Len(b)] = f[Len(b) - 2].lo
Closed(b) == Len(b) >= 2 /\ \E f : Closes(f, b)

(* The reply is the request but for its byte i.                             *)
OneByteOff(i) ==
    /\ Len(reply) = Len(request) /\ i \in 1..Len(request)
    /\ reply[i] # request[i]
    /\ \A j \in 1..Len(request) : j # i => reply[j] = request[j]

(* f is the CRC of the request: the loop over the reply follows it up to    *)
(* byte i and never meets it again.                                         *)
Follows(f, i) ==
    /\ Closes(f, request) /\ crc.at <= Len(request) - 2
    /\ crc.at < i => crc.value = f[crc.at]
    /\ crc.at >= i => crc.value # f[crc.at]

Back == pc \in {"replied", "checking", "checked"}
Damaged == ~intact /\ Len(reply) = Len(request)

(* The invariant that carries an exact count and the CRC of the request     *)
(* from the call to the verdict on the reply.                               *)
FrameInv ==
    /\ pc = "built" => /\ WellLaidOut(request, counted)
                       /\ \E f : Run(f, request, crc.at) /\ crc.value = f[crc.at]
    /\ pc \in {"sent", "replied", "checking"} => Closed(request)
    /\ Back /\ intact => reply = request
    /\ pc = "replied" /\ Damaged => \E i : OneByteOff(i)
    /\ pc = "checking" /\ intact =>
          \E f : Closes(f, request) /\ crc.value = f[crc.at]
    /\ pc = "checking" /\ Damaged => \E i : OneByteOff(i) /\ \E f : Follows(f, i)
    /\ pc = "checked" /\ intact => verdict
    /\ pc = "checked" /\ Damaged => ~verdict

LEMMA StartsRun ==
    ASSUME NEW b
    PROVE  \E f : Run(f, b, 0) /\ f[0] = CrcStart
<1>. DEFINE f == [i \in {0} |-> CrcStart]
<1>1. f[0] = CrcStart /\ IsCrc(CrcStart)
  BY CrcStarts
<1>2. \A i \in 0..0 : i = 0
  BY SMT
<1>3. \A i \in 1..0 : FALSE
  BY SMT
<1>. HIDE DEF f
<1>4. Run(f, b, 0)
  BY ONLY <1>1, <1>2, <1>3, Zenon DEF Run
<1>. QED  BY <1>1, <1>4

LEMMA ExtendsRun ==
    ASSUME NEW f, NEW b, NEW n \in Nat, Run(f, b, n), IsByte(b[n + 1])
    PROVE  \E g : Run(g, b, n + 1) /\ g[n + 1] = Lookup(f[n], b[n + 1])
<1>. DEFINE v == Lookup(f[n], b[n + 1])
            g == [i \in 0..(n + 1) |-> IF i = n + 1 THEN v ELSE f[i]]
<1>1. /\ f[0] = CrcStart
      /\ \A i \in 0..n : IsCrc(f[i])
      /\ \A i \in 1..n : f[i] = Lookup(f[i - 1], b[i])
  BY Zenon DEF Run
<1>v. IsCrc(v)
  <2>1. n \in 0..n
    BY SMT
  <2>2. IsCrc(f[n])
    BY ONLY <1>1, <2>1, Zenon
  <2>. QED  BY ONLY <2>2, IsByte(b[n + 1]), LookupIsCrc, Zenon
<1>x. v = Lookup(f[n], b[n + 1])
  OBVIOUS
<1>. HIDE DEF v
<1>2. /\ g[n + 1] = v
      /\ \A i \in 0..n : g[i] = f[i]
  BY SMT
<1>. HIDE DEF g
<1>3. g[0] = CrcStart
  BY ONLY <1>1, <1>2, n \in Nat
<1>4. ASSUME NEW i \in 0..(n + 1) PROVE IsCrc(g[i])
  <2>1. i \in 0..n \/ i = n + 1
    BY SMT
  <2>2. CASE i \in 0..n
    BY ONLY <1>1, <1>2, <2>2, Zenon
  <2>3. CASE i = n + 1
    BY ONLY <1>v, <1>2, <2>3, Zenon
  <2>. QED  BY <2>1, <2>2, <2>3
<1>5. ASSUME NEW i \in 1..(n + 1) PROVE g[i] = Lookup(g[i - 1], b[i])
  <2>1. CASE i = n + 1
    <3>1. i - 1 = n /\ n \in 0..n
      BY <2>1, SMT
    <3>2. g[i - 1] = f[n]
      BY ONLY <1>2, <3>1
    <3>. QED  BY ONLY <1>2, <1>x, <2>1, <3>2, Zenon
  <2>2. CASE i # n + 1
    <3>1. i \in 1..n /\ i \in 0..n /\ i - 1 \in 0..n
      BY <2>2, SMT
    <3>2. g[i] = f[i] /\ g[i - 1] = f[i - 1] /\ f[i] = Lookup(f[i - 1], b[i])
      BY ONLY <1>1, <1>2, <3>1, Zenon
    <3>. QED  BY ONLY <3>2
  <2>. QED  BY <2>1, <2>2
<1>6. Run(g, b, n + 1)
  BY ONLY <1>3, <1>4, <1>5, Zenon DEF Run
<1>7. g[n + 1] = Lookup(f[n], b[n + 1])
  BY ONLY <1>2, <1>x, Zenon
<1>. QED  BY <1>6, <1>7

(* Closing a frame, and looking at the two bytes that close it.             *)
LEMMA CloseFrame ==
    ASSUME NEW b \in Seq(Octet), NEW f, Run(f, b, Len(b)), NEW x \in Octet, NEW y \in Octet,
           x = f[Len(b)].hi, y = f[Len(b)].lo
    PROVE  Closed(b \o <<x, y>>)
<1>. DEFINE c == b \o <<x, y>>
            L == Len(b)
<1>1. L \in Nat
  BY LenProperties
<1>2. <<x, y>> \in Seq(Octet) /\ Len(<<x, y>>) = 2
  OBVIOUS
<1>3. /\ Len(c) = L + 2
      /\ \A i \in 1 .. L + 2 : c[i] = IF i <= L THEN b[i] ELSE <<x, y>>[i - L]
  BY ONLY <1>2, b \in Seq(Octet), ConcatProperties
<1>. HIDE DEF c
<1>l. L = Len(b)
  OBVIOUS
<1>r. Run(f, b, L) /\ x = f[L].hi /\ y = f[L].lo
  OBVIOUS
<1>. HIDE DEF L
<1>4. \A i \in 1..L : c[i] = b[i]
  BY ONLY <1>1, <1>3, SMT
<1>5. c[L + 1] = x /\ c[L + 2] = y
  <2>1. L + 1 \in 1 .. L + 2 /\ L + 2 \in 1 .. L + 2 /\ ~(L + 1 <= L) /\ ~(L + 2 <= L)
    BY ONLY <1>1, SMT
  <2>2. (L + 1) - L = 1 /\ (L + 2) - L = 2
    BY ONLY <1>1, SMT
  <2>. QED  BY ONLY <1>3, <2>1, <2>2
<1>6. Len(c) - 2 = L /\ Len(c) - 1 = L + 1 /\ Len(c) >= 2
  BY ONLY <1>1, <1>3, SMT
<1>7. Run(f, c, L)
  BY ONLY <1>r, <1>4, Zenon DEF Run
<1>8. Closes(f, c)
  BY ONLY <1>r, <1>3, <1>5, <1>6, <1>7, Zenon DEF Closes
<1>. QED  BY ONLY <1>6, <1>8 DEF Closed, c

LEMMA LastTwo ==
    ASSUME NEW S, NEW s \in Seq(S), Len(s) >= 2
    PROVE  SubSeq(s, Len(s) - 1, Len(s)) = <<s[Len(s) - 1], s[Len(s)]>>
<1>. DEFINE n == Len(s)
            u == SubSeq(s, n - 1, n)
            v == <<s[n - 1], s[n]>>
<1>1. n \in Nat /\ n - 1 \in 1..n /\ n \in 1..n
  BY LenProperties
<1>2. s[n - 1] \in S /\ s[n] \in S
  BY <1>1, ElementOfSeq
<1>. HIDE DEF n
<1>3. u \in Seq(S) /\ Len(u) = 2 /\ u[1] = s[n - 1] /\ u[2] = s[n]
  <2>1. /\ u \in Seq(S) /\ Len(u) = n - (n - 1) + 1
        /\ \A i \in 1 .. n - (n - 1) + 1 : u[i] = s[(n - 1) + i - 1]
    BY <1>1, SubSeqProperties DEF n
  <2>2. n - (n - 1) + 1 = 2 /\ (n - 1) + 1 - 1 = n - 1 /\ (n - 1) + 2 - 1 = n
    BY <1>1
  <2>3. 1 \in 1 .. n - (n - 1) + 1 /\ 2 \in 1 .. n - (n - 1) + 1
    BY <1>1
  <2>. QED  BY <2>1, <2>2, <2>3
<1>4. v \in Seq(S) /\ Len(v) = 2 /\ v[1] = s[n - 1] /\ v[2] = s[n]
  BY <1>2
<1>. HIDE DEF u, v
<1>5. \A i \in 1..Len(u) : u[i] = v[i]
  BY <1>3, <1>4
<1>6. u = v
  BY <1>3, <1>4, <1>5, SeqEqual
<1>. QED  BY <1>6 DEF u, v, n

LEMMA FrameInvInit == FrameInit => FrameInv
BY Zenon DEF FrameInit, FrameInv, Back

(* What FrameTyped says of the three buffers.                               *)
LEMMA FrameTypes ==
    ASSUME FrameTyped
    PROVE  /\ request \in Seq(Octet) /\ Len(request) \in Nat
           /\ reply \in Seq(Octet) /\ Len(reply) \in Nat
           /\ crc.at \in Nat /\ IsCrc(crc.value)
<1>1. /\ request \in Seq(Octet) /\ reply \in Seq(Octet) /\ IsCrc(crc.value)
      /\ crc \in [at : 0..BuffLen, ref : Word16, value : [hi : Octet, lo : Octet]]
  BY Zenon DEF FrameTyped, FrameTypeOK
<1>2. crc.at \in Nat
  BY ONLY <1>1, SMT
<1>. QED  BY ONLY <1>1, <1>2, LenProperties

LEMMA ArriveKeepsFrameInv ==
    ASSUME FrameInv, NEW bytes, Arrive(bytes),
           bytes = request \/ Len(bytes) # Len(request)
             \/ \E i \in 1..Len(request) :
                  /\ Len(bytes) = Len(request) /\ bytes[i] # request[i]
                  /\ \A j \in 1..Len(request) : j # i => bytes[j] = request[j]
    PROVE  FrameInv'
<1>1. /\ Closed(request) /\ request' = request /\ pc' = "replied"
      /\ reply' = bytes /\ intact' = (bytes = request)
  BY DEF FrameInv, Arrive
<1>2. Closed(request')
  BY ONLY <1>1
<1>3. ASSUME Damaged' PROVE \E i : OneByteOff(i)'
  <2>1. bytes # request /\ Len(bytes) = Len(request)
    BY ONLY <1>1, <1>3 DEF Damaged
  <2>2. PICK i \in 1..Len(request) :
          /\ Len(bytes) = Len(request) /\ bytes[i] # request[i]
          /\ \A j \in 1..Len(request) : j # i => bytes[j] = request[j]
    BY <2>1
  <2>3. OneByteOff(i)'
    BY ONLY <1>1, <2>2 DEF OneByteOff
  <2>. QED  BY <2>3
<1>. QED  BY ONLY <1>1, <1>2, <1>3 DEF FrameInv, Back, Closed

(* One byte of the loop over a damaged reply: before byte i the CRC is that *)
(* of the request, from byte i on it is not, since two CRCs that one byte   *)
(* takes to the same CRC are the same, and two bytes that take one CRC to   *)
(* the same CRC are the same.                                               *)
LEMMA DamagePersists ==
    ASSUME NEW a \in Nat, NEW i \in Nat,
           NEW w, IsCrc(w), NEW v, IsCrc(v), NEW x, NEW y, IsByte(x), IsByte(y),
           a + 1 = i => x # y, a + 1 # i => x = y,
           a < i => v = w, a >= i => v # w
    PROVE  /\ a + 1 < i => Lookup(v, y) = Lookup(w, x)
           /\ a + 1 >= i => Lookup(v, y) # Lookup(w, x)
<1>1. ASSUME Lookup(v, y) = Lookup(w, x) PROVE (v = w) <=> (y = x)
  BY ONLY <1>1, IsCrc(w), IsCrc(v), IsByte(x), IsByte(y), LookupInjective
<1>2. CASE a + 1 < i
  <2>1. a < i /\ a + 1 # i /\ ~(a + 1 >= i)
    BY <1>2, SMT
  <2>. QED  BY ONLY <2>1, a + 1 # i => x = y, a < i => v = w
<1>3. CASE a + 1 = i
  <2>1. a < i /\ ~(a + 1 < i)
    BY <1>3, SMT
  <2>. QED  BY ONLY <1>1, <1>3, <2>1, a + 1 = i => x # y, a < i => v = w, Zenon
<1>4. CASE a >= i
  <2>1. a + 1 # i /\ ~(a + 1 < i)
    BY <1>4, SMT
  <2>. QED  BY ONLY <1>1, <1>4, <2>1, a + 1 # i => x = y, a >= i => v # w, Zenon
<1>5. a + 1 < i \/ a + 1 = i \/ a >= i
  BY SMT
<1>. QED  BY <1>2, <1>3, <1>4, <1>5

LEMMA RequestKeepsFrameInv ==
    ASSUME FrameTyped, FrameInv, Request
    PROVE  FrameInv'
<1>1. /\ pc = "idle" /\ pc' \in {"built", "refused", "overrun"} /\ crc' = crc
      /\ pc' = "built" => WellLaidOut(request', counted')
  BY RequestBuilds
<1>2. crc = crc0
  BY ONLY <1>1, FrameTyped DEF FrameTyped
<1>3. \E f : Run(f, request', crc'.at) /\ crc'.value = f[crc'.at]
  <2>1. PICK f : Run(f, request', 0) /\ f[0] = CrcStart
    BY StartsRun
  <2>2. crc'.at = 0 /\ crc'.value = CrcStart
    BY ONLY <1>1, <1>2 DEF crc0
  <2>. QED  BY ONLY <2>1, <2>2, Zenon
<1>4. ~Back' /\ pc' \notin {"sent", "replied", "checking", "checked"}
  BY ONLY <1>1 DEF Back
<1>5. pc' = "built" => WellLaidOut(request, counted)'
  BY ONLY <1>1 DEF WellLaidOut, CountIsExact, Fits
<1>6. (\E f : Run(f, request, crc.at) /\ crc.value = f[crc.at])'
  BY ONLY <1>3 DEF Run, IsCrc, Lookup
<1>. QED  BY ONLY <1>4, <1>5, <1>6, Zenon DEF FrameInv

LEMMA FrameStep ==
    ASSUME FrameTyped, FrameInv, [FrameNext]_frameVars
    PROVE  FrameInv'
<1>t. /\ request \in Seq(Octet) /\ Len(request) \in Nat
      /\ reply \in Seq(Octet) /\ Len(reply) \in Nat
      /\ crc.at \in Nat /\ IsCrc(crc.value)
  BY FrameTypes
<1>1. CASE Request
  BY <1>1, RequestKeepsFrameInv
<1>2. CASE CrcOfRequest
  <2>1. /\ pc = "built" /\ WellLaidOut(request, counted)
        /\ \E f : Run(f, request, crc.at) /\ crc.value = f[crc.at]
    BY <1>2 DEF FrameInv, CrcOfRequest
  <2>2. PICK f : Run(f, request, crc.at) /\ crc.value = f[crc.at]
    BY <2>1
  <2>3. /\ crc.at < Len(request)
        /\ crc'.at = crc.at + 1
        /\ crc'.value = Lookup(crc.value, request[crc.at + 1])
        /\ request' = request /\ counted' = counted /\ pc' = "built"
    BY <1>2, <2>1 DEF CrcOfRequest, crc16
  <2>4. IsByte(request[crc.at + 1])
    <3>1. crc.at + 1 \in 1..Len(request)
      BY ONLY <1>t, <2>3, SMT
    <3>. QED  BY ONLY <1>t, <3>1, BytesOfFrame, Zenon
  <2>5. PICK g : /\ Run(g, request, crc.at + 1)
                 /\ g[crc.at + 1] = Lookup(f[crc.at], request[crc.at + 1])
    BY ONLY <1>t, <2>2, <2>4, ExtendsRun, Zenon
  <2>6. Run(g, request', crc'.at) /\ crc'.value = g[crc'.at]
    BY ONLY <2>2, <2>3, <2>5, Zenon
  <2>7. (\E h : Run(h, request, crc.at) /\ crc.value = h[crc.at])'
    BY ONLY <2>6 DEF Run, IsCrc, Lookup
  <2>8. WellLaidOut(request, counted)'
    BY ONLY <2>1, <2>3 DEF WellLaidOut, CountIsExact, Fits
  <2>. QED  BY ONLY <2>3, <2>7, <2>8 DEF FrameInv, Back
<1>3. CASE sendFrame
  <2>1. /\ pc = "built" /\ crc.at = Len(request)
        /\ \E f : Run(f, request, crc.at) /\ crc.value = f[crc.at]
    BY <1>3 DEF FrameInv, sendFrame
  <2>2. PICK f : Run(f, request, Len(request)) /\ crc.value = f[Len(request)]
    BY ONLY <2>1
  <2>3. /\ request' = request \o <<crc.value.hi, crc.value.lo>> /\ pc' = "sent"
    BY <1>3 DEF sendFrame, CrcBytes
  <2>4. Closed(request \o <<crc.value.hi, crc.value.lo>>)
    <3>1. crc.value.hi \in Octet /\ crc.value.lo \in Octet
      BY ONLY <1>t, BytesAreOctets, Zenon DEF IsCrc
    <3>2. crc.value.hi = f[Len(request)].hi /\ crc.value.lo = f[Len(request)].lo
      BY ONLY <2>2
    <3>. QED  BY ONLY <1>t, <2>2, <3>1, <3>2, CloseFrame, Zenon
  <2>5. Closed(request)'
    BY ONLY <2>3, <2>4 DEF Closed, Closes, Run, IsCrc, Lookup
  <2>. QED  BY ONLY <2>3, <2>5 DEF FrameInv, Back
<1>4. CASE ReplyIntact
  BY <1>4, ArriveKeepsFrameInv DEF ReplyIntact
<1>5. CASE ReplyDamaged
  <2>1. PICK i \in 1..Len(request), b \in {1, 2, 4, 8, 16, 32, 64, 128} :
          Arrive([request EXCEPT ![i] = Flipped(@, b)])
    BY <1>5 DEF ReplyDamaged
  <2>. DEFINE d == [request EXCEPT ![i] = Flipped(@, b)]
  <2>2. /\ Len(d) = Len(request) /\ d[i] # request[i]
        /\ \A j \in 1..Len(request) : j # i => d[j] = request[j]
    BY <1>t, DamagedFrame
  <2>3. Arrive(d)
    BY <2>1
  <2>. HIDE DEF d
  <2>4. \E k \in 1..Len(request) :
          /\ Len(d) = Len(request) /\ d[k] # request[k]
          /\ \A j \in 1..Len(request) : j # k => d[j] = request[j]
    BY ONLY <2>2, i \in 1..Len(request), Zenon
  <2>. QED  BY ONLY FrameInv, <2>3, <2>4, ArriveKeepsFrameInv, Zenon
<1>6. CASE ReplyCut
  <2>1. PICK n \in 0..(Len(request) - 1) : Arrive(SubSeq(request, 1, n))
    BY <1>6 DEF ReplyCut
  <2>. DEFINE d == SubSeq(request, 1, n)
  <2>2. Len(d) = n /\ n < Len(request)
    BY <1>t, CutFrame
  <2>3. Len(d) # Len(request)
    BY ONLY <1>t, <2>2, SMT
  <2>4. Arrive(d)
    BY <2>1
  <2>. HIDE DEF d
  <2>. QED  BY ONLY FrameInv, <2>3, <2>4, ArriveKeepsFrameInv, Zenon
<1>7. CASE CheckHeader
  <2>1. /\ UNCHANGED <<crc, request, reply, intact>> /\ pc = "replied" /\ verdict' = FALSE
        /\ pc' = IF Len(reply) >= 2 /\ SubSeq(reply, 1, 2) = SubSeq(request, 1, 2)
                 THEN "checking" ELSE "checked"
    BY <1>7 DEF CheckHeader
  <2>2. crc.at = 0 /\ crc.value = CrcStart
    BY ONLY <2>1, FrameTyped DEF FrameTyped, crc0
  <2>3. Closed(request) /\ (intact => reply = request) /\ (Damaged => \E i : OneByteOff(i))
    BY ONLY <2>1, FrameInv DEF FrameInv, Back
  <2>4. Len(request) >= 2
    BY ONLY <2>3 DEF Closed
  <2>5. PICK f : Closes(f, request)
    BY ONLY <2>3 DEF Closed
  <2>6. f[0] = CrcStart
    BY ONLY <2>5 DEF Closes, Run
  <2>7. intact => pc' = "checking"
    BY ONLY <2>1, <2>3, <2>4
  <2>8. Closes(f, request) /\ crc.value = f[crc.at]
    BY ONLY <2>2, <2>5, <2>6
  <2>9. Damaged => \E i : OneByteOff(i) /\ \E g : Follows(g, i)
    <3>1. SUFFICES ASSUME Damaged PROVE \E i : OneByteOff(i) /\ \E g : Follows(g, i)
      OBVIOUS
    <3>2. PICK i : OneByteOff(i)
      BY ONLY <2>3, <3>1
    <3>3. crc.at < i /\ ~(crc.at >= i) /\ crc.at <= Len(request) - 2
      BY ONLY <1>t, <2>2, <2>4, <3>2, SMT DEF OneByteOff
    <3>4. Follows(f, i)
      BY ONLY <2>8, <3>3 DEF Follows
    <3>. QED  BY ONLY <3>2, <3>4
  <2>10. Closed(request)'
    BY ONLY <2>1, <2>3 DEF Closed, Closes, Run, IsCrc, Lookup
  <2>11. (\E g : Closes(g, request) /\ crc.value = g[crc.at])'
    BY ONLY <2>1, <2>8 DEF Closes, Run, IsCrc, Lookup
  <2>12. Damaged' => (\E i : OneByteOff(i) /\ \E g : Follows(g, i))'
    BY ONLY <2>1, <2>9 DEF Damaged, OneByteOff, Follows, Closes, Run, IsCrc, Lookup
  <2>13. (Back /\ intact => reply = request)'
    BY ONLY <2>1, <2>3 DEF Back
  <2>14. pc' = "checking" \/ (pc' = "checked" /\ ~intact')
    BY ONLY <2>1, <2>7
  <2>. QED  BY ONLY <2>1, <2>10, <2>11, <2>12, <2>13, <2>14 DEF FrameInv
<1>8. CASE CrcOfReply
  <2>1. /\ UNCHANGED <<pc, request, reply, intact>> /\ pc = "checking"
        /\ crc.at < Len(reply) - 2 /\ crc'.at = crc.at + 1
        /\ crc'.value = Lookup(crc.value, reply[crc.at + 1])
    BY <1>8 DEF CrcOfReply, crc16
  <2>2. Closed(request) /\ (intact => reply = request)
    BY ONLY <2>1, FrameInv DEF FrameInv, Back
  <2>. DEFINE n == Len(reply) - 2
              a == crc.at
  <2>n. n \in Nat /\ a \in Nat /\ a + 1 <= n /\ a + 1 \in 1..n /\ (a + 1) - 1 = a
        /\ a + 1 \in 1..Len(reply)
    BY ONLY <1>t, <2>1, SMT
  <2>3. ASSUME intact PROVE \E f : Closes(f, request) /\ crc'.value = f[crc'.at]
    <3>1. PICK f : Closes(f, request) /\ crc.value = f[crc.at]
      BY ONLY <2>1, <2>3, FrameInv DEF FrameInv
    <3>2. f[a + 1] = Lookup(f[a], reply[a + 1])
      <4>1. reply = request
        BY ONLY <2>2, <2>3
      <4>2. \A i \in 1..n : f[i] = Lookup(f[i - 1], reply[i])
        BY ONLY <3>1, <4>1 DEF Closes, Run
      <4>3. f[a + 1] = Lookup(f[(a + 1) - 1], reply[a + 1])
        BY ONLY <2>n, <4>2, Zenon
      <4>. QED  BY ONLY <2>n, <4>3, Zenon
    <3>3. crc'.value = f[crc'.at]
      BY ONLY <2>1, <3>1, <3>2
    <3>. QED  BY ONLY <3>1, <3>3
  <2>4. ASSUME Damaged
        PROVE  \E i, f : /\ OneByteOff(i)
                         /\ Closes(f, request) /\ a + 1 <= Len(request) - 2
                         /\ a + 1 < i => crc'.value = f[a + 1]
                         /\ a + 1 >= i => crc'.value # f[a + 1]
    <3>1. PICK i : OneByteOff(i) /\ \E f : Follows(f, i)
      BY ONLY <2>1, <2>4, FrameInv DEF FrameInv
    <3>2. PICK f : Follows(f, i)
      BY ONLY <3>1
    <3>3. /\ Len(reply) = Len(request) /\ i \in Nat
          /\ reply[i] # request[i]
          /\ \A j \in 1..Len(request) : j # i => reply[j] = request[j]
      BY ONLY <1>t, <3>1 DEF OneByteOff
    <3>4. /\ \A j \in 0..n : IsCrc(f[j])
          /\ \A j \in 1..n : f[j] = Lookup(f[j - 1], request[j])
          /\ a < i => crc.value = f[a]
          /\ a >= i => crc.value # f[a]
          /\ Closes(f, request)
      BY ONLY <3>2, <3>3 DEF Follows, Closes, Run
    <3>. DEFINE x == request[a + 1]
                y == reply[a + 1]
                v == crc.value
                w == f[a]
    <3>5. IsByte(x) /\ IsByte(y)
      <4>1. a + 1 \in 1..Len(request) /\ a + 1 \in 1..Len(reply)
        BY ONLY <2>n, <3>3
      <4>. QED  BY ONLY <1>t, <4>1, BytesOfFrame, Zenon
    <3>6. f[a + 1] = Lookup(w, x)
      <4>1. f[a + 1] = Lookup(f[(a + 1) - 1], request[a + 1])
        BY ONLY <2>n, <3>4, Zenon
      <4>. QED  BY ONLY <2>n, <4>1, Zenon
    <3>7. (a + 1 = i => x # y) /\ (a + 1 # i => x = y)
      <4>1. a + 1 \in 1..Len(request)
        BY ONLY <2>n, <3>3
      <4>. QED  BY ONLY <3>3, <4>1, Zenon
    <3>8. IsCrc(v) /\ (a < i => v = w) /\ (a >= i => v # w)
      BY ONLY <1>t, <3>4
    <3>w. IsCrc(w)
      <4>1. a \in 0..n
        BY ONLY <2>n, SMT
      <4>. QED  BY ONLY <3>4, <4>1, Zenon
    <3>9. crc'.value = Lookup(v, y)
      BY ONLY <2>1
    <3>. HIDE DEF n, a, x, y, v, w
    <3>10. /\ a + 1 < i => Lookup(v, y) = Lookup(w, x)
           /\ a + 1 >= i => Lookup(v, y) # Lookup(w, x)
      <4>1. a \in Nat /\ i \in Nat
        BY ONLY <2>n, <3>3
      <4>. QED  BY ONLY <4>1, <3>5, <3>w, <3>7, <3>8, DamagePersists, SMT
    <3>11. a + 1 <= Len(request) - 2
      BY ONLY <2>n, <3>3 DEF n
    <3>. QED  BY ONLY <3>1, <3>4, <3>6, <3>9, <3>10, <3>11, Zenon
  <2>5. intact' => (\E f : Closes(f, request) /\ crc.value = f[crc.at])'
    BY ONLY <2>1, <2>3 DEF Closes, Run, IsCrc, Lookup
  <2>6. Damaged' => (\E i : OneByteOff(i) /\ \E f : Follows(f, i))'
    <3>1. ASSUME Damaged' PROVE (\E i : OneByteOff(i) /\ \E f : Follows(f, i))'
      <4>1. Damaged
        BY ONLY <2>1, <3>1 DEF Damaged
      <4>2. PICK i, f : /\ OneByteOff(i)
                        /\ Closes(f, request) /\ a + 1 <= Len(request) - 2
                        /\ a + 1 < i => crc'.value = f[a + 1]
                        /\ a + 1 >= i => crc'.value # f[a + 1]
        BY ONLY <2>4, <4>1
      <4>3. OneByteOff(i)'
        BY ONLY <2>1, <4>2 DEF OneByteOff
      <4>4. Follows(f, i)'
        BY ONLY <2>1, <4>2 DEF Follows, Closes, Run, IsCrc, Lookup
      <4>. QED  BY ONLY <4>3, <4>4
    <3>. QED  BY <3>1
  <2>7. Closed(request)'
    BY ONLY <2>1, <2>2 DEF Closed, Closes, Run, IsCrc, Lookup
  <2>8. (Back /\ intact => reply = request)'
    BY ONLY <2>1, <2>2
  <2>. QED  BY ONLY <2>1, <2>5, <2>6, <2>7, <2>8 DEF FrameInv
<1>9. CASE CheckCrc
  <2>1. /\ pc = "checking" /\ pc' = "checked" /\ UNCHANGED <<request, reply, intact>>
        /\ crc.at = Len(reply) - 2
        /\ verdict' = (SubSeq(reply, Len(reply) - 1, Len(reply))
                         = <<crc.value.hi, crc.value.lo>>)
    BY <1>9 DEF CheckCrc, CrcBytes
  <2>2. Len(reply) >= 2
    BY ONLY <1>t, <2>1, SMT
  <2>3. verdict' <=> /\ reply[Len(reply) - 1] = crc.value.hi
                     /\ reply[Len(reply)] = crc.value.lo
    <3>1. SubSeq(reply, Len(reply) - 1, Len(reply))
            = <<reply[Len(reply) - 1], reply[Len(reply)]>>
      BY ONLY <1>t, <2>2, LastTwo, Zenon
    <3>. DEFINE x == reply[Len(reply) - 1]
                y == reply[Len(reply)]
    <3>2. verdict' = (<<x, y>> = <<crc.value.hi, crc.value.lo>>)
      BY ONLY <2>1, <3>1, Zenon
    <3>. HIDE DEF x, y
    <3>3. <<x, y>> = <<crc.value.hi, crc.value.lo>> <=> x = crc.value.hi /\ y = crc.value.lo
      BY ONLY TRUE
    <3>4. verdict' <=> x = crc.value.hi /\ y = crc.value.lo
      BY ONLY <3>2, <3>3, Zenon
    <3>. QED  BY <3>4 DEF x, y
  <2>4. ASSUME intact PROVE verdict'
    <3>1. reply = request
      BY ONLY <2>1, <2>4, FrameInv DEF FrameInv, Back
    <3>2. PICK f : Closes(f, request) /\ crc.value = f[crc.at]
      BY ONLY <2>1, <2>4, FrameInv DEF FrameInv
    <3>. QED  BY ONLY <2>1, <2>3, <3>1, <3>2 DEF Closes
  <2>5. ASSUME Damaged PROVE ~verdict'
    <3>1. PICK i : OneByteOff(i) /\ \E f : Follows(f, i)
      BY ONLY <2>1, <2>5, FrameInv DEF FrameInv
    <3>2. PICK f : Follows(f, i)
      BY ONLY <3>1
    <3>. DEFINE L == Len(request)
    <3>3. /\ Len(reply) = L /\ i \in 1..L /\ reply[i] # request[i]
          /\ \A j \in 1..L : j # i => reply[j] = request[j]
      BY ONLY <3>1 DEF OneByteOff
    <3>4. /\ request[L - 1] = f[L - 2].hi /\ request[L] = f[L - 2].lo
          /\ \A j \in 0..(L - 2) : IsCrc(f[j])
          /\ crc.at < i => crc.value = f[crc.at]
          /\ crc.at >= i => crc.value # f[crc.at]
      BY ONLY <3>2 DEF Follows, Closes, Run
    <3>5. crc.at = L - 2 /\ L - 2 \in 0..(L - 2) /\ L - 1 \in 1..L /\ L \in 1..L
      BY ONLY <1>t, <2>1, <2>2, <3>3, SMT
    <3>6. CASE i <= L - 2
      <4>1. i # L - 1 /\ i # L /\ crc.at >= i
        BY ONLY <1>t, <3>3, <3>5, <3>6, SMT
      <4>2. reply[L - 1] = f[L - 2].hi /\ reply[L] = f[L - 2].lo /\ crc.value # f[L - 2]
        BY ONLY <3>3, <3>4, <3>5, <4>1
      <4>3. IsCrc(f[L - 2])
        BY ONLY <3>4, <3>5, Zenon
      <4>4. ~(crc.value.hi = f[L - 2].hi /\ crc.value.lo = f[L - 2].lo)
        BY ONLY <1>t, <4>2, <4>3, Zenon DEF IsCrc
      <4>. QED  BY ONLY <2>3, <3>3, <4>2, <4>4
    <3>7. CASE ~(i <= L - 2)
      <4>1. crc.at < i /\ (i = L - 1 \/ i = L)
        BY ONLY <1>t, <3>3, <3>5, <3>7, SMT
      <4>2. crc.value = f[L - 2]
        BY ONLY <3>4, <3>5, <4>1
      <4>. QED  BY ONLY <2>3, <3>3, <3>4, <4>1, <4>2
    <3>. QED  BY <3>6, <3>7
  <2>6. (Back /\ intact => reply = request)'
    BY ONLY <2>1, FrameInv DEF FrameInv, Back
  <2>7. (intact' => verdict') /\ (Damaged' => ~verdict')
    BY ONLY <2>1, <2>4, <2>5 DEF Damaged
  <2>. QED  BY ONLY <2>1, <2>6, <2>7 DEF FrameInv
<1>10. CASE UNCHANGED frameVars
  <2>1. UNCHANGED <<pc, crc, request, counted, reply, intact, verdict>>
    BY <1>10 DEF frameVars
  <2>2. /\ pc' = pc /\ intact' = intact /\ verdict' = verdict /\ reply' = reply
        /\ request' = request
    BY ONLY <2>1
  <2>3. WellLaidOut(request, counted)' = WellLaidOut(request, counted)
    BY ONLY <2>1 DEF WellLaidOut, CountIsExact, Fits
  <2>4. (\E f : Run(f, request, crc.at) /\ crc.value = f[crc.at])'
          = (\E f : Run(f, request, crc.at) /\ crc.value = f[crc.at])
    BY ONLY <2>1 DEF Run, IsCrc, Lookup
  <2>5. Closed(request)' = Closed(request)
    BY ONLY <2>1 DEF Closed, Closes, Run, IsCrc, Lookup
  <2>6. /\ Damaged' = Damaged
        /\ (\E i : OneByteOff(i))' = (\E i : OneByteOff(i))
    BY ONLY <2>1 DEF Damaged, OneByteOff
  <2>7. (\E f : Closes(f, request) /\ crc.value = f[crc.at])'
          = (\E f : Closes(f, request) /\ crc.value = f[crc.at])
    BY ONLY <2>1 DEF Closes, Run, IsCrc, Lookup
  <2>8. (\E i : OneByteOff(i) /\ \E f : Follows(f, i))'
          = (\E i : OneByteOff(i) /\ \E f : Follows(f, i))
    BY ONLY <2>1 DEF OneByteOff, Follows, Closes, Run, IsCrc, Lookup
  <2>. QED
    BY ONLY <2>2, <2>3, <2>4, <2>5, <2>6, <2>7, <2>8, FrameInv, Zenon DEF FrameInv, Back
<1>. QED
  BY <1>1, <1>2, <1>3, <1>4, <1>5, <1>6, <1>7, <1>8, <1>9, <1>10 DEF FrameNext

(* The invariant holds in every state of every call.                        *)
THEOREM FrameInvariant == FrameSpec => [](FrameTyped /\ FrameInv)
<1>1. FrameTyped /\ FrameInv /\ [FrameNext]_frameVars => (FrameTyped /\ FrameInv)'
  BY FrameStep, FrameTypedStep
<1>2. FrameInit => FrameTyped /\ FrameInv
  BY FrameInvInit, FrameTypedInit
<1>. QED  BY <1>1, <1>2, PTL DEF FrameSpec

(* In every frame that fits in request.buff, whatever the arguments of F15, *)
(* F16, F20, F21 and F23, the byte count has not wrapped: it is the number  *)
(* of bytes that follow it.                                                 *)
THEOREM ByteCountsAreExact == FrameSpec => []ByteCountIsRest
<1>1. FrameTyped /\ FrameInv => ByteCountIsRest
  BY DEF FrameTyped, FrameInv, WellLaidOut, CountIsExact, ByteCountIsRest
<1>. QED  BY <1>1, FrameInvariant, PTL

(* The bytes announced hold what is written: registers and sub-requests     *)
(* exactly, coils with at most one whole byte to spare.                     *)
THEOREM PayloadsAreCovered == FrameSpec => []PayloadIsCovered
<1>1. FrameTyped /\ FrameInv => PayloadIsCovered
  BY DEF FrameTyped, FrameInv, WellLaidOut, CountIsExact, Spare, PayloadIsCovered
<1>. QED  BY <1>1, FrameInvariant, PTL

(* A reply that arrives as it was sent passes CheckReceivedData.            *)
THEOREM IntactRepliesPass ==
    FrameSpec => [](pc = "checked" /\ intact => verdict)
<1>1. FrameInv => (pc = "checked" /\ intact => verdict)
  BY DEF FrameInv
<1>. QED  BY <1>1, FrameInvariant, PTL

(* Among the replies as long as the request, CheckReceivedData passes the   *)
(* one that arrives as it was sent and refuses every one with a flipped     *)
(* bit, wherever it is and however long the frame: the CRC of the damaged   *)
(* reply leaves that of the request at the damaged byte and no later byte   *)
(* brings it back.                                                          *)
THEOREM VerdictsTellDamage == FrameSpec => []VerdictIsIntact
<1>1. FrameTyped /\ FrameInv => VerdictIsIntact
  <2>. SUFFICES ASSUME FrameTyped, FrameInv, pc = "checked", Len(reply) = Len(request)
                PROVE  verdict = intact
    BY Zenon DEF VerdictIsIntact
  <2>1. verdict \in BOOLEAN /\ intact \in BOOLEAN
    BY Zenon DEF FrameTyped, FrameTypeOK
  <2>2. (intact => verdict) /\ (~intact => ~verdict)
    BY Zenon DEF FrameInv, Damaged
  <2>. QED  BY ONLY <2>1, <2>2
<1>. QED  BY <1>1, FrameInvariant, PTL

=============================================================================
