-------------------------- MODULE ScanMachineProofs --------------------------
(***************************************************************************)
(* The scan check for every set of programs and devices.                   *)
(*                                                                         *)
(* Soundness: the machine of the checker stays below the machine it stands *)
(* for.  Every operation of the machine is monotone: from a state below    *)
(* another it leads to a state below that one's successor.  The timers     *)
(* need more: a start the checker lost is one it will not use before it    *)
(* has seen the timer at rest.                                             *)
(*                                                                         *)
(* Completeness: in a trace that declares everything nothing is unknown.   *)
(* Every operation of the machine keeps it decided (Decided), as long as   *)
(* an ORB finds the block it joins.                                        *)
(***************************************************************************)
EXTENDS ScanMachine, TLAPS, SequenceTheorems

USE DEF Unknown, Off, On, Absent

-----------------------------------------------------------------------------
(* Values *)

\* The logic of three values has three values.
LEMMA KleeneClosed ==
  ASSUME NEW a \in Kleene, NEW b \in Kleene
  PROVE  /\ And(a, b) \in Kleene /\ Or(a, b) \in Kleene /\ Not(a) \in Kleene
         /\ Edge(a, b) \in Kleene
BY DEF Kleene, And, Or, Not, Edge, Truth

\* More knowledge of the operands gives the same answer or a more precise one.
LEMMA KleeneMonotone ==
  ASSUME NEW a, NEW b, NEW c, NEW d, Below(a, c), Below(b, d)
  PROVE  /\ Below(And(a, b), And(c, d)) /\ Below(Or(a, b), Or(c, d)) /\ Below(Not(a), Not(c))
         /\ Below(Edge(a, b), Edge(c, d))
BY DEF Below, And, Or, Not, Edge, Truth

\* What a push does to a stack.
LEMMA StackPush ==
  ASSUME NEW S, NEW s \in Seq(S), NEW v \in S
  PROVE  /\ Append(s, v) \in Seq(S) /\ Len(Append(s, v)) = Len(s) + 1
         /\ \A j \in 1 .. Len(s) : Append(s, v)[j] = s[j]
         /\ Append(s, v)[Len(s) + 1] = v
OBVIOUS

\* What a pop does to a stack that is not empty.
LEMMA StackPop ==
  ASSUME NEW S, NEW s \in Seq(S), s # <<>>
  PROVE  /\ Top(s) \in S /\ Pop(s) \in Seq(S) /\ Len(Pop(s)) = Len(s) - 1
         /\ \A j \in 1 .. Len(s) - 1 : Pop(s)[j] = s[j]
<1>1. PICK n \in Nat \ {0} : n = Len(s)
  BY EmptySeq
<1>2. s[n] \in S /\ \A j \in 1 .. n - 1 : s[j] \in S
  BY <1>1
<1>3. /\ SubSeq(s, 1, n - 1) \in Seq(S)
      /\ Len(SubSeq(s, 1, n - 1)) = n - 1
      /\ \A j \in 1 .. n - 1 : SubSeq(s, 1, n - 1)[j] = s[j]
  BY <1>2, SubSeqProperties
<1>4. QED
  BY <1>1, <1>2, <1>3 DEF Top, Pop

-----------------------------------------------------------------------------
(* The operations keep the type of a machine *)

\* The kinds of devices do not overlap.
LEMMA DevicesDisjoint ==
  /\ Timed \subseteq Devices /\ Bits \subseteq Devices /\ Words \subseteq Devices
  /\ Bits \cap Timed = {} /\ Words \cap Timed = {}
  /\ Timers \subseteq Timed /\ Counters \subseteq Timed
BY ScanConstants DEF Timed, Devices

\* Entering a circuit leads to a machine.
LEMMA EnterType ==
  ASSUME NEW m \in Machine, NEW i
  PROVE  Enter(m, i) \in Machine
<1>1. <<>> \in Seq(Kleene) /\ On \in Kleene
  BY DEF Kleene
<1>2. QED
  BY <1>1 DEF Enter, Machine

\* A bit or a contact has one of three values.
LEMMA BitType ==
  ASSUME NEW m \in Machine, NEW d \in Bits \cup Timed
  PROVE  Bit(m, d) \in Kleene
BY DEF Bit, Machine, Memory

\* A machine that forgets a device is a machine.
LEMMA ForgetType ==
  ASSUME NEW m \in Machine, NEW d \in Devices
  PROVE  Forget(m, d) \in Machine
<1>1. m.mem \in [Devices -> Int] /\ \A b \in Bits : m.mem[b] \in Kleene
  BY DEF Machine, Memory
<1>2. [m.mem EXCEPT ![d] = Unknown] \in Memory
  BY <1>1, DevicesDisjoint DEF Memory, Kleene
<1>3. [e \in Timed |-> IF e = d THEN Unknown ELSE m.contact[e]] \in [Timed -> Kleene]
  BY DEF Machine, Kleene
<1>4. QED
  BY <1>2, <1>3 DEF Forget, Machine

\* A word in a register, or a logic value in a bit, leaves a machine.
LEMMA StoreType ==
  ASSUME NEW m \in Machine, NEW d \in Devices, NEW v \in Int, d \in Bits => v \in Kleene
  PROVE  Store(m, d, v) \in Machine
BY DevicesDisjoint DEF Store, Machine, Memory, Kleene

\* A value and a contact in a timer or counter leave a machine.
LEMMA StoreTimedType ==
  ASSUME NEW m \in Machine, NEW d \in Timed, NEW v \in Int, NEW c \in Kleene
  PROVE  StoreTimed(m, d, v, c) \in Machine
BY DevicesDisjoint DEF StoreTimed, Machine, Memory, Kleene

\* Remembering an enable leaves a machine.
LEMMA EnabledType ==
  ASSUME NEW m \in Machine, NEW p \in DOMAIN program
  PROVE  Enabled(m, p) \in Machine
BY DEF Enabled, Machine

\* A word operand is an integer.
LEMMA OperandType ==
  ASSUME NEW m \in Machine, NEW i \in Instruction
  PROVE  Operand(m, i) \in Int
<1>1. i.k \in Nat /\ i.src \in Words \cup {Nothing}
  <2>1. i.k \in Nat
    BY DEF Instruction
  <2>2. i.src \in Words \cup {Nothing}
    BY DEF Instruction
  <2>3. QED
    BY <2>1, <2>2
<1>2. m.mem \in [Devices -> Int]
  BY DEF Machine, Memory
<1>3. QED
  <2>1. CASE i.src = Nothing
    <3>1. Operand(m, i) = i.k
      BY <2>1, Zenon DEF Operand
    <3>2. QED
      BY <1>1, <3>1
  <2>2. CASE i.src \in Words
    <3>1. i.src # Nothing /\ i.src \in Devices
      BY <2>2, ScanConstants DEF Devices
    <3>2. Operand(m, i) = m.mem[i.src]
      BY <3>1, Zenon DEF Operand
    <3>3. QED
      BY <1>2, <3>1, <3>2
  <2>3. QED
    BY <1>1, <2>1, <2>2

\* The signal of a contact has one of three values.
LEMMA SignalType ==
  ASSUME NEW m \in Machine, NEW i \in Instruction, i.op \in Contacts, WellFormed(i)
  PROVE  Signal(m, i) \in Kleene
<1>1. CASE i.form = "="
  BY <1>1 DEF Signal, Truth, Kleene
<1>2. CASE i.form # "="
  <2>1. i.dev \in Bits \cup Timed
    BY <1>2 DEF WellFormed
  <2>2. Bit(m, i.dev) \in Kleene /\ m.previous[i.dev] \in Kleene
    BY <2>1, BitType DEF Machine
  <2>3. QED
    BY <2>2, KleeneClosed, <1>2 DEF Signal, Instruction
<1>3. QED
  BY <1>1, <1>2

\* Connecting a signal leads to a machine.
LEMMA ConnectType ==
  ASSUME NEW m \in Machine, NEW op, NEW v \in Kleene
  PROVE  Connect(m, op, v) \in Machine
<1>1. m.acc \in Kleene /\ m.stack \in Seq(Kleene)
  BY DEF Machine
<1>2. Append(m.stack, m.acc) \in Seq(Kleene)
  BY <1>1
<1>3. And(m.acc, v) \in Kleene /\ Or(m.acc, v) \in Kleene
  BY <1>1, KleeneClosed
<1>4. QED
  BY <1>2, <1>3 DEF Connect, Machine

\* A contact leads to a machine, whether or not it is refused.
LEMMA ContactType ==
  ASSUME NEW m \in Machine, NEW i \in Instruction, i.op \in Contacts, WellFormed(i)
  PROVE  Contact(m, i) \in Machine
<1>1. CASE i.form = "=" /\ m.mem[i.dev] = Unknown
  <2>1. Unknown \in Kleene
    BY DEF Kleene
  <2>2. QED
    BY <1>1, <2>1 DEF Contact, Machine
<1>2. CASE ~(i.form = "=" /\ m.mem[i.dev] = Unknown) /\ i.form \in {"P", "F"}
  <2>1. i.dev \in Bits \cup Timed
    BY <1>2 DEF WellFormed
  <2>2. [m EXCEPT !.samples[i.dev] = Bit(m, i.dev)] \in Machine
    BY <2>1, BitType DEF Machine
  <2>3. QED
    BY <1>2, <2>2, SignalType, ConnectType DEF Contact
<1>3. CASE ~(i.form = "=" /\ m.mem[i.dev] = Unknown) /\ i.form \notin {"P", "F"}
  BY <1>3, SignalType, ConnectType DEF Contact
<1>4. QED
  BY <1>1, <1>2, <1>3

\* Joining blocks leads to a machine.
LEMMA BlockType ==
  ASSUME NEW m \in Machine, NEW i
  PROVE  Block(m, i) \in Machine
<1>1. m.acc \in Kleene /\ m.stack \in Seq(Kleene) /\ Unknown \in Kleene
  BY DEF Machine, Kleene
<1>2. CASE m.stack = <<>>
  BY <1>1, <1>2 DEF Block, Machine
<1>3. CASE m.stack # <<>>
  <2>1. Top(m.stack) \in Kleene /\ Pop(m.stack) \in Seq(Kleene)
    BY <1>1, <1>3, StackPop
  <2>2. And(Top(m.stack), m.acc) \in Kleene /\ Or(Top(m.stack), m.acc) \in Kleene
    BY <1>1, <2>1, KleeneClosed
  <2>3. QED
    BY <1>3, <2>1, <2>2 DEF Block, Machine
<1>4. QED
  BY <1>2, <1>3

\* Sharing a condition leads to a machine.
LEMMA ShareType ==
  ASSUME NEW m \in Machine, NEW i
  PROVE  Share(m, i) \in Machine
<1>1. m.acc \in Kleene /\ m.saved \in Seq(Kleene)
  BY DEF Machine
<1>2. Append(m.saved, m.acc) \in Seq(Kleene)
  BY <1>1
<1>3. m.saved # <<>> => Top(m.saved) \in Kleene /\ Pop(m.saved) \in Seq(Kleene)
  BY <1>1, StackPop
<1>4. QED
  BY <1>2, <1>3 DEF Share, Machine

\* A timer may start at any time.
LEMMA StartType ==
  ASSUME NEW m \in Machine, NEW t \in Timers, NEW x \in Int
  PROVE  [m EXCEPT !.start[t] = x] \in Machine
BY DEF Machine

\* The lesser of two integers is one.
LEMMA LeastType ==
  ASSUME NEW a \in Int, NEW b \in Int
  PROVE  Least(a, b) \in Int
BY DEF Least

\* A truth value is one of the three.
LEMMA TruthType ==
  ASSUME NEW P
  PROVE  Truth(P) \in Kleene
BY DEF Truth, Kleene

\* A driven timer leads to a machine.
LEMMA TimerOutType ==
  ASSUME NEW m \in Machine, NEW i \in Instruction, i.dev \in Timers,
         NEW p \in DOMAIN program, NEW now \in Int
  PROVE  TimerOut(m, i, p, now) \in Machine
<1> DEFINE t == i.dev
           d == [Enabled(m, p) EXCEPT !.drive[t] = m.acc]
           from == IF m.start[t] = Absent THEN now ELSE m.start[t]
           count == (now - from) \div Unit
           preset == Operand(m, i)
<1>1. t \in Timers /\ t \in Timed /\ t \in Devices
  BY DEF Timed, Devices
<1>2. d \in Machine
  BY EnabledType, <1>1 DEF Machine
<1>3. from \in Int
  BY <1>1 DEF Machine
<1>4. count \in Int
  BY <1>3, ScanConstants
<1>5. preset \in Int
  BY OperandType
<1>6. [d EXCEPT !.start[t] = Absent] \in Machine /\ [d EXCEPT !.start[t] = from] \in Machine
  <2> HIDE DEF d, from, t
  <2>1. \A x \in Int : [d EXCEPT !.start[t] = x] \in Machine
    BY <1>1, <1>2, StartType
  <2>2. QED
    BY <1>3, <2>1
<1>7. /\ StoreTimed([d EXCEPT !.start[t] = Absent], t, 0, Off) \in Machine
      /\ StoreTimed([d EXCEPT !.start[t] = from], t, Least(count, preset), Truth(count >= preset)) \in Machine
  BY <1>1, <1>4, <1>5, <1>6, StoreTimedType, LeastType, TruthType DEF Kleene
<1>8. Forget(d, t) \in Machine /\ Forget([d EXCEPT !.start[t] = from], t) \in Machine
  BY <1>1, <1>2, <1>6, ForgetType
<1>9. QED
  BY <1>7, <1>8, Zenon DEF TimerOut

\* A counter leads to a machine.
LEMMA CounterOutType ==
  ASSUME NEW m \in Machine, NEW i \in Instruction, i.dev \in Counters, NEW p \in DOMAIN program
  PROVE  CounterOut(m, i, p) \in Machine
<1> DEFINE preset == Operand(m, i)
           value ==
             IF m.acc = On /\ m.prior[p] = Off /\ m.mem[i.dev] # Unknown
             THEN Least(m.mem[i.dev] + 1, preset)
             ELSE IF m.acc = Unknown \/ (m.acc = On /\ m.prior[p] = Unknown) THEN Unknown
             ELSE m.mem[i.dev]
           contact == IF value = Unknown THEN Unknown ELSE Truth(value >= preset)
<1>1. i.dev \in Timed /\ i.dev \in Devices
  BY DEF Timed, Devices
<1>2. preset \in Int
  BY OperandType
<1>3. value \in Int
  <2>1. m.mem[i.dev] \in Int
    BY <1>1 DEF Machine, Memory
  <2>2. Least(m.mem[i.dev] + 1, preset) \in Int
    <3>1. m.mem[i.dev] + 1 \in Int
      BY <2>1
    <3> HIDE DEF preset
    <3>2. QED
      BY <1>2, <3>1, LeastType
  <2>3. QED
    BY <2>1, <2>2
<1>4. contact \in Kleene
  BY TruthType DEF Kleene
<1>5. StoreTimed(Enabled(m, p), i.dev, value, contact) \in Machine
  <2> HIDE DEF value, contact
  <2>1. QED
    BY <1>1, <1>3, <1>4, EnabledType, StoreTimedType
<1>6. Forget(Enabled(m, p), i.dev) \in Machine
  BY <1>1, EnabledType, ForgetType
<1>7. QED
  BY <1>5, <1>6, Zenon DEF CounterOut

\* An output or a pulse leads to a machine.
LEMMA CoilType ==
  ASSUME NEW m \in Machine, NEW i, i.dev \in Bits, NEW p \in DOMAIN program
  PROVE  Coil(m, i, p) \in Machine
<1>1. m.acc \in Kleene /\ m.prior[p] \in Kleene
  BY DEF Machine
<1>2. And(m.acc, Not(m.prior[p])) \in Kleene /\ And(m.prior[p], Not(m.acc)) \in Kleene
  BY <1>1, KleeneClosed
<1>3. i.dev \in Devices /\ \A x \in Kleene : x \in Int
  BY DEF Devices, Kleene
<1>4. \A x \in Kleene : Store(Enabled(m, p), i.dev, x) \in Machine
  BY <1>3, EnabledType, StoreType
<1>5. QED
  BY <1>1, <1>2, <1>4, Zenon DEF Coil

\* SET, RST and MOV lead to a machine.
LEMMA CommandType ==
  ASSUME NEW m \in Machine, NEW i \in Instruction, i.dev \in Bits \cup Words,
         i.dev \in Bits => i.op # "MOV", i.dev \in Words => i.op # "SET",
         NEW p \in DOMAIN program
  PROVE  Command(m, i, p) \in Machine
<1>1. i.dev \in Devices /\ Operand(m, i) \in Int
  BY OperandType DEF Devices
<1>2. Enabled(m, p) \in Machine /\ Forget(Enabled(m, p), i.dev) \in Machine
  BY <1>1, EnabledType, ForgetType
<1>3. i.op = "MOV" => Store(Enabled(m, p), i.dev, Operand(m, i)) \in Machine
  BY <1>1, <1>2, StoreType
<1>4. \A x \in {On, 0} : Store(Enabled(m, p), i.dev, x) \in Machine
  BY <1>1, <1>2, StoreType DEF Kleene
<1>5. QED
  BY <1>2, <1>3, <1>4 DEF Command

\* The reset of a timer or counter leads to a machine.
LEMMA ResetType ==
  ASSUME NEW m \in Machine, NEW i, i.dev \in Timed, NEW p \in DOMAIN program, NEW now \in Int
  PROVE  Reset(m, i, p, now) \in Machine
<1>1. i.dev \in Devices
  BY DEF Devices
<1>2. Enabled(m, p) \in Machine /\ Forget(Enabled(m, p), i.dev) \in Machine
  BY <1>1, EnabledType, ForgetType
<1>3. StoreTimed(Enabled(m, p), i.dev, 0, Off) \in Machine
  BY <1>2, StoreTimedType DEF Kleene
<1>4. \A x \in Int : i.dev \in Timers =>
        [StoreTimed(Enabled(m, p), i.dev, 0, Off) EXCEPT !.start[i.dev] = x] \in Machine
  BY <1>3, StartType
<1>5. (IF m.drive[i.dev] = On THEN now ELSE Absent) \in Int
  OBVIOUS
<1>6. QED
  BY <1>2, <1>3, <1>4, <1>5, Zenon DEF Reset

-----------------------------------------------------------------------------
(* One machine below another *)

MemoryBelow(k, a) ==
  /\ \A d \in Devices : Below(k.mem[d], a.mem[d])
  /\ \A d \in Timed : Below(k.contact[d], a.contact[d])

StackBelow(s, r) == Len(s) = Len(r) /\ \A j \in 1 .. Len(s) : Below(s[j], r[j])

LogicBelow(k, a) ==
  Below(k.acc, a.acc) /\ StackBelow(k.stack, a.stack) /\ StackBelow(k.saved, a.saved)

HistoryBelow(k, a) ==
  /\ \A p \in DOMAIN program : Below(k.prior[p], a.prior[p])
  /\ \A d \in Bits \cup Timed :
       /\ Below(k.previous[d], a.previous[d]) /\ Below(k.samples[d], a.samples[d])
       /\ k.samples[d] = Absent <=> a.samples[d] = Absent

\* The checker has no start for the timer, and knows neither that it was at rest
\* nor that the last scan did not drive it.
StartLost(k, t) ==
  /\ k.start[t] = Absent /\ k.mem[t] = Unknown
  /\ \A p \in DOMAIN program : program[p].op = "OUT" /\ program[p].dev = t => k.prior[p] # Off

TimersBelow(k, a) ==
  \A t \in Timers :
    /\ k.drive[t] = a.drive[t]
    /\ k.start[t] = a.start[t] \/ StartLost(k, t)

Agree(k, a) == MemoryBelow(k, a) /\ LogicBelow(k, a) /\ HistoryBelow(k, a) /\ TimersBelow(k, a)

\* Two stores of agreeing values into the same device keep the machines in agreement.
LEMMA StoreBelow ==
  ASSUME NEW k \in Machine, NEW a \in Machine, Agree(k, a),
         NEW d \in Bits \cup Words, NEW v \in Int, NEW w \in Int, Below(v, w)
  PROVE  Agree(Store(k, d, v), Store(a, d, w))
<1>1. MemoryBelow(Store(k, d, v), Store(a, d, w))
  BY DevicesDisjoint DEF Agree, MemoryBelow, Store, Machine, Memory
<1>2. LogicBelow(Store(k, d, v), Store(a, d, w))
  BY DEF Agree, LogicBelow, Store, Machine
<1>3. HistoryBelow(Store(k, d, v), Store(a, d, w))
  BY DEF Agree, HistoryBelow, Store, Machine
<1>4. TimersBelow(Store(k, d, v), Store(a, d, w))
  BY DevicesDisjoint DEF Agree, TimersBelow, StartLost, Store, Machine, Memory
<1>5. QED
  BY <1>1, <1>2, <1>3, <1>4 DEF Agree

\* The same of a timer or counter, if a timer has one start in both machines.
LEMMA StoreTimedBelow ==
  ASSUME NEW k \in Machine, NEW a \in Machine, Agree(k, a), NEW d \in Timed,
         NEW v \in Int, NEW w \in Int, NEW b \in Kleene, NEW c \in Kleene,
         Below(v, w), Below(b, c), d \in Timers => k.start[d] = a.start[d]
  PROVE  Agree(StoreTimed(k, d, v, b), StoreTimed(a, d, w, c))
<1>1. MemoryBelow(StoreTimed(k, d, v, b), StoreTimed(a, d, w, c))
  BY DevicesDisjoint DEF Agree, MemoryBelow, StoreTimed, Machine, Memory
<1>2. LogicBelow(StoreTimed(k, d, v, b), StoreTimed(a, d, w, c))
  BY DEF Agree, LogicBelow, StoreTimed, Machine
<1>3. HistoryBelow(StoreTimed(k, d, v, b), StoreTimed(a, d, w, c))
  BY DEF Agree, HistoryBelow, StoreTimed, Machine
<1>4. TimersBelow(StoreTimed(k, d, v, b), StoreTimed(a, d, w, c))
  BY DevicesDisjoint DEF Agree, TimersBelow, StartLost, StoreTimed, Machine, Memory
<1>5. QED
  BY <1>1, <1>2, <1>3, <1>4 DEF Agree

\* What the checker forgets is below whatever the actual machine stores there.
Differ(a, b, d) ==
  /\ b \in Machine
  /\ \A e \in Devices : e # d => b.mem[e] = a.mem[e]
  /\ \A e \in Timed : e # d => b.contact[e] = a.contact[e]
  /\ b.acc = a.acc /\ b.stack = a.stack /\ b.saved = a.saved /\ b.prior = a.prior
  /\ b.previous = a.previous /\ b.samples = a.samples /\ b.start = a.start /\ b.drive = a.drive

\* A checker that forgets the device stays below a machine that writes it.
LEMMA ForgetBelow ==
  ASSUME NEW k \in Machine, NEW a \in Machine, Agree(k, a), NEW d \in Devices,
         NEW b, Differ(a, b, d)
  PROVE  Agree(Forget(k, d), b)
<1>1. MemoryBelow(Forget(k, d), b)
  BY DevicesDisjoint DEF Agree, MemoryBelow, Forget, Machine, Memory, Differ, Below
<1>2. LogicBelow(Forget(k, d), b)
  BY DEF Agree, LogicBelow, Forget, Machine, Differ
<1>3. HistoryBelow(Forget(k, d), b)
  BY DEF Agree, HistoryBelow, Forget, Machine, Differ
<1>4. TimersBelow(Forget(k, d), b)
  BY DevicesDisjoint DEF Agree, TimersBelow, StartLost, Forget, Machine, Memory, Differ
<1>5. QED
  BY <1>1, <1>2, <1>3, <1>4 DEF Agree

\* Doing nothing, forgetting or storing changes one device only.
LEMMA OneWriteDiffers ==
  ASSUME NEW a \in Machine, NEW d \in Devices
  PROVE  /\ Differ(a, a, d) /\ Differ(a, Forget(a, d), d)
         /\ \A v \in Int : (d \in Bits => v \in Kleene) => Differ(a, Store(a, d, v), d)
         /\ \A v \in Int, c \in Kleene : d \in Timed => Differ(a, StoreTimed(a, d, v, c), d)
<1>1. Differ(a, a, d)
  BY DEF Differ
<1>2. Differ(a, Forget(a, d), d)
  <2>1. Forget(a, d) \in Machine
    BY ForgetType
  <2>2. QED
    BY <2>1 DEF Differ, Forget, Machine, Memory
<1>3. ASSUME NEW v \in Int, d \in Bits => v \in Kleene PROVE Differ(a, Store(a, d, v), d)
  <2>1. Store(a, d, v) \in Machine
    BY <1>3, StoreType
  <2>2. QED
    BY <2>1 DEF Differ, Store, Machine, Memory
<1>4. ASSUME NEW v \in Int, NEW c \in Kleene, d \in Timed
      PROVE  Differ(a, StoreTimed(a, d, v, c), d)
  <2>1. StoreTimed(a, d, v, c) \in Machine
    BY <1>4, StoreTimedType
  <2>2. QED
    BY <1>4, <2>1 DEF Differ, StoreTimed, Machine, Memory
<1>5. QED
  BY <1>1, <1>2, <1>3, <1>4

\* Both machines remember their enable, except that of a timer.
LEMMA EnabledBelow ==
  ASSUME NEW k \in Machine, NEW a \in Machine, Agree(k, a), NEW p \in DOMAIN program,
         ~(program[p].op = "OUT" /\ program[p].dev \in Timers)
  PROVE  Agree(Enabled(k, p), Enabled(a, p))
<1>1. MemoryBelow(Enabled(k, p), Enabled(a, p))
  BY DEF Agree, MemoryBelow, Enabled, Machine
<1>2. LogicBelow(Enabled(k, p), Enabled(a, p))
  BY DEF Agree, LogicBelow, Enabled, Machine
<1>3. HistoryBelow(Enabled(k, p), Enabled(a, p))
  BY DEF Agree, HistoryBelow, LogicBelow, Enabled, Machine
<1>4. TimersBelow(Enabled(k, p), Enabled(a, p))
  BY DEF Agree, TimersBelow, StartLost, Enabled, Machine
<1>5. QED
  BY <1>1, <1>2, <1>3, <1>4 DEF Agree

\* Both machines enter the circuit.
LEMMA EnterBelow ==
  ASSUME NEW k \in Machine, NEW a \in Machine, Agree(k, a), NEW i
  PROVE  Agree(Enter(k, i), Enter(a, i))
<1>1. MemoryBelow(Enter(k, i), Enter(a, i))
  BY DEF Agree, MemoryBelow, Enter, Machine
<1>2. LogicBelow(Enter(k, i), Enter(a, i))
  <2>1. StackBelow(<<>>, <<>>) /\ Below(On, On)
    BY DEF StackBelow, Below
  <2>2. QED
    BY <2>1 DEF Agree, LogicBelow, Enter, Machine
<1>3. HistoryBelow(Enter(k, i), Enter(a, i))
  BY DEF Agree, HistoryBelow, Enter, Machine
<1>4. TimersBelow(Enter(k, i), Enter(a, i))
  BY DEF Agree, TimersBelow, StartLost, Enter, Machine
<1>5. QED
  BY <1>1, <1>2, <1>3, <1>4 DEF Agree

-----------------------------------------------------------------------------
(* Every instruction is monotone *)

\* Agreeing accumulators may take the place of agreeing accumulators.
LEMMA LogicChange ==
  ASSUME NEW k \in Machine, NEW a \in Machine, Agree(k, a),
         NEW u \in Kleene, NEW v \in Kleene, Below(u, v)
  PROVE  Agree([k EXCEPT !.acc = u], [a EXCEPT !.acc = v])
BY DEF Agree, MemoryBelow, LogicBelow, HistoryBelow, TimersBelow, StartLost, Machine

\* A push keeps two stacks in agreement.
LEMMA PushBelow ==
  ASSUME NEW s \in Seq(Kleene), NEW r \in Seq(Kleene), StackBelow(s, r),
         NEW u \in Kleene, NEW v \in Kleene, Below(u, v)
  PROVE  StackBelow(Append(s, u), Append(r, v))
BY DEF StackBelow

\* A pop keeps two stacks in agreement, and so do the values it takes.
LEMMA PopBelow ==
  ASSUME NEW s \in Seq(Kleene), NEW r \in Seq(Kleene), StackBelow(s, r), s # <<>>
  PROVE  r # <<>> /\ Below(Top(s), Top(r)) /\ StackBelow(Pop(s), Pop(r))
<1>1. PICK n \in Nat \ {0} : n = Len(s) /\ n = Len(r)
  BY EmptySeq DEF StackBelow
<1>2. r # <<>>
  BY <1>1
<1>3. Below(s[n], r[n]) /\ \A j \in 1 .. n - 1 : Below(s[j], r[j])
  BY <1>1 DEF StackBelow
<1>4. /\ Len(Pop(s)) = n - 1 /\ \A j \in 1 .. n - 1 : Pop(s)[j] = s[j]
      /\ Len(Pop(r)) = n - 1 /\ \A j \in 1 .. n - 1 : Pop(r)[j] = r[j]
  BY <1>1, <1>2, StackPop
<1>5. QED
  BY <1>1, <1>2, <1>3, <1>4 DEF StackBelow, Top

\* The signal the checker sees is below the signal of the machine.
LEMMA SignalBelow ==
  ASSUME NEW k \in Machine, NEW a \in Machine, Agree(k, a),
         NEW i \in Instruction, i.op \in Contacts, WellFormed(i),
         ~(i.form = "=" /\ k.mem[i.dev] = Unknown)
  PROVE  Below(Signal(k, i), Signal(a, i))
<1>1. CASE i.form = "="
  <2>1. k.mem[i.dev] = a.mem[i.dev]
    BY <1>1, DevicesDisjoint DEF Agree, MemoryBelow, Below, WellFormed
  <2>2. QED
    BY <1>1, <2>1 DEF Signal, Below
<1>2. CASE i.form # "="
  <2>1. i.dev \in Bits \cup Timed
    BY <1>2 DEF WellFormed
  <2>2. /\ Below(Bit(k, i.dev), Bit(a, i.dev))
        /\ Below(k.previous[i.dev], a.previous[i.dev])
    BY <2>1, DevicesDisjoint DEF Agree, MemoryBelow, HistoryBelow, Bit
  <2>3. QED
    BY <1>2, <2>2, KleeneMonotone DEF Signal, Instruction
<1>3. QED
  BY <1>1, <1>2

\* Connecting agreeing signals keeps the machines in agreement.
LEMMA ConnectBelow ==
  ASSUME NEW k \in Machine, NEW a \in Machine, Agree(k, a), NEW op,
         NEW u \in Kleene, NEW v \in Kleene, Below(u, v)
  PROVE  Agree(Connect(k, op, u), Connect(a, op, v))
<1>1. /\ k.acc \in Kleene /\ a.acc \in Kleene /\ Below(k.acc, a.acc)
      /\ k.stack \in Seq(Kleene) /\ a.stack \in Seq(Kleene) /\ StackBelow(k.stack, a.stack)
  BY DEF Agree, LogicBelow, Machine
<1>2. CASE op = "LD"
  <2>1. StackBelow(Append(k.stack, k.acc), Append(a.stack, a.acc))
    BY <1>1, PushBelow
  <2>2. /\ Connect(k, op, u) = [k EXCEPT !.stack = Append(k.stack, k.acc), !.acc = u]
        /\ Connect(a, op, v) = [a EXCEPT !.stack = Append(a.stack, a.acc), !.acc = v]
    BY <1>2 DEF Connect
  <2>3. QED
    BY <2>1, <2>2 DEF Agree, MemoryBelow, LogicBelow, HistoryBelow, TimersBelow, StartLost, Machine
<1>3. CASE op # "LD"
  <2>1. /\ Below(And(k.acc, u), And(a.acc, v)) /\ Below(Or(k.acc, u), Or(a.acc, v))
        /\ And(k.acc, u) \in Kleene /\ And(a.acc, v) \in Kleene
        /\ Or(k.acc, u) \in Kleene /\ Or(a.acc, v) \in Kleene
    BY <1>1, KleeneMonotone, KleeneClosed
  <2>2. \A x, y \in Kleene : Below(x, y) => Agree([k EXCEPT !.acc = x], [a EXCEPT !.acc = y])
    BY LogicChange
  <2>3. QED
    BY <1>3, <2>1, <2>2, Zenon DEF Connect
<1>4. QED
  BY <1>2, <1>3

\* The sample of a contact.
LEMMA SampleBelow ==
  ASSUME NEW k \in Machine, NEW a \in Machine, Agree(k, a), NEW d \in Bits \cup Timed
  PROVE  /\ [k EXCEPT !.samples[d] = Bit(k, d)] \in Machine
         /\ [a EXCEPT !.samples[d] = Bit(a, d)] \in Machine
         /\ Agree([k EXCEPT !.samples[d] = Bit(k, d)], [a EXCEPT !.samples[d] = Bit(a, d)])
<1>1. Bit(k, d) \in Kleene /\ Bit(a, d) \in Kleene
  BY BitType
<1>2. Below(Bit(k, d), Bit(a, d))
  BY DevicesDisjoint DEF Agree, MemoryBelow, Bit
<1>3. \A x \in Kleene : x # Absent
  BY DEF Kleene
<1>4. \A x, y \in Kleene : Below(x, y) =>
        /\ [k EXCEPT !.samples[d] = x] \in Machine /\ [a EXCEPT !.samples[d] = y] \in Machine
        /\ Agree([k EXCEPT !.samples[d] = x], [a EXCEPT !.samples[d] = y])
  <2> SUFFICES ASSUME NEW x \in Kleene, NEW y \in Kleene, Below(x, y)
               PROVE  /\ [k EXCEPT !.samples[d] = x] \in Machine
                      /\ [a EXCEPT !.samples[d] = y] \in Machine
                      /\ Agree([k EXCEPT !.samples[d] = x], [a EXCEPT !.samples[d] = y])
    OBVIOUS
  <2>1. [k EXCEPT !.samples[d] = x] \in Machine /\ [a EXCEPT !.samples[d] = y] \in Machine
    BY DEF Machine
  <2>2. HistoryBelow([k EXCEPT !.samples[d] = x], [a EXCEPT !.samples[d] = y])
    BY <1>3 DEF Agree, HistoryBelow, Machine
  <2>3. QED
    BY <2>1, <2>2 DEF Agree, MemoryBelow, LogicBelow, TimersBelow, StartLost, Machine
<1>5. QED
  BY <1>1, <1>2, <1>4

\* A comparison the checker refuses makes its logic unknown, and the actual
\* machine keeps the shape of its stacks unless the comparison starts a row.
LEMMA ContactBelow ==
  ASSUME NEW k \in Machine, NEW a \in Machine, Agree(k, a),
         NEW i \in Instruction, i.op \in Contacts, WellFormed(i),
         ~(i.op = "LD" /\ i.form = "=" /\ k.mem[i.dev] = Unknown)
  PROVE  Agree(Contact(k, i), Contact(a, i))
<1>1. CASE i.form = "=" /\ k.mem[i.dev] = Unknown
  <2>1. Contact(k, i) = [k EXCEPT !.acc = Unknown]
    BY <1>1 DEF Contact
  <2>2. \E y \in Kleene : Contact(a, i) = [a EXCEPT !.acc = y]
    <3>1. a.acc \in Kleene /\ Signal(a, i) \in Kleene /\ Unknown \in Kleene
      BY SignalType DEF Machine, Kleene
    <3>2. And(a.acc, Signal(a, i)) \in Kleene /\ Or(a.acc, Signal(a, i)) \in Kleene
      BY <3>1, KleeneClosed
    <3>3. i.op # "LD" /\ i.form \notin {"P", "F"}
      BY <1>1
    <3>4. QED
      BY <3>1, <3>2, <3>3, Zenon DEF Contact, Connect
  <2>3. \A y \in Kleene : Below(Unknown, y) /\ Unknown \in Kleene
    BY DEF Below, Kleene
  <2>4. QED
    BY <2>1, <2>2, <2>3, LogicChange
<1>2. CASE ~(i.form = "=" /\ k.mem[i.dev] = Unknown)
  <2>1. ~(i.form = "=" /\ a.mem[i.dev] = Unknown)
    BY <1>2, DevicesDisjoint DEF Agree, MemoryBelow, Below, WellFormed
  <2>2. /\ Signal(k, i) \in Kleene /\ Signal(a, i) \in Kleene
        /\ Below(Signal(k, i), Signal(a, i))
    BY <1>2, SignalType, SignalBelow
  <2>3. CASE i.form \in {"P", "F"}
    <3>1. i.dev \in Bits \cup Timed
      BY <2>3 DEF WellFormed
    <3> DEFINE ks == [k EXCEPT !.samples[i.dev] = Bit(k, i.dev)]
               as == [a EXCEPT !.samples[i.dev] = Bit(a, i.dev)]
    <3>2. ks \in Machine /\ as \in Machine /\ Agree(ks, as)
      BY <3>1, SampleBelow
    <3>3. Contact(k, i) = Connect(ks, i.op, Signal(k, i))
      BY <1>2, <2>3 DEF Contact
    <3>4. Contact(a, i) = Connect(as, i.op, Signal(a, i))
      BY <2>1, <2>3 DEF Contact
    <3> HIDE DEF ks, as
    <3>5. QED
      BY <2>2, <3>2, <3>3, <3>4, ConnectBelow
  <2>4. CASE i.form \notin {"P", "F"}
    <3>1. Contact(k, i) = Connect(k, i.op, Signal(k, i))
      BY <1>2, <2>4 DEF Contact
    <3>2. Contact(a, i) = Connect(a, i.op, Signal(a, i))
      BY <2>1, <2>4 DEF Contact
    <3>3. QED
      BY <2>2, <3>1, <3>2, ConnectBelow
  <2>5. QED
    BY <2>3, <2>4
<1>3. QED
  BY <1>1, <1>2

\* Two stacks in agreement are empty together.
LEMMA SameEmpty ==
  ASSUME NEW s \in Seq(Kleene), NEW r \in Seq(Kleene), StackBelow(s, r)
  PROVE  s = <<>> <=> r = <<>>
<1>1. (s = <<>> <=> Len(s) = 0) /\ (r = <<>> <=> Len(r) = 0)
  BY EmptySeq
<1>2. QED
  BY <1>1 DEF StackBelow

\* Joining blocks keeps the machines in agreement.
LEMMA BlockBelow ==
  ASSUME NEW k \in Machine, NEW a \in Machine, Agree(k, a), NEW i
  PROVE  Agree(Block(k, i), Block(a, i))
<1>1. /\ k.acc \in Kleene /\ a.acc \in Kleene /\ Below(k.acc, a.acc)
      /\ k.stack \in Seq(Kleene) /\ a.stack \in Seq(Kleene) /\ StackBelow(k.stack, a.stack)
  BY DEF Agree, LogicBelow, Machine
<1>2. k.stack = <<>> <=> a.stack = <<>>
  BY <1>1, SameEmpty
<1>3. CASE k.stack = <<>>
  <2>1. Agree([k EXCEPT !.acc = Unknown], [a EXCEPT !.acc = Unknown])
    BY LogicChange DEF Below, Kleene
  <2>2. QED
    BY <1>2, <1>3, <2>1 DEF Block
<1>4. CASE k.stack # <<>>
  <2>1. /\ Below(Top(k.stack), Top(a.stack)) /\ StackBelow(Pop(k.stack), Pop(a.stack))
        /\ Top(k.stack) \in Kleene /\ Top(a.stack) \in Kleene
    BY <1>1, <1>2, <1>4, PopBelow, StackPop
  <2>2. /\ Below(And(Top(k.stack), k.acc), And(Top(a.stack), a.acc))
        /\ Below(Or(Top(k.stack), k.acc), Or(Top(a.stack), a.acc))
    BY <1>1, <2>1, KleeneMonotone
  <2>3. \A x, y : Below(x, y) =>
          Agree([k EXCEPT !.stack = Pop(k.stack), !.acc = x],
                [a EXCEPT !.stack = Pop(a.stack), !.acc = y])
    BY <2>1 DEF Agree, MemoryBelow, LogicBelow, HistoryBelow, TimersBelow, StartLost, Machine
  <2>4. QED
    BY <1>2, <1>4, <2>2, <2>3, Zenon DEF Block
<1>5. QED
  BY <1>3, <1>4

\* Sharing a condition keeps the machines in agreement.
LEMMA ShareBelow ==
  ASSUME NEW k \in Machine, NEW a \in Machine, Agree(k, a), NEW i
  PROVE  Agree(Share(k, i), Share(a, i))
<1>1. /\ k.acc \in Kleene /\ a.acc \in Kleene /\ Below(k.acc, a.acc)
      /\ k.saved \in Seq(Kleene) /\ a.saved \in Seq(Kleene) /\ StackBelow(k.saved, a.saved)
  BY DEF Agree, LogicBelow, Machine
<1>2. k.saved = <<>> <=> a.saved = <<>>
  BY <1>1, SameEmpty
<1>3. StackBelow(Append(k.saved, k.acc), Append(a.saved, a.acc))
  BY <1>1, PushBelow
<1>4. \A s, r : StackBelow(s, r) => Agree([k EXCEPT !.saved = s], [a EXCEPT !.saved = r])
  BY DEF Agree, MemoryBelow, LogicBelow, HistoryBelow, TimersBelow, StartLost, Machine
<1>5. CASE i.op = "MPS"
  BY <1>3, <1>4, <1>5 DEF Share
<1>6. CASE i.op # "MPS" /\ k.saved = <<>>
  BY <1>2, <1>6 DEF Share
<1>7. CASE i.op # "MPS" /\ k.saved # <<>>
  <2>1. Below(Top(k.saved), Top(a.saved)) /\ StackBelow(Pop(k.saved), Pop(a.saved))
    BY <1>1, <1>7, PopBelow
  <2>2. /\ Agree([k EXCEPT !.acc = Top(k.saved)], [a EXCEPT !.acc = Top(a.saved)])
        /\ Agree([k EXCEPT !.acc = Top(k.saved), !.saved = Pop(k.saved)],
                 [a EXCEPT !.acc = Top(a.saved), !.saved = Pop(a.saved)])
    BY <2>1 DEF Agree, MemoryBelow, LogicBelow, HistoryBelow, TimersBelow, StartLost, Machine
  <2>3. QED
    BY <1>2, <1>7, <2>2, Zenon DEF Share
<1>8. QED
  BY <1>5, <1>6, <1>7

-----------------------------------------------------------------------------
(* Timers, counters and commands *)

Driven(m, p, t) == [Enabled(m, p) EXCEPT !.drive[t] = m.acc]

Restarted(m, p, t, x) == [Driven(m, p, t) EXCEPT !.start[t] = x]

\* Remembering a drive leaves a machine.
LEMMA DrivenType ==
  ASSUME NEW m \in Machine, NEW p \in DOMAIN program, NEW t \in Timers
  PROVE  Driven(m, p, t) \in Machine
<1>1. Enabled(m, p) \in Machine /\ m.acc \in Kleene
  BY EnabledType DEF Machine
<1>2. QED
  BY <1>1 DEF Driven, Machine

\* Remembering a drive and a start leaves a machine.
LEMMA RestartType ==
  ASSUME NEW m \in Machine, NEW p \in DOMAIN program, NEW t \in Timers, NEW x \in Int
  PROVE  /\ Restarted(m, p, t, x) \in Machine
         /\ Restarted(m, p, t, x).start[t] = x
         /\ x = m.start[t] => Restarted(m, p, t, x) = Driven(m, p, t)
<1>1. Driven(m, p, t) \in Machine
  BY DrivenType
<1>2. Driven(m, p, t).start = m.start
  BY DEF Driven, Enabled, Machine
<1>3. \A s \in Machine :
        /\ [s EXCEPT !.start[t] = x] \in Machine
        /\ [s EXCEPT !.start[t] = x].start[t] = x
        /\ x = s.start[t] => [s EXCEPT !.start[t] = x] = s
  BY DEF Machine
<1>4. QED
  BY <1>1, <1>2, <1>3 DEF Restarted

\* Two timers with one start are below each other whatever came before.
LEMMA StartBelow ==
  ASSUME NEW k \in Machine, NEW a \in Machine, Agree(k, a), NEW t \in Timers, NEW x \in Int
  PROVE  Agree([k EXCEPT !.start[t] = x], [a EXCEPT !.start[t] = x])
<1>1. TimersBelow([k EXCEPT !.start[t] = x], [a EXCEPT !.start[t] = x])
  BY DEF Agree, TimersBelow, StartLost, Machine
<1>2. QED
  BY <1>1 DEF Agree, MemoryBelow, LogicBelow, HistoryBelow, Machine

\* Two machines that remember one enable of a timer and one start stay in agreement.
LEMMA DrivenBelow ==
  ASSUME NEW k \in Machine, NEW a \in Machine, Agree(k, a), NEW t \in Timers,
         NEW p \in DOMAIN program, program[p].op = "OUT", program[p].dev = t,
         k.acc = a.acc, NEW x \in Int
  PROVE  Agree(Restarted(k, p, t, x), Restarted(a, p, t, x))
<1> DEFINE kd == Restarted(k, p, t, x)
           ad == Restarted(a, p, t, x)
<1>1. MemoryBelow(kd, ad)
  BY DEF Agree, MemoryBelow, Restarted, Driven, Enabled, Machine
<1>2. LogicBelow(kd, ad)
  BY DEF Agree, LogicBelow, Restarted, Driven, Enabled, Machine
<1>3. HistoryBelow(kd, ad)
  BY DEF Agree, HistoryBelow, LogicBelow, Restarted, Driven, Enabled, Machine
<1>4. TimersBelow(kd, ad)
  BY DEF Agree, TimersBelow, StartLost, Restarted, Driven, Enabled, Machine
<1>5. QED
  BY <1>1, <1>2, <1>3, <1>4 DEF Agree

\* A drive the checker cannot time: whatever the actual machine makes of its start
\* and its value, the checker has lost the timer until it sees it at rest.
LEMMA LostBelow ==
  ASSUME NEW k \in Machine, NEW a \in Machine, Agree(k, a), NEW t \in Timers,
         NEW p \in DOMAIN program, program[p].op = "OUT", program[p].dev = t,
         \A q \in DOMAIN program : program[q].op = "OUT" /\ program[q].dev = t => q = p,
         k.acc = On, a.acc = On, k.start[t] = Absent,
         NEW x \in Int, NEW b, Differ(Restarted(a, p, t, x), b, t)
  PROVE  Agree(Forget(Driven(k, p, t), t), b)
<1> DEFINE kd == Forget(Driven(k, p, t), t)
<1>1. MemoryBelow(kd, b)
  BY DevicesDisjoint DEF Agree, MemoryBelow, Forget, Differ, Restarted, Driven, Enabled, Machine, Memory, Below
<1>2. LogicBelow(kd, b)
  BY DEF Agree, LogicBelow, Forget, Differ, Restarted, Driven, Enabled, Machine
<1>3. HistoryBelow(kd, b)
  BY DEF Agree, HistoryBelow, LogicBelow, Forget, Differ, Restarted, Driven, Enabled, Machine
<1>4. TimersBelow(kd, b)
  <2>1. \A u \in Timers : kd.drive[u] = b.drive[u]
    BY DEF Agree, TimersBelow, Forget, Differ, Restarted, Driven, Enabled, Machine
  <2>2. StartLost(kd, t)
    BY DevicesDisjoint DEF StartLost, Forget, Restarted, Driven, Enabled, Machine, Memory
  <2>3. \A u \in Timers : u # t => kd.start[u] = b.start[u] \/ StartLost(kd, u)
    BY DevicesDisjoint
       DEF Agree, TimersBelow, StartLost, Forget, Differ, Restarted, Driven, Enabled, Machine, Memory
  <2>4. QED
    BY <2>1, <2>2, <2>3 DEF TimersBelow
<1>5. QED
  BY <1>1, <1>2, <1>3, <1>4 DEF Agree

\* The operand the checker reads is below the operand of the machine.
LEMMA OperandBelow ==
  ASSUME NEW k \in Machine, NEW a \in Machine, Agree(k, a), NEW i \in Instruction
  PROVE  Below(Operand(k, i), Operand(a, i))
<1>1. i.src \in Words \cup {Nothing}
  BY DEF Instruction
<1>2. i.src \in Words => Below(k.mem[i.src], a.mem[i.src])
  BY DevicesDisjoint DEF Agree, MemoryBelow
<1>3. QED
  BY <1>1, <1>2 DEF Operand, Below

\* The start of timer t after a drive at position p.
Started(m, t, p, now) ==
  IF m.start[t] # Absent \/ now = Absent \/ ~Ready(m, t, p) THEN m.start[t] ELSE now

\* A drive writes the start of its timer, its value and its contact.
LEMMA TimerOutDiffers ==
  ASSUME NEW a \in Machine, NEW i \in Instruction, i.dev \in Timers,
         NEW p \in DOMAIN program, NEW now \in Int, a.acc = On
  PROVE  /\ Started(a, i.dev, p, now) \in Int
         /\ Differ(Restarted(a, p, i.dev, Started(a, i.dev, p, now)),
                   TimerOut(a, i, p, now), i.dev)
<1> DEFINE t == i.dev
           d == Driven(a, p, t)
           from == IF a.start[t] = Absent THEN now ELSE a.start[t]
           count == (now - from) \div Unit
           preset == Operand(a, i)
           s == [d EXCEPT !.start[t] = from]
           r == Restarted(a, p, t, Started(a, t, p, now))
<1>1. t \in Timers /\ t \in Timed /\ t \in Devices
  BY DEF Timed, Devices
<1>2. d \in Machine /\ a.start[t] \in Int /\ from \in Int
  BY <1>1, DrivenType DEF Machine
<1>3. s \in Machine /\ [d EXCEPT !.start[t] = a.start[t]] = d
  <2>1. \A m \in Machine : [m EXCEPT !.start[t] = m.start[t]] = m
    BY <1>1 DEF Machine
  <2>2. d.start[t] = a.start[t]
    BY DEF Driven, Enabled, Machine
  <2> HIDE DEF d, from, t
  <2>3. s \in Machine
    BY <1>1, <1>2, StartType
  <2>4. QED
    BY <1>2, <2>1, <2>2, <2>3
<1>4. Differ(d, Forget(d, t), t) /\ Differ(s, Forget(s, t), t)
  <2> HIDE DEF d, s, t
  <2>1. QED
    BY <1>1, <1>2, <1>3, OneWriteDiffers
<1>5. Differ(s, StoreTimed(s, t, Least(count, preset), Truth(count >= preset)), t)
  <2>1. preset \in Int
    BY OperandType
  <2>2. count \in Int
    BY <1>2, ScanConstants
  <2>3. Least(count, preset) \in Int /\ Truth(count >= preset) \in Kleene
    <3> HIDE DEF count, preset
    <3>1. QED
      BY <2>1, <2>2, LeastType, TruthType
  <2> HIDE DEF count, preset, s, t
  <2>4. QED
    BY <1>1, <1>3, <2>3, OneWriteDiffers
<1>6. CASE now = Absent \/ ~Ready(a, t, p)
  <2>1. TimerOut(a, i, p, now) = Forget(d, t)
    BY <1>6 DEF TimerOut, Driven
  <2>2. Started(a, t, p, now) = a.start[t]
    BY <1>6 DEF Started
  <2>3. r = d
    BY <1>3, <2>2, Zenon DEF Restarted
  <2>4. Differ(d, TimerOut(a, i, p, now), t)
    BY <1>4, <2>1, Zenon
  <2>5. QED
    BY <1>2, <2>2, <2>3, <2>4, Zenon
<1>7. CASE ~(now = Absent \/ ~Ready(a, t, p))
  <2>1. TimerOut(a, i, p, now) \in
          {Forget(s, t), StoreTimed(s, t, Least(count, preset), Truth(count >= preset))}
    BY <1>7 DEF TimerOut, Driven
  <2>2. Started(a, t, p, now) = from
    BY <1>7 DEF Started
  <2>3. Differ(s, TimerOut(a, i, p, now), t)
    BY <1>4, <1>5, <2>1, Zenon
  <2>4. r = s
    BY <2>2, Zenon DEF Restarted
  <2>5. QED
    BY <1>2, <2>2, <2>3, <2>4, Zenon
<1>8. QED
  BY <1>6, <1>7

\* A timer driven by a known enable stays in agreement, or the checker has lost its
\* start.
LEMMA TimerOutBelow ==
  ASSUME NEW k \in Machine, NEW a \in Machine, Agree(k, a), program \in Programs,
         NEW p \in DOMAIN program, NEW i \in Instruction, i = program[p], DrivesTimer(i),
         k.acc # Unknown, NEW now \in Nat, NEW seen \in {Absent, now}
  PROVE  Agree(TimerOut(k, i, p, seen), TimerOut(a, i, p, now))
<1> DEFINE t == i.dev
           x == Started(a, t, p, now)
           kx == Restarted(k, p, t, x)
           ax == Restarted(a, p, t, x)
<1>1. /\ t \in Timers /\ t \in Timed /\ program[p].op = "OUT" /\ program[p].dev = t
      /\ \A q \in DOMAIN program : program[q].op = "OUT" /\ program[q].dev = t => q = p
  BY ProgramsWellFormed DEF DrivesTimer, Timed
<1>2. k.acc = a.acc /\ k.acc \in {Off, On}
  BY DEF Agree, LogicBelow, Below, Machine, Kleene
<1>3. k.start[t] = a.start[t] \/ StartLost(k, t)
  BY <1>1 DEF Agree, TimersBelow
<1>4. CASE k.acc = Off
  <2> DEFINE kr == Restarted(k, p, t, Absent)
             ar == Restarted(a, p, t, Absent)
  <2>1. Agree(kr, ar)
    BY <1>1, <1>2, DrivenBelow
  <2>2. kr \in Machine /\ ar \in Machine /\ kr.start[t] = ar.start[t]
    <3>1. Absent \in Int
      OBVIOUS
    <3>2. QED
      BY <1>1, <3>1, RestartType
  <2>4. TimerOut(k, i, p, seen) = StoreTimed(kr, t, 0, Off) /\ TimerOut(a, i, p, now) = StoreTimed(ar, t, 0, Off)
    BY <1>2, <1>4 DEF TimerOut, Restarted, Driven
  <2>5. Below(0, 0) /\ Below(Off, Off) /\ Off \in Kleene
    BY DEF Below, Kleene
  <2> HIDE DEF kr, ar, t
  <2>6. QED
    BY <1>1, <2>1, <2>2, <2>4, <2>5, StoreTimedBelow
<1>5. CASE k.acc = On
  <2>1. x \in Int /\ Differ(ax, TimerOut(a, i, p, now), t)
    <3>1. now \in Int /\ a.acc = On /\ i.dev \in Timers
      BY <1>1, <1>2, <1>5
    <3>2. QED
      BY <3>1, TimerOutDiffers, Zenon
  <2>2. Agree(kx, ax)
    <3> HIDE DEF x
    <3>1. QED
      BY <1>1, <1>2, <2>1, DrivenBelow
  <2>3. kx \in Machine /\ ax \in Machine
    <3> HIDE DEF x
    <3>1. QED
      BY <1>1, <2>1, RestartType
  <2>4. CASE seen = Absent \/ ~Ready(k, t, p)
    <3>1. TimerOut(k, i, p, seen) = Forget(Driven(k, p, t), t)
      BY <1>5, <2>4 DEF TimerOut, Driven
    <3>2. CASE k.start[t] = Absent
      <4> HIDE DEF x
      <4>1. QED
        BY <1>1, <1>2, <1>5, <2>1, <3>1, <3>2, LostBelow
    <3>3. CASE k.start[t] # Absent
      <4>1. x = k.start[t]
        BY <1>3, <3>3 DEF Started, StartLost
      <4>2. kx = Driven(k, p, t)
        <5> HIDE DEF x
        <5>1. QED
          BY <1>1, <2>1, <4>1, RestartType
      <4>3. t \in Devices
        BY <1>1, DevicesDisjoint
      <4> HIDE DEF kx, ax, t
      <4>4. QED
        BY <2>1, <2>2, <2>3, <3>1, <4>2, <4>3, ForgetBelow
    <3>4. QED
      BY <3>2, <3>3
  <2>5. CASE seen # Absent /\ Ready(k, t, p)
    <3>1. seen = now /\ k.start[t] = a.start[t]
      BY <1>1, <1>3, <2>5 DEF Ready, StartLost
    <3>2. Ready(a, t, p) /\ now # Absent
      BY <1>1, <2>5, <3>1, DevicesDisjoint
         DEF Ready, Agree, MemoryBelow, HistoryBelow, Below
    <3>3. x = IF k.start[t] = Absent THEN now ELSE k.start[t]
      BY <3>1, <3>2 DEF Started
    <3> DEFINE count == (now - x) \div Unit
               preset(m) == Operand(m, i)
               at(m, s) == IF preset(m) = Unknown THEN Forget(s, t)
                           ELSE StoreTimed(s, t, Least(count, preset(m)), Truth(count >= preset(m)))
    <3>4. TimerOut(k, i, p, seen) = at(k, kx) /\ TimerOut(a, i, p, now) = at(a, ax)
      <4>1. TimerOut(k, i, p, now) = at(k, kx)
        BY <1>5, <2>5, <3>1, <3>3 DEF TimerOut, Restarted, Driven
      <4>2. TimerOut(a, i, p, now) = at(a, ax)
        BY <1>2, <1>5, <3>1, <3>2, <3>3 DEF TimerOut, Restarted, Driven
      <4>3. QED
        BY <3>1, <4>1, <4>2
    <3>5. CASE preset(k) = Unknown
      <4>1. TimerOut(k, i, p, seen) = Forget(kx, t)
        BY <3>4, <3>5
      <4>2. t \in Devices
        BY <1>1, DevicesDisjoint
      <4> HIDE DEF kx, ax, t
      <4>3. QED
        BY <2>1, <2>2, <2>3, <4>1, <4>2, ForgetBelow
    <3>6. CASE preset(k) # Unknown
      <4>1. preset(a) = preset(k) /\ preset(k) \in Int
        BY <3>6, OperandBelow, OperandType DEF Below
      <4>2. count \in Int
        BY <2>1, ScanConstants
      <4> DEFINE v == Least(count, preset(k))
                 c == Truth(count >= preset(k))
      <4>3. v \in Int /\ c \in Kleene
        <5> HIDE DEF count, preset
        <5>1. QED
          BY <4>1, <4>2, LeastType, TruthType
      <4>4. TimerOut(k, i, p, seen) = StoreTimed(kx, t, v, c) /\ TimerOut(a, i, p, now) = StoreTimed(ax, t, v, c)
        BY <3>4, <3>6, <4>1
      <4>5. kx.start[t] = ax.start[t]
        <5> HIDE DEF x
        <5>1. QED
          BY <1>1, <2>1, RestartType
      <4>6. Below(v, v) /\ Below(c, c)
        BY DEF Below
      <4> HIDE DEF kx, ax, t, v, c
      <4>7. QED
        BY <1>1, <2>2, <2>3, <4>3, <4>4, <4>5, <4>6, StoreTimedBelow
    <3>7. QED
      BY <3>5, <3>6
  <2>6. QED
    BY <2>4, <2>5
<1>6. QED
  BY <1>2, <1>4, <1>5

\* A counter stays in agreement, its edges known or not.
LEMMA CounterOutBelow ==
  ASSUME NEW k \in Machine, NEW a \in Machine, Agree(k, a), NEW p \in DOMAIN program,
         NEW i \in Instruction, i = program[p], i.dev \in Counters
  PROVE  Agree(CounterOut(k, i, p), CounterOut(a, i, p))
<1> DEFINE preset(m) == Operand(m, i)
           value(m, n) ==
             IF m.acc = On /\ m.prior[p] = Off /\ m.mem[i.dev] # Unknown
             THEN Least(m.mem[i.dev] + 1, n)
             ELSE IF m.acc = Unknown \/ (m.acc = On /\ m.prior[p] = Unknown) THEN Unknown
             ELSE m.mem[i.dev]
           contact(v, n) == IF v = Unknown THEN Unknown ELSE Truth(v >= n)
           stored(m, n) == StoreTimed(Enabled(m, p), i.dev, value(m, n), contact(value(m, n), n))
<1>1. i.dev \in Timed /\ i.dev \in Devices /\ i.dev \notin Timers /\ i.dev \notin Bits
  BY ScanConstants DEF Timed, Devices
<1>2. /\ Enabled(k, p) \in Machine /\ Enabled(a, p) \in Machine
      /\ Agree(Enabled(k, p), Enabled(a, p))
  BY <1>1, EnabledType, EnabledBelow
<1>3. \A m \in Machine, n \in Int : value(m, n) \in Int /\ contact(value(m, n), n) \in Kleene
  <2> SUFFICES ASSUME NEW m \in Machine, NEW n \in Int
               PROVE  value(m, n) \in Int /\ contact(value(m, n), n) \in Kleene
    OBVIOUS
  <2>1. m.mem[i.dev] \in Int /\ m.mem[i.dev] + 1 \in Int
    BY <1>1 DEF Machine, Memory
  <2>2. value(m, n) \in Int
    <3>1. Least(m.mem[i.dev] + 1, n) \in Int
      BY <2>1, LeastType
    <3>2. QED
      BY <2>1, <3>1
  <2>3. \A v : contact(v, n) \in Kleene
    BY TruthType DEF Kleene
  <2>4. QED
    BY <2>2, <2>3
<1>4. \A n \in Int : Below(value(k, n), value(a, n))
  BY <1>1 DEF Agree, MemoryBelow, LogicBelow, HistoryBelow, Below
<1>5. preset(k) \in Int /\ preset(a) \in Int /\ Below(preset(k), preset(a))
  BY OperandType, OperandBelow
<1>6. /\ CounterOut(k, i, p) = IF preset(k) = Unknown THEN Forget(Enabled(k, p), i.dev)
                               ELSE stored(k, preset(k))
      /\ CounterOut(a, i, p) = IF preset(a) = Unknown THEN Forget(Enabled(a, p), i.dev)
                               ELSE stored(a, preset(a))
  BY Zenon DEF CounterOut
<1>7. CASE preset(k) = Unknown
  <2>1. Differ(Enabled(a, p), Forget(Enabled(a, p), i.dev), i.dev)
    BY <1>1, <1>2, OneWriteDiffers
  <2>2. Differ(Enabled(a, p), stored(a, preset(a)), i.dev)
    <3>1. value(a, preset(a)) \in Int /\ contact(value(a, preset(a)), preset(a)) \in Kleene
      BY <1>3, <1>5
    <3> HIDE DEF value, contact, preset
    <3>2. QED
      BY <1>1, <1>2, <3>1, OneWriteDiffers
  <2> HIDE DEF stored, preset
  <2>3. QED
    BY <1>1, <1>2, <1>6, <1>7, <2>1, <2>2, ForgetBelow
<1>8. CASE preset(k) # Unknown
  <2>1. preset(a) = preset(k)
    BY <1>5, <1>8 DEF Below
  <2> DEFINE n == preset(k)
             v == value(k, n)
             w == value(a, n)
  <2>2. /\ v \in Int /\ w \in Int /\ Below(v, w)
        /\ contact(v, n) \in Kleene /\ contact(w, n) \in Kleene
    <3>1. n \in Int
      BY <1>5
    <3> HIDE DEF n, value, contact
    <3>2. QED
      BY <1>3, <1>4, <3>1
  <2>3. Below(contact(v, n), contact(w, n))
    <3> HIDE DEF v, w, n
    <3>1. QED
      BY <2>2 DEF Below
  <2>4. /\ CounterOut(k, i, p) = StoreTimed(Enabled(k, p), i.dev, v, contact(v, n))
        /\ CounterOut(a, i, p) = StoreTimed(Enabled(a, p), i.dev, w, contact(w, n))
    BY <1>6, <1>8, <2>1, Zenon
  <2> HIDE DEF v, w, n, contact
  <2>5. QED
    BY <1>1, <1>2, <2>2, <2>3, <2>4, StoreTimedBelow
<1>9. QED
  BY <1>7, <1>8

\* Outputs and pulses stay in agreement.
LEMMA CoilBelow ==
  ASSUME NEW k \in Machine, NEW a \in Machine, Agree(k, a), NEW p \in DOMAIN program,
         NEW i, i = program[p], i.dev \in Bits
  PROVE  Agree(Coil(k, i, p), Coil(a, i, p))
<1>1. i.dev \in Bits \cup Words /\ i.dev \notin Timers
  BY DevicesDisjoint
<1>2. /\ Enabled(k, p) \in Machine /\ Enabled(a, p) \in Machine
      /\ Agree(Enabled(k, p), Enabled(a, p))
  BY <1>1, EnabledType, EnabledBelow
<1>3. /\ Below(k.acc, a.acc) /\ Below(k.prior[p], a.prior[p])
      /\ k.acc \in Kleene /\ a.acc \in Kleene /\ k.prior[p] \in Kleene /\ a.prior[p] \in Kleene
  BY DEF Agree, LogicBelow, HistoryBelow, Machine
<1> DEFINE rise(m) == And(m.acc, Not(m.prior[p]))
           fall(m) == And(m.prior[p], Not(m.acc))
<1>4. /\ Below(rise(k), rise(a)) /\ Below(fall(k), fall(a))
      /\ rise(k) \in Kleene /\ rise(a) \in Kleene /\ fall(k) \in Kleene /\ fall(a) \in Kleene
  <2>1. /\ Below(Not(k.acc), Not(a.acc)) /\ Below(Not(k.prior[p]), Not(a.prior[p]))
        /\ Not(k.acc) \in Kleene /\ Not(a.acc) \in Kleene
        /\ Not(k.prior[p]) \in Kleene /\ Not(a.prior[p]) \in Kleene
    BY <1>3, KleeneMonotone, KleeneClosed
  <2>2. QED
    BY <1>3, <2>1, KleeneMonotone, KleeneClosed
<1>5. \A v, w \in Kleene :
        Below(v, w) => Agree(Store(Enabled(k, p), i.dev, v), Store(Enabled(a, p), i.dev, w))
  <2>1. \A v \in Kleene : v \in Int
    BY DEF Kleene
  <2>2. QED
    BY <1>1, <1>2, <2>1, StoreBelow
<1>6. QED
  BY <1>3, <1>4, <1>5, Zenon DEF Coil

\* SET, RST and MOV stay in agreement, or the checker forgets what they write.
LEMMA CommandBelow ==
  ASSUME NEW k \in Machine, NEW a \in Machine, Agree(k, a), NEW p \in DOMAIN program,
         NEW i \in Instruction, i = program[p], i.dev \in Bits \cup Words,
         i.dev \in Bits => i.op # "MOV", i.dev \in Words => i.op # "SET"
  PROVE  Agree(Command(k, i, p), Command(a, i, p))
<1> DEFINE ke == Enabled(k, p)
           ae == Enabled(a, p)
<1>1. i.dev \in Devices /\ i.dev \notin Timers
  BY DevicesDisjoint
<1>2. ke \in Machine /\ ae \in Machine /\ Agree(ke, ae)
  BY <1>1, EnabledType, EnabledBelow
<1>3. /\ Operand(k, i) \in Int /\ Operand(a, i) \in Int
      /\ Below(Operand(k, i), Operand(a, i))
  BY OperandType, OperandBelow
<1>4. Below(k.acc, a.acc) /\ k.acc \in Kleene /\ a.acc \in Kleene
  BY DEF Agree, LogicBelow, Machine
<1>5. Differ(ae, Command(a, i, p), i.dev)
  <2>1. Differ(ae, ae, i.dev) /\ Differ(ae, Forget(ae, i.dev), i.dev)
    <3> HIDE DEF ae
    <3>1. QED
      BY <1>1, <1>2, OneWriteDiffers
  <2>2. \A v \in {On, 0} : Differ(ae, Store(ae, i.dev, v), i.dev)
    <3>1. \A v \in {On, 0} : v \in Int /\ v \in Kleene
      BY DEF Kleene
    <3> HIDE DEF ae
    <3>2. QED
      BY <1>1, <1>2, <3>1, OneWriteDiffers
  <2>3. i.op = "MOV" => Differ(ae, Store(ae, i.dev, Operand(a, i)), i.dev)
    <3> HIDE DEF ae
    <3>1. QED
      BY <1>1, <1>2, <1>3, OneWriteDiffers
  <2>4. QED
    BY <2>1, <2>2, <2>3 DEF Command
<1>6. CASE Command(k, i, p) = Forget(ke, i.dev)
  <2> HIDE DEF ke, ae
  <2>1. QED
    BY <1>1, <1>2, <1>5, <1>6, ForgetBelow
<1>7. CASE k.acc = Off
  <2>1. Command(k, i, p) = ke /\ Command(a, i, p) = ae
    BY <1>4, <1>7 DEF Command, Below
  <2>2. QED
    BY <1>2, <2>1
<1>8. CASE k.acc # Off /\ Command(k, i, p) # Forget(ke, i.dev)
  <2>1. /\ k.acc = On /\ a.acc = On
        /\ i.op = "MOV" => Operand(k, i) # Unknown /\ Operand(a, i) = Operand(k, i)
    BY <1>3, <1>4, <1>8 DEF Command, Below, Kleene
  <2>2. \A v \in Int : Below(v, v)
    BY DEF Below
  <2>3. \E v \in Int : Command(k, i, p) = Store(ke, i.dev, v) /\ Command(a, i, p) = Store(ae, i.dev, v)
    BY <1>3, <2>1, SMT DEF Command
  <2> HIDE DEF ke, ae
  <2>4. QED
    BY <1>2, <2>2, <2>3, StoreBelow
<1>9. QED
  BY <1>6, <1>7, <1>8

\* A reset the checker decides sets one start in both machines.
LEMMA ResetBelow ==
  ASSUME NEW k \in Machine, NEW a \in Machine, Agree(k, a), NEW p \in DOMAIN program,
         NEW i, i = program[p], i.op = "RST", i.dev \in Timed,
         NEW now \in Nat, NEW seen \in {Absent, now},
         i.dev \in Timers => k.acc = Off \/ (k.acc = On /\ seen # Absent)
  PROVE  Agree(Reset(k, i, p, seen), Reset(a, i, p, now))
<1> DEFINE d == i.dev
           ke == Enabled(k, p)
           ae == Enabled(a, p)
           ks == StoreTimed(ke, d, 0, Off)
           as == StoreTimed(ae, d, 0, Off)
<1>1. d \in Devices /\ d \in Timed /\ i.op # "OUT"
  BY DEF Devices
<1>2. ke \in Machine /\ ae \in Machine /\ Agree(ke, ae)
  BY <1>1, EnabledType, EnabledBelow
<1>3. Below(k.acc, a.acc) /\ k.acc \in Kleene /\ a.acc \in Kleene
  BY DEF Agree, LogicBelow, Machine
<1>4. ks \in Machine /\ as \in Machine
  BY <1>1, <1>2, StoreTimedType DEF Kleene
<1>5. CASE k.acc = Off
  BY <1>2, <1>3, <1>5 DEF Reset, Below
<1>6. CASE d \in Timers /\ k.acc = On
  <2>1. seen = now /\ a.acc = On /\ k.drive[d] = a.drive[d]
    BY <1>3, <1>6 DEF Agree, TimersBelow, Below
  <2> DEFINE x == IF k.drive[d] = On THEN now ELSE Absent
             kx == [ke EXCEPT !.start[d] = x]
             ax == [ae EXCEPT !.start[d] = x]
  <2>2. x \in Int
    OBVIOUS
  <2>3. /\ Agree(kx, ax) /\ kx \in Machine /\ ax \in Machine
        /\ kx.start[d] = ax.start[d]
    <3>1. \A m \in Machine : [m EXCEPT !.start[d] = x] \in Machine /\ [m EXCEPT !.start[d] = x].start[d] = x
      BY <1>6, <2>2 DEF Machine
    <3>2. Agree(kx, ax)
      <4> HIDE DEF x, ke, ae, d
      <4>1. QED
        BY <1>2, <1>6, <2>2, StartBelow
    <3>3. QED
      BY <1>2, <3>1, <3>2, Zenon
  <2>4. Agree(StoreTimed(kx, d, 0, Off), StoreTimed(ax, d, 0, Off))
    <3>1. Below(0, 0) /\ Below(Off, Off) /\ Off \in Kleene /\ 0 \in Int
      BY DEF Below, Kleene
    <3> HIDE DEF kx, ax, d
    <3>2. QED
      BY <1>1, <2>3, <3>1, StoreTimedBelow
  <2>5. /\ Reset(k, i, p, seen) = [ks EXCEPT !.start[d] = x]
        /\ Reset(a, i, p, now) = [as EXCEPT !.start[d] = x]
    BY <1>6, <2>1 DEF Reset
  <2>6. \A m \in Machine :
          [StoreTimed(m, d, 0, Off) EXCEPT !.start[d] = x] = StoreTimed([m EXCEPT !.start[d] = x], d, 0, Off)
    <3> SUFFICES ASSUME NEW m \in Machine
                 PROVE  [StoreTimed(m, d, 0, Off) EXCEPT !.start[d] = x] =
                          StoreTimed([m EXCEPT !.start[d] = x], d, 0, Off)
      OBVIOUS
    <3> HIDE DEF d, x
    <3>1. QED
      BY <1>1, <1>6 DEF StoreTimed, Machine
  <2>7. QED
    BY <1>2, <2>4, <2>5, <2>6, Zenon
<1>7. CASE d \notin Timers /\ k.acc = On
  <2>1. Reset(k, i, p, seen) = ks /\ Reset(a, i, p, now) = as
    BY <1>3, <1>7 DEF Reset, Below
  <2>2. Below(0, 0) /\ Below(Off, Off) /\ Off \in Kleene /\ 0 \in Int
    BY DEF Below, Kleene
  <2> HIDE DEF ke, ae, d
  <2>3. QED
    BY <1>1, <1>2, <1>7, <2>1, <2>2, StoreTimedBelow
<1>8. CASE d \notin Timers /\ k.acc = Unknown
  <2>1. Reset(k, i, p, seen) = Forget(ke, d)
    BY <1>8 DEF Reset
  <2>2. Reset(a, i, p, now) \in {ae, Forget(ae, d), as}
    BY <1>8 DEF Reset
  <2>3. Differ(ae, ae, d) /\ Differ(ae, Forget(ae, d), d) /\ Differ(ae, as, d)
    <3>1. Off \in Kleene /\ 0 \in Int
      BY DEF Kleene
    <3> HIDE DEF ae, d
    <3>2. QED
      BY <1>1, <1>2, <3>1, OneWriteDiffers
  <2> HIDE DEF ke, ae, as, d
  <2>4. QED
    BY <1>1, <1>2, <2>1, <2>2, <2>3, ForgetBelow
<1>9. QED
  BY <1>3, <1>5, <1>6, <1>7, <1>8 DEF Kleene

\* A frame keeps the machines in agreement.
LEMMA BegunBelow ==
  ASSUME NEW k \in Machine, NEW a \in Machine, NEW inputs \in [Inputs -> {Off, On}]
  PROVE  /\ Begun(k, inputs) \in Machine /\ Begun(a, inputs) \in Machine
         /\ Agree(k, a) => Agree(Begun(k, inputs), Begun(a, inputs))
<1> DEFINE mem(m) == [d \in Devices |-> IF d \in Inputs THEN inputs[d] ELSE m.mem[d]]
<1>1. ASSUME NEW m \in Machine PROVE mem(m) \in Memory
  <2>1. m.mem \in [Devices -> Int] /\ \A b \in Bits : m.mem[b] \in Kleene
    BY DEF Machine, Memory
  <2>2. \A d \in Inputs : inputs[d] \in Int /\ inputs[d] \in Kleene
    BY DEF Kleene
  <2>3. QED
    BY <2>1, <2>2, DevicesDisjoint DEF Memory
<1>2. NoSamples \in [Bits \cup Timed -> Kleene \cup {Absent}] /\ NoDrives \in [Timers -> Kleene \cup {Absent}]
  BY DEF NoSamples, NoDrives
<1>3. ASSUME NEW m \in Machine PROVE Begun(m, inputs) \in Machine
  <2>1. Begun(m, inputs) = [m EXCEPT !.mem = mem(m), !.samples = NoSamples, !.drive = NoDrives]
    BY DEF Begun
  <2>2. mem(m) \in Memory
    BY <1>1
  <2> HIDE DEF mem
  <2>3. QED
    BY <1>2, <2>1, <2>2 DEF Machine
<1>4. ASSUME Agree(k, a) PROVE Agree(Begun(k, inputs), Begun(a, inputs))
  <2>1. MemoryBelow(Begun(k, inputs), Begun(a, inputs))
    BY <1>4, DevicesDisjoint, ScanConstants
       DEF Agree, MemoryBelow, Begun, Machine, Below
  <2>2. LogicBelow(Begun(k, inputs), Begun(a, inputs))
    BY <1>4 DEF Agree, LogicBelow, Begun, Machine
  <2>3. HistoryBelow(Begun(k, inputs), Begun(a, inputs))
    BY <1>4 DEF Agree, HistoryBelow, Begun, NoSamples, Machine, Below
  <2>4. TimersBelow(Begun(k, inputs), Begun(a, inputs))
    <3>1. \A t \in Timers : t \in Devices /\ t \notin Inputs
      BY DevicesDisjoint, ScanConstants
    <3>2. \A t \in Timers : Begun(k, inputs).mem[t] = k.mem[t]
      BY <3>1 DEF Begun, Machine
    <3>3. /\ Begun(k, inputs).start = k.start /\ Begun(a, inputs).start = a.start
          /\ Begun(k, inputs).prior = k.prior
          /\ Begun(k, inputs).drive = Begun(a, inputs).drive
      BY DEF Begun, Machine
    <3>4. QED
      BY <1>4, <3>2, <3>3 DEF Agree, TimersBelow, StartLost
  <2>5. QED
    BY <2>1, <2>2, <2>3, <2>4 DEF Agree
<1>5. QED
  BY <1>3, <1>4

\* The end of a scan keeps the machines in agreement.
LEMMA SampledBelow ==
  ASSUME NEW k \in Machine, NEW a \in Machine
  PROVE  /\ Sampled(k) \in Machine /\ Sampled(a) \in Machine
         /\ Agree(k, a) => Agree(Sampled(k), Sampled(a))
<1>1. \A m \in Machine : Sampled(m) \in Machine
  BY DEF Sampled, Machine
<1>2. ASSUME Agree(k, a) PROVE Agree(Sampled(k), Sampled(a))
  <2>1. MemoryBelow(Sampled(k), Sampled(a)) /\ LogicBelow(Sampled(k), Sampled(a))
    BY <1>2 DEF Agree, MemoryBelow, LogicBelow, Sampled, Machine
  <2>2. HistoryBelow(Sampled(k), Sampled(a))
    BY <1>2 DEF Agree, HistoryBelow, Sampled, Machine
  <2>3. TimersBelow(Sampled(k), Sampled(a))
    BY <1>2 DEF Agree, TimersBelow, StartLost, Sampled, Machine
  <2>4. QED
    BY <2>1, <2>2, <2>3 DEF Agree
<1>3. QED
  BY <1>1, <1>2

-----------------------------------------------------------------------------
(* The invariant of the two machines *)

IInv == TypeOK /\ (~blurred => Agree(known, actual))

\* The part of a step that concerns the machines; program is the same after it.
Stepped == known' \in Machine /\ actual' \in Machine /\ (~blurred' => Agree(known', actual'))

\* The invariant holds of the machines before the first scan.
LEMMA InitIInv ==
  ASSUME Init
  PROVE  IInv
<1>1. PICK mem \in [Devices -> 0 .. MaxWord], history \in {Off, On},
           untold \in SUBSET (Bits \cup Words), told \in BOOLEAN :
        /\ \A d \in Bits : mem[d] \in {Off, On}
        /\ \A d \in Timed : mem[d] = 0
        /\ actual = Fresh(mem, history)
        /\ known = Fresh([d \in Devices |-> IF d \in untold THEN Unknown ELSE mem[d]],
                         IF told THEN history ELSE Unknown)
        /\ exact = (told /\ untold = {})
  BY DEF Init
<1> DEFINE kmem == [d \in Devices |-> IF d \in untold THEN Unknown ELSE mem[d]]
           kh == IF told THEN history ELSE Unknown
<1>2. mem \in Memory /\ kmem \in Memory
  <2>1. \A d \in Devices : mem[d] \in Int
    BY ScanConstants
  <2>2. QED
    BY <1>1, <2>1, DevicesDisjoint DEF Memory, Kleene
<1>3. history \in Kleene /\ kh \in Kleene /\ Below(kh, history)
  BY DEF Kleene, Below
<1>4. \A f \in Memory, h \in Kleene : Fresh(f, h) \in Machine
  <2>1. /\ On \in Kleene /\ <<>> \in Seq(Kleene)
        /\ NoSamples \in [Bits \cup Timed -> Kleene \cup {Absent}]
        /\ NoDrives \in [Timers -> Kleene \cup {Absent}] /\ NoDrives \in [Timers -> Int]
    BY DEF NoSamples, NoDrives, Kleene
  <2>2. [d \in Timed |-> Off] \in [Timed -> Kleene]
    BY DEF Kleene
  <2>3. QED
    BY <2>1, <2>2 DEF Fresh, Machine
<1>5. Agree(known, actual)
  <2>1. \A d \in Devices : Below(kmem[d], mem[d])
    BY DEF Below
  <2>2. StackBelow(<<>>, <<>>) /\ Below(On, On) /\ Below(Off, Off)
    BY DEF StackBelow, Below
  <2>3. known = Fresh(kmem, kh) /\ actual = Fresh(mem, history)
    BY <1>1
  <2> HIDE DEF kmem, kh
  <2>4. MemoryBelow(known, actual) /\ LogicBelow(known, actual)
    BY <2>1, <2>2, <2>3 DEF MemoryBelow, LogicBelow, Fresh
  <2>5. HistoryBelow(known, actual)
    BY <1>3, <2>3 DEF HistoryBelow, Fresh, NoSamples, Below
  <2>6. TimersBelow(known, actual)
    BY <2>3 DEF TimersBelow, Fresh
  <2>7. QED
    BY <2>4, <2>5, <2>6 DEF Agree
<1>6. known \in Machine /\ actual \in Machine
  <2> HIDE DEF kmem, kh
  <2>1. known = Fresh(kmem, kh) /\ actual = Fresh(mem, history)
    BY <1>1 DEF kmem, kh
  <2>2. QED
    BY <1>2, <1>3, <1>4, <2>1
<1>7. /\ program \in Programs /\ pc = 0 /\ scans = 0 /\ clock = 0 /\ stamp = Absent /\ blurred = FALSE
      /\ exact \in BOOLEAN /\ program \in Seq(Instruction)
  BY <1>1, ProgramsWellFormed DEF Init
<1>8. Len(program) \in Nat
  BY <1>7
<1>9. pc \in 0 .. Len(program) + 1 /\ scans \in 0 .. MaxScans /\ clock \in Nat
  BY <1>7, <1>8, ScanConstants
<1>10. stamp \in {Absent, clock} /\ blurred \in BOOLEAN
  BY <1>7
<1>11. QED
  BY <1>5, <1>6, <1>7, <1>9, <1>10, Zenon DEF IInv, TypeOK

\* At an instruction: it is one, and both machines stand before it.
LEMMA AtInstruction ==
  ASSUME IInv, pc \in DOMAIN program
  PROVE  /\ Ins \in Instruction /\ WellFormed(Ins) /\ Ins = program[pc]
         /\ K \in Machine /\ A \in Machine
         /\ ~blurred => Agree(K, A)
         /\ K.acc \in Kleene
<1>1. Ins \in Instruction /\ WellFormed(Ins)
  BY ProgramsWellFormed DEF IInv, TypeOK, Ins
<1>2. known \in Machine /\ actual \in Machine /\ (~blurred => Agree(known, actual))
  BY DEF IInv, TypeOK
<1>3. K \in Machine /\ A \in Machine
  BY <1>2, EnterType DEF K, A
<1>4. ~blurred => Agree(K, A)
  BY <1>2, EnterBelow DEF K, A
<1>5. QED
  BY <1>1, <1>3, <1>4 DEF Ins, Machine

\* Every step leads both machines to machines that agree.
LEMMA StepStepped ==
  ASSUME IInv, Next
  PROVE  Stepped /\ program' = program
<1>1. ASSUME BeginScan PROVE Stepped /\ program' = program
  <2>1. known \in Machine /\ actual \in Machine /\ (~blurred => Agree(known, actual))
    BY DEF IInv, TypeOK
  <2>2. PICK inputs \in [Inputs -> {Off, On}] :
          known' = Begun(known, inputs) /\ actual' = Begun(actual, inputs)
    BY <1>1 DEF BeginScan
  <2>3. program' = program /\ blurred' = blurred
    BY <1>1 DEF BeginScan
  <2>4. QED
    BY <2>1, <2>2, <2>3, BegunBelow DEF Stepped
<1>2. ASSUME EndScan PROVE Stepped /\ program' = program
  <2>1. known \in Machine /\ actual \in Machine /\ (~blurred => Agree(known, actual))
    BY DEF IInv, TypeOK
  <2>2. /\ known' = Sampled(known) /\ actual' = Sampled(actual)
        /\ program' = program /\ blurred' = blurred
    BY <1>2 DEF EndScan, frame
  <2>3. QED
    BY <2>1, <2>2, SampledBelow DEF Stepped
<1>3. ASSUME pc \in DOMAIN program, Advance,
             \/ ContactStep \/ BlockStep \/ ShareStep
             \/ TimerStep \/ CounterStep \/ CoilStep \/ CommandStep \/ ResetStep
      PROVE  Stepped /\ program' = program
  <2>1. /\ Ins \in Instruction /\ WellFormed(Ins) /\ Ins = program[pc]
        /\ K \in Machine /\ A \in Machine /\ K.acc \in Kleene
        /\ program \in Programs /\ clock \in Nat /\ stamp \in {Absent, clock}
    BY <1>3, AtInstruction DEF IInv, TypeOK
  <2>2. program' = program /\ (~blurred' => ~blurred /\ ~Blurs(K, Ins))
    BY <1>3 DEF Advance, frame
  <2>3. ~blurred' => Agree(K, A) /\ ~Blurs(K, Ins)
    BY <1>3, <2>2, AtInstruction
  <2>4. CASE ContactStep
    <3>1. Ins.op \in Contacts /\ known' = Contact(K, Ins) /\ actual' = Contact(A, Ins)
      BY <2>4 DEF ContactStep, At
    <3>2. known' \in Machine /\ actual' \in Machine
      BY <2>1, <3>1, ContactType
    <3>3. ~blurred' => Agree(known', actual')
      BY <2>1, <2>3, <3>1, ContactBelow DEF Blurs
    <3>4. QED
      BY <2>2, <3>2, <3>3 DEF Stepped
  <2>5. CASE BlockStep
    <3>1. known' = Block(K, Ins) /\ actual' = Block(A, Ins)
      BY <2>5 DEF BlockStep
    <3>2. QED
      BY <2>1, <2>2, <2>3, <3>1, BlockType, BlockBelow DEF Stepped
  <2>6. CASE ShareStep
    <3>1. known' = Share(K, Ins) /\ actual' = Share(A, Ins)
      BY <2>6 DEF ShareStep
    <3>2. QED
      BY <2>1, <2>2, <2>3, <3>1, ShareType, ShareBelow DEF Stepped
  <2>7. CASE TimerStep
    <3>1. /\ known' = TimerOut(K, Ins, pc, stamp) /\ actual' = TimerOut(A, Ins, pc, clock)
          /\ Ins.dev \in Timers /\ DrivesTimer(Ins)
      BY <2>7 DEF TimerStep, At, DrivesTimer
    <3>2. stamp \in Int /\ clock \in Int
      BY <2>1
    <3>3. known' \in Machine /\ actual' \in Machine
      BY <1>3, <2>1, <3>1, <3>2, TimerOutType
    <3>4. ~blurred' => Agree(known', actual')
      <4>1. ~blurred' => K.acc # Unknown
        BY <2>3, <3>1 DEF Blurs
      <4>2. QED
        BY <1>3, <2>1, <2>3, <3>1, <4>1, TimerOutBelow
    <3>5. QED
      BY <2>2, <3>3, <3>4 DEF Stepped
  <2>8. CASE CounterStep
    <3>1. /\ known' = CounterOut(K, Ins, pc) /\ actual' = CounterOut(A, Ins, pc)
          /\ Ins.dev \in Counters
      BY <2>8 DEF CounterStep
    <3>2. known' \in Machine /\ actual' \in Machine
      BY <1>3, <2>1, <3>1, CounterOutType
    <3>3. ~blurred' => Agree(known', actual')
      BY <1>3, <2>1, <2>3, <3>1, CounterOutBelow
    <3>4. QED
      BY <2>2, <3>2, <3>3 DEF Stepped
  <2>9. CASE CoilStep
    <3>1. known' = Coil(K, Ins, pc) /\ actual' = Coil(A, Ins, pc)
      BY <2>9 DEF CoilStep
    <3>2. Ins.dev \in Bits
      BY <2>1, <2>9 DEF CoilStep, At, OnTimed, WellFormed
    <3>3. known' \in Machine /\ actual' \in Machine
      BY <1>3, <2>1, <3>1, <3>2, CoilType
    <3>4. ~blurred' => Agree(known', actual')
      BY <1>3, <2>1, <2>3, <3>1, <3>2, CoilBelow
    <3>5. QED
      BY <2>2, <3>3, <3>4 DEF Stepped
  <2>10. CASE CommandStep
    <3>1. known' = Command(K, Ins, pc) /\ actual' = Command(A, Ins, pc)
      BY <2>10 DEF CommandStep
    <3>2. /\ Ins.dev \in Bits \cup Words
          /\ Ins.dev \in Bits => Ins.op # "MOV"
          /\ Ins.dev \in Words => Ins.op # "SET"
      BY <2>1, <2>10, ScanConstants DEF CommandStep, At, OnTimed, WellFormed, Devices
    <3>3. known' \in Machine /\ actual' \in Machine
      BY <1>3, <2>1, <3>1, <3>2, CommandType
    <3>4. ~blurred' => Agree(known', actual')
      BY <1>3, <2>1, <2>3, <3>1, <3>2, CommandBelow
    <3>5. QED
      BY <2>2, <3>3, <3>4 DEF Stepped
  <2>11. CASE ResetStep
    <3>1. /\ known' = Reset(K, Ins, pc, stamp) /\ actual' = Reset(A, Ins, pc, clock)
          /\ Ins.op = "RST" /\ Ins.dev \in Timed
      BY <2>11 DEF ResetStep, At, OnTimed
    <3>2. stamp \in Int /\ clock \in Int
      BY <2>1
    <3>3. known' \in Machine /\ actual' \in Machine
      BY <1>3, <2>1, <3>1, <3>2, ResetType
    <3>4. ~blurred' => Agree(known', actual')
      <4>1. ~blurred' => (Ins.dev \in Timers => K.acc = Off \/ (K.acc = On /\ stamp # Absent))
        BY <2>1, <2>3, <3>1 DEF Blurs, Kleene
      <4>2. QED
        BY <1>3, <2>1, <2>3, <3>1, <4>1, ResetBelow
    <3>5. QED
      BY <2>2, <3>3, <3>4 DEF Stepped
  <2>12. QED
    BY <1>3, <2>4, <2>5, <2>6, <2>7, <2>8, <2>9, <2>10, <2>11
<1>4. \/ BeginScan \/ EndScan
      \/ /\ pc \in DOMAIN program /\ Advance
         /\ \/ ContactStep \/ BlockStep \/ ShareStep
            \/ TimerStep \/ CounterStep \/ CoilStep \/ CommandStep \/ ResetStep
  BY DEF Next, ContactStep, BlockStep, ShareStep, TimerStep, CounterStep, CoilStep, CommandStep,
         ResetStep, At
<1>5. QED
  BY <1>1, <1>2, <1>3, <1>4

\* A step keeps the invariant.
LEMMA StepIInv ==
  ASSUME IInv, [Next]_vars
  PROVE  IInv'
<1>1. CASE UNCHANGED vars
  BY <1>1 DEF vars, IInv, TypeOK, Machine, Agree, MemoryBelow, LogicBelow, HistoryBelow,
              TimersBelow, StartLost
<1>2. CASE Next
  <2>1. Stepped /\ program' = program
    BY <1>2, StepStepped
  <2>2. known' \in Machine' /\ actual' \in Machine'
    BY <2>1 DEF Stepped, Machine
  <2>3. ~blurred' => Agree(known, actual)'
    BY <2>1 DEF Stepped, Agree, MemoryBelow, LogicBelow, HistoryBelow, TimersBelow, StartLost
  <2>4. /\ program \in Programs /\ program \in Seq(Instruction) /\ pc \in 0 .. Len(program) + 1
        /\ scans \in 0 .. MaxScans /\ clock \in Nat /\ stamp \in {Absent, clock}
        /\ exact \in BOOLEAN /\ blurred \in BOOLEAN
    BY ProgramsWellFormed DEF IInv, TypeOK
  <2>5. PICK n \in Nat : n = Len(program) /\ DOMAIN program = 1 .. n
    BY <2>4
  <2>6. /\ pc' \in 0 .. n + 1 /\ scans' \in 0 .. MaxScans /\ clock' \in Nat
        /\ stamp' \in {Absent, clock'} /\ exact' \in BOOLEAN /\ blurred' \in BOOLEAN
    <3>1. CASE BeginScan
      BY <2>4, <2>5, <3>1, ScanConstants DEF BeginScan
    <3>2. CASE EndScan
      BY <2>4, <2>5, <3>2 DEF EndScan, frame
    <3>3. CASE Advance /\ pc \in DOMAIN program
      BY <2>4, <2>5, <3>3 DEF Advance, frame
    <3>4. QED
      BY <1>2, <3>1, <3>2, <3>3
         DEF Next, ContactStep, BlockStep, ShareStep, TimerStep, CounterStep, CoilStep,
             CommandStep, ResetStep, At
  <2>7. QED
    BY <2>1, <2>2, <2>3, <2>4, <2>5, <2>6 DEF IInv, TypeOK
<1>3. QED
  BY <1>1, <1>2

\* Both machines keep their types.
THEOREM TypeCorrect == Spec => []TypeOK
<1>1. Init => IInv
  BY InitIInv
<1>2. IInv /\ [Next]_vars => IInv'
  BY StepIInv
<1>3. IInv => TypeOK
  BY DEF IInv
<1>4. QED
  BY <1>1, <1>2, <1>3, PTL DEF Spec

\* For every set of programs, devices, traces and clocks: as long as the checker
\* meets no case of Blurs, every value it reports is the value of the machine.
THEOREM ReportsAreSound == Spec => []KnownIsActual
<1>1. Init => IInv
  BY InitIInv
<1>2. IInv /\ [Next]_vars => IInv'
  BY StepIInv
<1>3. IInv => KnownIsActual
  BY DEF IInv, KnownIsActual, UnknownStaysUnknown, Agree, MemoryBelow
<1>4. QED
  BY <1>1, <1>2, <1>3, PTL DEF Spec

-----------------------------------------------------------------------------
(* A trace that declares everything is decided.                            *)
(*                                                                         *)
(* No value of the checker's machine is unknown, and a timer without a     *)
(* start is at rest, so that its next drive starts it.  A block needs a    *)
(* value below the top of the logic: the depths of a program are a lower   *)
(* bound for the stack before each of its instructions.                    *)

Sure == {Off, On}

MemoryDecided(m) ==
  /\ \A d \in Devices : m.mem[d] # Unknown
  /\ \A d \in Timed : m.contact[d] # Unknown

LogicDecided(m) == m.acc \in Sure /\ m.stack \in Seq(Sure) /\ m.saved \in Seq(Sure)

HistoryDecided(m) ==
  /\ \A p \in DOMAIN program : m.prior[p] # Unknown
  /\ \A d \in Bits \cup Timed : m.previous[d] # Unknown /\ m.samples[d] # Unknown

TimersDecided(m, now) ==
  \A t \in Timers :
    IF m.start[t] = Absent THEN m.mem[t] = 0 /\ m.contact[t] = Off
    ELSE m.start[t] >= 0 /\ m.start[t] <= now

Decided(m, now) ==
  /\ MemoryDecided(m) /\ LogicDecided(m) /\ HistoryDecided(m) /\ TimersDecided(m, now)
  /\ \A w \in Words \cup Counters : m.mem[w] >= 0

\* A known logic value is one of two.
LEMMA SureIs == \A x \in Kleene : x # Unknown <=> x \in Sure
BY DEF Kleene, Sure

\* Logic and edges of known values are known.
LEMMA SureClosed ==
  ASSUME NEW a \in Sure, NEW b \in Sure
  PROVE  /\ And(a, b) \in Sure /\ Or(a, b) \in Sure /\ Not(a) \in Sure /\ Edge(a, b) \in Sure
BY DEF Sure, And, Or, Not, Edge, Truth

\* A comparison of known words is known.
LEMMA TruthSure == \A P \in BOOLEAN : Truth(P) \in Sure
BY DEF Truth, Sure

\* The entry of a circuit keeps a decided machine decided, and its stack deep
\* enough.
LEMMA EnterDecided ==
  ASSUME NEW m \in Machine, NEW now, Decided(m, now), NEW i
  PROVE  /\ Decided(Enter(m, i), now)
         /\ \A depth \in Nat : Len(m.stack) >= depth => Len(Enter(m, i).stack) >= Entered(depth, i)
<1>1. On \in Sure /\ <<>> \in Seq(Sure) /\ Len(<<>>) = 0
  BY DEF Sure
<1>2. LogicDecided(Enter(m, i))
  BY <1>1 DEF Decided, LogicDecided, Enter, Machine
<1>3. /\ MemoryDecided(Enter(m, i)) /\ HistoryDecided(Enter(m, i)) /\ TimersDecided(Enter(m, i), now)
      /\ Enter(m, i).mem = m.mem
  BY DEF Decided, MemoryDecided, HistoryDecided, TimersDecided, Enter, Machine
<1>4. \A depth \in Nat : Len(m.stack) >= depth => Len(Enter(m, i).stack) >= Entered(depth, i)
  <2>1. CASE i.enter = "circuit"
    BY <1>1, <2>1 DEF Enter, Entered, Machine
  <2>2. CASE i.enter # "circuit"
    BY <2>2 DEF Enter, Entered, Machine
  <2>3. QED
    BY <2>1, <2>2
<1>5. QED
  BY <1>2, <1>3, <1>4 DEF Decided

\* What is on record for bits, timers and counters is decided.
LEMMA ValuesDecided ==
  ASSUME NEW m \in Machine, NEW now, Decided(m, now)
  PROVE  /\ \A d \in Bits : m.mem[d] \in Sure
         /\ \A d \in Timed : m.contact[d] \in Sure
         /\ \A d \in Bits \cup Timed : Bit(m, d) \in Sure /\ m.previous[d] \in Sure
         /\ \A p \in DOMAIN program : m.prior[p] \in Sure
<1>1. \A d \in Bits : m.mem[d] \in Sure
  BY SureIs, DevicesDisjoint DEF Machine, Memory, Decided, MemoryDecided
<1>2. \A d \in Timed : m.contact[d] \in Sure
  BY SureIs DEF Machine, Decided, MemoryDecided
<1>3. \A d \in Bits \cup Timed : m.previous[d] \in Sure
  BY SureIs DEF Machine, Decided, HistoryDecided
<1>4. \A p \in DOMAIN program : m.prior[p] \in Sure
  BY SureIs DEF Machine, Decided, HistoryDecided
<1>5. QED
  BY <1>1, <1>2, <1>3, <1>4 DEF Bit

\* A word operand of a decided machine is a natural number.
LEMMA OperandDecided ==
  ASSUME NEW m \in Machine, NEW now, Decided(m, now), NEW i \in Instruction
  PROVE  Operand(m, i) \in Nat
<1>1. i.k \in Nat
  BY DEF Instruction
<1>2. i.src \in Words \cup {Nothing}
  BY DEF Instruction
<1>3. i.src \in Words => m.mem[i.src] \in Nat
  BY DevicesDisjoint DEF Decided, Machine, Memory
<1>4. CASE i.src = Nothing
  BY <1>1, <1>4 DEF Operand
<1>5. CASE i.src # Nothing
  BY <1>2, <1>3, <1>5 DEF Operand
<1>6. QED
  BY <1>4, <1>5

\* The signal of a contact or a comparison is known.
LEMMA SignalDecided ==
  ASSUME NEW m \in Machine, NEW now, Decided(m, now), NEW i \in Instruction,
         i.op \in Contacts, WellFormed(i)
  PROVE  Signal(m, i) \in Sure
<1>1. CASE i.form = "="
  BY <1>1, TruthSure DEF Signal
<1>2. CASE i.form # "="
  <2>1. i.dev \in Bits \cup Timed
    BY <1>2 DEF WellFormed
  <2>2. Bit(m, i.dev) \in Sure /\ m.previous[i.dev] \in Sure
    BY <2>1, ValuesDecided
  <2>3. i.form \in {"", "I", "P", "F"}
    BY <1>2 DEF Instruction
  <2>4. QED
    BY <2>2, <2>3, SureClosed DEF Signal
<1>3. QED
  BY <1>1, <1>2

\* Only the logic changes.
LEMMA LogicOnly ==
  ASSUME NEW m \in Machine, NEW now, Decided(m, now), NEW n, LogicDecided(n),
         n.mem = m.mem, n.contact = m.contact, n.prior = m.prior, n.previous = m.previous,
         n.samples = m.samples, n.start = m.start
  PROVE  Decided(n, now)
BY DEF Decided, MemoryDecided, HistoryDecided, TimersDecided

\* Connecting a known signal keeps the logic decided; only LD makes the stack deeper.
LEMMA ConnectDecided ==
  ASSUME NEW m \in Machine, NEW now, Decided(m, now), NEW op, NEW v \in Sure
  PROVE  /\ Decided(Connect(m, op, v), now)
         /\ Len(Connect(m, op, v).stack) = IF op = "LD" THEN Len(m.stack) + 1 ELSE Len(m.stack)
<1> DEFINE n == Connect(m, op, v)
<1>1. m.acc \in Sure /\ m.stack \in Seq(Sure) /\ m.saved \in Seq(Sure)
  BY DEF Decided, LogicDecided
<1>2. Append(m.stack, m.acc) \in Seq(Sure) /\ Len(Append(m.stack, m.acc)) = Len(m.stack) + 1
  BY <1>1
<1>3. And(m.acc, v) \in Sure /\ Or(m.acc, v) \in Sure
  BY <1>1, SureClosed
<1>4. /\ n.mem = m.mem /\ n.contact = m.contact /\ n.prior = m.prior /\ n.previous = m.previous
      /\ n.samples = m.samples /\ n.start = m.start /\ n.saved = m.saved
      /\ n.stack = (IF op = "LD" THEN Append(m.stack, m.acc) ELSE m.stack)
      /\ n.acc \in {v, And(m.acc, v), Or(m.acc, v)}
  BY DEF Connect, Machine
<1> HIDE DEF n
<1>5. LogicDecided(n)
  BY <1>1, <1>2, <1>3, <1>4 DEF LogicDecided
<1>6. Decided(n, now)
  BY <1>4, <1>5, LogicOnly
<1>7. QED
  BY <1>2, <1>4, <1>6 DEF n

\* A contact is never refused, and what it samples is known.
LEMMA ContactDecided ==
  ASSUME NEW m \in Machine, NEW now, Decided(m, now), NEW i \in Instruction,
         i.op \in Contacts, WellFormed(i)
  PROVE  /\ Decided(Contact(m, i), now)
         /\ Len(Contact(m, i).stack) = IF i.op = "LD" THEN Len(m.stack) + 1 ELSE Len(m.stack)
<1> DEFINE n == IF i.form \in {"P", "F"} THEN [m EXCEPT !.samples[i.dev] = Bit(m, i.dev)] ELSE m
<1>1. ~(i.form = "=" /\ m.mem[i.dev] = Unknown)
  BY DevicesDisjoint DEF WellFormed, Decided, MemoryDecided
<1>2. n \in Machine /\ Decided(n, now) /\ n.stack = m.stack
  <2>1. CASE i.form \in {"P", "F"}
    <3>1. i.dev \in Bits \cup Timed
      BY <2>1 DEF WellFormed
    <3>2. Bit(m, i.dev) \in Sure /\ Bit(m, i.dev) \in Kleene
      BY <3>1, ValuesDecided, BitType
    <3>3. n = [m EXCEPT !.samples[i.dev] = Bit(m, i.dev)] /\ n \in Machine
      BY <2>1, <3>1, <3>2 DEF Machine
    <3>4. HistoryDecided(n)
      BY <3>1, <3>2, <3>3 DEF Decided, HistoryDecided, Machine, Sure
    <3>5. n.mem = m.mem /\ n.contact = m.contact /\ n.acc = m.acc /\ n.stack = m.stack
          /\ n.saved = m.saved /\ n.start = m.start
      BY <3>3 DEF Machine
    <3>6. QED
      BY <3>3, <3>4, <3>5 DEF Decided, MemoryDecided, LogicDecided, TimersDecided
  <2>2. CASE i.form \notin {"P", "F"}
    BY <2>2
  <2>3. QED
    BY <2>1, <2>2
<1>3. Contact(m, i) = Connect(n, i.op, Signal(m, i))
  BY <1>1, Zenon DEF Contact, n
<1>4. Signal(m, i) \in Sure
  BY SignalDecided
<1> HIDE DEF n
<1>5. QED
  BY <1>2, <1>3, <1>4, ConnectDecided

\* Joining two blocks takes one value off the stack.
LEMMA BlockDecided ==
  ASSUME NEW m \in Machine, NEW now, Decided(m, now), NEW i, i.op = "ORB" => m.stack # <<>>
  PROVE  /\ Decided(Block(m, i), now)
         /\ Len(Block(m, i).stack) = IF m.stack = <<>> THEN 0 ELSE Len(m.stack) - 1
<1> DEFINE n == Block(m, i)
<1>1. m.acc \in Sure /\ m.stack \in Seq(Sure) /\ m.saved \in Seq(Sure)
  BY DEF Decided, LogicDecided
<1>2. CASE m.stack = <<>>
  BY <1>2 DEF Block
<1>3. CASE m.stack # <<>>
  <2>1. Top(m.stack) \in Sure /\ Pop(m.stack) \in Seq(Sure) /\ Len(Pop(m.stack)) = Len(m.stack) - 1
    BY <1>1, <1>3, StackPop
  <2>2. And(Top(m.stack), m.acc) \in Sure /\ Or(Top(m.stack), m.acc) \in Sure
    BY <1>1, <2>1, SureClosed
  <2>3. /\ n.mem = m.mem /\ n.contact = m.contact /\ n.prior = m.prior /\ n.previous = m.previous
        /\ n.samples = m.samples /\ n.start = m.start /\ n.saved = m.saved
        /\ n.stack = Pop(m.stack)
        /\ n.acc \in {And(Top(m.stack), m.acc), Or(Top(m.stack), m.acc)}
    BY <1>3 DEF Block, Machine
  <2> HIDE DEF n
  <2>4. LogicDecided(n)
    BY <1>1, <2>1, <2>2, <2>3 DEF LogicDecided
  <2>5. Decided(n, now)
    BY <2>3, <2>4, LogicOnly
  <2>6. QED
    BY <1>3, <2>1, <2>3, <2>5 DEF n
<1>4. QED
  BY <1>2, <1>3

\* Sharing a condition moves known values and leaves the stack alone.
LEMMA ShareDecided ==
  ASSUME NEW m \in Machine, NEW now, Decided(m, now), NEW i
  PROVE  Decided(Share(m, i), now) /\ Share(m, i).stack = m.stack
<1> DEFINE n == Share(m, i)
<1>1. m.acc \in Sure /\ m.stack \in Seq(Sure) /\ m.saved \in Seq(Sure)
  BY DEF Decided, LogicDecided
<1>2. Append(m.saved, m.acc) \in Seq(Sure)
  BY <1>1
<1>3. m.saved # <<>> => Top(m.saved) \in Sure /\ Pop(m.saved) \in Seq(Sure)
  BY <1>1, StackPop
<1>4. /\ n.mem = m.mem /\ n.contact = m.contact /\ n.prior = m.prior /\ n.previous = m.previous
      /\ n.samples = m.samples /\ n.start = m.start /\ n.stack = m.stack
  BY DEF Share, Machine
<1>5. LogicDecided(n)
  BY <1>1, <1>2, <1>3 DEF Share, LogicDecided, Machine
<1> HIDE DEF n
<1>6. Decided(n, now)
  BY <1>4, <1>5, LogicOnly
<1>7. QED
  BY <1>4, <1>6 DEF n

\* An executed instruction remembers a decided enable.
LEMMA EnabledDecided ==
  ASSUME NEW m \in Machine, NEW now, Decided(m, now), NEW p \in DOMAIN program
  PROVE  /\ Decided(Enabled(m, p), now)
         /\ Enabled(m, p).stack = m.stack /\ Enabled(m, p).acc = m.acc
<1>1. m.acc \in Sure
  BY DEF Decided, LogicDecided
<1>2. HistoryDecided(Enabled(m, p))
  BY <1>1 DEF Decided, HistoryDecided, Enabled, Machine, Sure
<1>3. QED
  BY <1>2 DEF Decided, MemoryDecided, LogicDecided, TimersDecided, Enabled, Machine

\* A decided value in a bit or a register leaves the machine decided.
LEMMA StoreDecided ==
  ASSUME NEW m \in Machine, NEW now, Decided(m, now), NEW d \in Bits \cup Words,
         NEW v \in Nat
  PROVE  Decided(Store(m, d, v), now) /\ Store(m, d, v).stack = m.stack
<1> DEFINE n == Store(m, d, v)
<1>1. /\ n.acc = m.acc /\ n.stack = m.stack /\ n.saved = m.saved /\ n.prior = m.prior
      /\ n.previous = m.previous /\ n.samples = m.samples /\ n.start = m.start
      /\ n.contact = m.contact
  BY DEF Store, Machine
<1>2. \A e \in Devices : n.mem[e] = IF e = d THEN v ELSE m.mem[e]
  BY DEF Store, Machine, Memory
<1> HIDE DEF n
<1>3. MemoryDecided(n)
  BY <1>1, <1>2 DEF Decided, MemoryDecided
<1>4. TimersDecided(n, now)
  BY <1>1, <1>2, DevicesDisjoint DEF Decided, TimersDecided
<1>5. \A w \in Words \cup Counters : n.mem[w] >= 0
  BY <1>2, DevicesDisjoint DEF Decided
<1>6. LogicDecided(n) /\ HistoryDecided(n)
  BY <1>1 DEF Decided, LogicDecided, HistoryDecided
<1>7. QED
  BY <1>1, <1>3, <1>4, <1>5, <1>6 DEF Decided, n

\* One timer or counter d gets a decided value and contact and, a timer, the start
\* x; without a start it is at rest.
LEMMA TimedDecided ==
  ASSUME NEW m \in Machine, NEW now \in Nat, Decided(m, now),
         NEW d \in Timed, NEW v \in Nat, NEW c \in Sure, NEW x \in Int,
         d \in Timers => IF x = Absent THEN v = 0 /\ c = Off ELSE x >= 0 /\ x <= now,
         NEW n,
         n.acc = m.acc, n.stack = m.stack, n.saved = m.saved, n.prior = m.prior,
         n.previous = m.previous, n.samples = m.samples,
         \A e \in Devices : n.mem[e] = IF e = d THEN v ELSE m.mem[e],
         \A e \in Timed : n.contact[e] = IF e = d THEN c ELSE m.contact[e],
         \A t \in Timers : n.start[t] = IF t = d THEN x ELSE m.start[t]
  PROVE  Decided(n, now)
<1>1. MemoryDecided(n)
  BY DEF Decided, MemoryDecided, Sure
<1>2. TimersDecided(n, now)
  BY DevicesDisjoint DEF Decided, TimersDecided
<1>3. \A w \in Words \cup Counters : n.mem[w] >= 0
  BY DevicesDisjoint DEF Decided
<1>4. LogicDecided(n) /\ HistoryDecided(n)
  BY DEF Decided, LogicDecided, HistoryDecided
<1>5. QED
  BY <1>1, <1>2, <1>3, <1>4 DEF Decided

\* A driven timer knows its start: it has one, or it is at rest and starts now.
LEMMA TimerOutDecided ==
  ASSUME NEW m \in Machine, NEW now \in Nat, Decided(m, now),
         NEW i \in Instruction, i.dev \in Timers, NEW p \in DOMAIN program
  PROVE  Decided(TimerOut(m, i, p, now), now) /\ TimerOut(m, i, p, now).stack = m.stack
<1> DEFINE t == i.dev
           e == Enabled(m, p)
           d == [e EXCEPT !.drive[t] = m.acc]
           from == IF m.start[t] = Absent THEN now ELSE m.start[t]
           count == (now - from) \div Unit
           preset == Operand(m, i)
<1>1. t \in Timers /\ t \in Timed /\ t \in Devices
  BY DEF Timed, Devices
<1>2. preset \in Nat /\ preset # Unknown
  BY OperandDecided
<1>3. from \in Nat /\ from <= now /\ from # Absent
  <2>1. m.start[t] \in Int /\ (m.start[t] # Absent => m.start[t] >= 0 /\ m.start[t] <= now)
    BY <1>1 DEF Machine, Decided, TimersDecided
  <2>2. QED
    BY <2>1
<1>4. count \in Nat
  <2> HIDE DEF from
  <2>1. now - from \in Nat /\ Unit \in Nat \ {0}
    BY <1>3, ScanConstants
  <2>2. QED
    BY <2>1
<1>5. Ready(m, t, p)
  BY <1>1 DEF Ready, Decided, TimersDecided
<1>6. m.acc \in Sure /\ now # Absent
  BY DEF Decided, LogicDecided
<1>7. e \in Machine /\ Decided(e, now) /\ e.stack = m.stack
  BY EnabledType, EnabledDecided
<1> HIDE DEF e, from, count, preset, t
<1>8. /\ d.mem = e.mem /\ d.contact = e.contact /\ d.acc = e.acc /\ d.stack = e.stack
      /\ d.saved = e.saved /\ d.prior = e.prior /\ d.previous = e.previous
      /\ d.samples = e.samples /\ d.start = e.start /\ d \in Machine
  <2>1. m.acc \in Kleene
    BY DEF Machine
  <2>2. QED
    BY <1>7, <2>1 DEF Machine
<1> HIDE DEF d
<1>9. ASSUME NEW v \in Nat, NEW c \in Sure, NEW x \in Int,
             IF x = Absent THEN v = 0 /\ c = Off ELSE x >= 0 /\ x <= now
      PROVE  /\ Decided(StoreTimed([d EXCEPT !.start[t] = x], t, v, c), now)
             /\ StoreTimed([d EXCEPT !.start[t] = x], t, v, c).stack = m.stack
  <2> DEFINE n == StoreTimed([d EXCEPT !.start[t] = x], t, v, c)
  <2>1. /\ n.acc = d.acc /\ n.stack = d.stack /\ n.saved = d.saved /\ n.prior = d.prior
        /\ n.previous = d.previous /\ n.samples = d.samples
    BY <1>8 DEF StoreTimed, Machine
  <2>2. \A f \in Devices : n.mem[f] = IF f = t THEN v ELSE d.mem[f]
    BY <1>8 DEF StoreTimed, Machine, Memory
  <2>3. \A f \in Timed : n.contact[f] = IF f = t THEN c ELSE d.contact[f]
    BY <1>8 DEF StoreTimed, Machine
  <2>4. \A f \in Timers : n.start[f] = IF f = t THEN x ELSE d.start[f]
    BY <1>8 DEF StoreTimed, Machine
  <2> HIDE DEF n
  <2>5. Decided(n, now)
    BY <1>1, <1>7, <1>8, <1>9, <2>1, <2>2, <2>3, <2>4, TimedDecided
  <2>6. QED
    BY <1>7, <1>8, <2>1, <2>5 DEF n
<1>10. CASE m.acc = Off
  <2>1. TimerOut(m, i, p, now) = StoreTimed([d EXCEPT !.start[t] = Absent], t, 0, Off)
    BY <1>10 DEF TimerOut, d, e, t
  <2>2. QED
    BY <1>9, <2>1 DEF Sure
<1>11. CASE m.acc # Off
  <2>0. m.acc # Unknown /\ Ready(m, i.dev, p) /\ Operand(m, i) # Unknown
    BY <1>2, <1>5, <1>6 DEF Sure, t, preset
  <2>1. TimerOut(m, i, p, now)
          = StoreTimed([d EXCEPT !.start[t] = from], t, Least(count, preset), Truth(count >= preset))
    BY <1>6, <1>11, <2>0, Zenon DEF TimerOut, d, e, t, from, count, preset
  <2>2. Least(count, preset) \in Nat
    BY <1>2, <1>4 DEF Least
  <2>3. Truth(count >= preset) \in Sure
    BY DEF Truth, Sure
  <2>4. from \in Int /\ (IF from = Absent THEN Least(count, preset) = 0 /\ Truth(count >= preset) = Off
                         ELSE from >= 0 /\ from <= now)
    BY <1>3
  <2>5. QED
    BY <1>9, <2>1, <2>2, <2>3, <2>4
<1>12. QED
  BY <1>10, <1>11

\* A counter counts on decided edges from a decided value.
LEMMA CounterOutDecided ==
  ASSUME NEW m \in Machine, NEW now \in Nat, Decided(m, now),
         NEW i \in Instruction, i.dev \in Counters, NEW p \in DOMAIN program
  PROVE  Decided(CounterOut(m, i, p), now) /\ CounterOut(m, i, p).stack = m.stack
<1> DEFINE e == Enabled(m, p)
           preset == Operand(m, i)
           value ==
             IF m.acc = On /\ m.prior[p] = Off /\ m.mem[i.dev] # Unknown
             THEN Least(m.mem[i.dev] + 1, preset)
             ELSE IF m.acc = Unknown \/ (m.acc = On /\ m.prior[p] = Unknown) THEN Unknown
             ELSE m.mem[i.dev]
           n == StoreTimed(e, i.dev, value, Truth(value >= preset))
<1>1. i.dev \in Timed /\ i.dev \in Devices /\ i.dev \notin Timers
  BY ScanConstants DEF Timed, Devices
<1>2. preset \in Nat /\ preset # Unknown
  BY OperandDecided
<1>3. m.acc \in Sure /\ m.prior[p] \in Sure /\ m.mem[i.dev] \in Nat
  <2>1. m.mem[i.dev] \in Int /\ m.mem[i.dev] >= 0
    BY <1>1 DEF Machine, Memory, Decided
  <2>2. QED
    BY <2>1, ValuesDecided DEF Decided, LogicDecided
<1>4. value \in Nat /\ value # Unknown
  <2> HIDE DEF preset
  <2>1. Least(m.mem[i.dev] + 1, preset) \in Nat
    BY <1>2, <1>3 DEF Least
  <2>2. QED
    BY <1>3, <2>1 DEF Sure
<1>5. e \in Machine /\ Decided(e, now) /\ e.stack = m.stack
  BY EnabledType, EnabledDecided
<1>6. CounterOut(m, i, p) = n
  <2>1. CounterOut(m, i, p)
          = StoreTimed(e, i.dev, value, IF value = Unknown THEN Unknown ELSE Truth(value >= preset))
    BY <1>2, Zenon DEF CounterOut
  <2> HIDE DEF value
  <2>2. QED
    BY <1>4, <2>1
<1>7. Truth(value >= preset) \in Sure
  <2> HIDE DEF value, preset
  <2>1. QED
    BY DEF Truth, Sure
<1> HIDE DEF e, value, preset
<1>8. /\ n.acc = e.acc /\ n.stack = e.stack /\ n.saved = e.saved /\ n.prior = e.prior
      /\ n.previous = e.previous /\ n.samples = e.samples /\ n.start = e.start
  BY <1>5 DEF StoreTimed, Machine
<1>9. \A f \in Devices : n.mem[f] = IF f = i.dev THEN value ELSE e.mem[f]
  BY <1>5 DEF StoreTimed, Machine, Memory
<1>10. \A f \in Timed : n.contact[f] = IF f = i.dev THEN Truth(value >= preset) ELSE e.contact[f]
  BY <1>5 DEF StoreTimed, Machine
<1> HIDE DEF n
<1>11. \A t \in Timers : n.start[t] = IF t = i.dev THEN 0 ELSE e.start[t]
  BY <1>1, <1>8
<1>12. Decided(n, now)
  BY <1>1, <1>4, <1>5, <1>7, <1>8, <1>9, <1>10, <1>11, TimedDecided
<1>13. QED
  BY <1>5, <1>6, <1>8, <1>12

\* An output or a pulse writes a decided bit.
LEMMA CoilDecided ==
  ASSUME NEW m \in Machine, NEW now, Decided(m, now), NEW i, i.dev \in Bits,
         NEW p \in DOMAIN program
  PROVE  Decided(Coil(m, i, p), now) /\ Coil(m, i, p).stack = m.stack
<1>1. m.acc \in Sure /\ m.prior[p] \in Sure
  BY ValuesDecided DEF Decided, LogicDecided
<1>2. And(m.acc, Not(m.prior[p])) \in Sure /\ And(m.prior[p], Not(m.acc)) \in Sure
  BY <1>1, SureClosed
<1>3. /\ Enabled(m, p) \in Machine /\ Decided(Enabled(m, p), now)
      /\ Enabled(m, p).stack = m.stack
  BY EnabledType, EnabledDecided
<1>4. \A x \in Sure : /\ Decided(Store(Enabled(m, p), i.dev, x), now)
                      /\ Store(Enabled(m, p), i.dev, x).stack = m.stack
  BY <1>3, StoreDecided DEF Sure
<1>5. QED
  BY <1>1, <1>2, <1>4, Zenon DEF Coil

\* SET, RST and MOV write a decided value.
LEMMA CommandDecided ==
  ASSUME NEW m \in Machine, NEW now, Decided(m, now), NEW i \in Instruction,
         i.dev \in Bits \cup Words, NEW p \in DOMAIN program
  PROVE  Decided(Command(m, i, p), now) /\ Command(m, i, p).stack = m.stack
<1>1. m.acc \in Sure /\ Operand(m, i) \in Nat
  BY OperandDecided DEF Decided, LogicDecided
<1>2. /\ Enabled(m, p) \in Machine /\ Decided(Enabled(m, p), now)
      /\ Enabled(m, p).stack = m.stack
  BY EnabledType, EnabledDecided
<1>3. \A x \in Nat : /\ Decided(Store(Enabled(m, p), i.dev, x), now)
                     /\ Store(Enabled(m, p), i.dev, x).stack = m.stack
  BY <1>2, StoreDecided
<1>4. m.acc # Unknown /\ Operand(m, i) # Unknown /\ On \in Nat /\ 0 \in Nat
  BY <1>1 DEF Sure
<1>5. QED
  BY <1>1, <1>2, <1>3, <1>4, Zenon DEF Command

\* A reset timer rests, or starts at a known time.
LEMMA ResetDecided ==
  ASSUME NEW m \in Machine, NEW now \in Nat, Decided(m, now), NEW i, i.dev \in Timed,
         NEW p \in DOMAIN program
  PROVE  Decided(Reset(m, i, p, now), now) /\ Reset(m, i, p, now).stack = m.stack
<1> DEFINE e == Enabled(m, p)
           x == IF m.drive[i.dev] = On THEN now ELSE Absent
           d == StoreTimed(e, i.dev, 0, Off)
           n == IF i.dev \in Timers THEN [d EXCEPT !.start[i.dev] = x] ELSE d
<1>1. e \in Machine /\ Decided(e, now) /\ e.stack = m.stack
  BY EnabledType, EnabledDecided
<1>2. m.acc \in Sure /\ m.acc # Unknown
  BY DEF Decided, LogicDecided, Sure
<1>3. Reset(m, i, p, now) = IF m.acc = Off THEN e ELSE n
  BY <1>2, Zenon DEF Reset
<1>4. x \in Int /\ (IF x = Absent THEN 0 = 0 /\ Off = Off ELSE x >= 0 /\ x <= now)
  OBVIOUS
<1> HIDE DEF e, x
<1>5. /\ d \in Machine /\ d.acc = e.acc /\ d.stack = e.stack /\ d.saved = e.saved /\ d.prior = e.prior
      /\ d.previous = e.previous /\ d.samples = e.samples /\ d.start = e.start
      /\ \A f \in Devices : d.mem[f] = IF f = i.dev THEN 0 ELSE e.mem[f]
      /\ \A f \in Timed : d.contact[f] = IF f = i.dev THEN Off ELSE e.contact[f]
  <2>1. d \in Machine
    BY <1>1, StoreTimedType DEF Kleene
  <2>2. /\ d.acc = e.acc /\ d.stack = e.stack /\ d.saved = e.saved /\ d.prior = e.prior
        /\ d.previous = e.previous /\ d.samples = e.samples /\ d.start = e.start
    BY <1>1 DEF StoreTimed, Machine
  <2>3. \A f \in Devices : d.mem[f] = IF f = i.dev THEN 0 ELSE e.mem[f]
    BY <1>1 DEF StoreTimed, Machine, Memory
  <2>4. \A f \in Timed : d.contact[f] = IF f = i.dev THEN Off ELSE e.contact[f]
    BY <1>1 DEF StoreTimed, Machine
  <2>5. QED
    BY <2>1, <2>2, <2>3, <2>4
<1> HIDE DEF d
<1>6. /\ n.acc = d.acc /\ n.stack = d.stack /\ n.saved = d.saved /\ n.prior = d.prior
      /\ n.previous = d.previous /\ n.samples = d.samples /\ n.mem = d.mem /\ n.contact = d.contact
  BY <1>5 DEF Machine
<1>7. \A t \in Timers : n.start[t] = IF t = i.dev THEN x ELSE d.start[t]
  BY <1>5 DEF Machine
<1> HIDE DEF n
<1>8. /\ \A f \in Devices : n.mem[f] = IF f = i.dev THEN 0 ELSE e.mem[f]
      /\ \A f \in Timed : n.contact[f] = IF f = i.dev THEN Off ELSE e.contact[f]
      /\ \A t \in Timers : n.start[t] = IF t = i.dev THEN x ELSE e.start[t]
  BY <1>5, <1>6, <1>7
<1>9. /\ n.acc = e.acc /\ n.stack = e.stack /\ n.saved = e.saved /\ n.prior = e.prior
      /\ n.previous = e.previous /\ n.samples = e.samples
  BY <1>5, <1>6
<1>10. 0 \in Nat /\ Off \in Sure
  BY DEF Sure
<1>11. Decided(n, now)
  BY <1>1, <1>4, <1>8, <1>9, <1>10, TimedDecided
<1>12. QED
  BY <1>1, <1>3, <1>9, <1>11

\* A frame declares the inputs; time goes on.
LEMMA BegunDecided ==
  ASSUME NEW m \in Machine, NEW now \in Nat, Decided(m, now),
         NEW inputs \in [Inputs -> {Off, On}], NEW tick \in Nat
  PROVE  Decided(Begun(m, inputs), now + tick)
<1> DEFINE n == Begun(m, inputs)
<1>1. /\ n.acc = m.acc /\ n.stack = m.stack /\ n.saved = m.saved /\ n.prior = m.prior
      /\ n.previous = m.previous /\ n.start = m.start /\ n.contact = m.contact
      /\ n.samples = NoSamples
  BY DEF Begun, Machine
<1>2. \A e \in Devices : n.mem[e] = IF e \in Inputs THEN inputs[e] ELSE m.mem[e]
  BY DEF Begun, Machine
<1>3. \A e \in Words \cup Timed : e \notin Inputs /\ e \in Devices
  BY DevicesDisjoint, ScanConstants
<1> HIDE DEF n
<1>4. MemoryDecided(n)
  BY <1>1, <1>2 DEF Decided, MemoryDecided
<1>5. HistoryDecided(n)
  BY <1>1 DEF Decided, HistoryDecided, NoSamples
<1>6. TimersDecided(n, now + tick)
  <2>1. ASSUME NEW t \in Timers
        PROVE  IF n.start[t] = Absent THEN n.mem[t] = 0 /\ n.contact[t] = Off
               ELSE n.start[t] >= 0 /\ n.start[t] <= now + tick
    <3>1. n.mem[t] = m.mem[t] /\ n.start[t] = m.start[t] /\ n.contact[t] = m.contact[t]
      BY <1>1, <1>2, <1>3, DevicesDisjoint
    <3>2. m.start[t] \in Int
      BY DEF Machine
    <3>3. IF m.start[t] = Absent THEN m.mem[t] = 0 /\ m.contact[t] = Off
          ELSE m.start[t] >= 0 /\ m.start[t] <= now
      BY DEF Decided, TimersDecided
    <3>4. QED
      BY <3>1, <3>2, <3>3
  <2>2. QED
    BY <2>1 DEF TimersDecided
<1>7. \A w \in Words \cup Counters : n.mem[w] >= 0
  BY <1>2, <1>3, DevicesDisjoint DEF Decided
<1>8. LogicDecided(n)
  BY <1>1 DEF Decided, LogicDecided
<1>9. QED
  BY <1>4, <1>5, <1>6, <1>7, <1>8 DEF Decided, n

\* The history of the next scan is decided.
LEMMA SampledDecided ==
  ASSUME NEW m \in Machine, NEW now, Decided(m, now)
  PROVE  Decided(Sampled(m), now)
<1>1. HistoryDecided(Sampled(m))
  BY DEF Decided, HistoryDecided, Sampled, Machine
<1>2. QED
  BY <1>1 DEF Decided, MemoryDecided, LogicDecided, TimersDecided, Sampled, Machine

-----------------------------------------------------------------------------
(* The invariant of a trace that declares everything *)

DInv(depth) ==
  /\ IInv
  /\ exact =>
       /\ Decided(known, clock)
       /\ pc # 0 => stamp = clock /\ Len(known.stack) >= depth[program][pc]

\* The part of a step that concerns the checker's machine.
DecidedStep(depth) ==
  exact' => Decided(known', clock')
            /\ (pc' # 0 => stamp' = clock' /\ Len(known'.stack) >= depth[program][pc'])

\* The machine of a trace that declares everything is decided from the start.
LEMMA InitDecided ==
  ASSUME NEW depth, Init
  PROVE  DInv(depth)
<1>1. PICK mem \in [Devices -> 0 .. MaxWord], history \in {Off, On},
           untold \in SUBSET (Bits \cup Words), told \in BOOLEAN :
        /\ \A d \in Timed : mem[d] = 0
        /\ known = Fresh([d \in Devices |-> IF d \in untold THEN Unknown ELSE mem[d]],
                         IF told THEN history ELSE Unknown)
        /\ exact = (told /\ untold = {})
  BY DEF Init
<1>2. ASSUME exact PROVE Decided(known, clock)
  <2>1. known = Fresh(mem, history)
    <3>1. [d \in Devices |-> IF d \in untold THEN Unknown ELSE mem[d]] = mem
      BY <1>1, <1>2
    <3>2. QED
      BY <1>1, <1>2, <3>1
  <2>2. /\ known.mem = mem /\ known.contact = [d \in Timed |-> Off]
        /\ known.acc = On /\ known.stack = <<>> /\ known.saved = <<>>
        /\ known.prior = [p \in DOMAIN program |-> history]
        /\ known.previous = [d \in Bits \cup Timed |-> history]
        /\ known.samples = NoSamples /\ known.start = NoDrives
    BY <2>1 DEF Fresh
  <2>3. \A d \in Devices : mem[d] \in Nat
    BY ScanConstants
  <2>4. MemoryDecided(known)
    BY <2>2, <2>3 DEF MemoryDecided
  <2>5. LogicDecided(known)
    BY <2>2 DEF LogicDecided, Sure
  <2>6. HistoryDecided(known)
    BY <2>2 DEF HistoryDecided, NoSamples
  <2>7. TimersDecided(known, clock)
    BY <1>1, <2>2, DevicesDisjoint DEF TimersDecided, NoDrives
  <2>8. \A w \in Words \cup Counters : known.mem[w] >= 0
    BY <2>2, <2>3, DevicesDisjoint
  <2>9. QED
    BY <2>4, <2>5, <2>6, <2>7, <2>8 DEF Decided
<1>3. pc = 0
  BY DEF Init
<1>4. QED
  BY <1>2, <1>3, InitIInv DEF DInv

\* A frame that leaves the clock out ends the trace that declares everything.
LEMMA BeginDecides ==
  ASSUME NEW depth, \A prog \in Programs : Balanced(prog, depth[prog]), DInv(depth), BeginScan
  PROVE  DecidedStep(depth)
<1>1. PICK inputs \in [Inputs -> {Off, On}], clocked \in BOOLEAN, tick \in 0 .. MaxTick :
        /\ known' = Begun(known, inputs) /\ clock' = clock + tick
        /\ stamp' = (IF clocked THEN clock + tick ELSE Absent)
        /\ exact' = (exact /\ clocked) /\ pc' = 1
  BY DEF BeginScan
<1>2. known \in Machine /\ clock \in Nat /\ program \in Programs /\ tick \in Nat
  BY <1>1, ScanConstants DEF DInv, IInv, TypeOK
<1>3. ASSUME exact' PROVE Decided(known', clock') /\ stamp' = clock'
  BY <1>1, <1>2, <1>3, BegunDecided DEF DInv
<1>4. Len(known'.stack) >= depth[program][pc']
  <2>1. known'.stack = known.stack /\ Len(known.stack) \in Nat
    BY <1>1, <1>2 DEF Begun, Machine
  <2>2. depth[program][1] = 0
    BY <1>2 DEF Balanced
  <2>3. QED
    BY <1>1, <2>1, <2>2
<1>5. QED
  BY <1>3, <1>4 DEF DecidedStep

\* The next frame finds a decided machine.
LEMMA EndDecides ==
  ASSUME NEW depth, DInv(depth), EndScan
  PROVE  DecidedStep(depth)
<1>1. known' = Sampled(known) /\ pc' = 0 /\ exact' = exact /\ clock' = clock
  BY DEF EndScan, frame
<1>2. known \in Machine
  BY DEF DInv, IInv, TypeOK
<1>3. QED
  BY <1>1, <1>2, SampledDecided DEF DInv, DecidedStep

\* An instruction finds a decided machine with the blocks it joins, and leaves one.
LEMMA InstructionDecides ==
  ASSUME NEW depth, \A prog \in Programs : Balanced(prog, depth[prog]), DInv(depth),
         pc \in DOMAIN program, Advance,
         \/ ContactStep \/ BlockStep \/ ShareStep
         \/ TimerStep \/ CounterStep \/ CoilStep \/ CommandStep \/ ResetStep
  PROVE  DecidedStep(depth)
<1> DEFINE before == Entered(depth[program][pc], Ins)
           after == Left(depth[program][pc], Ins)
<1>1. IInv /\ (exact => Decided(known, clock) /\ (pc # 0 => stamp = clock /\ Len(known.stack) >= depth[program][pc]))
  BY DEF DInv
<1>2. /\ Ins \in Instruction /\ WellFormed(Ins) /\ Ins = program[pc]
      /\ K \in Machine /\ program \in Programs /\ clock \in Nat /\ known \in Machine
  BY <1>1, AtInstruction DEF IInv, TypeOK
<1>3. /\ pc' = pc + 1 /\ exact' = exact /\ clock' = clock /\ stamp' = stamp
  BY DEF Advance, frame
<1>4. pc \in 1 .. Len(program) /\ pc # 0 /\ Len(program) \in Nat
  BY <1>2, ProgramsWellFormed
<1>5. /\ depth[program][pc] \in Nat /\ depth[program][pc + 1] \in Nat
      /\ depth[program][pc + 1] <= after
      /\ Ins.op = "ORB" => before > 0
  <2>1. Balanced(program, depth[program])
    BY <1>2
  <2>2. pc + 1 \in 1 .. Len(program) + 1 /\ pc \in 1 .. Len(program) + 1
    BY <1>4
  <2>3. depth[program] \in [1 .. Len(program) + 1 -> Nat]
    BY <2>1 DEF Balanced
  <2>4. depth[program][pc] \in Nat /\ depth[program][pc + 1] \in Nat
    BY <2>2, <2>3
  <2>5. pc \in DOMAIN program /\ Ins = program[pc]
    BY <1>2
  <2>6. depth[program][pc + 1] <= Left(depth[program][pc], program[pc])
    BY <2>1, <2>5 DEF Balanced
  <2>7. program[pc].op = "ORB" => Entered(depth[program][pc], program[pc]) > 0
    BY <2>1, <2>5 DEF Balanced
  <2>8. QED
    BY <2>4, <2>5, <2>6, <2>7
<1>6. before \in Nat
  BY <1>5 DEF Entered
<1>7. after = IF Ins.op = "LD" THEN before + 1
              ELSE IF Ins.op \in Blocks /\ before > 0 THEN before - 1 ELSE before
  BY DEF Left
<1> HIDE DEF before, after
<1>8. SUFFICES ASSUME exact
               PROVE  Decided(known', clock) /\ Len(known'.stack) >= after
  <2>1. ASSUME exact PROVE stamp' = clock'
    BY <1>1, <1>3, <1>4, <2>1
  <2>2. ASSUME Len(known'.stack) >= after, known' \in Machine
        PROVE  Len(known'.stack) >= depth[program][pc + 1]
    <3>1. Len(known'.stack) \in Nat /\ after \in Nat
      BY <1>6, <1>7, <2>2 DEF Machine, Blocks
    <3>2. QED
      BY <1>5, <2>2, <3>1
  <2>3. known' \in Machine
    <3>1. Next
      BY DEF Next
    <3>2. QED
      BY <1>1, <3>1, StepStepped DEF Stepped
  <2>4. QED
    BY <1>3, <2>1, <2>2, <2>3 DEF DecidedStep
<1>9. /\ Decided(K, clock) /\ Len(K.stack) >= before /\ Len(K.stack) \in Nat
      /\ stamp = clock
  <2>1. Len(K.stack) >= before
    BY <1>1, <1>2, <1>4, <1>5, <1>8, EnterDecided DEF K, before
  <2>2. Decided(K, clock)
    BY <1>1, <1>2, <1>8, EnterDecided DEF K
  <2>3. QED
    BY <1>1, <1>2, <1>4, <1>8, <2>1, <2>2 DEF Machine
<1>10. CASE ContactStep
  <2>1. Ins.op \in Contacts /\ known' = Contact(K, Ins)
    BY <1>10 DEF ContactStep, At
  <2>2. Decided(known', clock)
        /\ Len(known'.stack) = (IF Ins.op = "LD" THEN Len(K.stack) + 1 ELSE Len(K.stack))
    BY <1>2, <1>9, <2>1, ContactDecided
  <2>3. QED
    BY <1>6, <1>7, <1>9, <2>1, <2>2 DEF Contacts, Blocks
<1>11. CASE BlockStep
  <2>1. Ins.op \in Blocks /\ known' = Block(K, Ins)
    BY <1>11 DEF BlockStep, At
  <2>2. Ins.op = "ORB" => K.stack # <<>>
    BY <1>5, <1>6, <1>9
  <2>3. Decided(known', clock)
        /\ Len(known'.stack) = (IF K.stack = <<>> THEN 0 ELSE Len(K.stack) - 1)
    BY <1>2, <1>9, <2>1, <2>2, BlockDecided
  <2>4. K.stack # <<>> => Len(K.stack) > 0
    BY <1>2, EmptySeq DEF Machine
  <2>5. QED
    BY <1>6, <1>7, <1>9, <2>1, <2>3, <2>4 DEF Blocks
<1>12. ASSUME Decided(known', clock), known'.stack = K.stack, Ins.op \notin Contacts \cup Blocks
       PROVE  Decided(known', clock) /\ Len(known'.stack) >= after
  BY <1>6, <1>7, <1>9, <1>12 DEF Contacts, Blocks
<1>13. CASE ShareStep
  <2>1. Ins.op \in Shared /\ known' = Share(K, Ins)
    BY <1>13 DEF ShareStep, At
  <2>2. QED
    BY <1>2, <1>9, <1>12, <2>1, ShareDecided DEF Contacts, Blocks, Shared
<1>14. CASE TimerStep
  <2>1. Ins.op = "OUT" /\ Ins.dev \in Timers /\ known' = TimerOut(K, Ins, pc, clock)
    BY <1>9, <1>14 DEF TimerStep, At
  <2>2. QED
    BY <1>2, <1>9, <1>12, <2>1, TimerOutDecided DEF Contacts, Blocks
<1>15. CASE CounterStep
  <2>1. Ins.op = "OUT" /\ Ins.dev \in Counters /\ known' = CounterOut(K, Ins, pc)
    BY <1>15 DEF CounterStep, At
  <2>2. QED
    BY <1>2, <1>9, <1>12, <2>1, CounterOutDecided DEF Contacts, Blocks
<1>16. CASE CoilStep
  <2>1. Ins.op \in {"OUT", "PLS", "PLF"} /\ known' = Coil(K, Ins, pc)
    BY <1>16 DEF CoilStep, At
  <2>2. Ins.dev \in Bits
    BY <1>2, <1>16 DEF CoilStep, At, OnTimed, WellFormed
  <2>3. QED
    BY <1>2, <1>9, <1>12, <2>1, <2>2, CoilDecided DEF Contacts, Blocks
<1>17. CASE CommandStep
  <2>1. Ins.op \in {"SET", "RST", "MOV"} /\ known' = Command(K, Ins, pc)
    BY <1>17 DEF CommandStep, At
  <2>2. Ins.dev \in Bits \cup Words
    BY <1>2, <1>17 DEF CommandStep, At, OnTimed, WellFormed, Devices
  <2>3. QED
    BY <1>2, <1>9, <1>12, <2>1, <2>2, CommandDecided DEF Contacts, Blocks
<1>18. CASE ResetStep
  <2>1. Ins.op = "RST" /\ Ins.dev \in Timed /\ known' = Reset(K, Ins, pc, clock)
    BY <1>9, <1>18 DEF ResetStep, At, OnTimed
  <2>2. QED
    BY <1>2, <1>9, <1>12, <2>1, ResetDecided DEF Contacts, Blocks
<1>19. QED
  BY <1>10, <1>11, <1>13, <1>14, <1>15, <1>16, <1>17, <1>18

\* A step keeps the trace decided.
LEMMA StepDecided ==
  ASSUME NEW depth, \A prog \in Programs : Balanced(prog, depth[prog]), DInv(depth), [Next]_vars
  PROVE  DInv(depth)'
<1>1. IInv'
  BY StepIInv DEF DInv
<1>2. CASE UNCHANGED vars
  BY <1>1, <1>2 DEF vars, DInv, Decided, MemoryDecided, LogicDecided, HistoryDecided, TimersDecided
<1>3. CASE Next
  <2>1. \/ BeginScan \/ EndScan
        \/ /\ pc \in DOMAIN program /\ Advance
           /\ \/ ContactStep \/ BlockStep \/ ShareStep
              \/ TimerStep \/ CounterStep \/ CoilStep \/ CommandStep \/ ResetStep
    BY <1>3 DEF Next, ContactStep, BlockStep, ShareStep, TimerStep, CounterStep, CoilStep,
                CommandStep, ResetStep, At
  <2>2. DecidedStep(depth)
    BY <2>1, BeginDecides, EndDecides, InstructionDecides
  <2>3. program' = program
    BY <1>3, StepStepped DEF DInv
  <2>4. QED
    BY <1>1, <2>2, <2>3
       DEF DInv, DecidedStep, Decided, MemoryDecided, LogicDecided, HistoryDecided, TimersDecided
<1>4. QED
  BY <1>2, <1>3

\* For every set of programs whose blocks are balanced, every trace and every clock:
\* in a trace that declares everything no instruction is refused and nothing is
\* forgotten.
THEOREM ExactTracesAreDecided ==
  ASSUME NEW depth, \A prog \in Programs : Balanced(prog, depth[prog])
  PROVE  Spec => []ExactIsDecided
<1>1. Init => DInv(depth)
  BY InitDecided
<1>2. DInv(depth) /\ [Next]_vars => DInv(depth)'
  BY StepDecided
<1>3. DInv(depth) => ExactIsDecided
  BY DEF DInv, ExactIsDecided, Decided, MemoryDecided
<1>4. QED
  BY <1>1, <1>2, <1>3, PTL DEF Spec
=============================================================================
