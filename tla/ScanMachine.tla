----------------------------- MODULE ScanMachine -----------------------------
(***************************************************************************)
(* The bounded scan check (simulator/bounded.py) executes a ladder program *)
(* scan by scan over a memory that is only partly known: "Unknown memory   *)
(* and time remain unknown."  A result it reports as known decides whether *)
(* a program violates its specification.                                   *)
(*                                                                         *)
(* The module runs one program on two machines in step: known starts with  *)
(* what a trace declares and sees the clock of some frames only, actual is *)
(* one of the machines the trace may stand for, with every value known.    *)
(* Both execute the same instructions of the same code.                    *)
(*                                                                         *)
(* Values are integers: a bit is Off or On, a word a natural number, and   *)
(* Unknown stands for Python's None.                                       *)
(***************************************************************************)
EXTENDS Integers, Sequences

CONSTANTS
  Bits,      \* relays, inputs and outputs
  Inputs,    \* the bits a frame sets
  Words,     \* data registers
  Timers, Counters,
  Nothing,   \* the word of an operand that is a constant
  Programs,  \* sequences of instructions
  Unit,      \* clock units in one step of a timer
  MaxTick,   \* bound on the time between two scans
  MaxScans,  \* bound on the scans of a trace (MAX_SCANS = 8)
  MaxWord    \* bound on the initial words

Unknown == -1
Off == 0
On == 1
Absent == -2    \* no entry in a dictionary, or no timestamp in a frame

Kleene == {Unknown, Off, On}
Timed == Timers \cup Counters
Devices == Bits \cup Words \cup Timed

-----------------------------------------------------------------------------
(* Instructions, in the order lower_rung_instructions gives them *)

Contacts == {"LD", "AND", "OR"}
Blocks == {"ANB", "ORB"}
Shared == {"MPS", "MRD", "MPP"}
Outputs == {"OUT", "PLS", "PLF", "SET", "RST", "MOV"}

\* enter: the instruction starts a circuit, or stands at the left bus of its own.
Instruction ==
  [op : Contacts \cup Blocks \cup Shared \cup Outputs,
   form : {"", "I", "P", "F", "="},
   dev : Devices \cup {Nothing},
   src : Words \cup {Nothing}, k : Nat,
   enter : {"circuit", "root", "inside"}]

DrivesTimer(i) == i.op = "OUT" /\ i.dev \in Timers

\* What the operands of an instruction may be.  A timer is driven once: a second
\* drive in a scan is refused by the code.
WellFormed(i) ==
  /\ i.op \in Contacts => i.dev \in IF i.form = "=" THEN Words ELSE Bits \cup Timed
  /\ i.op = "OUT" => i.dev \in Bits \cup Timed
  /\ i.op \in {"PLS", "PLF", "SET"} => i.dev \in Bits
  /\ i.op = "RST" => i.dev \in Devices
  /\ i.op = "MOV" => i.dev \in Words

\* The depth of the logic stack before and after an instruction; its entry may start
\* an empty logic.
Entered(depth, i) == IF i.enter = "circuit" THEN 0 ELSE depth
Left(depth, i) ==
  IF i.op = "LD" THEN Entered(depth, i) + 1
  ELSE IF i.op \in Blocks /\ Entered(depth, i) > 0 THEN Entered(depth, i) - 1
  ELSE Entered(depth, i)

\* What a rung lowered from its elements does to the stack: a row joined by ORB
\* begins with an LD of its own.  depth[p] is no more than what the stack holds
\* before position p.
Balanced(prog, depth) ==
  /\ depth \in [1 .. Len(prog) + 1 -> Nat] /\ depth[1] = 0
  /\ \A p \in DOMAIN prog :
       /\ depth[p + 1] <= Left(depth[p], prog[p])
       /\ prog[p].op = "ORB" => Entered(depth[p], prog[p]) > 0

ASSUME ScanConstants ==
  /\ Inputs \subseteq Bits /\ Unit \in Nat \ {0} /\ MaxScans \in Nat /\ MaxWord \in Nat
  /\ MaxTick \in Nat
  /\ Bits \cap Words = {} /\ Bits \cap Timed = {} /\ Words \cap Timed = {}
  /\ Timers \cap Counters = {} /\ Nothing \notin Devices

ASSUME ProgramsWellFormed ==
  \A prog \in Programs :
    /\ prog \in Seq(Instruction)
    /\ \A p \in DOMAIN prog : WellFormed(prog[p])
    /\ \A p, q \in DOMAIN prog :
         DrivesTimer(prog[p]) /\ prog[q].op = "OUT" /\ prog[q].dev = prog[p].dev => p = q

-----------------------------------------------------------------------------
VARIABLES
  program,   \* the instructions of the program under check
  known,     \* the machine of the checker
  actual,    \* a machine the trace may stand for
  pc,        \* the next instruction; 0 between scans
  scans,     \* scans begun
  clock,     \* the time of the actual machine
  stamp,     \* the timestamp the checker sees, or Absent
  exact,     \* the trace declares everything, the clock included
  blurred    \* the checker met one of the cases of Blurs

vars == <<program, known, actual, pc, scans, clock, stamp, exact, blurred>>
frame == <<program, scans, clock, stamp, exact>>

Memory == {f \in [Devices -> Int] : \A b \in Bits : f[b] \in Kleene}

\* The state of a ScanMachine.
Machine ==
  [mem : Memory, contact : [Timed -> Kleene],
   acc : Kleene, stack : Seq(Kleene), saved : Seq(Kleene),
   prior : [DOMAIN program -> Kleene],
   previous : [Bits \cup Timed -> Kleene], samples : [Bits \cup Timed -> Kleene \cup {Absent}],
   start : [Timers -> Int], drive : [Timers -> Kleene \cup {Absent}]]

NoSamples == [d \in Bits \cup Timed |-> Absent]
NoDrives == [t \in Timers |-> Absent]

\* A machine before its first scan: timers and counters at rest, one answer for
\* every enable and every contact of the scan before.
Fresh(mem, history) ==
  [mem |-> mem, contact |-> [d \in Timed |-> Off],
   acc |-> On, stack |-> <<>>, saved |-> <<>>,
   prior |-> [p \in DOMAIN program |-> history],
   previous |-> [d \in Bits \cup Timed |-> history], samples |-> NoSamples,
   start |-> NoDrives, drive |-> NoDrives]

Init ==
  /\ program \in Programs
  /\ pc = 0 /\ scans = 0 /\ clock = 0 /\ stamp = Absent /\ blurred = FALSE
  /\ \E mem \in [Devices -> 0 .. MaxWord], history \in {Off, On},
        untold \in SUBSET (Bits \cup Words), told \in BOOLEAN :
       /\ \A d \in Bits : mem[d] \in {Off, On}
       /\ \A d \in Timed : mem[d] = 0
       /\ actual = Fresh(mem, history)
       /\ known = Fresh([d \in Devices |-> IF d \in untold THEN Unknown ELSE mem[d]],
                        IF told THEN history ELSE Unknown)
       /\ exact = (told /\ untold = {})

-----------------------------------------------------------------------------
(* Three-valued logic and memory *)

And(a, b) == IF a = Off \/ b = Off THEN Off ELSE IF a = Unknown \/ b = Unknown THEN Unknown ELSE On
Or(a, b) == IF a = On \/ b = On THEN On ELSE IF a = Unknown \/ b = Unknown THEN Unknown ELSE Off
Not(a) == IF a = Unknown THEN Unknown ELSE IF a = On THEN Off ELSE On
Truth(P) == IF P THEN On ELSE Off
Least(a, b) == IF a <= b THEN a ELSE b

Bit(m, d) == IF d \in Timed THEN m.contact[d] ELSE m.mem[d]

\* A word operand: a constant or a register.
Operand(m, i) == IF i.src = Nothing THEN i.k ELSE m.mem[i.src]

\* The handler of a refused instruction: what it may write becomes unknown.
Forget(m, d) ==
  [m EXCEPT !.mem[d] = Unknown,
            !.contact = [e \in Timed |-> IF e = d THEN Unknown ELSE m.contact[e]]]

Store(m, d, value) == [m EXCEPT !.mem[d] = value]
\* Mutant of StoreTimed: the contact is the current value.
StoreTimed_Count(m, d, value, contact) == [m EXCEPT !.mem[d] = value, !.contact[d] = value]
StoreTimed(m, d, value, contact) == [m EXCEPT !.mem[d] = value, !.contact[d] = contact]

-----------------------------------------------------------------------------
(* The instructions *)

\* A circuit starts with an empty logic; an output at the left bus is enabled.
Enter(m, i) ==
  IF i.enter = "circuit" THEN [m EXCEPT !.acc = On, !.stack = <<>>, !.saved = <<>>]
  ELSE IF i.enter = "root" THEN [m EXCEPT !.acc = On]
  ELSE m

\* An edge needs both the contact and its sample of the scan before.
Edge(before, after) ==
  IF before = Unknown \/ after = Unknown THEN Unknown ELSE Truth(before = Off /\ after = On)

Signal(m, i) ==
  IF i.form = "" THEN Bit(m, i.dev)
  ELSE IF i.form = "I" THEN Not(Bit(m, i.dev))
  ELSE IF i.form = "P" THEN Edge(m.previous[i.dev], Bit(m, i.dev))
  ELSE IF i.form = "F" THEN Edge(Bit(m, i.dev), m.previous[i.dev])
  ELSE Truth(m.mem[i.dev] = i.k)

Connect(m, op, value) ==
  IF op = "LD" THEN [m EXCEPT !.stack = Append(m.stack, m.acc), !.acc = value]
  ELSE IF op = "AND" THEN [m EXCEPT !.acc = And(m.acc, value)]
  ELSE [m EXCEPT !.acc = Or(m.acc, value)]

\* A comparison of an unknown word is refused before anything is pushed.
Contact(m, i) ==
  IF i.form = "=" /\ m.mem[i.dev] = Unknown THEN [m EXCEPT !.acc = Unknown]
  ELSE Connect(IF i.form \in {"P", "F"} THEN [m EXCEPT !.samples[i.dev] = Bit(m, i.dev)] ELSE m,
               i.op, Signal(m, i))

Top(s) == s[Len(s)]
Pop(s) == SubSeq(s, 1, Len(s) - 1)

\* An underflow is a gap: the handler makes ORB unknown and leaves ANB as it was.
Block(m, i) ==
  IF m.stack = <<>> THEN IF i.op = "ORB" THEN [m EXCEPT !.acc = Unknown] ELSE m
  ELSE [m EXCEPT !.stack = Pop(m.stack),
                 !.acc = IF i.op = "ANB" THEN And(Top(m.stack), m.acc) ELSE Or(Top(m.stack), m.acc)]

Share(m, i) ==
  IF i.op = "MPS" THEN [m EXCEPT !.saved = Append(m.saved, m.acc)]
  ELSE IF m.saved = <<>> THEN m
  ELSE IF i.op = "MRD" THEN [m EXCEPT !.acc = Top(m.saved)]
  ELSE [m EXCEPT !.acc = Top(m.saved), !.saved = Pop(m.saved)]

\* Every other instruction remembers its enable for its next execution.
Enabled(m, p) == [m EXCEPT !.prior[p] = m.acc]

\* Mutant of Ready: a timer starts only after a scan that did not drive it.
Ready_AfterRest(m, t, p) == m.start[t] # Absent \/ m.prior[p] = Off

\* The start of timer t, driven at position p, is known or is now.
Ready(m, t, p) ==
  m.start[t] # Absent \/ m.prior[p] = Off \/ (m.mem[t] = 0 /\ m.contact[t] = Off)

\* OUT T, at position p and time now.  A timer starts on a known enable after a
\* known rest; its current value is the time since, in steps of Unit.
TimerOut(m, i, p, now) ==
  LET t == i.dev
      d == [Enabled(m, p) EXCEPT !.drive[t] = m.acc]
      from == IF m.start[t] = Absent THEN now ELSE m.start[t]
      count == (now - from) \div Unit
      preset == Operand(m, i)
  IN IF m.acc = Off THEN StoreTimed([d EXCEPT !.start[t] = Absent], t, 0, Off)
     ELSE IF m.acc = Unknown \/ now = Absent \/ ~Ready(m, t, p) THEN Forget(d, t)
     ELSE IF preset = Unknown THEN Forget([d EXCEPT !.start[t] = from], t)
     ELSE StoreTimed([d EXCEPT !.start[t] = from], t, Least(count, preset), Truth(count >= preset))

\* OUT C counts the rising edges of its enable up to the preset.
CounterOut(m, i, p) ==
  LET preset == Operand(m, i)
      value ==
        IF m.acc = On /\ m.prior[p] = Off /\ m.mem[i.dev] # Unknown
        THEN Least(m.mem[i.dev] + 1, preset)
        ELSE IF m.acc = Unknown \/ (m.acc = On /\ m.prior[p] = Unknown) THEN Unknown
        ELSE m.mem[i.dev]
  IN IF preset = Unknown THEN Forget(Enabled(m, p), i.dev)
     ELSE StoreTimed(Enabled(m, p), i.dev, value,
                     IF value = Unknown THEN Unknown ELSE Truth(value >= preset))

\* Mutant of Coil: an unknown history counts as rest.
Coil_AtRest(m, i, p) ==
  Store(Enabled(m, p), i.dev,
        IF i.op = "OUT" THEN m.acc
        ELSE IF i.op = "PLS" THEN IF m.prior[p] = On THEN Off ELSE m.acc
        ELSE And(m.prior[p], Not(m.acc)))

Coil(m, i, p) ==
  Store(Enabled(m, p), i.dev,
        IF i.op = "OUT" THEN m.acc
        ELSE IF i.op = "PLS" THEN And(m.acc, Not(m.prior[p]))
        ELSE And(m.prior[p], Not(m.acc)))

\* SET, RST and MOV act when they are enabled; with an unknown enable, or an
\* unknown source, what they write becomes unknown.
Command(m, i, p) ==
  IF m.acc = Off THEN Enabled(m, p)
  ELSE IF m.acc = Unknown THEN Forget(Enabled(m, p), i.dev)
  ELSE IF i.op = "MOV" /\ Operand(m, i) = Unknown THEN Forget(Enabled(m, p), i.dev)
  ELSE IF i.op = "MOV" THEN Store(Enabled(m, p), i.dev, Operand(m, i))
  ELSE IF i.op = "SET" THEN Store(Enabled(m, p), i.dev, On)
  ELSE Store(Enabled(m, p), i.dev, 0)

\* RST of a counter or a timer; a timer that was driven in this scan starts anew.
Reset(m, i, p, now) ==
  IF m.acc = Off THEN Enabled(m, p)
  ELSE IF m.acc = Unknown THEN Forget(Enabled(m, p), i.dev)
  ELSE LET d == StoreTimed(Enabled(m, p), i.dev, 0, Off)
       IN IF i.dev \in Timers
          THEN [d EXCEPT !.start[i.dev] = IF m.drive[i.dev] = On THEN now ELSE Absent]
          ELSE d

-----------------------------------------------------------------------------
(* The steps of a scan, taken by both machines *)

Ins == program[pc]
K == Enter(known, Ins)
A == Enter(actual, Ins)

\* What the checker forgets while it keeps something that depends on it: the
\* value below a refused LD, or the start of a timer whose drive, reset or reset
\* time it does not know.
Blurs(m, i) ==
  \/ i.op = "LD" /\ i.form = "=" /\ m.mem[i.dev] = Unknown
  \/ DrivesTimer(i) /\ m.acc = Unknown
  \/ /\ i.op = "RST" /\ i.dev \in Timers
     /\ m.acc = Unknown \/ (m.acc = On /\ stamp = Absent)

At(ops) == pc \in DOMAIN program /\ Ins.op \in ops
OnTimed == Ins.dev \in Timed

Advance ==
  /\ pc' = pc + 1
  /\ blurred' = (blurred \/ Blurs(K, Ins))
  /\ UNCHANGED frame

ContactStep ==
  /\ At(Contacts)
  /\ known' = Contact(K, Ins) /\ actual' = Contact(A, Ins)
  /\ Advance

BlockStep ==
  /\ At(Blocks)
  /\ known' = Block(K, Ins) /\ actual' = Block(A, Ins)
  /\ Advance

ShareStep ==
  /\ At(Shared)
  /\ known' = Share(K, Ins) /\ actual' = Share(A, Ins)
  /\ Advance

TimerStep ==
  /\ At({"OUT"}) /\ Ins.dev \in Timers
  /\ known' = TimerOut(K, Ins, pc, stamp) /\ actual' = TimerOut(A, Ins, pc, clock)
  /\ Advance

CounterStep ==
  /\ At({"OUT"}) /\ Ins.dev \in Counters
  /\ known' = CounterOut(K, Ins, pc) /\ actual' = CounterOut(A, Ins, pc)
  /\ Advance

CoilStep ==
  /\ At({"OUT", "PLS", "PLF"}) /\ ~OnTimed
  /\ known' = Coil(K, Ins, pc) /\ actual' = Coil(A, Ins, pc)
  /\ Advance

CommandStep ==
  /\ At({"SET", "RST", "MOV"}) /\ ~OnTimed
  /\ known' = Command(K, Ins, pc) /\ actual' = Command(A, Ins, pc)
  /\ Advance

ResetStep ==
  /\ At({"RST"}) /\ OnTimed
  /\ known' = Reset(K, Ins, pc, stamp) /\ actual' = Reset(A, Ins, pc, clock)
  /\ Advance

Begun(m, inputs) ==
  [m EXCEPT !.mem = [d \in Devices |-> IF d \in Inputs THEN inputs[d] ELSE m.mem[d]],
            !.samples = NoSamples, !.drive = NoDrives]

\* A frame gives the inputs and, unless the trace leaves it out, the time, which
\* never runs backwards.
BeginScan ==
  /\ pc = 0 /\ scans < MaxScans
  /\ \E inputs \in [Inputs -> {Off, On}], clocked \in BOOLEAN, tick \in 0 .. MaxTick :
       /\ known' = Begun(known, inputs) /\ actual' = Begun(actual, inputs)
       /\ clock' = clock + tick
       /\ stamp' = IF clocked THEN clock + tick ELSE Absent
       /\ exact' = (exact /\ clocked)
  /\ pc' = 1 /\ scans' = scans + 1
  /\ UNCHANGED <<program, blurred>>

\* The contacts sampled in this scan are the history of the next one.
Sampled(m) ==
  [m EXCEPT !.previous = [d \in Bits \cup Timed |->
                            IF m.samples[d] = Absent THEN m.previous[d] ELSE m.samples[d]]]

EndScan ==
  /\ pc = Len(program) + 1
  /\ known' = Sampled(known) /\ actual' = Sampled(actual)
  /\ pc' = 0
  /\ UNCHANGED <<frame, blurred>>

Next ==
  \/ BeginScan \/ EndScan
  \/ ContactStep \/ BlockStep \/ ShareStep
  \/ TimerStep \/ CounterStep \/ CoilStep \/ CommandStep \/ ResetStep

Spec == Init /\ [][Next]_vars

-----------------------------------------------------------------------------
TypeOK ==
  /\ program \in Programs
  /\ known \in Machine /\ actual \in Machine
  /\ pc \in 0 .. Len(program) + 1 /\ scans \in 0 .. MaxScans
  /\ clock \in Nat /\ stamp \in {Absent, clock}
  /\ exact \in BOOLEAN /\ blurred \in BOOLEAN

\* x is y, or says nothing about it.
Below(x, y) == x = Unknown \/ x = y

\* "Unknown memory and time remain unknown" (bounded.py, line 8): whatever the
\* trace leaves open, a value the checker reports is the value of every machine
\* the trace may stand for.
UnknownStaysUnknown ==
  /\ \A d \in Devices : Below(known.mem[d], actual.mem[d])
  /\ \A d \in Timed : Below(known.contact[d], actual.contact[d])

\* The claim holds as long as the checker meets no case of Blurs: three-valued
\* logic, stacks, edges, counters and the handler of refused instructions keep it.
KnownIsActual == ~blurred => UnknownStaysUnknown

\* Nothing becomes unknown in a trace that declares everything: no legal order of
\* drives, resets and edges is refused or forgotten.
ExactIsDecided ==
  exact =>
    /\ \A d \in Devices : known.mem[d] # Unknown
    /\ \A d \in Timed : known.contact[d] # Unknown
=============================================================================
