------------------------- MODULE LiveSessionEditProofs -------------------------
(***************************************************************************)
(* The edits of a live session: none is applied twice, none is lost, and   *)
(* every answered command was observed.                                    *)
(*                                                                         *)
(* A source is a sequence of numbered edits, and what keeps an edit from   *)
(* being applied twice is an order: a command that is still planned has a  *)
(* greater number than every edit in the window, the file and the build,   *)
(* except that the one in flight may show already (Fence).  And what shows *)
(* there was confirmed before, or is the command in flight (Within).       *)
(***************************************************************************)
EXTENDS LiveSessionProofs

\* Contents as sequences of numbered edits.
Under(c, i) == \A k \in Commanded(c) : c[k] < i
UpTo(c, i) == \A k \in Commanded(c) : c[k] <= i
Has(c, i) == \E k \in DOMAIN c : c[k] = i
Rising(c) == \A k, l \in Commanded(c) : k < l => c[k] < c[l]

\* An edit is in flight.
EditFlying(r) == r.inflight # None /\ r.inflight.cmd.op = "edit"

\* A source shows what was confirmed, and perhaps the edit in flight.
Within(r, c) ==
  \A j \in Ids : Has(c, j) => Has(Known(r), j) \/ (EditFlying(r) /\ j = r.inflight.cmd.id)

\* What is still planned is in no source yet, except that the edit in flight may
\* show in the window, and in the file only when the window shows it.
Fence(r, src, disk, image) ==
  /\ \A k \in DOMAIN r.pending :
       /\ Under(Known(r), r.pending[k].id) /\ Under(image, r.pending[k].id)
       /\ \A c \in {src, disk} :
            \/ Under(c, r.pending[k].id)
            \/ k = 1 /\ EditFlying(r) /\ UpTo(c, r.pending[k].id)
  /\ EditFlying(r) => (Has(disk, r.inflight.cmd.id) => Has(src, r.inflight.cmd.id))
  /\ \A c \in {src, disk, image} : Within(r, c)

\* An accepted edit is confirmed or still planned.
Covers(r, acc, h) ==
  \A i \in acc : h[i] = "edit" => Has(Known(r), i) \/ \E k \in DOMAIN r.pending : r.pending[k].id = i

\* What a record says of the edits.
RecordEdits(r) ==
  /\ Fence(r, source, file.content, ide.image)
  /\ Covers(r, accepted, issued)
  /\ UpTo(Known(r), Len(issued))

\* The three sources outside the records.
Contents == {source, file.content, ide.image}

\* Every source holds commanded edits in the order they were issued, each once.
WindowSound == \A c \in Contents : Rising(c) /\ UpTo(c, Len(issued))

\* A compile works for the command both records have in flight.
Compiles(r) == r.inflight # None /\ r.inflight.cmd.op = "compile" /\ r.inflight.obs = None
CompilerSound == ide.run # None => Compiles(receipt) /\ (s # None => Compiles(s))

\* The command to be sent, and the plan to be begun, show in no source.
StepSound ==
  /\ pc \in {"dispatched", "applying"} => Under(source, Cmd.id) /\ Under(file.content, Cmd.id)
  /\ pc = "dispatched" => receipt.inflight.obs = None
  /\ pc = "begun" =>
       \A k \in DOMAIN call.work : \A c \in Contents \cup {Known(s)} : Under(c, call.work[k].id)

\* The inductive invariant.
EInv ==
  /\ IInv
  /\ accepted \subseteq 1..Len(issued)
  /\ WindowSound
  /\ RecordEdits(receipt) /\ (s # None => RecordEdits(s))
  /\ CompilerSound /\ StepSound

-----------------------------------------------------------------------------
(* Contents *)

\* A source is a sequence of numbers.
LEMMA ContentIs ==
  ASSUME NEW c \in Content
  PROVE  /\ \A k \in DOMAIN c : c[k] \in Nat /\ k \in Nat /\ k >= 1 /\ k <= Len(c)
         /\ Commanded(c) \subseteq DOMAIN c /\ Len(c) \in Nat
<1>1. \A k \in DOMAIN c : c[k] \in Ids \cup {ByHand} /\ k \in 1..Len(c)
  BY ElementOfSeq DEF Content
<1>2. QED
  BY <1>1 DEF Ids, ByHand, Commanded, Content

\* How bounds on the edits of a source relate.
LEMMA UnderIs ==
  ASSUME NEW c \in Content, NEW i \in Nat, NEW j \in Nat
  PROVE  /\ Under(c, i) => UpTo(c, i)
         /\ UpTo(c, i) /\ i < j => Under(c, j)
         /\ UpTo(c, i) /\ i <= j => UpTo(c, j)
         /\ Under(c, i) /\ i # ByHand => ~Has(c, i)
         /\ UpTo(c, i) /\ ~Has(c, i) => Under(c, i)
<1>1. \A k \in Commanded(c) : k \in DOMAIN c /\ c[k] \in Nat
  BY ContentIs
<1>2. Under(c, i) => UpTo(c, i)
  BY <1>1 DEF Under, UpTo
<1>3. UpTo(c, i) /\ i < j => Under(c, j)
  BY <1>1 DEF Under, UpTo
<1>4. UpTo(c, i) /\ i <= j => UpTo(c, j)
  BY <1>1 DEF UpTo
<1>5. Under(c, i) /\ i # ByHand => ~Has(c, i)
  BY <1>1 DEF Under, Has, Commanded
<1>6. UpTo(c, i) /\ ~Has(c, i) => Under(c, i)
  BY <1>1 DEF Under, UpTo, Has
<1>7. QED
  BY <1>2, <1>3, <1>4, <1>5, <1>6

\* An edit later than all before keeps their order.
LEMMA AppendIs ==
  ASSUME NEW c \in Content, NEW i \in Ids
  PROVE  /\ Under(c, i) => UpTo(Append(c, i), i)
         /\ Under(c, i) /\ Rising(c) => Rising(Append(c, i))
         /\ \A j : Has(Append(c, i), j) <=> Has(c, j) \/ j = i
         /\ \A j \in Nat : Under(c, j) /\ i < j => Under(Append(c, i), j)
         /\ \A j \in Nat : UpTo(c, j) /\ i <= j => UpTo(Append(c, i), j)
<1> DEFINE d == Append(c, i)
<1>1. /\ Commanded(d) = Commanded(c) \cup {Len(c) + 1} /\ d \in Content
      /\ Len(c) \in Nat /\ i \in Nat
  BY WrittenAppend, ContentIs DEF Ids
<1>2. /\ DOMAIN d = DOMAIN c \cup {Len(c) + 1} /\ d[Len(c) + 1] = i
      /\ \A k \in DOMAIN c : d[k] = c[k] /\ k < Len(c) + 1 /\ k \in Nat /\ c[k] \in Nat
  <2>1. \A k \in DOMAIN c : k \in 1..Len(c) /\ c[k] \in Nat
    BY ContentIs
  <2>2. DOMAIN c = 1..Len(c) /\ DOMAIN d = 1..(Len(c) + 1) /\ Len(c) \in Nat
    BY DEF Content
  <2>3. d[Len(c) + 1] = i /\ \A k \in 1..Len(c) : d[k] = c[k]
    BY DEF Content
  <2>4. QED
    BY <2>1, <2>2, <2>3
<1>3. Commanded(c) \subseteq DOMAIN c
  BY ContentIs
<1> HIDE DEF d
<1>4. Under(c, i) => UpTo(d, i)
  BY <1>1, <1>2, <1>3 DEF Under, UpTo
<1>5. Under(c, i) /\ Rising(c) => Rising(d)
  BY <1>1, <1>2, <1>3 DEF Under, Rising
<1>6. \A j : Has(d, j) <=> Has(c, j) \/ j = i
  BY <1>2 DEF Has
<1>7. \A j \in Nat : Under(c, j) /\ i < j => Under(d, j)
  BY <1>1, <1>2, <1>3 DEF Under
<1>8. \A j \in Nat : UpTo(c, j) /\ i <= j => UpTo(d, j)
  BY <1>1, <1>2, <1>3 DEF UpTo
<1>9. QED
  BY <1>4, <1>5, <1>6, <1>7, <1>8 DEF d

\* What the user edits by hand counts for no command.
LEMMA ByHandIs ==
  ASSUME NEW c \in Content
  PROVE  /\ Rising(Append(c, ByHand)) <=> Rising(c)
         /\ \A j : /\ Under(Append(c, ByHand), j) <=> Under(c, j)
                   /\ UpTo(Append(c, ByHand), j) <=> UpTo(c, j)
                   /\ Has(c, j) => Has(Append(c, ByHand), j)
                   /\ j # ByHand /\ Has(Append(c, ByHand), j) => Has(c, j)
<1> DEFINE d == Append(c, ByHand)
<1>1. /\ Len(c) \in Nat /\ DOMAIN c = 1..Len(c) /\ DOMAIN d = 1..(Len(c) + 1)
      /\ d[Len(c) + 1] = ByHand /\ \A k \in 1..Len(c) : d[k] = c[k]
  BY DEF Content
<1> HIDE DEF d
<1>2. Commanded(d) = Commanded(c)
  BY <1>1 DEF Commanded
<1>3. \A k \in Commanded(c) : d[k] = c[k]
  BY <1>1 DEF Commanded
<1>4. \A j : (Has(c, j) => Has(d, j)) /\ (j # ByHand /\ Has(d, j) => Has(c, j))
  BY <1>1 DEF Has
<1>5. Rising(d) <=> Rising(c)
  BY <1>2, <1>3 DEF Rising
<1>6. \A j : (Under(d, j) <=> Under(c, j)) /\ (UpTo(d, j) <=> UpTo(c, j))
  BY <1>2, <1>3 DEF Under, UpTo
<1>7. QED
  BY <1>4, <1>5, <1>6 DEF d

\* A source no command has touched.
LEMMA EmptyIs ==
  ASSUME NEW c \in Content, Commanded(c) = {}
  PROVE  Rising(c) /\ \A j : Under(c, j) /\ UpTo(c, j)
BY DEF Rising, Under, UpTo

\* What a command does to the source, when it is later than all edits before.
LEMMA EffectEdits ==
  ASSUME NEW c \in Content, NEW d \in Command, Under(c, d.id)
  PROVE  /\ UpTo(Effect(c, d), d.id)
         /\ Rising(c) => Rising(Effect(c, d))
         /\ \A j : Has(c, j) => Has(Effect(c, d), j)
         /\ d.op = "edit" => Has(Effect(c, d), d.id)
         /\ \A j \in Nat : Under(c, j) /\ d.id < j => Under(Effect(c, d), j)
         /\ \A j \in Nat : UpTo(c, j) /\ d.id <= j => UpTo(Effect(c, d), j)
<1>1. d.id \in Ids /\ d.id \in Nat
  BY DEF Command, Ids
<1>2. CASE d.op = "edit"
  BY <1>1, <1>2, AppendIs DEF Effect
<1>3. CASE d.op # "edit"
  BY <1>1, <1>3, UnderIs DEF Effect
<1>4. QED
  BY <1>2, <1>3

-----------------------------------------------------------------------------
(* Plans *)

\* q plans what r plans, over the same confirmed source.
SameEdits(r, q) ==
  /\ q.pending = r.pending /\ Known(q) = Known(r)
  /\ (q.inflight = None) <=> (r.inflight = None)
  /\ r.inflight # None => q.inflight.cmd = r.inflight.cmd

\* Records that agree on plan, flight and confirmed source say the same of the edits.
LEMMA SameEditsIs ==
  ASSUME NEW r, NEW q, SameEdits(r, q), NEW src, NEW disk, NEW image, NEW acc, NEW h
  PROVE  /\ Fence(r, src, disk, image) => Fence(q, src, disk, image)
         /\ Covers(r, acc, h) => Covers(q, acc, h)
         /\ UpTo(Known(r), Len(h)) => UpTo(Known(q), Len(h))
<1>1. EditFlying(q) <=> EditFlying(r)
  BY DEF SameEdits, EditFlying
<1>2. Fence(r, src, disk, image) => Fence(q, src, disk, image)
  BY <1>1 DEF SameEdits, Fence, EditFlying, Within
<1>3. QED
  BY <1>2 DEF SameEdits, Covers

\* A copy says the same of the edits.
LEMMA CopyEdits ==
  ASSUME NEW r, NEW q, Copy(r, q)
  PROVE  SameEdits(r, q)
BY DEF Copy, SameEdits, Known

\* So does what is written to disk.
LEMMA DurableEdits ==
  ASSUME NEW r \in SessionRecord
  PROVE  /\ SameEdits(r, Durable(r)) /\ Durable(r).inflight = r.inflight
         /\ Durable(r).pending = r.pending
BY DurableIs, CopyEdits DEF Copy

\* The numbers of a plan are those of commands that were given.
LEMMA PlanIs ==
  ASSUME NEW r \in SessionRecord, Queue(r.pending, issued), issued \in Seq(Ops)
  PROVE  /\ \A k \in DOMAIN r.pending :
              /\ r.pending[k] \in Command /\ r.pending[k].id \in Ids /\ r.pending[k].id \in Nat
              /\ r.pending[k].id <= Len(issued) /\ k \in Nat /\ k >= 1
              /\ r.pending[k].op = issued[r.pending[k].id]
              /\ k # 1 => r.pending[1].id < r.pending[k].id
         /\ r.pending # <<>> => 1 \in DOMAIN r.pending /\ r.pending[1] = Head(r.pending)
         /\ Len(issued) \in Nat
<1>1. r.pending \in Seq(Command)
  BY DEF SessionRecord
<1>2. \A k \in DOMAIN r.pending : r.pending[k] \in Command
  BY <1>1, ElementOfSeq
<1>3. r.pending # <<>> => 1 \in DOMAIN r.pending /\ r.pending[1] = Head(r.pending)
  BY <1>1
<1>4. \A k \in DOMAIN r.pending : k \in Nat /\ k >= 1 /\ (k # 1 => 1 < k /\ 1 \in DOMAIN r.pending)
  BY <1>1
<1>5. \A k \in DOMAIN r.pending : r.pending[k].id \in Ids /\ r.pending[k].id \in Nat
  BY <1>2 DEF Command, Ids
<1>6. Len(issued) \in Nat
  OBVIOUS
<1>7. QED
  BY <1>2, <1>3, <1>4, <1>5, <1>6 DEF Queue

\* What the invariant says of the records and the contents.
LEMMA EditFields ==
  ASSUME EInv
  PROVE  /\ receipt \in SessionRecord /\ Sound(receipt) /\ Queue(receipt.pending, issued)
         /\ RecordEdits(receipt)
         /\ s # None => /\ s \in SessionRecord /\ Sound(s) /\ Queue(s.pending, issued)
                        /\ RecordEdits(s)
         /\ source \in Content /\ file.content \in Content /\ ide.image \in Content
         /\ issued \in Seq(Ops) /\ Len(issued) \in Nat /\ ide \in IdeRecord
         /\ pc # "idle" => s # None
<1>1. IInv
  BY DEF EInv
<1>2. file.content \in Content /\ ide.image \in Content
  BY <1>1 DEF IInv, TypeOK, Bytes, IdeRecord
<1>3. QED
  BY <1>1, <1>2, Fields, MaybeIs DEF EInv, RecordSound, IInv, TypeOK

\* In flight is the head of the plan.
LEMMA HeadFlies ==
  ASSUME EInv, NEW r \in SessionRecord, Sound(r), Queue(r.pending, issued), r.inflight # None
  PROVE  /\ 1 \in DOMAIN r.pending /\ r.pending[1] = r.inflight.cmd
         /\ r.inflight.cmd \in Command /\ r.inflight.cmd.id \in Ids /\ r.inflight.cmd.id \in Nat
         /\ r.inflight.cmd.id <= Len(issued) /\ r.inflight.cmd.op = issued[r.inflight.cmd.id]
BY EditFields, PlanIs DEF Sound, Shape

\* A step that leaves the window alone and keeps the plan: s' is a record of the
\* same edits, and the receipt the same or written from it.
LEMMA SameStep ==
  ASSUME EInv, IInv', s # None, s' # None, SameEdits(s, s'),
         receipt' = receipt \/ receipt' = Durable(s'),
         UNCHANGED <<source, file, ide, issued, accepted>>,
         ide.run # None /\ Compiles(s) => s'.inflight.obs = None,
         pc' \in {"dispatched", "applying"} => pc \in {"dispatched", "applying"},
         pc' = "dispatched" => pc = "dispatched" /\ receipt' = receipt,
         pc' = "begun" => pc = "begun" /\ call' = call
  PROVE  EInv'
<1>1. s' \in SessionRecord
  BY MaybeIs DEF IInv, TypeOK
<1>2. SameEdits(s', Durable(s')) /\ Durable(s').inflight = s'.inflight
  BY <1>1, DurableEdits
<1>3. receipt' = receipt \/ (SameEdits(s, receipt') /\ receipt'.inflight = s'.inflight)
  BY <1>2 DEF SameEdits
<1>4. RecordEdits(s') /\ RecordEdits(receipt')
  BY <1>3, SameEditsIs, EditFields DEF RecordEdits
<1>5. RecordEdits(s)' /\ RecordEdits(receipt)' /\ WindowSound'
      /\ accepted' \subseteq 1..Len(issued')
  BY <1>4 DEF RecordEdits, WindowSound, Contents, EInv
<1>7. CompilerSound'
  BY <1>3 DEF EInv, CompilerSound, Compiles, SameEdits
<1>8. StepSound'
  BY DEF EInv, StepSound, SameEdits, Contents, Cmd, IInv, CallSound, Flying
<1>9. QED
  BY <1>5, <1>7, <1>8 DEF EInv

\* Steps of the thread that only learn or note something.
LEMMA QuietEdits ==
  ASSUME EInv, IInv',
         \/ Observe \/ Leave \/ Report \/ Return \/ StayUnconfirmed \/ Fail \/ RequestPause
         \/ Rebase
  PROVE  EInv'
<1>1. /\ s # None /\ s \in SessionRecord /\ Copy(s, s) /\ IInv /\ CompilerSound
  BY EditFields DEF EInv, Copy, Observe, Leave, Report, Return, StayUnconfirmed,
     Fail, RequestPause, Rebase, Working
<1>2. pc' # "idle" => s' # None
  BY DEF IInv, TypeOK
<1>3. SameEdits(s, s)
  BY DEF SameEdits
<1>4. CASE Observe
  <2>1. /\ s' # None /\ pc = "begun" /\ pc' = "step" /\ receipt' = receipt
        /\ UNCHANGED <<source, file, ide, issued, accepted>>
    BY <1>4, <1>1, Absent DEF Observe, env, ghosts, IInv, TypeOK
  <2>2. Known(s') = Known(s) /\ s'.pending = s.pending /\ s'.inflight = s.inflight
    BY <1>1, <1>4, Absent DEF Observe, Known, MatchesContext, SessionRecord, IInv, TypeOK
  <2>3. QED
    BY <1>1, <2>1, <2>2, SameStep DEF SameEdits, Compiles, Resting
<1>5. CASE Leave
  <2>1. /\ s'.pending = s.pending /\ s'.inflight = s.inflight /\ s'.context = s.context
        /\ s' # None
    BY <1>1, <1>2, <1>5 DEF Leave, SessionRecord
  <2>2. QED
    BY <1>1, <1>5, <2>1, SameStep DEF Leave, SameEdits, Compiles, Resting, Known, env, ghosts
<1>6. CASE Report \/ Return \/ StayUnconfirmed
  BY <1>1, <1>3, <1>6, SameStep DEF Report, Return, StayUnconfirmed, Compiles, env, ghosts
<1>7. CASE Fail
  <2>1. /\ s'.pending = s.pending /\ s'.inflight = s.inflight /\ s'.context = s.context
    BY <1>1, <1>7 DEF Fail, Failed, SessionRecord
  <2>2. QED
    BY <1>1, <1>2, <1>7, <2>1, SameStep DEF Fail, SameEdits, Compiles, Resting, Known, env, ghosts
<1>8. CASE RequestPause
  <2>1. /\ s'.pending = s.pending /\ s'.inflight = s.inflight /\ s'.context = s.context
        /\ s' # None
    <3>1. s' \in SessionRecord
      BY <1>1, <1>8 DEF RequestPause, SessionRecord
    <3>2. QED
      BY <1>1, <1>8, <3>1, Absent DEF RequestPause, SessionRecord
  <2>2. QED
    BY <1>1, <1>8, <2>1, SameStep DEF RequestPause, SameEdits, Compiles, Known, env, ghosts
<1>9. CASE Rebase
  <2>1. /\ s'.pending = s.pending /\ s'.inflight = s.inflight /\ s'.context = s.context
        /\ s' # None
    <3> DEFINE version == IF s.pendVer # None THEN s.pendVer ELSE s.verRev
    <3>1. version \in Nat /\ None \in Maybe(Nat) /\ None \in Maybe(DeliveryRecord)
      BY <1>1, MaybeIs DEF SessionRecord
    <3>2. s' = [s EXCEPT !.verRev = version, !.pendVer = None, !.delivery = None]
      BY <1>9 DEF Rebase
    <3> HIDE DEF version
    <3>3. s' \in SessionRecord
      BY <1>1, <3>1, <3>2 DEF SessionRecord
    <3>4. QED
      BY <1>1, <3>2, <3>3, Absent DEF SessionRecord
  <2>2. QED
    BY <1>1, <1>9, <2>1, SameStep DEF Rebase, SameEdits, Compiles, Known, env, ghosts
<1>10. QED
  BY <1>4, <1>5, <1>6, <1>7, <1>8, <1>9

\* Steps on a command in flight that leave the source alone.
LEMMA NotedEdits ==
  ASSUME EInv, IInv',
         \/ CompileReturns \/ ReadAddresses \/ NameSave \/ SaveDispatched \/ SaveReturns
         \/ SaveReplyLost \/ ReadEdit \/ ReadCompile \/ ReadAssign \/ ReadSave \/ ReadReopen
         \/ Apply
  PROVE  EInv'
<1>1. pc \in Flying
  BY DEF Flying, Apply, CompileReturns, ReadAddresses, NameSave, SaveDispatched, SaveReturns,
     SaveReplyLost, ReadEdit, ReadCompile, ReadAssign, ReadSave, ReadReopen, Unchanged
<1>2. /\ IInv /\ s # None /\ s \in SessionRecord /\ s.inflight # None /\ s.inflight \in FlightRecord
      /\ s.context # None
  BY <1>1, FlyingType, InFlight DEF EInv
<1>4. s' # None /\ s' \in SessionRecord
  <2>1. pc' # "idle"
    BY DEF Apply, CompileReturns, ReadAddresses, NameSave, SaveDispatched, SaveReturns,
       SaveReplyLost, ReadEdit, ReadCompile, ReadAssign, ReadSave, ReadReopen, Unchanged
  <2>2. QED
    BY <2>1, MaybeIs DEF IInv, TypeOK
<1>5. /\ UNCHANGED <<source, file, ide, issued, accepted>>
      /\ receipt' = receipt \/ receipt' = Durable(s')
      /\ pc' # "dispatched" /\ pc' # "begun" /\ (pc' = "applying" => pc = "dispatched")
  BY DEF Apply, CompileReturns, ReadAddresses, NameSave, SaveDispatched, SaveReturns,
     SaveReplyLost, ReadEdit, ReadCompile, ReadAssign, ReadSave, ReadReopen, env, ghosts
<1>6. s'.inflight # None
  <2>1. CASE SaveReplyLost
    BY <1>2, <2>1 DEF SaveReplyLost, Failed, SessionRecord
  <2>2. CASE ~SaveReplyLost
    <3>1. pc' \in Flying
      BY <2>2 DEF Flying, Apply, CompileReturns, ReadAddresses, NameSave, SaveDispatched, SaveReturns,
         ReadEdit, ReadCompile, ReadAssign, ReadSave, ReadReopen
    <3>2. QED
      BY <3>1 DEF IInv, CallSound
  <2>3. QED
    BY <2>1, <2>2
<1>7. /\ s'.pending = s.pending /\ s'.context = s.context
      /\ s'.inflight.cmd = s.inflight.cmd
      /\ ide.run # None /\ Compiles(s) => s'.inflight.obs = None
  <2>1. CASE CompileReturns
    <3> DEFINE run == [run |-> Cmd.id, rev |-> s.revision, outcome |-> ide.output]
    <3>1. s' = [s EXCEPT !.last = run, !.running = None, !.inflight = [s.inflight EXCEPT !.obs = run]]
          /\ ide.run = None
      BY <2>1 DEF CompileReturns
    <3> HIDE DEF run
    <3>2. s'.inflight = [s.inflight EXCEPT !.obs = run] /\ s'.pending = s.pending
          /\ s'.context = s.context
      BY <1>2, <3>1 DEF SessionRecord
    <3>3. QED
      BY <1>2, <3>1, <3>2 DEF FlightRecord
  <2>2. CASE ReadAddresses
    <3> DEFINE answer == [run |-> s.compile.run, rev |-> s.revision, outcome |-> "passed"]
    <3>1. s' = [s EXCEPT !.inflight = [s.inflight EXCEPT !.obs = answer]] /\ ~Compiles(s)
      BY <2>2 DEF ReadAddresses, Flight, Compiles, Cmd
    <3> HIDE DEF answer
    <3>2. s'.inflight = [s.inflight EXCEPT !.obs = answer] /\ s'.pending = s.pending
          /\ s'.context = s.context
      BY <1>2, <3>1 DEF SessionRecord
    <3>3. QED
      BY <1>2, <3>1, <3>2 DEF FlightRecord
  <2>3. CASE NameSave
    <3>1. s' = [s EXCEPT !.inflight = [s.inflight EXCEPT !.op = Cmd.id]] /\ ~Compiles(s)
      BY <2>3 DEF NameSave, Flight, Compiles, Cmd
    <3>2. s'.inflight = [s.inflight EXCEPT !.op = Cmd.id] /\ s'.pending = s.pending
          /\ s'.context = s.context
      BY <1>2, <3>1 DEF SessionRecord
    <3>3. QED
      BY <1>2, <3>1, <3>2 DEF FlightRecord
  <2>4. CASE SaveDispatched
    BY <1>2, <1>4, <2>4 DEF SaveDispatched, SessionRecord, Compiles
  <2>5. CASE SaveReturns
    <3>1. s' = [s EXCEPT !.progress.returned = TRUE, !.seen = file,
                         !.inflight = [s.inflight EXCEPT !.bytes = file]]
      BY <2>5 DEF SaveReturns
    <3>2. s'.inflight = [s.inflight EXCEPT !.bytes = file] /\ s'.pending = s.pending
          /\ s'.context = s.context
      BY <1>2, <3>1 DEF SessionRecord
    <3>3. QED
      BY <1>2, <3>2 DEF FlightRecord, Compiles
  <2>6. CASE SaveReplyLost
    <3>1. PICK adopt \in BOOLEAN :
            s' = Failed([s EXCEPT !.progress.returned = TRUE, !.seen = IF adopt THEN file ELSE @])
      BY <2>6 DEF SaveReplyLost
    <3>2. QED
      BY <1>2, <1>4, <3>1 DEF Failed, SessionRecord, Compiles
  <2>7. CASE ReadEdit
    BY <1>2, <1>4, <2>7 DEF ReadEdit, SessionRecord, Compiles
  <2>8. CASE ReadCompile
    BY <1>2, <1>4, <2>8
       DEF ReadCompile, AdoptCompileSave, WithCompile, SessionRecord, Compiles
  <2>9. CASE ReadAssign
    BY <1>2, <1>4, <2>9 DEF ReadAssign, SessionRecord, Compiles
  <2>10. CASE ReadSave
    BY <1>2, <1>4, <2>10 DEF ReadSave, WithSave, SessionRecord, Compiles
  <2>11. CASE ReadReopen
    BY <1>2, <1>4, <2>11 DEF ReadReopen, SessionRecord, Compiles
  <2>12. CASE Apply
    BY <1>2, <1>4, <2>12 DEF Apply, SessionRecord, Compiles
  <2>13. QED
    BY <2>1, <2>2, <2>3, <2>4, <2>5, <2>6, <2>7, <2>8, <2>9, <2>10, <2>11, <2>12
<1>8. SameEdits(s, s')
  BY <1>2, <1>6, <1>7 DEF SameEdits, Known
<1>9. QED
  BY <1>2, <1>4, <1>5, <1>7, <1>8, SameStep

-----------------------------------------------------------------------------
(* GX Works2 and its user *)

\* A step of the window that leaves the records and the plan alone.
LEMMA WindowEditStep ==
  ASSUME EInv, IInv', UNCHANGED <<s, receipt, pc, call, issued, accepted>>,
         WindowSound', ide'.run \in {ide.run, None}, StepSound',
         \A r \in SessionRecord :
           RecordEdits(r) /\ Sound(r) /\ Queue(r.pending, issued)
           => Fence(r, source', file'.content, ide'.image)
  PROVE  EInv'
<1>1. RecordEdits(receipt)'
  BY EditFields DEF RecordEdits, EInv
<1>2. s # None => RecordEdits(s)'
  BY EditFields DEF RecordEdits, EInv
<1>3. CompilerSound'
  BY DEF EInv, CompilerSound, Compiles
<1>4. QED
  BY <1>1, <1>2, <1>3 DEF EInv

\* The file takes the source, or the image of a Save; the source an edit by hand.
LEMMA FileEdits ==
  ASSUME EInv, IInv', UNCHANGED <<s, receipt, pc, call, issued, accepted>>,
         ide'.image = ide.image, ide'.run \in {ide.run, None},
         \/ source' = source /\ file'.content \in Contents
         \/ source' = Append(source, ByHand) /\ file' = file
  PROVE  EInv'
<1>1. source \in Content /\ file.content \in Content /\ ide.image \in Content
  BY EditFields
<1>2. /\ Rising(source') <=> Rising(source)
      /\ \A j : /\ Under(source', j) <=> Under(source, j)
                /\ UpTo(source', j) <=> UpTo(source, j)
                /\ Has(source, j) => Has(source', j)
                /\ j # ByHand /\ Has(source', j) => Has(source, j)
  <2>1. CASE source' = source
    BY <2>1
  <2>2. CASE source' = Append(source, ByHand)
    BY <1>1, <2>2, ByHandIs
  <2>3. QED
    BY <2>1, <2>2
<1>3. WindowSound'
  BY <1>2 DEF EInv, WindowSound, Contents
\* A Save that is still under way holds nothing of what is planned.
<1>4. \A r \in SessionRecord :
        RecordEdits(r) /\ Sound(r) /\ Queue(r.pending, issued)
        => Fence(r, source', file'.content, ide'.image)
  <2> SUFFICES ASSUME NEW r \in SessionRecord, RecordEdits(r), Sound(r), Queue(r.pending, issued)
               PROVE  Fence(r, source', file'.content, ide'.image)
    OBVIOUS
  <2>1. Fence(r, source, file.content, ide.image)
    BY DEF RecordEdits
  <2>2. EditFlying(r) => ~Has(ide.image, r.inflight.cmd.id)
    <3>1. EditFlying(r) => /\ Under(ide.image, r.inflight.cmd.id)
                           /\ r.inflight.cmd.id \in Nat /\ r.inflight.cmd.id # ByHand
      BY <2>1, HeadFlies DEF Fence, EditFlying, Ids, ByHand
    <3>2. QED
      BY <1>1, <3>1, UnderIs
  <2>3. \A k \in DOMAIN r.pending : \A c \in Contents :
          \/ Under(c, r.pending[k].id)
          \/ k = 1 /\ EditFlying(r) /\ UpTo(c, r.pending[k].id)
    BY <2>1 DEF Fence, Contents
  <2>4. EditFlying(r) => (Has(file'.content, r.inflight.cmd.id) => Has(source', r.inflight.cmd.id))
    BY <1>2, <2>1, <2>2 DEF Fence, Contents
  <2>5. \A k \in DOMAIN r.pending : \A c \in {source', file'.content} :
          \/ Under(c, r.pending[k].id)
          \/ k = 1 /\ EditFlying(r) /\ UpTo(c, r.pending[k].id)
    BY <1>2, <2>3 DEF Contents
  <2>6. \A c \in {source', file'.content, ide'.image} : Within(r, c)
    <3>1. \A c \in Contents : Within(r, c)
      BY <2>1 DEF Fence, Contents
    <3>2. Within(r, source')
      BY <1>2, <3>1 DEF Within, Contents, Ids, ByHand
    <3>3. QED
      BY <3>1, <3>2 DEF Contents
  <2>7. QED
    BY <2>1, <2>4, <2>5, <2>6 DEF Fence
<1>6. StepSound'
  <2> DEFINE sending == pc \in {"dispatched", "applying"}
  <2>1. sending => Under(ide.image, Cmd.id)
    <3>1. sending => s # None /\ s.inflight # None
      BY FlyingType DEF EInv, Flying
    <3>2. QED
      BY <3>1, EditFields, HeadFlies DEF RecordEdits, Fence, Cmd
  <2>2. sending => Under(source', Cmd.id) /\ Under(file'.content, Cmd.id)
    BY <1>2, <2>1 DEF EInv, StepSound, Contents
  <2>3. pc = "begun" => \A k \in DOMAIN call.work : \A c \in Contents' \cup {Known(s)} :
          Under(c, call.work[k].id)
    BY <1>2 DEF EInv, StepSound, Contents
  <2>4. QED
    BY <2>2, <2>3 DEF EInv, StepSound, Cmd
<1>7. QED
  BY <1>3, <1>4, <1>6, WindowEditStep DEF EInv

\* What the window and the user do on their own adds no commanded edit.
LEMMA WindowEdits ==
  ASSUME EInv, IInv', Environment PROVE EInv'
<1>1. ide \in IdeRecord
  BY EditFields
<1>3. CASE IdeCompiles
  <2>1. PICK outcome \in {"passed", "failed"}, writes \in BOOLEAN :
          /\ ide' = [ide EXCEPT !.run = None, !.build = ide.run, !.output = outcome]
          /\ file' = IF writes THEN [content |-> source, stamp |-> file.stamp + 1] ELSE file
    BY <1>3 DEF IdeCompiles
  <2>2. ide'.image = ide.image /\ ide'.run = None
    BY <1>1, <2>1 DEF IdeRecord
  <2>3. file'.content \in {source, file.content}
    BY <2>1
  <2>4. QED
    BY <1>3, <2>2, <2>3, FileEdits DEF IdeCompiles, Contents, ghosts
<1>4. CASE IdeSaves
  <2>1. /\ ide'.image = ide.image
        /\ ide'.run = ide.run /\ file'.content = ide.image
    BY <1>1, <1>4 DEF IdeSaves, IdeRecord
  <2>2. QED
    BY <1>4, <2>1, FileEdits DEF IdeSaves, Contents, ghosts
<1>5. CASE UserEdits
  BY <1>5, FileEdits DEF UserEdits
<1>6. CASE UserSaves
  BY <1>6, FileEdits DEF UserSaves, Contents
<1>7. QED
  BY <1>3, <1>4, <1>5, <1>6 DEF Environment

-----------------------------------------------------------------------------
(* The session leaves memory, or comes back *)

\* The end of the server leaves the sources as they are.
LEMMA EndEdits ==
  ASSUME EInv, IInv', Close \/ Detach \/ Crash \/ Revive \/ Restore
  PROVE  EInv'
<1>1. /\ UNCHANGED <<source, file, issued, accepted>>
      /\ ide'.run = ide.run /\ ide'.image = ide.image
  BY EditFields DEF Close, Detach, Crash, Revive, Restore, env, ghosts, IdeRecord, EInv
<1>2. /\ receipt \in SessionRecord /\ RecordEdits(receipt)
      /\ s # None => s \in SessionRecord /\ RecordEdits(s)
      /\ pc # "idle" => s # None
      /\ CompilerSound /\ WindowSound
  BY EditFields DEF EInv
<1>3. WindowSound' /\ accepted' \subseteq 1..Len(issued')
  BY <1>1 DEF EInv, WindowSound, Contents
<1>4. CASE Close \/ Detach
  <2> DEFINE ended == IF Close THEN [s EXCEPT !.closed = TRUE, !.state = "ended"] ELSE s
  <2>1. s # None /\ s' = None /\ receipt' = Durable(ended) /\ pc = "idle" /\ ide' = ide
    BY <1>4 DEF Close, Detach, env
  <2>2. ended \in SessionRecord /\ Copy(s, ended)
    BY <1>2, <2>1 DEF SessionRecord, States, Copy
  <2> HIDE DEF ended
  <2>3. SameEdits(s, receipt') /\ receipt'.inflight = s.inflight
    BY <2>1, <2>2, CopyEdits, DurableEdits DEF SameEdits, Copy
  <2>4. RecordEdits(receipt)'
    BY <1>1, <1>2, <2>1, <2>3, SameEditsIs DEF RecordEdits
  <2>5. CompilerSound'
    BY <1>1, <1>2, <2>1, <2>3 DEF CompilerSound, Compiles, Resting
  <2>6. StepSound'
    BY <2>1, <1>4 DEF StepSound, Close, Detach
  <2>7. QED
    BY <1>1, <1>3, <2>1, <2>4, <2>5, <2>6 DEF EInv
<1>5. CASE Crash
  <2>1. s' = None /\ pc' = "idle" /\ receipt' = receipt
    BY <1>5 DEF Crash
  <2>2. RecordEdits(receipt)'
    BY <1>1, <1>2, <2>1 DEF RecordEdits
  <2>3. CompilerSound' /\ StepSound'
    BY <1>1, <1>2, <2>1 DEF CompilerSound, Compiles, StepSound
  <2>4. QED
    BY <1>1, <1>3, <2>1, <2>2, <2>3 DEF EInv
<1>6. CASE Revive
  <2>1. s = None /\ s' = s /\ pc' = pc /\ ide' = ide
        /\ receipt' = [receipt EXCEPT !.closed = FALSE, !.state = receipt'.state]
    BY <1>2, <1>6 DEF Revive, env, SessionRecord
  <2>2. Copy(receipt, receipt')
    BY <1>2, <1>6 DEF Revive, SessionRecord, Copy
  <2>3. SameEdits(receipt, receipt') /\ receipt'.inflight = receipt.inflight
    BY <2>2, CopyEdits DEF Copy
  <2>4. RecordEdits(receipt)'
    BY <1>1, <1>2, <2>1, <2>3, SameEditsIs DEF RecordEdits
  <2>5. CompilerSound' /\ StepSound'
    BY <1>1, <1>2, <2>1, <2>2, <2>3 DEF CompilerSound, Compiles, StepSound
  <2>6. QED
    BY <1>1, <1>3, <2>1, <2>4, <2>5 DEF EInv
<1>7. CASE Restore
  <2>1. s = None /\ receipt' = receipt /\ pc' = "restored" /\ ide' = ide
    BY <1>7 DEF Restore, env
  <2>2. Copy(receipt, s')
    BY <1>2, <1>7 DEF Restore, SessionRecord, Copy
  <2>3. SameEdits(receipt, s') /\ s'.inflight = receipt.inflight
    BY <2>2, CopyEdits DEF Copy
  <2>4. RecordEdits(receipt)' /\ RecordEdits(s)'
    BY <1>1, <1>2, <2>1, <2>3, SameEditsIs DEF RecordEdits
  <2>5. CompilerSound' /\ StepSound'
    BY <1>1, <1>2, <2>1, <2>2, <2>3 DEF CompilerSound, Compiles, StepSound, Resting
  <2>6. QED
    BY <1>1, <1>3, <2>1, <2>4, <2>5 DEF EInv
<1>8. QED
  BY <1>4, <1>5, <1>6, <1>7

-----------------------------------------------------------------------------
(* A call and its commands *)

\* Commands of a new call are numbered after all commands so far.
LEMMA RunEdits ==
  ASSUME EInv, IInv', Run PROVE EInv'
<1>0. PICK n \in 0..MaxWork : \E ops \in [1..n -> Ops], limit \in 1..MaxWork : RunWith(ops, limit)
  BY DEF Run
<1>1. PICK ops \in [1..n -> Ops], limit \in 1..MaxWork : RunWith(ops, limit)
  BY <1>0
<1>2. /\ s # None /\ s \in SessionRecord /\ RecordEdits(s) /\ Queue(s.pending, issued)
      /\ issued \in Seq(Ops) /\ Len(issued) \in Nat
      /\ receipt \in SessionRecord /\ RecordEdits(receipt)
  BY <1>1, EditFields DEF RunWith
<1>3. s.inflight = None /\ ide.run = None
  <2>1. s.inflight = None
    BY <1>1, <1>2 DEF RunWith, EInv, IInv, CallSound, Resting
  <2>2. QED
    BY <1>2, <2>1 DEF EInv, CompilerSound, Compiles
<1>4. /\ pc' = "begun" /\ receipt' = receipt /\ UNCHANGED <<source, file, ide, accepted>>
      /\ issued' = issued \o ops
      /\ call'.work = IF s.pending # <<>> THEN s.pending ELSE Commands(ops)
  BY <1>1 DEF RunWith, env, NoCall
<1>5. s' # None /\ Known(s') = Known(s) /\ s'.pending = s.pending /\ s'.inflight = s.inflight
  <2>1. s' # None
    BY <1>4 DEF IInv, TypeOK
  <2>2. QED
    BY <1>1, <1>2, <2>1 DEF RunWith, SessionRecord, Known
<1>6. ops \in Seq(Ops) /\ Len(ops) = n /\ n \in Nat
  BY <1>1, LiveConstants
<1>7. /\ Len(issued') = Len(issued) + Len(ops) /\ Len(issued') \in Nat
      /\ \A i \in 1..Len(issued) : issued'[i] = issued[i]
  <2>1. /\ Len(issued \o ops) = Len(issued) + Len(ops)
        /\ \A i \in 1..Len(issued) + Len(ops) :
             (issued \o ops)[i] = IF i <= Len(issued) THEN issued[i] ELSE ops[i - Len(issued)]
    BY <1>2, <1>6, ConcatProperties
  <2>2. \A i \in 1..Len(issued) : i \in 1..Len(issued) + Len(ops) /\ i <= Len(issued)
    BY <1>2, <1>6
  <2>3. \A i \in 1..Len(issued) : (issued \o ops)[i] = issued[i]
    BY <2>1, <2>2
  <2>4. QED
    BY <1>2, <1>4, <1>6, <2>1, <2>3
<1>8. \A c \in Content : UpTo(c, Len(issued)) => UpTo(c, Len(issued'))
  BY <1>2, <1>6, <1>7, UnderIs
<1>9. \A r \in SessionRecord : RecordEdits(r) =>
        /\ Fence(r, source, file.content, ide.image) /\ Covers(r, accepted, issued')
        /\ UpTo(Known(r), Len(issued'))
  BY <1>7, <1>8, KnownIs DEF RecordEdits, Covers, EInv
<1>10. RecordEdits(receipt)'
  BY <1>2, <1>4, <1>9 DEF RecordEdits
<1>11. RecordEdits(s)'
  <2>1. SameEdits(s, s')
    BY <1>5 DEF SameEdits
  <2>2. QED
    BY <1>2, <1>4, <1>9, <2>1, SameEditsIs DEF RecordEdits
<1>12. WindowSound' /\ accepted' \subseteq 1..Len(issued')
  BY <1>2, <1>4, <1>6, <1>7, <1>8, EditFields DEF EInv, WindowSound, Contents
<1>13. CompilerSound'
  BY <1>3, <1>4 DEF CompilerSound
<1>14. \A k \in DOMAIN call'.work : \A c \in Contents \cup {Known(s)} : Under(c, call'.work[k].id)
  <2>1. CASE s.pending # <<>>
    BY <1>2, <1>3, <1>4, <2>1 DEF RecordEdits, Fence, EditFlying, Contents
  <2>2. CASE s.pending = <<>>
    <3>1. call'.work = Commands(ops)
      BY <1>4, <2>2
    <3>2. \A k \in DOMAIN call'.work : call'.work[k].id = Len(issued) + k /\ k \in 1..n
      BY <1>1, <3>1 DEF Commands
    <3>3. \A c \in Contents \cup {Known(s)} : c \in Content /\ UpTo(c, Len(issued))
      BY <1>2, EditFields, KnownIs DEF EInv, WindowSound, Contents, RecordEdits
    <3>4. ASSUME NEW k \in DOMAIN call'.work, NEW c \in Contents \cup {Known(s)}
          PROVE  Under(c, call'.work[k].id)
      <4>1. call'.work[k].id \in Nat /\ Len(issued) < call'.work[k].id
        BY <1>2, <1>6, <3>2
      <4>2. QED
        BY <1>2, <3>3, <4>1, UnderIs
    <3>5. QED
      BY <3>4
  <2>3. QED
    BY <2>1, <2>2
<1>15. StepSound'
  BY <1>4, <1>5, <1>14 DEF StepSound, Contents
<1>16. QED
  BY <1>4, <1>10, <1>11, <1>12, <1>13, <1>15 DEF EInv

\* Between two commands GX Works2 works on none.
LEMMA BetweenIs ==
  ASSUME EInv, pc \in Between
  PROVE  /\ s # None /\ s \in SessionRecord /\ s.inflight = None /\ ide.run = None
         /\ RecordEdits(s) /\ Queue(s.pending, issued) /\ receipt \in SessionRecord
         /\ RecordEdits(receipt) /\ ~EditFlying(s)
<1>1. s # None /\ s.inflight = None
  BY EditFields DEF EInv, IInv, CallSound, Between
<1>2. QED
  BY <1>1, EditFields DEF EInv, CompilerSound, Compiles, EditFlying

\* A call accepts commands that are later than everything in the window.
LEMMA BeginEdits ==
  ASSUME EInv, IInv', Begin PROVE EInv'
<1>1. pc = "begun" /\ pc \in Between
  BY DEF Begin, Between
<1>2. /\ pc' = "step" /\ receipt' = receipt /\ UNCHANGED <<source, file, ide, issued, accepted>>
      /\ s' = [s EXCEPT !.pending = call.work]
  BY DEF Begin, env, ghosts
<1>3. s' # None /\ s'.pending = call.work /\ Known(s') = Known(s) /\ s'.inflight = None
  <2>1. s' # None
    BY <1>2 DEF IInv, TypeOK
  <2>2. QED
    BY <1>1, <1>2, <2>1, BetweenIs DEF SessionRecord, Known
<1>4. \A k \in DOMAIN call.work : \A c \in Contents \cup {Known(s)} : Under(c, call.work[k].id)
  BY <1>1 DEF EInv, StepSound
<1>5. Fence(s', source, file.content, ide.image)
  <2>1. \A c \in Contents : Within(s', c)
    BY <1>1, <1>3, BetweenIs DEF RecordEdits, Fence, Within, Contents
  <2>2. QED
    BY <1>3, <1>4, <2>1 DEF Fence, EditFlying, Contents
<1>6. Covers(s', accepted, issued)
  <2>1. s.pending # <<>> => call.work = s.pending
    BY <1>1 DEF EInv, IInv, CallSound
  <2>2. Covers(s, accepted, issued)
    BY <1>1, BetweenIs DEF RecordEdits
  <2>3. QED
    BY <1>3, <2>1, <2>2 DEF Covers
<1>7. RecordEdits(s)' /\ RecordEdits(receipt)'
  BY <1>1, <1>2, <1>3, <1>5, <1>6, BetweenIs DEF RecordEdits
<1>8. CompilerSound' /\ StepSound'
  BY <1>1, <1>2, BetweenIs DEF CompilerSound, StepSound
<1>9. QED
  BY <1>2, <1>7, <1>8 DEF EInv, WindowSound, Contents

\* The commands a record names are accepted from then on.
LEMMA NextCommandEdits ==
  ASSUME EInv, IInv', NextCommand PROVE EInv'
<1>1. pc = "step" /\ pc \in Between
  BY DEF NextCommand, Between
<1>2. /\ pc' = "ready" /\ receipt' = Durable(s) /\ s' = s
      /\ UNCHANGED <<source, file, ide, issued>>
      /\ accepted' = accepted \cup {s.pending[i].id : i \in DOMAIN s.pending}
  BY DEF NextCommand, env
<1>3. Covers(s, accepted', issued)
  BY <1>1, <1>2, BetweenIs DEF RecordEdits, Covers
<1>4. RecordEdits(s)'
  BY <1>1, <1>2, <1>3, BetweenIs DEF RecordEdits
<1>5. RecordEdits(receipt)'
  <2>1. SameEdits(s, receipt')
    BY <1>1, <1>2, BetweenIs, DurableEdits
  <2>2. QED
    BY <1>2, <1>4, <2>1, SameEditsIs DEF RecordEdits
<1>6. accepted' \subseteq 1..Len(issued)
  <2>1. \A i \in DOMAIN s.pending : s.pending[i].id \in 1..Len(issued)
    BY <1>1, BetweenIs, EditFields, PlanIs DEF Ids
  <2>2. QED
    BY <1>2, <2>1 DEF EInv
<1>7. CompilerSound' /\ StepSound'
  BY <1>1, <1>2, BetweenIs DEF CompilerSound, StepSound
<1>8. QED
  BY <1>2, <1>4, <1>5, <1>6, <1>7 DEF EInv, WindowSound, Contents

\* A command that is prepared shows in no source.
LEMMA PrepareEdits ==
  ASSUME EInv, IInv', Prepare PROVE EInv'
<1> DEFINE c == Head(s.pending)
           before == IF s.context = None THEN <<>> ELSE s.context
           f == [cmd |-> c, before |-> before, obs |-> None,
                 op |-> 0, bytes |-> None, reopened |-> FALSE]
<1>1. pc = "ready" /\ pc \in Between
  BY DEF Prepare, Between
<1>2. /\ pc' = "dispatched" /\ receipt' = Durable(s')
      /\ UNCHANGED <<source, file, ide, issued, accepted>>
      /\ s' = [s EXCEPT !.context = before, !.inflight = f]
  BY DEF Prepare, env, ghosts
<1>3. /\ s' # None /\ s' \in SessionRecord /\ s'.inflight # None /\ s'.inflight = f
      /\ s'.pending = s.pending /\ s'.context = before
  <2>1. s' # None /\ s' \in SessionRecord /\ s'.inflight # None
    BY <1>2, MaybeIs DEF IInv, TypeOK, CallSound, Flying
  <2>2. QED
    BY <1>1, <1>2, <2>1, BetweenIs DEF SessionRecord
<1>4. f.cmd = c /\ f.obs = None
  OBVIOUS
<1> HIDE DEF f
<1>5. Known(s') = Known(s)
  <2>1. before = Known(s)
    BY DEF Known
  <2>2. Known(s') = before
    BY <1>3, WrittenIs DEF Known
  <2>3. QED
    BY <2>1, <2>2
<1> HIDE DEF before
<1>6. s.pending # <<>> /\ 1 \in DOMAIN s.pending /\ s.pending[1] = c /\ c.id \in Nat /\ c.id # ByHand
  <2>1. s.pending # <<>>
    BY <1>1 DEF EInv, IInv, CallSound
  <2>2. QED
    BY <1>1, <2>1, BetweenIs, EditFields, PlanIs DEF Ids, ByHand
<1>7. \A k \in DOMAIN s.pending : \A x \in Contents \cup {Known(s)} : Under(x, s.pending[k].id)
  BY <1>1, BetweenIs DEF RecordEdits, Fence, Contents
<1>8. Fence(s', source, file.content, ide.image)
  <2>1. ~Has(file.content, c.id)
    <3>1. Under(file.content, c.id)
      BY <1>6, <1>7 DEF Contents
    <3>2. QED
      BY <1>6, <3>1, EditFields, UnderIs
  <2>2. \A x \in Contents : Within(s', x)
    BY <1>1, <1>5, BetweenIs DEF RecordEdits, Fence, Within, Contents
  <2>3. QED
    BY <1>3, <1>4, <1>5, <1>7, <2>1, <2>2 DEF Fence, Contents
<1>9. RecordEdits(s')
  BY <1>1, <1>3, <1>5, <1>8, BetweenIs DEF RecordEdits, Covers
<1>10. SameEdits(s', receipt') /\ receipt'.inflight = f
  BY <1>2, <1>3, DurableEdits
<1>11. RecordEdits(s)' /\ RecordEdits(receipt)'
  BY <1>2, <1>9, <1>10, SameEditsIs DEF RecordEdits
<1>12. CompilerSound'
  BY <1>1, <1>2, BetweenIs DEF CompilerSound
<1>13. StepSound'
  BY <1>2, <1>3, <1>4, <1>6, <1>7, <1>10 DEF StepSound, Contents, Cmd
<1>14. QED
  BY <1>2, <1>11, <1>12, <1>13 DEF EInv, WindowSound, Contents

-----------------------------------------------------------------------------
(* The steps of one command that reach the window *)

\* A command in flight is in both records, and no compile runs for another.
LEMMA FlyingIs ==
  ASSUME EInv, pc \in Flying
  PROVE  /\ s # None /\ s \in SessionRecord /\ s.inflight # None
         /\ Sound(s) /\ RecordEdits(s) /\ Queue(s.pending, issued)
         /\ receipt \in SessionRecord /\ RecordEdits(receipt)
         /\ receipt.inflight # None /\ receipt.inflight.cmd = Cmd /\ receipt.pending = s.pending
         /\ Cmd = s.inflight.cmd
         /\ Cmd.op # "compile" => ide.run = None
<1>1. s # None /\ s.inflight # None /\ IInv
  BY FlyingType DEF EInv
<1>3. Cmd.op # "compile" => ide.run = None
  BY <1>1 DEF EInv, CompilerSound, Compiles, Cmd
<1>4. QED
  BY <1>1, <1>3, InFlight, EditFields DEF Cmd

\* A step on a command in flight; when it changes what is shown, to a content
\* there is, the command is no edit.
LEMMA ActStep ==
  ASSUME EInv, IInv', pc \in Flying, s' # None, SameEdits(s, s'),
         receipt' = receipt, UNCHANGED <<file, issued, accepted>>,
         source' \in Contents, ide'.image \in Contents,
         (source' = source /\ ide'.image = ide.image) \/ Cmd.op # "edit",
         CompilerSound', pc' \notin {"dispatched", "applying", "begun"}
  PROVE  EInv'
<1>1. \A r \in SessionRecord :
        /\ RecordEdits(r) /\ r.inflight # None /\ r.inflight.cmd = Cmd
        => Fence(r, source', file.content, ide'.image)
  <2> SUFFICES ASSUME NEW r \in SessionRecord, RecordEdits(r), r.inflight # None,
                      r.inflight.cmd = Cmd
               PROVE  Fence(r, source', file.content, ide'.image)
    OBVIOUS
  <2>1. Fence(r, source, file.content, ide.image)
    BY DEF RecordEdits
  <2>2. CASE source' = source /\ ide'.image = ide.image
    BY <2>1, <2>2
  <2>3. CASE Cmd.op # "edit"
    BY <2>1, <2>3 DEF Fence, EditFlying, Contents
  <2>4. QED
    BY <2>2, <2>3
<1>2. Fence(s, source', file.content, ide'.image) /\ Fence(receipt, source', file.content, ide'.image)
  BY <1>1, FlyingIs
<1>3. Fence(s', source', file.content, ide'.image) /\ Covers(s', accepted, issued)
      /\ UpTo(Known(s'), Len(issued))
  BY <1>2, FlyingIs, SameEditsIs DEF RecordEdits
<1>4. RecordEdits(s)' /\ RecordEdits(receipt)'
  BY <1>2, <1>3, FlyingIs DEF RecordEdits
<1>5. WindowSound' /\ StepSound'
  BY DEF EInv, WindowSound, Contents, StepSound
<1>6. QED
  BY <1>4, <1>5 DEF EInv

\* Acting starts one compile or Save for the command in flight.
LEMMA ActEdits ==
  ASSUME EInv, IInv', StartCompile \/ SendSave \/ Reopen
  PROVE  EInv'
<1>1. pc \in Flying /\ pc' \in Flying /\ pc' \notin {"dispatched", "applying", "begun"}
  BY DEF Flying, StartCompile, SendSave, Reopen
<1>2. /\ s # None /\ s \in SessionRecord /\ ide \in IdeRecord /\ s.inflight \in FlightRecord
      /\ s.inflight # None /\ receipt.inflight # None /\ receipt.inflight.cmd = Cmd
      /\ Cmd = s.inflight.cmd /\ (Cmd.op # "compile" => ide.run = None)
  BY <1>1, FlyingIs, EditFields, InFlight DEF EInv
<1>3. s' # None /\ s'.inflight # None /\ receipt' = receipt
  BY <1>1 DEF IInv, TypeOK, CallSound, Flying, StartCompile, SendSave, Reopen
<1>4. UNCHANGED <<file, issued, accepted>>
  BY DEF StartCompile, SendSave, Reopen, ghosts
<1>6. CASE StartCompile
  <2>1. /\ ide'.image = ide.image
        /\ Cmd.op = "compile" /\ pc = "dispatched" /\ source' = source
    BY <1>2, <1>6 DEF StartCompile, IdeRecord
  <2>2. s'.pending = s.pending /\ s'.context = s.context /\ s'.inflight = s.inflight
    BY <1>2, <1>3, <1>6 DEF StartCompile, SessionRecord
  <2>3. s.inflight.obs = None /\ receipt.inflight.obs = None
    BY <2>1 DEF EInv, IInv, FlightSound, StepSound
  <2>4. CompilerSound'
    BY <1>2, <1>3, <2>1, <2>2, <2>3 DEF CompilerSound, Compiles
  <2>5. QED
    BY <1>1, <1>2, <1>3, <1>4, <2>1, <2>2, <2>4, ActStep DEF SameEdits, Known, Contents
<1>7. CASE SendSave
  <2>1. /\ ide'.image = source
        /\ ide'.run = ide.run /\ source' = source
    <3>1. PICK n \in 1..2 : ide' = [ide EXCEPT !.image = source, !.writes = n]
      BY <1>7 DEF SendSave
    <3>2. QED
      BY <1>2, <1>7, <3>1 DEF SendSave, IdeRecord
  <2>2. s'.pending = s.pending /\ s'.context = s.context /\ s'.inflight = s.inflight
    BY <1>2, <1>3, <1>7 DEF SendSave, SessionRecord
  <2>3. Cmd.op = "save"
    BY <1>7 DEF SendSave, EInv, IInv, FlightSound
  <2>4. CompilerSound'
    BY <1>2, <2>1, <2>3 DEF CompilerSound
  <2>5. QED
    BY <1>1, <1>2, <1>3, <1>4, <2>1, <2>2, <2>3, <2>4, ActStep DEF SameEdits, Known, Contents
<1>8. CASE Reopen
  <2>1. s' = [s EXCEPT !.inflight = [s.inflight EXCEPT !.reopened = TRUE]]
    BY <1>8 DEF Reopen, Flight
  <2>2. /\ s'.pending = s.pending /\ s'.context = s.context
        /\ s'.inflight = [s.inflight EXCEPT !.reopened = TRUE]
    BY <1>2, <2>1 DEF SessionRecord
  <2>3. s'.inflight.cmd = s.inflight.cmd
    BY <1>2, <2>2 DEF FlightRecord
  <2>4. Cmd.op = "reopen" /\ source' = file.content /\ ide' = ide
    BY <1>8 DEF Reopen
  <2>5. CompilerSound'
    BY <1>2, <2>4 DEF CompilerSound
  <2>6. QED
    BY <1>1, <1>2, <1>3, <1>4, <2>2, <2>3, <2>4, <2>5, ActStep DEF SameEdits, Known, Contents
<1>9. QED
  BY <1>6, <1>7, <1>8

\* The record of a session whose edit in flight takes effect.
LEMMA TakesEffect ==
  ASSUME EInv, NEW c \in Command, Under(source, c.id),
         NEW r \in SessionRecord, Sound(r), Queue(r.pending, issued), RecordEdits(r),
         r.inflight # None, r.inflight.cmd = c
  PROVE  Fence(r, Effect(source, c), file.content, ide.image)
<1> DEFINE src == Effect(source, c)
<1>1. /\ 1 \in DOMAIN r.pending /\ r.pending[1] = c /\ c.id \in Nat /\ source \in Content
  BY HeadFlies, EditFields
<1>2. \A k \in DOMAIN r.pending :
        /\ r.pending[k].id \in Nat /\ (k # 1 => c.id < r.pending[k].id)
  BY <1>1, EditFields, PlanIs
<1>3. Fence(r, source, file.content, ide.image)
  BY DEF RecordEdits
<1>4. CASE c.op # "edit"
  BY <1>3, <1>4 DEF Effect
<1>5. CASE c.op = "edit"
  <2>1. /\ UpTo(src, c.id) /\ Has(src, c.id)
        /\ \A j \in Nat : Under(source, j) /\ c.id < j => Under(src, j)
        /\ \A j : Has(source, j) => Has(src, j)
    BY <1>1, <1>5, EffectEdits
  <2>2. EditFlying(r)
    BY <1>5 DEF EditFlying
  <2>3. Within(r, src)
    <3>1. c.id \in Ids /\ src = Append(source, c.id)
      BY <1>5 DEF Command, Effect
    <3>2. \A j : Has(src, j) => Has(source, j) \/ j = c.id
      BY <1>1, <3>1, AppendIs
    <3>3. QED
      BY <1>3, <2>2, <3>2 DEF Fence, Within
  <2> HIDE DEF src
  <2>4. ASSUME NEW k \in DOMAIN r.pending
        PROVE  \/ Under(src, r.pending[k].id)
               \/ k = 1 /\ EditFlying(r) /\ UpTo(src, r.pending[k].id)
    <3>1. CASE k = 1
      BY <1>1, <2>1, <2>2, <3>1
    <3>2. CASE k # 1
      BY <1>2, <1>3, <2>1, <3>2 DEF Fence
    <3>3. QED
      BY <3>1, <3>2
  <2>5. QED
    BY <1>3, <2>1, <2>3, <2>4 DEF Fence, src
<1>6. QED
  BY <1>4, <1>5

\* An edit shows in the window when it is made, and nowhere before.
LEMMA MakeEditEdits ==
  ASSUME EInv, IInv', MakeEdit PROVE EInv'
<1>1. pc = "applying" /\ pc \in Flying
  BY DEF MakeEdit, Flying
<1>2. /\ source' = Effect(source, Cmd) /\ pc' = "acted"
      /\ UNCHANGED <<s, receipt, file, ide, call, issued, accepted>>
  BY DEF MakeEdit, ghosts
<1>3. /\ s # None /\ s.inflight # None /\ Cmd \in Command /\ Cmd = s.inflight.cmd
      /\ Cmd.id \in Nat /\ Cmd.id <= Len(issued) /\ Len(issued) \in Nat
      /\ source \in Content /\ Under(source, Cmd.id)
      /\ receipt.inflight # None /\ receipt.inflight.cmd = Cmd
  BY <1>1, FlyingIs, EditFields, HeadFlies DEF EInv, StepSound
<1>4. WindowSound'
  <2>1. Rising(source') /\ UpTo(source', Len(issued))
    BY <1>2, <1>3, EffectEdits DEF EInv, WindowSound, Contents
  <2>2. QED
    BY <1>2, <2>1 DEF EInv, WindowSound, Contents
<1>5. /\ Fence(s, source', file.content, ide.image)
      /\ Fence(receipt, source', file.content, ide.image)
  BY <1>2, <1>3, EditFields, TakesEffect
<1>6. RecordEdits(s)' /\ RecordEdits(receipt)'
  BY <1>2, <1>3, <1>5, EditFields DEF RecordEdits
<1>7. CompilerSound' /\ StepSound'
  BY <1>2 DEF EInv, CompilerSound, Compiles, StepSound
<1>8. QED
  BY <1>2, <1>4, <1>6, <1>7 DEF EInv

-----------------------------------------------------------------------------
(* A command is confirmed *)

\* The session whose command took effect: the source read back is the one that
\* was confirmed, with the edit of the command.
LEMMA Confirmed ==
  ASSUME EInv, s # None, s.inflight # None, NEW q,
         q.inflight = None, q.context = Effect(s.inflight.before, Cmd),
         q.pending = Tail(s.pending)
  PROVE  RecordEdits(q)
<1> DEFINE c == s.inflight.before
           d == Effect(c, Cmd)
<1>1. /\ s \in SessionRecord /\ RecordEdits(s) /\ Queue(s.pending, issued) /\ Sound(s)
      /\ Known(s) = c /\ c \in Content /\ Cmd \in Command /\ s.pending # <<>>
      /\ s.pending \in Seq(Command) /\ Cmd = s.inflight.cmd
  BY EditFields, InFlight DEF EInv, Cmd
<1>2. /\ 1 \in DOMAIN s.pending /\ s.pending[1] = Cmd /\ Cmd.id \in Nat /\ Cmd.id <= Len(issued)
      /\ Cmd.op = issued[Cmd.id] /\ Len(issued) \in Nat
  BY <1>1, HeadFlies, EditFields
<1>3. Under(c, Cmd.id) /\ UpTo(c, Len(issued))
  BY <1>1, <1>2 DEF RecordEdits, Fence
<1>4. /\ d \in Content /\ UpTo(d, Len(issued))
      /\ \A j : Has(c, j) => Has(d, j)
      /\ Cmd.op = "edit" => Has(d, Cmd.id)
      /\ \A j \in Nat : Under(c, j) /\ Cmd.id < j => Under(d, j)
  BY <1>1, <1>2, <1>3, EffectIs, EffectEdits
<1> HIDE DEF d
<1>5. Known(q) = d
  BY <1>4, Absent DEF Known, d
<1>6. \A k \in DOMAIN q.pending :
        /\ k + 1 \in DOMAIN s.pending /\ q.pending[k] = s.pending[k + 1] /\ k + 1 # 1
        /\ q.pending[k].id \in Nat /\ Cmd.id < q.pending[k].id
  <2>1. \A k \in DOMAIN q.pending : k + 1 \in DOMAIN s.pending /\ q.pending[k] = s.pending[k + 1]
    BY <1>1, TailPlan
  <2>2. \A k \in DOMAIN q.pending : k + 1 # 1
    <3>1. q.pending \in Seq(Command)
      BY <1>1, TailPlan
    <3>2. QED
      BY <3>1
  <2>3. QED
    BY <1>1, <1>2, <2>1, <2>2, EditFields, PlanIs
<1>7. Fence(q, source, file.content, ide.image)
  <2>1. \A x \in Contents : Within(q, x)
    BY <1>1, <1>4, <1>5 DEF RecordEdits, Fence, Within, EditFlying, Contents
  <2>2. QED
    BY <1>1, <1>4, <1>5, <1>6, <2>1 DEF RecordEdits, Fence, EditFlying, Contents
<1>8. Covers(q, accepted, issued)
  <2> SUFFICES ASSUME NEW i \in accepted, issued[i] = "edit"
               PROVE  Has(d, i) \/ \E k \in DOMAIN q.pending : q.pending[k].id = i
    BY <1>5 DEF Covers
  <2>1. CASE Has(c, i)
    BY <1>4, <2>1
  <2>2. CASE ~Has(c, i)
    <3>1. PICK k \in DOMAIN s.pending : s.pending[k].id = i
      BY <1>1, <2>2 DEF RecordEdits, Covers
    <3>2. CASE k = 1
      BY <1>2, <1>4, <3>1, <3>2
    <3>3. CASE k # 1
      <4>1. k - 1 \in DOMAIN q.pending /\ q.pending[k - 1] = s.pending[k]
        <5>1. k \in 2..Len(s.pending) /\ Len(q.pending) = Len(s.pending) - 1
              /\ q.pending \in Seq(Command) /\ Len(s.pending) \in Nat
          BY <1>1, <3>3, TailPlan
        <5>2. k - 1 \in DOMAIN q.pending /\ k - 1 + 1 = k
          BY <5>1
        <5>3. QED
          BY <1>6, <5>2
      <4>2. QED
        BY <3>1, <4>1
    <3>4. QED
      BY <3>2, <3>3
  <2>3. QED
    BY <2>1, <2>2
<1>9. QED
  BY <1>4, <1>5, <1>7, <1>8 DEF RecordEdits

\* A confirmed edit leaves the plan and stays in the source.
LEMMA CommitEdits ==
  ASSUME EInv, IInv', Commit PROVE EInv'
<1>1. pc = "read" /\ pc \in Flying
  BY DEF Commit, Flying
<1>2. /\ s # None /\ s \in SessionRecord /\ s.inflight # None
      /\ call.after = Effect(s.inflight.before, Cmd) /\ s.pending # <<>>
  BY <1>1, FlyingIs, InFlight DEF EInv, IInv, FlightSound
<1>3. ide.run = None
  <2>1. Cmd.op = "compile" => s.inflight.obs # None
    BY <1>1 DEF EInv, IInv, FlightSound
  <2>2. QED
    BY <1>1, <1>2, <2>1 DEF EInv, CompilerSound, Compiles, Cmd
<1>4. /\ receipt' = receipt /\ pc' = "committed"
      /\ UNCHANGED <<file, issued, accepted, source, ide>>
  BY DEF Commit, env, ghosts
<1>5. /\ s' # None /\ s'.inflight = None /\ s'.context = Effect(s.inflight.before, Cmd)
      /\ s'.pending = Tail(s.pending)
  <2> DEFINE t == IF Cmd.op \in Edits /\ call.after # s.inflight.before THEN Changed(s) ELSE s
             done == [t EXCEPT !.context = call.after, !.inflight = None, !.pending = Tail(@)]
  <2>1. t \in SessionRecord /\ t.pending = s.pending
    BY <1>2, ChangedIs DEF SamePlan
  <2> HIDE DEF t
  <2>2. /\ done.context = call.after /\ done.inflight = None /\ done.pending = Tail(s.pending)
        /\ "pendVer" \in DOMAIN done /\ "context" \in DOMAIN done /\ "inflight" \in DOMAIN done
        /\ "pending" \in DOMAIN done
    BY <2>1 DEF SessionRecord
  <2>3. s' = IF Cmd.op = "save"
             THEN [done EXCEPT !.pendVer = s.revision, !.delivery = call.data]
             ELSE done
    BY DEF Commit, t
  <2> HIDE DEF done
  <2>4. s' # None /\ s'.inflight = None
    BY <1>4 DEF IInv, TypeOK, CallSound, Between
  <2>5. QED
    BY <1>2, <2>2, <2>3, <2>4
<1>6. RecordEdits(s')
  BY <1>2, <1>5, Confirmed
<1>7. RecordEdits(s)' /\ RecordEdits(receipt)'
  BY <1>4, <1>6, EditFields DEF RecordEdits
<1>8. CompilerSound' /\ StepSound'
  BY <1>2, <1>3, <1>4 DEF CompilerSound, StepSound
<1>9. QED
  BY <1>4, <1>7, <1>8 DEF EInv, WindowSound, Contents

-----------------------------------------------------------------------------
(* Reconciliation *)

\* A session that may be reconciled has no compiler at work unless its command is a
\* compile.
LEMMA RebindIdle ==
  ASSUME EInv, CanRebind
  PROVE  /\ s # None /\ s \in SessionRecord /\ RecordEdits(s)
         /\ source \in Content /\ Untouched(s, source)
         /\ s.inflight = None \/ Cmd.op # "compile" \/ s.inflight.obs # None => ide.run = None
<1>1. IInv /\ s # None /\ pc \in {"idle", "restored"}
  BY DEF EInv, CanRebind
<1>3. s.inflight = None \/ Cmd.op # "compile" \/ s.inflight.obs # None => ide.run = None
  BY <1>1 DEF EInv, CompilerSound, Compiles, Cmd
<1>4. QED
  BY <1>1, <1>3, RebindIs, EditFields

\* A reconciled session: r, the session with the answer of its command.
LEMMA ReboundEdits ==
  ASSUME EInv, IInv', s # None, ide.run = None,
         NEW r \in SessionRecord, NEW data \in Maybe(DeliveryRecord), Rebound(r, data),
         \A q : q.context = source /\ q.inflight = None /\ q.pending = r.pending => RecordEdits(q)
  PROVE  EInv'
<1>1. source \in Content
  BY EditFields
<1>2. /\ s' \in SessionRecord /\ s'.context = source /\ s'.inflight = None
      /\ s'.pending = r.pending /\ receipt' = Durable(s') /\ pc' = "returning"
      /\ UNCHANGED <<source, file, ide, issued, accepted>>
  BY <1>1, ReboundIs
<1>3. RecordEdits(s') /\ SameEdits(s', receipt')
  BY <1>2, DurableEdits
<1>4. RecordEdits(s') /\ RecordEdits(receipt')
  BY <1>3, SameEditsIs DEF RecordEdits
<1>5. RecordEdits(s)' /\ RecordEdits(receipt)'
  BY <1>2, <1>4 DEF RecordEdits
<1>6. CompilerSound' /\ StepSound'
  BY <1>2 DEF CompilerSound, StepSound
<1>7. QED
  BY <1>2, <1>5, <1>6 DEF EInv, WindowSound, Contents

\* The command in flight turns out to be done: the window shows its effect.
LEMMA CompletedEdits ==
  ASSUME EInv, IInv', CanRebind, s.inflight # None, ide.run = None,
         NEW t \in SessionRecord, SamePlan(s, t), Done(t) \in SessionRecord,
         NEW data \in Maybe(DeliveryRecord), Rebound(Done(t), data),
         source = Effect(s.inflight.before, Cmd)
  PROVE  EInv'
<1>1. s # None /\ s.pending # <<>> /\ t.pending = s.pending
  BY RebindIdle, RebindIs DEF EInv, SamePlan
<1>2. Done(t).pending = Tail(s.pending)
  BY <1>1 DEF Done, SessionRecord
<1>3. \A q : q.context = source /\ q.inflight = None /\ q.pending = Done(t).pending
             => RecordEdits(q)
  BY <1>1, <1>2, Confirmed
<1>4. QED
  BY <1>1, <1>3, ReboundEdits

\* Without a command in flight the source is the one confirmed last, or no
\* command has reached the window yet.
LEMMA RebindCleanEdits ==
  ASSUME EInv, IInv', RebindClean PROVE EInv'
<1>1. /\ CanRebind /\ s.inflight = None /\ Rebound(s, None)
      /\ (s.context = None \/ source = s.context) /\ None \in Maybe(DeliveryRecord)
  BY MaybeIs DEF RebindClean
<1>2. /\ s # None /\ s \in SessionRecord /\ RecordEdits(s) /\ ide.run = None
      /\ source \in Content /\ source # None
  BY <1>1, RebindIdle, Absent
<1>3. /\ \A j : Under(Known(s), j) => Under(source, j)
      /\ \A j : Has(Known(s), j) => Has(source, j)
      /\ UpTo(Known(s), Len(issued)) => UpTo(source, Len(issued))
  <2>1. CASE s.context = None
    <3>1. Commanded(source) = {} /\ Known(s) = <<>>
      BY <1>1, <2>1, RebindIdle DEF Untouched, Known
    <3>2. QED
      BY <1>2, <3>1, EmptyIs DEF Has
  <2>2. CASE s.context # None
    BY <1>1, <2>2 DEF Known
  <2>3. QED
    BY <2>1, <2>2
<1>4. ASSUME NEW q, q.context = source, q.inflight = None, q.pending = s.pending
      PROVE  RecordEdits(q)
  <2>1. Known(q) = source /\ ~EditFlying(q) /\ ~EditFlying(s)
    BY <1>1, <1>2, <1>4 DEF Known, EditFlying
  <2>2. Fence(q, source, file.content, ide.image)
    <3>1. \A x \in Contents : Within(q, x)
      BY <1>2, <1>3, <2>1 DEF RecordEdits, Fence, Within, Contents
    <3>2. QED
      BY <1>2, <1>3, <1>4, <2>1, <3>1 DEF RecordEdits, Fence, Contents
  <2>3. Covers(q, accepted, issued) /\ UpTo(Known(q), Len(issued))
    BY <1>2, <1>3, <1>4, <2>1 DEF RecordEdits, Covers
  <2>4. QED
    BY <2>2, <2>3 DEF RecordEdits
<1>5. QED
  BY <1>1, <1>2, <1>4, ReboundEdits

\* A window that does not show the edit shows no later one, and neither does the
\* file.
LEMMA RebindNotAppliedEdits ==
  ASSUME EInv, IInv', RebindNotApplied PROVE EInv'
<1>1. /\ CanRebind /\ s.inflight # None /\ Cmd.op \in Edits /\ Rebound(s, None)
      /\ source = s.inflight.before /\ source # Effect(s.inflight.before, Cmd)
      /\ None \in Maybe(DeliveryRecord) /\ Cmd = s.inflight.cmd
  BY MaybeIs DEF RebindNotApplied, Cmd
<1>2. /\ s # None /\ s \in SessionRecord /\ RecordEdits(s) /\ ide.run = None
      /\ source \in Content /\ file.content \in Content /\ Known(s) = source /\ source # None
      /\ Sound(s) /\ Queue(s.pending, issued)
  BY <1>1, RebindIdle, RebindIs, EditFields, Absent DEF EInv, Edits
<1>3. /\ EditFlying(s) /\ 1 \in DOMAIN s.pending /\ s.pending[1].id = Cmd.id
      /\ Cmd.id \in Nat /\ Cmd.id # ByHand
  <2>1. s.pending[1] = s.inflight.cmd /\ 1 \in DOMAIN s.pending /\ Cmd.id \in Ids
    BY <1>1, <1>2, HeadFlies
  <2>2. QED
    BY <1>1, <2>1 DEF Effect, EditFlying, Cmd, Ids, ByHand
<1>4. Under(source, Cmd.id) /\ ~Has(file.content, Cmd.id)
  <2>1. Under(source, Cmd.id)
    BY <1>2, <1>3 DEF RecordEdits, Fence
  <2>2. ~Has(source, Cmd.id)
    BY <1>2, <1>3, <2>1, UnderIs
  <2>3. QED
    BY <1>1, <1>2, <1>3, <2>1, <2>2 DEF RecordEdits, Fence
<1>5. \A k \in DOMAIN s.pending : Under(file.content, s.pending[k].id)
  BY <1>2, <1>3, <1>4, UnderIs DEF RecordEdits, Fence
<1>6. ASSUME NEW q, q.context = source, q.inflight = None, q.pending = s.pending
      PROVE  RecordEdits(q)
  <2>1. Known(q) = source /\ ~EditFlying(q)
    BY <1>2, <1>6 DEF Known, EditFlying
  <2>2. Fence(q, source, file.content, ide.image)
    <3>1. ~Has(source, Cmd.id) /\ ~Has(ide.image, Cmd.id)
      BY <1>2, <1>3, <1>4, UnderIs, EditFields DEF RecordEdits, Fence
    <3>2. \A x \in Contents : Within(q, x)
      BY <1>2, <1>3, <1>4, <2>1, <3>1 DEF RecordEdits, Fence, Within, Contents, Cmd
    <3>3. QED
      BY <1>2, <1>5, <1>6, <2>1, <3>2 DEF RecordEdits, Fence, Contents
  <2>3. Covers(q, accepted, issued) /\ UpTo(Known(q), Len(issued))
    BY <1>2, <1>6, <2>1 DEF RecordEdits, Covers
  <2>4. QED
    BY <2>2, <2>3 DEF RecordEdits
<1>7. QED
  BY <1>1, <1>2, <1>6, ReboundEdits

\* An edit the source shows leaves the plan.
LEMMA RebindAppliedEdits ==
  ASSUME EInv, IInv', RebindApplied PROVE EInv'
<1> DEFINE t == IF source # s.inflight.before THEN Changed(s) ELSE s
<1>1. /\ CanRebind /\ s.inflight # None /\ Cmd.op \in Edits /\ Rebound(Done(t), None)
      /\ source = Effect(s.inflight.before, Cmd) /\ None \in Maybe(DeliveryRecord)
  BY MaybeIs DEF RebindApplied
<1>2. IInv /\ s \in SessionRecord /\ ide.run = None
  BY <1>1, RebindIdle DEF EInv, Edits
<1>3. t \in SessionRecord /\ SamePlan(s, t)
  BY <1>2, ChangedIs DEF SamePlan
<1> HIDE DEF t
<1>4. Done(t) \in SessionRecord
  BY <1>1, <1>2, <1>3, DoneIs
<1>5. QED
  BY <1>1, <1>2, <1>3, <1>4, CompletedEdits

\* A compile is answered when the window no longer compiles.
LEMMA AnsweredAfter ==
  ASSUME EInv, Interrupted("compile"), CompileAnswer # None
  PROVE  ide.run = None
<1>1. CanRebind
  BY DEF Interrupted
<1>2. CASE s.inflight.obs # None
  BY <1>1, <1>2, RebindIdle
<1>3. CASE s.inflight.obs = None
  BY <1>3 DEF CompileAnswer
<1>4. QED
  BY <1>2, <1>3

\* A reconciled compile keeps the order of the edits.
LEMMA RebindCompileEdits ==
  ASSUME EInv, IInv', RebindCompile PROVE EInv'
<1> DEFINE r == WithCompile([s EXCEPT !.last = CompileAnswer, !.running = None], CompileAnswer)
           t == AdoptCompileSave(r)
<1>1. /\ Interrupted("compile") /\ CanRebind /\ CompileAnswer # None /\ Acknowledged(s)
      /\ Rebound(Done(t), None) /\ source = s.inflight.before /\ Cmd.op = "compile"
      /\ s.inflight # None /\ None \in Maybe(DeliveryRecord) /\ IInv
  BY MaybeIs DEF RebindCompile, Interrupted, EInv
<1>2. /\ r \in SessionRecord /\ Sound(r) /\ SamePlan(s, r) /\ SameNumbers(s, r)
      /\ r.inflight = s.inflight /\ r.compile.status \in Outcome
  BY <1>1, AnsweredIs
<1>3. /\ r.inflight.cmd.op = "compile" /\ file \in Bytes
      /\ (DiskChanged(r) => file.content = Known(r))
  BY <1>1, <1>2, RebindIs
     DEF Interrupted, Cmd, Acknowledged, DiskChanged, Known, SamePlan, SameNumbers
<1> HIDE DEF r
<1>4. t \in SessionRecord /\ SamePlan(s, t)
  BY <1>1, <1>2, <1>3, AdoptIs DEF SamePlan
<1> HIDE DEF t
<1>5. Done(t) \in SessionRecord /\ ide.run = None
  BY <1>1, <1>4, DoneIs, AnsweredAfter
<1>6. source = Effect(s.inflight.before, Cmd)
  BY <1>1 DEF Effect
<1>7. QED
  BY <1>1, <1>4, <1>5, <1>6, CompletedEdits

\* So does one without a receipt.
LEMMA RebindCompileRefusedEdits ==
  ASSUME EInv, IInv', RebindCompileRefused PROVE EInv'
<1>1. /\ Interrupted("compile") /\ CanRebind /\ CompileAnswer # None /\ s.inflight # None
      /\ s' = WithCompile([s EXCEPT !.last = CompileAnswer, !.running = None], CompileAnswer)
      /\ receipt' = receipt \/ receipt' = Durable(s')
      /\ pc' = "idle" /\ UNCHANGED <<source, ide, file, issued, accepted>>
      /\ IInv
  BY DEF RebindCompileRefused, Interrupted, env, ghosts, EInv
<1>2. s' \in SessionRecord /\ SamePlan(s, s') /\ s'.inflight = s.inflight
  BY <1>1, AnsweredIs
<1>3. s # None /\ s' # None /\ ide.run = None
  BY <1>1, <1>2, RebindIdle, AnsweredAfter, Absent
<1>4. SameEdits(s, s')
  BY <1>2 DEF SamePlan, SameEdits, Known
<1>5. QED
  BY <1>1, <1>3, <1>4, SameStep

\* So does an address query.
LEMMA RebindAssignEdits ==
  ASSUME EInv, IInv', RebindAssign PROVE EInv'
<1> DEFINE answer == [status |-> "passed", rev |-> s.revision, run |-> s.compile.run]
           t == [s EXCEPT !.assigns = answer]
<1>1. /\ CanRebind /\ Rebound(Done(t), None) /\ source = s.inflight.before
      /\ s.inflight # None /\ Cmd.op = "assign" /\ None \in Maybe(DeliveryRecord) /\ IInv
  BY MaybeIs DEF RebindAssign, Interrupted, EInv
<1>2. s \in SessionRecord /\ ide.run = None
  BY <1>1, RebindIdle
<1>3. answer \in QueryResult
  BY <1>2 DEF QueryResult, SessionRecord, CompileResult
<1> HIDE DEF answer
<1>4. t \in SessionRecord /\ SamePlan(s, t)
  BY <1>2, <1>3 DEF SessionRecord, SamePlan
<1> HIDE DEF t
<1>5. Done(t) \in SessionRecord /\ source = Effect(s.inflight.before, Cmd)
  BY <1>1, <1>4, DoneIs DEF Effect
<1>6. QED
  BY <1>1, <1>2, <1>4, <1>5, CompletedEdits

\* So does a Save.
LEMMA RebindSaveEdits ==
  ASSUME EInv, IInv', RebindSave PROVE EInv'
<1> DEFINE t == WithSave(s, file)
           d == Delivery(t, file, s.inflight.op)
<1>1. /\ CanRebind /\ Rebound(Done(t), d) /\ source = s.inflight.before
      /\ s.inflight # None /\ s.inflight.cmd.op = "save" /\ s.inflight.op # 0
      /\ file.content = source /\ Cmd.op = "save" /\ IInv
  BY DEF RebindSave, Interrupted, Cmd, EInv
<1>2. s \in SessionRecord /\ Sound(s) /\ Known(s) = source /\ file \in Bytes /\ ide.run = None
  BY <1>1, RebindIs, RebindIdle
<1>3. t \in SessionRecord /\ SamePlan(s, t) /\ t.revision \in Nat
  BY <1>1, <1>2, SaveIs DEF SessionRecord
<1>4. d \in Maybe(DeliveryRecord)
  <2>1. d \in DeliveryRecord
    BY <1>1, <1>2, <1>3, FlightFields DEF Delivery, DeliveryRecord
  <2>2. QED
    BY <2>1, MaybeIs
<1> HIDE DEF t, d
<1>5. Done(t) \in SessionRecord /\ source = Effect(s.inflight.before, Cmd)
  BY <1>1, <1>3, DoneIs DEF Effect
<1>6. QED
  BY <1>1, <1>2, <1>3, <1>4, <1>5, CompletedEdits

\* So does a reopened file.
LEMMA RebindReopenEdits ==
  ASSUME EInv, IInv', RebindReopen PROVE EInv'
<1> DEFINE t == [s EXCEPT !.seen = file]
<1>1. /\ CanRebind /\ Rebound(Done(t), None) /\ source = s.inflight.before
      /\ s.inflight # None /\ Cmd.op = "reopen" /\ None \in Maybe(DeliveryRecord) /\ IInv
  BY MaybeIs DEF RebindReopen, Interrupted, EInv
<1>2. s \in SessionRecord /\ file \in Bytes /\ ide.run = None
  BY <1>1, RebindIs, RebindIdle
<1>3. t \in SessionRecord /\ SamePlan(s, t)
  BY <1>2 DEF SessionRecord, SamePlan
<1> HIDE DEF t
<1>4. Done(t) \in SessionRecord /\ source = Effect(s.inflight.before, Cmd)
  BY <1>1, <1>3, DoneIs DEF Effect
<1>5. QED
  BY <1>1, <1>2, <1>3, <1>4, CompletedEdits

-----------------------------------------------------------------------------
(* The theorems. *)

\* Before the first call there is no edit.
LEMMA InitEdits == Init => EInv
<1> SUFFICES ASSUME Init PROVE EInv
  OBVIOUS
<1>1. IInv /\ Fresh \in SessionRecord /\ <<>> \in Content /\ Commanded(<<>>) = {}
  BY InitKeeps, FreshIs, WrittenIs
<1>2. /\ s = Fresh /\ receipt = Fresh /\ source = <<>> /\ file.content = <<>>
      /\ ide.run = None /\ ide.image = <<>>
      /\ pc = "idle" /\ accepted = {}
  BY DEF Init, Fresh
<1>3. Fresh.context = None /\ Fresh.inflight = None /\ Fresh.pending = <<>>
  BY DEF Fresh
<1>4. \A j : Under(<<>>, j) /\ UpTo(<<>>, j) /\ Rising(<<>>)
  BY <1>1, EmptyIs
<1>5. RecordEdits(Fresh)
  <2>1. Within(Fresh, <<>>)
    BY DEF Within, Has
  <2>2. QED
    BY <1>2, <1>3, <1>4, <2>1 DEF RecordEdits, Fence, Covers, EditFlying, Known
<1>6. WindowSound
  BY <1>2, <1>4 DEF WindowSound, Contents
<1>7. CompilerSound /\ StepSound
  BY <1>2 DEF CompilerSound, StepSound
<1>8. QED
  BY <1>1, <1>2, <1>5, <1>6, <1>7 DEF EInv

\* Every step keeps the invariant.
LEMMA NextEdits == EInv /\ [Next]_vars => EInv'
<1> SUFFICES ASSUME EInv, [Next]_vars PROVE EInv'
  OBVIOUS
<1>1. IInv'
  BY NextKeeps DEF EInv
<1>2. CASE UNCHANGED vars
  BY <1>1, <1>2 DEF vars, EInv, WindowSound, Contents, RecordEdits, CompilerSound,
     StepSound, Cmd
<1>3. CASE Run \/ Begin \/ NextCommand \/ Prepare
  BY <1>1, <1>3, RunEdits, BeginEdits, NextCommandEdits, PrepareEdits
<1>4. CASE Observe \/ Leave \/ Report \/ Return \/ StayUnconfirmed \/ Fail \/ RequestPause
           \/ Rebase
  BY <1>1, <1>4, QuietEdits
<1>5. CASE StartCompile \/ SendSave \/ Reopen \/ MakeEdit
  BY <1>1, <1>5, ActEdits, MakeEditEdits
<1>6. CASE CompileReturns \/ ReadAddresses \/ NameSave \/ SaveDispatched \/ SaveReturns
           \/ SaveReplyLost \/ ReadEdit \/ ReadCompile \/ ReadAssign \/ ReadSave \/ ReadReopen
           \/ Apply
  BY <1>1, <1>6, NotedEdits
<1>7. CASE Commit
  BY <1>1, <1>7, CommitEdits
<1>8. CASE Rebind
  BY <1>1, <1>8, RebindCleanEdits, RebindAppliedEdits, RebindNotAppliedEdits,
     RebindCompileEdits, RebindCompileRefusedEdits, RebindAssignEdits, RebindSaveEdits,
     RebindReopenEdits DEF Rebind
<1>9. CASE Close \/ Detach \/ Crash \/ Revive \/ Restore
  BY <1>1, <1>9, EndEdits
<1>10. CASE Environment
  BY <1>1, <1>10, WindowEdits
<1>11. QED
  BY <1>2, <1>3, <1>4, <1>5, <1>6, <1>7, <1>8, <1>9, <1>10 DEF Next, Controller

\* The window, the file, the plan and the work under way agree in every reachable
\* state.
THEOREM EditInvariant == Spec => []EInv
<1>1. EInv /\ [Next]_vars => EInv'
  BY NextEdits
<1>2. QED
  BY InitEdits, <1>1, PTL DEF Spec

\* No command takes effect twice or out of order, through every timeout, crash,
\* restart and reconciliation (run, rebind, restore_checkpoint).
THEOREM EditsApplyOnce == Spec => []AppliedOnce
<1>1. EInv => AppliedOnce
  BY DEF EInv, WindowSound, Contents, Rising, AppliedOnce
<1>2. Spec => []EInv
  BY EditInvariant
<1>3. QED
  BY <1>1, <1>2, PTL

\* A session without a command in flight has observed all that was done to the
\* window (run's readback, rebind), and no compile runs there.
THEOREM ActionsObserved == Spec => []ActionObserved
<1>1. EInv => ActionObserved
  <2> SUFFICES ASSUME EInv, s # None, s.inflight = None
               PROVE  /\ ide.run = None
                      /\ \A k \in Commanded(source) : \E l \in DOMAIN Known(s) : Known(s)[l] = source[k]
    BY DEF ActionObserved
  <2>1. ide.run = None
    BY DEF EInv, CompilerSound, Compiles
  <2>2. Within(s, source) /\ source \in Content
    BY EditFields DEF RecordEdits, Fence
  <2>3. \A k \in Commanded(source) : source[k] \in Ids /\ Has(source, source[k])
    BY <2>2, ElementOfSeq DEF Content, Commanded, Has, ByHand
  <2>4. QED
    BY <2>1, <2>2, <2>3 DEF Within, Has, EditFlying
<1>2. Spec => []EInv
  BY EditInvariant
<1>3. QED
  BY <1>1, <1>2, PTL

\* An edit a recovery record has named is in the confirmed source or still
\* planned, in one of them only (checkpoint, run, rebind).
THEOREM CommandsAreKept == Spec => []NoCommandLost
<1>1. EInv => NoCommandLost
  <2> SUFFICES ASSUME EInv, NEW r \in Settled, NEW i \in accepted, issued[i] = "edit"
               PROVE  (i \in {Known(r)[k] : k \in DOMAIN Known(r)})
                        # (i \in {r.pending[k].id : k \in DOMAIN r.pending})
    BY DEF NoCommandLost
  <2>1. /\ r \in SessionRecord /\ RecordEdits(r) /\ Queue(r.pending, issued)
        /\ issued \in Seq(Ops) /\ i \in Nat /\ i # ByHand /\ Known(r) \in Content
    <3>1. r \in SessionRecord /\ RecordEdits(r) /\ Queue(r.pending, issued) /\ issued \in Seq(Ops)
      BY EditFields DEF Settled, Records
    <3>2. i \in Nat /\ i # ByHand
      BY DEF EInv, IInv, TypeOK, Ids, ByHand
    <3>3. QED
      BY <3>1, <3>2, KnownIs
  <2>2. Has(Known(r), i) \/ \E k \in DOMAIN r.pending : r.pending[k].id = i
    BY <2>1 DEF RecordEdits, Covers
  <2>3. ASSUME NEW k \in DOMAIN r.pending, r.pending[k].id = i PROVE ~Has(Known(r), i)
    BY <2>1, <2>3, UnderIs DEF RecordEdits, Fence
  <2>4. (i \in {Known(r)[k] : k \in DOMAIN Known(r)}) <=> Has(Known(r), i)
    BY DEF Has
  <2>5. QED
    BY <2>2, <2>3, <2>4
<1>2. Spec => []EInv
  BY EditInvariant
<1>3. QED
  BY <1>1, <1>2, PTL

=============================================================================
