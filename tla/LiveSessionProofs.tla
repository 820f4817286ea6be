--------------------------- MODULE LiveSessionProofs ---------------------------
(***************************************************************************)
(* A live session for any plan of commands, any window and any crashes:    *)
(* types, what the revision numbers mean, whose results are shown, which   *)
(* bytes are delivered, and that a Save is sent once and not lost.         *)
(*                                                                         *)
(* None of the properties is inductive.  The session in memory and the     *)
(* recovery record on disk are two copies written at different steps, and  *)
(* any of the two may be all that is left.  The invariant therefore says   *)
(* the same of both (RecordSound), how they differ while a command is in   *)
(* flight (CallSound), and what holds at each step of the thread           *)
(* (FlightSound).                                                          *)
(***************************************************************************)
EXTENDS LiveSession, FiniteSetTheorems, SequenceTheorems, TLAPS

\* Where the thread stands: with a command in flight, between two, or nowhere.
Flying == {"dispatched", "applying", "compiling", "saving", "sent", "written", "acted", "read"}
Between == {"begun", "step", "ready", "committed"}
Resting == {"idle", "restored", "returning"}

\* The commands of a plan, in the order of their numbers; h: all commands so far.
Queue(q, h) ==
  \A k \in DOMAIN q :
    /\ q[k].id <= Len(h) /\ q[k].op = h[q[k].id]
    /\ \A l \in DOMAIN q : k < l => q[k].id < q[l].id

\* A command in flight is the head of the plan; what it began with is the source
\* confirmed last.
Shape(r) ==
  r.inflight # None =>
    /\ r.pending # <<>> /\ r.inflight.cmd = Head(r.pending)
    /\ r.context = r.inflight.before
    /\ r.inflight.op # 0 => r.inflight.op = r.inflight.cmd.id /\ r.inflight.cmd.op = "save"
    /\ r.inflight.bytes # None => /\ r.inflight.op # 0
                                  /\ r.inflight.bytes.content = r.inflight.before
    /\ r.inflight.cmd.op = "reopen" => r.saved = r.revision

\* The revision counts the commanded edits of the confirmed source; saved those of
\* the saved bytes, which a Save in flight may have written before it is confirmed.
Counted(r) ==
  /\ r.revision = Written(Known(r))
  /\ r.saved <= r.revision /\ r.verRev <= r.saved
  /\ \/ r.saved = Written(r.seen.content)
     \/ /\ r.inflight # None /\ r.inflight.cmd.op = "save"
        /\ r.seen.content = r.inflight.before

\* A result belongs to the revision it was made for and to the run it names; what
\* it cites is current as long as it is shown.
Results(r) ==
  /\ r.compile.status \in Outcome =>
       /\ r.compile.rev = r.revision /\ r.compile.run \in Ids
       /\ r.last # None => r.compile.run = r.last.run /\ r.compile.status = r.last.outcome
  /\ r.assigns.status = "passed" =>
       r.assigns.rev = r.revision /\ CompileIsCurrent(r) /\ r.assigns.run = r.compile.run
  /\ r.built # None =>
       /\ r.compile.status \in Outcome
       /\ r.built.rev = r.revision /\ r.built.run = r.compile.run
       /\ Written(r.built.data.content) = r.revision
  /\ r.running # None =>
       /\ r.inflight # None /\ r.inflight.cmd.op = "compile" /\ r.inflight.obs = None
       /\ r.compile.status = "running"
  /\ r.inflight # None /\ r.inflight.cmd.op = "assign" => CompileIsCurrent(r)
  /\ r.inflight # None /\ r.inflight.cmd.op = "compile" /\ r.inflight.obs # None =>
       r.last = r.inflight.obs

\* What waits for a version is a revision that was saved, with its bytes.
Delivered(r) ==
  r.delivery # None =>
    /\ Written(r.delivery.data.content) = r.delivery.rev
    /\ r.pendVer = r.delivery.rev /\ r.delivery.rev <= r.saved

\* What a record says of itself; RecordSound adds the commands issued and the window.
Sound(r) == Shape(r) /\ Counted(r) /\ Results(r) /\ Delivered(r)

\* A Save that was sent is behind the plan, or the command in flight is known for
\* it; n: how often each was sent.
Sent(r, n) ==
  \A i \in Ids : n[i] > 0 =>
    \A k \in DOMAIN r.pending :
      i < r.pending[k].id \/ (k = 1 /\ r.inflight # None /\ r.inflight.op = i)

\* As long as a record has read no source, no command has reached the window.
Untouched(r, c) == r.context = None => Commanded(c) = {}

RecordSound(r) ==
  Sound(r) /\ Queue(r.pending, issued) /\ Sent(r, sends) /\ Untouched(r, source)

\* A Save was issued before it was sent, and was sent once.
SendsSound == \A i \in Ids : sends[i] <= 1 /\ (sends[i] > 0 => i <= Len(issued))

\* The thread between two commands has none in flight; with one in flight, the
\* receipt has it too.  What it returns and what it will still do is consistent.
CallSound ==
  /\ pc \in Between => s.inflight = None
  /\ pc \in Flying => s.inflight # None
  /\ s # None /\ s.inflight # None =>
       /\ receipt.inflight # None /\ receipt.inflight.cmd = s.inflight.cmd
       /\ receipt.pending = s.pending /\ receipt.inflight.before = s.inflight.before
       /\ pc \in Resting => s.state = "unconfirmed"
  /\ s # None /\ receipt.delivery # None => s.delivery # None
  /\ pc \in Flying \cup {"ready", "committed"} => call.left > 0
  /\ pc = "ready" => s.pending # <<>>
  /\ call.data # None => Written(call.data.data.content) = call.data.rev
  /\ pc = "begun" =>
       /\ Queue(call.work, issued) /\ (s.pending # <<>> => call.work = s.pending)
       /\ \A i \in Ids : sends[i] > 0 => \A k \in DOMAIN call.work : i < call.work[k].id

\* What holds at each step of a command in flight.
FlightSound ==
  /\ pc = "dispatched" => s.inflight.obs = None /\ s.inflight.op = 0
  /\ pc = "applying" => Cmd.op \in Edits
  /\ pc = "compiling" => Cmd.op = "compile" /\ s.compile.status = "running"
  /\ pc \in {"saving", "sent", "written"} =>
       /\ Cmd.op = "save" /\ s.inflight.op = Cmd.id /\ receipt.inflight.op = Cmd.id
  /\ pc = "saving" => sends[Cmd.id] = 0
  /\ pc \in {"acted", "read"} /\ Cmd.op = "compile" => s.inflight.obs # None
  /\ pc = "acted" /\ Cmd.op = "save" => s.inflight.bytes # None
  /\ pc = "read" => call.after = Effect(s.inflight.before, Cmd)
  /\ pc = "read" /\ Cmd.op = "save" =>
       call.data # None /\ call.data.rev = s.revision /\ s.saved = s.revision

\* The inductive invariant.
IInv ==
  /\ TypeOK
  /\ SendsSound
  /\ RecordSound(receipt)
  /\ s # None => RecordSound(s)
  /\ CallSound
  /\ FlightSound

-----------------------------------------------------------------------------
(* Records and contents *)

\* An optional value is None or a value.
LEMMA MaybeIs ==
  \A S : /\ None \in Maybe(S) /\ \A x \in S : x \in Maybe(S)
         /\ \A x \in Maybe(S) : x # None => x \in S
BY DEF Maybe

\* An absent value is told apart from every value it stands beside.
LEMMA Absent ==
  /\ None \notin Nat /\ None \notin Outcome /\ None \notin Content /\ None \notin Command
  /\ None \notin Bytes /\ None \notin RunRecord /\ None \notin FlightRecord
  /\ None \notin BuildRecord /\ None \notin DeliveryRecord /\ None \notin SessionRecord
  /\ None \notin Ids
BY NoneIsAbsent DEF Ids

\* A source holds finitely many commanded edits, the empty one none.
LEMMA WrittenIs ==
  /\ <<>> \in Content /\ Commanded(<<>>) = {} /\ Written(<<>>) = 0
  /\ \A c \in Content : IsFiniteSet(Commanded(c)) /\ Written(c) \in Nat
<1>1. Commanded(<<>>) = {}
  BY DEF Commanded
<1>2. ASSUME NEW c \in Content PROVE IsFiniteSet(Commanded(c)) /\ Written(c) \in Nat
  <2>1. Commanded(c) \in SUBSET (1..Len(c)) /\ Len(c) \in Nat
    BY DEF Commanded, Content
  <2>2. IsFiniteSet(1..Len(c))
    BY <2>1, FS_Interval
  <2>3. IsFiniteSet(Commanded(c))
    BY <2>1, <2>2, FS_Subset
  <2>4. QED
    BY <2>3, FS_CardinalityType DEF Written
<1>3. <<>> \in Content
  BY DEF Content
<1>4. QED
  BY <1>1, <1>2, <1>3, FS_EmptySet DEF Written

\* A command that edits adds one to the count of commanded edits.
LEMMA WrittenAppend ==
  ASSUME NEW c \in Content, NEW i \in Ids
  PROVE  /\ Append(c, i) \in Content /\ Append(c, i) # c
         /\ Written(Append(c, i)) = Written(c) + 1
         /\ Commanded(Append(c, i)) = Commanded(c) \cup {Len(c) + 1}
<1>1. Append(c, i) \in Content /\ Len(Append(c, i)) = Len(c) + 1 /\ Len(c) \in Nat
  BY DEF Content
<1>2. i # ByHand
  BY DEF Ids, ByHand
<1>3. Commanded(Append(c, i)) = Commanded(c) \cup {Len(c) + 1}
  BY <1>1, <1>2 DEF Commanded, Content
<1>4. Len(c) + 1 \notin Commanded(c)
  BY <1>1 DEF Commanded, Content
<1>5. IsFiniteSet(Commanded(c))
  BY WrittenIs
<1>6. Cardinality(Commanded(c) \cup {Len(c) + 1}) = Cardinality(Commanded(c)) + 1
  BY <1>4, <1>5, FS_AddElement
<1>7. Append(c, i) # c
  BY <1>1
<1>8. QED
  BY <1>1, <1>3, <1>6, <1>7 DEF Written

\* Only an edit changes the source, and counts one more.
LEMMA EffectIs ==
  ASSUME NEW c \in Content, NEW d \in Command
  PROVE  /\ Effect(c, d) \in Content
         /\ d.op = "edit" => Effect(c, d) # c /\ Written(Effect(c, d)) = Written(c) + 1
         /\ d.op # "edit" => Effect(c, d) = c
BY WrittenAppend DEF Effect, Command

\* The confirmed source of a record is a source.
LEMMA KnownIs ==
  ASSUME NEW r \in SessionRecord
  PROVE  Known(r) \in Content /\ (r.context # None => Known(r) = r.context)
BY MaybeIs, WrittenIs DEF Known, SessionRecord

\* A new session is a session.
LEMMA FreshIs ==
  Fresh \in SessionRecord
<1>1. Fresh.context = None /\ NotRun \in CompileResult /\ NotRun \in QueryResult
  BY DEF Fresh, NotRun, CompileResult, QueryResult
<1>2. <<>> \in Seq(Command) /\ <<>> \in Content
  BY WrittenIs
<1>3. /\ [status |-> "not_run", rev |-> 0] \in SaveResult
      /\ [content |-> <<>>, stamp |-> 0] \in Bytes
      /\ [op |-> 0, sent |-> FALSE, returned |-> FALSE] \in SaveProgress
      /\ "ready" \in States
  BY <1>2 DEF SaveResult, Bytes, SaveProgress, States
<1>4. \A S : None \in Maybe(S)
  BY MaybeIs
<1>5. QED
  BY <1>1, <1>2, <1>3, <1>4 DEF Fresh, SessionRecord

\* The first record agrees with an empty window.
LEMMA InitKeeps == Init => IInv
<1> SUFFICES ASSUME Init PROVE IInv
  OBVIOUS
<1>1. TypeOK
  <2>1. /\ NoCall \in CallRecord /\ ide \in IdeRecord
    BY MaybeIs, WrittenIs DEF Init, NoCall, CallRecord, IdeRecord
  <2>2. Fresh.running = None /\ Fresh.seen \in Bytes
    BY FreshIs DEF Fresh, SessionRecord
  <2>3. issued \in Seq(Ops) /\ sends \in [Ids -> Nat] /\ source \in Content
    BY WrittenIs DEF Init
  <2>4. QED
    BY <2>1, <2>2, <2>3, FreshIs, Absent, MaybeIs DEF Init, TypeOK
<1>2. Fresh # None
  BY FreshIs, Absent
<1>3. Fresh.pending = <<>> /\ Fresh.inflight = None /\ Fresh.delivery = None
  BY DEF Fresh
<1>4. Sound(Fresh)
  BY WrittenIs, FreshIs DEF Fresh, Sound, Shape, Counted, Results, Delivered, Known, NotRun, Outcome
<1>5. RecordSound(Fresh)
  BY <1>3, <1>4, WrittenIs DEF Init, RecordSound, Queue, Sent, Untouched
<1>6. SendsSound /\ CallSound /\ FlightSound
  BY <1>2, <1>3 DEF Init, SendsSound, CallSound, FlightSound, NoCall, Between, Flying
<1>7. QED
  BY <1>1, <1>5, <1>6 DEF Init, IInv

-----------------------------------------------------------------------------
(* Steps that copy a record *)

\* q says of the engineering state what r says.
Copy(r, q) ==
  /\ q.context = r.context /\ q.pending = r.pending /\ q.inflight = r.inflight
  /\ q.revision = r.revision /\ q.saved = r.saved /\ q.verRev = r.verRev
  /\ q.pendVer = r.pendVer /\ q.compile = r.compile /\ q.assigns = r.assigns
  /\ q.built = r.built /\ q.delivery = r.delivery /\ q.seen = r.seen
  /\ q.last = r.last /\ q.running \in {r.running, None}

\* A copy of a record, but for its state and running compile, is as sound as the
\* record.
LEMMA CopySound ==
  ASSUME NEW r, NEW q, Copy(r, q), Sound(r)
  PROVE  Sound(q)
<1>1. Known(q) = Known(r) /\ CompileIsCurrent(q) = CompileIsCurrent(r)
  BY DEF Copy, Known, CompileIsCurrent
<1>2. Shape(q) /\ Counted(q) /\ Delivered(q)
  BY <1>1 DEF Copy, Sound, Shape, Counted, Delivered
<1>3. Results(q)
  BY <1>1 DEF Copy, Sound, Results
<1>4. QED
  BY <1>2, <1>3 DEF Sound

\* The same of the Saves sent and of a window not touched.
LEMMA CopyRest ==
  ASSUME NEW r, NEW q, Copy(r, q), NEW n, NEW c
  PROVE  /\ Sent(r, n) => Sent(q, n)
         /\ Untouched(r, c) => Untouched(q, c)
BY DEF Copy, Sent, Untouched

\* A copy is sound with respect to the window and the commands issued.
LEMMA CopyRecordSound ==
  ASSUME NEW r, NEW q, Copy(r, q), RecordSound(r)
  PROVE  RecordSound(q)
BY CopySound, CopyRest DEF RecordSound, Copy

\* What is written to disk is a copy of the session without its running compile.
LEMMA DurableIs ==
  ASSUME NEW r \in SessionRecord
  PROVE  /\ Durable(r) \in SessionRecord /\ Durable(r).running = None /\ Copy(r, Durable(r))
         /\ Durable(r).state = r.state /\ Durable(r).closed = r.closed
<1>1. None \in Maybe(Ids)
  BY MaybeIs
<1>2. QED
  BY <1>1 DEF Durable, SessionRecord, Copy

\* What the invariant knows of the variables' fields.
LEMMA Fields ==
  ASSUME IInv
  PROVE  /\ s # None => s \in SessionRecord /\ RecordSound(s)
         /\ receipt \in SessionRecord /\ RecordSound(receipt) /\ receipt # None
         /\ ide \in IdeRecord /\ call \in CallRecord
         /\ pc # "idle" => s # None
BY MaybeIs, Absent DEF IInv, TypeOK

\* The types of what is in flight.
LEMMA FlightFields ==
  ASSUME NEW r \in SessionRecord, r.inflight # None
  PROVE  /\ r.inflight \in FlightRecord /\ r.inflight.cmd \in Command
         /\ r.inflight.cmd.id \in Ids /\ r.inflight.cmd.op \in Ops
         /\ r.inflight.before \in Content
         /\ r.inflight.obs # None => r.inflight.obs \in RunRecord
         /\ r.inflight.bytes # None => r.inflight.bytes \in Bytes
         /\ r.inflight.op \in Ids \cup {0}
<1>1. r.inflight \in FlightRecord
  BY MaybeIs DEF SessionRecord
<1>2. QED
  BY <1>1, MaybeIs DEF FlightRecord, Command

\* The record of the session and its receipt, when the first is a copy of what it
\* was and the second the same or a copy of it.
LEMMA CopyKeeps ==
  ASSUME IInv, s # None, s' \in SessionRecord, Copy(s, s'),
         receipt' = receipt \/ receipt' = Durable(s'),
         issued' = issued, sends' = sends, source' = source
  PROVE  /\ RecordSound(receipt)' /\ RecordSound(s)'
         /\ receipt' \in SessionRecord /\ receipt'.running = None
<1>1. s \in SessionRecord /\ RecordSound(s) /\ receipt \in SessionRecord /\ RecordSound(receipt)
      /\ receipt.running = None
  BY Fields DEF IInv, TypeOK
<1>2. RecordSound(s)'
  <2>1. Sound(s') /\ Sent(s', sends) /\ Queue(s'.pending, issued)
    BY <1>1, CopySound, CopyRest DEF RecordSound, Copy
  <2>2. Untouched(s', source')
    BY <1>1 DEF RecordSound, Untouched, Copy
  <2>3. QED
    BY <2>1, <2>2 DEF RecordSound
<1>3. CASE receipt' = receipt
  BY <1>1, <1>2, <1>3 DEF RecordSound, Untouched
<1>4. CASE receipt' = Durable(s')
  <2>1. receipt' \in SessionRecord /\ receipt'.running = None /\ Copy(s', receipt')
    BY <1>4, DurableIs
  <2>2. Sound(receipt') /\ Sent(receipt', sends') /\ Queue(receipt'.pending, issued')
        /\ Untouched(receipt', source')
    BY <1>2, <2>1, CopySound, CopyRest DEF RecordSound, Copy
  <2>3. QED
    BY <1>2, <2>1, <2>2 DEF RecordSound
<1>5. QED
  BY <1>2, <1>3, <1>4

\* A call begins with the plan it is given, or with the one that was left.
LEMMA RunKeeps ==
  ASSUME IInv, Run PROVE IInv'
<1>0. PICK n \in 0..MaxWork : \E ops \in [1..n -> Ops], limit \in 1..MaxWork : RunWith(ops, limit)
  BY DEF Run
<1>1. PICK ops \in [1..n -> Ops], limit \in 1..MaxWork : RunWith(ops, limit)
  BY <1>0
<1>2. s \in SessionRecord /\ RecordSound(s) /\ s.inflight = None /\ issued \in Seq(Ops)
  <2>1. s \in SessionRecord /\ RecordSound(s) /\ issued \in Seq(Ops)
    BY <1>1, Fields DEF RunWith, IInv, TypeOK
  <2>2. QED
    BY <1>1, <2>1 DEF RunWith, IInv, CallSound, Resting
<1>3. ops \in Seq(Ops) /\ Len(ops) = n /\ n \in Nat /\ limit \in Nat
  BY <1>1, LiveConstants
<1>4. s' \in SessionRecord /\ Copy(s, s')
  BY <1>1, <1>2 DEF RunWith, SessionRecord, States, Copy
<1>5. /\ issued' \in Seq(Ops) /\ Len(issued') = Len(issued) + Len(ops)
      /\ \A i \in 1..Len(issued) : issued'[i] = issued[i]
      /\ \A i \in 1..Len(ops) : issued'[Len(issued) + i] = ops[i]
  <2>1. issued' = issued \o ops /\ Len(issued) \in Nat
    BY <1>1, <1>2 DEF RunWith
  <2>2. \A i \in 1..Len(ops) : Len(issued) + i \in 1..(Len(issued) + Len(ops)) /\ Len(issued) + i > Len(issued)
    BY <2>1, <1>3
  <2>3. /\ issued \o ops \in Seq(Ops) /\ Len(issued \o ops) = Len(issued) + Len(ops)
        /\ \A i \in 1..Len(issued) + Len(ops) :
             (issued \o ops)[i] = IF i <= Len(issued) THEN issued[i] ELSE ops[i - Len(issued)]
    BY <1>2, <1>3, ConcatProperties
  <2>4. \A i \in 1..Len(issued) : (issued \o ops)[i] = issued[i]
    BY <2>1, <2>3, <1>3
  <2>5. \A i \in 1..Len(ops) : (issued \o ops)[Len(issued) + i] = ops[i]
    BY <2>1, <2>2, <2>3, <1>3
  <2>6. QED
    BY <2>1, <2>3, <2>4, <2>5
<1>6. Len(issued) \in Nat /\ Len(issued') <= MaxCommands
  BY <1>1, <1>2, <1>5 DEF RunWith
<1>7. \A q \in Seq(Command) : Queue(q, issued) => Queue(q, issued')
  <2> TAKE q \in Seq(Command)
  <2>1. \A k \in DOMAIN q : q[k].id \in Nat /\ q[k].id >= 1
    <3>1. \A k \in DOMAIN q : q[k] \in Command
      BY ElementOfSeq
    <3>2. QED
      BY <3>1 DEF Command, Ids
  <2>2. QED
    BY <2>1, <1>5, <1>6 DEF Queue
<1>8. /\ Commands(ops) \in Seq(Command) /\ Queue(Commands(ops), issued')
      /\ \A k \in DOMAIN Commands(ops) : Commands(ops)[k].id > Len(issued)
  <2>1. DOMAIN Commands(ops) = 1..n
    BY <1>1 DEF Commands
  <2>2. \A k \in 1..n : /\ Commands(ops)[k] \in Command
                        /\ Commands(ops)[k].id = Len(issued) + k /\ Commands(ops)[k].op = ops[k]
    <3> TAKE k \in 1..n
    <3>1. Commands(ops)[k] = [id |-> Len(issued) + k, op |-> ops[k]] /\ ops[k] \in Ops
      BY <2>1 DEF Commands
    <3>2. Len(issued) + k \in Ids
      BY <1>3, <1>5, <1>6, LiveConstants DEF Ids
    <3>3. QED
      BY <3>1, <3>2 DEF Command
  <2>3. Commands(ops) \in [1..n -> Command]
    BY <2>1, <2>2 DEF Commands
  <2>4. Commands(ops) \in Seq(Command)
    BY <2>3, <1>3
  <2>5. QED
    BY <2>1, <2>2, <2>4, <1>3, <1>5, <1>6 DEF Queue
<1>9. s.pending \in Seq(Command)
  BY <1>2 DEF SessionRecord
<1>10. call'.work \in Seq(Command) /\ Queue(call'.work, issued')
       /\ (s.pending # <<>> => call'.work = s.pending)
       /\ call' \in CallRecord /\ call'.data = None
  <2>1. NoCall \in CallRecord
    BY MaybeIs, WrittenIs DEF NoCall, CallRecord
  <2>2. call' = [NoCall EXCEPT !.left = limit,
                               !.work = IF s.pending # <<>> THEN s.pending ELSE Commands(ops)]
    BY <1>1 DEF RunWith
  <2>3. Queue(s.pending, issued')
    BY <1>2, <1>7, <1>9 DEF RecordSound
  <2>4. QED
    BY <2>1, <2>2, <2>3, <1>3, <1>8, <1>9 DEF NoCall, CallRecord
<1>11. \A i \in Ids : sends[i] > 0 => \A k \in DOMAIN call'.work : i < call'.work[k].id
  <2> SUFFICES ASSUME NEW i \in Ids, sends[i] > 0, NEW k \in DOMAIN call'.work
               PROVE i < call'.work[k].id
    OBVIOUS
  <2>1. i <= Len(issued) /\ i \in Nat
    BY DEF IInv, SendsSound, Ids
  <2>2. CASE s.pending # <<>>
    <3>1. call'.work = s.pending
      BY <1>10, <2>2
    <3>2. QED
      BY <3>1, <1>2 DEF RecordSound, Sent
  <2>3. CASE s.pending = <<>>
    <3>1. call'.work = Commands(ops)
      BY <1>1, <2>3 DEF RunWith, NoCall
    <3>2. Commands(ops)[k] \in Command /\ Commands(ops)[k].id > Len(issued)
      BY <3>1, <1>8
    <3>3. QED
      BY <3>1, <3>2, <2>1, <1>6 DEF Command, Ids
  <2>4. QED
    BY <2>2, <2>3
<1>12. TypeOK'
  <2>1. s' \in Maybe(SessionRecord) /\ s' # None
    BY <1>4, MaybeIs, Absent
  <2>2. UNCHANGED <<receipt, source, file, ide, accepted, sends>> /\ pc' = "begun"
    BY <1>1 DEF RunWith, env
  <2>3. QED
    BY <2>1, <2>2, <1>5, <1>10 DEF TypeOK, IInv, Working
<1>13. RecordSound(receipt)' /\ RecordSound(s)'
  <2>1. UNCHANGED <<receipt, source, ide, sends>>
    BY <1>1 DEF RunWith, env
  <2>2. Queue(receipt.pending, issued') /\ Queue(s.pending, issued')
    BY <1>2, <1>7, <1>9, Fields DEF RecordSound, SessionRecord
  <2>3. RecordSound(receipt)'
    BY <2>1, <2>2, Fields DEF RecordSound
  <2>4. Sound(s') /\ Sent(s', sends) /\ Untouched(s', source) /\ s'.pending = s.pending
    BY <1>2, <1>4, CopySound, CopyRest DEF RecordSound, Copy
  <2>5. QED
    BY <2>1, <2>2, <2>3, <2>4 DEF RecordSound
<1>14. SendsSound' /\ CallSound' /\ FlightSound'
  <2>1. /\ pc' = "begun" /\ receipt' = receipt /\ sends' = sends
        /\ s'.inflight = None /\ s'.delivery = s.delivery /\ s'.pending = s.pending /\ s # None
    BY <1>1, <1>2, <1>4 DEF RunWith, Copy
  <2>2. SendsSound'
    BY <2>1, <1>5, <1>6, <1>3 DEF SendsSound, IInv, Ids
  <2>3. CallSound'
    BY <2>1, <1>10, <1>11 DEF CallSound, Flying, Resting, IInv
  <2>4. FlightSound'
    BY <2>1 DEF FlightSound
  <2>5. QED
    BY <2>2, <2>3, <2>4
<1>15. QED
  BY <1>12, <1>13, <1>14 DEF IInv

\* The thread without a call.
LEMMA NoCallIs == NoCall \in CallRecord /\ NoCall.data = None /\ NoCall.left = 0
BY MaybeIs, WrittenIs DEF NoCall, CallRecord

\* A step of the thread outside a flight that leaves window and history alone keeps
\* the types.
LEMMA QuietType ==
  ASSUME IInv, s' \in SessionRecord, receipt' \in SessionRecord, receipt'.running = None,
         call' \in CallRecord, pc' \in Working \cup {"idle", "restored", "step", "returning"},
         accepted' \subseteq Ids, UNCHANGED <<env, issued, sends>>
  PROVE  TypeOK' /\ SendsSound' /\ s' # None
<1>1. s' \in Maybe(SessionRecord) /\ s' # None
  BY MaybeIs, Absent
<1>2. QED
  BY <1>1 DEF IInv, TypeOK, SendsSound, env

\* A step of the thread between two commands or at rest that leaves the window
\* alone and copies the record.
LEMMA QuietStep ==
  ASSUME IInv, s # None, s' \in SessionRecord, Copy(s, s'),
         receipt' = receipt \/ receipt' = Durable(s'),
         call' \in CallRecord, call'.data \in {None, call.data},
         pc' \in Resting \cup {"step", "ready", "committed"},
         accepted' \subseteq Ids, UNCHANGED <<env, issued, sends>>,
         pc' \in Between => s.inflight = None,
         s.inflight # None /\ pc' \in Resting => s'.state = "unconfirmed",
         pc' \in {"ready", "committed"} => call'.left > 0,
         pc' = "ready" => s.pending # <<>>
  PROVE  IInv'
<1>1. source' = source /\ ide' = ide
  BY DEF env
<1>2. /\ RecordSound(receipt)' /\ RecordSound(s)'
      /\ receipt' \in SessionRecord /\ receipt'.running = None
  BY <1>1, CopyKeeps
<1>3. TypeOK' /\ SendsSound' /\ s' # None
  BY <1>2, QuietType DEF Resting, Working
<1>4. Copy(s', Durable(s'))
  BY DurableIs
<1>5. CallSound'
  <2>1. s'.inflight = s.inflight /\ s'.delivery = s.delivery /\ s'.pending = s.pending
    BY DEF Copy
  <2>2. s'.inflight # None =>
          /\ receipt'.inflight # None /\ receipt'.inflight.cmd = s'.inflight.cmd
          /\ receipt'.pending = s'.pending /\ receipt'.inflight.before = s'.inflight.before
    BY <1>4, <2>1 DEF IInv, CallSound, Copy
  <2>3. receipt'.delivery # None => s'.delivery # None
    BY <1>4, <2>1 DEF IInv, CallSound, Copy
  <2>4. call'.data # None => Written(call'.data.data.content) = call'.data.rev
    BY DEF IInv, CallSound
  <2>5. QED
    BY <1>3, <2>1, <2>2, <2>3, <2>4 DEF CallSound, Between, Flying, Resting
<1>6. FlightSound'
  BY DEF FlightSound, Resting
<1>7. QED
  BY <1>2, <1>3, <1>5, <1>6 DEF IInv

\* The steps between two commands and the ends of a call keep the invariant.
LEMMA ThreadQuietKeeps ==
  ASSUME IInv, NextCommand \/ Leave \/ Report \/ Fail \/ Return \/ StayUnconfirmed
  PROVE  IInv'
<1>1. /\ s # None /\ s \in SessionRecord /\ call \in CallRecord /\ accepted \subseteq Ids
      /\ pc # "idle"
  BY Fields DEF NextCommand, Leave, Report, Fail, Return, StayUnconfirmed, Working, IInv, TypeOK
<1>2. CallSound
  BY DEF IInv
<1>3. Copy(s, s)
  BY DEF Copy
<1>4. CASE NextCommand
  <2>1. accepted' \subseteq Ids
    <3>1. \A i \in DOMAIN s.pending : s.pending[i] \in Command
      BY <1>1, ElementOfSeq DEF SessionRecord
    <3>2. QED
      BY <1>1, <1>4, <3>1 DEF NextCommand, Command
  <2>2. QED
    BY <1>1, <1>2, <1>3, <1>4, <2>1, QuietStep DEF NextCommand, CallSound, Between, Resting, ghosts
<1>5. CASE Leave
  <2>1. s' \in SessionRecord /\ Copy(s, s')
    BY <1>1, <1>5 DEF Leave, SessionRecord, States, Copy
  <2>2. QED
    BY <1>1, <1>2, <1>5, <2>1, QuietStep DEF Leave, CallSound, Between, Resting, ghosts
<1>6. CASE Report
  <2>1. call' \in CallRecord /\ call'.data = call.data
    BY <1>1, <1>2, <1>6 DEF Report, CallSound, CallRecord
  <2>2. QED
    BY <1>1, <1>2, <1>3, <1>6, <2>1, QuietStep DEF Report, CallSound, Between, Resting, ghosts
<1>7. CASE Fail
  <2>1. s' \in SessionRecord /\ Copy(s, s') /\ (s.inflight # None => s'.state = "unconfirmed")
    BY <1>1, <1>7 DEF Fail, Failed, SessionRecord, States, Copy
  <2>2. QED
    BY <1>1, <1>7, <2>1, NoCallIs, QuietStep DEF Fail, Between, Resting, ghosts
<1>8. CASE Return
  <2>1. QED
    BY <1>1, <1>2, <1>3, <1>8, NoCallIs, QuietStep DEF Return, CallSound, Between, Resting, ghosts
<1>9. CASE StayUnconfirmed
  <2>1. QED
    BY <1>1, <1>2, <1>3, <1>9, QuietStep DEF StayUnconfirmed, CallSound, Between, Resting, ghosts
<1>10. QED
  BY <1>4, <1>5, <1>6, <1>7, <1>8, <1>9

\* A request to pause may come at every step.
LEMMA PauseKeeps ==
  ASSUME IInv, RequestPause PROVE IInv'
<1>1. s # None /\ s \in SessionRecord
  BY Fields DEF RequestPause
<1>2. s' \in SessionRecord /\ Copy(s, s') /\ s'.state = s.state
  BY <1>1 DEF RequestPause, SessionRecord, Copy
<1>3. /\ receipt' = receipt /\ source' = source /\ ide' = ide /\ file' = file /\ pc' = pc /\ call' = call
      /\ issued' = issued /\ accepted' = accepted /\ sends' = sends
  BY DEF RequestPause, env, ghosts
<1>4. RecordSound(receipt)' /\ RecordSound(s)'
  BY <1>1, <1>2, <1>3, CopyKeeps
<1>5. TypeOK' /\ SendsSound' /\ s' # None
  BY <1>2, <1>3, QuietType DEF IInv, TypeOK, env
<1>6. s'.inflight = s.inflight /\ s'.delivery = s.delivery /\ s'.pending = s.pending
      /\ s'.compile = s.compile /\ s'.revision = s.revision /\ s'.saved = s.saved
  BY <1>2 DEF Copy
<1>7. CallSound' /\ FlightSound'
  BY <1>1, <1>2, <1>3, <1>5, <1>6 DEF IInv, CallSound, FlightSound, Cmd
<1>8. QED
  BY <1>4, <1>5, <1>7 DEF IInv

-----------------------------------------------------------------------------
(* The session leaves memory, or comes back *)

\* Without a session in memory the receipt alone speaks.
LEMMA GoneKeeps ==
  ASSUME IInv, s' = None, pc' = "idle", call' \in CallRecord, call'.data \in {None, call.data},
         receipt' \in SessionRecord, receipt'.running = None, RecordSound(receipt'),
         UNCHANGED <<env, issued, accepted, sends>>
  PROVE  IInv'
<1>1. TypeOK'
  BY MaybeIs DEF IInv, TypeOK, env
<1>2. RecordSound(receipt)'
  BY DEF RecordSound, Untouched, env
<1>3. SendsSound' /\ CallSound' /\ FlightSound'
  BY DEF IInv, SendsSound, CallSound, FlightSound, Between, Flying, Resting
<1>4. QED
  BY <1>1, <1>2, <1>3 DEF IInv

\* Closing, detaching, a crash and a new process keep the invariant.
LEMMA EndKeeps ==
  ASSUME IInv, Close \/ Detach \/ Crash \/ Revive
  PROVE  IInv'
<1>1. /\ receipt \in SessionRecord /\ RecordSound(receipt) /\ receipt.running = None
      /\ ide \in IdeRecord /\ call \in CallRecord /\ (s = None => pc = "idle")
      /\ s # None => s \in SessionRecord /\ RecordSound(s)
  BY Fields DEF IInv, TypeOK
<1>2. CASE Close
  <2> DEFINE ended == [s EXCEPT !.closed = TRUE, !.state = "ended"]
  <2>1. s # None
    BY <1>2 DEF Close
  <2>2. ended \in SessionRecord /\ Copy(s, ended)
    BY <1>1, <2>1 DEF SessionRecord, States, Copy
  <2>3. receipt' \in SessionRecord /\ receipt'.running = None /\ RecordSound(receipt')
    BY <1>1, <1>2, <2>1, <2>2, DurableIs, CopyRecordSound DEF Close
  <2>4. QED
    BY <1>1, <1>2, <2>3, GoneKeeps DEF Close, env, ghosts
<1>3. CASE Detach
  <2>1. receipt' \in SessionRecord /\ receipt'.running = None /\ RecordSound(receipt')
    BY <1>1, <1>3, DurableIs, CopyRecordSound DEF Detach
  <2>2. QED
    BY <1>1, <1>3, <2>1, GoneKeeps DEF Detach, env, ghosts
<1>4. CASE Crash
  BY <1>1, <1>4, NoCallIs, GoneKeeps DEF Crash, env
<1>5. CASE Revive
  <2>1. receipt' \in SessionRecord /\ Copy(receipt, receipt')
    BY <1>1, <1>5 DEF Revive, SessionRecord, States, Copy
  <2>2. receipt'.running = None /\ RecordSound(receipt')
    BY <1>1, <2>1, CopyRecordSound DEF Copy
  <2>3. QED
    BY <1>1, <1>5, <2>1, <2>2, GoneKeeps DEF Revive, env, ghosts
<1>6. QED
  BY <1>2, <1>3, <1>4, <1>5

\* The session a new process reads from the receipt is as sound as the receipt.
LEMMA RestoreKeeps ==
  ASSUME IInv, Restore PROVE IInv'
<1>1. receipt \in SessionRecord /\ RecordSound(receipt) /\ s = None
  BY Fields DEF Restore
<1>2. /\ s' \in SessionRecord /\ Copy(receipt, s')
      /\ s'.inflight # None => s'.state = "unconfirmed"
  BY <1>1 DEF Restore, SessionRecord, States, Copy
<1>3. /\ receipt' = receipt /\ pc' = "restored" /\ call' = call
      /\ UNCHANGED <<env, issued, accepted, sends>>
  BY DEF Restore, ghosts
<1>4. TypeOK' /\ SendsSound' /\ s' # None
  BY <1>2, <1>3, QuietType DEF IInv, TypeOK
<1>5. RecordSound(s') /\ RecordSound(receipt)
  BY <1>1, <1>2, CopyRecordSound
<1>6. RecordSound(receipt)' /\ RecordSound(s)'
  BY <1>3, <1>5 DEF RecordSound, env
<1>7. CallSound' /\ FlightSound'
  BY <1>2, <1>3 DEF CallSound, FlightSound, Copy, IInv, Between, Flying, Resting
<1>8. QED
  BY <1>4, <1>6, <1>7 DEF IInv

-----------------------------------------------------------------------------
(* GX Works2 and its user *)

\* A step of the window leaves the records alone.
LEMMA WindowStep ==
  ASSUME IInv, UNCHANGED <<s, receipt, pc, call, issued, accepted, sends>>,
         source' \in Content, file' \in Bytes, ide' \in IdeRecord,
         Commanded(source) = {} => Commanded(source') = {}
  PROVE  IInv'
<1>1. TypeOK' /\ SendsSound'
  BY DEF IInv, TypeOK, SendsSound
<1>2. RecordSound(receipt)' /\ (s' # None => RecordSound(s)')
  BY DEF IInv, RecordSound, Untouched
<1>3. CallSound' /\ FlightSound'
  BY DEF IInv, CallSound, FlightSound, Cmd
<1>4. QED
  BY <1>1, <1>2, <1>3 DEF IInv

\* What the window and the user do on their own keeps the invariant.
LEMMA WindowKeeps ==
  ASSUME IInv, Environment PROVE IInv'
<1>1. /\ source \in Content /\ file \in Bytes /\ ide \in IdeRecord
      /\ ide.image \in Content /\ file.stamp \in Nat
      /\ ide.run \in Maybe(Ids) /\ ide.writes \in 0..2
  BY DEF IInv, TypeOK, IdeRecord, Bytes
<1>3. CASE IdeCompiles
  <2>1. PICK outcome \in {"passed", "failed"}, writes \in BOOLEAN :
          /\ ide' = [ide EXCEPT !.run = None, !.build = ide.run, !.output = outcome]
          /\ file' = IF writes THEN [content |-> source, stamp |-> file.stamp + 1] ELSE file
    BY <1>3 DEF IdeCompiles
  <2>2. ide.run \in Nat /\ outcome \in Maybe(Outcome)
    <3>1. ide.run \in Ids
      BY <1>1, <1>3, MaybeIs DEF IdeCompiles
    <3>2. QED
      BY <3>1, MaybeIs DEF Outcome, Ids
  <2>3. ide' \in IdeRecord
    BY <1>1, <2>1, <2>2, MaybeIs DEF IdeRecord
  <2>4. file' \in Bytes
    BY <1>1, <2>1 DEF Bytes
  <2>5. QED
    BY <1>1, <1>3, <2>3, <2>4, WindowStep DEF IdeCompiles, ghosts
<1>4. CASE IdeSaves
  <2>1. ide' \in IdeRecord
    BY <1>1, <1>4 DEF IdeSaves, IdeRecord
  <2>2. file' \in Bytes
    BY <1>1, <1>4 DEF IdeSaves, Bytes
  <2>3. QED
    BY <1>1, <1>4, <2>1, <2>2, WindowStep DEF IdeSaves, ghosts
<1>5. CASE UserEdits
  <2>1. source' \in Content /\ Commanded(source') = Commanded(source)
    BY <1>1, <1>5 DEF UserEdits, Content, Commanded
  <2>2. QED
    BY <1>1, <1>5, <2>1, WindowStep DEF UserEdits
<1>6. CASE UserSaves
  <2>1. file' \in Bytes
    BY <1>1, <1>6 DEF UserSaves, Bytes
  <2>2. QED
    BY <1>1, <1>6, <2>1, WindowStep DEF UserSaves
<1>7. QED
  BY <1>3, <1>4, <1>5, <1>6 DEF Environment

-----------------------------------------------------------------------------
(* The steps of one command *)

SamePlan(r, q) == q.context = r.context /\ q.pending = r.pending
SameNumbers(r, q) ==
  q.revision = r.revision /\ q.saved = r.saved /\ q.verRev = r.verRev /\ q.seen = r.seen
SameResults(r, q) == q.compile = r.compile /\ q.assigns = r.assigns /\ q.built = r.built
SameDelivery(r, q) == q.delivery = r.delivery /\ q.pendVer = r.pendVer

\* While a command is in flight both records have read a source and name it.
LEMMA InFlight ==
  ASSUME IInv, s # None, s.inflight # None
  PROVE  /\ s \in SessionRecord /\ s.inflight \in FlightRecord /\ Cmd \in Command
         /\ s.inflight.before \in Content /\ s.context = s.inflight.before /\ s.context # None
         /\ Known(s) = s.inflight.before
         /\ s.pending # <<>> /\ Cmd = Head(s.pending) /\ s.pending \in Seq(Command)
         /\ receipt.inflight # None /\ receipt.inflight.cmd = Cmd /\ receipt.pending = s.pending
         /\ receipt.inflight.before = s.inflight.before /\ receipt.context # None
         /\ Sound(s) /\ Queue(s.pending, issued) /\ Sent(s, sends)
<1>1. s \in SessionRecord /\ RecordSound(s) /\ receipt \in SessionRecord /\ RecordSound(receipt)
  BY Fields
<1>2. s.inflight \in FlightRecord /\ Cmd \in Command /\ s.inflight.before \in Content
  BY <1>1, FlightFields DEF Cmd
<1>3. s.context = s.inflight.before /\ s.pending # <<>> /\ Cmd = Head(s.pending)
  BY <1>1 DEF RecordSound, Sound, Shape, Cmd
<1>4. receipt.inflight # None /\ receipt.inflight.cmd = Cmd /\ receipt.pending = s.pending
      /\ receipt.inflight.before = s.inflight.before
  BY DEF IInv, CallSound, Cmd
<1>5. receipt.context = s.inflight.before
  BY <1>1, <1>4 DEF RecordSound, Sound, Shape
<1>6. s.context # None /\ receipt.context # None
  BY <1>2, <1>3, <1>5, Absent
<1>7. QED
  BY <1>1, <1>2, <1>3, <1>4, <1>5, <1>6, KnownIs DEF RecordSound, SessionRecord

\* A step of the thread that sends no Save.
LEMMA ThreadStep ==
  ASSUME IInv, s # None, s' \in SessionRecord, Sound(s'),
         Queue(s'.pending, issued), Sent(s', sends), s'.context = None => s.context = None,
         receipt' = receipt \/ receipt' = Durable(s'),
         UNCHANGED <<file, issued, accepted, sends>>,
         call' \in CallRecord, pc' \in Working \cup {"idle", "restored", "step", "returning"},
         source' \in Content, ide' \in IdeRecord,
         source' = source \/ (receipt.context # None /\ s.context # None),
         CallSound', FlightSound'
  PROVE  IInv'
<1>1. /\ receipt \in SessionRecord /\ RecordSound(receipt) /\ receipt.running = None
      /\ s \in SessionRecord /\ RecordSound(s)
  BY Fields DEF IInv, TypeOK
<1>2. /\ Durable(s') \in SessionRecord /\ Durable(s').running = None /\ Copy(s', Durable(s'))
  BY DurableIs
<1>3. TypeOK' /\ SendsSound'
  <2>1. s' \in Maybe(SessionRecord) /\ s' # None
    BY MaybeIs, Absent
  <2>2. receipt' \in SessionRecord /\ receipt'.running = None
    BY <1>1, <1>2
  <2>3. QED
    BY <2>1, <2>2 DEF IInv, TypeOK, SendsSound
<1>4. Untouched(s', source')
  BY <1>1 DEF RecordSound, Untouched
<1>5. RecordSound(s)'
  BY <1>4 DEF RecordSound
<1>6. RecordSound(receipt)'
  <2>1. CASE receipt' = receipt
    BY <1>1, <2>1 DEF RecordSound, Untouched
  <2>2. CASE receipt' = Durable(s')
    <3>1. Sound(receipt') /\ Sent(receipt', sends) /\ Untouched(receipt', source')
          /\ receipt'.pending = s'.pending
      BY <1>2, <1>4, <2>2, CopySound, CopyRest DEF Copy
    <3>2. QED
      BY <3>1 DEF RecordSound
  <2>3. QED
    BY <2>1, <2>2
<1>7. QED
  BY <1>3, <1>5, <1>6 DEF IInv

\* What is known of sent Saves carries over to a record with the same plan.
LEMMA SentSame ==
  ASSUME NEW r, NEW q, NEW n, Sent(r, n), q.pending = r.pending,
         r.inflight # None /\ r.inflight.op # 0 =>
           q.inflight # None /\ q.inflight.op = r.inflight.op
  PROVE  Sent(q, n)
BY DEF Sent, Ids

\* A first look at the window adopts a source no command has touched, or the confirmed
\* one.
LEMMA ObserveKeeps ==
  ASSUME IInv, Observe PROVE IInv'
<1>1. s # None /\ s \in SessionRecord /\ RecordSound(s) /\ s.inflight = None /\ source \in Content
  BY Fields DEF Observe, IInv, CallSound, Between, TypeOK
<1>2. source = Known(s)
  BY DEF Observe, MatchesContext, Known
<1>3. /\ s' \in SessionRecord /\ s'.context = source /\ s'.pending = s.pending
      /\ SameNumbers(s, s') /\ SameResults(s, s') /\ SameDelivery(s, s')
      /\ s'.inflight = None /\ s'.last = s.last /\ s'.running = s.running
  BY <1>1, MaybeIs DEF Observe, SessionRecord, SameNumbers, SameResults, SameDelivery
<1>4. s'.context # None /\ Known(s') = source
  BY <1>1, <1>3, Absent DEF Known
<1>5. Sound(s')
  BY <1>1, <1>2, <1>3, <1>4
     DEF RecordSound, Sound, Shape, Counted, Results, Delivered, CompileIsCurrent,
         SameNumbers, SameResults, SameDelivery
<1>6. Sent(s', sends) /\ Queue(s'.pending, issued)
  BY <1>1, <1>3, SentSame DEF RecordSound
<1>7. /\ receipt' = receipt /\ call' = call /\ source' = source /\ ide' = ide /\ pc' = "step"
      /\ UNCHANGED <<file, issued, accepted, sends>>
  BY DEF Observe, env, ghosts
<1>8. CallSound' /\ FlightSound'
  BY <1>1, <1>3, <1>7 DEF CallSound, FlightSound, IInv, Flying, Between, Resting, SameDelivery
<1>9. QED
  BY <1>1, <1>3, <1>4, <1>5, <1>6, <1>7, <1>8, ThreadStep DEF IInv, TypeOK

\* Beginning a call keeps the invariant.
LEMMA BeginKeeps ==
  ASSUME IInv, Begin PROVE IInv'
<1>1. /\ s # None /\ s \in SessionRecord /\ RecordSound(s) /\ s.inflight = None
      /\ call \in CallRecord /\ call.work \in Seq(Command)
  BY Fields DEF Begin, IInv, CallSound, Between, CallRecord
<1>2. /\ s' \in SessionRecord /\ s'.context = s.context /\ s'.pending = call.work
      /\ SameNumbers(s, s') /\ SameResults(s, s') /\ SameDelivery(s, s')
      /\ s'.inflight = None /\ s'.last = s.last /\ s'.running = s.running
  BY <1>1 DEF Begin, SessionRecord, SameNumbers, SameResults, SameDelivery
<1>3. Sound(s')
  BY <1>1, <1>2
     DEF RecordSound, Sound, Shape, Counted, Results, Delivered, CompileIsCurrent, Known,
         SameNumbers, SameResults, SameDelivery
<1>4. Sent(s', sends) /\ Queue(s'.pending, issued)
  BY <1>2 DEF Begin, IInv, CallSound, Sent
<1>5. /\ receipt' = receipt /\ source' = source /\ ide' = ide /\ pc' = "step"
      /\ UNCHANGED <<file, issued, accepted, sends>>
  BY DEF Begin, env, ghosts
<1>6. call' \in CallRecord /\ call'.data = call.data
  <2>1. <<>> \in Seq(Command)
    OBVIOUS
  <2>2. QED
    BY <1>1, <2>1 DEF Begin, CallRecord
<1>7. CallSound' /\ FlightSound'
  BY <1>1, <1>2, <1>5, <1>6 DEF CallSound, FlightSound, IInv, Flying, Between, Resting, SameDelivery
<1>8. QED
  BY <1>1, <1>2, <1>3, <1>4, <1>5, <1>6, <1>7, ThreadStep DEF IInv, TypeOK

\* A command that is prepared is in both records before anything is sent.
LEMMA PrepareKeeps ==
  ASSUME IInv, Prepare PROVE IInv'
<1> DEFINE c == Head(s.pending)
           before == IF s.context = None THEN <<>> ELSE s.context
           f == [cmd |-> c, before |-> before, obs |-> None,
                 op |-> 0, bytes |-> None, reopened |-> FALSE]
<1>1. /\ s # None /\ s \in SessionRecord /\ RecordSound(s) /\ s.inflight = None
      /\ s.pending # <<>> /\ s.pending \in Seq(Command) /\ call.left > 0 /\ call \in CallRecord
  BY Fields DEF Prepare, IInv, CallSound, Between, SessionRecord
<1>2. c \in Command /\ before = Known(s) /\ before \in Content
  BY <1>1, KnownIs DEF Known
<1>3. f \in FlightRecord
  BY <1>2, MaybeIs DEF FlightRecord
<1>4. /\ s' = [s EXCEPT !.context = before, !.inflight = f]
      /\ c.op = "assign" => CompileIsCurrent(s)
      /\ c.op = "reopen" => s.revision = s.saved
      /\ receipt' = Durable(s') /\ pc' = "dispatched" /\ call' = call
      /\ UNCHANGED <<file, issued, accepted, sends, source, ide>>
  BY DEF Prepare, env, ghosts
<1>5. /\ s' \in SessionRecord /\ s'.context = before /\ s'.pending = s.pending
      /\ SameNumbers(s, s') /\ SameResults(s, s') /\ SameDelivery(s, s')
      /\ s'.inflight = f /\ s'.last = s.last /\ s'.running = s.running
  <2>1. f \in Maybe(FlightRecord) /\ before \in Maybe(Content)
    BY <1>2, <1>3, MaybeIs
  <2>2. QED
    BY <1>1, <1>4, <2>1 DEF SessionRecord, SameNumbers, SameResults, SameDelivery
<1>6. /\ f # None /\ before # None /\ f.cmd = c /\ f.before = before /\ f.obs = None
      /\ f.op = 0 /\ f.bytes = None
  BY <1>2, <1>3, Absent
<1>7. Sound(s')
  <2>1. Known(s') = before /\ (CompileIsCurrent(s') <=> CompileIsCurrent(s))
    BY <1>5, <1>6 DEF Known, CompileIsCurrent, SameNumbers, SameResults
  <2>2. Shape(s')
    BY <1>1, <1>4, <1>5, <1>6 DEF Shape, SameNumbers
  <2>3. Counted(s')
    BY <1>1, <1>2, <1>5, <1>6, <2>1 DEF RecordSound, Sound, Counted, SameNumbers
  <2>4. Results(s')
    BY <1>1, <1>4, <1>5, <1>6, <2>1 DEF RecordSound, Sound, Results, SameNumbers, SameResults
  <2>5. Delivered(s')
    BY <1>1, <1>5 DEF RecordSound, Sound, Delivered, SameNumbers, SameDelivery
  <2>6. QED
    BY <2>2, <2>3, <2>4, <2>5 DEF Sound
<1>8. Sent(s', sends) /\ Queue(s'.pending, issued)
  BY <1>1, <1>5, SentSame DEF RecordSound
<1>9. CallSound' /\ FlightSound'
  <2>1. Copy(s', receipt')
    BY <1>4, <1>5, DurableIs
  <2>2. CallSound'
    BY <1>1, <1>4, <1>5, <1>6, <2>1 DEF CallSound, IInv, Flying, Resting, Between, Copy
  <2>3. FlightSound'
    BY <1>4, <1>5, <1>6 DEF FlightSound
  <2>4. QED
    BY <2>2, <2>3
<1>10. s'.context # None /\ source \in Content /\ ide \in IdeRecord
  BY <1>5, <1>6 DEF IInv, TypeOK
<1>11. QED
  BY <1>1, <1>4, <1>5, <1>7, <1>8, <1>9, <1>10, ThreadStep DEF Working

\* What a step on a command in flight leaves of the call: the command, the plan
\* and, when a receipt is written, a receipt that names both.
LEMMA FlyingCall ==
  ASSUME IInv, s # None, s.inflight # None, s' \in SessionRecord, s'.inflight # None,
         s'.inflight.cmd = s.inflight.cmd, s'.inflight.before = s.inflight.before,
         s'.pending = s.pending, s'.delivery = s.delivery,
         receipt' = receipt \/ receipt' = Durable(s'),
         pc \in Flying, pc' \in Flying, call'.left = call.left,
         call'.data # None => Written(call'.data.data.content) = call'.data.rev
  PROVE  CallSound'
<1>1. call.left > 0 /\ s' # None
  BY Absent DEF IInv, CallSound
<1>2. Copy(s', Durable(s'))
  BY DurableIs
<1>3. /\ receipt'.inflight # None /\ receipt'.inflight.cmd = s'.inflight.cmd
      /\ receipt'.pending = s'.pending /\ receipt'.inflight.before = s'.inflight.before
      /\ receipt'.delivery # None => s'.delivery # None
  BY <1>2 DEF IInv, CallSound, Copy
<1>4. QED
  BY <1>1, <1>3 DEF CallSound, Flying, Between, Resting

\* The types of what a step in flight reads.
LEMMA FlyingType ==
  ASSUME IInv, pc \in Flying
  PROVE  /\ s # None /\ s.inflight # None
         /\ call \in CallRecord /\ ide \in IdeRecord /\ source \in Content /\ file \in Bytes
         /\ call.data # None => Written(call.data.data.content) = call.data.rev
BY DEF IInv, CallSound, TypeOK, Flying

\* Starting an edit keeps the invariant.
LEMMA ApplyKeeps ==
  ASSUME IInv, Apply PROVE IInv'
<1>1. pc \in Flying
  BY DEF Apply, Flying
<1>2. /\ s' \in SessionRecord /\ SamePlan(s, s') /\ SameNumbers(s, s') /\ SameResults(s, s')
      /\ SameDelivery(s, s') /\ s'.inflight = s.inflight /\ s'.last = None
      /\ s'.running = s.running
  BY <1>1, FlyingType, InFlight, MaybeIs
     DEF Apply, SessionRecord, SamePlan, SameNumbers, SameResults, SameDelivery
<1>3. Sound(s')
  <2>1. Sound(s) /\ s.inflight.cmd.op # "compile"
    BY <1>1, FlyingType, InFlight DEF Apply, Edits, Cmd
  <2>2. QED
    BY <1>2, <2>1
       DEF Sound, Shape, Counted, Results, Delivered, CompileIsCurrent, Known,
           SamePlan, SameNumbers, SameResults, SameDelivery
<1>4. Sent(s', sends) /\ Queue(s'.pending, issued)
  BY <1>1, <1>2, FlyingType, InFlight, SentSame DEF SamePlan
<1>5. ide' \in IdeRecord
  BY <1>1, FlyingType DEF Apply, env
<1>6. /\ receipt' = receipt /\ source' = source /\ pc' = "applying" /\ call' = call
      /\ Cmd.op \in Edits /\ UNCHANGED <<file, issued, accepted, sends>>
  BY DEF Apply, env, ghosts
<1>7. CallSound'
  BY <1>1, <1>2, <1>6, FlyingType, FlyingCall DEF SamePlan, SameDelivery, Flying
<1>8. FlightSound'
  BY <1>2, <1>6 DEF FlightSound, Cmd
<1>9. QED
  BY <1>1, <1>2, <1>3, <1>4, <1>5, <1>6, <1>7, <1>8, FlyingType, InFlight, ThreadStep
     DEF SamePlan, Working

\* Making it in the window keeps the invariant.
LEMMA MakeEditKeeps ==
  ASSUME IInv, MakeEdit PROVE IInv'
<1>1. pc \in Flying /\ pc = "applying"
  BY DEF MakeEdit, Flying
<1>2. /\ s' = s /\ receipt' = receipt /\ pc' = "acted" /\ call' = call /\ ide' = ide
      /\ source' \in Content /\ UNCHANGED <<file, issued, accepted, sends>>
  BY <1>1, FlyingType, InFlight, EffectIs DEF MakeEdit, ghosts
<1>3. CallSound'
  BY <1>1, <1>2, FlyingType, InFlight, FlyingCall DEF Flying
<1>4. FlightSound'
  BY <1>1, <1>2 DEF FlightSound, Cmd, IInv, Edits
<1>5. QED
  BY <1>1, <1>2, <1>3, <1>4, FlyingType, InFlight, ThreadStep DEF Working

\* Starting a compile keeps the invariant: earlier results are gone before.
LEMMA StartCompileKeeps ==
  ASSUME IInv, StartCompile PROVE IInv'
<1>1. pc \in Flying /\ pc = "dispatched"
  BY DEF StartCompile, Flying
<1>2. s \in SessionRecord /\ Cmd \in Command /\ Cmd.id \in Ids /\ Sound(s)
      /\ s.inflight # None /\ s.inflight.obs = None /\ Cmd.op = "compile"
  BY <1>1, FlyingType, InFlight DEF Command, IInv, FlightSound, StartCompile
<1>3. s.revision \in Nat /\ s.assigns \in QueryResult
  BY <1>2 DEF SessionRecord
<1>4. /\ [status |-> "running", rev |-> s.revision, run |-> 0] \in CompileResult
      /\ [NotRun EXCEPT !.status = "stale"] \in QueryResult
      /\ [NotRun EXCEPT !.status = "stale"].status = "stale"
  BY <1>3 DEF CompileResult, QueryResult, NotRun
<1>5. /\ s' \in SessionRecord /\ SamePlan(s, s') /\ SameNumbers(s, s') /\ SameDelivery(s, s')
      /\ s'.inflight = s.inflight /\ s'.last = None /\ s'.built = None
      /\ s'.compile.status = "running" /\ s'.assigns.status # "passed"
      /\ s'.running = Cmd.id
  <2>1. None \in Maybe(BuildRecord) /\ None \in Maybe(RunRecord) /\ Cmd.id \in Maybe(Ids)
    BY <1>2, MaybeIs
  <2>2. (IF s.assigns.status = "not_run" THEN s.assigns ELSE [NotRun EXCEPT !.status = "stale"])
          \in QueryResult
    BY <1>3, <1>4
  <2>3. s' \in SessionRecord
    BY <1>2, <1>4, <2>1, <2>2 DEF StartCompile, SessionRecord
  <2>4. SamePlan(s, s') /\ SameNumbers(s, s') /\ SameDelivery(s, s')
    BY <1>2 DEF StartCompile, SamePlan, SameNumbers, SameDelivery
  <2>5. QED
    BY <1>2, <1>4, <2>3, <2>4 DEF StartCompile, SessionRecord
<1>6. Sound(s')
  <2>1. Shape(s') /\ Counted(s') /\ Delivered(s')
    BY <1>2, <1>5
       DEF Sound, Shape, Counted, Delivered, Known, SamePlan, SameNumbers, SameDelivery
  <2>2. Results(s')
    BY <1>2, <1>5 DEF Results, Outcome, Cmd
  <2>3. QED
    BY <2>1, <2>2 DEF Sound
<1>7. Sent(s', sends) /\ Queue(s'.pending, issued)
  BY <1>1, <1>5, FlyingType, InFlight, SentSame DEF SamePlan
<1>8. ide' \in IdeRecord
  <2>1. Cmd.id \in Maybe(Ids) /\ None \in Maybe(Outcome)
    BY <1>2, MaybeIs
  <2>2. QED
    BY <1>1, <2>1, FlyingType DEF StartCompile, IdeRecord
<1>9. /\ receipt' = receipt /\ source' = source /\ pc' = "compiling" /\ call' = call
      /\ UNCHANGED <<file, issued, accepted, sends>>
  BY DEF StartCompile, ghosts
<1>10. CallSound'
  BY <1>1, <1>5, <1>9, FlyingType, FlyingCall DEF SamePlan, SameDelivery, Flying
<1>11. FlightSound'
  BY <1>2, <1>5, <1>9 DEF FlightSound, Cmd
<1>12. QED
  BY <1>1, <1>5, <1>6, <1>7, <1>8, <1>9, <1>10, <1>11, FlyingType, InFlight, ThreadStep
     DEF SamePlan, Working

\* A compile that returns is the run in flight.
LEMMA CompileReturnsKeeps ==
  ASSUME IInv, CompileReturns PROVE IInv'
<1> DEFINE run == [run |-> Cmd.id, rev |-> s.revision, outcome |-> ide.output]
           f == [s.inflight EXCEPT !.obs = run]
<1>1. pc \in Flying /\ pc = "compiling"
  BY DEF CompileReturns, Flying
<1>2. /\ s \in SessionRecord /\ Cmd \in Command /\ Cmd.id \in Ids /\ Sound(s)
      /\ s.inflight \in FlightRecord /\ s.inflight # None
      /\ Cmd.op = "compile" /\ s.compile.status = "running"
  BY <1>1, FlyingType, InFlight DEF Command, IInv, FlightSound
<1>3. run \in RunRecord /\ run # None
  <2>1. ide.output \in Outcome
    BY <1>1, FlyingType, MaybeIs DEF CompileReturns, IdeRecord
  <2>2. run \in RunRecord
    BY <1>2, <2>1 DEF RunRecord, SessionRecord
  <2>3. QED
    BY <2>2, Absent
<1>4. /\ f \in FlightRecord /\ f # None /\ f.cmd = Cmd /\ f.before = s.inflight.before
      /\ f.obs = run /\ f.op = s.inflight.op /\ f.bytes = s.inflight.bytes
  <2>1. run \in Maybe(RunRecord)
    BY <1>3, MaybeIs
  <2>2. f \in FlightRecord
    BY <1>2, <2>1 DEF FlightRecord
  <2>3. QED
    BY <1>2, <2>2, Absent DEF FlightRecord, Cmd
<1>5. /\ s' = [s EXCEPT !.last = run, !.running = None, !.inflight = f]
      /\ receipt' = Durable(s') /\ pc' = "acted" /\ call' = call
      /\ UNCHANGED <<file, issued, accepted, sends, source, ide>>
  BY DEF CompileReturns, env, ghosts
<1>6. /\ s' \in SessionRecord /\ SamePlan(s, s') /\ SameNumbers(s, s') /\ SameResults(s, s')
      /\ SameDelivery(s, s') /\ s'.inflight = f /\ s'.last = run /\ s'.running = None
  <2>1. run \in Maybe(RunRecord) /\ f \in Maybe(FlightRecord) /\ None \in Maybe(Ids)
    BY <1>3, <1>4, MaybeIs
  <2>2. s' \in SessionRecord
    BY <1>2, <1>5, <2>1 DEF SessionRecord
  <2>3. QED
    BY <1>2, <1>5, <2>2 DEF SessionRecord, SamePlan, SameNumbers, SameResults, SameDelivery
<1>7. Sound(s')
  <2>1. Shape(s') /\ Counted(s') /\ Delivered(s')
    BY <1>2, <1>4, <1>6
       DEF Sound, Shape, Counted, Delivered, Known, Cmd, SamePlan, SameNumbers, SameDelivery
  <2>2. Results(s')
    BY <1>2, <1>4, <1>6 DEF Sound, Results, Outcome, Cmd, SameNumbers, SameResults, CompileIsCurrent
  <2>3. QED
    BY <2>1, <2>2 DEF Sound
<1>8. Sent(s', sends) /\ Queue(s'.pending, issued)
  BY <1>1, <1>4, <1>6, FlyingType, InFlight, SentSame DEF SamePlan
<1>9. CallSound'
  BY <1>1, <1>4, <1>5, <1>6, FlyingType, FlyingCall DEF SamePlan, SameDelivery, Flying, Cmd
<1>10. FlightSound'
  BY <1>2, <1>3, <1>4, <1>5, <1>6 DEF FlightSound, Cmd
<1>11. QED
  BY <1>1, <1>5, <1>6, <1>7, <1>8, <1>9, <1>10, FlyingType, InFlight, ThreadStep
     DEF SamePlan, Working

\* A step that only notes in the command in flight what it has learned.
LEMMA NoteStep ==
  ASSUME IInv, pc \in Flying, NEW f \in FlightRecord, f.cmd = Cmd, f.before = s.inflight.before,
         f.op = s.inflight.op \/ (s.inflight.op = 0 /\ f.op = Cmd.id /\ Cmd.op = "save"),
         f.bytes = s.inflight.bytes, Cmd.op # "compile" \/ f.obs = s.inflight.obs,
         s' = [s EXCEPT !.inflight = f], receipt' = receipt \/ receipt' = Durable(s'),
         call' = call, source' \in Content, pc' \in {"acted", "saving"},
         UNCHANGED <<file, ide, issued, accepted, sends>>, FlightSound'
  PROVE  IInv'
<1>1. /\ s \in SessionRecord /\ Sound(s) /\ f # None /\ s.inflight # None /\ s # None
  BY FlyingType, InFlight, Absent
<1>2. /\ s' \in SessionRecord /\ SamePlan(s, s') /\ SameNumbers(s, s') /\ SameResults(s, s')
      /\ SameDelivery(s, s') /\ s'.inflight = f /\ s'.last = s.last /\ s'.running = s.running
  <2>1. f \in Maybe(FlightRecord)
    BY MaybeIs
  <2>2. QED
    BY <1>1, <2>1 DEF SessionRecord, SamePlan, SameNumbers, SameResults, SameDelivery
<1>3. Sound(s')
  <2>1. Shape(s') /\ Counted(s') /\ Delivered(s')
    BY <1>1, <1>2
       DEF Sound, Shape, Counted, Delivered, Known, Cmd, SamePlan, SameNumbers, SameDelivery
  <2>2. Results(s')
    BY <1>1, <1>2 DEF Sound, Results, Cmd, SameNumbers, SameResults, CompileIsCurrent
  <2>3. QED
    BY <2>1, <2>2 DEF Sound
<1>4. Sent(s', sends) /\ Queue(s'.pending, issued)
  BY <1>1, <1>2, InFlight, SentSame DEF SamePlan
<1>5. CallSound'
  BY <1>1, <1>2, FlyingType, FlyingCall DEF SamePlan, SameDelivery, Flying, Cmd
<1>6. QED
  BY <1>1, <1>2, <1>3, <1>4, <1>5, FlyingType, InFlight, ThreadStep DEF SamePlan, Working

\* An address query keeps the invariant.
LEMMA ReadAddressesKeeps ==
  ASSUME IInv, ReadAddresses PROVE IInv'
<1> DEFINE answer == [run |-> s.compile.run, rev |-> s.revision, outcome |-> "passed"]
           f == [s.inflight EXCEPT !.obs = answer]
<1>1. pc \in Flying /\ Cmd.op = "assign" /\ s # None
  BY FlyingType DEF ReadAddresses, Flying
<1>2. s \in SessionRecord /\ Sound(s) /\ s.inflight \in FlightRecord /\ s.inflight # None
  BY <1>1, FlyingType, InFlight
<1>3. answer \in Maybe(RunRecord)
  <2>1. s.compile.run \in Ids
    BY <1>1, <1>2 DEF Sound, Results, CompileIsCurrent, Outcome, Cmd
  <2>2. answer \in RunRecord
    BY <1>2, <2>1 DEF RunRecord, SessionRecord, Outcome
  <2>3. QED
    BY <2>2, MaybeIs
<1>4. /\ f \in FlightRecord /\ f.cmd = Cmd /\ f.before = s.inflight.before
      /\ f.op = s.inflight.op /\ f.bytes = s.inflight.bytes
  BY <1>2, <1>3 DEF FlightRecord, Cmd
<1>5. /\ s' = [s EXCEPT !.inflight = f] /\ receipt' = receipt /\ pc' = "acted" /\ call' = call
      /\ UNCHANGED <<file, issued, accepted, sends, source, ide>>
  BY DEF ReadAddresses, Flight, env, ghosts
<1>6. s'.inflight = f
  BY <1>2, <1>5 DEF SessionRecord
<1>7. FlightSound'
  BY <1>1, <1>4, <1>5, <1>6 DEF FlightSound, Cmd
<1>8. QED
  BY <1>1, <1>4, <1>5, <1>7, FlyingType, NoteStep

\* Opening the saved file again keeps the invariant: nothing is unsaved.
LEMMA ReopenKeeps ==
  ASSUME IInv, Reopen PROVE IInv'
<1> DEFINE f == [s.inflight EXCEPT !.reopened = TRUE]
<1>1. pc \in Flying /\ Cmd.op = "reopen" /\ s # None
  BY FlyingType DEF Reopen, Flying
<1>2. s \in SessionRecord /\ s.inflight \in FlightRecord
  BY <1>1, FlyingType, InFlight
<1>3. /\ f \in FlightRecord /\ f.cmd = Cmd /\ f.before = s.inflight.before
      /\ f.op = s.inflight.op /\ f.bytes = s.inflight.bytes /\ f.obs = s.inflight.obs
  BY <1>2 DEF FlightRecord, Cmd
<1>4. /\ s' = [s EXCEPT !.inflight = f] /\ receipt' = receipt /\ pc' = "acted" /\ call' = call
      /\ UNCHANGED <<file, issued, accepted, sends, ide>> /\ source' \in Content
  BY <1>1, FlyingType DEF Reopen, Flight, ghosts, Bytes
<1>5. s'.inflight = f
  BY <1>2, <1>4 DEF SessionRecord
<1>6. FlightSound'
  BY <1>1, <1>3, <1>4, <1>5 DEF FlightSound, Cmd
<1>7. QED
  BY <1>1, <1>3, <1>4, <1>6, NoteStep

\* A Save gets its operation id, in both records, before it is sent.
LEMMA NameSaveKeeps ==
  ASSUME IInv, NameSave PROVE IInv'
<1> DEFINE f == [s.inflight EXCEPT !.op = Cmd.id]
<1>1. pc \in Flying /\ pc = "dispatched" /\ Cmd.op = "save" /\ s # None /\ s.inflight # None
  BY FlyingType DEF NameSave, Flying
<1>2. s \in SessionRecord /\ s.inflight \in FlightRecord /\ Cmd.id \in Ids /\ s.inflight.op = 0
  BY <1>1, InFlight DEF Command, IInv, FlightSound
<1>3. /\ f \in FlightRecord /\ f.cmd = Cmd /\ f.before = s.inflight.before
      /\ f.op = Cmd.id /\ f.bytes = s.inflight.bytes /\ f.obs = s.inflight.obs
  BY <1>2 DEF FlightRecord, Cmd
<1>4. /\ s' = [s EXCEPT !.inflight = f] /\ receipt' = Durable(s') /\ pc' = "saving" /\ call' = call
      /\ UNCHANGED <<file, issued, accepted, sends, ide, source>>
  BY DEF NameSave, Flight, env, ghosts
<1>5. s'.inflight = f /\ receipt'.inflight = f
  BY <1>2, <1>4 DEF SessionRecord, Durable
\* The head of the plan was not sent before it was named.
<1>6. sends[Cmd.id] = 0
  <2>1. Sent(s, sends) /\ 1 \in DOMAIN s.pending /\ s.pending[1] = Cmd
    BY <1>1, InFlight, HeadTailProperties
  <2>2. s.inflight.op # Cmd.id /\ ~(Cmd.id < Cmd.id) /\ sends[Cmd.id] \in Nat
    BY <1>2 DEF Ids, IInv, TypeOK
  <2>3. QED
    BY <1>2, <2>1, <2>2 DEF Sent
<1>7. FlightSound'
  BY <1>1, <1>3, <1>4, <1>5, <1>6 DEF FlightSound, Cmd
<1>8. QED
  BY <1>1, <1>2, <1>3, <1>4, <1>7, FlyingType, NoteStep

\* A native Save is sent once: both records name it, and it heads the plan.
LEMMA SendSaveKeeps ==
  ASSUME IInv, SendSave PROVE IInv'
<1>1. pc \in Flying /\ pc = "saving" /\ s # None /\ s.inflight # None
  BY FlyingType DEF SendSave, Flying
<1>2. /\ s \in SessionRecord /\ Sound(s) /\ Cmd \in Command /\ Cmd.id \in Ids /\ Cmd.op = "save"
      /\ s.inflight \in FlightRecord /\ s.inflight.op = Cmd.id /\ receipt.inflight.op = Cmd.id
      /\ receipt.inflight # None /\ receipt.pending = s.pending
      /\ s.context # None /\ receipt.context # None
      /\ sends[Cmd.id] = 0 /\ Queue(s.pending, issued) /\ Sent(s, sends)
  BY <1>1, InFlight DEF Command, IInv, FlightSound
<1>3. /\ receipt' = receipt /\ source' = source /\ file' = file /\ pc' = "sent" /\ call' = call
      /\ sends' = [sends EXCEPT ![Cmd.id] = @ + 1] /\ issued' = issued /\ accepted' = accepted
  BY DEF SendSave
<1>4. ide' \in IdeRecord
  <2>1. PICK n \in 1..2 : ide' = [ide EXCEPT !.image = source, !.writes = n]
    BY DEF SendSave
  <2>2. n \in 0..2
    OBVIOUS
  <2>3. QED
    BY <1>1, <2>1, <2>2, FlyingType DEF IdeRecord
<1>5. s' \in SessionRecord /\ Copy(s, s')
  <2>1. [op |-> s.inflight.op, sent |-> FALSE, returned |-> FALSE] \in SaveProgress
    BY <1>2 DEF SaveProgress, Ids
  <2>2. QED
    BY <1>2, <2>1 DEF SendSave, SessionRecord, Copy
<1>6. Sound(s') /\ s'.pending = s.pending /\ s'.inflight = s.inflight /\ s'.delivery = s.delivery
      /\ s'.context = s.context
  BY <1>2, <1>5, CopySound DEF Copy
<1>7. sends' \in [Ids -> Nat] /\ sends'[Cmd.id] = 1 /\ \A i \in Ids : i # Cmd.id => sends'[i] = sends[i]
  BY <1>2, <1>3 DEF IInv, TypeOK
<1>8. \A k \in DOMAIN s.pending : k = 1 \/ Cmd.id < s.pending[k].id
  <2>1. s.pending # <<>> /\ s.pending \in Seq(Command) /\ s.pending[1] = Cmd /\ 1 \in DOMAIN s.pending
    BY <1>1, InFlight, HeadTailProperties
  <2>2. \A k \in DOMAIN s.pending : k \in Nat /\ k >= 1
    BY <2>1
  <2>3. QED
    BY <1>2, <2>1, <2>2 DEF Queue
<1>9. Sent(s', sends') /\ Sent(receipt, sends')
  <2>1. Sent(receipt, sends)
    BY Fields DEF RecordSound
  <2>2. Sent(s', sends')
    BY <1>1, <1>2, <1>6, <1>7, <1>8 DEF Sent
  <2>3. Sent(receipt, sends')
    BY <1>2, <1>7, <1>8, <2>1 DEF Sent
  <2>4. QED
    BY <2>2, <2>3
<1>10. SendsSound'
  <2>1. Cmd.id <= Len(issued)
    <3>1. s.pending # <<>> /\ s.pending \in Seq(Command) /\ s.pending[1] = Cmd /\ 1 \in DOMAIN s.pending
      BY <1>1, InFlight, HeadTailProperties
    <3>2. QED
      BY <1>2, <3>1 DEF Queue
  <2>2. QED
    BY <1>3, <1>7, <2>1 DEF IInv, SendsSound
<1>11. TypeOK'
  <2>1. s' \in Maybe(SessionRecord) /\ s' # None
    BY <1>5, MaybeIs, Absent
  <2>2. QED
    BY <1>3, <1>4, <1>7, <2>1 DEF IInv, TypeOK, Working
<1>12. RecordSound(receipt)' /\ RecordSound(s)'
  BY <1>2, <1>3, <1>6, <1>9, Fields DEF RecordSound, Untouched
<1>13. CallSound'
  BY <1>1, <1>3, <1>5, <1>6, FlyingType, FlyingCall DEF Flying
<1>14. FlightSound'
  BY <1>2, <1>3, <1>6 DEF FlightSound, Cmd
<1>15. QED
  BY <1>10, <1>11, <1>12, <1>13, <1>14 DEF IInv

\* The answer to a Save keeps the invariant.
LEMMA SaveDispatchedKeeps ==
  ASSUME IInv, SaveDispatched PROVE IInv'
<1>1. pc \in Flying /\ pc = "sent" /\ s # None /\ s.inflight # None
  BY FlyingType DEF SaveDispatched, Flying
<1>2. /\ s \in SessionRecord /\ Sound(s) /\ s.context # None /\ receipt.context # None
      /\ Queue(s.pending, issued) /\ Sent(s, sends) /\ s.inflight.op = Cmd.id /\ Cmd.op = "save"
  BY <1>1, InFlight DEF IInv, FlightSound
<1>3. /\ receipt' = Durable(s') /\ pc' = "written" /\ call' = call
      /\ UNCHANGED <<file, issued, accepted, sends, ide, source>>
  BY DEF SaveDispatched, env, ghosts
<1>4. s' \in SessionRecord /\ Copy(s, s')
  BY <1>2 DEF SaveDispatched, SessionRecord, SaveProgress, Copy
<1>5. /\ Sound(s') /\ Sent(s', sends) /\ s'.pending = s.pending /\ s'.inflight = s.inflight
      /\ s'.delivery = s.delivery /\ s'.context = s.context /\ receipt'.inflight = s'.inflight
  BY <1>2, <1>3, <1>4, CopySound, CopyRest, DurableIs DEF Copy
<1>6. CallSound'
  BY <1>1, <1>3, <1>4, <1>5, FlyingType, FlyingCall DEF Flying
<1>7. FlightSound'
  BY <1>2, <1>3, <1>5 DEF FlightSound, Cmd
<1>8. QED
  BY <1>1, <1>2, <1>3, <1>4, <1>5, <1>6, <1>7, FlyingType, ThreadStep DEF Working

\* The bytes a Save returns with hold the source it was sent over.
LEMMA SaveReturnsKeeps ==
  ASSUME IInv, SaveReturns PROVE IInv'
<1> DEFINE f == [s.inflight EXCEPT !.bytes = file]
<1>1. pc \in Flying /\ pc = "written" /\ s # None /\ s.inflight # None
  BY FlyingType DEF SaveReturns, Flying
<1>2. /\ s \in SessionRecord /\ Sound(s) /\ s.context # None /\ receipt.context # None
      /\ Queue(s.pending, issued) /\ Sent(s, sends) /\ s.inflight.op = Cmd.id /\ Cmd.op = "save"
      /\ s.inflight \in FlightRecord /\ file \in Bytes /\ Cmd.id \in Ids
  BY <1>1, InFlight, FlyingType DEF IInv, FlightSound, Command
<1>3. /\ s' = [s EXCEPT !.progress.returned = TRUE, !.seen = file, !.inflight = f]
      /\ receipt' = Durable(s') /\ pc' = "acted" /\ call' = call
      /\ UNCHANGED <<file, issued, accepted, sends, ide, source>>
      /\ file.content = s.inflight.before
  BY DEF SaveReturns, env, ghosts, Acknowledged
<1>4. /\ f \in FlightRecord /\ f # None /\ f.cmd = Cmd /\ f.before = s.inflight.before
      /\ f.obs = s.inflight.obs /\ f.op = s.inflight.op /\ f.bytes = file /\ file # None
  <2>1. file \in Maybe(Bytes)
    BY <1>2, MaybeIs
  <2>2. f \in FlightRecord
    BY <1>2, <2>1 DEF FlightRecord
  <2>3. QED
    BY <1>2, <2>2, Absent DEF FlightRecord, Cmd
<1> HIDE DEF f
<1>5. /\ s' \in SessionRecord /\ SamePlan(s, s') /\ SameResults(s, s') /\ SameDelivery(s, s')
      /\ s'.inflight = f /\ s'.last = s.last /\ s'.running = s.running /\ s'.seen = file
      /\ s'.revision = s.revision /\ s'.saved = s.saved /\ s'.verRev = s.verRev
  <2>1. f \in Maybe(FlightRecord) /\ [s.progress EXCEPT !.returned = TRUE] \in SaveProgress
    BY <1>2, <1>4, MaybeIs DEF SessionRecord, SaveProgress
  <2>2. s' = [s EXCEPT !.progress = [s.progress EXCEPT !.returned = TRUE], !.seen = file, !.inflight = f]
    BY <1>3
  <2>3. s' \in SessionRecord
    BY <1>2, <2>1, <2>2 DEF SessionRecord
  <2>4. QED
    BY <1>2, <2>2, <2>3 DEF SessionRecord, SamePlan, SameResults, SameDelivery
<1>6. Sound(s')
  <2>1. Shape(s')
    BY <1>1, <1>2, <1>3, <1>4, <1>5 DEF Sound, Shape, Cmd, SamePlan, Ids
  <2>2. Counted(s')
    BY <1>1, <1>2, <1>3, <1>4, <1>5 DEF Sound, Counted, Known, Cmd, SamePlan
  <2>3. Delivered(s')
    BY <1>2, <1>5 DEF Sound, Delivered, SameDelivery
  <2>4. Results(s')
    BY <1>1, <1>2, <1>4, <1>5 DEF Sound, Results, Cmd, SameResults, CompileIsCurrent
  <2>5. QED
    BY <2>1, <2>2, <2>3, <2>4 DEF Sound
<1>7. Sent(s', sends) /\ Queue(s'.pending, issued)
  BY <1>2, <1>4, <1>5, SentSame DEF SamePlan
<1>8. CallSound'
  BY <1>1, <1>3, <1>4, <1>5, FlyingType, FlyingCall DEF SamePlan, SameDelivery, Flying, Cmd
<1>9. FlightSound'
  BY <1>2, <1>3, <1>4, <1>5 DEF FlightSound, Cmd
<1>10. QED
  BY <1>1, <1>2, <1>3, <1>5, <1>6, <1>7, <1>8, <1>9, FlyingType, ThreadStep DEF SamePlan, Working

\* A lost answer to a Save keeps the invariant.
LEMMA SaveReplyLostKeeps ==
  ASSUME IInv, SaveReplyLost PROVE IInv'
<1>1. pc \in Flying /\ pc = "written" /\ s # None /\ s.inflight # None
  BY FlyingType DEF SaveReplyLost, Flying
<1>2. /\ s \in SessionRecord /\ Sound(s) /\ s.context # None /\ receipt.context # None
      /\ Queue(s.pending, issued) /\ Sent(s, sends) /\ Cmd.op = "save"
      /\ file \in Bytes /\ CallSound
  BY <1>1, InFlight, FlyingType DEF IInv, FlightSound
<1>3. PICK adopt \in BOOLEAN :
        /\ adopt => Acknowledged(s) /\ source = s.inflight.before
        /\ s' = Failed([s EXCEPT !.progress.returned = TRUE, !.seen = IF adopt THEN file ELSE @])
  BY DEF SaveReplyLost
<1>4. /\ receipt' = receipt /\ pc' = "returning" /\ call' = NoCall
      /\ UNCHANGED <<file, issued, accepted, sends, ide, source>> /\ DiskChanged(s)
  BY DEF SaveReplyLost, env, ghosts
<1>5. /\ s' \in SessionRecord /\ SamePlan(s, s') /\ SameResults(s, s') /\ SameDelivery(s, s')
      /\ s'.inflight = s.inflight /\ s'.last = s.last /\ s'.running = s.running
      /\ s'.seen \in {s.seen, file} /\ s'.state = "unconfirmed"
      /\ s'.revision = s.revision /\ s'.saved = s.saved /\ s'.verRev = s.verRev
  <2> DEFINE r == [s EXCEPT !.progress.returned = TRUE, !.seen = IF adopt THEN file ELSE @]
  <2>1. r \in SessionRecord /\ r.inflight = s.inflight
    BY <1>2 DEF SessionRecord, SaveProgress
  <2>2. s' = [r EXCEPT !.state = "unconfirmed"]
    BY <1>1, <1>3, <2>1 DEF Failed
  <2> HIDE DEF r
  <2>3. s' \in SessionRecord
    BY <2>1, <2>2 DEF SessionRecord, States
  <2>4. QED
    BY <1>2, <2>1, <2>2, <2>3 DEF r, SessionRecord, SamePlan, SameResults, SameDelivery
<1>6. s'.seen = s.seen \/ s'.seen.content = s.inflight.before
  <2>1. CASE adopt
    BY <1>3, <1>4, <1>5, <2>1 DEF Acknowledged
  <2>2. CASE ~adopt
    BY <1>2, <1>3, <2>2 DEF Failed, SessionRecord
  <2>3. QED
    BY <2>1, <2>2
<1>7. Sound(s')
  <2>1. Shape(s') /\ Counted(s') /\ Delivered(s')
    BY <1>1, <1>2, <1>5, <1>6
       DEF Sound, Shape, Counted, Delivered, Known, Cmd, SamePlan, SameDelivery
  <2>2. Results(s')
    BY <1>1, <1>2, <1>5 DEF Sound, Results, Cmd, SameResults, CompileIsCurrent
  <2>3. QED
    BY <2>1, <2>2 DEF Sound
<1>8. Sent(s', sends) /\ Queue(s'.pending, issued)
  BY <1>2, <1>5, SentSame DEF SamePlan
<1>9. CallSound' /\ FlightSound'
  BY <1>1, <1>2, <1>4, <1>5, NoCallIs
     DEF CallSound, FlightSound, Flying, Between, Resting, SamePlan, SameDelivery
<1>10. QED
  BY <1>1, <1>2, <1>4, <1>5, <1>7, <1>8, <1>9, NoCallIs, FlyingType, ThreadStep
     DEF SamePlan, Working

-----------------------------------------------------------------------------
(* The answer of a command *)

\* The run a compile is answered with: the one completed last, or the first
\* since its start.
LEMMA TakeCompile ==
  ASSUME NEW r \in SessionRecord, NEW q, NEW run \in RunRecord, Sound(r),
         r.inflight # None, r.inflight.cmd.op = "compile",
         r.inflight.obs # None => run = r.inflight.obs,
         run = r.last \/ r.compile.status = "running",
         SamePlan(r, q), SameNumbers(r, q), SameDelivery(r, q), q.inflight = r.inflight,
         q.compile = [status |-> run.outcome, rev |-> r.revision, run |-> run.run],
         q.assigns = r.assigns, q.built = r.built, q.last = run, q.running = None
  PROVE  Sound(q) /\ q.compile \in CompileResult /\ q.compile.status \in Outcome
<1>1. q.compile \in CompileResult /\ q.compile.status \in Outcome /\ run.run \in Ids /\ run # None
  <2>1. run.outcome \in Outcome /\ run.run \in Ids /\ run.run \in Nat /\ run # None
    BY Absent DEF RunRecord, Ids
  <2>2. QED
    BY <2>1 DEF CompileResult, SessionRecord
<1>2. Shape(q) /\ Counted(q) /\ Delivered(q)
  BY DEF Sound, Shape, Counted, Delivered, Known, SamePlan, SameNumbers, SameDelivery
\* When there was a result before, it is the one of the same run.
<1>3. r.compile.status \in Outcome =>
        r.compile.rev = r.revision /\ r.compile.run = run.run /\ r.compile.status = run.outcome
  BY <1>1 DEF Sound, Results, Outcome
<1>4. Results(q)
  <2>1. q.assigns.status = "passed" =>
          q.assigns.rev = q.revision /\ CompileIsCurrent(q) /\ q.assigns.run = q.compile.run
    BY <1>3 DEF Sound, Results, CompileIsCurrent, SameNumbers, Outcome
  <2>2. q.built # None =>
          /\ q.compile.status \in Outcome
          /\ q.built.rev = q.revision /\ q.built.run = q.compile.run
          /\ Written(q.built.data.content) = q.revision
    BY <1>1, <1>3 DEF Sound, Results, SameNumbers
  <2>3. QED
    BY <1>1, <2>1, <2>2 DEF Results, SameNumbers
<1>5. QED
  BY <1>1, <1>2, <1>4 DEF Sound

\* A delivery stays one of saved bytes when everything confirmed is saved.
LEMMA DeliveryIs ==
  ASSUME NEW r \in SessionRecord, Sound(r), NEW q, SameDelivery(r, q), q.saved = r.revision
  PROVE  Delivered(q)
<1>1. r.delivery # None => r.delivery.rev \in Nat
  <2>1. r.delivery \in Maybe(DeliveryRecord)
    BY DEF SessionRecord
  <2>2. r.delivery # None => r.delivery \in DeliveryRecord
    BY <2>1, MaybeIs
  <2>3. QED
    BY <2>2 DEF DeliveryRecord
<1>2. r.saved \in Nat /\ r.revision \in Nat /\ r.saved <= r.revision
  BY DEF SessionRecord, Sound, Counted
<1>3. QED
  BY <1>1, <1>2 DEF Sound, Delivered, SameDelivery

\* What a compile wrote is adopted only when it holds the confirmed source.
LEMMA AdoptIs ==
  ASSUME NEW r \in SessionRecord, Sound(r), r.inflight # None, r.inflight.cmd.op = "compile",
         r.compile.status \in Outcome, file \in Bytes,
         DiskChanged(r) => file.content = Known(r)
  PROVE  /\ AdoptCompileSave(r) \in SessionRecord /\ Sound(AdoptCompileSave(r))
         /\ SamePlan(r, AdoptCompileSave(r)) /\ SameDelivery(r, AdoptCompileSave(r))
         /\ AdoptCompileSave(r).inflight = r.inflight
         /\ AdoptCompileSave(r).revision = r.revision
         /\ AdoptCompileSave(r).running = r.running
<1>1. CASE ~DiskChanged(r)
  BY <1>1 DEF AdoptCompileSave, SamePlan, SameDelivery
<1>2. CASE DiskChanged(r)
  <2> DEFINE q == [r EXCEPT !.seen = file, !.saved = r.revision, !.built = Build(r, file)]
  <2>1. AdoptCompileSave(r) = q
    BY <1>2 DEF AdoptCompileSave
  <2>2. Build(r, file) \in BuildRecord
    BY DEF Build, BuildRecord, SessionRecord, CompileResult
  <2>3. /\ q \in SessionRecord /\ SamePlan(r, q) /\ SameDelivery(r, q) /\ q.inflight = r.inflight
        /\ q.revision = r.revision /\ q.running = r.running /\ q.last = r.last
        /\ q.compile = r.compile /\ q.assigns = r.assigns /\ q.verRev = r.verRev
        /\ q.saved = r.revision /\ q.seen = file
        /\ q.built = [data |-> file, rev |-> r.revision, run |-> r.compile.run]
    BY <2>2, MaybeIs DEF SessionRecord, SamePlan, SameDelivery, Build
  <2> HIDE DEF q
  <2>4. Shape(q)
    BY <2>3 DEF Sound, Shape, SamePlan
  <2>5. Counted(q)
    BY <1>2, <2>3 DEF Sound, Counted, Known, SamePlan, SessionRecord
  <2>6. Delivered(q)
    BY <2>3, DeliveryIs
  <2>7. Results(q)
    BY <1>2, <2>3 DEF Sound, Results, Counted, CompileIsCurrent
  <2>8. QED
    BY <2>1, <2>3, <2>4, <2>5, <2>6, <2>7 DEF Sound
<1>3. QED
  BY <1>1, <1>2

\* The bytes of a Save hold the confirmed source; the build is kept with them
\* only when its compile is current.
LEMMA SaveIs ==
  ASSUME NEW r \in SessionRecord, Sound(r), r.inflight # None, r.inflight.cmd.op = "save",
         NEW b \in Bytes, b.content = Known(r)
  PROVE  /\ WithSave(r, b) \in SessionRecord /\ Sound(WithSave(r, b))
         /\ SamePlan(r, WithSave(r, b)) /\ SameDelivery(r, WithSave(r, b))
         /\ WithSave(r, b).inflight = r.inflight /\ WithSave(r, b).running = r.running
         /\ WithSave(r, b).revision = r.revision /\ WithSave(r, b).saved = r.revision
         /\ WithSave(r, b).seen = b
<1> DEFINE kept == IF CompileIsCurrent(r) THEN Build(r, b) ELSE r.built
           q == [r EXCEPT !.seen = b, !.saved = r.revision,
                          !.save = [status |-> "passed", rev |-> r.revision], !.built = kept]
<1>1. WithSave(r, b) = q
  BY DEF WithSave
<1>2. kept \in Maybe(BuildRecord)
  <2>1. Build(r, b) \in BuildRecord
    BY DEF Build, BuildRecord, SessionRecord, CompileResult
  <2>2. QED
    BY <2>1, MaybeIs DEF SessionRecord
<1>3. [status |-> "passed", rev |-> r.revision] \in SaveResult
  BY DEF SaveResult, SessionRecord
<1>4. /\ q \in SessionRecord /\ SamePlan(r, q) /\ SameDelivery(r, q) /\ q.inflight = r.inflight
      /\ q.revision = r.revision /\ q.running = r.running /\ q.last = r.last
      /\ q.compile = r.compile /\ q.assigns = r.assigns /\ q.verRev = r.verRev
      /\ q.saved = r.revision /\ q.seen = b /\ q.built = kept
  <2> HIDE DEF kept
  <2>1. QED
    BY <1>2, <1>3 DEF SessionRecord, SamePlan, SameDelivery
<1>5. kept # None =>
        /\ r.compile.status \in Outcome
        /\ kept.rev = r.revision /\ kept.run = r.compile.run
        /\ Written(kept.data.content) = r.revision
  <2>1. CASE CompileIsCurrent(r)
    BY <2>1 DEF Sound, Counted, Build, CompileIsCurrent, Outcome
  <2>2. CASE ~CompileIsCurrent(r)
    BY <2>2 DEF Sound, Results
  <2>3. QED
    BY <2>1, <2>2
<1> HIDE DEF q, kept
<1>6. Shape(q)
  BY <1>4 DEF Sound, Shape, SamePlan
<1>7. Counted(q)
  BY <1>4 DEF Sound, Counted, Known, SamePlan, SessionRecord
<1>8. Delivered(q)
  BY <1>4, DeliveryIs
<1>9. Results(q)
  BY <1>4, <1>5 DEF Sound, Results, CompileIsCurrent
<1>10. QED
  BY <1>1, <1>4, <1>6, <1>7, <1>8, <1>9 DEF Sound

\* A command read back: only the results of the session change.
LEMMA ReadStep ==
  ASSUME IInv, pc = "acted", s' \in SessionRecord, SamePlan(s, s'), SameDelivery(s, s'),
         s'.inflight = s.inflight, Sound(s'), receipt' = receipt, pc' = "read",
         UNCHANGED <<env, ghosts>>,
         call' \in CallRecord, call'.left = call.left,
         call'.after = Effect(s.inflight.before, Cmd),
         call'.data # None => Written(call'.data.data.content) = call'.data.rev,
         Cmd.op = "save" => /\ call'.data # None /\ call'.data.rev = s'.revision
                            /\ s'.saved = s'.revision
  PROVE  IInv'
<1>1. /\ s # None /\ s.inflight # None /\ s.context # None /\ receipt.context # None
      /\ Queue(s.pending, issued) /\ Sent(s, sends) /\ source \in Content /\ ide \in IdeRecord
      /\ pc \in Flying
  BY FlyingType, InFlight DEF Flying
<1>2. Sent(s', sends) /\ Queue(s'.pending, issued)
  BY <1>1, SentSame DEF SamePlan
<1>3. source' = source /\ ide' = ide /\ UNCHANGED <<file, issued, accepted, sends>>
  BY DEF env, ghosts
<1>4. CallSound'
  BY <1>1, FlyingCall DEF SamePlan, SameDelivery, Flying
<1>5. FlightSound'
  BY DEF FlightSound, Cmd, IInv
<1>6. QED
  BY <1>1, <1>2, <1>3, <1>4, <1>5, ThreadStep DEF SamePlan, Working

\* What holds when a command is to be read back.
LEMMA ActedIs ==
  ASSUME IInv, pc = "acted"
  PROVE  /\ s \in SessionRecord /\ Sound(s) /\ s.inflight # None /\ s.inflight \in FlightRecord
         /\ Cmd \in Command /\ Known(s) = s.inflight.before /\ file \in Bytes /\ source \in Content
         /\ Cmd.op = "compile" => s.inflight.obs # None
         /\ Cmd.op = "save" => s.inflight.bytes # None
         /\ [call EXCEPT !.after = source] \in CallRecord
         /\ [call EXCEPT !.after = source].left = call.left
         /\ [call EXCEPT !.after = source].after = source
         /\ [call EXCEPT !.after = source].data = call.data
         /\ call.data # None => Written(call.data.data.content) = call.data.rev
         /\ Cmd.op # "edit" => Effect(s.inflight.before, Cmd) = s.inflight.before
<1>1. pc \in Flying
  BY DEF Flying
<1>2. call \in CallRecord /\ source \in Content
  BY <1>1, FlyingType
<1>3. [call EXCEPT !.after = source] \in CallRecord
  BY <1>2 DEF CallRecord
<1>4. QED
  BY <1>1, <1>2, <1>3, FlyingType, InFlight, EffectIs DEF IInv, FlightSound, CallRecord

\* The readback of an edit keeps the invariant.
LEMMA ReadEditKeeps ==
  ASSUME IInv, ReadEdit PROVE IInv'
<1>1. s' = s /\ SamePlan(s, s') /\ SameDelivery(s, s')
  BY DEF ReadEdit, SamePlan, SameDelivery
<1>2. QED
  BY <1>1, ActedIs, ReadStep DEF ReadEdit, Edits

\* The readback of an address query keeps the invariant.
LEMMA ReadAssignKeeps ==
  ASSUME IInv, ReadAssign PROVE IInv'
<1> DEFINE answer == [status |-> "passed", rev |-> s.revision, run |-> s.compile.run]
<1>1. pc = "acted" /\ Cmd.op = "assign" /\ source = s.inflight.before /\ Sound(s)
      /\ s \in SessionRecord /\ s.inflight # None
  BY ActedIs DEF ReadAssign, Unchanged
<1>2. answer \in QueryResult
  BY <1>1 DEF QueryResult, SessionRecord, CompileResult
<1>3. /\ s' \in SessionRecord /\ SamePlan(s, s') /\ SameDelivery(s, s') /\ SameNumbers(s, s')
      /\ s'.inflight = s.inflight /\ s'.compile = s.compile /\ s'.built = s.built
      /\ s'.assigns = answer /\ s'.last = s.last /\ s'.running = s.running
  BY <1>1, <1>2 DEF ReadAssign, SessionRecord, SamePlan, SameDelivery, SameNumbers
<1>4. Sound(s')
  <2>1. CompileIsCurrent(s)
    BY <1>1 DEF Sound, Results, Cmd
  <2>2. Shape(s') /\ Counted(s') /\ Delivered(s')
    BY <1>1, <1>3 DEF Sound, Shape, Counted, Delivered, Known, SamePlan, SameDelivery, SameNumbers
  <2>3. Results(s')
    BY <1>1, <1>3, <2>1 DEF Sound, Results, CompileIsCurrent, SameNumbers
  <2>4. QED
    BY <2>2, <2>3 DEF Sound
<1>5. QED
  BY <1>1, <1>3, <1>4, ActedIs, ReadStep DEF ReadAssign

\* The readback of a compile keeps the invariant.
LEMMA ReadCompileKeeps ==
  ASSUME IInv, ReadCompile PROVE IInv'
<1> DEFINE run == s.inflight.obs
           r == WithCompile(s, run)
<1>1. /\ pc = "acted" /\ Cmd.op = "compile" /\ source = s.inflight.before /\ Sound(s)
      /\ s \in SessionRecord /\ s.inflight # None /\ run # None /\ s.inflight.cmd.op = "compile"
      /\ Known(s) = source /\ file \in Bytes
  BY ActedIs DEF ReadCompile, Unchanged, Cmd
<1>2. run \in RunRecord /\ s.last = run /\ s.running = None
  BY <1>1, FlightFields DEF Sound, Results
<1>3. /\ SamePlan(s, r) /\ SameDelivery(s, r) /\ SameNumbers(s, r) /\ r.inflight = s.inflight
      /\ r.compile = [status |-> run.outcome, rev |-> s.revision, run |-> run.run]
      /\ r.built = s.built /\ r.assigns = s.assigns /\ r.last = run /\ r.running = None
  BY <1>1, <1>2 DEF WithCompile, SessionRecord, SamePlan, SameDelivery, SameNumbers
<1>4. Sound(r) /\ r.compile \in CompileResult /\ r.compile.status \in Outcome
  BY <1>1, <1>2, <1>3, TakeCompile
<1>5. r \in SessionRecord
  BY <1>1, <1>3, <1>4 DEF WithCompile, SessionRecord
<1>6. DiskChanged(r) => file.content = Known(r)
  BY <1>1, <1>3 DEF ReadCompile, Acknowledged, DiskChanged, SamePlan, SameNumbers, Known
<1>7. s' = AdoptCompileSave(r)
  BY DEF ReadCompile
<1> HIDE DEF r
<1>8. /\ s' \in SessionRecord /\ Sound(s') /\ SamePlan(s, s') /\ SameDelivery(s, s')
      /\ s'.inflight = s.inflight
  BY <1>1, <1>3, <1>4, <1>5, <1>6, <1>7, AdoptIs DEF SamePlan, SameDelivery
<1>9. QED
  BY <1>1, <1>8, ActedIs, ReadStep DEF ReadCompile

\* The readback of a Save compares the bytes with the confirmed source.
LEMMA ReadSaveKeeps ==
  ASSUME IInv, ReadSave PROVE IInv'
<1> DEFINE b == s.inflight.bytes
           d == Delivery(s, b, Cmd.id)
<1>1. /\ pc = "acted" /\ Cmd.op = "save" /\ Sound(s)
      /\ s \in SessionRecord /\ s.inflight # None /\ b # None /\ s.inflight.cmd.op = "save"
      /\ Known(s) = s.inflight.before /\ s.inflight.before \in Content
      /\ Cmd.id \in Ids /\ call \in CallRecord
  BY ActedIs, FlightFields, FlyingType DEF ReadSave, Cmd, Flying
<1>2. b \in Bytes /\ b.content = Known(s)
  BY <1>1, FlightFields DEF Sound, Shape
<1>3. /\ s' \in SessionRecord /\ Sound(s') /\ SamePlan(s, s') /\ SameDelivery(s, s')
      /\ s'.inflight = s.inflight /\ s'.revision = s.revision /\ s'.saved = s'.revision
  BY <1>1, <1>2, SaveIs DEF ReadSave
<1>4. d \in DeliveryRecord /\ d # None /\ d.rev = s.revision /\ Written(d.data.content) = d.rev
  <2>1. d \in DeliveryRecord
    BY <1>1, <1>2 DEF Delivery, DeliveryRecord, SessionRecord
  <2>2. QED
    BY <1>1, <1>2, <2>1, Absent DEF Delivery, Sound, Counted
<1>5. call' = [call EXCEPT !.after = s.inflight.before, !.data = d]
  BY DEF ReadSave
<1> HIDE DEF d
<1>6. /\ call' \in CallRecord /\ call'.left = call.left /\ call'.data = d
      /\ call'.after = s.inflight.before
  BY <1>1, <1>4, <1>5, MaybeIs DEF CallRecord
<1>7. QED
  BY <1>1, <1>3, <1>4, <1>6, ActedIs, ReadStep DEF ReadSave

\* The readback of a reopened file keeps the invariant.
LEMMA ReadReopenKeeps ==
  ASSUME IInv, ReadReopen PROVE IInv'
<1>1. /\ pc = "acted" /\ Cmd.op = "reopen" /\ source = s.inflight.before /\ Sound(s)
      /\ s \in SessionRecord /\ s.inflight # None /\ s.inflight.cmd.op = "reopen"
      /\ Known(s) = source /\ file \in Bytes
  BY ActedIs DEF ReadReopen, Unchanged, Cmd
<1>2. /\ s' \in SessionRecord /\ SamePlan(s, s') /\ SameDelivery(s, s') /\ SameResults(s, s')
      /\ s'.inflight = s.inflight /\ s'.last = s.last /\ s'.running = s.running
      /\ s'.revision = s.revision /\ s'.saved = s.saved /\ s'.verRev = s.verRev /\ s'.seen = file
  BY <1>1 DEF ReadReopen, SessionRecord, SamePlan, SameDelivery, SameResults
<1>3. s.saved = Written(file.content)
  <2>1. s.saved = s.revision /\ s.revision = Written(source)
    BY <1>1 DEF Sound, Shape, Counted
  <2>2. s.saved = Written(s.seen.content)
    BY <1>1 DEF Sound, Counted
  <2>3. QED
    BY <2>1, <2>2 DEF ReadReopen, Acknowledged, DiskChanged
<1>4. Sound(s')
  <2>1. Shape(s') /\ Counted(s') /\ Delivered(s')
    BY <1>1, <1>2, <1>3 DEF Sound, Shape, Counted, Delivered, Known, SamePlan, SameDelivery
  <2>2. Results(s')
    BY <1>1, <1>2 DEF Sound, Results, CompileIsCurrent, SameResults
  <2>3. QED
    BY <2>1, <2>2 DEF Sound
<1>5. QED
  BY <1>1, <1>2, <1>4, ActedIs, ReadStep DEF ReadReopen

-----------------------------------------------------------------------------
(* A command leaves the plan *)

\* The rest of a plan.
LEMMA TailPlan ==
  ASSUME NEW q \in Seq(Command), q # <<>>
  PROVE  /\ Tail(q) \in Seq(Command) /\ Len(Tail(q)) = Len(q) - 1
         /\ \A k \in DOMAIN Tail(q) : k + 1 \in DOMAIN q /\ Tail(q)[k] = q[k + 1]
BY HeadTailProperties

\* The plan without its head is in order, and behind every Save that was sent.
LEMMA PlanWithout ==
  ASSUME NEW r \in SessionRecord, NEW h, NEW n, NEW q, Queue(r.pending, h), Sent(r, n),
         q.pending = (IF r.pending = <<>> THEN r.pending ELSE Tail(r.pending))
  PROVE  Queue(q.pending, h) /\ Sent(q, n)
<1>1. r.pending \in Seq(Command)
  BY DEF SessionRecord
<1>2. CASE r.pending = <<>>
  BY <1>2 DEF Queue, Sent
<1>3. CASE r.pending # <<>>
  <2>1. \A k \in DOMAIN q.pending : k + 1 \in DOMAIN r.pending /\ q.pending[k] = r.pending[k + 1]
    BY <1>1, <1>3, TailPlan
  <2>2. \A k, l \in DOMAIN q.pending : k \in Nat /\ l \in Nat /\ (k < l => k + 1 < l + 1) /\ k + 1 # 1
    <3>1. q.pending \in Seq(Command)
      BY <1>1, <1>3, TailPlan
    <3>2. QED
      BY <3>1
  <2>3. Queue(q.pending, h)
    BY <2>1, <2>2 DEF Queue
  <2>4. Sent(q, n)
    BY <2>1, <2>2 DEF Sent
  <2>5. QED
    BY <2>3, <2>4
<1>4. QED
  BY <1>2, <1>3

\* Results of the revision before an edit are stale.
LEMMA ChangedIs ==
  ASSUME NEW r \in SessionRecord
  PROVE  /\ Changed(r) \in SessionRecord /\ Changed(r).revision = r.revision + 1
         /\ Changed(r).compile.status \notin Outcome /\ Changed(r).assigns.status # "passed"
         /\ Changed(r).built = None /\ Changed(r).inflight = r.inflight
         /\ SamePlan(r, Changed(r)) /\ SameDelivery(r, Changed(r))
         /\ Changed(r).saved = r.saved /\ Changed(r).verRev = r.verRev /\ Changed(r).seen = r.seen
         /\ Changed(r).last = r.last /\ Changed(r).running = r.running
         /\ Changed(r).state = r.state
<1> DEFINE compile == [status |-> IF r.compile.status = "not_run" THEN "not_run" ELSE "stale",
                       rev |-> r.compile.rev, run |-> 0]
           assigns == IF r.assigns.status = "not_run" THEN NotRun ELSE [NotRun EXCEPT !.status = "stale"]
           saved == [status |-> IF r.save.status = "passed" THEN "stale" ELSE "not_run",
                     rev |-> r.save.rev]
           next == r.revision + 1
<1>1. compile \in CompileResult /\ compile.status \notin Outcome
  BY DEF CompileResult, SessionRecord, Outcome
<1>2. assigns \in QueryResult /\ assigns.status # "passed"
  BY DEF QueryResult, NotRun
<1>3. saved \in SaveResult
  BY DEF SaveResult, SessionRecord
<1>4. Changed(r) = [r EXCEPT !.revision = next, !.built = None, !.compile = compile,
                             !.assigns = assigns, !.save = saved]
  BY DEF Changed
<1> HIDE DEF compile, assigns, saved
<1>5. Changed(r) \in SessionRecord
  <2>1. next \in Nat /\ None \in Maybe(BuildRecord)
    BY MaybeIs DEF SessionRecord
  <2> HIDE DEF next
  <2>2. QED
    BY <1>1, <1>2, <1>3, <1>4, <2>1 DEF SessionRecord
<1>6. QED
  BY <1>1, <1>2, <1>4, <1>5 DEF SessionRecord, SamePlan, SameDelivery

\* A session that has no command in flight any more keeps its results: r, the
\* session with the answer of its command; c, the source read back.
LEMMA Completes ==
  ASSUME NEW r \in SessionRecord, NEW q, NEW c \in Content,
         q.inflight = None, q.context = c, q.running = None, q.last = r.last,
         q.seen = r.seen, q.saved = r.saved, q.verRev = r.verRev, Results(r),
         q.saved = Written(q.seen.content), q.saved <= q.revision, q.verRev <= q.saved,
         q.revision = Written(c), Delivered(q),
         \/ SameResults(r, q) /\ q.revision = r.revision
         \/ q.compile.status \notin Outcome /\ q.assigns.status # "passed" /\ q.built = None
  PROVE  Sound(q)
<1>1. Known(q) = c
  BY Absent DEF Known
<1>2. Shape(q) /\ Counted(q)
  BY <1>1 DEF Shape, Counted
<1>3. Results(q)
  BY DEF Results, SameResults, CompileIsCurrent
<1>4. QED
  BY <1>2, <1>3 DEF Sound

\* When the command was an edit that took effect, the revision counts it.
LEMMA Edited ==
  ASSUME NEW r \in SessionRecord, Sound(r), r.inflight # None, r.inflight.cmd.op # "save",
         NEW c \in Content, c = Effect(r.inflight.before, r.inflight.cmd),
         NEW t, t = (IF r.inflight.cmd.op \in Edits /\ c # r.inflight.before THEN Changed(r) ELSE r)
  PROVE  /\ t \in SessionRecord /\ t.revision = Written(c) /\ t.inflight = r.inflight
         /\ SamePlan(r, t) /\ SameDelivery(r, t) /\ t.seen = r.seen /\ t.saved = r.saved
         /\ t.verRev = r.verRev /\ t.last = r.last
         /\ t.saved = Written(t.seen.content) /\ t.saved <= t.revision /\ t.verRev <= t.saved
         /\ \/ SameResults(r, t) /\ t.revision = r.revision
            \/ t.compile.status \notin Outcome /\ t.assigns.status # "passed" /\ t.built = None
<1>1. /\ r.inflight.before \in Content /\ r.inflight.cmd \in Command
      /\ r.revision = Written(r.inflight.before)
      /\ r.saved = Written(r.seen.content) /\ r.saved <= r.revision /\ r.verRev <= r.saved
      /\ r.saved \in Nat /\ r.revision \in Nat
  <2>1. r.inflight.before \in Content /\ r.inflight.cmd \in Command
    BY FlightFields
  <2>2. Known(r) = r.inflight.before
    BY <2>1, KnownIs, Absent DEF Sound, Shape
  <2>3. QED
    BY <2>1, <2>2 DEF Sound, Counted, SessionRecord
<1>2. CASE r.inflight.cmd.op \in Edits /\ c # r.inflight.before
  <2>1. r.inflight.cmd.op = "edit" /\ Written(c) = r.revision + 1
    BY <1>1, <1>2, EffectIs
  <2>2. QED
    BY <1>1, <1>2, <2>1, ChangedIs
<1>3. CASE ~(r.inflight.cmd.op \in Edits /\ c # r.inflight.before)
  <2>1. c = r.inflight.before
    BY <1>1, <1>3, EffectIs DEF Edits
  <2>2. QED
    BY <1>1, <1>3, <2>1 DEF SamePlan, SameDelivery, SameResults
<1>4. QED
  BY <1>2, <1>3

\* A confirmed command leaves the plan; its effect becomes the confirmed source.
LEMMA CommitKeeps ==
  ASSUME IInv, Commit PROVE IInv'
<1> DEFINE c == call.after
           t == IF Cmd.op \in Edits /\ c # s.inflight.before THEN Changed(s) ELSE s
           done == [t EXCEPT !.context = c, !.inflight = None, !.pending = Tail(@)]
<1>1. pc \in Flying /\ pc = "read"
  BY DEF Commit, Flying
<1>2. /\ s \in SessionRecord /\ s # None /\ s.inflight # None /\ Sound(s)
      /\ call \in CallRecord /\ c \in Content /\ c = Effect(s.inflight.before, Cmd)
      /\ s.pending # <<>> /\ s.pending \in Seq(Command)
      /\ Queue(s.pending, issued) /\ Sent(s, sends) /\ s.context # None /\ receipt.context # None
  BY <1>1, FlyingType, InFlight DEF IInv, FlightSound, CallRecord
<1>3. s.running = None
  <2>1. Cmd.op = "compile" => s.inflight.obs # None
    BY <1>1 DEF IInv, FlightSound
  <2>2. QED
    BY <1>2, <2>1 DEF Sound, Results, Cmd
<1>4. /\ receipt' = receipt /\ call' = call /\ pc' = "committed"
      /\ UNCHANGED <<file, issued, accepted, sends, source, ide>>
      /\ s' = IF Cmd.op = "save"
              THEN [done EXCEPT !.pendVer = s.revision, !.delivery = call.data]
              ELSE done
  BY DEF Commit, env, ghosts
<1>5. t \in SessionRecord /\ t.pending = s.pending /\ SameDelivery(s, t) /\ t.running = None
      /\ t.last = s.last
  BY <1>2, <1>3, ChangedIs DEF SamePlan, SameDelivery
<1>6. /\ done \in SessionRecord /\ done.context = c /\ done.inflight = None
      /\ done.pending = Tail(s.pending) /\ SameDelivery(s, done) /\ done.running = None
      /\ done.last = s.last /\ SameNumbers(t, done) /\ SameResults(t, done)
  <2>1. None \in Maybe(FlightRecord) /\ c \in Maybe(Content)
    BY <1>2, MaybeIs
  <2>2. Tail(t.pending) \in Seq(Command)
    BY <1>2, <1>5, TailPlan
  <2> HIDE DEF t
  <2>3. done \in SessionRecord
    BY <1>5, <2>1, <2>2 DEF SessionRecord
  <2>4. QED
    BY <1>2, <1>5, <2>3 DEF SessionRecord, SameDelivery, SameNumbers, SameResults
<1>7. Queue(done.pending, issued) /\ Sent(done, sends)
  BY <1>2, <1>6, PlanWithout
<1>8. CASE Cmd.op = "save"
  <2>1. /\ call.data # None /\ call.data \in DeliveryRecord /\ call.data \in Maybe(DeliveryRecord)
        /\ call.data.rev = s.revision /\ s.saved = s.revision
        /\ Written(call.data.data.content) = call.data.rev
        /\ s.revision \in Nat /\ s.revision \in Maybe(Nat)
    <3>1. call.data # None /\ call.data.rev = s.revision /\ s.saved = s.revision
          /\ Written(call.data.data.content) = call.data.rev
      BY <1>1, <1>8, FlyingType DEF IInv, FlightSound
    <3>2. call.data \in Maybe(DeliveryRecord) /\ s.revision \in Nat
      BY <1>2 DEF CallRecord, SessionRecord
    <3>3. QED
      BY <3>1, <3>2, MaybeIs
  <2>2. t = s /\ c = s.inflight.before /\ Known(s) = s.inflight.before
    BY <1>1, <1>2, <1>8, FlyingType, InFlight, EffectIs DEF Edits
  <2>3. s' = [done EXCEPT !.pendVer = s.revision, !.delivery = call.data]
    BY <1>4, <1>8
  <2> HIDE DEF done, t
  <2>4. /\ s' \in SessionRecord /\ s'.inflight = None /\ s'.context = c /\ s'.pending = done.pending
        /\ s'.running = None /\ s'.last = s.last /\ SameNumbers(s, s') /\ SameResults(s, s')
        /\ s'.delivery = call.data /\ s'.pendVer = s.revision
    BY <1>6, <2>1, <2>2, <2>3 DEF SessionRecord, SameNumbers, SameResults
  <2>5. Delivered(s')
    BY <2>1, <2>4 DEF Delivered, SameNumbers
  <2>6. s.revision = Written(c) /\ s.saved = Written(s.seen.content) /\ s.verRev <= s.saved
    BY <1>2, <2>1, <2>2 DEF Sound, Counted
  <2>7. Sound(s')
    BY <1>2, <2>1, <2>4, <2>5, <2>6, Completes DEF Sound, SameNumbers
  <2>8. Sent(s', sends) /\ Queue(s'.pending, issued)
    BY <1>6, <1>7, <2>4, SentSame
  <2>9. CallSound' /\ FlightSound'
    BY <1>1, <1>4, <2>1, <2>4
       DEF IInv, CallSound, FlightSound, Flying, Between, Resting
  <2>10. QED
    BY <1>1, <1>2, <1>4, <2>4, <2>7, <2>8, <2>9, Absent, FlyingType, ThreadStep DEF Working
<1>9. CASE Cmd.op # "save"
  <2>1. s' = done
    BY <1>4, <1>9
  <2>2. /\ t.revision = Written(c) /\ t.saved = Written(t.seen.content)
        /\ t.saved <= t.revision /\ t.verRev <= t.saved /\ t.saved = s.saved
        /\ t.seen = s.seen /\ t.verRev = s.verRev
        /\ \/ SameResults(s, t) /\ t.revision = s.revision
           \/ t.compile.status \notin Outcome /\ t.assigns.status # "passed" /\ t.built = None
    BY <1>2, <1>9, Edited DEF Cmd
  <2> HIDE DEF done, t
  <2>3. Delivered(done)
    BY <1>2, <1>6, <2>2 DEF Sound, Delivered, SameDelivery, SameNumbers
  <2>4. Sound(done)
    BY <1>2, <1>3, <1>6, <2>2, <2>3, Completes DEF Sound, SameNumbers, SameResults
  <2>5. /\ s' \in SessionRecord /\ s'.inflight = None /\ s'.context = c /\ SameDelivery(s, s')
        /\ Sound(s') /\ Sent(s', sends) /\ Queue(s'.pending, issued)
    BY <1>6, <1>7, <2>1, <2>4
  <2>6. CallSound' /\ FlightSound'
    BY <1>1, <1>2, <1>4, <2>5
       DEF IInv, CallSound, FlightSound, Flying, Between, Resting, SameDelivery
  <2>7. QED
    BY <1>1, <1>2, <1>4, <2>5, <2>6, Absent, FlyingType, ThreadStep DEF Working
<1>10. QED
  BY <1>8, <1>9

\* A save that became a project version is no longer handed on.
LEMMA RebaseKeeps ==
  ASSUME IInv, Rebase PROVE IInv'
<1>1. /\ s # None /\ s \in SessionRecord /\ RecordSound(s) /\ pc = "idle" /\ s.delivery # None
      /\ call \in CallRecord /\ source \in Content /\ ide \in IdeRecord
  BY Fields DEF Rebase, IInv, TypeOK
<1>2. s.pendVer = s.delivery.rev /\ s.delivery.rev \in Nat /\ s.delivery.rev <= s.saved
  <2>1. s.delivery \in DeliveryRecord
    BY <1>1, MaybeIs DEF SessionRecord
  <2>2. QED
    BY <1>1, <2>1 DEF RecordSound, Sound, Delivered, DeliveryRecord
<1>3. s.pendVer # None
  BY <1>2, Absent
<1>4. /\ s' = [s EXCEPT !.verRev = s.pendVer, !.pendVer = None, !.delivery = None]
      /\ receipt' = Durable(s') /\ pc' = pc /\ call' = call
      /\ UNCHANGED <<file, issued, accepted, sends, source, ide>>
  BY <1>3 DEF Rebase, env, ghosts
<1>5. /\ s' \in SessionRecord /\ SamePlan(s, s') /\ SameResults(s, s') /\ s'.inflight = s.inflight
      /\ s'.revision = s.revision /\ s'.saved = s.saved /\ s'.seen = s.seen
      /\ s'.verRev = s.delivery.rev /\ s'.delivery = None /\ s'.last = s.last
      /\ s'.running = s.running /\ s'.state = s.state
  <2>1. None \in Maybe(Nat) /\ None \in Maybe(DeliveryRecord)
    BY MaybeIs
  <2>2. QED
    BY <1>1, <1>2, <1>4, <2>1 DEF SessionRecord, SamePlan, SameResults
<1>6. Sound(s')
  <2>1. Shape(s') /\ Counted(s') /\ Delivered(s')
    BY <1>1, <1>2, <1>5 DEF RecordSound, Sound, Shape, Counted, Delivered, Known, SamePlan
  <2>2. Results(s')
    BY <1>1, <1>5 DEF RecordSound, Sound, Results, CompileIsCurrent, SameResults
  <2>3. QED
    BY <2>1, <2>2 DEF Sound
<1>7. Sent(s', sends) /\ Queue(s'.pending, issued)
  BY <1>1, <1>5, SentSame DEF RecordSound, SamePlan
<1>8. Copy(s', receipt')
  BY <1>4, <1>5, DurableIs
<1>9. CallSound' /\ FlightSound'
  BY <1>1, <1>4, <1>5, <1>8
     DEF IInv, CallSound, FlightSound, Flying, Between, Resting, SamePlan, Copy
<1>10. QED
  BY <1>1, <1>4, <1>5, <1>6, <1>7, <1>9, ThreadStep DEF SamePlan

-----------------------------------------------------------------------------
(* Reconciliation *)

\* What a reconciled session is, whatever was in flight.
LEMMA ReboundIs ==
  ASSUME NEW r \in SessionRecord, NEW data \in Maybe(DeliveryRecord), Rebound(r, data),
         source \in Content
  PROVE  /\ s' \in SessionRecord /\ s'.context = source /\ s'.inflight = None
         /\ s'.pending = r.pending /\ SameNumbers(r, s') /\ SameResults(r, s')
         /\ s'.last = r.last /\ s'.running = r.running
         /\ data = None => SameDelivery(r, s')
         /\ data # None => s'.delivery = data /\ s'.pendVer = r.revision
         /\ call' \in CallRecord /\ call'.data = (IF data # None THEN data ELSE r.delivery)
         /\ receipt' = Durable(s') /\ pc' = "returning" /\ source' = source
         /\ UNCHANGED <<file, ide, issued, accepted, sends>>
<1> DEFINE state == IF r.pending = <<>> THEN "ready" ELSE "paused"
           version == IF data # None THEN r.revision ELSE r.pendVer
           delivery == IF data # None THEN data ELSE r.delivery
<1>1. /\ s' = [r EXCEPT !.context = source, !.inflight = None, !.state = state,
                         !.pendVer = version, !.delivery = delivery]
      /\ call' = [NoCall EXCEPT !.data = delivery]
      /\ receipt' = Durable(s') /\ pc' = "returning" /\ source' = source
      /\ UNCHANGED <<file, ide, issued, accepted, sends>>
  BY DEF Rebound, env, ghosts
<1>2. /\ state \in States /\ version \in Maybe(Nat) /\ delivery \in Maybe(DeliveryRecord)
      /\ source \in Maybe(Content) /\ None \in Maybe(FlightRecord)
  BY MaybeIs DEF States, SessionRecord
<1>3. /\ data = None => version = r.pendVer /\ delivery = r.delivery
      /\ data # None => version = r.revision /\ delivery = data
  OBVIOUS
<1> HIDE DEF state, version, delivery
<1>4. s' \in SessionRecord
  BY <1>1, <1>2 DEF SessionRecord
<1>5. call' \in CallRecord /\ call'.data = delivery
  BY <1>1, <1>2, NoCallIs DEF CallRecord
<1>6. QED
  BY <1>1, <1>3, <1>4, <1>5 DEF SessionRecord, SameNumbers, SameResults, SameDelivery

\* A reconciled session: r, the session with the answer of its command, or of
\* none; its numbers count the source read and the bytes of the file.
LEMMA ReboundKeeps ==
  ASSUME IInv, s # None, pc \in {"idle", "restored"},
         NEW r \in SessionRecord, NEW data \in Maybe(DeliveryRecord), Rebound(r, data),
         r.running = None, Results(r), Delivered(r), r.delivery = s.delivery,
         r.revision = Written(source), r.saved = Written(r.seen.content),
         r.saved <= r.revision, r.verRev <= r.saved,
         Queue(r.pending, issued), \A q : q.pending = r.pending => Sent(q, sends),
         data # None => /\ Written(data.data.content) = data.rev
                        /\ data.rev = r.revision /\ r.saved = r.revision
  PROVE  IInv'
<1>1. source \in Content /\ ide \in IdeRecord /\ s \in SessionRecord
  BY Fields DEF IInv, TypeOK
<1>2. /\ s' \in SessionRecord /\ s'.context = source /\ s'.inflight = None
      /\ s'.pending = r.pending /\ SameNumbers(r, s') /\ SameResults(r, s')
      /\ s'.last = r.last /\ s'.running = r.running
      /\ data = None => SameDelivery(r, s')
      /\ data # None => s'.delivery = data /\ s'.pendVer = r.revision
      /\ call' \in CallRecord /\ call'.data = (IF data # None THEN data ELSE r.delivery)
      /\ receipt' = Durable(s') /\ pc' = "returning" /\ source' = source
      /\ UNCHANGED <<file, ide, issued, accepted, sends>>
  BY <1>1, ReboundIs
<1>3. Delivered(s')
  <2>1. CASE data = None
    BY <1>2, <2>1 DEF Delivered, SameDelivery, SameNumbers
  <2>2. CASE data # None
    <3>1. r.revision \in Nat
      BY DEF SessionRecord
    <3>2. QED
      BY <1>2, <2>2, <3>1 DEF Delivered, SameNumbers
  <2>3. QED
    BY <2>1, <2>2
<1>4. Sound(s')
  BY <1>1, <1>2, <1>3, Completes DEF SameNumbers
<1>5. Sent(s', sends) /\ Queue(s'.pending, issued)
  BY <1>2
<1>6. CallSound' /\ FlightSound'
  <2>1. receipt'.delivery = s'.delivery
    BY <1>2 DEF Durable, SessionRecord
  <2>2. call'.data # None => Written(call'.data.data.content) = call'.data.rev
    BY <1>2 DEF Delivered
  <2>3. QED
    BY <1>2, <2>1, <2>2 DEF CallSound, FlightSound, Flying, Between, Resting
<1>7. QED
  BY <1>1, <1>2, <1>4, <1>5, <1>6, Absent, ThreadStep

\* What holds when a session is reconciled.
LEMMA RebindIs ==
  ASSUME IInv, CanRebind
  PROVE  /\ s # None /\ pc \in {"idle", "restored"} /\ s \in SessionRecord /\ Sound(s)
         /\ Queue(s.pending, issued) /\ Sent(s, sends)
         /\ Untouched(s, source) /\ source \in Content /\ file \in Bytes /\ ide \in IdeRecord
         /\ s.inflight # None =>
              /\ s.pending # <<>> /\ Known(s) = s.inflight.before /\ s.inflight.before \in Content
              /\ Cmd \in Command /\ s.state = "unconfirmed"
         /\ s.running # None => s.inflight # None
<1>1. s # None /\ pc \in {"idle", "restored"} /\ s \in SessionRecord /\ RecordSound(s)
  BY Fields DEF CanRebind
<1>2. s.inflight # None => s.state = "unconfirmed"
  BY <1>1 DEF IInv, CallSound, Resting
<1>3. s.running # None => s.inflight # None
  BY <1>1 DEF RecordSound, Sound, Results
<1>4. QED
  BY <1>1, <1>2, <1>3, InFlight DEF RecordSound, IInv, TypeOK

\* Without the command that was in flight the plan holds nothing that was sent.
LEMMA DoneIs ==
  ASSUME IInv, CanRebind, s.inflight # None,
         NEW r \in SessionRecord, SamePlan(s, r)
  PROVE  /\ Done(r) \in SessionRecord
         /\ SameNumbers(r, Done(r)) /\ SameResults(r, Done(r)) /\ SameDelivery(r, Done(r))
         /\ Done(r).running = r.running /\ Done(r).last = r.last /\ Done(r).inflight = r.inflight
         /\ Results(r) => Results(Done(r))
         /\ Queue(Done(r).pending, issued)
         /\ \A q : q.pending = Done(r).pending => Sent(q, sends)
<1>1. r.pending = s.pending /\ r.pending # <<>> /\ r.pending \in Seq(Command)
  BY RebindIs DEF SamePlan, SessionRecord
<1>2. Done(r) = [r EXCEPT !.pending = Tail(r.pending)] /\ Tail(r.pending) \in Seq(Command)
  BY <1>1, TailPlan DEF Done
<1>3. Done(r) \in SessionRecord
  BY <1>2 DEF SessionRecord
<1>4. /\ SameNumbers(r, Done(r)) /\ SameResults(r, Done(r)) /\ SameDelivery(r, Done(r))
      /\ Done(r).running = r.running /\ Done(r).last = r.last /\ Done(r).inflight = r.inflight
      /\ Done(r).pending = Tail(s.pending)
  BY <1>1, <1>2 DEF SessionRecord, SameNumbers, SameResults, SameDelivery
<1>5. Results(r) => Results(Done(r))
  BY <1>4 DEF Results, CompileIsCurrent, SameNumbers, SameResults
<1>6. \A q : q.pending = Done(r).pending => Queue(q.pending, issued) /\ Sent(q, sends)
  BY <1>1, <1>4, RebindIs, PlanWithout
<1>7. QED
  BY <1>3, <1>4, <1>5, <1>6

\* Reconciling a session without a command in flight keeps the invariant.
LEMMA RebindCleanKeeps ==
  ASSUME IInv, RebindClean PROVE IInv'
<1>1. CanRebind /\ s.inflight = None /\ Rebound(s, None) /\ (s.context = None \/ source = s.context)
  BY DEF RebindClean
<1>2. s.running = None /\ Sound(s) /\ s \in SessionRecord
  BY <1>1, RebindIs
<1>3. s.revision = Written(source)
  <2>1. CASE s.context = None
    <3>1. Commanded(source) = {} /\ Known(s) = <<>>
      BY <1>1, <2>1, RebindIs DEF Untouched, Known
    <3>2. Written(source) = 0 /\ Written(<<>>) = 0
      BY <3>1, FS_EmptySet, WrittenIs DEF Written
    <3>3. QED
      BY <1>2, <3>1, <3>2 DEF Sound, Counted
  <2>2. CASE s.context # None
    BY <1>1, <1>2, <2>2, KnownIs DEF Sound, Counted
  <2>3. QED
    BY <2>1, <2>2
<1>4. \A q : q.pending = s.pending => Sent(q, sends)
  BY <1>1, RebindIs DEF Sent
<1>5. None \in Maybe(DeliveryRecord) /\ s.saved = Written(s.seen.content)
      /\ s.saved <= s.revision /\ s.verRev <= s.saved
  BY <1>1, <1>2, MaybeIs DEF Sound, Counted
<1>6. QED
  BY <1>1, <1>2, <1>3, <1>4, <1>5, RebindIs, ReboundKeeps DEF Sound

\* An edit that shows in the source is counted, one that does not is planned again.
LEMMA RebindEditKeeps ==
  ASSUME IInv, RebindApplied \/ RebindNotApplied PROVE IInv'
<1>1. /\ CanRebind /\ s.inflight # None /\ Cmd.op \in Edits /\ None \in Maybe(DeliveryRecord)
      /\ Cmd = s.inflight.cmd
  BY MaybeIs DEF RebindApplied, RebindNotApplied, Cmd
<1>2. s \in SessionRecord /\ Sound(s) /\ s.running = None /\ Cmd.op # "save" /\ source \in Content
      /\ s.saved = Written(s.seen.content) /\ s.saved <= s.revision /\ s.verRev <= s.saved
  BY <1>1, RebindIs DEF Sound, Results, Counted, Edits
<1>3. CASE RebindApplied
  <2> DEFINE t == IF Cmd.op \in Edits /\ source # s.inflight.before THEN Changed(s) ELSE s
  <2>1. Rebound(Done(t), None) /\ source = Effect(s.inflight.before, Cmd)
    BY <1>1, <1>3 DEF RebindApplied
  <2>2. t.running = None
    BY <1>2, ChangedIs
  <2>3. /\ t \in SessionRecord /\ t.revision = Written(source)
        /\ SamePlan(s, t) /\ SameDelivery(s, t) /\ t.seen = s.seen /\ t.saved = s.saved
        /\ t.saved = Written(t.seen.content) /\ t.saved <= t.revision /\ t.verRev <= t.saved
        /\ t.last = s.last /\ t.inflight = s.inflight
        /\ \/ SameResults(s, t) /\ t.revision = s.revision
           \/ t.compile.status \notin Outcome /\ t.assigns.status # "passed" /\ t.built = None
    BY <1>1, <1>2, <2>1, Edited
  <2> HIDE DEF t
  <2>4. Results(t) /\ Delivered(t)
    BY <1>1, <1>2, <2>2, <2>3
       DEF Sound, Results, Delivered, SameDelivery, SameResults, CompileIsCurrent, Edits
  <2>5. /\ Done(t) \in SessionRecord
        /\ SameNumbers(t, Done(t)) /\ SameResults(t, Done(t)) /\ SameDelivery(t, Done(t))
        /\ Done(t).running = t.running /\ Results(Done(t))
        /\ Queue(Done(t).pending, issued)
        /\ \A q : q.pending = Done(t).pending => Sent(q, sends)
    BY <1>1, <2>3, <2>4, DoneIs
  <2>6. Delivered(Done(t)) /\ Done(t).delivery = s.delivery
    BY <2>3, <2>4, <2>5 DEF Delivered, SameDelivery, SameNumbers
  <2>7. QED
    BY <1>1, <2>1, <2>2, <2>3, <2>5, <2>6, RebindIs, ReboundKeeps DEF SameNumbers
<1>4. CASE RebindNotApplied
  <2>1. Rebound(s, None) /\ s.revision = Written(source)
    BY <1>1, <1>2, <1>4, RebindIs DEF RebindNotApplied, Sound, Counted
  <2>2. \A q : q.pending = s.pending => Sent(q, sends)
    <3>1. s.inflight.op = 0
      BY <1>1, <1>2 DEF Sound, Shape
    <3>2. QED
      BY <1>1, <3>1, RebindIs DEF Sent, Ids
  <2>3. QED
    BY <1>1, <1>2, <2>1, <2>2, RebindIs, ReboundKeeps DEF Sound
<1>5. QED
  BY <1>3, <1>4

\* The run a compile is answered with was made by the window, or is the one the
\* driver completed last.
LEMMA AnswerIs ==
  ASSUME IInv, Interrupted("compile"), CompileAnswer # None
  PROVE  /\ CompileAnswer \in RunRecord
         /\ s.inflight.obs # None => CompileAnswer = s.inflight.obs
         /\ CompileAnswer = s.last \/ s.compile.status = "running"
<1>1. /\ s \in SessionRecord /\ Sound(s) /\ s.inflight # None /\ s.inflight.cmd.op = "compile"
      /\ ide \in IdeRecord
  BY RebindIs DEF Interrupted, Cmd
<1>2. CASE s.inflight.obs # None
  BY <1>1, <1>2, FlightFields DEF CompileAnswer, Sound, Results
<1>3. CASE s.inflight.obs = None /\ s.last # None
  <2>1. s.last \in RunRecord
    BY <1>1, <1>3, MaybeIs DEF SessionRecord
  <2>2. QED
    BY <1>3, <2>1 DEF CompileAnswer
<1>4. CASE s.inflight.obs = None /\ s.last = None
  <2>1. /\ s.running # None /\ ide.output # None
        /\ CompileAnswer = [run |-> s.running, rev |-> s.revision, outcome |-> ide.output]
    BY <1>4 DEF CompileAnswer
  <2>2. s.running \in Ids /\ s.revision \in Nat /\ ide.output \in Outcome
    <3>1. s.running \in Maybe(Ids) /\ ide.output \in Maybe(Outcome) /\ s.revision \in Nat
      BY <1>1 DEF SessionRecord, IdeRecord
    <3>2. QED
      BY <2>1, <3>1, MaybeIs
  <2>3. CompileAnswer \in RunRecord
    BY <2>1, <2>2 DEF RunRecord
  <2>4. QED
    BY <1>1, <1>4, <2>1, <2>3 DEF Sound, Results
<1>5. QED
  BY <1>2, <1>3, <1>4

\* The session with that answer.
LEMMA AnsweredIs ==
  ASSUME IInv, Interrupted("compile"), CompileAnswer # None, NEW r,
         r = WithCompile([s EXCEPT !.last = CompileAnswer, !.running = None], CompileAnswer)
  PROVE  /\ r \in SessionRecord /\ Sound(r) /\ SamePlan(s, r) /\ SameNumbers(s, r)
         /\ SameDelivery(s, r) /\ r.inflight = s.inflight /\ r.running = None
         /\ r.compile.status \in Outcome /\ r.state = s.state
<1> DEFINE run == CompileAnswer
           compile == [status |-> run.outcome, rev |-> s.revision, run |-> run.run]
<1>1. /\ s \in SessionRecord /\ Sound(s) /\ s.inflight # None /\ s.inflight.cmd.op = "compile"
  BY RebindIs DEF Interrupted, Cmd
<1>2. run \in RunRecord /\ run \in Maybe(RunRecord) /\ None \in Maybe(Ids)
  BY AnswerIs, MaybeIs
<1>3. r = [s EXCEPT !.last = run, !.running = None, !.compile = compile]
  BY <1>1 DEF WithCompile, SessionRecord
<1> HIDE DEF run
<1>4. /\ SamePlan(s, r) /\ SameNumbers(s, r) /\ SameDelivery(s, r) /\ r.inflight = s.inflight
      /\ r.running = None /\ r.compile = compile /\ r.assigns = s.assigns /\ r.built = s.built
      /\ r.last = run /\ r.state = s.state
  BY <1>1, <1>3 DEF SessionRecord, SamePlan, SameNumbers, SameDelivery
<1>5. Sound(r) /\ r.compile \in CompileResult /\ r.compile.status \in Outcome
  BY <1>1, <1>2, <1>4, AnswerIs, TakeCompile DEF run
<1>6. r \in SessionRecord
  <2>1. compile \in CompileResult
    BY <1>4, <1>5
  <2> HIDE DEF compile
  <2>2. QED
    BY <1>1, <1>2, <1>3, <2>1 DEF SessionRecord
<1>7. QED
  BY <1>4, <1>5, <1>6

\* A compile is reconciled by a receipt of its own.
LEMMA RebindCompileKeeps ==
  ASSUME IInv, RebindCompile PROVE IInv'
<1> DEFINE r == WithCompile([s EXCEPT !.last = CompileAnswer, !.running = None], CompileAnswer)
           t == AdoptCompileSave(r)
<1>1. /\ Interrupted("compile") /\ CanRebind /\ CompileAnswer # None /\ Acknowledged(s)
      /\ Rebound(Done(t), None) /\ source = s.inflight.before
      /\ s.inflight # None /\ None \in Maybe(DeliveryRecord)
  BY MaybeIs DEF RebindCompile, Interrupted
<1>2. /\ r \in SessionRecord /\ Sound(r) /\ SamePlan(s, r) /\ SameNumbers(s, r)
      /\ SameDelivery(s, r) /\ r.inflight = s.inflight /\ r.running = None
      /\ r.compile.status \in Outcome
  BY <1>1, AnsweredIs
<1>3. Known(r) = source /\ file \in Bytes /\ r.inflight.cmd.op = "compile"
  BY <1>1, <1>2, RebindIs DEF Known, SamePlan, Interrupted, Cmd
<1>4. DiskChanged(r) => file.content = Known(r)
  BY <1>1, <1>2, <1>3 DEF Acknowledged, DiskChanged, SameNumbers
<1> HIDE DEF r
<1>5. /\ t \in SessionRecord /\ Sound(t) /\ SamePlan(s, t) /\ SameDelivery(s, t)
      /\ t.inflight = s.inflight /\ t.revision = r.revision /\ t.running = None
  BY <1>1, <1>2, <1>3, <1>4, AdoptIs DEF SamePlan, SameDelivery
<1>6. /\ t.revision = Written(source) /\ t.saved = Written(t.seen.content)
      /\ t.saved <= t.revision /\ t.verRev <= t.saved /\ Results(t) /\ Delivered(t)
  <2>1. Known(t) = source
    BY <1>2, <1>3, <1>5 DEF Known, SamePlan
  <2>2. QED
    BY <1>1, <1>2, <1>3, <1>5, <2>1 DEF Sound, Counted
<1> HIDE DEF t
<1>7. /\ Done(t) \in SessionRecord
      /\ SameNumbers(t, Done(t)) /\ SameResults(t, Done(t)) /\ SameDelivery(t, Done(t))
      /\ Done(t).running = t.running /\ Results(Done(t))
      /\ Queue(Done(t).pending, issued)
      /\ \A q : q.pending = Done(t).pending => Sent(q, sends)
  BY <1>1, <1>5, <1>6, DoneIs
<1>8. Delivered(Done(t)) /\ Done(t).delivery = s.delivery
  BY <1>5, <1>6, <1>7 DEF Delivered, SameDelivery, SameNumbers
<1>9. QED
  BY <1>1, <1>5, <1>6, <1>7, <1>8, RebindIs, ReboundKeeps DEF SameNumbers

\* A compile without one stays planned.
LEMMA RebindCompileRefusedKeeps ==
  ASSUME IInv, RebindCompileRefused PROVE IInv'
<1>1. /\ Interrupted("compile") /\ CanRebind /\ CompileAnswer # None /\ s.inflight # None
      /\ s' = WithCompile([s EXCEPT !.last = CompileAnswer, !.running = None], CompileAnswer)
      /\ receipt' = receipt \/ receipt' = Durable(s')
      /\ pc' = "idle" /\ call' = call /\ UNCHANGED <<source, ide, file, issued, accepted, sends>>
  BY DEF RebindCompileRefused, Interrupted, env, ghosts
<1>2. /\ s' \in SessionRecord /\ Sound(s') /\ SamePlan(s, s') /\ SameNumbers(s, s')
      /\ SameDelivery(s, s') /\ s'.inflight = s.inflight /\ s'.state = s.state
  BY <1>1, AnsweredIs
<1>3. Sent(s', sends) /\ Queue(s'.pending, issued)
  BY <1>1, <1>2, RebindIs, SentSame DEF SamePlan
<1>4. Copy(s', Durable(s'))
  BY <1>2, DurableIs
<1>5. s # None /\ s.state = "unconfirmed" /\ call \in CallRecord /\ source \in Content /\ ide \in IdeRecord
  BY <1>1, RebindIs, Fields
<1>6. CallSound' /\ FlightSound'
  <2>1. /\ receipt'.inflight # None /\ receipt'.inflight.cmd = s'.inflight.cmd
        /\ receipt'.pending = s'.pending /\ receipt'.inflight.before = s'.inflight.before
        /\ receipt'.delivery # None => s'.delivery # None
    BY <1>1, <1>2, <1>4, <1>5 DEF IInv, CallSound, Copy, SamePlan, SameDelivery
  <2>2. QED
    BY <1>1, <1>2, <1>5, <2>1 DEF IInv, CallSound, FlightSound, Flying, Between, Resting
<1>7. QED
  BY <1>1, <1>2, <1>3, <1>5, <1>6, ThreadStep DEF SamePlan

\* An address query is planned again.
LEMMA RebindAssignKeeps ==
  ASSUME IInv, RebindAssign PROVE IInv'
<1> DEFINE answer == [status |-> "passed", rev |-> s.revision, run |-> s.compile.run]
           t == [s EXCEPT !.assigns = answer]
<1>1. /\ CanRebind /\ Rebound(Done(t), None) /\ source = s.inflight.before
      /\ s.inflight # None /\ Cmd.op = "assign" /\ None \in Maybe(DeliveryRecord)
  BY MaybeIs DEF RebindAssign, Interrupted
<1>2. s \in SessionRecord /\ Sound(s) /\ s.running = None /\ CompileIsCurrent(s)
      /\ Known(s) = source
  BY <1>1, RebindIs DEF Sound, Results, Cmd
<1>3. answer \in QueryResult
  BY <1>2 DEF QueryResult, SessionRecord, CompileResult
<1> HIDE DEF answer
<1>4. /\ t \in SessionRecord /\ SamePlan(s, t) /\ SameDelivery(s, t) /\ SameNumbers(s, t)
      /\ t.compile = s.compile /\ t.built = s.built /\ t.running = None
      /\ t.assigns = answer /\ t.last = s.last /\ t.inflight = s.inflight
  BY <1>2, <1>3 DEF SessionRecord, SamePlan, SameDelivery, SameNumbers
<1> HIDE DEF t
<1>5. Results(t) /\ Delivered(t)
  BY <1>2, <1>4 DEF answer, Sound, Results, Delivered, CompileIsCurrent, SameDelivery, SameNumbers
<1>6. /\ t.revision = Written(source) /\ t.saved = Written(t.seen.content)
      /\ t.saved <= t.revision /\ t.verRev <= t.saved
  BY <1>1, <1>2, <1>4 DEF Sound, Counted, SameNumbers, Cmd
<1>7. /\ Done(t) \in SessionRecord
      /\ SameNumbers(t, Done(t)) /\ SameResults(t, Done(t)) /\ SameDelivery(t, Done(t))
      /\ Done(t).running = t.running /\ Results(Done(t))
      /\ Queue(Done(t).pending, issued)
      /\ \A q : q.pending = Done(t).pending => Sent(q, sends)
  BY <1>1, <1>4, <1>5, DoneIs
<1>8. Delivered(Done(t)) /\ Done(t).delivery = s.delivery
  BY <1>4, <1>5, <1>7 DEF Delivered, SameDelivery, SameNumbers
<1>9. QED
  BY <1>1, <1>4, <1>6, <1>7, <1>8, RebindIs, ReboundKeeps DEF SameNumbers

\* A Save that was sent is accepted with the bytes the file has now, when they
\* hold the source it was sent over.
LEMMA RebindSaveKeeps ==
  ASSUME IInv, RebindSave PROVE IInv'
<1> DEFINE t == WithSave(s, file)
           d == Delivery(t, file, s.inflight.op)
<1>1. /\ CanRebind /\ Rebound(Done(t), d) /\ source = s.inflight.before
      /\ s.inflight # None /\ s.inflight.cmd.op = "save" /\ s.inflight.op # 0
      /\ file.content = source
  BY DEF RebindSave, Interrupted, Cmd
<1>2. s \in SessionRecord /\ Sound(s) /\ Known(s) = source /\ file \in Bytes
  BY <1>1, RebindIs
<1>3. s.running = None
  BY <1>1, <1>2 DEF Sound, Results
<1>4. /\ t \in SessionRecord /\ Sound(t) /\ SamePlan(s, t) /\ SameDelivery(s, t)
      /\ t.inflight = s.inflight /\ t.running = s.running
      /\ t.revision = s.revision /\ t.saved = s.revision /\ t.seen = file
  BY <1>1, <1>2, SaveIs
<1> HIDE DEF t
<1>5. /\ d \in Maybe(DeliveryRecord) /\ Written(d.data.content) = d.rev
      /\ d.rev = s.revision
  <2>1. s.inflight.op \in Ids /\ s.revision \in Nat
    BY <1>1, <1>2, FlightFields DEF SessionRecord
  <2>2. d \in DeliveryRecord
    BY <1>2, <1>4, <2>1 DEF Delivery, DeliveryRecord
  <2>3. QED
    BY <1>1, <1>2, <1>4, <2>2, MaybeIs DEF Delivery, Sound, Counted
<1>6. /\ t.revision = Written(source) /\ t.saved = Written(t.seen.content)
      /\ t.saved <= t.revision /\ t.verRev <= t.saved /\ Results(t) /\ Delivered(t)
  BY <1>1, <1>2, <1>4 DEF Sound, Counted
<1>7. /\ Done(t) \in SessionRecord
      /\ SameNumbers(t, Done(t)) /\ SameResults(t, Done(t)) /\ SameDelivery(t, Done(t))
      /\ Done(t).running = t.running /\ Results(Done(t))
      /\ Queue(Done(t).pending, issued)
      /\ \A q : q.pending = Done(t).pending => Sent(q, sends)
  BY <1>1, <1>4, <1>6, DoneIs
<1>8. Delivered(Done(t)) /\ Done(t).delivery = s.delivery
  BY <1>4, <1>6, <1>7 DEF Delivered, SameDelivery, SameNumbers
<1> HIDE DEF d
<1>9. QED
  BY <1>1, <1>3, <1>4, <1>5, <1>6, <1>7, <1>8, RebindIs, ReboundKeeps DEF SameNumbers

\* A reopened file is reconciled by its receipt.
LEMMA RebindReopenKeeps ==
  ASSUME IInv, RebindReopen PROVE IInv'
<1> DEFINE t == [s EXCEPT !.seen = file]
<1>1. /\ CanRebind /\ Rebound(Done(t), None) /\ source = s.inflight.before /\ Acknowledged(s)
      /\ s.inflight # None /\ s.inflight.cmd.op = "reopen" /\ None \in Maybe(DeliveryRecord)
  BY MaybeIs DEF RebindReopen, Interrupted, Cmd
<1>2. s \in SessionRecord /\ Sound(s) /\ s.running = None /\ Known(s) = source /\ file \in Bytes
  BY <1>1, RebindIs DEF Sound, Results
<1>3. s.saved = s.revision /\ s.revision = Written(source) /\ s.saved = Written(s.seen.content)
      /\ s.verRev <= s.saved /\ s.saved <= s.revision
  BY <1>1, <1>2 DEF Sound, Shape, Counted
<1>4. s.saved = Written(file.content)
  BY <1>1, <1>3 DEF Acknowledged, DiskChanged
<1>5. /\ t \in SessionRecord /\ SamePlan(s, t) /\ SameDelivery(s, t) /\ SameResults(s, t)
      /\ t.revision = s.revision /\ t.saved = s.saved /\ t.verRev = s.verRev /\ t.seen = file
      /\ t.running = None /\ t.last = s.last /\ t.inflight = s.inflight
  BY <1>2 DEF SessionRecord, SamePlan, SameDelivery, SameResults
<1> HIDE DEF t
<1>6. Results(t) /\ Delivered(t)
  BY <1>2, <1>5 DEF Sound, Results, Delivered, CompileIsCurrent, SameDelivery, SameResults
<1>7. /\ Done(t) \in SessionRecord
      /\ SameNumbers(t, Done(t)) /\ SameResults(t, Done(t)) /\ SameDelivery(t, Done(t))
      /\ Done(t).running = t.running /\ Results(Done(t))
      /\ Queue(Done(t).pending, issued)
      /\ \A q : q.pending = Done(t).pending => Sent(q, sends)
  BY <1>1, <1>5, <1>6, DoneIs
<1>8. Delivered(Done(t)) /\ Done(t).delivery = s.delivery
  BY <1>5, <1>6, <1>7 DEF Delivered, SameDelivery, SameNumbers
<1>9. QED
  BY <1>1, <1>3, <1>4, <1>5, <1>6, <1>7, <1>8, RebindIs, ReboundKeeps DEF SameNumbers

-----------------------------------------------------------------------------
(* The theorems *)

\* Every step keeps the invariant.
LEMMA NextKeeps == IInv /\ [Next]_vars => IInv'
<1> SUFFICES ASSUME IInv, [Next]_vars PROVE IInv'
  OBVIOUS
<1>1. CASE UNCHANGED vars
  BY <1>1 DEF vars, IInv, TypeOK, SendsSound, RecordSound, CallSound, FlightSound, Cmd
<1>2. CASE Run \/ Observe \/ Begin \/ NextCommand \/ Leave \/ Prepare
  BY <1>2, RunKeeps, ObserveKeeps, BeginKeeps, ThreadQuietKeeps, PrepareKeeps
<1>3. CASE Apply \/ MakeEdit \/ StartCompile \/ CompileReturns \/ ReadAddresses
  BY <1>3, ApplyKeeps, MakeEditKeeps, StartCompileKeeps, CompileReturnsKeeps, ReadAddressesKeeps
<1>4. CASE NameSave \/ SendSave \/ SaveDispatched \/ SaveReturns \/ SaveReplyLost \/ Reopen
  BY <1>4, NameSaveKeeps, SendSaveKeeps, SaveDispatchedKeeps, SaveReturnsKeeps,
     SaveReplyLostKeeps, ReopenKeeps
<1>5. CASE ReadEdit \/ ReadCompile \/ ReadAssign \/ ReadSave \/ ReadReopen
  BY <1>5, ReadEditKeeps, ReadCompileKeeps, ReadAssignKeeps, ReadSaveKeeps, ReadReopenKeeps
<1>6. CASE Commit \/ Report \/ Fail \/ Return \/ StayUnconfirmed
  BY <1>6, CommitKeeps, ThreadQuietKeeps
<1>7. CASE Rebind
  BY <1>7, RebindCleanKeeps, RebindEditKeeps, RebindCompileKeeps, RebindCompileRefusedKeeps,
     RebindAssignKeeps, RebindSaveKeeps, RebindReopenKeeps DEF Rebind
<1>8. CASE RequestPause \/ Rebase \/ Close \/ Revive \/ Restore \/ Detach \/ Crash \/ Environment
  BY <1>8, PauseKeeps, RebaseKeeps, EndKeeps, RestoreKeeps, WindowKeeps
<1>9. QED
  BY <1>1, <1>2, <1>3, <1>4, <1>5, <1>6, <1>7, <1>8 DEF Next, Controller

\* In every reachable state the session, its recovery record and what is under
\* way agree (checkpoint, _execute_pending, rebind, restore).
THEOREM Invariant == Spec => []IInv
<1>1. QED
  BY InitKeeps, NextKeeps, PTL DEF Spec

\* The session, its record and the window keep their types, and the thread is
\* inside a call only while there is a session.
THEOREM TypeCorrect == Spec => []TypeOK
<1>1. IInv => TypeOK
  BY DEF IInv
<1>2. QED
  BY <1>1, Invariant, PTL

\* What holds of both records when neither is absent.
LEMMA RecordsSound ==
  ASSUME IInv, NEW r \in Records
  PROVE  r \in SessionRecord /\ Sound(r)
BY Fields DEF Records, RecordSound

\* The revision counts the edits of the confirmed source (_changed, and
\* _reconcile_action when a lost edit is found in the window).
THEOREM RevisionsNameSources == Spec => []RevisionNamesSource
<1>1. IInv => RevisionNamesSource
  BY RecordsSound DEF RevisionNamesSource, Settled, Sound, Counted
<1>2. QED
  BY <1>1, Invariant, PTL

\* The saved revision counts the edits of the bytes last read from the file, and
\* is never ahead of the session (acknowledge_native_save, _compiled_save).
THEOREM DiskRevisions == Spec => []DiskHoldsRevision
<1>1. IInv => DiskHoldsRevision
  BY RecordsSound DEF DiskHoldsRevision, Settled, Sound, Counted
<1>2. QED
  BY <1>1, Invariant, PTL

\* Compile results, addresses and the saved build are those of the current
\* revision and of one and the same run, through every edit, compile, restart
\* and reconciliation.
THEOREM CurrentResults == Spec => []ResultsAreCurrent
<1>1. IInv => ResultsAreCurrent
  BY RecordsSound DEF ResultsAreCurrent, Sound, Results
<1>2. QED
  BY <1>1, Invariant, PTL

\* Bytes handed on for a version hold the revision they are handed on for.
THEOREM DeliveriesAreSaved == Spec => []DeliveryIsSaved
<1>1. IInv => DeliveryIsSaved
  <2> SUFFICES ASSUME IInv PROVE DeliveryIsSaved
    OBVIOUS
  <2>1. \A r \in Records : Delivered(r) /\ r.verRev <= r.saved
    BY RecordsSound DEF Sound, Counted
  <2>2. call.data # None => Written(call.data.data.content) = call.data.rev
    BY DEF IInv, CallSound
  <2>3. QED
    BY <2>1, <2>2 DEF DeliveryIsSaved, Delivered
<1>2. QED
  BY <1>1, Invariant, PTL

\* The native Save of a command is sent at most once, also when its reply or the
\* process was lost (save_project, _reconcile_save).
THEOREM SavesOnce == Spec => []SavedOnce
<1>1. IInv => SavedOnce
  BY DEF IInv, SendsSound, SavedOnce
<1>2. QED
  BY <1>1, Invariant, PTL

\* The records between which a step moves keep a verified save.
LEMMA KeepsDelivery ==
  /\ \A r \in SessionRecord : Durable(r).delivery = r.delivery /\ Done(r).delivery = r.delivery
  /\ \A r \in SessionRecord : Changed(r).delivery = r.delivery
  /\ \A r \in SessionRecord : AdoptCompileSave(r).delivery = r.delivery
  /\ \A r \in SessionRecord : \A b : WithSave(r, b).delivery = r.delivery
  /\ \A r \in SessionRecord : \A run :
       WithCompile([r EXCEPT !.last = run, !.running = None], run).delivery = r.delivery
BY DEF Durable, Done, Changed, AdoptCompileSave, WithSave, WithCompile, SessionRecord

\* A step of reconciliation: r, the session with the answer of its command.
LEMMA ReboundDelivers ==
  ASSUME IInv, NEW r \in SessionRecord, NEW data \in Maybe(DeliveryRecord), Rebound(r, data),
         r.delivery = s.delivery
  PROVE  receipt'.delivery \in {s.delivery, data} /\ (receipt'.delivery = None => s.delivery = None)
<1>1. source \in Content
  BY DEF IInv, TypeOK
<1>2. /\ s' \in SessionRecord /\ receipt' = Durable(s')
      /\ data = None => SameDelivery(r, s')
      /\ data # None => s'.delivery = data
  BY <1>1, ReboundIs
<1>3. QED
  BY <1>2, KeepsDelivery DEF SameDelivery

\* A reconciliation that leaves no delivery on disk had none, or left the disk alone.
LEMMA RebindDelivers ==
  ASSUME IInv, Rebind
  PROVE  receipt'.delivery = None => s.delivery = None \/ receipt' = receipt
<1>1. CanRebind /\ None \in Maybe(DeliveryRecord)
  BY MaybeIs DEF Rebind, RebindClean, RebindApplied, RebindNotApplied, RebindCompile,
     RebindCompileRefused, RebindAssign, RebindSave, RebindReopen, Interrupted
<1>2. s \in SessionRecord /\ Sound(s) /\ file \in Bytes
  BY <1>1, RebindIs
<1>3. \A r \in SessionRecord : s.inflight # None /\ SamePlan(s, r) =>
        Done(r) \in SessionRecord /\ Done(r).delivery = r.delivery
  BY <1>1, DoneIs, KeepsDelivery
<1>4. CASE RebindClean \/ RebindNotApplied
  BY <1>1, <1>2, <1>4, ReboundDelivers DEF RebindClean, RebindNotApplied
<1>5. CASE RebindApplied
  <2> DEFINE t == IF source # s.inflight.before THEN Changed(s) ELSE s
  <2>1. t \in SessionRecord /\ SamePlan(s, t) /\ t.delivery = s.delivery
    BY <1>2, ChangedIs DEF SamePlan, SameDelivery
  <2>2. Done(t) \in SessionRecord /\ Done(t).delivery = s.delivery /\ Rebound(Done(t), None)
    BY <1>3, <1>5, <2>1 DEF RebindApplied
  <2>3. QED
    BY <1>1, <2>2, ReboundDelivers
<1>6. CASE RebindCompile
  <2> DEFINE r == WithCompile([s EXCEPT !.last = CompileAnswer, !.running = None], CompileAnswer)
             t == AdoptCompileSave(r)
  <2>1. /\ Interrupted("compile") /\ CompileAnswer # None /\ s.inflight # None
        /\ Rebound(Done(t), None) /\ Acknowledged(s) /\ source = s.inflight.before
    BY <1>6 DEF RebindCompile, Interrupted
  <2>2. /\ r \in SessionRecord /\ Sound(r) /\ SamePlan(s, r) /\ SameDelivery(s, r)
        /\ SameNumbers(s, r) /\ r.inflight = s.inflight /\ r.compile.status \in Outcome
    BY <2>1, AnsweredIs
  <2>3. r.inflight.cmd.op = "compile" /\ (DiskChanged(r) => file.content = Known(r))
    BY <1>1, <2>1, <2>2, RebindIs
       DEF Interrupted, Cmd, Acknowledged, DiskChanged, Known, SamePlan, SameNumbers
  <2> HIDE DEF r
  <2>4. t \in SessionRecord /\ SamePlan(s, t) /\ t.delivery = s.delivery
    BY <1>2, <2>1, <2>2, <2>3, AdoptIs DEF SamePlan, SameDelivery
  <2> HIDE DEF t
  <2>5. Done(t) \in SessionRecord /\ Done(t).delivery = s.delivery
    BY <1>3, <2>1, <2>4
  <2>6. QED
    BY <1>1, <2>1, <2>5, ReboundDelivers
<1>7. CASE RebindCompileRefused
  <2>1. /\ Interrupted("compile") /\ CompileAnswer # None
        /\ s' = WithCompile([s EXCEPT !.last = CompileAnswer, !.running = None], CompileAnswer)
        /\ receipt' = receipt \/ receipt' = Durable(s')
    BY <1>7 DEF RebindCompileRefused
  <2>2. s' \in SessionRecord /\ s'.delivery = s.delivery
    BY <2>1, AnsweredIs DEF SameDelivery
  <2>3. QED
    BY <2>1, <2>2, KeepsDelivery
<1>8. CASE RebindAssign
  <2> DEFINE answer == [status |-> "passed", rev |-> s.revision, run |-> s.compile.run]
             t == [s EXCEPT !.assigns = answer]
  <2>1. s.inflight # None /\ Rebound(Done(t), None)
    BY <1>8 DEF RebindAssign, Interrupted
  <2>2. answer \in QueryResult
    BY <1>2 DEF QueryResult, SessionRecord, CompileResult
  <2> HIDE DEF answer
  <2>3. t \in SessionRecord /\ SamePlan(s, t) /\ t.delivery = s.delivery
    BY <1>2, <2>2 DEF SessionRecord, SamePlan
  <2> HIDE DEF t
  <2>4. Done(t) \in SessionRecord /\ Done(t).delivery = s.delivery
    BY <1>3, <2>1, <2>3
  <2>5. QED
    BY <1>1, <2>1, <2>4, ReboundDelivers
<1>9. CASE RebindSave
  <2> DEFINE t == WithSave(s, file)
             d == Delivery(t, file, s.inflight.op)
  <2>1. /\ s.inflight # None /\ s.inflight.cmd.op = "save" /\ s.inflight.op # 0
        /\ Rebound(Done(t), d) /\ file.content = Known(s)
    BY <1>1, <1>9, RebindIs DEF RebindSave, Interrupted, Cmd
  <2>2. t \in SessionRecord /\ SamePlan(s, t) /\ t.delivery = s.delivery /\ t.revision \in Nat
    BY <1>2, <2>1, SaveIs DEF SameDelivery, SessionRecord
  <2>3. d \in Maybe(DeliveryRecord)
    <3>1. d \in DeliveryRecord
      BY <1>2, <2>1, <2>2, FlightFields DEF Delivery, DeliveryRecord
    <3>2. QED
      BY <3>1, MaybeIs
  <2> HIDE DEF t, d
  <2>4. Done(t) \in SessionRecord /\ Done(t).delivery = s.delivery
    BY <1>3, <2>1, <2>2
  <2>5. QED
    BY <2>1, <2>3, <2>4, ReboundDelivers
<1>10. CASE RebindReopen
  <2> DEFINE t == [s EXCEPT !.seen = file]
  <2>1. s.inflight # None /\ Rebound(Done(t), None)
    BY <1>10 DEF RebindReopen, Interrupted
  <2>2. t \in SessionRecord /\ SamePlan(s, t) /\ t.delivery = s.delivery
    BY <1>2 DEF SessionRecord, SamePlan
  <2> HIDE DEF t
  <2>3. Done(t) \in SessionRecord /\ Done(t).delivery = s.delivery
    BY <1>3, <2>1, <2>2
  <2>4. QED
    BY <1>1, <2>1, <2>3, ReboundDelivers
<1>11. QED
  BY <1>4, <1>5, <1>6, <1>7, <1>8, <1>9, <1>10 DEF Rebind

\* A verified save in the recovery record stays there until a version has been
\* made of it or a later save has taken its place (set_base_version, rebind,
\* checkpoint).
THEOREM SavesAreNotLost == Spec => SaveNotLost
<1> DEFINE kept == receipt.delivery # None /\ receipt'.delivery = None => Rebase
<1>1. ASSUME IInv, [Next]_vars PROVE kept
  <2>1. /\ receipt \in SessionRecord /\ (s # None => s \in SessionRecord)
        /\ (s # None /\ receipt.delivery # None => s.delivery # None)
        /\ (pc # "idle" => s # None)
    BY <1>1, Fields DEF IInv, CallSound
  <2>2. (s' # None => s' \in SessionRecord)
    BY <1>1, NextKeeps, MaybeIs DEF IInv, TypeOK
  <2>3. CASE receipt' = receipt
    BY <2>3
  <2>4. CASE NextCommand \/ Report \/ Return \/ Detach
    BY <2>1, <2>4, KeepsDelivery DEF NextCommand, Report, Return, Detach
  <2>5. CASE Prepare \/ CompileReturns \/ NameSave \/ SaveDispatched \/ SaveReturns
    <3>1. s # None
      BY <2>1, <2>5 DEF Prepare, CompileReturns, NameSave, SaveDispatched, SaveReturns
    <3>2. receipt' = Durable(s')
      BY <2>5 DEF Prepare, CompileReturns, NameSave, SaveDispatched, SaveReturns
    <3>3. s'.delivery = s.delivery /\ Durable(s').delivery = s'.delivery
      BY <2>1, <2>5, <3>1 DEF Prepare, CompileReturns, NameSave, SaveDispatched, SaveReturns,
         Flight, SessionRecord, Durable
    <3>4. QED
      BY <2>1, <3>1, <3>2, <3>3
  <2>6. CASE Close
    <3>1. s # None /\ receipt' = Durable([s EXCEPT !.closed = TRUE, !.state = "ended"])
      BY <2>6 DEF Close
    <3>2. receipt'.delivery = s.delivery
      BY <2>1, <3>1 DEF Durable, SessionRecord
    <3>3. QED
      BY <2>1, <3>1, <3>2
  <2>7. CASE Revive
    BY <2>1, <2>7 DEF Revive, SessionRecord
  <2>8. CASE Rebind
    <3>1. s # None
      BY <2>1, <2>8, RebindDelivers, <1>1 DEF Rebind, RebindClean, RebindApplied,
         RebindNotApplied, RebindCompile, RebindCompileRefused, RebindAssign, RebindSave,
         RebindReopen, Interrupted, CanRebind
    <3>2. QED
      BY <1>1, <2>1, <2>8, <3>1, RebindDelivers
  <2>9. CASE Rebase
    BY <2>9
  <2>10. Run \/ Observe \/ Begin \/ Leave \/ RequestPause \/ Restore \/ Crash \/ Environment
           => receipt' = receipt
    BY DEF Run, RunWith, Observe, Begin, Leave, RequestPause, Restore, Crash, Environment,
       IdeCompiles, IdeSaves, UserEdits, UserSaves
  <2>11. Apply \/ MakeEdit \/ StartCompile \/ ReadAddresses \/ SendSave \/ SaveReplyLost \/ Reopen
           \/ ReadEdit \/ ReadCompile \/ ReadAssign \/ ReadSave \/ ReadReopen
           \/ Commit \/ Fail \/ StayUnconfirmed \/ UNCHANGED vars
           => receipt' = receipt
    BY DEF Apply, MakeEdit, StartCompile, ReadAddresses, SendSave, SaveReplyLost, Reopen,
       ReadEdit, ReadCompile, ReadAssign, ReadSave, ReadReopen, Commit, Fail, StayUnconfirmed, vars
  <2>12. QED
    BY <1>1, <2>3, <2>4, <2>5, <2>6, <2>7, <2>8, <2>9, <2>10, <2>11 DEF Next, Controller
<1>2. IInv /\ [Next]_vars => [kept]_vars
  BY <1>1
<1>3. QED
  BY <1>2, Invariant, PTL DEF Spec, SaveNotLost

=============================================================================
