-------------------------- MODULE LiveDeliveryProofs --------------------------
(***************************************************************************)
(* What LiveDelivery promises for any number of saves, versions, failures  *)
(* and restarts.  The argument: a row of the session, in memory or on      *)
(* disk, names only saves that the line of its base version does not hold  *)
(* (so no commit can repeat one), and it names the last save sent until a  *)
(* version holds it (so no failure can lose it).  Both are facts about one *)
(* row and the versions, and the receipt is always an earlier row.         *)
(***************************************************************************)
EXTENDS LiveDelivery, TLAPS

Held(x) == \E v \in 1..Len(versions) : versions[v].save = x

VersionsSound ==
  /\ Len(versions) >= 1
  /\ \A v \in 1..Len(versions) :
       /\ \A x \in versions[v].line : x \in 1..named
       /\ versions[v].save # 0 => versions[v].save \in versions[v].line
       /\ v # 1 => versions[v].base \in 1..(v - 1)

\* One record of the session against the versions.
Sound(r) ==
  r.there =>
    /\ r.base \in 1..Len(versions)
    /\ \A x \in Books(r) : x <= named /\ x \notin versions[r.base].line
    /\ r.fields.delivery = r.fields.pending
    /\ r.pend # 0 => r.fields.inflight = 0 /\ r.fields.delivery = r.pend
    /\ r.fields.version = versions[r.base].save

Kept(r) == sent = 0 \/ Held(sent) \/ (r.there /\ sent \in Books(r))

Calling == job.pc \notin {"idle", "start", "open"}
Running == job.pc \in {"named", "sent", "saved"} \/ (job.pc = "do" /\ job.act # "end")

JobSound ==
  /\ Calling => row.there /\ ~row.closed /\ row.base = job.base
  /\ Running => row.pend = 0
  /\ job.pc = "named" => /\ row.fields.inflight # 0
                         /\ disk.there /\ disk.fields.inflight = row.fields.inflight
  /\ job.pc = "sent" => row.fields.inflight # 0 /\ row.fields.inflight = sent
  /\ job.pc = "saved" => /\ row.fields.inflight = 0
                         /\ row.fields.delivery = job.save /\ job.save # 0
  /\ job.pc \in {"deliver", "committed"} => job.save = row.pend
  /\ job.pc = "committed" => versions[Len(versions)].save = job.save /\ active = Len(versions)

IInv == /\ TypeOK
        /\ VersionsSound
        /\ CommittedOnce
        /\ Sound(row) /\ Sound(disk)
        /\ Kept(row) /\ Kept(disk)
        /\ sent <= named
        /\ disk.there => row.there
        /\ row.there => working
        /\ named # 0 => working
        /\ JobSound

-----------------------------------------------------------------------------
(* The initial state *)

\* No session, no save, one version.
LEMMA InitSound == Init => IInv
<1> SUFFICES ASSUME Init PROVE IInv
  OBVIOUS
<1>1. versions \in Seq(VersionType) /\ Len(versions) = 1
  BY DEF Init, VersionType
<1>2. TypeOK
  <2>1. NoFields \in FieldsType
    BY DEF NoFields, FieldsType
  <2>2. NoReceipt \in ReceiptType /\ NoRow \in RowType
    BY <2>1 DEF NoReceipt, ReceiptType, NoRow, RowType
  <2>3. Idle \in JobType
    BY DEF Idle, JobType, PCs, Actions
  <2>4. NoReceipt.base = 0 /\ NoRow.base = 0 /\ Idle.base = 1 /\ Idle.pc = "idle"
    BY DEF NoReceipt, NoRow, Idle
  <2>5. /\ working = FALSE /\ disk = NoReceipt /\ row = NoRow /\ job = Idle
        /\ named = 0 /\ sent = 0 /\ faults = 0 /\ crashes = 0
    BY DEF Init
  <2>6. working \in BOOLEAN
    BY <2>5
  <2>7. disk \in ReceiptType /\ disk.base \in 0..Len(versions)
    BY <1>1, <2>2, <2>4, <2>5
  <2>8. row \in RowType /\ row.base \in 0..Len(versions)
    BY <1>1, <2>2, <2>4, <2>5
  <2>9. job \in JobType /\ job.base \in 1..Len(versions)
    BY <1>1, <2>3, <2>4, <2>5
  <2>10. job.pc \notin {"deliver", "committed"}
    BY <2>4, <2>5
  <2> QED
    BY <1>1, <2>5, <2>6, <2>7, <2>8, <2>9, <2>10 DEF TypeOK, Init
<1>3. VersionsSound /\ CommittedOnce
  BY DEF Init, VersionsSound, CommittedOnce
<1>4. Sound(row) /\ Sound(disk) /\ Kept(row) /\ Kept(disk)
  BY DEF Init, Sound, Kept, NoRow, NoReceipt
<1>5. JobSound
  BY DEF Init, JobSound, Calling, Running, Idle
<1> QED
  BY <1>2, <1>3, <1>4, <1>5 DEF IInv, Init, NoReceipt, NoRow

-----------------------------------------------------------------------------
(* Facts about one record *)

\* A receipt says of the session what its row says.
LEMMA ReceiptSays ==
  ASSUME NEW r \in RowType, r.there
  PROVE  /\ Receipt(r) \in ReceiptType
         /\ Receipt(r).there /\ Receipt(r).base = r.base
         /\ Receipt(r).pend = r.pend /\ Receipt(r).fields = r.fields
BY DEF RowType, ReceiptType, Receipt

\* A new process knows what the receipt says.
LEMMA LoadedSays ==
  ASSUME NEW d \in ReceiptType
  PROVE  /\ Loaded(d) \in RowType
         /\ Loaded(d).there = d.there
         /\ d.there => /\ Loaded(d).base = d.base
                       /\ Loaded(d).pend = d.pend /\ Loaded(d).fields = d.fields
         /\ ~d.there => Loaded(d).base = 0
<1>1. NoRow \in RowType /\ NoRow.there = FALSE /\ NoRow.base = 0
  BY DEF NoRow, RowType, NoFields, FieldsType
<1>2. CASE d.there
  BY <1>2 DEF Loaded, ReceiptType, RowType
<1>3. CASE ~d.there
  BY <1>1, <1>3 DEF Loaded, ReceiptType
<1> QED
  BY <1>2, <1>3

\* What is said of a row in an invariant, carried to the receipt written of it.
LEMMA WrittenSound ==
  ASSUME NEW r \in RowType, r.there, Sound(r), Kept(r)
  PROVE  Sound(Receipt(r)) /\ Kept(Receipt(r))
BY ReceiptSays DEF Sound, Kept, Books

\* A step that makes no version and no save keeps the invariant, when it keeps
\* what is said of the row and of the call.
LEMMA Frame ==
  ASSUME IInv,
         UNCHANGED project, named' = named, sent' = sent,
         working' \in BOOLEAN, faults' \in Nat, crashes' \in Nat,
         row' \in RowType, row'.base \in 0..Len(versions),
         job' \in JobType, job'.base \in 1..Len(versions),
         job'.pc \in {"deliver", "committed"} => job'.save # 0,
         disk' = disk \/ (row'.there /\ disk' = Receipt(row')),
         disk.there => row'.there,
         row'.there => working', named # 0 => working',
         Sound(row)', Kept(row)', JobSound'
  PROVE  IInv'
<1>1. disk' \in ReceiptType /\ disk'.base \in 0..Len(versions)
  BY ReceiptSays DEF IInv, TypeOK
<1>2. TypeOK'
  BY <1>1 DEF IInv, TypeOK, project
<1>3. VersionsSound' /\ CommittedOnce' /\ (sent <= named)'
  BY DEF IInv, VersionsSound, CommittedOnce, project
<1>4. Sound(disk)' /\ Kept(disk)'
  <2>1. CASE disk' = disk
    BY <2>1 DEF project, IInv, Sound, Kept, Held, Books
  <2>2. CASE row'.there /\ disk' = Receipt(row')
    BY <2>2, ReceiptSays DEF Sound, Kept, Held, Books, project
  <2> QED
    BY <2>1, <2>2
<1>5. (disk.there => row.there)' /\ (row.there => working)' /\ (named # 0 => working)'
  OBVIOUS
<1> QED
  BY <1>2, <1>3, <1>4, <1>5 DEF IInv

\* A call that ends, or only begins, and leaves the row alone.
LEMMA Quiet ==
  ASSUME IInv,
         UNCHANGED project, named' = named, sent' = sent, working' = working, row' = row,
         disk' = disk \/ (row.there /\ disk' = Receipt(row)),
         faults' \in Nat, crashes' \in Nat,
         job' \in JobType, job'.base \in 1..Len(versions),
         job'.pc \in {"idle", "start", "open"}
  PROVE  IInv'
<1>1. JobSound'
  BY DEF JobSound, Calling, Running
<1>2. Sound(row)' /\ Kept(row)'
  BY DEF IInv, Sound, Kept, Held, Books, project
<1>3. row' \in RowType /\ row'.base \in 0..Len(versions) /\ working' \in BOOLEAN
  BY DEF IInv, TypeOK
<1>4. job'.pc \notin {"deliver", "committed"}
  OBVIOUS
<1>5. /\ disk.there => row'.there
      /\ row'.there => working'
      /\ named # 0 => working'
      /\ disk' = disk \/ (row'.there /\ disk' = Receipt(row'))
  BY DEF IInv
<1> QED
  BY <1>1, <1>2, <1>3, <1>4, <1>5, Frame

LEMMA IdleTyped == Idle \in JobType /\ Idle.pc = "idle" /\ Idle.base = 1 /\ Idle.act = "start"
BY DEF Idle, JobType, PCs, Actions

\* A call that ends with the row written, or not, and unchanged.
LEMMA RaiseKeeps ==
  ASSUME IInv, row.there, Raise(row), UNCHANGED <<project, window, crashes>>
  PROVE  IInv'
<1>1. 1 \in 1..Len(versions)
  BY DEF IInv, VersionsSound
<1> QED
  BY <1>1, IdleTyped, Quiet DEF Raise, Fault, window, project, IInv, TypeOK

-----------------------------------------------------------------------------
(* The steps that leave the row alone *)

LEMMA QuietSteps ==
  ASSUME IInv,
         \/ \E a \in Actions : Approve(a)
         \/ StartRefused \/ OpenRefused \/ AttachFails \/ RebindUnconfirmed \/ RebindFails
         \/ SaveUnconfirmed \/ RunWithoutData \/ EndFails \/ Refuse \/ RebaseFails
  PROVE  IInv'
<1>1. 1 \in 1..Len(versions) /\ faults \in Nat /\ crashes \in Nat
  BY DEF IInv, VersionsSound, TypeOK
<1>2. CASE \E a \in Actions : Approve(a)
  <2>1. PICK a \in Actions : Approve(a)
    BY <1>2
  <2>2. job' \in JobType /\ job'.base = active /\ job'.pc \in {"start", "open"}
    BY <2>1 DEF Approve, JobType, PCs, IInv, TypeOK
  <2> QED
    BY <1>1, <2>1, <2>2, Quiet DEF IInv, TypeOK, Approve, window, project, bounds
<1>3. CASE StartRefused
  BY <1>1, <1>3, IdleTyped, Quiet DEF StartRefused, window, project, bounds
<1>4. CASE OpenRefused
  BY <1>1, <1>4, IdleTyped, Quiet DEF OpenRefused, window, project, bounds
<1>5. CASE Refuse
  BY <1>1, <1>5, IdleTyped, Quiet DEF Refuse, window, project, bounds
<1>6. CASE RebaseFails
  <2>1. faults' \in Nat
    BY <1>1, <1>6 DEF RebaseFails, Fault
  <2> QED
    BY <1>1, <1>6, <2>1, IdleTyped, Quiet DEF RebaseFails, window, project
<1>7. Calling => row.there
  BY DEF IInv, JobSound
<1>8. CASE AttachFails
  BY <1>7, <1>8, RaiseKeeps DEF AttachFails, Calling
<1>9. CASE RebindFails
  BY <1>7, <1>9, RaiseKeeps DEF RebindFails, Calling
<1>10. CASE SaveUnconfirmed
  BY <1>7, <1>10, RaiseKeeps DEF SaveUnconfirmed, Calling
<1>11. CASE RunWithoutData
  BY <1>7, <1>11, RaiseKeeps DEF RunWithoutData, CanRun, Calling
<1>12. CASE EndFails
  BY <1>7, <1>12, RaiseKeeps DEF EndFails, Calling
<1>13. CASE RebindUnconfirmed
  <2>1. CASE Raise(row)
    BY <1>7, <1>13, <2>1, RaiseKeeps DEF RebindUnconfirmed, Rebinding, Calling
  <2>2. CASE job' = Idle /\ UNCHANGED <<disk, row, faults>>
    BY <1>1, <1>13, <2>2, IdleTyped, Quiet DEF RebindUnconfirmed, window, project
  <2> QED
    BY <1>13, <2>1, <2>2 DEF RebindUnconfirmed
<1> QED
  BY <1>2, <1>3, <1>4, <1>5, <1>6, <1>8, <1>9, <1>10, <1>11, <1>12, <1>13

-----------------------------------------------------------------------------
(* The steps of a call *)

\* A call that ends with a changed row.
LEMMA LeaveKeeps ==
  ASSUME IInv, NEW r \in RowType, r.there, r.base \in 1..Len(versions), Sound(r), Kept(r),
         row' = r, job' = Idle, disk' \in {disk, Receipt(r)}, faults' \in Nat,
         UNCHANGED <<project, named, sent, crashes>>, working' = TRUE
  PROVE  IInv'
<1>1. JobSound'
  BY IdleTyped DEF JobSound, Calling, Running
<1>2. Sound(row)' /\ Kept(row)'
  BY DEF Sound, Kept, Held, Books, project
<1>3. job' \in JobType /\ job'.base \in 1..Len(versions) /\ job'.pc \notin {"deliver", "committed"}
  BY IdleTyped DEF IInv, VersionsSound
<1>4. crashes' \in Nat /\ r.base \in 0..Len(versions)
  BY DEF IInv, TypeOK
<1> QED
  BY <1>1, <1>2, <1>3, <1>4, Frame

\* A call that goes on with a changed row.
LEMMA GoOnKeeps ==
  ASSUME IInv, NEW r \in RowType, r.there, r.base \in 1..Len(versions), Sound(r), Kept(r),
         NEW j \in JobType, j.base \in 1..Len(versions),
         j.pc \in {"deliver", "committed"} => j.save # 0,
         GoOn(r, j), JobSound',
         UNCHANGED <<project, named, sent, crashes>>, working' = TRUE
  PROVE  IInv'
<1>1. Sound(row)' /\ Kept(row)'
  BY DEF GoOn, Sound, Kept, Held, Books, project
<1>2. crashes' \in Nat /\ faults' \in Nat /\ r.base \in 0..Len(versions)
  BY DEF IInv, TypeOK, GoOn
<1> QED
  BY <1>1, <1>2, Frame DEF GoOn

LEMMA WriteFailsKeeps ==
  ASSUME IInv, NEW r \in RowType, r.there, r.base \in 1..Len(versions), Sound(r), Kept(r),
         WriteFails(r), UNCHANGED <<project, named, sent, crashes>>, working' = TRUE
  PROVE  IInv'
<1>1. faults' \in Nat
  BY DEF WriteFails, Fault, IInv, TypeOK
<1> QED
  BY <1>1, LeaveKeeps DEF WriteFails

\* The first start, and one that fails.
LEMMA StartNewKeeps ==
  ASSUME IInv, StartNew \/ StartFails
  PROVE  IInv'
<1>1. \A at \in {"attached", "dead"} :
        /\ NewRow(at) \in RowType /\ NewRow(at).there /\ ~NewRow(at).closed
        /\ NewRow(at).base = job.base /\ NewRow(at).fields = NoFields /\ NewRow(at).pend = 0
  BY DEF NewRow, RowType, NoFields, FieldsType, IInv, TypeOK
<1>2. named = 0
  <2>1. ~working
    BY DEF StartNew, StartFails
  <2> QED
    BY <2>1 DEF IInv
<1>3. versions[job.base].save = 0 /\ job.base \in 1..Len(versions) /\ job \in JobType
  BY <1>2 DEF IInv, TypeOK, VersionsSound
<1>4. sent = 0
  BY <1>2 DEF IInv, TypeOK
<1>5. \A at \in {"attached", "dead"} : Sound(NewRow(at)) /\ Kept(NewRow(at))
  BY <1>1, <1>2, <1>3, <1>4 DEF Sound, Kept, Books, NoFields, IInv, VersionsSound
<1>6. CASE StartNew
  <2> DEFINE r == NewRow("attached")
             j == [job EXCEPT !.pc = "do"]
  <2>1. j \in JobType /\ j.pc = "do" /\ j.base = job.base
    BY <1>3 DEF JobType, PCs
  <2>2. GoOn(r, j) /\ working' = TRUE /\ UNCHANGED <<project, named, sent, crashes>>
    BY <1>6 DEF StartNew
  <2>3. JobSound'
    BY <1>1, <2>1, <2>2 DEF JobSound, Calling, Running, GoOn
  <2> HIDE DEF r, j
  <2> QED
    BY <1>1, <1>3, <1>5, <2>1, <2>2, <2>3, GoOnKeeps DEF r
<1>7. CASE StartFails
  <2>1. faults' \in Nat
    BY <1>7 DEF StartFails, Fault, IInv, TypeOK
  <2>2. CASE row' = NewRow("dead")
    BY <1>1, <1>3, <1>5, <1>7, <2>1, <2>2, LeaveKeeps DEF StartFails
  <2>3. CASE row' = row
    <3>1. ~row.there /\ ~disk.there /\ JobSound' /\ (Sound(row) /\ Kept(row))'
      BY <1>4, <1>7, <2>3, IdleTyped DEF StartFails, IInv, JobSound, Calling, Running, Sound, Kept
    <3>2. /\ UNCHANGED project /\ named' = named /\ sent' = sent /\ crashes' = crashes
          /\ disk' = disk /\ job' = Idle
      BY <1>7 DEF StartFails
    <3>3. working' \in BOOLEAN
      BY <1>7 DEF StartFails
    <3>4. row' \in RowType /\ row'.base \in 0..Len(versions) /\ ~row'.there /\ crashes' \in Nat
      BY <2>3, <3>1, <3>2 DEF IInv, TypeOK
    <3>5. job' \in JobType /\ job'.base \in 1..Len(versions) /\ job'.pc \notin {"deliver", "committed"}
      <4>1. 1 \in 1..Len(versions)
        BY DEF IInv, VersionsSound, TypeOK
      <4> QED
        BY <3>2, <4>1, IdleTyped
    <3> QED
      BY <1>2, <2>1, <3>1, <3>2, <3>3, <3>4, <3>5, Frame
  <2> QED
    BY <1>7, <2>2, <2>3 DEF StartFails
<1> QED
  BY <1>6, <1>7

LEMMA RowFacts ==
  ASSUME IInv
  PROVE  /\ row \in RowType /\ row.pend \in Nat /\ row.fields \in FieldsType
         /\ job \in JobType /\ job.base \in 1..Len(versions)
         /\ row.there => /\ row.base \in 1..Len(versions) /\ Sound(row) /\ Kept(row)
                         /\ working = TRUE
BY DEF IInv, TypeOK, RowType, Sound

\* A step that keeps the row and goes on with another call.
LEMMA CallKeeps ==
  ASSUME IInv, row' = row, disk' = disk, row.there,
         UNCHANGED <<project, window, bounds>>,
         NEW j \in JobType, j.base = job.base, job' = j,
         j.pc \in {"deliver", "committed"} => j.save # 0, JobSound'
  PROVE  IInv'
<1>1. Sound(row)' /\ Kept(row)'
  BY RowFacts DEF Sound, Kept, Held, Books, window, project
<1> QED
  BY <1>1, RowFacts, Frame DEF IInv, TypeOK, window, project, bounds

\* The step after the row is attached.
LEMMA AfterRestoreSays ==
  ASSUME NEW r \in RowType, NEW j \in JobType
  PROVE  /\ AfterRestore(r, j) \in JobType
         /\ AfterRestore(r, j).base = j.base /\ AfterRestore(r, j).act = j.act
         /\ \/ /\ AfterRestore(r, j).pc = "deliver"
               /\ AfterRestore(r, j).save = r.pend /\ r.pend # 0
            \/ AfterRestore(r, j).pc = "rebind"
            \/ AfterRestore(r, j).pc = "do" /\ (j.act # "end" => r.pend = 0)
BY DEF AfterRestore, JobType, PCs, RowType

LEMMA AfterOpenSays ==
  ASSUME NEW r \in RowType, NEW j \in JobType
  PROVE  /\ AfterOpen(r, j) \in JobType
         /\ AfterOpen(r, j).base = j.base /\ AfterOpen(r, j).act = j.act
         /\ \/ AfterOpen(r, j).pc \in {"attach", "rebind"}
            \/ /\ AfterOpen(r, j).pc = "deliver"
               /\ AfterOpen(r, j).save = r.pend /\ r.pend # 0
            \/ AfterOpen(r, j).pc = "do" /\ (j.act # "end" => r.pend = 0)
<1>1. CASE r.at = "detached"
  BY <1>1 DEF AfterOpen, JobType, PCs
<1>2. CASE r.at # "detached"
  BY <1>2, AfterRestoreSays DEF AfterOpen
<1> QED
  BY <1>1, <1>2

\* The row is the session of the call's version.
LEMMA OpenKeeps ==
  ASSUME IInv, Open
  PROVE  IInv'
<1> DEFINE j == AfterOpen(row, job)
<1>1. j \in JobType /\ j.base = job.base /\ j.act = job.act
  BY RowFacts, AfterOpenSays
<1>2. \/ j.pc \in {"attach", "rebind"}
      \/ j.pc = "deliver" /\ j.save = row.pend /\ row.pend # 0
      \/ j.pc = "do" /\ (job.act # "end" => row.pend = 0)
  BY RowFacts, AfterOpenSays
<1>3. job' = j /\ row' = row /\ disk' = disk /\ row.there /\ ~row.closed /\ row.base = job.base
  BY DEF Open
<1> HIDE DEF j
<1>4. JobSound'
  BY <1>1, <1>2, <1>3 DEF JobSound, Calling, Running
<1>5. UNCHANGED <<project, window, bounds>>
  BY DEF Open
<1>6. j.pc \in {"deliver", "committed"} => j.save # 0
  BY <1>2
<1> QED
  BY <1>1, <1>3, <1>4, <1>5, <1>6, CallKeeps

\* A start on a session that exists.
LEMMA StartExistingKeeps ==
  ASSUME IInv, StartExisting
  PROVE  IInv'
<1>1. row.there /\ job \in JobType
  BY RowFacts DEF StartExisting
<1>2. CASE row.closed
  <2> DEFINE r == [row EXCEPT !.closed = FALSE, !.at = "detached"]
  <2>1. /\ r \in RowType /\ r.there /\ r.base = row.base
        /\ r.pend = row.pend /\ r.fields = row.fields
    BY <1>1, RowFacts DEF RowType
  <2>2. /\ row' = r /\ job' = Idle /\ disk' \in {disk, Receipt(r)} /\ faults' \in Nat
        /\ UNCHANGED <<project, named, sent, working, crashes>>
    BY <1>2 DEF StartExisting, GoOn, Fault, window, project, IInv, TypeOK
  <2> HIDE DEF r
  <2>3. r.base \in 1..Len(versions) /\ Sound(r) /\ Kept(r) /\ working' = TRUE
    BY <1>1, <2>1, <2>2, RowFacts DEF Sound, Kept, Books
  <2> QED
    BY <2>1, <2>2, <2>3, LeaveKeeps
<1>3. CASE ~row.closed
  <2>1. job' = Idle /\ UNCHANGED <<row, disk, faults, project, window, crashes>>
    BY <1>3 DEF StartExisting
  <2> QED
    BY <2>1, IdleTyped, RowFacts, Quiet DEF window, project, IInv, TypeOK, VersionsSound
<1> QED
  BY <1>2, <1>3

\* The late acknowledgement: the call's version holds the save that waits, so
\* the row may forget it and take that version as its base.
LEMMA AcknowledgeKeeps ==
  ASSUME IInv, Acknowledge
  PROVE  IInv'
<1> DEFINE r == Acknowledged
<1>1. /\ row.there /\ row.pend # 0 /\ versions[job.base].save = row.pend
      /\ row.base \in 1..Len(versions) /\ job.base \in 1..Len(versions)
      /\ job \in JobType /\ row \in RowType /\ Sound(row) /\ Kept(row) /\ working = TRUE
  BY RowFacts DEF Acknowledge, Acknowledges
<1>2. /\ row.fields.inflight = 0 /\ row.fields.delivery = row.pend
      /\ row.fields.pending = row.pend
  BY <1>1 DEF Sound
<1> DEFINE f == IF row.at = "detached"
                THEN [row.fields EXCEPT !.version = row.pend, !.pending = 0, !.delivery = 0]
                ELSE SetBase(row.fields)
<1>3. row.fields \in FieldsType /\ row.pend \in Nat /\ job.base \in Nat
  BY <1>1, RowFacts
<1>4. /\ f \in FieldsType
      /\ f.inflight = 0 /\ f.delivery = 0 /\ f.pending = 0 /\ f.version = row.pend
  BY <1>1, <1>2, <1>3 DEF FieldsType, SetBase
<1>5. r = [row EXCEPT !.base = job.base, !.pend = 0, !.fields = f]
  BY <1>1 DEF Acknowledged, RowType
<1> HIDE DEF f
<1>6. /\ r \in RowType /\ r.there /\ r.closed = row.closed /\ r.base = job.base /\ r.pend = 0
       /\ r.at = row.at /\ r.fields = f
  BY <1>1, <1>3, <1>4, <1>5 DEF RowType
<1> HIDE DEF r
<1>7. Sound(r)
  BY <1>1, <1>6, <1>4 DEF Sound, Books, IInv, VersionsSound, TypeOK
<1>8. Kept(r)
  BY <1>1, <1>2, <1>6 DEF Kept, Books, Held
<1>9. UNCHANGED <<project, named, sent, crashes>> /\ working' = TRUE
  BY <1>1 DEF Acknowledge, window, project
<1>10. CASE ~row.closed /\ GoOn(r, AfterOpen(r, job))
  <2> DEFINE j == AfterOpen(r, job)
  <2>1. /\ j \in JobType /\ j.base = job.base
        /\ \/ j.pc \in {"attach", "rebind", "do"}
           \/ j.pc = "deliver" /\ j.save = r.pend /\ r.pend # 0
    BY <1>1, <1>6, AfterOpenSays
  <2> HIDE DEF j
  <2>2. JobSound'
    BY <1>6, <1>10, <2>1 DEF GoOn, JobSound, Calling, Running, j
  <2> QED
    BY <1>1, <1>6, <1>7, <1>8, <1>9, <1>10, <2>1, <2>2, GoOnKeeps DEF j
<1>11. CASE job' = Idle /\ row' = r /\ disk' \in {disk, Receipt(r)} /\ faults' \in Nat
  BY <1>1, <1>6, <1>7, <1>8, <1>9, <1>11, LeaveKeeps
<1> QED
  BY <1>10, <1>11 DEF Acknowledge, GoOn, Fault, IInv, TypeOK, r

\* The row is attached to the window of its working copy.
LEMMA AttachKeeps ==
  ASSUME IInv, Attach
  PROVE  IInv'
<1> DEFINE r == [row EXCEPT !.at = "attached"]
<1>1. /\ row.there /\ ~row.closed /\ row.base = job.base /\ row \in RowType /\ job \in JobType
      /\ Sound(row) /\ Kept(row) /\ job.base \in 1..Len(versions) /\ working = TRUE
  BY RowFacts DEF Attach, IInv, JobSound, Calling
<1>2. /\ r \in RowType /\ r.there /\ ~r.closed /\ r.base = row.base
      /\ r.pend = row.pend /\ r.fields = row.fields
  BY <1>1 DEF RowType
<1>3. job' \in JobType /\ job'.pc = "restore" /\ job'.base = job.base
  BY <1>1 DEF Attach, JobType, PCs
<1>4. row' = r /\ disk' = disk /\ UNCHANGED <<project, window, bounds>>
  BY DEF Attach
<1> HIDE DEF r
<1>5. JobSound'
  BY <1>1, <1>2, <1>3, <1>4 DEF JobSound, Calling, Running
<1>6. Sound(row)' /\ Kept(row)'
  BY <1>1, <1>2, <1>4 DEF Sound, Kept, Held, Books, window, project
<1> QED
  BY <1>1, <1>2, <1>3, <1>4, <1>5, <1>6, Frame DEF window, project, bounds, IInv, TypeOK

\* A rebind finds the save in flight, when that is the one sent, or hands over
\* the one that was never delivered.
LEMMA ReboundSays ==
  ASSUME IInv, Rebinding, row.fields.inflight \in {0, sent}
  PROVE  /\ Rebound \in RowType /\ Rebound.there /\ ~Rebound.closed /\ Rebound.base = job.base
         /\ Rebound.at = row.at
         /\ Sound(Rebound) /\ Kept(Rebound)
         /\ Sound([row EXCEPT !.fields = Rebound.fields])
         /\ Kept([row EXCEPT !.fields = Rebound.fields])
<1> DEFINE r == Rebound
           u == [row EXCEPT !.fields = Rebound.fields]
           f == row.fields
           g == RebindFields(f)
<1>1. /\ row.there /\ ~row.closed /\ row.base = job.base /\ row \in RowType
      /\ Sound(row) /\ Kept(row) /\ f \in FieldsType
  BY RowFacts DEF Rebinding, IInv, JobSound, Calling
<1>2. g \in FieldsType /\ g.version = f.version /\ g.inflight = 0
  BY <1>1 DEF RebindFields, FieldsType
<1>3. g.delivery = g.pending /\ g.delivery = IF f.inflight # 0 THEN f.inflight ELSE f.delivery
  BY <1>1 DEF RebindFields, FieldsType, Sound
<1>4. /\ r = [row EXCEPT !.fields = g, !.pend = IF g.delivery # 0 THEN g.delivery ELSE @]
      /\ u = [row EXCEPT !.fields = g]
  BY <1>1 DEF Rebound, RowType
<1>5. /\ r \in RowType /\ r.there /\ ~r.closed /\ r.base = row.base /\ r.at = row.at /\ r.fields = g
      /\ u \in RowType /\ u.there /\ u.base = row.base /\ u.fields = g /\ u.pend = row.pend
      /\ r.pend = IF g.delivery # 0 THEN g.delivery ELSE row.pend
  BY <1>1, <1>2, <1>4 DEF RowType, FieldsType
<1> HIDE DEF r, u, f, g
<1>6. row.pend # 0 => f.inflight = 0 /\ f.delivery = row.pend
  BY <1>1 DEF Sound, f
<1>7. /\ Books(r) \subseteq Books(row) \cup {0} /\ Books(u) \subseteq Books(row) \cup {0}
      /\ r.pend # 0 => r.fields.delivery = r.pend
      /\ u.pend # 0 => u.fields.delivery = u.pend
  BY <1>2, <1>3, <1>5, <1>6 DEF Books, f
<1>8. Sound(r) /\ Sound(u)
  <2>1. /\ row.base \in 1..Len(versions) /\ f.version = versions[row.base].save
        /\ \A x \in Books(row) : x <= named /\ x \notin versions[row.base].line
        /\ 0 <= named /\ 0 \notin versions[row.base].line
    BY <1>1 DEF Sound, f, IInv, TypeOK, VersionsSound
  <2>2. \A x \in Books(r) \cup Books(u) : x <= named /\ x \notin versions[row.base].line
    BY <1>7, <2>1
  <2> QED
    BY <1>2, <1>3, <1>5, <1>7, <2>1, <2>2 DEF Sound
<1>9. Kept(r) /\ Kept(u)
  <2>1. sent # 0 /\ sent \in Books(row) => sent \in Books(r) /\ sent \in Books(u)
    BY <1>2, <1>3, <1>5, <1>6 DEF Books, f
  <2> QED
    BY <1>1, <1>5, <2>1 DEF Kept
<1> QED
  BY <1>1, <1>5, <1>8, <1>9 DEF r, u

LEMMA RebindKeeps ==
  ASSUME IInv, Rebind
  PROVE  IInv'
<1> DEFINE r == Rebound
           u == [row EXCEPT !.fields = Rebound.fields]
           j == AfterRebind(Rebound)
<1>1. /\ r \in RowType /\ r.there /\ ~r.closed /\ r.base = job.base
      /\ Sound(r) /\ Kept(r) /\ Sound(u) /\ Kept(u)
  BY ReboundSays DEF Rebind
<1>2. /\ job \in JobType /\ job.base \in 1..Len(versions) /\ row \in RowType
      /\ row.there /\ row.base \in 1..Len(versions) /\ working = TRUE
  BY RowFacts DEF Rebind, Rebinding, IInv, JobSound, Calling
<1>3. u \in RowType /\ u.there /\ u.base = row.base
  BY <1>1, <1>2 DEF RowType
<1>4. /\ j \in JobType /\ j.base \in 1..Len(versions)
      /\ \/ j.pc = "deliver" /\ j.save = r.pend /\ r.pend # 0 /\ j.base = job.base
         \/ j.pc = "do" /\ (j.act # "end" => r.pend = 0) /\ j.base = job.base
         \/ j.pc = "idle"
  <2>1. r.pend \in Nat
    BY <1>1 DEF RowType
  <2> HIDE DEF r
  <2>2. j = IF r.pend # 0 /\ job.act # "end" THEN [job EXCEPT !.pc = "deliver", !.save = r.pend]
            ELSE IF job.act = "rebind" THEN Idle ELSE [job EXCEPT !.pc = "do"]
    BY DEF AfterRebind, r
  <2>3. 1 \in 1..Len(versions)
    BY <1>2
  <2> HIDE DEF j
  <2> QED
    BY <1>2, <2>1, <2>2, <2>3, IdleTyped DEF JobType, PCs
<1>5. UNCHANGED <<project, named, sent, crashes>> /\ working' = TRUE
  BY <1>2 DEF Rebind, window, project
<1>6. GoOn(r, j) \/ WriteFails(u) \/ WriteFails(r)
  BY DEF Rebind
<1> HIDE DEF r, u, j
<1>7. CASE GoOn(r, j)
  <2>1. JobSound'
    BY <1>1, <1>4, <1>7 DEF GoOn, JobSound, Calling, Running
  <2> QED
    BY <1>1, <1>2, <1>4, <1>5, <1>7, <2>1, GoOnKeeps
<1>8. CASE WriteFails(u)
  BY <1>1, <1>2, <1>3, <1>5, <1>8, WriteFailsKeeps
<1>9. CASE WriteFails(r)
  BY <1>1, <1>2, <1>5, <1>9, WriteFailsKeeps
<1> QED
  BY <1>6, <1>7, <1>8, <1>9

\* The row of a call that is running.
LEMMA RunningFacts ==
  ASSUME IInv, job.pc \in {"do", "named", "sent", "saved"}
  PROVE  /\ row.there /\ ~row.closed /\ row.base = job.base /\ row.base \in 1..Len(versions)
         /\ row \in RowType /\ row.fields \in FieldsType /\ job \in JobType
         /\ Sound(row) /\ Kept(row) /\ working = TRUE
         /\ ~(job.pc = "do" /\ job.act = "end") => row.pend = 0
BY RowFacts DEF IInv, JobSound, Calling, Running

\* A command that makes the operation id of a recovered delivery stale.
LEMMA EditKeeps ==
  ASSUME IInv, Edit
  PROVE  IInv'
<1> DEFINE r == [row EXCEPT !.fields.id = "none"]
<1>1. /\ row.there /\ ~row.closed /\ row.base = job.base /\ row \in RowType
      /\ row.fields \in FieldsType /\ job \in JobType /\ Sound(row) /\ Kept(row)
      /\ working = TRUE /\ row.pend = 0 /\ job.pc = "do" /\ row.base \in 1..Len(versions)
  BY RunningFacts DEF Edit, CanRun
<1>2. /\ r \in RowType /\ r.there /\ ~r.closed /\ r.base = row.base /\ r.pend = row.pend
      /\ r.fields.inflight = row.fields.inflight /\ r.fields.delivery = row.fields.delivery
      /\ r.fields.pending = row.fields.pending /\ r.fields.version = row.fields.version
  BY <1>1 DEF RowType, FieldsType
<1>3. (GoOn(r, job) \/ WriteFails(r)) /\ UNCHANGED <<project, named, sent, crashes>>
      /\ working' = TRUE
  BY <1>1 DEF Edit, window, project
<1> HIDE DEF r
<1>4. Sound(r) /\ Kept(r)
  BY <1>1, <1>2 DEF Sound, Kept, Books
<1>5. CASE GoOn(r, job)
  <2>1. JobSound'
    BY <1>1, <1>2, <1>5 DEF GoOn, JobSound, Calling, Running
  <2> QED
    BY <1>1, <1>2, <1>3, <1>4, <1>5, <2>1, GoOnKeeps
<1>6. CASE WriteFails(r)
  BY <1>1, <1>2, <1>3, <1>4, <1>6, WriteFailsKeeps
<1> QED
  BY <1>3, <1>5, <1>6

\* A save is named: no version can hold it, and the save sent before it is
\* still the one to deliver.
LEMMA NameSaveKeeps ==
  ASSUME IInv, NameSave
  PROVE  IInv'
<1> DEFINE r == [row EXCEPT !.fields.inflight = named + 1]
           j == [job EXCEPT !.pc = "named"]
<1>1. /\ row.there /\ ~row.closed /\ row.base = job.base /\ row \in RowType
      /\ row.fields \in FieldsType /\ job \in JobType /\ Sound(row) /\ Kept(row)
      /\ working = TRUE /\ row.pend = 0 /\ row.base \in 1..Len(versions)
      /\ row.fields.inflight = 0
  BY RunningFacts DEF NameSave, CanRun, IInv, JobSound
<1>2. named \in Nat /\ named' = named + 1
  BY DEF NameSave, IInv, TypeOK
<1>3. /\ r \in RowType /\ r.there /\ ~r.closed /\ r.base = row.base /\ r.pend = 0
      /\ r.fields.inflight = named + 1 /\ r.fields.delivery = row.fields.delivery
      /\ r.fields.pending = row.fields.pending /\ r.fields.version = row.fields.version
  BY <1>1, <1>2 DEF RowType, FieldsType
<1>4. j \in JobType /\ j.pc = "named" /\ j.base = job.base
  BY <1>1 DEF JobType, PCs
<1>5. GoOn(r, j) \/ WriteFails(r)
  BY DEF NameSave
<1>6. UNCHANGED <<project, working, sent, crashes>>
  BY DEF NameSave
<1>7. row' = r /\ disk' \in {disk, Receipt(r)} /\ faults' \in Nat
  BY <1>5 DEF GoOn, WriteFails, Fault, IInv, TypeOK
<1> HIDE DEF r, j
<1>8. \A x \in Books(r) : x <= named + 1 /\ x \notin versions[r.base].line
  <2>1. \A x \in Books(row) : x \in Nat /\ x <= named /\ x \notin versions[row.base].line
    BY <1>1 DEF Sound, Books, FieldsType, RowType
  <2>2. \A x \in Books(r) : x = named + 1 \/ x \in Books(row)
    BY <1>1, <1>3 DEF Books
  <2>3. named + 1 \notin versions[row.base].line
    BY <1>1, <1>2 DEF IInv, VersionsSound
  <2> QED
    BY <1>2, <1>3, <2>1, <2>2, <2>3
<1>9. Sound(row)' /\ Kept(row)'
  BY <1>1, <1>2, <1>3, <1>6, <1>7, <1>8 DEF Sound, Kept, Held, Books, project
<1>10. Sound(disk)' /\ Kept(disk)' /\ disk' \in ReceiptType /\ disk'.base \in 0..Len(versions)
  <2>1. CASE disk' = disk
    BY <1>2, <1>6, <2>1 DEF IInv, TypeOK, Sound, Kept, Held, Books, FieldsType, ReceiptType, project
  <2>2. CASE disk' = Receipt(r)
    BY <1>1, <1>3, <1>7, <1>9, <2>2, ReceiptSays DEF Sound, Kept, Held, Books, project
  <2> QED
    BY <1>7, <2>1, <2>2
<1>11. VersionsSound' /\ CommittedOnce' /\ (sent <= named)'
  BY <1>2, <1>6 DEF IInv, VersionsSound, CommittedOnce, TypeOK, project
<1>12. JobSound' /\ job' \in JobType /\ job'.base \in 1..Len(versions)
       /\ job'.pc \notin {"deliver", "committed"}
  <2>1. CASE GoOn(r, j)
    BY <1>1, <1>2, <1>3, <1>4, <2>1, ReceiptSays DEF GoOn, JobSound, Calling, Running
  <2>2. CASE WriteFails(r)
    BY <1>1, <2>2, IdleTyped DEF WriteFails, JobSound, Calling, Running
  <2> QED
    BY <1>5, <2>1, <2>2
<1>13. /\ crashes' \in Nat /\ sent' \in Nat /\ versions' \in Seq(VersionType) /\ versions' = versions
       /\ active' \in 1..Len(versions')
  BY <1>6 DEF IInv, TypeOK, project
<1> QED
  BY <1>1, <1>2, <1>3, <1>6, <1>7, <1>9, <1>10, <1>11, <1>12, <1>13 DEF IInv, TypeOK

\* The save goes out: memory and receipt both tell of it.
LEMMA SendSaveKeeps ==
  ASSUME IInv, SendSave
  PROVE  IInv'
<1>1. /\ row.there /\ Sound(row) /\ row.fields.inflight # 0 /\ row.fields \in FieldsType
      /\ disk.there /\ disk.fields.inflight = row.fields.inflight /\ job \in JobType
  BY RunningFacts DEF SendSave, IInv, JobSound
<1>2. /\ sent' = row.fields.inflight /\ row' = row /\ disk' = disk
      /\ UNCHANGED <<project, named, working, faults, crashes>>
      /\ job' = [job EXCEPT !.pc = "sent"]
  BY DEF SendSave, bounds
<1>3. sent' \in Nat /\ sent' <= named
  BY <1>1, <1>2 DEF Sound, Books, FieldsType
<1>4. Kept(row)' /\ Kept(disk)' /\ Sound(row)' /\ Sound(disk)'
  BY <1>1, <1>2 DEF Kept, Sound, Books, IInv, project
<1>5. job' \in JobType /\ job'.pc = "sent" /\ job'.base = job.base
  BY <1>1, <1>2 DEF JobType, PCs
<1>6. JobSound'
  BY <1>1, <1>2, <1>5 DEF JobSound, Calling, Running, SendSave, IInv
<1>7. VersionsSound' /\ CommittedOnce'
  BY <1>2 DEF IInv, VersionsSound, CommittedOnce, project
<1>8. TypeOK'
  BY <1>2, <1>3, <1>5 DEF IInv, TypeOK, project
<1> QED
  BY <1>2, <1>3, <1>4, <1>6, <1>7, <1>8 DEF IInv

\* The save was read back: it is the one to deliver.
LEMMA ConfirmSaveKeeps ==
  ASSUME IInv, ConfirmSave
  PROVE  IInv'
<1> DEFINE x == row.fields.inflight
           r == [row EXCEPT !.fields.inflight = 0, !.fields.delivery = row.fields.inflight,
                            !.fields.pending = row.fields.inflight, !.fields.id = "stage"]
           j == [job EXCEPT !.pc = "saved", !.save = r.fields.delivery]
<1>1. /\ row.there /\ ~row.closed /\ row.base = job.base /\ row \in RowType
      /\ row.fields \in FieldsType /\ job \in JobType /\ Sound(row) /\ Kept(row)
      /\ working = TRUE /\ row.pend = 0 /\ row.base \in 1..Len(versions)
      /\ x # 0 /\ x = sent /\ x \in Nat /\ job.pc = "sent"
  BY RunningFacts DEF ConfirmSave, IInv, JobSound, FieldsType
<1>2. /\ r \in RowType /\ r.there /\ ~r.closed /\ r.base = row.base /\ r.pend = 0
      /\ r.fields.inflight = 0 /\ r.fields.delivery = x
      /\ r.fields.pending = x /\ r.fields.version = row.fields.version
  BY <1>1 DEF RowType, FieldsType
<1>3. (GoOn(r, j) \/ WriteFails(r)) /\ UNCHANGED <<project, named, sent, crashes>>
      /\ working' = TRUE
  BY <1>1 DEF ConfirmSave, window, project
<1>4. j \in JobType /\ j.pc = "saved" /\ j.base = job.base /\ j.save = x
  BY <1>1, <1>2 DEF JobType, PCs
<1> HIDE DEF r, j
<1>5. x <= named /\ x \notin versions[row.base].line
  BY <1>1 DEF Sound, Books
<1>6. Sound(r)
  <2>1. 0 <= named /\ 0 \notin versions[row.base].line
    BY <1>1 DEF IInv, TypeOK, VersionsSound
  <2> QED
    BY <1>1, <1>2, <1>5, <2>1 DEF Sound, Books
<1>7. Kept(r)
  BY <1>1, <1>2 DEF Kept, Books
<1>8. CASE GoOn(r, j)
  <2>1. JobSound'
    BY <1>1, <1>2, <1>4, <1>8 DEF GoOn, JobSound, Calling, Running
  <2> QED
    BY <1>1, <1>2, <1>3, <1>4, <1>6, <1>7, <1>8, <2>1, GoOnKeeps
<1>9. CASE WriteFails(r)
  BY <1>1, <1>2, <1>3, <1>6, <1>7, <1>9, WriteFailsKeeps
<1> QED
  BY <1>3, <1>8, <1>9

\* The run returns its last save: the row waits for the version of it.
LEMMA RunReturnsKeeps ==
  ASSUME IInv, RunReturns
  PROVE  IInv'
<1> DEFINE r == [row EXCEPT !.pend = job.save]
           j == [job EXCEPT !.pc = "deliver"]
<1>1. /\ row.there /\ ~row.closed /\ row.base = job.base /\ row \in RowType
      /\ row.fields \in FieldsType /\ job \in JobType /\ Sound(row) /\ Kept(row)
      /\ working = TRUE /\ row.pend = 0 /\ row.base \in 1..Len(versions)
      /\ row.fields.inflight = 0 /\ row.fields.delivery = job.save /\ job.save # 0
  BY RunningFacts DEF RunReturns, IInv, JobSound
<1>2. /\ r \in RowType /\ r.there /\ ~r.closed /\ r.base = row.base /\ r.pend = job.save
      /\ r.fields = row.fields
  BY <1>1 DEF RowType, JobType
<1>3. (GoOn(r, j) \/ WriteFails(r)) /\ UNCHANGED <<project, named, sent, crashes>>
      /\ working' = TRUE
  BY <1>1 DEF RunReturns, window, project
<1>4. j \in JobType /\ j.pc = "deliver" /\ j.base = job.base /\ j.save = job.save
  BY <1>1 DEF JobType, PCs
<1> HIDE DEF r, j
<1>5. Sound(r)
  BY <1>1, <1>2 DEF Sound, Books
<1>6. Kept(r)
  BY <1>1, <1>2 DEF Kept, Books
<1>7. CASE GoOn(r, j)
  <2>1. JobSound'
    BY <1>1, <1>2, <1>4, <1>7 DEF GoOn, JobSound, Calling, Running
  <2> QED
    BY <1>1, <1>2, <1>3, <1>4, <1>5, <1>6, <1>7, <2>1, GoOnKeeps
<1>8. CASE WriteFails(r)
  BY <1>1, <1>2, <1>3, <1>5, <1>6, <1>8, WriteFailsKeeps
<1> QED
  BY <1>3, <1>7, <1>8

\* The session ends.
LEMMA EndKeeps ==
  ASSUME IInv, End
  PROVE  IInv'
<1> DEFINE r == [row EXCEPT !.closed = TRUE]
<1>1. /\ row.there /\ row \in RowType /\ Sound(row) /\ Kept(row)
      /\ working = TRUE /\ row.base \in 1..Len(versions)
  BY RunningFacts DEF End
<1>2. /\ r \in RowType /\ r.there /\ r.base = row.base /\ r.pend = row.pend
      /\ r.fields = row.fields
  BY <1>1 DEF RowType
<1>3. (GoOn(r, Idle) \/ WriteFails(r)) /\ UNCHANGED <<project, named, sent, crashes>>
      /\ working' = TRUE
  BY <1>1 DEF End, window, project
<1> HIDE DEF r
<1>4. Sound(r) /\ Kept(r)
  BY <1>1, <1>2 DEF Sound, Kept, Books
<1>5. row' = r /\ job' = Idle /\ disk' \in {disk, Receipt(r)} /\ faults' \in Nat
  BY <1>3 DEF GoOn, WriteFails, Fault, IInv, TypeOK
<1> QED
  BY <1>1, <1>2, <1>3, <1>4, <1>5, LeaveKeeps

-----------------------------------------------------------------------------
(* The steps that make a version *)

\* A new version holds a save that its line did not hold; everything said of
\* the session and the versions before stands.
LEMMA GrowKeeps ==
  ASSUME IInv, NEW v \in 1..Len(versions), NEW x \in Nat, x <= named,
         x \notin versions[v].line,
         versions' = Append(versions, Made(v, x)),
         UNCHANGED <<window, disk, row, bounds>>
  PROVE  /\ versions' \in Seq(VersionType) /\ Len(versions') = Len(versions) + 1
         /\ versions'[Len(versions) + 1].save = x
         /\ \A w \in 1..Len(versions) : versions'[w] = versions[w]
         /\ VersionsSound' /\ CommittedOnce'
         /\ Sound(row)' /\ Sound(disk)' /\ Kept(row)' /\ Kept(disk)'
<1> DEFINE n == Len(versions)
           m == Made(v, x)
<1>1. versions \in Seq(VersionType) /\ n \in Nat /\ n >= 1 /\ named \in Nat
  BY DEF IInv, TypeOK, VersionsSound
<1>2. m \in VersionType /\ m.base = v /\ m.save = x /\ m.line = versions[v].line \cup ({x} \ {0})
  <2>1. versions[v] \in VersionType /\ v \in Nat
    BY <1>1
  <2>2. versions[v].line \subseteq Nat
    BY <2>1 DEF VersionType
  <2>3. versions[v].line \cup ({x} \ {0}) \in SUBSET Nat
    BY <2>2
  <2>4. m = [base |-> v, save |-> x, line |-> versions[v].line \cup ({x} \ {0})]
    BY DEF Made
  <2> HIDE DEF m
  <2> QED
    BY <2>1, <2>3, <2>4 DEF VersionType
<1> HIDE DEF m
<1>3. /\ versions' \in Seq(VersionType) /\ Len(versions') = n + 1
      /\ versions'[n + 1] = m /\ \A w \in 1..n : versions'[w] = versions[w]
  BY <1>1, <1>2 DEF m
<1>4. /\ UNCHANGED <<named, sent, disk, row>>
  BY DEF window, project
<1>5. VersionsSound'
  <2> SUFFICES ASSUME NEW w \in 1..(n + 1)
               PROVE  /\ \A y \in versions'[w].line : y \in 1..named
                      /\ versions'[w].save # 0 => versions'[w].save \in versions'[w].line
                      /\ w # 1 => versions'[w].base \in 1..(w - 1)
    BY <1>1, <1>3, <1>4 DEF VersionsSound
  <2>1. CASE w \in 1..n
    BY <1>3, <2>1 DEF IInv, VersionsSound
  <2>2. CASE w = n + 1
    <3>1. \A y \in m.line : y \in 1..named
      BY <1>1, <1>2 DEF IInv, VersionsSound
    <3>2. m.save # 0 => m.save \in m.line
      BY <1>2
    <3> QED
      BY <1>1, <1>2, <1>3, <2>2, <3>1, <3>2
  <2> QED
    BY <1>1, <2>1, <2>2
<1>6. CommittedOnce'
  <2> SUFFICES ASSUME NEW w \in 2..(n + 1), versions'[w].save # 0
               PROVE  versions'[w].save \notin versions'[versions'[w].base].line
    BY <1>3 DEF CommittedOnce
  <2>1. CASE w \in 2..n
    <3>1. versions'[w] = versions[w] /\ versions[w].base \in 1..n
      BY <1>1, <1>3, <2>1 DEF IInv, VersionsSound
    <3> QED
      BY <1>3, <2>1, <3>1 DEF IInv, CommittedOnce
  <2>2. CASE w = n + 1
    BY <1>2, <1>3, <2>2
  <2>3. w \in 2..n \/ w = n + 1
    <3> HIDE DEF n
    <3> QED
      BY <1>1
  <2> QED
    BY <2>1, <2>2, <2>3
<1>7. \A y : Held(y) => Held(y)'
  BY <1>1, <1>3 DEF Held
<1>8. Sound(row)' /\ Kept(row)'
  BY <1>1, <1>3, <1>4, <1>7 DEF IInv, Sound, Kept, Books
<1>9. Sound(disk)' /\ Kept(disk)'
  BY <1>1, <1>3, <1>4, <1>7 DEF IInv, Sound, Kept, Books
<1> QED
  BY <1>2, <1>3, <1>5, <1>6, <1>8, <1>9

\* The version of the save that is delivered.
LEMMA CommitKeeps ==
  ASSUME IInv, Commit
  PROVE  IInv'
<1>1. /\ row.there /\ row.base = job.base /\ ~row.closed /\ job.save = row.pend /\ job.save # 0
      /\ job \in JobType /\ job.base \in 1..Len(versions) /\ job.save \in Nat
      /\ job.pc = "deliver" /\ row.pend \in Books(row) /\ Sound(row)
  BY RowFacts DEF Commit, IInv, TypeOK, JobSound, Calling, Books
<1>2. job.save <= named /\ job.save \notin versions[job.base].line
  BY <1>1 DEF Sound
<1>3. /\ versions' = Append(versions, Made(job.base, job.save))
      /\ UNCHANGED <<window, disk, row, bounds>> /\ active' = Len(versions')
      /\ job' = [job EXCEPT !.pc = "committed"]
  BY DEF Commit
<1>4. /\ versions' \in Seq(VersionType) /\ Len(versions') = Len(versions) + 1
      /\ versions'[Len(versions) + 1].save = job.save
      /\ VersionsSound' /\ CommittedOnce'
      /\ Sound(row)' /\ Sound(disk)' /\ Kept(row)' /\ Kept(disk)'
  BY <1>1, <1>2, <1>3, GrowKeeps
<1>5. /\ job' \in JobType /\ job'.base = job.base /\ job'.save = job.save
      /\ job'.pc = "committed"
  BY <1>1, <1>3 DEF JobType, PCs
<1>6. UNCHANGED <<working, named, sent, faults, crashes, disk, row>>
  BY <1>3 DEF window, project, bounds
<1>7. JobSound'
  BY <1>1, <1>3, <1>4, <1>5, <1>6 DEF JobSound, Calling, Running
<1>8. Len(versions) \in Nat
  BY DEF IInv, TypeOK
<1>9. TypeOK'
  BY <1>1, <1>3, <1>4, <1>5, <1>6, <1>8 DEF IInv, TypeOK
<1> QED
  BY <1>4, <1>6, <1>7, <1>9 DEF IInv

\* The version of another proposal.
LEMMA OtherVersionKeeps ==
  ASSUME IInv, NEW v \in 1..Len(versions), OtherVersion(v)
  PROVE  IInv'
<1>1. 0 \notin versions[v].line /\ 0 <= named
  BY DEF IInv, VersionsSound, TypeOK
<1>2. versions' = Append(versions, Made(v, 0)) /\ UNCHANGED <<window, disk, row, job, bounds>>
      /\ job.pc = "idle" /\ active' \in {active, Len(versions')}
  BY DEF OtherVersion
<1>3. /\ versions' \in Seq(VersionType) /\ Len(versions') = Len(versions) + 1
      /\ VersionsSound' /\ CommittedOnce'
      /\ Sound(row)' /\ Sound(disk)' /\ Kept(row)' /\ Kept(disk)'
  BY <1>1, <1>2, GrowKeeps
<1>4. UNCHANGED <<working, named, sent, faults, crashes, disk, row, job>>
  BY <1>2 DEF window, project, bounds
<1>5. JobSound'
  BY <1>2, <1>4 DEF JobSound, Calling, Running
<1>6. Len(versions) \in Nat
  BY DEF IInv, TypeOK
<1>7. TypeOK'
  BY <1>2, <1>3, <1>4, <1>6 DEF IInv, TypeOK
<1> QED
  BY <1>3, <1>4, <1>5, <1>7 DEF IInv

\* Another version is made the active one.
LEMMA ActivateKeeps ==
  ASSUME IInv, NEW v \in 1..Len(versions), Activate(v)
  PROVE  IInv'
<1>1. /\ UNCHANGED <<versions, working, named, sent, disk, row, job, faults, crashes>>
      /\ active' = v /\ job.pc = "idle"
  BY DEF Activate, window, bounds
<1>2. TypeOK'
  BY <1>1 DEF IInv, TypeOK
<1>3. JobSound'
  BY <1>1 DEF JobSound, Calling, Running
<1> QED
  BY <1>1, <1>2, <1>3 DEF IInv, VersionsSound, CommittedOnce, Sound, Kept, Held, Books

\* The session takes the version just made as its base, and waits for nothing.
LEMMA RebaseKeeps ==
  ASSUME IInv, Rebase
  PROVE  IInv'
<1> DEFINE r == Rebased
           f == SetBase(row.fields)
           n == Len(versions)
<1>1. /\ row.there /\ ~row.closed /\ row.pend # 0 /\ row \in RowType /\ row.fields \in FieldsType
      /\ Sound(row) /\ Kept(row) /\ working = TRUE /\ row.pend = versions[n].save
      /\ n \in 1..n /\ n \in Nat
  BY RowFacts DEF Rebase, RebaseAllowed, IInv, JobSound, VersionsSound, TypeOK
<1>2. row.fields.inflight = 0 /\ row.fields.delivery = row.pend /\ row.fields.pending = row.pend
  BY <1>1 DEF Sound
<1>3. /\ f \in FieldsType
      /\ f.inflight = 0 /\ f.delivery = 0 /\ f.pending = 0 /\ f.version = row.pend
  BY <1>1, <1>2 DEF FieldsType, SetBase
<1>4. r = [row EXCEPT !.base = n, !.pend = 0, !.fields = f]
  BY <1>1 DEF Rebased, RowType
<1> HIDE DEF f
<1>5. r \in RowType /\ r.there /\ r.base = n /\ r.pend = 0 /\ r.fields = f
  BY <1>1, <1>3, <1>4 DEF RowType
<1> HIDE DEF r
<1>6. Sound(r)
  <2>1. 0 <= named /\ 0 \notin versions[n].line
    BY <1>1 DEF IInv, TypeOK, VersionsSound
  <2>2. Books(r) = {0}
    BY <1>3, <1>5 DEF Books
  <2> QED
    BY <1>1, <1>3, <1>5, <2>1, <2>2 DEF Sound
<1>7. Kept(r)
  BY <1>1, <1>2 DEF Kept, Books, Held
<1>8. /\ row' = r /\ job' = Idle /\ disk' \in {disk, Receipt(r)} /\ faults' \in Nat
      /\ UNCHANGED <<project, named, sent, crashes>> /\ working' = TRUE
  BY <1>1 DEF Rebase, GoOn, Fault, IInv, TypeOK, window, project, r
<1> QED
  BY <1>1, <1>5, <1>6, <1>7, <1>8, LeaveKeeps

\* A process ends, and a new one loads the receipt as it is or as it is written
\* at an orderly end.
LEMMA StopKeeps ==
  ASSUME IInv, Crash \/ Shutdown
  PROVE  IInv'
<1>1. /\ row' = Loaded(disk') /\ job' = Idle /\ crashes' \in Nat
      /\ UNCHANGED <<project, window>> /\ faults' \in Nat
      /\ disk' = disk \/ (row.there /\ disk' = Receipt(row))
  BY DEF Crash, Shutdown, Stop, Fault, IInv, TypeOK
<1>2. /\ disk' \in ReceiptType /\ disk'.base \in 0..Len(versions) /\ (disk'.there => row.there)
      /\ Sound(disk') /\ Kept(disk')
  <2>1. CASE disk' = disk
    BY <2>1 DEF IInv, TypeOK
  <2>2. CASE row.there /\ disk' = Receipt(row)
    BY <2>2, RowFacts, ReceiptSays, WrittenSound DEF IInv, TypeOK
  <2> QED
    BY <1>1, <2>1, <2>2
<1>3. /\ row' \in RowType /\ row'.base \in 0..Len(versions) /\ row'.there = disk'.there
      /\ Sound(row') /\ Kept(row')
  <2>1. /\ row' \in RowType /\ row'.there = disk'.there
        /\ disk'.there => /\ row'.base = disk'.base
                          /\ row'.pend = disk'.pend /\ row'.fields = disk'.fields
        /\ ~disk'.there => row'.base = 0
    BY <1>1, <1>2, LoadedSays
  <2>2. 0 \in 0..Len(versions)
    BY <1>2 DEF IInv, TypeOK
  <2> QED
    BY <1>2, <2>1, <2>2 DEF Sound, Kept, Books
<1>4. UNCHANGED <<project, working, named, sent>>
  BY <1>1 DEF window, project
<1>5. Sound(row)' /\ Kept(row)' /\ Sound(disk)' /\ Kept(disk)'
  BY <1>2, <1>3, <1>4 DEF Sound, Kept, Held, Books, project
<1>6. JobSound'
  BY <1>1, IdleTyped DEF JobSound, Calling, Running
<1>7. TypeOK'
  <2>1. job' \in JobType /\ job'.base \in 1..Len(versions) /\ job'.pc = "idle"
    BY <1>1, IdleTyped DEF IInv, VersionsSound
  <2> QED
    BY <1>1, <1>2, <1>3, <1>4, <2>1 DEF IInv, TypeOK, project
<1>8. VersionsSound' /\ CommittedOnce' /\ (sent <= named)'
  BY <1>4 DEF IInv, VersionsSound, CommittedOnce, project
<1> QED
  BY <1>2, <1>3, <1>4, <1>5, <1>6, <1>7, <1>8 DEF IInv

-----------------------------------------------------------------------------
(* The theorems *)

\* Every step keeps the invariant.
LEMMA StepKeeps == IInv /\ [Next]_vars => IInv'
<1> SUFFICES ASSUME IInv, [Next]_vars PROVE IInv'
  OBVIOUS
<1>1. CASE \/ \E a \in Actions : Approve(a)
           \/ StartRefused \/ OpenRefused \/ AttachFails \/ RebindUnconfirmed \/ RebindFails
           \/ SaveUnconfirmed \/ RunWithoutData \/ EndFails \/ Refuse \/ RebaseFails
  BY <1>1, QuietSteps
<1>2. CASE StartNew \/ StartFails
  BY <1>2, StartNewKeeps
<1>3. CASE StartExisting
  BY <1>3, StartExistingKeeps
<1>4. CASE Acknowledge
  BY <1>4, AcknowledgeKeeps
<1>5. CASE Open
  BY <1>5, OpenKeeps
<1>6. CASE Attach
  BY <1>6, AttachKeeps
<1>7. CASE Rebind
  BY <1>7, RebindKeeps
<1>8. CASE Edit
  BY <1>8, EditKeeps
<1>9. CASE NameSave
  BY <1>9, NameSaveKeeps
<1>10. CASE SendSave
  BY <1>10, SendSaveKeeps
<1>11. CASE ConfirmSave
  BY <1>11, ConfirmSaveKeeps
<1>12. CASE RunReturns
  BY <1>12, RunReturnsKeeps
<1>13. CASE End
  BY <1>13, EndKeeps
<1>14. CASE Commit
  BY <1>14, CommitKeeps
<1>15. CASE Rebase
  BY <1>15, RebaseKeeps
<1>16. CASE \E v \in 1..Len(versions) : OtherVersion(v)
  BY <1>16, OtherVersionKeeps
<1>17. CASE Crash \/ Shutdown
  BY <1>17, StopKeeps
<1>18. CASE \E v \in 1..Len(versions) : Activate(v)
  BY <1>18, ActivateKeeps
<1>19. CASE UNCHANGED vars
  BY <1>19 DEF vars, project, IInv, TypeOK, VersionsSound, CommittedOnce, Sound, Kept, Held, Books,
               JobSound, Calling, Running
<1> QED
  BY <1>1, <1>2, <1>3, <1>4, <1>5, <1>6, <1>7, <1>8, <1>9, <1>10, <1>11, <1>12, <1>13,
     <1>14, <1>15, <1>16, <1>17, <1>18, <1>19 DEF Next, Step

LEMMA Inductive == Spec => []IInv
BY InitSound, StepKeeps, PTL DEF Spec

\* The receipt, the row, the call and the versions keep their types, whatever
\* fails and whenever the process stops.
THEOREM TypeCorrect == Spec => []TypeOK
<1>1. IInv => TypeOK
  BY DEF IInv
<1> QED
  BY <1>1, Inductive, PTL

\* No number of crashes, failed writes and retries makes a second version of one
\* stage save along a line: the commit comes from a row that waits for a save
\* its base's line does not hold, and the late acknowledgement (execution.py
\* _acknowledge_rebase_from_proposal) takes the place of a second commit.
THEOREM SavesCommittedOnce == Spec => []CommittedOnce
<1>1. IInv => CommittedOnce
  BY DEF IInv
<1> QED
  BY <1>1, Inductive, PTL

\* The last save sent to GX Works2 is in a version or in the receipt on disk:
\* the checkpoint before the command, the delivery field and the pending save
\* hand it on without a gap, for any number of failures.  While it waits for its
\* version no other Save is sent.
THEOREM SavesNotLost == Spec => []SaveNotLost
<1>1. IInv => SaveNotLost
  BY DEF IInv, Kept, Held, SaveNotLost, TypeOK, JobSound, Running
<1> QED
  BY <1>1, Inductive, PTL

\* The saved revision that the session reports for its base is the one of the
\* save that this version holds, in memory and on disk: set_base_version and the
\* late acknowledgement move both together.
THEOREM BaseIsTold == Spec => []BaseTellsSave
<1>1. IInv => BaseTellsSave
  BY DEF IInv, BaseTellsSave, Sound
<1> QED
  BY <1>1, Inductive, PTL

\* Once the version is committed, the checks of rebase_live_session (the session
\* is open and not busy, its base is the call's, a save is pending, the version just
\* made is active) cannot refuse: only a
\* failure to read or write leaves the session on its old base.
THEOREM RebaseNeverRefused == Spec => [](job.pc = "committed" => RebaseAllowed)
<1>1. IInv => (job.pc = "committed" => RebaseAllowed)
  BY DEF IInv, TypeOK, JobSound, Calling, RebaseAllowed, Busy
<1> QED
  BY <1>1, Inductive, PTL
=============================================================================
