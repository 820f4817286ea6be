---------------------------- MODULE LiveDelivery ----------------------------
(***************************************************************************)
(* How a stage save of a live engineering session becomes a version of the *)
(* project (application/execution.py, application/native_completion.py).   *)
(* Three records are written one after the other by a process that may     *)
(* stop in between: the session's receipt on disk, the project's versions, *)
(* and the receipt again, rebased on the version.  The row of the session  *)
(* in memory is read, changed and written back by every approved call.     *)
(*                                                                         *)
(* A stage save is the number of its operation id: the data revision it    *)
(* carries and the bytes are functions of that number.  What one call does *)
(* in the GX Works2 window beside its saves is in LiveSession.             *)
(***************************************************************************)
EXTENDS Naturals, Sequences, FiniteSets

CONSTANTS
  MaxSaves,     \* bound on the stage saves of a behaviour
  MaxVersions,  \* bound on the versions of the project
  MaxFaults,    \* bound on the failed reads and writes
  MaxCrashes    \* bound on the ends of the server process

ASSUME DeliveryConstants == {MaxSaves, MaxVersions, MaxFaults, MaxCrashes} \subseteq Nat

VARIABLES
  versions,  \* the project's versions, in the order of their commits
  active,    \* the version the project works on
  working,   \* whether the working copy of the session's project exists
  disk,      \* the session's receipt
  row,       \* the session's row in memory
  job,       \* the decision being executed, and the step it is about to take
  named,     \* operation ids of stage saves handed out so far
  sent,      \* the last stage save sent to GX Works2, 0 for none
  faults,    \* reads and writes that have failed so far
  crashes    \* ends of the process so far

project == <<versions, active>>
vars == <<project, working, disk, row, job, named, sent, faults, crashes>>
window == <<working, named, sent>>
bounds == <<faults, crashes>>

-----------------------------------------------------------------------------
(* Records *)

Actions == {"start", "continue", "rebind", "end"}

\* The fields of the controller's checkpoint that tell of its saves: the save
\* in flight, the one not yet delivered, the one a version is waited for, and
\* the one that the base version holds.  "id" is where a result made now finds
\* the operation id of the delivery: in its own stage saves, in the status of
\* the last save only, or nowhere.
NoFields == [inflight |-> 0, delivery |-> 0, pending |-> 0, version |-> 0, id |-> "stage"]

NoReceipt == [there |-> FALSE, base |-> 0, closed |-> FALSE, pend |-> 0, fields |-> NoFields]
NoRow == [there |-> FALSE, base |-> 0, closed |-> FALSE, pend |-> 0, fields |-> NoFields,
          at |-> "detached"]
Idle == [pc |-> "idle", act |-> "start", base |-> 1, save |-> 0]

\* What a receipt stores of a row.  The checkpoint is the controller's own
\* while one is attached, and the row keeps the copy it last took.
Receipt(r) == [there |-> TRUE, base |-> r.base, closed |-> r.closed, pend |-> r.pend,
               fields |-> r.fields]

\* _load_live_row: what a new process knows of the session.
Loaded(d) == IF d.there
             THEN [there |-> TRUE, base |-> d.base, closed |-> d.closed, pend |-> d.pend,
                   fields |-> d.fields, at |-> "detached"]
             ELSE NoRow

\* The saves of the version and of the versions it was made from: a record
\* that the properties need and the code does not keep.
Made(base, save) == [base |-> base, save |-> save,
                     line |-> versions[base].line \cup ({save} \ {0})]

\* set_base_version: the save that waited for a version has one.
SetBase(f) == [f EXCEPT !.version = IF f.pending # 0 THEN f.pending ELSE @,
                        !.pending = 0, !.delivery = 0]

Init ==
  /\ versions = <<[base |-> 0, save |-> 0, line |-> {}]>>
  /\ active = 1
  /\ working = FALSE
  /\ disk = NoReceipt
  /\ row = NoRow
  /\ job = Idle
  /\ named = 0
  /\ sent = 0
  /\ faults = 0
  /\ crashes = 0

-----------------------------------------------------------------------------
(* Helpers of the actions *)

Fault == faults < MaxFaults /\ faults' = faults + 1

\* The call goes on; its row has been written.
GoOn(r, next) ==
  /\ row' = r
  /\ disk' = Receipt(r)
  /\ job' = next
  /\ UNCHANGED faults

\* The call ends without data, and the row is written on the way out.
Raise(r) ==
  /\ row' = r
  /\ \/ disk' = Receipt(r) /\ UNCHANGED faults
     \/ disk' = disk /\ Fault
  /\ job' = Idle

\* A write of the row fails: the row in memory has changed, the call ends, and
\* the handler's second write may succeed.
WriteFails(r) ==
  /\ Fault
  /\ row' = r
  /\ disk' \in {disk, Receipt(r)}
  /\ job' = Idle

\* Mutant of AfterRestore: the retained result is returned though no save waits.
AfterRestore_Always(r, j) ==
  IF j.act # "end" THEN [j EXCEPT !.pc = "deliver", !.save = r.pend]
  ELSE [j EXCEPT !.pc = "do"]

\* The step after the row is attached: an undelivered save goes first, and no
\* new command is run, unless the session is being ended.
AfterRestore(r, j) ==
  IF r.pend # 0 /\ j.act # "end" THEN [j EXCEPT !.pc = "deliver", !.save = r.pend]
  ELSE IF j.act = "rebind" THEN [j EXCEPT !.pc = "rebind"]
  ELSE [j EXCEPT !.pc = "do"]

AfterOpen(r, j) == IF r.at = "detached" THEN [j EXCEPT !.pc = "attach"]
                   ELSE AfterRestore(r, j)

-----------------------------------------------------------------------------
(* A call on the session: start *)

\* A live proposal is approved and takes the workspace lock.  The version it is
\* made for is the active one, or the call is refused before it does anything.
Approve(a) ==
  /\ job.pc = "idle"
  /\ job' = [pc |-> IF a = "start" THEN "start" ELSE "open", act |-> a, base |-> active,
             save |-> 0]
  /\ UNCHANGED <<project, window, disk, row, bounds>>

NewRow(at) == [there |-> TRUE, base |-> job.base, closed |-> FALSE, pend |-> 0,
               fields |-> NoFields, at |-> at]

\* The first start copies the project, opens it and writes the first receipt;
\* its commands are run next.
StartNew ==
  /\ job.pc = "start" /\ ~row.there /\ ~working
  /\ working' = TRUE
  /\ GoOn(NewRow("attached"), [job EXCEPT !.pc = "do"])
  /\ UNCHANGED <<project, named, sent, crashes>>

\* That start fails: before the copy is made, before the row exists, or when its
\* receipt is written, which closes the driver and leaves the row.
StartFails ==
  /\ job.pc = "start" /\ ~row.there /\ ~working
  /\ Fault
  /\ \/ working' \in BOOLEAN /\ row' = row
     \/ working' = TRUE /\ row' = NewRow("dead")
  /\ job' = Idle
  /\ UNCHANGED <<project, disk, named, sent, crashes>>

\* A working copy without a receipt is neither overwritten nor opened.
StartRefused ==
  /\ job.pc = "start" /\ ~row.there /\ working
  /\ job' = Idle
  /\ UNCHANGED <<project, window, disk, row, bounds>>

\* A start on an open session returns it and runs nothing; an ended session is
\* open again, to be restored by the next call.
StartExisting ==
  /\ job.pc = "start" /\ row.there
  /\ IF row.closed
     THEN LET r == [row EXCEPT !.closed = FALSE, !.at = "detached"] IN
          \/ GoOn(r, Idle)
          \/ Fault /\ row' = r /\ job' = Idle /\ UNCHANGED disk
     ELSE job' = Idle /\ UNCHANGED <<row, disk, faults>>
  /\ UNCHANGED <<project, window, crashes>>

-----------------------------------------------------------------------------
(* A call on the session: find the row, acknowledge, attach *)

\* Mutant of Acknowledges: any stage save in the version will do.
Acknowledges_AnySave == row.base # job.base /\ row.pend # 0 /\ versions[job.base].save # 0

\* The call's version holds the save the row still waits for: the process
\* stopped between the commit and the rebase.
Acknowledges == /\ row.base # job.base /\ row.pend # 0
                /\ versions[job.base].save = row.pend
                /\ row.fields.id # "none"

\* Mutant of Acknowledged: the checkpoint keeps the save to deliver.
Acknowledged_KeepsDelivery ==
  [row EXCEPT !.base = job.base, !.pend = 0,
              !.fields = IF row.at = "detached" THEN [@ EXCEPT !.version = row.pend] ELSE SetBase(@)]

\* The fields of a detached row are changed in its checkpoint, those of an
\* attached one by its controller.
Acknowledged ==
  [row EXCEPT !.base = job.base, !.pend = 0,
              !.fields = IF row.at = "detached"
                         THEN [@ EXCEPT !.version = row.pend, !.pending = 0, !.delivery = 0]
                         ELSE SetBase(@)]

\* The late acknowledgement, and the call goes on with the rebased row.
Acknowledge ==
  /\ job.pc = "open" /\ row.there /\ Acknowledges
  /\ \/ /\ ~row.closed
        /\ GoOn(Acknowledged, AfterOpen(Acknowledged, job))
     \/ /\ row.closed
        /\ GoOn(Acknowledged, Idle)
     \/ /\ Fault
        /\ row' = Acknowledged
        /\ job' = Idle
        /\ UNCHANGED disk
  /\ UNCHANGED <<project, window, crashes>>

\* The row is the session of this base version.
Open ==
  /\ job.pc = "open" /\ row.there /\ ~row.closed /\ row.base = job.base
  /\ job' = AfterOpen(row, job)
  /\ UNCHANGED <<project, window, disk, row, bounds>>

\* No such session, an ended one, or another base version.
OpenRefused ==
  /\ job.pc = "open"
  /\ ~row.there \/ (~Acknowledges /\ (row.closed \/ row.base # job.base))
  /\ job' = Idle
  /\ UNCHANGED <<project, window, disk, row, bounds>>

\* _restore_live_row attaches to the window of the working copy.
Attach ==
  /\ job.pc = "attach"
  /\ row' = [row EXCEPT !.at = "attached"]
  /\ job' = [job EXCEPT !.pc = "restore"]
  /\ UNCHANGED <<project, window, disk, bounds>>

\* The window is not there, or shows another project.
AttachFails ==
  /\ job.pc = "attach"
  /\ Raise(row)
  /\ UNCHANGED <<project, window, crashes>>

-----------------------------------------------------------------------------
(* A call on the session: rebind *)

Rebinding == job.pc \in {"restore", "rebind"} /\ row.at = "attached"

\* What the controller returns: a save in flight that is found in the file, or
\* the save of an earlier call that was never delivered.
RebindFields(f) ==
  IF f.inflight # 0
  THEN [f EXCEPT !.inflight = 0, !.delivery = f.inflight, !.pending = f.inflight,
                 !.id = "status"]
  ELSE f

Rebound == LET f == RebindFields(row.fields) IN
           [row EXCEPT !.fields = f, !.pend = IF f.delivery # 0 THEN f.delivery ELSE @]

AfterRebind(r) ==
  IF r.pend # 0 /\ job.act # "end" THEN [job EXCEPT !.pc = "deliver", !.save = r.pend]
  ELSE IF job.act = "rebind" THEN Idle
  ELSE [job EXCEPT !.pc = "do"]

\* A save that was named but never sent is not found.
Rebind ==
  /\ Rebinding
  /\ row.fields.inflight \in {0, sent}
  /\ \/ GoOn(Rebound, AfterRebind(Rebound))
     \/ WriteFails([row EXCEPT !.fields = Rebound.fields])
     \/ WriteFails(Rebound)
  /\ UNCHANGED <<project, window, crashes>>

\* The source differs, or the save in flight has no receipt: nothing changes.
\* Only an explicit rebind writes the row.
RebindUnconfirmed ==
  /\ Rebinding
  /\ \/ job.pc = "restore" /\ job' = Idle /\ UNCHANGED <<disk, row, faults>>
     \/ job.pc = "rebind" /\ Raise(row)
  /\ UNCHANGED <<project, window, crashes>>

\* The window has gone, or the driver is closed.
RebindFails ==
  /\ job.pc \in {"restore", "rebind"}
  /\ Raise(row)
  /\ UNCHANGED <<project, window, crashes>>

-----------------------------------------------------------------------------
(* A call on the session: run and end *)

CanRun == /\ job.pc = "do" /\ job.act \in {"start", "continue"}
          /\ row.at = "attached" /\ row.fields.inflight = 0

\* A command changes the source: the status of the last save is stale, and with
\* it the operation id of a delivery that a rebind has recovered.
Edit ==
  /\ CanRun /\ row.fields.id = "status"
  /\ LET r == [row EXCEPT !.fields.id = "none"] IN GoOn(r, job) \/ WriteFails(r)
  /\ UNCHANGED <<project, window, crashes>>

\* A Save command of the run gets its operation id and a checkpoint first.
NameSave ==
  /\ CanRun \/ job.pc = "saved"
  /\ named < MaxSaves
  /\ named' = named + 1
  /\ LET r == [row EXCEPT !.fields.inflight = named + 1] IN
     \/ GoOn(r, [job EXCEPT !.pc = "named"])
     \/ WriteFails(r)
  /\ UNCHANGED <<project, working, sent, crashes>>

SendSave ==
  /\ job.pc = "named"
  /\ sent' = row.fields.inflight
  /\ job' = [job EXCEPT !.pc = "sent"]
  /\ UNCHANGED <<project, working, named, disk, row, bounds>>

\* The save returned and the file was read back: it is the save to deliver.
ConfirmSave ==
  /\ job.pc = "sent"
  /\ LET r == [row EXCEPT !.fields.inflight = 0, !.fields.delivery = row.fields.inflight,
                          !.fields.pending = row.fields.inflight,
                          !.fields.id = "stage"] IN
     \/ GoOn(r, [job EXCEPT !.pc = "saved", !.save = r.fields.delivery])
     \/ WriteFails(r)
  /\ UNCHANGED <<project, window, crashes>>

\* A timeout, a lost reply, a file that changed: the save stays in flight.
SaveUnconfirmed ==
  /\ job.pc \in {"named", "sent"}
  /\ Raise(row)
  /\ UNCHANGED <<project, window, crashes>>

\* The run ends, or pauses, after a save: its bytes are in the result.
RunReturns ==
  /\ job.pc = "saved"
  /\ LET r == [row EXCEPT !.pend = job.save] IN
     \/ GoOn(r, [job EXCEPT !.pc = "deliver"])
     \/ WriteFails(r)
  /\ UNCHANGED <<project, window, crashes>>

\* A run without a save, one that fails before or after its save, or that may
\* not start: the result holds no bytes.
RunWithoutData ==
  /\ job.pc = "saved" \/ (job.pc = "do" /\ job.act \in {"start", "continue"})
  /\ Raise(row)
  /\ UNCHANGED <<project, window, crashes>>

\* The controller lets go of the window, which stays open.
End ==
  /\ job.pc = "do" /\ job.act = "end"
  /\ LET r == [row EXCEPT !.closed = TRUE] IN GoOn(r, Idle) \/ WriteFails(r)
  /\ UNCHANGED <<project, window, crashes>>

EndFails ==
  /\ job.pc = "do" /\ job.act = "end"
  /\ Raise(row)
  /\ UNCHANGED <<project, window, crashes>>

-----------------------------------------------------------------------------
(* Completion: the version, then the rebase *)

\* The saved bytes do not verify, or a behaviour check fails: no version.
Refuse ==
  /\ job.pc = "deliver"
  /\ job' = Idle
  /\ UNCHANGED <<project, window, disk, row, bounds>>

\* complete_native_candidate: the version becomes visible, and is selected, in
\* one write of the project record.  (The projections of a live save are never
\* held back from activation: finalize_saved returns early for both of them.)
Commit ==
  /\ job.pc = "deliver" /\ Len(versions) < MaxVersions
  /\ versions' = Append(versions, Made(job.base, job.save))
  /\ active' = Len(versions')
  /\ job' = [job EXCEPT !.pc = "committed"]
  /\ UNCHANGED <<window, disk, row, bounds>>

Rebased == [row EXCEPT !.base = Len(versions), !.pend = 0, !.fields = SetBase(@)]

\* While these steps run, the row is marked busy; the mark is taken back before a
\* result is delivered.
Busy == job.pc \in {"rebind", "do", "named", "sent", "saved"}

\* The checks of rebase_live_session.  The version just made must be the active
\* one: the lock has been held since it was.
RebaseAllowed ==
  /\ row.there /\ ~row.closed /\ ~Busy /\ row.base = job.base /\ row.pend # 0
  /\ active = Len(versions)

\* rebase_live_session, on the version just made.
Rebase ==
  /\ job.pc = "committed" /\ RebaseAllowed
  /\ \/ GoOn(Rebased, Idle)
     \/ Fault /\ row' = Rebased /\ job' = Idle /\ UNCHANGED disk
  /\ UNCHANGED <<project, window, crashes>>

\* The project record cannot be read: the row keeps its old base.
RebaseFails ==
  /\ job.pc = "committed"
  /\ Fault
  /\ job' = Idle
  /\ UNCHANGED <<project, window, disk, row, crashes>>

-----------------------------------------------------------------------------
(* The rest of the server *)

\* Another proposal of the project is accepted; its version may be held back.
OtherVersion(v) ==
  /\ job.pc = "idle" /\ Len(versions) < MaxVersions
  /\ versions' = Append(versions, Made(v, 0))
  /\ active' \in {active, Len(versions')}
  /\ UNCHANGED <<window, disk, row, job, bounds>>

\* The user goes back to an older version, or on to one again.
Activate(v) ==
  /\ job.pc = "idle" /\ v # active
  /\ active' = v
  /\ UNCHANGED <<versions, window, disk, row, job, bounds>>

Stop == crashes < MaxCrashes /\ crashes' = crashes + 1 /\ job' = Idle

\* The process ends at any point; a new one loads the receipt.
Crash ==
  /\ row.there \/ job.pc # "idle"
  /\ Stop
  /\ row' = Loaded(disk)
  /\ UNCHANGED <<project, window, disk, faults>>

\* _close_live_sessions at an orderly end: the open session is written once more,
\* if it can be.
Shutdown ==
  /\ job.pc = "idle" /\ row.there /\ ~row.closed /\ row.at # "detached"
  /\ Stop
  /\ \/ disk' = Receipt(row) /\ UNCHANGED faults
     \/ disk' = disk /\ Fault
  /\ row' = Loaded(disk')
  /\ UNCHANGED <<project, window>>

Step == \/ \E a \in Actions : Approve(a)
        \/ StartNew \/ StartFails \/ StartRefused \/ StartExisting
        \/ Acknowledge \/ Open \/ OpenRefused \/ Attach \/ AttachFails
        \/ Rebind \/ RebindUnconfirmed \/ RebindFails
        \/ Edit \/ NameSave \/ SendSave \/ ConfirmSave \/ SaveUnconfirmed
        \/ RunReturns \/ RunWithoutData \/ End \/ EndFails
        \/ Refuse \/ Commit \/ Rebase \/ RebaseFails
        \/ \E v \in 1..Len(versions) : OtherVersion(v) \/ Activate(v)
        \/ Crash \/ Shutdown

Next == Step

Spec == Init /\ [][Next]_vars

-----------------------------------------------------------------------------
(* Properties *)

FieldsType == [inflight : Nat, delivery : Nat, pending : Nat, version : Nat,
               id : {"stage", "status", "none"}]
PCs == {"idle", "start", "open", "attach", "restore", "rebind", "do", "named", "sent",
        "saved", "deliver", "committed"}

VersionType == [base : Nat, save : Nat, line : SUBSET Nat]
ReceiptType == [there : BOOLEAN, base : Nat, closed : BOOLEAN, pend : Nat, fields : FieldsType]
RowType == [there : BOOLEAN, base : Nat, closed : BOOLEAN, pend : Nat, fields : FieldsType,
            at : {"attached", "dead", "detached"}]
JobType == [pc : PCs, act : Actions, base : Nat, save : Nat]

\* Every record keeps its type, the bases of the session and of the call are
\* versions, and a call that delivers names the save it delivers.
TypeOK ==
  /\ versions \in Seq(VersionType) /\ active \in 1..Len(versions)
  /\ working \in BOOLEAN
  /\ disk \in ReceiptType /\ disk.base \in 0..Len(versions)
  /\ row \in RowType /\ row.base \in 0..Len(versions)
  /\ job \in JobType /\ job.base \in 1..Len(versions)
  /\ job.pc \in {"deliver", "committed"} => job.save # 0
  /\ named \in Nat /\ sent \in Nat /\ faults \in Nat /\ crashes \in Nat

\* A stage save is committed at most once along a line of versions: no version
\* holds the save of a version it was made from, whatever step of commit,
\* rebase and acknowledgement the process stopped in.
CommittedOnce ==
  \A v \in 2..Len(versions) :
    versions[v].save # 0 => versions[v].save \notin versions[versions[v].base].line

Books(r) == {r.pend, r.fields.delivery, r.fields.inflight}

\* The last save sent to GX Works2 is held by a version, or the receipt on
\* disk still tells of it: whatever fails or stops, a later call can find it.
\* And none is sent, which would replace it, while one waits for its version.
SaveNotLost ==
  /\ \/ sent = 0
     \/ \E v \in 1..Len(versions) : versions[v].save = sent
     \/ disk.there /\ sent \in Books(disk)
  /\ job.pc \in {"named", "sent", "saved"} => row.pend = 0

\* The revision a session reports for its base version is the one whose save
\* that version holds, in memory and in the receipt.
BaseTellsSave ==
  \A r \in {row, disk} : r.there => r.fields.version = versions[r.base].save
=============================================================================
