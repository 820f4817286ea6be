----------------------------- MODULE LiveSession -----------------------------
(***************************************************************************)
(* One live engineering session (application/live_engineering.py): the     *)
(* desktop thread steps through engineering commands in one open GX Works2 *)
(* window, keeps revision numbers for what is edited, saved and delivered, *)
(* writes a recovery record before and after every command, and, after a   *)
(* timeout or a restart, finds out by reading alone what became of the     *)
(* command in flight.                                                      *)
(*                                                                         *)
(* The source shown by the window is the sequence of edits made to it: the *)
(* number of the command that made each of them, or ByHand.  The bytes of  *)
(* the project file are the source they hold and a stamp, so that a second *)
(* write of the same source is seen as a change of the file.               *)
(***************************************************************************)
EXTENDS Naturals, Sequences, FiniteSets

CONSTANTS
  None,            \* absent value (Python's None)
  Ops,             \* the kinds of commands a plan may hold
  MaxCommands,     \* bound on the commands of a behaviour
  MaxWork,         \* bound on the commands of one call
  MaxUser,         \* bound on what the user does in the window by hand
  MaxCrashes       \* bound on the ends of the server process

Edits == {"edit", "same"}  \* "same" writes what is already there
AllOps == Edits \cup {"compile", "assign", "save", "reopen"}

ASSUME LiveConstants ==
  /\ Ops \subseteq AllOps
  /\ {MaxCommands, MaxWork, MaxUser, MaxCrashes} \subseteq Nat

ByHand == 0
Ids == 1..MaxCommands

VARIABLES
  s,         \* the controller in memory, or None
  receipt,   \* its recovery record on disk
  source,    \* the source in the window
  file,      \* the project file: its source and a stamp
  ide,       \* what GX Works2 is doing: compiler, output, Save
  pc,        \* the step the desktop thread is about to take
  call,      \* locals of the call: steps left, source read, saved data
  issued,    \* the operations of all commands so far, by number
  accepted,  \* numbers of the commands a recovery record has named
  sends,     \* how often the native Save of a command was sent
  user,      \* actions of the user so far
  crashes    \* ends of the process so far

vars == <<s, receipt, source, file, ide, pc, call, issued, accepted, sends, user, crashes>>
env == <<source, file, ide>>
ghosts == <<issued, accepted, sends, user, crashes>>

-----------------------------------------------------------------------------
(* The session record *)

NotRun == [status |-> "not_run", rev |-> 0, run |-> 0]
NoCall == [left |-> 0, work |-> <<>>, after |-> <<>>, data |-> None]

Fresh ==
  [state |-> "ready", closed |-> FALSE, pause |-> FALSE, context |-> None,
   pending |-> <<>>, inflight |-> None, revision |-> 0, saved |-> 0,
   verRev |-> 0, pendVer |-> None, compile |-> NotRun, assigns |-> NotRun,
   save |-> [status |-> "not_run", rev |-> 0], built |-> None,
   delivery |-> None, seen |-> [content |-> <<>>, stamp |-> 0],
   progress |-> [op |-> 0, sent |-> FALSE, returned |-> FALSE],
   last |-> None, running |-> None]

\* What a command does to the source.
Effect(content, c) == IF c.op = "edit" THEN Append(content, c.id) ELSE content

\* Mutant of Changed: the results of the last compile are kept.
Changed_KeepsCompile(r) ==
  [r EXCEPT !.revision = @ + 1, !.built = None,
            !.save = [status |-> IF @.status = "passed" THEN "stale" ELSE "not_run",
                      rev |-> @.rev]]

\* _changed: results of the revision before the edit are stale.
Changed(r) ==
  [r EXCEPT !.revision = @ + 1,
            !.built = None,
            !.compile = [status |-> IF @.status = "not_run" THEN "not_run" ELSE "stale",
                         rev |-> @.rev, run |-> 0],
            !.assigns = IF @.status = "not_run" THEN NotRun ELSE [NotRun EXCEPT !.status = "stale"],
            !.save = [status |-> IF @.status = "passed" THEN "stale" ELSE "not_run",
                      rev |-> @.rev]]

\* Mutant of Durable: a note about the running window is stored too.
Durable_All(r) == r

\* checkpoint: all fields, but not the driver's note of a compile under way.
Durable(r) == [r EXCEPT !.running = None]

\* Mutant of Failed: the command in flight is forgotten.
Failed_Forgets(r) == [r EXCEPT !.state = "failed", !.inflight = None]

\* The state an exception leaves: unconfirmed when a command was in flight.
Failed(r) == [r EXCEPT !.state = IF r.inflight # None THEN "unconfirmed" ELSE "failed"]

\* The project file has been written since the controller last read it.
DiskChanged(r) == file # r.seen

\* acknowledge_native_save: only a file that holds the active source.
Acknowledged(r) == DiskChanged(r) => file.content = source

\* _compiled_save: the saved bytes of the build whose run is r.compile.run.
Build(r, bytes) == [data |-> bytes, rev |-> r.revision, run |-> r.compile.run]
CompileIsCurrent(r) == r.compile.status = "passed" /\ r.compile.rev = r.revision

\* Mutant of AdoptCompileSave: a compile that wrote nothing counts as saved.
AdoptCompileSave_Always(r) ==
  [r EXCEPT !.seen = file, !.saved = r.revision, !.built = Build(r, file)]

\* A compile may write the file; what it wrote is adopted as saved.
AdoptCompileSave(r) ==
  IF DiskChanged(r)
  THEN [r EXCEPT !.seen = file, !.saved = r.revision, !.built = Build(r, file)]
  ELSE r

WithCompile(r, run) ==
  [r EXCEPT !.compile = [status |-> run.outcome, rev |-> r.revision, run |-> run.run]]

WithSave(r, bytes) ==
  [r EXCEPT !.seen = bytes, !.saved = r.revision,
            !.save = [status |-> "passed", rev |-> r.revision],
            !.built = IF CompileIsCurrent(r) THEN Build(r, bytes) ELSE @]

Delivery(r, bytes, op) == [data |-> bytes, rev |-> r.revision, op |-> op]

Cmd == s.inflight.cmd
Flight(f, v) == [s EXCEPT !.inflight[f] = v]

-----------------------------------------------------------------------------
(* Calls of the controller.  One runs at a time: the others are refused.   *)

Init ==
  /\ s = Fresh /\ receipt = Fresh
  /\ source = <<>> /\ file = Fresh.seen
  /\ ide = [run |-> None, build |-> 0, output |-> None, image |-> <<>>, writes |-> 0]
  /\ pc = "idle" /\ call = NoCall
  /\ issued = <<>> /\ accepted = {} /\ sends = [i \in Ids |-> 0]
  /\ user = 0 /\ crashes = 0

Commands(ops) == [i \in DOMAIN ops |-> [id |-> Len(issued) + i, op |-> ops[i]]]

\* run: a call with commands, or one that resumes those still pending, and the
\* most it may do.  Other calls, and all calls of an unconfirmed session, raise
\* and change nothing.
RunWith(ops, limit) ==
  /\ pc = "idle" /\ s # None /\ ~s.closed /\ s.state # "unconfirmed"
  /\ s.pending # <<>> => ops = <<>>
  /\ Len(issued) + Len(ops) <= MaxCommands
  /\ LET work == IF s.pending # <<>> THEN s.pending ELSE Commands(ops)
     IN /\ limit = 1 \/ limit = Len(work)
        /\ call' = [NoCall EXCEPT !.left = limit, !.work = work]
  /\ s' = [s EXCEPT !.pause = FALSE, !.state = "running"]
  /\ issued' = issued \o ops
  /\ pc' = "begun"
  /\ UNCHANGED <<receipt, env, accepted, sends, user, crashes>>

Run == \E n \in 0..MaxWork : \E ops \in [1..n -> Ops], limit \in 1..MaxWork : RunWith(ops, limit)

\* An empty call only reads the window: its source must be the one confirmed
\* last, or the saved baseline when none was read yet.
MatchesContext == source = (IF s.context = None THEN <<>> ELSE s.context)

Observe ==
  /\ pc = "begun" /\ call.work = <<>> /\ MatchesContext
  /\ s' = [s EXCEPT !.context = source]
  /\ pc' = "step"
  /\ UNCHANGED <<receipt, call, env, ghosts>>

Begin ==
  /\ pc = "begun" /\ call.work # <<>>
  /\ s' = [s EXCEPT !.pending = call.work]
  /\ call' = [call EXCEPT !.work = <<>>]
  /\ pc' = "step"
  /\ UNCHANGED <<receipt, env, ghosts>>

\* The top of the loop: go on to the next command, whose progress report writes
\* the recovery record, ...
NextCommand ==
  /\ pc = "step" /\ s.pending # <<>> /\ call.left > 0 /\ ~s.pause
  /\ receipt' = Durable(s)
  /\ accepted' = accepted \cup {s.pending[i].id : i \in DOMAIN s.pending}
  /\ pc' = "ready"
  /\ UNCHANGED <<s, call, env, issued, sends, user, crashes>>

\* ... or leave it, at its end, at the limit or on a request to pause.
Leave ==
  /\ pc = "step"
  /\ s.pending = <<>> \/ call.left = 0 \/ s.pause
  /\ s' = [s EXCEPT !.state = IF s.pending = <<>> THEN "ready" ELSE "paused"]
  /\ pc' = "returning"
  /\ UNCHANGED <<receipt, call, env, ghosts>>

\* The checks of one command against the session and the window.  Before an edit
\* only the pages it needs are read, so that a change of another page by hand
\* may go unseen until the page is read back.
Prepare ==
  /\ pc = "ready"
  /\ LET c == Head(s.pending)
         before == IF s.context = None THEN <<>> ELSE s.context
     IN /\ MatchesContext \/ (s.context # None /\ c.op \in Edits)
        /\ c.op = "assign" => CompileIsCurrent(s)
        /\ c.op = "reopen" => s.revision = s.saved /\ s.save.status = "passed"
        /\ s' = [s EXCEPT !.context = before,
                          !.inflight = [cmd |-> c, before |-> before, obs |-> None,
                                        op |-> 0, bytes |-> None, reopened |-> FALSE]]
  /\ receipt' = Durable(s')
  /\ pc' = "dispatched"
  /\ UNCHANGED <<call, env, ghosts>>

\* An edit begins only while the file is as it was left, ...
Apply ==
  /\ pc = "dispatched" /\ Cmd.op \in Edits
  /\ ~DiskChanged(s)
  /\ s' = [s EXCEPT !.last = None]
  /\ pc' = "applying"
  /\ UNCHANGED <<receipt, env, call, ghosts>>

\* ... and the server makes it in the window, page by page.  One that stops half
\* way leaves what a change by hand would leave.
MakeEdit ==
  /\ pc = "applying"
  /\ source' = Effect(source, Cmd)
  /\ pc' = "acted"
  /\ UNCHANGED <<s, receipt, file, ide, call, ghosts>>

\* A compile clears the output pane first, so that an old summary does not
\* answer for it.
StartCompile ==
  /\ pc = "dispatched" /\ Cmd.op = "compile" /\ s.running = None
  /\ s' = [s EXCEPT !.built = None, !.last = None, !.running = Cmd.id,
                    !.compile = [status |-> "running", rev |-> s.revision, run |-> 0],
                    !.assigns = IF @.status = "not_run" THEN @ ELSE [NotRun EXCEPT !.status = "stale"]]
  /\ ide' = [ide EXCEPT !.run = Cmd.id, !.output = None]
  /\ pc' = "compiling"
  /\ UNCHANGED <<receipt, source, file, call, ghosts>>

CompileReturns ==
  /\ pc = "compiling" /\ ide.run = None /\ ide.output # None
  /\ LET run == [run |-> Cmd.id, rev |-> s.revision, outcome |-> ide.output]
     IN s' = [s EXCEPT !.last = run, !.running = None, !.inflight.obs = run]
  /\ receipt' = Durable(s')
  /\ pc' = "acted"
  /\ UNCHANGED <<env, call, ghosts>>

\* The answer of an address query is kept in memory only until the command ends.
ReadAddresses ==
  /\ pc = "dispatched" /\ Cmd.op = "assign"
  /\ s' = Flight("obs", [run |-> s.compile.run, rev |-> s.revision, outcome |-> "passed"])
  /\ pc' = "acted"
  /\ UNCHANGED <<receipt, env, call, ghosts>>

\* A Save is named in the recovery record before it is sent, ...
NameSave ==
  /\ pc = "dispatched" /\ Cmd.op = "save"
  /\ s' = Flight("op", Cmd.id)
  /\ receipt' = Durable(s')
  /\ pc' = "saving"
  /\ UNCHANGED <<env, call, ghosts>>

\* ... is sent once, and only over a file nobody else has written.  The window is
\* not read again: what was changed by hand since Prepare is saved too, ...
SendSave ==
  /\ pc = "saving" /\ ~DiskChanged(s)
  /\ s' = [s EXCEPT !.progress = [op |-> s.inflight.op, sent |-> FALSE, returned |-> FALSE]]
  /\ \E n \in 1..2 : ide' = [ide EXCEPT !.image = source, !.writes = n]
  /\ sends' = [sends EXCEPT ![Cmd.id] = @ + 1]
  /\ pc' = "sent"
  /\ UNCHANGED <<receipt, source, file, call, issued, accepted, user, crashes>>

\* ... and leaves a receipt of its dispatch.  A Save the window did not take is
\* one of the failures that Fail leaves unconfirmed.
SaveDispatched ==
  /\ pc = "sent"
  /\ s' = [s EXCEPT !.progress.sent = TRUE]
  /\ receipt' = Durable(s')
  /\ pc' = "written"
  /\ UNCHANGED <<env, call, ghosts>>

\* Bytes and window are compared with what Prepare read.
SaveReturns ==
  /\ pc = "written" /\ DiskChanged(s) /\ Acknowledged(s) /\ source = s.inflight.before
  /\ s' = [s EXCEPT !.progress.returned = TRUE, !.seen = file, !.inflight.bytes = file]
  /\ receipt' = Durable(s')
  /\ pc' = "acted"
  /\ UNCHANGED <<env, call, ghosts>>

\* The reply is lost after the bytes were read, and perhaps adopted.
SaveReplyLost ==
  /\ pc = "written" /\ DiskChanged(s)
  /\ \E adopt \in BOOLEAN :
       /\ adopt => Acknowledged(s) /\ source = s.inflight.before
       /\ s' = Failed([s EXCEPT !.progress.returned = TRUE,
                                !.seen = IF adopt THEN file ELSE @])
  /\ call' = NoCall
  /\ pc' = "returning"
  /\ UNCHANGED <<receipt, env, ghosts>>

Reopen ==
  /\ pc = "dispatched" /\ Cmd.op = "reopen"
  /\ source' = file.content
  /\ s' = Flight("reopened", TRUE)
  /\ pc' = "acted"
  /\ UNCHANGED <<receipt, file, ide, call, ghosts>>

-----------------------------------------------------------------------------
(* What was done is read back before the command counts as completed. *)

ReadEdit ==
  /\ pc = "acted" /\ Cmd.op \in Edits
  /\ source = Effect(s.inflight.before, Cmd)
  /\ call' = [call EXCEPT !.after = source]
  /\ pc' = "read"
  /\ UNCHANGED <<s, receipt, env, ghosts>>

\* The other commands must have left the source alone.
Unchanged(op) == pc = "acted" /\ Cmd.op = op /\ source = s.inflight.before

ReadCompile ==
  /\ Unchanged("compile") /\ Acknowledged(s)
  /\ s' = AdoptCompileSave(WithCompile(s, s.inflight.obs))
  /\ call' = [call EXCEPT !.after = source]
  /\ pc' = "read"
  /\ UNCHANGED <<receipt, env, ghosts>>

ReadAssign ==
  /\ Unchanged("assign")
  /\ s' = [s EXCEPT !.assigns = [status |-> "passed", rev |-> s.revision, run |-> s.compile.run]]
  /\ call' = [call EXCEPT !.after = source]
  /\ pc' = "read"
  /\ UNCHANGED <<receipt, env, ghosts>>

\* The window was read back when the Save returned, and is not read again.
ReadSave ==
  /\ pc = "acted" /\ Cmd.op = "save" /\ ~DiskChanged(s)
  /\ s' = WithSave(s, s.inflight.bytes)
  /\ call' = [call EXCEPT !.after = s.inflight.before,
                          !.data = Delivery(s, s.inflight.bytes, Cmd.id)]
  /\ pc' = "read"
  /\ UNCHANGED <<receipt, env, ghosts>>

ReadReopen ==
  /\ Unchanged("reopen") /\ Acknowledged(s)
  /\ s' = [s EXCEPT !.seen = file]
  /\ call' = [call EXCEPT !.after = source]
  /\ pc' = "read"
  /\ UNCHANGED <<receipt, env, ghosts>>

Commit ==
  /\ pc = "read"
  /\ LET r == IF Cmd.op \in Edits /\ call.after # s.inflight.before THEN Changed(s) ELSE s
         done == [r EXCEPT !.context = call.after, !.inflight = None, !.pending = Tail(@)]
     IN s' = IF Cmd.op = "save"
             THEN [done EXCEPT !.pendVer = s.revision, !.delivery = call.data]
             ELSE done
  /\ pc' = "committed"
  /\ UNCHANGED <<receipt, call, env, ghosts>>

\* The report of the completed step writes the recovery record.
Report ==
  /\ pc = "committed"
  /\ receipt' = Durable(s)
  /\ call' = [call EXCEPT !.left = @ - 1]
  /\ pc' = "step"
  /\ UNCHANGED <<s, env, ghosts>>

\* Any check, page or reply on the way may raise; so does every reading while a
\* helper that timed out still reads the window.
Working == {"begun", "ready", "dispatched", "applying", "compiling", "saving", "sent",
            "written", "acted", "read", "committed"}

Fail ==
  /\ pc \in Working
  /\ s' = Failed(s)
  /\ call' = NoCall
  /\ pc' = "returning"
  /\ UNCHANGED <<receipt, env, ghosts>>

\* The coordinator persists what the call returned.
Return ==
  /\ pc = "returning"
  /\ receipt' = Durable(s)
  /\ call' = NoCall
  /\ pc' = "idle"
  /\ UNCHANGED <<s, env, ghosts>>

RequestPause ==
  /\ s # None /\ ~s.closed /\ ~s.pause
  /\ s' = [s EXCEPT !.pause = TRUE]
  /\ UNCHANGED <<receipt, env, pc, call, ghosts>>

\* Mutant of Rebase: the version is taken for the current revision.
Rebase_Current ==
  /\ pc = "idle" /\ s # None /\ s.delivery # None
  /\ s' = [s EXCEPT !.verRev = s.revision, !.pendVer = None, !.delivery = None]
  /\ receipt' = Durable(s')
  /\ UNCHANGED <<env, pc, call, ghosts>>

\* set_base_version: the saved bytes became a project version.
Rebase ==
  /\ pc = "idle" /\ s # None /\ s.delivery # None
  /\ s' = [s EXCEPT !.verRev = IF s.pendVer # None THEN s.pendVer ELSE @,
                    !.pendVer = None, !.delivery = None]
  /\ receipt' = Durable(s')
  /\ UNCHANGED <<env, pc, call, ghosts>>

-----------------------------------------------------------------------------
(* Reconciliation: rebind reads the window and sends nothing. *)

\* Whether a helper still reads the window, which lets rebind raise, is left open.
CanRebind == pc \in {"idle", "restored"} /\ s # None /\ ~s.closed

\* Mutant of Rebound: an undelivered save is replaced even by nothing.
Rebound_Drops(r, data) ==
  /\ s' = [r EXCEPT !.context = source, !.inflight = None,
                    !.state = IF r.pending = <<>> THEN "ready" ELSE "paused",
                    !.pendVer = IF data # None THEN r.revision ELSE None,
                    !.delivery = data]
  /\ receipt' = Durable(s')
  /\ call' = [NoCall EXCEPT !.data = data]
  /\ pc' = "returning"
  /\ UNCHANGED <<env, ghosts>>

\* r: the session with the answer of its command; data: a Save recovered.
Rebound(r, data) ==
  /\ s' = [r EXCEPT !.context = source, !.inflight = None,
                    !.state = IF r.pending = <<>> THEN "ready" ELSE "paused",
                    !.pendVer = IF data # None THEN r.revision ELSE @,
                    !.delivery = IF data # None THEN data ELSE @]
  /\ receipt' = Durable(s')
  /\ call' = [NoCall EXCEPT !.data = IF data # None THEN data ELSE r.delivery]
  /\ pc' = "returning"
  /\ UNCHANGED <<env, ghosts>>

Done(r) == [r EXCEPT !.pending = IF @ = <<>> THEN @ ELSE Tail(@)]

RebindClean ==
  /\ CanRebind /\ s.inflight = None
  /\ s.context = None \/ source = s.context
  /\ Rebound(s, None)

\* Mutants of RebindApplied: the command stays pending; the revision stays.
RebindApplied_Again ==
  /\ CanRebind /\ s.inflight # None /\ Cmd.op \in Edits
  /\ source = Effect(s.inflight.before, Cmd)
  /\ Rebound(IF source # s.inflight.before THEN Changed(s) ELSE s, None)
RebindApplied_Uncounted ==
  /\ CanRebind /\ s.inflight # None /\ Cmd.op \in Edits
  /\ source = Effect(s.inflight.before, Cmd)
  /\ Rebound(Done(s), None)

\* An edit either shows in the window or left it alone: then it stays pending.
RebindApplied ==
  /\ CanRebind /\ s.inflight # None /\ Cmd.op \in Edits
  /\ source = Effect(s.inflight.before, Cmd)
  /\ Rebound(Done(IF source # s.inflight.before THEN Changed(s) ELSE s), None)

\* Mutant of RebindNotApplied: the command is taken for completed.
RebindNotApplied_Done ==
  /\ CanRebind /\ s.inflight # None /\ Cmd.op \in Edits
  /\ source = s.inflight.before /\ source # Effect(s.inflight.before, Cmd)
  /\ Rebound(Done(s), None)

RebindNotApplied ==
  /\ CanRebind /\ s.inflight # None /\ Cmd.op \in Edits
  /\ source = s.inflight.before /\ source # Effect(s.inflight.before, Cmd)
  /\ Rebound(s, None)

\* Every other command needs a receipt of its own over an unchanged source.
Interrupted(op) ==
  CanRebind /\ s.inflight # None /\ Cmd.op = op /\ source = s.inflight.before

\* The run a compile in flight is answered with: its own observation, the run
\* the driver completed last, or the one it was waiting for.
CompileAnswer ==
  IF s.inflight.obs # None THEN s.inflight.obs
  ELSE IF s.last # None
       THEN IF s.last.rev = s.revision /\ ide.run = None /\ ide.output = s.last.outcome
            THEN s.last ELSE None
       ELSE IF s.running # None /\ ide.run = None /\ ide.output # None
            THEN [run |-> s.running, rev |-> s.revision, outcome |-> ide.output]
            ELSE None

RebindCompile ==
  /\ Interrupted("compile") /\ CompileAnswer # None /\ Acknowledged(s)
  /\ LET run == CompileAnswer
     IN Rebound(Done(AdoptCompileSave(WithCompile([s EXCEPT !.last = run, !.running = None], run))),
                None)

\* A file that cannot be read, or does not hold the source, is refused after the
\* result was taken.
RebindCompileRefused ==
  /\ Interrupted("compile") /\ CompileAnswer # None
  /\ LET run == CompileAnswer
     IN s' = WithCompile([s EXCEPT !.last = run, !.running = None], run)
  /\ receipt' = IF pc = "restored" THEN receipt ELSE Durable(s')
  /\ pc' = "idle"
  /\ UNCHANGED <<env, call, ghosts>>

RebindAssign ==
  /\ Interrupted("assign") /\ s.inflight.obs # None /\ s.compile.rev = s.revision
  /\ Rebound(Done([s EXCEPT !.assigns = [status |-> "passed", rev |-> s.revision,
                                         run |-> s.compile.run]]), None)

\* The Save of this command must have been sent; its latest bytes are read.
SaveBytes ==
  IF DiskChanged(s) THEN file
  ELSE IF s.inflight.bytes # None THEN s.inflight.bytes
  ELSE IF s.progress.op = s.inflight.op /\ s.progress.returned THEN file
  ELSE None

SaveWasSent ==
  \/ s.inflight.bytes # None
  \/ s.progress.op = s.inflight.op /\ s.progress.sent

\* Mutant of RebindSave: a Save without a receipt counts as not sent, and stays
\* pending.
RebindSave_Resends ==
  /\ Interrupted("save")
  /\ IF s.inflight.op # 0 /\ SaveWasSent
     THEN /\ SaveBytes = file /\ file.content = source
          /\ LET r == WithSave(s, file)
             IN Rebound(Done(r), Delivery(r, file, s.inflight.op))
     ELSE Rebound(s, None)

RebindSave ==
  /\ Interrupted("save") /\ s.inflight.op # 0 /\ SaveWasSent
  /\ SaveBytes = file /\ file.content = source
  /\ LET r == WithSave(s, file)
     IN Rebound(Done(r), Delivery(r, file, s.inflight.op))

RebindReopen ==
  /\ Interrupted("reopen") /\ s.inflight.reopened /\ Acknowledged(s)
  /\ Rebound(Done([s EXCEPT !.seen = file]), None)

Rebind ==
  \/ RebindClean \/ RebindApplied \/ RebindNotApplied \/ RebindCompile
  \/ RebindCompileRefused \/ RebindAssign \/ RebindSave \/ RebindReopen

\* A restored session whose reconciliation does not pass stays as it was read.
StayUnconfirmed ==
  /\ pc = "restored"
  /\ pc' = "idle"
  /\ UNCHANGED <<s, receipt, env, call, ghosts>>

-----------------------------------------------------------------------------
(* The end of a session, of the service, and what follows it. *)

Close ==
  /\ pc = "idle" /\ s # None /\ ~s.closed
  /\ receipt' = Durable([s EXCEPT !.closed = TRUE, !.state = "ended"])
  /\ s' = None
  /\ UNCHANGED <<env, pc, call, ghosts>>

\* start finds the ended session of the project and opens its record again.
Revive ==
  /\ s = None /\ receipt.closed
  /\ receipt' = [receipt EXCEPT !.closed = FALSE,
                   !.state = IF receipt.inflight # None THEN "unconfirmed"
                             ELSE IF receipt.pending # <<>> THEN "paused" ELSE "ready"]
  /\ UNCHANGED <<s, env, pc, call, ghosts>>

Restore ==
  /\ s = None /\ ~receipt.closed
  /\ s' = [receipt EXCEPT !.state = IF receipt.inflight # None THEN "unconfirmed" ELSE @]
  /\ pc' = "restored"
  /\ UNCHANGED <<receipt, env, call, ghosts>>

\* detach: the service ends after the call under way.
Detach ==
  /\ pc = "idle" /\ s # None
  /\ receipt' = Durable(s)
  /\ s' = None
  /\ UNCHANGED <<env, pc, call, ghosts>>

\* The process ends at any step; GX Works2 goes on with a compile or a Save.
Crash ==
  /\ s # None /\ crashes < MaxCrashes
  /\ s' = None /\ pc' = "idle" /\ call' = NoCall
  /\ crashes' = crashes + 1
  /\ UNCHANGED <<receipt, env, issued, accepted, sends, user>>

-----------------------------------------------------------------------------
(* GX Works2 and its user *)

IdeCompiles ==
  /\ ide.run # None
  /\ \E outcome \in {"passed", "failed"}, writes \in BOOLEAN :
       /\ ide' = [ide EXCEPT !.run = None, !.build = ide.run, !.output = outcome]
       /\ file' = IF writes THEN [content |-> source, stamp |-> file.stamp + 1] ELSE file
  /\ UNCHANGED <<s, receipt, source, pc, call, ghosts>>

\* A Save may write the file again after its first bytes could be read.
IdeSaves ==
  /\ ide.writes > 0
  /\ file' = [content |-> ide.image, stamp |-> file.stamp + 1]
  /\ ide' = [ide EXCEPT !.writes = @ - 1]
  /\ UNCHANGED <<s, receipt, source, pc, call, ghosts>>

UserEdits ==
  /\ user < MaxUser
  /\ source' = Append(source, ByHand)
  /\ user' = user + 1
  /\ UNCHANGED <<s, receipt, file, ide, pc, call, issued, accepted, sends, crashes>>

UserSaves ==
  /\ user < MaxUser
  /\ file' = [content |-> source, stamp |-> file.stamp + 1]
  /\ user' = user + 1
  /\ UNCHANGED <<s, receipt, source, ide, pc, call, issued, accepted, sends, crashes>>

Controller ==
  \/ Run \/ Observe \/ Begin \/ NextCommand \/ Leave \/ Prepare
  \/ Apply \/ MakeEdit \/ StartCompile \/ CompileReturns \/ ReadAddresses
  \/ NameSave \/ SendSave \/ SaveDispatched \/ SaveReturns \/ SaveReplyLost \/ Reopen
  \/ ReadEdit \/ ReadCompile \/ ReadAssign \/ ReadSave \/ ReadReopen
  \/ Commit \/ Report \/ Fail \/ Return \/ Rebind \/ StayUnconfirmed

Environment == IdeCompiles \/ IdeSaves \/ UserEdits \/ UserSaves

Next ==
  \/ Controller \/ RequestPause \/ Rebase \/ Close \/ Revive \/ Restore \/ Detach \/ Crash
  \/ Environment

Spec == Init /\ [][Next]_vars

-----------------------------------------------------------------------------
(* What the session promises *)

Content == Seq(Ids \cup {ByHand})
Command == [id : Ids, op : Ops]
Bytes == [content : Content, stamp : Nat]
Outcome == {"passed", "failed"}
RunRecord == [run : Ids, rev : Nat, outcome : Outcome]
DeliveryRecord == [data : Bytes, rev : Nat, op : Ids]
CompileResult == [status : Outcome \cup {"not_run", "running", "stale"}, rev : Nat, run : Nat]
QueryResult == [status : {"not_run", "passed", "stale"}, rev : Nat, run : Nat]
SaveResult == [status : {"not_run", "passed", "stale"}, rev : Nat]
SaveProgress == [op : Nat, sent : BOOLEAN, returned : BOOLEAN]
BuildRecord == [data : Bytes, rev : Nat, run : Nat]
Maybe(S) == S \cup {None}
FlightRecord ==
  [cmd : Command, before : Content, obs : Maybe(RunRecord),
   op : Ids \cup {0}, bytes : Maybe(Bytes), reopened : BOOLEAN]
States == {"ready", "running", "paused", "failed", "unconfirmed", "ended"}

SessionRecord ==
  [state : States, closed : BOOLEAN, pause : BOOLEAN,
   context : Maybe(Content),
   pending : Seq(Command), inflight : Maybe(FlightRecord),
   revision : Nat, saved : Nat, verRev : Nat, pendVer : Maybe(Nat),
   compile : CompileResult, assigns : QueryResult, save : SaveResult,
   built : Maybe(BuildRecord), delivery : Maybe(DeliveryRecord), seen : Bytes,
   progress : SaveProgress, last : Maybe(RunRecord), running : Maybe(Ids)]
IdeRecord ==
  [run : Maybe(Ids), build : Nat, output : Maybe(Outcome), image : Content, writes : 0..2]
CallRecord ==
  [left : Nat, work : Seq(Command), after : Content, data : Maybe(DeliveryRecord)]

\* The absent value is none of the values it stands beside.
ASSUME NoneIsAbsent ==
  None \notin Nat \cup Outcome \cup Content \cup Command \cup Bytes \cup RunRecord
              \cup FlightRecord \cup BuildRecord \cup DeliveryRecord \cup SessionRecord

\* The session, its recovery record and the window keep their types, and the
\* thread is inside a call only while there is a session.
TypeOK ==
  /\ s \in Maybe(SessionRecord) /\ receipt \in SessionRecord /\ receipt.running = None
  /\ source \in Content /\ file \in Bytes
  /\ ide \in IdeRecord /\ call \in CallRecord
  /\ pc \in Working \cup {"idle", "restored", "step", "returning"}
  /\ s = None => pc = "idle"
  /\ issued \in Seq(Ops) /\ accepted \subseteq Ids /\ sends \in [Ids -> Nat]

Records == {s, receipt} \ {None}
Settled == {r \in Records : r.inflight = None}
Known(r) == IF r.context = None THEN <<>> ELSE r.context
Commanded(content) == {k \in DOMAIN content : content[k] # ByHand}
Written(content) == Cardinality(Commanded(content))

\* No command takes effect twice or out of order, whatever was interrupted,
\* reconciled, restored or resumed: "never send an engineering action again".
AppliedOnce == \A k, l \in Commanded(source) : k < l => source[k] < source[l]

\* Once a session no longer has a command in flight, the compiler works on none,
\* and every commanded edit that shows in the window is part of the confirmed
\* source: a session that stopped between dispatch and confirmation observes the
\* original action before it can write again.
ActionObserved ==
  s # None /\ s.inflight = None =>
    /\ ide.run = None
    /\ \A k \in Commanded(source) : \E l \in DOMAIN Known(s) : Known(s)[l] = source[k]

\* Every edit named in a recovery record is in the confirmed source or still
\* pending, never in both and never in neither.
NoCommandLost ==
  \A r \in Settled : \A i \in accepted :
    issued[i] = "edit" =>
      (i \in {Known(r)[k] : k \in DOMAIN Known(r)}) # (i \in {r.pending[k].id : k \in DOMAIN r.pending})

\* The revision counts the edits of the confirmed source, the saved revision those
\* of the bytes last read from the file.
RevisionNamesSource == \A r \in Settled : r.revision = Written(Known(r))
DiskHoldsRevision ==
  \A r \in Settled : r.saved = Written(r.seen.content) /\ r.saved <= r.revision

\* Compile results, addresses and the saved build belong to the current revision
\* and to one and the same run.
ResultsAreCurrent ==
  \A r \in Records :
    /\ r.compile.status \in Outcome => r.compile.rev = r.revision
    /\ r.assigns.status = "passed" =>
         r.assigns.rev = r.revision /\ CompileIsCurrent(r) /\ r.assigns.run = r.compile.run
    /\ r.built # None =>
         /\ r.built.rev = r.revision /\ r.built.run = r.compile.run
         /\ Written(r.built.data.content) = r.revision

\* The native Save of a command is sent at most once, also when its reply or the
\* process was lost.
SavedOnce == \A i \in Ids : sends[i] <= 1

\* Bytes handed on for a project version hold exactly the revision they are
\* handed on for, and that revision is one that was saved.
DeliveryIsSaved ==
  /\ \A d \in {r.delivery : r \in Records} \cup {call.data} :
       d # None => Written(d.data.content) = d.rev
  /\ \A r \in Records :
       /\ r.delivery # None => r.pendVer = r.delivery.rev /\ r.delivery.rev <= r.saved
       /\ r.verRev <= r.saved

\* A verified save in the recovery record stays there until a version has been
\* made of it or a later save has taken its place.
SaveNotLost ==
  [][receipt.delivery # None /\ receipt'.delivery = None => Rebase]_vars

\* A finished compile result of a settled session is that of the last build made
\* in the window: a previous successful build cannot satisfy a later compile.
LastBuildReported ==
  s # None /\ s.inflight = None /\ s.compile.status \in Outcome => s.compile.run = ide.build

=============================================================================
