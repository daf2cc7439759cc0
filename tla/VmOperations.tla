---------------------------- MODULE VmOperations ----------------------------
(***************************************************************************)
(* What the panel may ask of one existing virtual machine besides power:   *)
(* resizing, snapshots, backups, an ISO, a clone, a migration.  VmsService *)
(* and BackupsService (backend/src/vms, backend/src/backups) write rows,   *)
(* the task handler calls the agent, and server.go, manager.go and         *)
(* storage.go of the agent change the libvirt domain and its files.        *)
(*                                                                         *)
(* A request reads the VM, is checked against what it read, writes its     *)
(* rows and is enqueued; the job calls the agent, may be abandoned by the  *)
(* client after 120 s while the agent goes on, and is retried.  Nothing    *)
(* orders the requests of one VM.  TaskQueue has the queue itself and      *)
(* VmLifecycle the names, creation and removal of VMs.                     *)
(***************************************************************************)
EXTENDS Naturals, FiniteSets

CONSTANTS
  Request,    \* the calls that may be made: bounds the behaviour
  Kinds,      \* the kinds of request that are made
  Sizes,      \* sizes of memory and of the disk; 1 is what the VM starts with
  Home,       \* the node that has the domain
  Target,     \* another node
  Directory,  \* what the path of a backup may name: a directory that is there or can
  ImageFile,  \* be made, or a disk image that is on the node already
  Attempts,   \* job option attempts
  MaxFaults,  \* bound of the model: lost calls and rejected writes
  NoRequest

ASSUME OperationsAssumption ==
  /\ Kinds \subseteq {"start", "stop", "resize", "grow", "snapshot", "revert",
       "dropSnapshot", "backup", "restore", "migrate", "clone", "mount",
       "unmount"}
  /\ Sizes \subseteq Nat /\ 1 \in Sizes
  /\ Home # Target /\ Directory # ImageFile
  /\ Attempts \in Nat \ {0}
  /\ MaxFaults \in Nat
  /\ NoRequest \notin Request

VARIABLES
  row,         \* the VM's row: state, node, mem, disk, iso
  snapRow,     \* the request whose row is the snapshot's, if it has a row
  backupRow,   \* state of the backup row of each backup request
  dom,         \* the domain: power, mem, disk, drive, saved (the snapshot), and
               \* kept (history: its deletion was answered, and it is still there)
  copies,      \* backups whose disks have been copied on the node
  job,         \* the requests
  faults,      \* lost calls and rejected writes so far
  overlapped   \* history: a request began while another was under way

vars == <<row, snapRow, backupRow, dom, copies, job, faults, overlapped>>

Power == {"running", "stopped"}
Drive == {"none", "empty", "iso"}
None == [power |-> "none", mem |-> 0, disk |-> 0, drive |-> "none"]
Image == [power : Power, mem : Sizes, disk : Sizes, drive : Drive]
Row == [state : Power, node : {Home, Target}, mem : Sizes, disk : Sizes,
        iso : BOOLEAN]
Phase == {"none", "asked", "refused", "written", "queued", "calling", "answered",
          "denied", "done", "failed"}
Resting == {"none", "refused", "done", "failed"}
Domain == [power : Power, mem : Sizes, disk : Sizes, saved : Image \union {None},
           drive : Drive, kept : BOOLEAN]
Argument == Sizes \union Request \union {NoRequest, Directory, ImageFile}
Job == [kind : Kinds \union {"none"}, phase : Phase, arg : Argument,
        seen : Row \union {None}, left : 0 .. Attempts, late : 0 .. MaxFaults]

TypeOK ==
  /\ row \in Row
  /\ snapRow \in Request \union {NoRequest}
  /\ backupRow \in [Request -> {"none", "running", "completed"}]
  /\ dom \in Domain
  /\ copies \subseteq Request
  /\ job \in [Request -> Job]
  /\ faults \in 0 .. MaxFaults
  /\ overlapped \in BOOLEAN

Unused == [kind |-> "none", phase |-> "none", arg |-> NoRequest, seen |-> None,
           left |-> 0, late |-> 0]

Init ==
  /\ row = [state |-> "stopped", node |-> Home, mem |-> 1, disk |-> 1,
            iso |-> FALSE]
  /\ snapRow = NoRequest
  /\ backupRow = [r \in Request |-> "none"]
  /\ dom = [power |-> "stopped", mem |-> 1, disk |-> 1, saved |-> None,
            drive |-> "none", kept |-> FALSE]
  /\ copies = {}
  /\ job = [r \in Request |-> Unused]
  /\ faults = 0
  /\ overlapped = FALSE

Goto(r, phase) == job' = [job EXCEPT ![r].phase = phase]
Fault == faults < MaxFaults /\ faults' = faults + 1
AtRest == \A r \in Request : job[r].phase \in Resting /\ job[r].late = 0

-----------------------------------------------------------------------------
(* The API: read the VM, then check and write.                             *)

\* What a request may name: a size, the row of the snapshot, a backup, or where a
\* backup is to go, which nobody checks.
Arguments(kind) ==
  CASE kind \in {"resize", "grow"} -> Sizes
    [] kind \in {"revert", "dropSnapshot"} -> {snapRow} \ {NoRequest}
    [] kind = "backup" -> {Directory, ImageFile}
    [] kind = "restore" -> {b \in Request : backupRow[b] # "none"}
    [] OTHER -> {NoRequest}

\* get(user, id), and the look-up of the snapshot or the backup.
Ask(r) ==
  /\ job[r].phase = "none"
  /\ \E kind \in Kinds : \E a \in Arguments(kind) :
       job' = [job EXCEPT ![r] = [kind |-> kind, phase |-> "asked", arg |-> a,
                                  seen |-> row, left |-> Attempts, late |-> 0]]
  /\ overlapped' = (overlapped \/ ~AtRest)
  /\ UNCHANGED <<row, snapRow, backupRow, dom, copies, faults>>

MutantAnySize(a, seen) == TRUE  \* the comparison is missing

Grows(a, seen) == a > seen.disk

\* The checks are made on the row as it was read; only the unique name of a
\* snapshot is checked by the database when the row is written.
Admitted(kind, a, seen) ==
  CASE kind \in {"resize", "migrate", "clone"} -> seen.state = "stopped"
    [] kind = "grow" -> seen.state = "stopped" /\ Grows(a, seen)
    [] kind = "snapshot" -> snapRow = NoRequest
    [] kind = "unmount" -> seen.iso
    [] OTHER -> TRUE

Direct == {"mount", "unmount"}  \* answered by the request itself, no task

\* The rows are written, and then the task is enqueued.
Accept(r) ==
  LET j == job[r] IN
  /\ j.phase = "asked"
  /\ Admitted(j.kind, j.arg, j.seen)
  /\ job' = [job EXCEPT
       ![r].phase = IF j.kind \in Direct THEN "calling" ELSE "written",
       ![r].left = IF j.kind \in Direct THEN 1 ELSE Attempts,
       ![r].seen = None]
  /\ row' = [row EXCEPT !.mem = IF j.kind = "resize" THEN j.arg ELSE @,
                        !.disk = IF j.kind = "grow" THEN j.arg ELSE @]
  /\ snapRow' = IF j.kind = "snapshot" THEN r ELSE snapRow
  /\ backupRow' = [backupRow EXCEPT ![r] = IF j.kind = "backup" THEN "running"
                                                                ELSE @]
  /\ UNCHANGED <<dom, copies, faults, overlapped>>

Refuse(r) ==
  /\ job[r].phase = "asked"
  /\ ~Admitted(job[r].kind, job[r].arg, job[r].seen)
  /\ job' = [job EXCEPT ![r].phase = "refused", ![r].seen = None]
  /\ UNCHANGED <<row, snapRow, backupRow, dom, copies, faults, overlapped>>

Enqueue(r) ==
  /\ job[r].phase = "written"
  /\ Goto(r, "queued")
  /\ UNCHANGED <<row, snapRow, backupRow, dom, copies, faults, overlapped>>

\* The request fails; what it has written stays.
EnqueueRejected(r) ==
  /\ job[r].phase = "written"
  /\ Fault
  /\ Goto(r, "failed")
  /\ UNCHANGED <<row, snapRow, backupRow, dom, copies, overlapped>>

\* BackupsService.remove: the row only, the files stay on the node.
RemoveBackup(b) ==
  /\ backupRow[b] # "none"
  /\ backupRow' = [backupRow EXCEPT ![b] = "none"]
  /\ UNCHANGED <<row, snapRow, dom, copies, job, faults, overlapped>>

-----------------------------------------------------------------------------
(* The agent: what each call makes of the domain d, as a set of outcomes.  *)

Did(d) == [ok |-> TRUE, dom |-> d]
Failed(d) == [ok |-> FALSE, dom |-> d]

\* An error in reading the state is taken for a guest that does not run.
Stop(d) == {Did([d EXCEPT !.power = "stopped"]), Did(d)}

\* Likewise; what is defined then is what the guest has when it starts again.
ResizeDomain(d, a) ==
  {Did([d EXCEPT !.mem = a])} \union {Failed(e) : e \in {e \in {d} : e.power = "running"}}

\* qemu-img needs the image to itself and does not shrink it.
ResizeDisk(d, a) ==
  IF d.power = "running" \/ a < d.disk THEN {Failed(d)}
  ELSE {Did([d EXCEPT !.disk = a])}

Saved(d) == [power |-> d.power, mem |-> d.mem, disk |-> d.disk, drive |-> d.drive]

SnapshotCreate(d) ==
  IF d.saved # None THEN {Failed(d)} ELSE {Did([d EXCEPT !.saved = Saved(d)])}

SnapshotRevert(d) ==
  IF d.saved = None THEN {Failed(d)}
  ELSE {Did([d EXCEPT !.power = d.saved.power, !.mem = d.saved.mem,
                      !.disk = d.saved.disk, !.drive = d.saved.drive])}

\* Any error in looking up the domain or the snapshot is taken for "already gone".
SnapshotDelete(d) ==
  {Did([d EXCEPT !.saved = None, !.kept = FALSE]),
   Did([d EXCEPT !.kept = d.saved # None])}

\* The directory of the copies cannot be made inside a file; qemu-img convert copies,
\* and the lock of a running guest may refuse it.
Backup(d, place) ==
  CASE place = ImageFile -> {Failed(d)}
    [] d.power = "running" -> {Did(d), Failed(d)}
    [] OTHER -> {Did(d)}

MutantPathIsFile(b) == TRUE  \* the panel names the copies of the backup

\* The path sent is backup.target: the directory of the copies, or what the request for
\* the backup had named.
PathIsFile(b) == job[b].arg = ImageFile

\* A path outside of the agent's directories is refused.  Otherwise the guest is stopped
\* by force; a directory cannot be converted, and then nobody starts the VM again.  An
\* image replaces the disk, unless qemu-img fails.
Restore(d, b) ==
  LET off == [d EXCEPT !.power = "stopped"]
      replaced == {[off EXCEPT !.disk = size] : size \in Sizes} IN
  {Failed(d), Failed(off)} \union
    IF PathIsFile(b)
    THEN {Failed(e) : e \in replaced} \union
         {Did([e EXCEPT !.power = "running"]) : e \in replaced}
    ELSE {}

\* The panel sends targetAddress, the agent reads targetHost and refuses an
\* empty one; past that check it would stop the VM and copy its disks.
HostIsRead == FALSE

Migrate(d) ==
  IF HostIsRead THEN {Did([d EXCEPT !.power = "stopped"])} ELSE {Failed(d)}

\* The drive sdb is attached, and attaching a second one fails.
MountISO(d) ==
  IF d.drive # "none" THEN {Failed(d)} ELSE {Did([d EXCEPT !.drive = "iso"])}

\* The download of the ISO may fail before anything is attached.
HandleMountIso(d) == MountISO(d) \union {Failed(d)}

\* Leaves an empty drive; an error of libvirt is ignored.
UnmountISO(d) ==
  {Did(d), Did([d EXCEPT !.drive = IF @ = "iso" THEN "empty" ELSE @])}

Outcomes(kind, a, d) ==
  CASE kind = "start" -> {Did([d EXCEPT !.power = "running"])}
    [] kind = "stop" -> Stop(d)
    [] kind = "resize" -> ResizeDomain(d, a)
    [] kind = "grow" -> ResizeDisk(d, a)
    [] kind = "snapshot" -> SnapshotCreate(d)
    [] kind = "revert" -> SnapshotRevert(d)
    [] kind = "dropSnapshot" -> SnapshotDelete(d)
    [] kind = "backup" -> Backup(d, a)
    [] kind = "restore" -> Restore(d, a)
    [] kind = "migrate" -> Migrate(d)
    [] kind = "mount" -> HandleMountIso(d)
    [] kind = "unmount" -> UnmountISO(d)

-----------------------------------------------------------------------------
(* The job, or the request itself where it is direct.                      *)

\* The payload of a clone has no vmId: the first look-up of handle throws.
Take(r) ==
  /\ job[r].phase = "queued"
  /\ Goto(r, IF job[r].kind = "clone" THEN "denied" ELSE "calling")
  /\ UNCHANGED <<row, snapRow, backupRow, dom, copies, faults, overlapped>>

Serve(r) ==
  /\ job[r].phase = "calling"
  /\ \E o \in Outcomes(job[r].kind, job[r].arg, dom) :
       /\ dom' = o.dom
       /\ Goto(r, IF o.ok THEN "answered" ELSE "denied")
       /\ copies' = IF o.ok /\ job[r].kind = "backup" THEN copies \union {r}
                                                      ELSE copies
  /\ UNCHANGED <<row, snapRow, backupRow, faults, overlapped>>

\* The client gives up; the request was lost, or the agent still executes it.
GiveUp(r) ==
  /\ job[r].phase = "calling"
  /\ Fault
  /\ \E n \in {0, 1} :
       job' = [job EXCEPT ![r].phase = "denied", ![r].late = @ + n]
  /\ UNCHANGED <<row, snapRow, backupRow, dom, copies, overlapped>>

ServeLate(r) ==
  /\ job[r].late > 0
  /\ job' = [job EXCEPT ![r].late = @ - 1]
  /\ \E o \in Outcomes(job[r].kind, job[r].arg, dom) :
       /\ dom' = o.dom
       /\ copies' = IF o.ok /\ job[r].kind = "backup" THEN copies \union {r}
                                                      ELSE copies
  /\ UNCHANGED <<row, snapRow, backupRow, faults, overlapped>>

\* The backup row that the job completes: restore completes it as well.
Completes(r) == IF job[r].kind = "backup" THEN r ELSE job[r].arg
CompletesARow(r) == job[r].kind \in {"backup", "restore"}

\* What handle writes after the agent's answer.
Settle(r) ==
  LET j == job[r] IN
  /\ j.phase = "answered"
  /\ CompletesARow(r) => backupRow[Completes(r)] # "none"
  /\ Goto(r, "done")
  /\ row' = [row EXCEPT
       !.state = CASE j.kind = "start" -> "running"
                   [] j.kind \in {"stop", "migrate"} -> "stopped"
                   [] OTHER -> @,
       !.node = IF j.kind = "migrate" THEN Target ELSE @,
       !.iso = CASE j.kind = "mount" -> TRUE
                 [] j.kind = "unmount" -> FALSE
                 [] OTHER -> @]
  /\ snapRow' = IF j.kind = "dropSnapshot" /\ snapRow = j.arg THEN NoRequest
                                                             ELSE snapRow
  /\ backupRow' = IF CompletesARow(r)
                  THEN [backupRow EXCEPT ![Completes(r)] = "completed"]
                  ELSE backupRow
  /\ UNCHANGED <<dom, copies, faults, overlapped>>

\* The write after the answer rejects: a fault, or the row has been removed.
SettleRejected(r) ==
  /\ job[r].phase = "answered"
  /\ \/ Fault
     \/ /\ CompletesARow(r) /\ backupRow[Completes(r)] = "none"
        /\ UNCHANGED faults
  /\ Goto(r, "denied")
  /\ UNCHANGED <<row, snapRow, backupRow, dom, copies, overlapped>>

MutantExhausted == "done"  \* the error of the last attempt is swallowed

Exhausted == "failed"

Retry(r) ==
  /\ job[r].phase = "denied"
  /\ job' = [job EXCEPT ![r].phase = IF job[r].left > 1
                                     THEN "queued" ELSE Exhausted,
                        ![r].left = @ - 1]
  /\ UNCHANGED <<row, snapRow, backupRow, dom, copies, faults, overlapped>>

-----------------------------------------------------------------------------
\* A heartbeat reports the power state (VmLifecycle has the late ones).
Heartbeat ==
  /\ row.state # dom.power
  /\ row' = [row EXCEPT !.state = dom.power]
  /\ UNCHANGED <<snapRow, backupRow, dom, copies, job, faults, overlapped>>

\* The guest shuts itself down.
GuestStops ==
  /\ dom.power = "running"
  /\ dom' = [dom EXCEPT !.power = "stopped"]
  /\ UNCHANGED <<row, snapRow, backupRow, copies, job, faults, overlapped>>

Next ==
  \/ \E r \in Request :
       \/ Ask(r) \/ Accept(r) \/ Refuse(r) \/ Enqueue(r) \/ EnqueueRejected(r)
       \/ RemoveBackup(r)
       \/ Take(r) \/ Serve(r) \/ GiveUp(r) \/ ServeLate(r)
       \/ Settle(r) \/ SettleRejected(r) \/ Retry(r)
  \/ Heartbeat
  \/ GuestStops

Spec == Init /\ [][Next]_vars

-----------------------------------------------------------------------------
(* Properties.                                                             *)

HasJob(kind, phases) ==
  \E r \in Request : job[r].kind = kind /\ job[r].phase \in phases

\* A restore from a path that names an image file puts that image in place of the disk.
RestoresImage ==
  \E r, b \in Request :
    job[r].kind = "restore" /\ job[r].arg = b /\ job[b].arg = ImageFile

\* What the panel shows of the VM is never more wrong than this, whatever calls are lost,
\* answered late or retried, as long as one request waits for the other: the node keeps no
\* snapshot the panel cannot show or delete, unless the agent has passed over an error
\* while it deleted it; the panel never plans with less disk than there is, the VM is
\* looked for on the node that has it, and an ISO that is shown is in the drive unless an
\* unmount is under way or has failed.  A revert brings back the disk and the drive of
\* the snapshot, and a restore from an image file the disk of that image, whose sizes
\* the rows do not follow.
PanelCoversNode ==
  ~overlapped =>
    /\ dom.saved # None => snapRow # NoRequest \/ dom.kept
    /\ HasJob("revert", Phase) \/ RestoresImage \/ dom.disk <= row.disk
    /\ row.node = Home
    /\ row.iso => \/ dom.drive = "iso"
                  \/ HasJob("revert", Phase)
                  \/ HasJob("unmount", {"calling", "answered", "denied",
                                        "failed"})

\* When requests that waited for each other have all succeeded, after however
\* many attempts, the node has what the panel shows.  The three calls that
\* write rows before the agent is asked rely on the agent's being idempotent
\* for that.  The exceptions are those above.
SuccessMeansAgreement ==
  (/\ ~overlapped /\ AtRest
   /\ ~HasJob("revert", Phase)
   /\ \A r \in Request : job[r].phase # "failed") =>
     /\ dom.mem = row.mem
     /\ RestoresImage \/ dom.disk = row.disk
     /\ dom.kept \/ (dom.saved # None) = (snapRow # NoRequest)

\* A backup that the panel offers as completed has been copied by the agent, under every
\* interleaving of backups, restores and removals: a restore writes "completed" as well,
\* and the convert of a directory failing is all that keeps it from reaching that line
\* for a backup that was never taken.  For a backup whose request named an image file in
\* place of a directory it does reach it.
CompletedBackupWasCopied ==
  \A b \in Request :
    backupRow[b] = "completed" => b \in copies \/ job[b].arg = ImageFile
=============================================================================
