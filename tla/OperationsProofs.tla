-------------------------- MODULE OperationsProofs --------------------------
(* Proofs about VmOperations: what the panel shows of a VM covers what its  *)
(* node has while requests wait for each other, they agree when all have    *)
(* succeeded, and a completed backup has been copied, for any number of     *)
(* requests, sizes, attempts, lost calls and rejected writes.  And about    *)
(* Access: the pages offer what the backend accepts, for every set of       *)
(* permissions that the roles may have.                                     *)
EXTENDS VmOperations, Access, TLAPS

\* What the agent makes of a domain is a domain, whatever the kind of the call.
LEMMA OutcomesType ==
  ASSUME NEW d \in Domain, NEW kind \in Kinds \ {"clone"}, NEW a,
         kind \in {"resize", "grow"} => a \in Sizes,
         NEW o \in Outcomes(kind, a, d)
  PROVE  o.dom \in Domain
<1>u. ASSUME NEW i \in Image \union {None} PROVE [d EXCEPT !.saved = i] \in Domain
  BY <1>u DEF Domain
<1>v. ASSUME NEW v \in Drive PROVE [d EXCEPT !.drive = v] \in Domain
  BY <1>v DEF Domain
<1>k. ASSUME NEW k \in BOOLEAN PROVE [d EXCEPT !.kept = k] \in Domain
  BY <1>k DEF Domain
<1>w. ASSUME NEW i \in Image
      PROVE  [d EXCEPT !.power = i.power, !.mem = i.mem, !.disk = i.disk,
                       !.drive = i.drive] \in Domain
  <2>1. i.power \in Power /\ i.mem \in Sizes /\ i.disk \in Sizes /\ i.drive \in Drive
    BY <1>w DEF Image
  <2> QED
    BY <2>1 DEF Domain
<1>x. ASSUME NEW p \in Power PROVE [d EXCEPT !.power = p] \in Domain
  BY <1>x DEF Domain
<1>y. ASSUME NEW m \in Sizes PROVE [d EXCEPT !.mem = m] \in Domain
  BY <1>y DEF Domain
<1>z. ASSUME NEW k \in Sizes PROVE [d EXCEPT !.disk = k] \in Domain
  BY <1>z DEF Domain
<1>p. /\ "running" \in Power /\ "stopped" \in Power
      /\ "none" \in Drive /\ "empty" \in Drive /\ "iso" \in Drive
  BY DEF Power, Drive
<1> USE DEF Did, Failed
<1>1. CASE kind = "start"
  <2>2. o.dom = [d EXCEPT !.power = "running"]
    BY <1>1 DEF Outcomes, Domain
  <2> QED
    BY <2>2, <1>x, <1>p
<1>2. CASE kind = "stop"
  <2>2. o.dom = d \/ o.dom = [d EXCEPT !.power = "stopped"]
    BY <1>2 DEF Outcomes, Domain, Stop
  <2> QED
    BY <2>2, <1>x, <1>p
<1>3. CASE kind = "resize"
  <2>1. a \in Sizes
    BY <1>3
  <2>2. o.dom = d \/ o.dom = [d EXCEPT !.mem = a]
    BY <1>3 DEF Outcomes, Domain, ResizeDomain
  <2> QED
    BY <2>2, <2>1, <1>y
<1>4. CASE kind = "grow"
  <2>1. a \in Sizes
    BY <1>4
  <2>2. o.dom = d \/ o.dom = [d EXCEPT !.disk = a]
    BY <1>4 DEF Outcomes, Domain, ResizeDisk
  <2> QED
    BY <2>2, <2>1, <1>z
<1>5. CASE kind = "snapshot"
  <2>1. Saved(d) \in Image \union {None}
    BY DEF Saved, Image, Domain
  <2>2. o.dom = d \/ o.dom = [d EXCEPT !.saved = Saved(d)]
    BY <1>5 DEF Outcomes, Domain, SnapshotCreate
  <2>3. [d EXCEPT !.saved = Saved(d)] \in Domain
    BY <2>1, <1>u
  <2> QED
    BY <2>2, <2>3
<1>6. CASE kind = "revert"
  <2>1. CASE d.saved = None
    <3>1. o.dom = d
      BY <1>6, <2>1 DEF Outcomes, SnapshotRevert
    <3> QED
      BY <3>1
  <2>2. CASE d.saved # None
    <3>1. d.saved \in Image
      BY <2>2 DEF Domain
    <3>2. o.dom = [d EXCEPT !.power = d.saved.power, !.mem = d.saved.mem,
                            !.disk = d.saved.disk, !.drive = d.saved.drive]
      BY <1>6, <2>2 DEF Outcomes, SnapshotRevert
    <3>3. [d EXCEPT !.power = d.saved.power, !.mem = d.saved.mem,
                    !.disk = d.saved.disk, !.drive = d.saved.drive] \in Domain
      BY <3>1, <1>w
    <3> QED
      BY <3>2, <3>3
  <2> QED
    BY <2>1, <2>2
<1>7. CASE kind = "dropSnapshot"
  <2> DEFINE gone == [d EXCEPT !.saved = None, !.kept = FALSE]
             still == [d EXCEPT !.kept = d.saved # None]
  <2>1. gone \in Domain
    BY DEF Domain
  <2>2. still \in Domain
    <3>1. (d.saved # None) \in BOOLEAN
      OBVIOUS
    <3> QED
      BY <3>1, <1>k
  <2>3. o = Did(gone) \/ o = Did(still)
    BY <1>7 DEF Outcomes, SnapshotDelete
  <2> HIDE DEF gone, still
  <2> QED
    BY <2>1, <2>2, <2>3
<1>8. CASE kind = "backup"
  <2>2. o.dom = d
    BY <1>8 DEF Outcomes, Domain, Backup
  <2> QED
    BY <2>2
<1>9. CASE kind = "restore"
  <2> DEFINE off == [d EXCEPT !.power = "stopped"]
  <2>1. off \in Domain
    BY <1>x, <1>p
  <2>2. ASSUME NEW size \in Sizes
        PROVE  /\ [off EXCEPT !.disk = size] \in Domain
               /\ [[off EXCEPT !.disk = size] EXCEPT !.power = "running"] \in Domain
    BY <2>1, <1>p DEF Domain
  <2>3. \/ o.dom = d \/ o.dom = off
        \/ \E size \in Sizes :
             \/ o.dom = [off EXCEPT !.disk = size]
             \/ o.dom = [[off EXCEPT !.disk = size] EXCEPT !.power = "running"]
    <3> DEFINE replaced == {[off EXCEPT !.disk = size] : size \in Sizes}
    <3>1. \/ o \in {Failed(d), Failed(off)}
          \/ o \in {Failed(e) : e \in replaced}
          \/ o \in {Did([e EXCEPT !.power = "running"]) : e \in replaced}
      BY <1>9 DEF Outcomes, Restore
    <3> HIDE DEF off
    <3>2. CASE o \in {Failed(d), Failed(off)}
      <4>1. o.dom = d \/ o.dom = off
        BY <3>2
      <4> QED
        BY <4>1
    <3>3. CASE o \in {Failed(e) : e \in replaced}
      <4>1. PICK e \in replaced : o = Failed(e)
        BY <3>3
      <4>2. PICK size \in Sizes : e = [off EXCEPT !.disk = size]
        BY <4>1
      <4>3. o.dom = e
        BY <4>1
      <4> QED
        BY <4>2, <4>3
    <3>4. CASE o \in {Did([e EXCEPT !.power = "running"]) : e \in replaced}
      <4>1. PICK e \in replaced : o = Did([e EXCEPT !.power = "running"])
        BY <3>4
      <4>2. PICK size \in Sizes : e = [off EXCEPT !.disk = size]
        BY <4>1
      <4>3. o.dom = [e EXCEPT !.power = "running"]
        BY <4>1
      <4> QED
        BY <4>2, <4>3
    <3> QED
      BY <3>1, <3>2, <3>3, <3>4
  <2> HIDE DEF off
  <2> QED
    BY <2>1, <2>2, <2>3
<1>10. CASE kind = "migrate"
  <2>2. o.dom = d
    BY <1>10 DEF Outcomes, Domain, Migrate, HostIsRead
  <2> QED
    BY <2>2
<1>11. CASE kind = "mount"
  <2>2. o.dom = d \/ o.dom = [d EXCEPT !.drive = "iso"]
    BY <1>11 DEF Outcomes, Domain, HandleMountIso, MountISO
  <2>3. [d EXCEPT !.drive = "iso"] \in Domain
    BY <1>v, <1>p
  <2> QED
    BY <2>2, <2>3
<1>12. CASE kind = "unmount"
  <2>2. o.dom = d \/ o.dom = [d EXCEPT !.drive = "empty"]
    BY <1>12 DEF Outcomes, Domain, UnmountISO
  <2>3. [d EXCEPT !.drive = "empty"] \in Domain
    BY <1>v, <1>p
  <2> QED
    BY <2>2, <2>3
<1> QED
  BY <1>1, <1>2, <1>3, <1>4, <1>5, <1>6, <1>7, <1>8, <1>9, <1>10, <1>11, <1>12,
     OperationsAssumption

\* What a call of each kind may change: only a resizing, a revert or a restore from an
\* image file changes the sizes; a snapshot appears, goes or stays by its own calls, and
\* stays after its deletion only where an error was passed over; the drive changes by a
\* revert and by the calls about the ISO.  A migration never succeeds, and a restore only
\* from an image file.
Effects(kind, a, d, o) ==
  /\ o.dom.mem = d.mem \/ kind = "revert" \/ (kind = "resize" /\ o.ok)
  /\ \/ o.dom.disk = d.disk \/ kind = "revert" \/ (kind = "grow" /\ o.ok)
     \/ kind = "restore" /\ PathIsFile(a)
  /\ o.ok /\ kind = "resize" => o.dom.mem = a
  /\ o.ok /\ kind = "grow" => o.dom.disk = a
  /\ kind = "snapshot" => o.dom.saved # None
  /\ kind = "dropSnapshot" => o.dom.saved = None \/ o.dom.kept
  /\ kind \notin {"snapshot", "dropSnapshot"} => o.dom.saved = d.saved
  /\ kind # "dropSnapshot" => o.dom.kept = d.kept
  /\ kind = "mount" => o.dom.drive = d.drive \/ o.dom.drive = "iso"
  /\ kind = "mount" /\ o.ok => o.dom.drive = "iso"
  /\ kind \notin {"mount", "unmount", "revert"} => o.dom.drive = d.drive
  /\ kind = "unmount" => o.ok
  /\ kind = "migrate" => ~o.ok
  /\ kind = "restore" /\ o.ok => PathIsFile(a)

\* And that is all they do.
LEMMA OutcomesEffects ==
  ASSUME NEW d \in Domain, NEW kind \in Kinds \ {"clone"}, NEW a,
         NEW o \in Outcomes(kind, a, d)
  PROVE  Effects(kind, a, d, o)
<1> USE OperationsAssumption DEF Domain, Did, Failed, Effects
<1>1. CASE kind = "start"
  BY <1>1 DEF Outcomes
<1>2. CASE kind = "stop"
  BY <1>2 DEF Outcomes, Stop
<1>3. CASE kind = "resize"
  BY <1>3 DEF Outcomes, ResizeDomain
<1>4. CASE kind = "grow"
  BY <1>4 DEF Outcomes, ResizeDisk
<1>5. CASE kind = "snapshot"
  <2>1. Saved(d) # None
    BY DEF Saved, None, Power
  <2> QED
    BY <1>5, <2>1 DEF Outcomes, SnapshotCreate
<1>6. CASE kind = "revert"
  <2>1. CASE d.saved = None
    BY <1>6, <2>1 DEF Outcomes, SnapshotRevert
  <2>2. CASE d.saved # None
    <3> DEFINE e == [d EXCEPT !.power = d.saved.power, !.mem = d.saved.mem,
                              !.disk = d.saved.disk, !.drive = d.saved.drive]
    <3>1. e.saved = d.saved /\ e.kept = d.kept
      OBVIOUS
    <3>2. o = Did(e)
      BY <1>6, <2>2 DEF Outcomes, SnapshotRevert
    <3> QED
      BY <1>6, <3>1, <3>2
  <2> QED
    BY <2>1, <2>2
<1>7. CASE kind = "dropSnapshot"
  <2> DEFINE gone == [d EXCEPT !.saved = None, !.kept = FALSE]
             still == [d EXCEPT !.kept = d.saved # None]
  <2>1. gone.saved = None /\ gone.mem = d.mem /\ gone.disk = d.disk /\ gone.drive = d.drive
    OBVIOUS
  <2>2. /\ still.saved = d.saved /\ still.kept = (d.saved # None)
        /\ still.mem = d.mem /\ still.disk = d.disk /\ still.drive = d.drive
    OBVIOUS
  <2>3. o = Did(gone) \/ o = Did(still)
    BY <1>7 DEF Outcomes, SnapshotDelete
  <2>4. CASE o = Did(gone)
    <3> HIDE DEF gone
    <3>1. o.dom = gone
      BY <2>4
    <3> QED
      BY <1>7, <2>1, <3>1
  <2>5. CASE o = Did(still)
    <3> HIDE DEF still
    <3>1. o.dom = still
      BY <2>5
    <3>2. o.dom.saved = None \/ o.dom.kept
      BY <2>2, <3>1
    <3> QED
      BY <1>7, <2>2, <3>1, <3>2
  <2> QED
    BY <2>3, <2>4, <2>5
<1>8. CASE kind = "backup"
  BY <1>8 DEF Outcomes, Backup
<1>9. CASE kind = "restore"
  <2> DEFINE off == [d EXCEPT !.power = "stopped"]
             replaced == {[off EXCEPT !.disk = size] : size \in Sizes}
             Same(e) == /\ e.mem = d.mem /\ e.saved = d.saved
                        /\ e.drive = d.drive /\ e.kept = d.kept
  <2>1. Same(d) /\ Same(off) /\ off.disk = d.disk
    OBVIOUS
  <2>2. \A e \in replaced : Same(e) /\ Same([e EXCEPT !.power = "running"])
    OBVIOUS
  <2>3. \/ o \in {Failed(d), Failed(off)}
        \/ PathIsFile(a) /\ o \in {Failed(e) : e \in replaced}
        \/ PathIsFile(a) /\ o \in {Did([e EXCEPT !.power = "running"]) : e \in replaced}
    BY <1>9 DEF Outcomes, Restore
  <2>4. CASE o \in {Failed(d), Failed(off)}
    <3>1. Same(o.dom) /\ o.dom.disk = d.disk /\ ~o.ok
      BY <2>1, <2>4
    <3> QED
      BY <1>9, <3>1
  <2>5. CASE PathIsFile(a) /\ o \in {Failed(e) : e \in replaced}
    <3>1. PICK e \in replaced : o = Failed(e)
      BY <2>5
    <3>2. o.dom = e
      BY <3>1
    <3>3. Same(o.dom)
      BY <2>2, <3>1, <3>2
    <3> QED
      BY <1>9, <2>5, <3>3
  <2>6. CASE PathIsFile(a) /\ o \in {Did([e EXCEPT !.power = "running"]) : e \in replaced}
    <3>1. PICK e \in replaced : o = Did([e EXCEPT !.power = "running"])
      BY <2>6
    <3>2. o.dom = [e EXCEPT !.power = "running"]
      BY <3>1
    <3>3. Same(o.dom)
      BY <2>2, <3>1, <3>2
    <3> QED
      BY <1>9, <2>6, <3>3
  <2> QED
    BY <2>3, <2>4, <2>5, <2>6
<1>10. CASE kind = "migrate"
  BY <1>10 DEF Outcomes, Migrate, HostIsRead
<1>11. CASE kind = "mount"
  BY <1>11 DEF Outcomes, HandleMountIso, MountISO
<1>12. CASE kind = "unmount"
  BY <1>12 DEF Outcomes, UnmountISO
<1> QED
  BY <1>1, <1>2, <1>3, <1>4, <1>5, <1>6, <1>7, <1>8, <1>9, <1>10, <1>11, <1>12

-----------------------------------------------------------------------------
(* What a job records.                                                     *)

\* A request that has written its rows.
Accepted(j) == j.phase \notin {"none", "asked", "refused"}

\* What a job records fits its kind and its phase: attempts are left until it has
\* failed, a call that the agent still executes belongs to a lost call of an accepted
\* request, a direct request has one attempt and is over when its call is lost, and
\* the calls that never succeed are never answered.
JobOk(j, lost) ==
  /\ j.phase = "none" => j.kind = "none"
  /\ j.phase # "none" => j.kind \in Kinds
  /\ j.phase \notin {"none", "failed"} => j.left > 0
  /\ j.late <= lost
  /\ j.late > 0 => Accepted(j)
  /\ j.phase = "calling" \/ j.late > 0 => j.kind \in Kinds \ {"clone"}
  /\ j.phase # "none" /\ j.kind \in {"resize", "grow"} => j.arg \in Sizes
  /\ j.phase = "answered" => j.kind \notin {"migrate", "clone"}
  /\ Accepted(j) /\ j.kind \in Direct => j.left <= 1 /\ j.phase \notin {"written", "queued"}
  /\ j.late > 0 /\ j.kind \in Direct => j.phase \in {"denied", "failed"}
  /\ j.phase = "asked" => j.seen \in Row

JobsOk == \A r \in Request : JobOk(job[r], faults)

\* What the requests must keep for the rest to hold.
OperationsType == TypeOK /\ JobsOk

\* A step of one request, whose job fits afterwards, keeps all jobs fitting.
LEMMA OneJob ==
  ASSUME job \in [Request -> Job], faults \in Nat, faults' \in Nat, faults <= faults',
         JobsOk, NEW r \in Request, NEW j \in Job, job' = [job EXCEPT ![r] = j],
         JobOk(j, faults')
  PROVE  job' \in [Request -> Job] /\ JobsOk'
<1>1. job' \in [Request -> Job]
  OBVIOUS
<1>2. ASSUME NEW q \in Request
      PROVE  JobOk(job'[q], faults')
  <2>1. CASE q = r
    BY <2>1
  <2>2. CASE q # r
    <3>1. job'[q] = job[q] /\ JobOk(job[q], faults)
      BY <2>2 DEF JobsOk
    <3>2. job[q].late \in Nat
      BY OperationsAssumption DEF Job
    <3>3. job[q].late <= faults'
      BY <3>1, <3>2 DEF JobOk
    <3>4. JobOk(job[q], faults')
      BY <3>1, <3>3 DEF JobOk
    <3> QED
      BY <3>1, <3>4
  <2> QED
    BY <2>1, <2>2
<1>3. JobsOk'
  BY <1>2 DEF JobsOk
<1> QED
  BY <1>1, <1>3

\* At the start no request has been made.
LEMMA OperationsTypeInit ==
  ASSUME Init
  PROVE  OperationsType
<1> USE OperationsAssumption DEF Init, Unused
<1>1. Unused \in Job
  BY DEF Job, Phase, None, Argument
<1>2. job \in [Request -> Job]
  BY <1>1
<1>3. row \in Row
  BY DEF Row, Power
<1>4. dom \in Domain
  BY DEF Domain, Power, Drive
<1>5. TypeOK
  <2>1. faults \in 0 .. MaxFaults
    OBVIOUS
  <2>2. overlapped \in BOOLEAN
    OBVIOUS
  <2>3. backupRow \in [Request -> {"none", "running", "completed"}]
    OBVIOUS
  <2>4. snapRow \in Request \union {NoRequest} /\ copies \subseteq Request
    OBVIOUS
  <2> QED
    BY <1>2, <1>3, <1>4, <2>1, <2>2, <2>3, <2>4 DEF TypeOK
<1>6. \A r \in Request : JobOk(job[r], faults)
  BY DEF JobOk, Accepted, Direct
<1> QED
  BY <1>5, <1>6 DEF OperationsType, JobsOk

\* A step that moves one request to another phase, with the same arguments.
LEMMA MovesJob ==
  ASSUME OperationsType, faults' \in 0 .. MaxFaults, faults <= faults',
         NEW r \in Request, NEW p \in Phase \ {"none", "asked"}, Goto(r, p),
         JobOk([job[r] EXCEPT !.phase = p], faults')
  PROVE  job' \in [Request -> Job] /\ JobsOk'
<1> DEFINE j == [job[r] EXCEPT !.phase = p]
<1>1. job \in [Request -> Job] /\ faults \in Nat /\ faults' \in Nat
  BY OperationsAssumption DEF OperationsType, TypeOK
<1>2. j \in Job
  BY <1>1 DEF Job
<1>3. job' = [job EXCEPT ![r] = j]
  BY DEF Goto
<1>4. JobOk(j, faults')
  OBVIOUS
<1>5. JobsOk
  BY DEF OperationsType
<1> HIDE DEF j
<1> QED
  BY <1>1, <1>2, <1>3, <1>4, <1>5, OneJob

\* Asking records the row and a fitting argument.
LEMMA AskType ==
  ASSUME OperationsType, NEW r \in Request, Ask(r)
  PROVE  OperationsType'
<1>0. PICK kind \in Kinds : \E a \in Arguments(kind) :
        job' = [job EXCEPT ![r] = [kind |-> kind, phase |-> "asked", arg |-> a,
                                   seen |-> row, left |-> Attempts, late |-> 0]]
  BY DEF Ask
<1>1. PICK a \in Arguments(kind) :
        job' = [job EXCEPT ![r] = [kind |-> kind, phase |-> "asked", arg |-> a,
                                   seen |-> row, left |-> Attempts, late |-> 0]]
  BY <1>0
<1> DEFINE j == [kind |-> kind, phase |-> "asked", arg |-> a, seen |-> row,
                 left |-> Attempts, late |-> 0]
<1>2. a \in Argument /\ (kind \in {"resize", "grow"} => a \in Sizes)
  <2> USE DEF Argument
  <2>1. CASE kind \in {"resize", "grow"}
    BY <1>1, <2>1 DEF Arguments
  <2>2. CASE kind \in {"revert", "dropSnapshot"}
    BY <1>1, <2>2 DEF Arguments, OperationsType, TypeOK
  <2>3. CASE kind = "restore"
    BY <1>1, <2>3 DEF Arguments
  <2>4. CASE kind \notin {"resize", "grow", "revert", "dropSnapshot", "restore"}
    <3>1. a \in {Directory, ImageFile, NoRequest}
      BY <1>1, <2>4 DEF Arguments
    <3> QED
      BY <2>4, <3>1
  <2> QED
    BY <2>1, <2>2, <2>3, <2>4
<1>3. j \in Job
  BY <1>2, OperationsAssumption DEF Job, Phase, OperationsType, TypeOK
<1>4. JobOk(j, faults')
  <2>1. faults' \in Nat /\ Attempts > 0 /\ row \in Row
    BY OperationsAssumption DEF Ask, OperationsType, TypeOK
  <2> QED
    BY <1>2, <2>1 DEF JobOk, Accepted
<1>5. job' = [job EXCEPT ![r] = j]
  BY <1>1
<1>6. job \in [Request -> Job] /\ faults \in Nat /\ faults' \in Nat /\ faults <= faults' /\ JobsOk
  BY OperationsAssumption DEF Ask, OperationsType, TypeOK
<1> HIDE DEF j
<1>7. job' \in [Request -> Job] /\ JobsOk'
  BY <1>3, <1>4, <1>5, <1>6, OneJob
<1>8. overlapped' \in BOOLEAN
  BY DEF Ask
<1> QED
  BY <1>7, <1>8 DEF Ask, OperationsType, TypeOK

\* Accepting writes the argument where the kind says.
LEMMA AcceptType ==
  ASSUME OperationsType, NEW r \in Request, Accept(r)
  PROVE  OperationsType'
<1> DEFINE j == [job[r] EXCEPT
              !.phase = IF job[r].kind \in Direct THEN "calling" ELSE "written",
              !.left = IF job[r].kind \in Direct THEN 1 ELSE Attempts,
              !.seen = None]
<1>0. job[r] \in Job /\ JobOk(job[r], faults) /\ job[r].phase = "asked"
  BY DEF Accept, OperationsType, TypeOK, JobsOk
<1>1. Attempts \in Nat /\ 1 \in 0 .. Attempts /\ Attempts \in 0 .. Attempts /\ Attempts > 0
  BY OperationsAssumption
<1>2. j \in Job
  BY <1>0, <1>1 DEF Job, Phase
<1>3. JobOk(j, faults)
  <2>1. job[r].late \in Nat
    BY <1>0 DEF Job
  <2>2. ~(job[r].late > 0)
    BY <1>0 DEF JobOk, Accepted
  <2>3. /\ j.phase = (IF job[r].kind \in Direct THEN "calling" ELSE "written")
        /\ j.left = (IF job[r].kind \in Direct THEN 1 ELSE Attempts)
        /\ j.late = job[r].late /\ j.kind = job[r].kind /\ j.arg = job[r].arg
    BY <1>0 DEF Job
  <2> HIDE DEF j
  <2> QED
    BY <1>0, <1>1, <2>2, <2>3 DEF JobOk, Accepted, Direct
<1>4. job' = [job EXCEPT ![r] = j]
  BY DEF Accept
<1>5. job \in [Request -> Job] /\ faults \in Nat /\ faults' = faults /\ faults <= faults /\ JobsOk
  BY OperationsAssumption DEF Accept, OperationsType, TypeOK
<1> HIDE DEF j
<1>6. job' \in [Request -> Job] /\ JobsOk'
  BY <1>2, <1>3, <1>4, <1>5, OneJob
<1>7. row' \in Row
  <2>1. job[r].kind \in {"resize", "grow"} => job[r].arg \in Sizes
    BY <1>0 DEF JobOk
  <2> QED
    BY <2>1 DEF Accept, OperationsType, TypeOK, Row
<1>8. snapRow' \in Request \union {NoRequest}
  BY DEF Accept, OperationsType, TypeOK
<1>9. backupRow' \in [Request -> {"none", "running", "completed"}]
  BY DEF Accept, OperationsType, TypeOK
<1> QED
  BY <1>6, <1>7, <1>8, <1>9 DEF Accept, OperationsType, TypeOK

\* Refusing writes nothing.
LEMMA RefuseType ==
  ASSUME OperationsType, NEW r \in Request, Refuse(r)
  PROVE  OperationsType'
<1> DEFINE j == [job[r] EXCEPT !.phase = "refused", !.seen = None]
<1>0. job[r] \in Job /\ JobOk(job[r], faults) /\ job[r].phase = "asked"
  BY DEF Refuse, OperationsType, TypeOK, JobsOk
<1>1. j \in Job
  BY <1>0 DEF Job, Phase
<1>2. JobOk(j, faults)
  BY <1>0 DEF JobOk, Accepted, Job
<1>3. job' = [job EXCEPT ![r] = j]
  BY DEF Refuse
<1>4. job \in [Request -> Job] /\ faults \in Nat /\ faults' = faults /\ faults <= faults /\ JobsOk
  BY OperationsAssumption DEF Refuse, OperationsType, TypeOK
<1> HIDE DEF j
<1>5. job' \in [Request -> Job] /\ JobsOk'
  BY <1>1, <1>2, <1>3, <1>4, OneJob
<1> QED
  BY <1>5 DEF Refuse, OperationsType, TypeOK

\* The task is enqueued.
LEMMA EnqueueType ==
  ASSUME OperationsType, NEW r \in Request, Enqueue(r)
  PROVE  OperationsType'
<1>0. job[r] \in Job /\ JobOk(job[r], faults) /\ job[r].phase = "written"
  BY DEF Enqueue, OperationsType, TypeOK, JobsOk
<1>1. "queued" \in Phase \ {"none", "asked"}
  BY DEF Phase
<1>2. JobOk([job[r] EXCEPT !.phase = "queued"], faults)
  BY <1>0 DEF JobOk, Accepted, Job
<1>3. Goto(r, "queued") /\ faults' = faults
  BY DEF Enqueue
<1>4. faults' \in 0 .. MaxFaults /\ faults <= faults'
  BY <1>3, OperationsAssumption DEF OperationsType, TypeOK
<1>5. job' \in [Request -> Job] /\ JobsOk'
  BY <1>1, <1>2, <1>3, <1>4, MovesJob
<1> QED
  BY <1>5 DEF Enqueue, OperationsType, TypeOK

\* It is not enqueued, and the request fails.
LEMMA EnqueueRejectedType ==
  ASSUME OperationsType, NEW r \in Request, EnqueueRejected(r)
  PROVE  OperationsType'
<1>0. job[r] \in Job /\ JobOk(job[r], faults) /\ job[r].phase = "written"
  BY DEF EnqueueRejected, OperationsType, TypeOK, JobsOk
<1>1. faults \in 0 .. MaxFaults /\ MaxFaults \in Nat /\ job[r].late \in Nat
  BY <1>0, OperationsAssumption DEF OperationsType, TypeOK, Job
<1>2. faults < MaxFaults /\ faults' = faults + 1
  BY DEF EnqueueRejected, Fault
<1>3. faults' \in 0 .. MaxFaults /\ faults <= faults'
  BY <1>1, <1>2
<1>4. job[r].late <= faults'
  BY <1>0, <1>1, <1>3 DEF JobOk
<1>5. JobOk([job[r] EXCEPT !.phase = "failed"], faults')
  BY <1>0, <1>4 DEF JobOk, Accepted, Job
<1>6. Goto(r, "failed")
  BY DEF EnqueueRejected
<1>7. "failed" \in Phase \ {"none", "asked"}
  BY DEF Phase
<1>8. job' \in [Request -> Job] /\ JobsOk'
  BY <1>3, <1>5, <1>6, <1>7, MovesJob
<1> QED
  BY <1>3, <1>8 DEF EnqueueRejected, OperationsType, TypeOK

\* Removing a backup's row.
LEMMA RemoveBackupType ==
  ASSUME OperationsType, NEW b \in Request, RemoveBackup(b)
  PROVE  OperationsType'
<1>1. backupRow' \in [Request -> {"none", "running", "completed"}]
  BY DEF RemoveBackup, OperationsType, TypeOK
<1> QED
  BY <1>1 DEF RemoveBackup, OperationsType, TypeOK, JobsOk

\* A job is taken; that of a clone fails at once.
LEMMA TakeType ==
  ASSUME OperationsType, NEW r \in Request, Take(r)
  PROVE  OperationsType'
<1> DEFINE p == IF job[r].kind = "clone" THEN "denied" ELSE "calling"
<1>0. job[r] \in Job /\ JobOk(job[r], faults) /\ job[r].phase = "queued"
  BY DEF Take, OperationsType, TypeOK, JobsOk
<1>1. p \in Phase \ {"none", "asked"}
  BY DEF Phase
<1>2. JobOk([job[r] EXCEPT !.phase = p], faults)
  BY <1>0 DEF JobOk, Accepted, Job, Direct
<1>3. Goto(r, p) /\ faults' = faults
  BY DEF Take
<1>4. faults' \in 0 .. MaxFaults /\ faults <= faults'
  BY <1>3, OperationsAssumption DEF OperationsType, TypeOK
<1> HIDE DEF p
<1>5. job' \in [Request -> Job] /\ JobsOk'
  BY <1>1, <1>2, <1>3, <1>4, MovesJob
<1> QED
  BY <1>5 DEF Take, OperationsType, TypeOK

\* The agent answers a call.
LEMMA ServeType ==
  ASSUME OperationsType, NEW r \in Request, Serve(r)
  PROVE  OperationsType'
<1>0. job[r] \in Job /\ JobOk(job[r], faults) /\ job[r].phase = "calling"
  BY DEF Serve, OperationsType, TypeOK, JobsOk
<1>1. PICK o \in Outcomes(job[r].kind, job[r].arg, dom) :
        /\ dom' = o.dom
        /\ Goto(r, IF o.ok THEN "answered" ELSE "denied")
        /\ copies' = IF o.ok /\ job[r].kind = "backup" THEN copies \union {r} ELSE copies
  BY DEF Serve
<1>2. job[r].kind \in Kinds \ {"clone"} /\ (job[r].kind \in {"resize", "grow"} => job[r].arg \in Sizes)
  BY <1>0 DEF JobOk
<1>3. dom \in Domain
  BY DEF OperationsType, TypeOK
<1>4. dom' \in Domain
  BY <1>1, <1>2, <1>3, OutcomesType
<1>5. Effects(job[r].kind, job[r].arg, dom, o)
  BY <1>1, <1>2, <1>3, OutcomesEffects
<1> DEFINE p == IF o.ok THEN "answered" ELSE "denied"
<1>6. p \in Phase \ {"none", "asked"}
  BY DEF Phase
<1>7. p = "answered" => job[r].kind \notin {"migrate", "clone"}
  BY <1>2, <1>5 DEF Effects
<1>8. ~(job[r].late > 0 /\ job[r].kind \in Direct)
  BY <1>0 DEF JobOk
<1>9. p \in {"answered", "denied"}
  OBVIOUS
<1> HIDE DEF p
<1>10. JobOk([job[r] EXCEPT !.phase = p], faults)
  BY <1>0, <1>7, <1>8, <1>9 DEF JobOk, Accepted, Job
<1>11. Goto(r, p) /\ faults' = faults
  BY <1>1 DEF Serve, p
<1>12. faults' \in 0 .. MaxFaults /\ faults <= faults'
  BY <1>11, OperationsAssumption DEF OperationsType, TypeOK
<1>13. job' \in [Request -> Job] /\ JobsOk'
  BY <1>6, <1>10, <1>11, <1>12, MovesJob
<1>14. copies' \subseteq Request
  BY <1>1 DEF OperationsType, TypeOK
<1> QED
  BY <1>4, <1>13, <1>14 DEF Serve, OperationsType, TypeOK

\* The client gives up, and the agent may still execute the call.
LEMMA GiveUpType ==
  ASSUME OperationsType, NEW r \in Request, GiveUp(r)
  PROVE  OperationsType'
<1>0. job[r] \in Job /\ JobOk(job[r], faults) /\ job[r].phase = "calling"
  BY DEF GiveUp, OperationsType, TypeOK, JobsOk
<1>1. PICK n \in {0, 1} :
        job' = [job EXCEPT ![r].phase = "denied", ![r].late = @ + n]
  BY DEF GiveUp
<1> DEFINE j == [job[r] EXCEPT !.phase = "denied", !.late = @ + n]
<1>2. faults \in 0 .. MaxFaults /\ faults < MaxFaults /\ faults' = faults + 1 /\ MaxFaults \in Nat
  BY OperationsAssumption DEF GiveUp, Fault, OperationsType, TypeOK
<1>3. job[r].late \in 0 .. MaxFaults /\ job[r].late <= faults
  BY <1>0 DEF Job, JobOk
<1>4. /\ job[r].late + n \in 0 .. MaxFaults
      /\ job[r].late + n <= faults'
      /\ faults' \in 0 .. MaxFaults /\ faults <= faults' /\ faults \in Nat /\ faults' \in Nat
  BY <1>2, <1>3
<1>5. j \in Job
  BY <1>0, <1>4 DEF Job, Phase
<1>6. /\ j.phase = "denied" /\ j.late = job[r].late + n
      /\ j.left = job[r].left /\ j.kind = job[r].kind /\ j.arg = job[r].arg
  BY <1>0 DEF Job
<1>7. job' = [job EXCEPT ![r] = j]
  BY <1>1
<1> HIDE DEF j
<1>8. JobOk(j, faults')
  BY <1>0, <1>4, <1>6 DEF JobOk, Accepted
<1>9. job \in [Request -> Job] /\ JobsOk
  BY DEF OperationsType, TypeOK
<1>10. job' \in [Request -> Job] /\ JobsOk'
  BY <1>4, <1>5, <1>7, <1>8, <1>9, OneJob
<1> QED
  BY <1>4, <1>10 DEF GiveUp, OperationsType, TypeOK

\* The agent executes a call that was given up.
LEMMA ServeLateType ==
  ASSUME OperationsType, NEW r \in Request, ServeLate(r)
  PROVE  OperationsType'
<1>0. job[r] \in Job /\ JobOk(job[r], faults) /\ job[r].late > 0
  BY DEF ServeLate, OperationsType, TypeOK, JobsOk
<1>1. PICK o \in Outcomes(job[r].kind, job[r].arg, dom) :
        /\ dom' = o.dom
        /\ copies' = IF o.ok /\ job[r].kind = "backup" THEN copies \union {r} ELSE copies
  BY DEF ServeLate
<1>2. job[r].kind \in Kinds \ {"clone"} /\ (job[r].kind \in {"resize", "grow"} => job[r].arg \in Sizes)
  BY <1>0 DEF JobOk, Accepted
<1>3. dom \in Domain
  BY DEF OperationsType, TypeOK
<1>4. dom' \in Domain
  BY <1>1, <1>2, <1>3, OutcomesType
<1> DEFINE j == [job[r] EXCEPT !.late = @ - 1]
<1>5. MaxFaults \in Nat /\ faults \in 0 .. MaxFaults /\ faults' = faults
  BY OperationsAssumption DEF ServeLate, OperationsType, TypeOK
<1>6. job[r].late \in 0 .. MaxFaults /\ job[r].late <= faults
  BY <1>0 DEF Job, JobOk
<1>7. /\ job[r].late - 1 \in 0 .. MaxFaults
      /\ job[r].late - 1 <= faults'
      /\ faults <= faults' /\ faults \in Nat /\ faults' \in Nat
  BY <1>0, <1>5, <1>6
<1>8. j \in Job
  BY <1>0, <1>7 DEF Job
<1>9. /\ j.phase = job[r].phase /\ j.late = job[r].late - 1 /\ j.seen = job[r].seen
      /\ j.left = job[r].left /\ j.kind = job[r].kind /\ j.arg = job[r].arg
  BY <1>0 DEF Job
<1>10. job' = [job EXCEPT ![r] = j]
  BY DEF ServeLate
<1> HIDE DEF j
<1>11. JobOk(j, faults')
  BY <1>0, <1>7, <1>9 DEF JobOk, Accepted
<1>12. job \in [Request -> Job] /\ JobsOk
  BY DEF OperationsType, TypeOK
<1>13. job' \in [Request -> Job] /\ JobsOk'
  BY <1>7, <1>8, <1>10, <1>11, <1>12, OneJob
<1>14. copies' \subseteq Request
  BY <1>1 DEF OperationsType, TypeOK
<1> QED
  BY <1>4, <1>13, <1>14 DEF ServeLate, OperationsType, TypeOK

\* The writes after the answer.
LEMMA SettleType ==
  ASSUME OperationsType, NEW r \in Request, Settle(r)
  PROVE  OperationsType'
<1>0. job[r] \in Job /\ JobOk(job[r], faults) /\ job[r].phase = "answered"
  BY DEF Settle, OperationsType, TypeOK, JobsOk
<1>1. ~(job[r].late > 0 /\ job[r].kind \in Direct)
  BY <1>0 DEF JobOk
<1>2. JobOk([job[r] EXCEPT !.phase = "done"], faults)
  BY <1>0, <1>1 DEF JobOk, Accepted, Job
<1>3. Goto(r, "done") /\ faults' = faults
  BY DEF Settle
<1>4. faults' \in 0 .. MaxFaults /\ faults <= faults'
  BY <1>3, OperationsAssumption DEF OperationsType, TypeOK
<1>5. "done" \in Phase \ {"none", "asked"}
  BY DEF Phase
<1>6. job' \in [Request -> Job] /\ JobsOk'
  BY <1>2, <1>3, <1>4, <1>5, MovesJob
<1>7. row' \in Row
  BY DEF Settle, OperationsType, TypeOK, Row, Power
<1>8. snapRow' \in Request \union {NoRequest}
  BY DEF Settle, OperationsType, TypeOK
<1>9. backupRow' \in [Request -> {"none", "running", "completed"}]
  BY DEF Settle, OperationsType, TypeOK
<1> QED
  BY <1>6, <1>7, <1>8, <1>9 DEF Settle, OperationsType, TypeOK

\* The writes are rejected.
LEMMA SettleRejectedType ==
  ASSUME OperationsType, NEW r \in Request, SettleRejected(r)
  PROVE  OperationsType'
<1>0. job[r] \in Job /\ JobOk(job[r], faults) /\ job[r].phase = "answered"
  BY DEF SettleRejected, OperationsType, TypeOK, JobsOk
<1>1. faults \in 0 .. MaxFaults /\ MaxFaults \in Nat /\ job[r].late \in Nat
  BY <1>0, OperationsAssumption DEF OperationsType, TypeOK, Job
<1>2. faults' = faults \/ (faults < MaxFaults /\ faults' = faults + 1)
  BY DEF SettleRejected, Fault
<1>3. faults' \in 0 .. MaxFaults /\ faults <= faults'
  BY <1>1, <1>2
<1>4. job[r].late <= faults'
  BY <1>0, <1>1, <1>3 DEF JobOk
<1>5. ~(job[r].late > 0 /\ job[r].kind \in Direct)
  BY <1>0 DEF JobOk
<1>6. JobOk([job[r] EXCEPT !.phase = "denied"], faults')
  BY <1>0, <1>4, <1>5 DEF JobOk, Accepted, Job
<1>7. Goto(r, "denied")
  BY DEF SettleRejected
<1>8. "denied" \in Phase \ {"none", "asked"}
  BY DEF Phase
<1>9. job' \in [Request -> Job] /\ JobsOk'
  BY <1>3, <1>6, <1>7, <1>8, MovesJob
<1> QED
  BY <1>3, <1>9 DEF SettleRejected, OperationsType, TypeOK

\* An attempt is repeated, or was the last.
LEMMA RetryType ==
  ASSUME OperationsType, NEW r \in Request, Retry(r)
  PROVE  OperationsType'
<1> DEFINE j == [job[r] EXCEPT !.phase = IF job[r].left > 1 THEN "queued" ELSE Exhausted,
                               !.left = @ - 1]
<1>0. job[r] \in Job /\ JobOk(job[r], faults) /\ job[r].phase = "denied"
  BY DEF Retry, OperationsType, TypeOK, JobsOk
<1>1. job[r].left \in 0 .. Attempts /\ Attempts \in Nat /\ job[r].left > 0
  BY <1>0, OperationsAssumption DEF Job, JobOk
<1>2. job[r].left - 1 \in 0 .. Attempts /\ (job[r].left > 1 => job[r].left - 1 > 0)
  BY <1>1
<1>3. j \in Job
  BY <1>0, <1>2 DEF Job, Phase, Exhausted
<1>4. /\ j.phase = (IF job[r].left > 1 THEN "queued" ELSE "failed")
      /\ j.left = job[r].left - 1 /\ j.late = job[r].late
      /\ j.kind = job[r].kind /\ j.arg = job[r].arg
  BY <1>0 DEF Job, Exhausted
<1>5. job' = [job EXCEPT ![r] = j]
  BY DEF Retry
<1> HIDE DEF j
<1>6. ~(job[r].kind \in Direct /\ job[r].left > 1)
  BY <1>0, <1>1 DEF JobOk, Accepted
<1>7. JobOk(j, faults)
  <2>1. CASE job[r].left > 1
    <3>1. job[r].kind \notin Direct
      BY <1>6, <2>1
    <3> QED
      BY <1>0, <1>2, <1>4, <2>1, <3>1 DEF JobOk, Accepted
  <2>2. CASE ~(job[r].left > 1)
    <3>1. j.left <= 1
      BY <1>1, <1>4, <2>2
    <3> QED
      BY <1>0, <1>4, <2>2, <3>1 DEF JobOk, Accepted
  <2> QED
    BY <2>1, <2>2
<1>8. job \in [Request -> Job] /\ faults \in Nat /\ faults' = faults /\ faults <= faults /\ JobsOk
  BY OperationsAssumption DEF Retry, OperationsType, TypeOK
<1>9. job' \in [Request -> Job] /\ JobsOk'
  BY <1>3, <1>5, <1>7, <1>8, OneJob
<1> QED
  BY <1>9 DEF Retry, OperationsType, TypeOK

\* The steps of no request.
LEMMA OtherType ==
  ASSUME OperationsType, Heartbeat \/ GuestStops \/ UNCHANGED vars
  PROVE  OperationsType'
<1>1. CASE Heartbeat
  <2>1. row' \in Row
    BY <1>1 DEF Heartbeat, OperationsType, TypeOK, Row, Domain
  <2> QED
    BY <1>1, <2>1 DEF Heartbeat, OperationsType, TypeOK, JobsOk
<1>2. CASE GuestStops
  <2>1. dom' \in Domain
    BY <1>2 DEF GuestStops, OperationsType, TypeOK, Domain, Power
  <2> QED
    BY <1>2, <2>1 DEF GuestStops, OperationsType, TypeOK, JobsOk
<1>3. CASE UNCHANGED vars
  BY <1>3 DEF vars, OperationsType, TypeOK, JobsOk
<1> QED
  BY <1>1, <1>2, <1>3

\* Every step keeps the types and the jobs fitting.
LEMMA OperationsTypeStep ==
  ASSUME OperationsType, [Next]_vars
  PROVE  OperationsType'
<1>1. ASSUME NEW r \in Request,
             \/ Ask(r) \/ Accept(r) \/ Refuse(r) \/ Enqueue(r) \/ EnqueueRejected(r)
             \/ RemoveBackup(r) \/ Take(r) \/ Serve(r) \/ GiveUp(r) \/ ServeLate(r)
             \/ Settle(r) \/ SettleRejected(r) \/ Retry(r)
      PROVE  OperationsType'
  BY <1>1, AskType, AcceptType, RefuseType, EnqueueType, EnqueueRejectedType,
     RemoveBackupType, TakeType, ServeType, GiveUpType, ServeLateType, SettleType,
     SettleRejectedType, RetryType
<1>2. CASE Heartbeat \/ GuestStops \/ UNCHANGED vars
  BY <1>2, OtherType
<1> QED
  BY <1>1, <1>2 DEF Next

-----------------------------------------------------------------------------
(* The backups and the node.                                               *)

\* A backup that has been answered or that the panel calls completed was copied, or its
\* request had named an image file; only the restore of such a backup is answered.  What
\* a restore names, and what has a backup row, is a request that has been made.
CopyInv ==
  /\ \A r \in Request : job[r].phase = "answered" /\ job[r].kind = "backup" => r \in copies
  /\ \A r \in Request :
       job[r].phase = "answered" /\ job[r].kind = "restore" => PathIsFile(job[r].arg)
  /\ \A r \in Request :
       job[r].kind = "restore" => job[r].arg \in Request /\ job[job[r].arg].phase # "none"
  /\ \A b \in Request : backupRow[b] # "none" => job[b].phase # "none"
  /\ \A b \in Request : backupRow[b] = "completed" => b \in copies \/ PathIsFile(b)

\* The VM is looked for where it is: a migration is never answered.
NodeInv == row.node = Home

\* What a request is about never changes once it has been made.
Settled(r) ==
  job[r].phase # "none" =>
    /\ job'[r].phase # "none"
    /\ job'[r].kind = job[r].kind /\ job'[r].arg = job[r].arg

\* Whatever happens.
LEMMA AllSettled ==
  ASSUME OperationsType, [Next]_vars
  PROVE  \A q \in Request : Settled(q)
<1> USE DEF OperationsType, TypeOK
<1>1. ASSUME NEW q \in Request, NEW r \in Request, Ask(r)
      PROVE  Settled(q)
  BY <1>1 DEF Ask, Settled
<1>2. ASSUME NEW q \in Request, NEW r \in Request, Accept(r) \/ Refuse(r)
      PROVE  Settled(q)
  BY <1>2 DEF Accept, Refuse, Settled, Job
<1>3. ASSUME NEW q \in Request, NEW r \in Request,
             Enqueue(r) \/ EnqueueRejected(r) \/ Take(r)
      PROVE  Settled(q)
  BY <1>3 DEF Enqueue, EnqueueRejected, Take, Goto, Settled, Job
<1>4. ASSUME NEW q \in Request, NEW r \in Request,
             Serve(r) \/ Settle(r) \/ SettleRejected(r)
      PROVE  Settled(q)
  <2>1. PICK p \in {"answered", "denied", "done"} : Goto(r, p)
    BY <1>4 DEF Serve, Settle, SettleRejected
  <2> QED
    BY <2>1 DEF Goto, Settled, Job
<1>5. ASSUME NEW q \in Request, NEW r \in Request, GiveUp(r) \/ ServeLate(r)
      PROVE  Settled(q)
  BY <1>5 DEF GiveUp, ServeLate, Settled, Job
<1>6. ASSUME NEW q \in Request, NEW r \in Request, Retry(r)
      PROVE  Settled(q)
  BY <1>6 DEF Retry, Settled, Job, Exhausted
<1>7. ASSUME NEW q \in Request, UNCHANGED job
      PROVE  Settled(q)
  BY <1>7 DEF Settled
<1>8. ASSUME NEW q \in Request,
             Heartbeat \/ GuestStops \/ (\E b \in Request : RemoveBackup(b)) \/ UNCHANGED vars
      PROVE  UNCHANGED job
  BY <1>8 DEF Heartbeat, GuestStops, RemoveBackup, vars
<1> QED
  BY <1>1, <1>2, <1>3, <1>4, <1>5, <1>6, <1>7, <1>8 DEF Next

\* A step that answers nothing, completes nothing and asks for no restore of a request
\* that was not made.
LEMMA CopyKept ==
  ASSUME CopyInv, \A q \in Request : Settled(q), copies \subseteq copies',
         \A q \in Request : job'[q].phase = "answered" => job[q].phase = "answered",
         \A q \in Request : job[q].phase = "none" /\ job'[q].kind = "restore" =>
           job'[q].arg \in Request /\ job[job'[q].arg].phase # "none",
         \A b \in Request : backupRow'[b] # "none" =>
           backupRow[b] # "none" \/ job'[b].phase # "none",
         \A b \in Request : backupRow'[b] = "completed" => backupRow[b] = "completed"
  PROVE  CopyInv'
<1> USE DEF CopyInv, Settled
<1>1. ASSUME NEW q \in Request, job'[q].phase = "answered"
      PROVE  /\ job[q].phase = "answered"
             /\ job'[q].kind = job[q].kind /\ job'[q].arg = job[q].arg
  BY <1>1
<1>2. ASSUME NEW b \in Request, job[b].phase # "none", PathIsFile(b)
      PROVE  PathIsFile(b)'
  BY <1>2 DEF PathIsFile
<1>3. ASSUME NEW q \in Request, job'[q].phase = "answered", job'[q].kind = "backup"
      PROVE  q \in copies'
  BY <1>1, <1>3
<1>4. ASSUME NEW q \in Request, job'[q].phase = "answered", job'[q].kind = "restore"
      PROVE  PathIsFile(job[q].arg)' /\ job'[q].arg = job[q].arg
  <2>1. job[q].phase = "answered" /\ job[q].kind = "restore" /\ job'[q].arg = job[q].arg
    BY <1>1, <1>4
  <2>2. job[q].arg \in Request /\ job[job[q].arg].phase # "none" /\ PathIsFile(job[q].arg)
    BY <2>1
  <2>3. job'[job[q].arg].arg = job[job[q].arg].arg
    BY <2>2
  <2> QED
    BY <2>1, <2>2, <2>3 DEF PathIsFile
<1>5. ASSUME NEW q \in Request, job'[q].kind = "restore"
      PROVE  job'[q].arg \in Request /\ job'[job'[q].arg].phase # "none"
  <2>1. CASE job[q].phase = "none"
    <3>1. job'[q].arg \in Request /\ job[job'[q].arg].phase # "none"
      BY <1>5, <2>1
    <3> QED
      BY <3>1
  <2>2. CASE job[q].phase # "none"
    <3>1. job[q].kind = "restore" /\ job'[q].arg = job[q].arg
      BY <1>5, <2>2
    <3>2. job[q].arg \in Request /\ job[job[q].arg].phase # "none"
      BY <3>1
    <3> QED
      BY <3>1, <3>2
  <2> QED
    BY <2>1, <2>2
<1>6. ASSUME NEW b \in Request, backupRow'[b] # "none"
      PROVE  job'[b].phase # "none"
  BY <1>6
<1>7. ASSUME NEW b \in Request, backupRow'[b] = "completed"
      PROVE  b \in copies' \/ PathIsFile(b)'
  <2>1. backupRow[b] = "completed" /\ job[b].phase # "none"
    BY <1>7
  <2> QED
    BY <1>2, <2>1
<1>8. \A q \in Request :
        job'[q].phase = "answered" /\ job'[q].kind = "restore" => PathIsFile(job[q].arg)'
  BY <1>4 DEF PathIsFile
<1> QED
  BY <1>3, <1>5, <1>6, <1>7, <1>8, <1>4 DEF PathIsFile

\* Only a backup's own answer and the answer of its restore complete its row, and the
\* restore is answered only where the path names an image file.
LEMMA CopyStep ==
  ASSUME OperationsType, CopyInv, [Next]_vars
  PROVE  CopyInv'
<1> USE DEF OperationsType, TypeOK
<1>0. \A q \in Request : Settled(q)
  BY AllSettled
<1>a. ASSUME NEW q \in Request, job[q].phase = "none", job'[q].phase = "none",
             job'[q].kind = job[q].kind
      PROVE  job'[q].kind # "restore"
  BY <1>a DEF JobsOk, JobOk
<1>1. ASSUME NEW r \in Request, Ask(r)
      PROVE  CopyInv'
  <2>1. backupRow' = backupRow /\ copies' = copies /\ job'[r].phase = "asked"
    BY <1>1 DEF Ask
  <2>2. \A q \in Request \ {r} : job'[q] = job[q]
    BY <1>1 DEF Ask
  <2>3. PICK kind \in Kinds : \E a \in Arguments(kind) :
          job' = [job EXCEPT ![r] = [kind |-> kind, phase |-> "asked", arg |-> a,
                                     seen |-> row, left |-> Attempts, late |-> 0]]
    BY <1>1 DEF Ask
  <2>4. PICK a \in Arguments(kind) : job'[r].kind = kind /\ job'[r].arg = a
    BY <2>3
  <2>5. ASSUME NEW q \in Request, job[q].phase = "none", job'[q].kind = "restore"
        PROVE  job'[q].arg \in Request /\ job[job'[q].arg].phase # "none"
    <3>1. q = r
      BY <2>2, <2>5 DEF JobsOk, JobOk
    <3>2. a \in Request /\ backupRow[a] # "none"
      BY <2>4, <2>5, <3>1 DEF Arguments
    <3> QED
      BY <2>4, <3>1, <3>2 DEF CopyInv
  <2> QED
    BY <1>0, <2>1, <2>2, <2>5, CopyKept
<1>b. ASSUME NEW r \in Request, \A q \in Request \ {r} : job'[q] = job[q],
             job[r].phase # "none"
      PROVE  \A q \in Request : job[q].phase = "none" /\ job'[q].kind = "restore" =>
               job'[q].arg \in Request /\ job[job'[q].arg].phase # "none"
  BY <1>b DEF JobsOk, JobOk
<1>c. ASSUME NEW r \in Request, \A q \in Request \ {r} : job'[q] = job[q],
             job[r].phase # "none", job'[r].phase # "answered",
             copies' = copies, backupRow' = backupRow
      PROVE  CopyInv'
  <2>1. \A q \in Request : job'[q].phase = "answered" => job[q].phase = "answered"
    BY <1>c
  <2>2. \A q \in Request : job[q].phase = "none" /\ job'[q].kind = "restore" =>
          job'[q].arg \in Request /\ job[job'[q].arg].phase # "none"
    BY <1>b, <1>c
  <2> QED
    BY <1>0, <1>c, <2>1, <2>2, CopyKept
<1>2. ASSUME NEW r \in Request, Accept(r)
      PROVE  CopyInv'
  <2>1. copies' = copies /\ job'[r].phase \notin {"answered", "none"} /\ job[r].phase = "asked"
    BY <1>2 DEF Accept, Job
  <2>2. \A q \in Request \ {r} : job'[q] = job[q]
    BY <1>2 DEF Accept
  <2>3. \A b \in Request : backupRow'[b] = "completed" => backupRow[b] = "completed"
    BY <1>2 DEF Accept
  <2>4. \A b \in Request : backupRow'[b] # "none" => backupRow[b] # "none" \/ b = r
    BY <1>2 DEF Accept
  <2>5. \A q \in Request : job'[q].phase = "answered" => job[q].phase = "answered"
    BY <2>1, <2>2
  <2>6. \A q \in Request : job[q].phase = "none" /\ job'[q].kind = "restore" =>
          job'[q].arg \in Request /\ job[job'[q].arg].phase # "none"
    BY <1>b, <2>1, <2>2
  <2> QED
    BY <1>0, <2>1, <2>3, <2>4, <2>5, <2>6, CopyKept
<1>3. ASSUME NEW r \in Request, Refuse(r)
      PROVE  CopyInv'
  BY <1>3, <1>c DEF Refuse, Job
<1>d. ASSUME NEW r \in Request, Enqueue(r) \/ EnqueueRejected(r) \/ Take(r)
      PROVE  CopyInv'
  BY <1>d, <1>c DEF Enqueue, EnqueueRejected, Take, Goto, Job
<1>4. ASSUME NEW b \in Request, RemoveBackup(b)
      PROVE  CopyInv'
  <2>1. /\ copies' = copies /\ job' = job
        /\ \A q \in Request : backupRow'[q] \in {backupRow[q], "none"}
    BY <1>4 DEF RemoveBackup
  <2> QED
    BY <2>1 DEF CopyInv, PathIsFile
<1>6. ASSUME NEW r \in Request, Serve(r)
      PROVE  CopyInv'
  <2>1. PICK o \in Outcomes(job[r].kind, job[r].arg, dom) :
          /\ Goto(r, IF o.ok THEN "answered" ELSE "denied")
          /\ copies' = IF o.ok /\ job[r].kind = "backup" THEN copies \union {r} ELSE copies
    BY <1>6 DEF Serve
  <2>2. \A q \in Request \ {r} : job'[q] = job[q]
    BY <2>1 DEF Goto
  <2>3. /\ job'[r].kind = job[r].kind /\ job'[r].arg = job[r].arg
        /\ job'[r].phase \in {"answered", "denied"}
        /\ job'[r].phase = "answered" => o.ok
    BY <2>1 DEF Goto, Job
  <2>4. copies \subseteq copies' /\ backupRow' = backupRow /\ job[r].phase = "calling"
    BY <1>6, <2>1 DEF Serve
  <2>5. job'[r].phase = "answered" /\ job'[r].kind = "backup" => r \in copies'
    BY <2>1, <2>3
  <2>6. job'[r].phase = "answered" /\ job[r].kind = "restore" => PathIsFile(job[r].arg)
    <3>1. job[r].kind \in Kinds \ {"clone"} /\ dom \in Domain
      BY <2>4 DEF JobsOk, JobOk
    <3>2. Effects(job[r].kind, job[r].arg, dom, o)
      BY <3>1, OutcomesEffects
    <3> QED
      BY <2>3, <3>2 DEF Effects
  <2>7. \A q \in Request : job'[q].kind = job[q].kind /\ job'[q].arg = job[q].arg
    BY <2>2, <2>3
  <2>8. \A q \in Request : job[q].phase # "none" => job'[q].phase # "none"
    BY <2>2, <2>3
  <2>9. \A q \in Request : q # r => job'[q].phase = job[q].phase
    BY <2>2
  <2>10. \A q \in Request : PathIsFile(q)' = PathIsFile(q)
    BY <2>7 DEF PathIsFile
  <2>11. \A q \in Request :
           job'[q].phase = "answered" /\ job'[q].kind = "backup" => q \in copies'
    BY <2>4, <2>5, <2>7, <2>9 DEF CopyInv
  <2>12. ASSUME NEW q \in Request, job[q].kind = "restore"
         PROVE  /\ job[q].arg \in Request /\ job'[job[q].arg].phase # "none"
                /\ job'[q].phase = "answered" => job'[job[q].arg].arg = ImageFile
    <3>1. job[q].arg \in Request /\ job'[job[q].arg].phase # "none"
      BY <2>8, <2>12 DEF CopyInv
    <3>2. job'[q].phase = "answered" => PathIsFile(job[q].arg)
      BY <2>6, <2>9, <2>12 DEF CopyInv
    <3> QED
      BY <2>7, <3>1, <3>2 DEF PathIsFile
  <2>13. ASSUME NEW b \in Request, backupRow'[b] # "none"
         PROVE  /\ job'[b].phase # "none"
                /\ backupRow'[b] = "completed" => b \in copies' \/ job'[b].arg = ImageFile
    BY <2>4, <2>7, <2>8, <2>13 DEF CopyInv, PathIsFile
  <2> QED
    BY <2>7, <2>11, <2>12, <2>13 DEF CopyInv, PathIsFile
<1>7. ASSUME NEW r \in Request, GiveUp(r)
      PROVE  CopyInv'
  BY <1>7, <1>c DEF GiveUp, Job
<1>8. ASSUME NEW r \in Request, ServeLate(r)
      PROVE  CopyInv'
  <2>1. backupRow' = backupRow /\ copies \subseteq copies'
    BY <1>8 DEF ServeLate
  <2>2. \A q \in Request : job'[q].phase = job[q].phase /\ job'[q].kind = job[q].kind
    BY <1>8 DEF ServeLate, Job
  <2>3. \A q \in Request : job[q].phase = "none" => job'[q].kind # "restore"
    BY <1>a, <2>2
  <2> QED
    BY <1>0, <2>1, <2>2, <2>3, CopyKept
<1>9. ASSUME NEW r \in Request, Settle(r)
      PROVE  CopyInv'
  <2>1. copies' = copies /\ job'[r].phase = "done" /\ job[r].phase = "answered"
    BY <1>9 DEF Settle, Goto, Job
  <2>2. \A q \in Request \ {r} : job'[q] = job[q]
    BY <1>9 DEF Settle, Goto
  <2>3. \A q \in Request : job'[q].kind = job[q].kind /\ job'[q].arg = job[q].arg
    BY <1>9 DEF Settle, Goto, Job
  <2>4. \/ backupRow' = backupRow
        \/ /\ job[r].kind = "backup"
           /\ backupRow' = [backupRow EXCEPT ![r] = "completed"]
        \/ /\ job[r].kind = "restore" /\ backupRow[job[r].arg] # "none"
           /\ backupRow' = [backupRow EXCEPT ![job[r].arg] = "completed"]
    BY <1>9 DEF Settle, CompletesARow, Completes
  <2>5. ASSUME NEW b \in Request, backupRow'[b] # "none"
        PROVE  job[b].phase # "none"
    BY <2>1, <2>4, <2>5 DEF CopyInv
  <2>6. ASSUME NEW b \in Request, backupRow'[b] = "completed"
        PROVE  b \in copies \/ PathIsFile(b)
    <3>1. CASE backupRow[b] = "completed"
      BY <3>1 DEF CopyInv
    <3>2. CASE b = r /\ job[r].kind = "backup"
      BY <2>1, <3>2 DEF CopyInv
    <3>3. CASE b = job[r].arg /\ job[r].kind = "restore"
      BY <2>1, <3>3 DEF CopyInv
    <3> QED
      BY <2>4, <2>6, <3>1, <3>2, <3>3
  <2>7. \A q \in Request :
          /\ job'[q].phase = "answered" => job[q].phase = "answered"
          /\ job[q].phase # "none" => job'[q].phase # "none"
    BY <2>1, <2>2
  <2> QED
    BY <2>1, <2>3, <2>5, <2>6, <2>7 DEF CopyInv, PathIsFile
<1>10. ASSUME NEW r \in Request, SettleRejected(r)
       PROVE  CopyInv'
  BY <1>10, <1>c DEF SettleRejected, Goto, Job
<1>11. ASSUME NEW r \in Request, Retry(r)
       PROVE  CopyInv'
  BY <1>11, <1>c DEF Retry, Job, Exhausted
<1>12. CASE Heartbeat \/ GuestStops \/ UNCHANGED vars
  <2>1. UNCHANGED <<job, copies, backupRow>>
    BY <1>12 DEF Heartbeat, GuestStops, vars
  <2> QED
    BY <2>1 DEF CopyInv, PathIsFile
<1> QED
  BY <1>1, <1>2, <1>3, <1>d, <1>4, <1>6, <1>7, <1>8, <1>9, <1>10, <1>11, <1>12 DEF Next

\* No step moves the VM.
LEMMA NodeStep ==
  ASSUME OperationsType, NodeInv, [Next]_vars
  PROVE  NodeInv'
<1> USE DEF OperationsType, TypeOK, Row, NodeInv
<1>1. ASSUME NEW r \in Request, Settle(r)
      PROVE  NodeInv'
  <2>1. job[r].kind # "migrate"
    BY <1>1 DEF Settle, JobsOk, JobOk
  <2> QED
    BY <1>1, <2>1 DEF Settle
<1>2. ASSUME NEW r \in Request, Accept(r)
      PROVE  NodeInv'
  BY <1>2 DEF Accept
<1>3. CASE Heartbeat
  BY <1>3 DEF Heartbeat
<1>4. CASE UNCHANGED row
  BY <1>4
<1>5. ASSUME NEW r \in Request,
             \/ Ask(r) \/ Refuse(r) \/ Enqueue(r) \/ EnqueueRejected(r)
             \/ RemoveBackup(r) \/ Take(r) \/ Serve(r)
             \/ GiveUp(r) \/ ServeLate(r) \/ SettleRejected(r) \/ Retry(r)
      PROVE  UNCHANGED row
  BY <1>5 DEF Ask, Refuse, Enqueue, EnqueueRejected, RemoveBackup, Take, Serve, GiveUp, ServeLate, SettleRejected, Retry
<1>6. CASE GuestStops \/ UNCHANGED vars
  BY <1>6, <1>4 DEF GuestStops, vars
<1> QED
  BY <1>1, <1>2, <1>3, <1>4, <1>5, <1>6 DEF Next

-----------------------------------------------------------------------------
(* Requests that wait for each other.                                      *)

\* A request that is under way, in the panel or still in the agent.
Active(j) == ~(j.phase \in Resting /\ j.late = 0)

\* What is so of the one request that is under way: it was checked against the disk
\* there is, what it has written is still there, and what the agent has answered too.
RequestOk(r, j) ==
  /\ j.phase = "asked" => j.seen.disk = row.disk
  /\ Accepted(j) /\ j.kind = "resize" => row.mem = j.arg
  /\ Accepted(j) /\ j.kind = "grow" => row.disk = j.arg
  /\ Accepted(j) /\ j.kind = "snapshot" => snapRow = r
  /\ j.kind = "dropSnapshot" => snapRow \in {j.arg, NoRequest}
  /\ j.kind = "dropSnapshot" /\ j.phase = "done" => snapRow = NoRequest
  /\ j.kind = "dropSnapshot" /\ j.phase = "answered" => dom.saved = None \/ dom.kept
  /\ j.kind = "mount" /\ j.phase = "answered" => dom.drive = "iso"

\* A job that may still change what its kind is about, or has failed to.
Unfinished == {"written", "queued", "calling", "denied", "failed"}

OneAtATime == \A q, r \in Request : Active(job[q]) /\ Active(job[r]) => q = r

\* A request that is over may have a call in the agent, so it counts as well.
RequestsOk == \A r \in Request : Active(job[r]) => RequestOk(r, job[r])

SnapshotsAgree ==
  /\ dom.saved # None => snapRow # NoRequest \/ dom.kept
  /\ snapRow # NoRequest => \/ dom.saved # None
                            \/ HasJob("snapshot", Unfinished)
                            \/ HasJob("dropSnapshot", Unfinished \union {"answered"})

SizesAgree ==
  \/ HasJob("revert", Phase)
  \/ /\ row.mem = dom.mem \/ HasJob("resize", Unfinished)
     /\ \/ RestoresImage
        \/ /\ dom.disk <= row.disk
           /\ row.disk = dom.disk \/ HasJob("grow", Unfinished)

Unmounting == {"calling", "answered", "denied", "failed"}

DriveAgrees ==
  row.iso => \/ dom.drive = "iso"
             \/ HasJob("revert", Phase)
             \/ HasJob("unmount", Unmounting)

Alone == OneAtATime /\ RequestsOk /\ SnapshotsAgree /\ SizesAgree /\ DriveAgrees

\* As long as each request waits for the one before it.
AloneInv == ~overlapped => Alone

\* What the steps of a request that is alone have in common: the others rest, keep
\* what they are, and the request keeps its kind and what it is about.
Steps(r) ==
  /\ \A q \in Request \ {r} : job'[q] = job[q]
  /\ \A q \in Request \ {r} : ~Active(job[q])
  /\ job'[r].kind = job[r].kind /\ job'[r].arg = job[r].arg

\* A job found in certain phases before a step is found in them afterwards when the
\* request that moves stays in them.
LEMMA StillHasJob ==
  ASSUME NEW r \in Request, Steps(r), NEW kind, NEW phases, HasJob(kind, phases),
         job[r].kind = kind /\ job[r].phase \in phases => job'[r].phase \in phases
  PROVE  \E q \in Request : job'[q].kind = kind /\ job'[q].phase \in phases
<1>1. PICK q \in Request : job[q].kind = kind /\ job[q].phase \in phases
  BY DEF HasJob
<1>2. job'[q].kind = kind /\ job'[q].phase \in phases
  BY <1>1 DEF Steps
<1> QED
  BY <1>2

\* A restore that names an image file keeps doing so.
LEMMA StillRestores ==
  ASSUME NEW r \in Request, Steps(r), RestoresImage
  PROVE  RestoresImage'
BY DEF Steps, RestoresImage

\* With the others at rest, it is enough that the request that moved is right.
LEMMA OneMoves ==
  ASSUME NEW r \in Request, Steps(r), RequestOk(r, job[r])'
  PROVE  (OneAtATime /\ RequestsOk)'
<1>1. \A q \in Request : q # r => ~Active(job'[q])
  BY DEF Steps
<1>2. RequestsOk'
  BY <1>1 DEF RequestsOk, Active
<1>3. OneAtATime'
  BY <1>1 DEF OneAtATime, Active
<1> QED
  BY <1>2, <1>3

\* The request that takes a step while no other began, except by asking.
LEMMA ActorIsAlone ==
  ASSUME Alone, NEW r \in Request, Active(job[r]), \A q \in Request \ {r} : job'[q] = job[q],
         job'[r].kind = job[r].kind, job'[r].arg = job[r].arg
  PROVE  Steps(r) /\ RequestOk(r, job[r])
BY DEF Alone, OneAtATime, RequestsOk, Steps

\* Asking is alone when all are at rest, and records what there is.
LEMMA AskAlone ==
  ASSUME OperationsType, CopyInv, AloneInv, NEW r \in Request, Ask(r)
  PROVE  AloneInv'
<1> SUFFICES ASSUME ~overlapped' PROVE Alone'
  BY DEF AloneInv
<1> USE DEF OperationsType, TypeOK
<1>1. ~overlapped /\ AtRest /\ Alone
  BY DEF Ask, AloneInv
<1>2. PICK kind \in Kinds : \E a \in Arguments(kind) :
        job' = [job EXCEPT ![r] = [kind |-> kind, phase |-> "asked", arg |-> a,
                                   seen |-> row, left |-> Attempts, late |-> 0]]
  BY DEF Ask
<1>3. PICK a \in Arguments(kind) :
        job' = [job EXCEPT ![r] = [kind |-> kind, phase |-> "asked", arg |-> a,
                                   seen |-> row, left |-> Attempts, late |-> 0]]
  BY <1>2
<1>4. /\ \A q \in Request \ {r} : job'[q] = job[q]
      /\ job'[r].kind = kind /\ job'[r].phase = "asked" /\ job'[r].seen = row
      /\ job'[r].arg = a
  BY <1>3
<1>5. job[r].phase = "none" /\ UNCHANGED <<row, snapRow, dom>>
  BY DEF Ask
<1>6. \A q \in Request : q # r => ~Active(job'[q])
  BY <1>1, <1>4 DEF AtRest, Active
<1>7. OneAtATime'
  BY <1>6 DEF OneAtATime, Active
<1>8. RequestsOk'
  <2>1. kind = "dropSnapshot" => a = snapRow
    BY DEF Arguments
  <2>2. RequestOk(r, job[r])'
    BY <1>4, <1>5, <2>1 DEF RequestOk, Accepted
  <2> QED
    BY <1>6, <2>2 DEF RequestsOk, Active
<1>9. ASSUME NEW k, NEW phases, "none" \notin phases, HasJob(k, phases)
      PROVE  HasJob(k, phases)'
  BY <1>4, <1>5, <1>9 DEF HasJob
<1>10. SnapshotsAgree'
  BY <1>1, <1>5, <1>9 DEF Alone, SnapshotsAgree, Unfinished
<1>a. HasJob("revert", Phase) => HasJob("revert", Phase)'
  <2>1. job[r].kind = "none"
    BY <1>5 DEF JobsOk, JobOk
  <2>2. ASSUME HasJob("revert", Phase) PROVE HasJob("revert", Phase)'
    <3>1. PICK q \in Request : job[q].kind = "revert" /\ job[q].phase \in Phase
      BY <2>2 DEF HasJob
    <3>2. q # r
      BY <2>1, <3>1
    <3> QED
      BY <1>4, <3>1, <3>2 DEF HasJob
  <2> QED
    BY <2>2
<1>b. ASSUME RestoresImage PROVE RestoresImage'
  <2>1. PICK q \in Request, b \in Request :
          job[q].kind = "restore" /\ job[q].arg = b /\ job[b].arg = ImageFile
    BY <1>b DEF RestoresImage
  <2>2. job[q].phase # "none" /\ job[b].phase # "none"
    BY <2>1 DEF CopyInv, JobsOk, JobOk
  <2>3. job'[q] = job[q] /\ job'[b] = job[b]
    BY <1>4, <1>5, <2>2
  <2> QED
    BY <2>1, <2>3 DEF RestoresImage
<1>11. SizesAgree'
  BY <1>1, <1>5, <1>9, <1>a, <1>b DEF Alone, SizesAgree, Unfinished
<1>12. DriveAgrees'
  BY <1>1, <1>5, <1>9, <1>a DEF Alone, DriveAgrees, Unmounting
<1> QED
  BY <1>7, <1>8, <1>10, <1>11, <1>12 DEF Alone

\* Accepting writes what was checked against the rows that are still there.
LEMMA AcceptAlone ==
  ASSUME OperationsType, AloneInv, NEW r \in Request, Accept(r)
  PROVE  AloneInv'
<1> SUFFICES ASSUME ~overlapped PROVE Alone'
  BY DEF AloneInv, Accept
<1> USE DEF OperationsType, TypeOK
<1>1. Alone /\ job[r] \in Job /\ JobOk(job[r], faults)
  BY DEF AloneInv, JobsOk
<1>2. /\ job[r].phase = "asked"
      /\ \A q \in Request \ {r} : job'[q] = job[q]
      /\ job'[r].phase = (IF job[r].kind \in Direct THEN "calling" ELSE "written")
      /\ job'[r].kind = job[r].kind /\ job'[r].arg = job[r].arg
  BY DEF Accept, Job
<1>3. Active(job[r])
  BY <1>2 DEF Active, Resting
<1>4. Steps(r) /\ RequestOk(r, job[r])
  BY <1>1, <1>2, <1>3, ActorIsAlone
<1>5. /\ row'.mem = (IF job[r].kind = "resize" THEN job[r].arg ELSE row.mem)
      /\ row'.disk = (IF job[r].kind = "grow" THEN job[r].arg ELSE row.disk)
      /\ row'.iso = row.iso /\ dom' = dom
      /\ snapRow' = (IF job[r].kind = "snapshot" THEN r ELSE snapRow)
  BY DEF Accept, Row
<1>6. RequestOk(r, job[r])'
  BY <1>2, <1>4, <1>5 DEF RequestOk, Direct
<1>7. OneAtATime' /\ RequestsOk'
  BY <1>4, <1>6, OneMoves
<1>8. ASSUME NEW k, NEW phases, "asked" \notin phases, HasJob(k, phases)
      PROVE  HasJob(k, phases)'
  BY <1>2, <1>8 DEF HasJob
<1>9. job[r].kind \notin Direct => job'[r].phase \in Unfinished
  BY <1>2 DEF Unfinished
<1>10. SnapshotsAgree'
  <2>1. r # NoRequest
    BY OperationsAssumption
  <2>2. CASE job[r].kind = "snapshot"
    <3>1. HasJob("snapshot", Unfinished)'
      BY <1>2, <1>9, <2>2 DEF HasJob, Direct
    <3> QED
      BY <1>5, <2>1, <2>2, <3>1 DEF SnapshotsAgree
  <2>3. CASE job[r].kind # "snapshot"
    <3>1. snapRow' = snapRow
      BY <1>5, <2>3
    <3> QED
      BY <1>1, <1>5, <1>8, <3>1 DEF Alone, SnapshotsAgree, Unfinished
  <2> QED
    BY <2>2, <2>3
<1>11. SizesAgree'
  <2>0. CASE HasJob("revert", Phase)
    <3>1. job[r].kind = "revert" /\ job[r].phase \in Phase => job'[r].phase \in Phase
      BY <1>2 DEF Phase
    <3> QED
      BY <1>4, <2>0, <3>1, StillHasJob DEF SizesAgree, HasJob
  <2>1. CASE ~HasJob("revert", Phase)
    <3>1. /\ row.mem = dom.mem \/ HasJob("resize", Unfinished)
          /\ ~RestoresImage => /\ dom.disk <= row.disk
                               /\ row.disk = dom.disk \/ HasJob("grow", Unfinished)
      BY <1>1, <2>1 DEF Alone, SizesAgree
    <3>2. row'.mem = dom'.mem \/ HasJob("resize", Unfinished)'
      <4>1. CASE job[r].kind = "resize"
        BY <1>2, <1>9, <4>1 DEF HasJob, Direct
      <4>2. CASE job[r].kind # "resize"
        BY <1>5, <1>8, <3>1, <4>2 DEF Unfinished
      <4> QED
        BY <4>1, <4>2
    <3>5. RestoresImage => RestoresImage'
      BY <1>4, StillRestores
    <3>3. ~RestoresImage => row'.disk = dom'.disk \/ HasJob("grow", Unfinished)'
      <4>1. CASE job[r].kind = "grow"
        BY <1>2, <1>9, <4>1 DEF HasJob, Direct
      <4>2. CASE job[r].kind # "grow"
        BY <1>5, <1>8, <3>1, <4>2 DEF Unfinished
      <4> QED
        BY <4>1, <4>2
    <3>4. ~RestoresImage => dom'.disk <= row'.disk
      <4>1. CASE job[r].kind = "grow"
        <5>1. job[r].arg > job[r].seen.disk
          BY <4>1 DEF Accept, Admitted, Grows
        <5>2. job[r].seen.disk = row.disk
          BY <1>2, <1>4 DEF RequestOk
        <5>3. job[r].arg \in Nat /\ row.disk \in Nat /\ dom.disk \in Nat
          BY <1>1, <1>2, <4>1, OperationsAssumption DEF JobOk, Row, Domain
        <5>4. dom'.disk = dom.disk /\ row'.disk = job[r].arg
          BY <1>5, <4>1
        <5> QED
          BY <3>1, <5>1, <5>2, <5>3, <5>4
      <4>2. CASE job[r].kind # "grow"
        BY <1>5, <3>1, <4>2
      <4> QED
        BY <4>1, <4>2
    <3> QED
      BY <3>2, <3>3, <3>4, <3>5 DEF SizesAgree
  <2> QED
    BY <2>0, <2>1
<1>12. DriveAgrees'
  <2>1. HasJob("revert", Phase) => HasJob("revert", Phase)'
    <3>1. job'[r].phase \in Phase
      BY <1>2 DEF Phase
    <3> QED
      BY <1>4, <3>1, StillHasJob DEF HasJob
  <2> QED
    BY <1>1, <1>5, <1>8, <2>1 DEF Alone, DriveAgrees, Unmounting
<1> QED
  BY <1>7, <1>10, <1>11, <1>12 DEF Alone

\* A step of the request alone that touches neither rows nor domain keeps them in
\* agreement when a phase that excuses a difference is kept or followed by another.
LEMMA PhaseMoves ==
  ASSUME Alone, NEW r \in Request, Steps(r), RequestOk(r, job[r]), row' = row,
         snapRow' = snapRow, dom' = dom, job'[r].phase \in Phase, job'[r].phase # "done",
         job'[r].phase \notin {"asked", "answered"},
         job[r].phase \in Unfinished \union {"answered"} => job'[r].phase \in Unfinished,
         job[r].kind = "unmount" /\ job[r].phase \in Unmounting => job'[r].phase \in Unmounting,
         Accepted(job'[r]) => Accepted(job[r])
  PROVE  Alone'
<1>1. RequestOk(r, job[r])'
  BY DEF RequestOk, Steps
<1>2. OneAtATime' /\ RequestsOk'
  BY <1>1, OneMoves
<1>3. ASSUME NEW k, HasJob(k, Unfinished) PROVE HasJob(k, Unfinished)'
  BY <1>3, StillHasJob DEF HasJob
<1>4. HasJob("dropSnapshot", Unfinished \union {"answered"}) =>
        HasJob("dropSnapshot", Unfinished \union {"answered"})'
  <2> DEFINE phases == Unfinished \union {"answered"}
  <2>1. job[r].phase \in phases => job'[r].phase \in phases
    OBVIOUS
  <2> HIDE DEF phases
  <2>2. HasJob("dropSnapshot", phases) =>
          \E q \in Request : job'[q].kind = "dropSnapshot" /\ job'[q].phase \in phases
    BY <2>1, StillHasJob
  <2> QED
    BY <2>2 DEF HasJob, phases
<1>5. HasJob("unmount", Unmounting) => HasJob("unmount", Unmounting)'
  BY StillHasJob DEF HasJob
<1>6. HasJob("revert", Phase) => HasJob("revert", Phase)'
  BY StillHasJob DEF HasJob
<1>7. SnapshotsAgree'
  BY <1>3, <1>4 DEF Alone, SnapshotsAgree
<1>a. RestoresImage => RestoresImage'
  BY StillRestores
<1>8. SizesAgree'
  BY <1>3, <1>6, <1>a DEF Alone, SizesAgree
<1>9. DriveAgrees'
  BY <1>5, <1>6 DEF Alone, DriveAgrees
<1> QED
  BY <1>2, <1>7, <1>8, <1>9 DEF Alone

\* Refusing, enqueueing or not, taking, giving up, a rejected write and a retry are such
\* steps.
LEMMA MovesAlone ==
  ASSUME OperationsType, AloneInv, NEW r \in Request,
         \/ Refuse(r) \/ Enqueue(r) \/ EnqueueRejected(r) \/ Take(r) \/ GiveUp(r)
         \/ SettleRejected(r) \/ Retry(r)
  PROVE  AloneInv'
<1>0. overlapped' = overlapped
  BY DEF Refuse, Enqueue, EnqueueRejected, Take, GiveUp, SettleRejected, Retry
<1> SUFFICES ASSUME ~overlapped PROVE Alone'
  BY <1>0 DEF AloneInv
<1> USE DEF OperationsType, TypeOK
<1>1. Alone /\ job[r] \in Job /\ JobOk(job[r], faults)
  BY DEF AloneInv, JobsOk
<1>2. UNCHANGED <<row, snapRow, dom>>
  BY DEF Refuse, Enqueue, EnqueueRejected, Take, GiveUp, SettleRejected, Retry
<1>3. /\ \A q \in Request \ {r} : job'[q] = job[q]
      /\ job'[r].kind = job[r].kind /\ job'[r].arg = job[r].arg
      /\ job[r].phase \in {"asked", "written", "queued", "calling", "answered", "denied"}
  BY DEF Refuse, Enqueue, EnqueueRejected, Take, GiveUp, SettleRejected, Retry, Goto, Job
<1>4. Steps(r) /\ RequestOk(r, job[r])
  <2>1. Active(job[r])
    BY <1>3 DEF Active, Resting
  <2> QED
    BY <1>1, <1>3, <2>1, ActorIsAlone
<1>5. CASE Refuse(r)
  <2>1. job[r].phase = "asked" /\ job'[r].phase = "refused"
    BY <1>1, <1>5 DEF Refuse, Job
  <2> QED
    BY <1>1, <1>2, <1>4, <2>1, PhaseMoves DEF Accepted, Unfinished, Unmounting, Phase
<1>a. CASE Enqueue(r) \/ EnqueueRejected(r)
  <2>1. job[r].phase = "written" /\ job'[r].phase \in {"queued", "failed"}
    BY <1>1, <1>a DEF Enqueue, EnqueueRejected, Goto, Job
  <2> QED
    BY <1>1, <1>2, <1>4, <2>1, PhaseMoves DEF Accepted, Unfinished, Unmounting, Phase
<1>6. CASE Take(r)
  <2>1. job[r].phase = "queued" /\ job'[r].phase \in {"denied", "calling"}
    BY <1>1, <1>6 DEF Take, Goto, Job
  <2> QED
    BY <1>1, <1>2, <1>4, <2>1, PhaseMoves DEF Accepted, Unfinished, Unmounting, Phase
<1>7. CASE GiveUp(r)
  <2>1. job[r].phase = "calling" /\ job'[r].phase = "denied"
    BY <1>1, <1>7 DEF GiveUp, Job
  <2> QED
    BY <1>1, <1>2, <1>4, <2>1, PhaseMoves DEF Accepted, Unfinished, Unmounting, Phase
<1>8. CASE SettleRejected(r)
  <2>1. job[r].phase = "answered" /\ job'[r].phase = "denied"
    BY <1>1, <1>8 DEF SettleRejected, Goto, Job
  <2> QED
    BY <1>1, <1>2, <1>4, <2>1, PhaseMoves DEF Accepted, Unfinished, Unmounting, Phase
<1>9. CASE Retry(r)
  <2>1. job[r].phase = "denied"
    BY <1>9 DEF Retry
  <2>2. job'[r].phase = (IF job[r].left > 1 THEN "queued" ELSE "failed")
    BY <1>1, <1>9 DEF Retry, Job, Exhausted
  <2>3. job[r].kind = "unmount" => job'[r].phase = "failed"
    <3>1. job[r].kind = "unmount" => job[r].left <= 1
      BY <1>1, <2>1 DEF JobOk, Accepted, Direct
    <3>2. job[r].left \in Nat
      BY <1>1, OperationsAssumption DEF Job
    <3>3. job[r].kind = "unmount" => ~(job[r].left > 1)
      BY <3>1, <3>2
    <3> QED
      BY <2>2, <3>3
  <2>4. job'[r].phase \in {"queued", "failed"}
    BY <2>2
  <2> QED
    BY <1>1, <1>2, <1>4, <2>1, <2>3, <2>4, PhaseMoves
       DEF Accepted, Unfinished, Unmounting, Phase
<1> QED
  BY <1>5, <1>a, <1>6, <1>7, <1>8, <1>9

\* What a call of the request alone does to the domain is what its row says, and a
\* phase that excuses a difference is kept where the call did not succeed.
LEMMA AnswerAgrees ==
  ASSUME Alone, NEW r \in Request, Steps(r), RequestOk(r, job[r]), Accepted(job[r]),
         NEW o, Effects(job[r].kind, job[r].arg, dom, o), dom' = o.dom,
         row' = row, snapRow' = snapRow, job'[r].phase \in Phase,
         job[r].kind \notin Direct =>
           \/ job'[r].phase = job[r].phase
           \/ job'[r].phase = (IF o.ok THEN "answered" ELSE "denied"),
         job[r].kind = "dropSnapshot" /\ job[r].phase # "done" =>
           job'[r].phase \in Unfinished \union {"answered"},
         job[r].kind = "unmount" => job'[r].phase \in Unmounting,
         job[r].kind = "restore" => job[r].arg \in Request,
         r # NoRequest, row.disk \in Nat, job[r].phase \in Phase
  PROVE  (SnapshotsAgree /\ SizesAgree /\ DriveAgrees)'
<1> USE DEF Effects
<1>0. job'[r].kind = job[r].kind
  BY DEF Steps
<1>1. ASSUME NEW k, NEW phases, HasJob(k, phases), job[r].kind # k
      PROVE  HasJob(k, phases)'
  BY <1>1, StillHasJob DEF HasJob
<1>2. SnapshotsAgree'
  <2>1. CASE job[r].kind = "snapshot"
    <3>1. snapRow = r
      BY <2>1 DEF RequestOk
    <3>2. dom'.saved # None
      BY <2>1
    <3> QED
      BY <3>1, <3>2 DEF SnapshotsAgree
  <2>2. CASE job[r].kind = "dropSnapshot"
    <3>1. dom'.saved = None \/ dom'.kept
      BY <2>2
    <3>2. CASE job[r].phase = "done"
      <4>1. snapRow = NoRequest
        BY <2>2, <3>2 DEF RequestOk
      <4> QED
        BY <3>1, <4>1 DEF SnapshotsAgree
    <3>3. CASE job[r].phase # "done"
      <4>1. HasJob("dropSnapshot", Unfinished \union {"answered"})'
        BY <1>0, <2>2, <3>3 DEF HasJob
      <4> QED
        BY <3>1, <4>1 DEF SnapshotsAgree
    <3> QED
      BY <3>2, <3>3
  <2>3. CASE job[r].kind \notin {"snapshot", "dropSnapshot"}
    <3>1. dom'.saved = dom.saved /\ dom'.kept = dom.kept
      BY <2>3
    <3>2. HasJob("snapshot", Unfinished) => HasJob("snapshot", Unfinished)'
      BY <1>1, <2>3
    <3>3. HasJob("dropSnapshot", Unfinished \union {"answered"}) =>
            HasJob("dropSnapshot", Unfinished \union {"answered"})'
      BY <1>1, <2>3
    <3> QED
      BY <3>1, <3>2, <3>3 DEF Alone, SnapshotsAgree
  <2> QED
    BY <2>1, <2>2, <2>3
<1>3. SizesAgree'
  <2>1. CASE HasJob("revert", Phase)
    <3>1. HasJob("revert", Phase)'
      BY <2>1, StillHasJob DEF HasJob
    <3> QED
      BY <3>1 DEF SizesAgree
  <2>2. CASE ~HasJob("revert", Phase)
    <3>0. job[r].kind # "revert"
      BY <2>2 DEF HasJob
    <3>1. /\ row.mem = dom.mem \/ HasJob("resize", Unfinished)
          /\ ~RestoresImage => /\ dom.disk <= row.disk
                               /\ row.disk = dom.disk \/ HasJob("grow", Unfinished)
      BY <2>2 DEF Alone, SizesAgree
    <3>a. ASSUME job[r].kind = "restore", PathIsFile(job[r].arg)
          PROVE  RestoresImage
      BY <3>a DEF RestoresImage, PathIsFile
    <3>b. RestoresImage => RestoresImage'
      BY StillRestores
    <3>2. row.mem = dom'.mem \/ HasJob("resize", Unfinished)'
      <4>1. CASE job[r].kind = "resize" /\ o.ok
        <5>1. row.mem = job[r].arg
          BY <4>1 DEF RequestOk
        <5> QED
          BY <4>1, <5>1
      <4>2. CASE job[r].kind = "resize" /\ ~o.ok
        <5>1. dom'.mem = dom.mem
          BY <3>0, <4>2
        <5>2. job'[r].phase = job[r].phase \/ job'[r].phase = "denied"
          BY <4>2 DEF Direct
        <5>3. job[r].phase \in Unfinished => job'[r].phase \in Unfinished
          BY <5>2 DEF Unfinished
        <5>4. HasJob("resize", Unfinished) => HasJob("resize", Unfinished)'
          BY <5>3, StillHasJob DEF HasJob
        <5> QED
          BY <3>1, <5>1, <5>4
      <4>3. CASE job[r].kind # "resize"
        <5>1. dom'.mem = dom.mem
          BY <3>0, <4>3
        <5> QED
          BY <1>1, <3>1, <4>3, <5>1
      <4> QED
        BY <4>1, <4>2, <4>3
    <3>3. ~RestoresImage => row.disk = dom'.disk \/ HasJob("grow", Unfinished)'
      <4>1. CASE job[r].kind = "grow" /\ o.ok
        <5>1. row.disk = job[r].arg
          BY <4>1 DEF RequestOk
        <5> QED
          BY <4>1, <5>1
      <4>2. CASE job[r].kind = "grow" /\ ~o.ok
        <5>1. dom'.disk = dom.disk
          BY <3>0, <4>2
        <5>2. job'[r].phase = job[r].phase \/ job'[r].phase = "denied"
          BY <4>2 DEF Direct
        <5>3. job[r].phase \in Unfinished => job'[r].phase \in Unfinished
          BY <5>2 DEF Unfinished
        <5>4. HasJob("grow", Unfinished) => HasJob("grow", Unfinished)'
          BY <5>3, StillHasJob DEF HasJob
        <5> QED
          BY <3>1, <5>1, <5>4
      <4>3. CASE job[r].kind # "grow"
        <5>1. ~RestoresImage => dom'.disk = dom.disk
          BY <3>0, <3>a, <4>3
        <5> QED
          BY <1>1, <3>1, <4>3, <5>1
      <4> QED
        BY <4>1, <4>2, <4>3
    <3>4. ~RestoresImage => dom'.disk <= row.disk
      <4>1. CASE dom'.disk = dom.disk
        BY <3>1, <4>1
      <4>2. CASE job[r].kind = "grow" /\ o.ok
        <5>1. dom'.disk = row.disk
          BY <4>2 DEF RequestOk
        <5> QED
          BY <5>1
      <4> QED
        BY <3>0, <3>a, <4>1, <4>2
    <3> QED
      BY <3>2, <3>3, <3>4, <3>b DEF SizesAgree
  <2> QED
    BY <2>1, <2>2
<1>4. DriveAgrees'
  <2>1. CASE job[r].kind = "unmount"
    BY <1>0, <2>1 DEF DriveAgrees, HasJob
  <2>2. CASE job[r].kind # "unmount"
    <3>1. dom'.drive = dom.drive \/ dom'.drive = "iso" \/ HasJob("revert", Phase)
      BY <2>2 DEF HasJob
    <3>2. HasJob("unmount", Unmounting) => HasJob("unmount", Unmounting)'
      BY <1>1, <2>2
    <3>3. HasJob("revert", Phase) => HasJob("revert", Phase)'
      BY StillHasJob DEF HasJob
    <3> QED
      BY <3>1, <3>2, <3>3 DEF Alone, DriveAgrees
  <2> QED
    BY <2>1, <2>2
<1> QED
  BY <1>2, <1>3, <1>4

\* The agent answers the call of the request alone.
LEMMA ServeAlone ==
  ASSUME OperationsType, CopyInv, AloneInv, NEW r \in Request, Serve(r)
  PROVE  AloneInv'
<1> SUFFICES ASSUME ~overlapped PROVE Alone'
  BY DEF AloneInv, Serve
<1> USE DEF OperationsType, TypeOK
<1>1. Alone /\ job[r] \in Job /\ JobOk(job[r], faults) /\ job[r].phase = "calling"
  BY DEF AloneInv, JobsOk, Serve
<1>2. PICK o \in Outcomes(job[r].kind, job[r].arg, dom) :
        dom' = o.dom /\ Goto(r, IF o.ok THEN "answered" ELSE "denied")
  BY DEF Serve
<1>3. /\ \A q \in Request \ {r} : job'[q] = job[q]
      /\ job'[r].kind = job[r].kind /\ job'[r].arg = job[r].arg
      /\ job'[r].phase = (IF o.ok THEN "answered" ELSE "denied")
  BY <1>1, <1>2 DEF Goto, Job
<1>4. Steps(r) /\ RequestOk(r, job[r])
  <2>1. Active(job[r])
    BY <1>1 DEF Active, Resting
  <2> QED
    BY <1>1, <1>3, <2>1, ActorIsAlone
<1>5. Effects(job[r].kind, job[r].arg, dom, o)
  <2>1. job[r].kind \in Kinds \ {"clone"}
    BY <1>1 DEF JobOk
  <2> QED
    BY <1>2, <2>1, OutcomesEffects
<1>6. row' = row /\ snapRow' = snapRow /\ r # NoRequest /\ row.disk \in Nat
  BY OperationsAssumption DEF Serve, Row
<1>7. job'[r].phase = "answered" => o.ok
  BY <1>3
<1>8. job'[r].phase \in {"answered", "denied"}
  BY <1>3
<1>9. RequestOk(r, job[r])'
  <2>1. job[r].kind = "dropSnapshot" => dom'.saved = None \/ dom'.kept
    BY <1>2, <1>5 DEF Effects
  <2>2. job[r].kind = "mount" /\ job'[r].phase = "answered" => dom'.drive = "iso"
    BY <1>2, <1>5, <1>7 DEF Effects
  <2>3. Accepted(job[r])
    BY <1>1 DEF Accepted
  <2> QED
    BY <1>3, <1>4, <1>6, <1>8, <2>1, <2>2, <2>3 DEF RequestOk
<1>10. OneAtATime' /\ RequestsOk'
  BY <1>4, <1>9, OneMoves
<1>11. (SnapshotsAgree /\ SizesAgree /\ DriveAgrees)'
  <2>1. Accepted(job[r]) /\ job[r].phase \in Phase /\ job'[r].phase \in Phase
    BY <1>1, <1>8 DEF Accepted, Phase
  <2>2. job'[r].phase \in Unfinished \union {"answered"} /\ job'[r].phase \in Unmounting
    BY <1>8 DEF Unfinished, Unmounting
  <2>3. job[r].kind = "restore" => job[r].arg \in Request
    BY DEF CopyInv
  <2> QED
    BY <1>1, <1>2, <1>3, <1>4, <1>5, <1>6, <2>1, <2>2, <2>3, AnswerAgrees
<1> QED
  BY <1>10, <1>11 DEF Alone

\* The agent executes a call that the request alone has given up.
LEMMA ServeLateAlone ==
  ASSUME OperationsType, CopyInv, AloneInv, NEW r \in Request, ServeLate(r)
  PROVE  AloneInv'
<1> SUFFICES ASSUME ~overlapped PROVE Alone'
  BY DEF AloneInv, ServeLate
<1> USE DEF OperationsType, TypeOK
<1>1. Alone /\ job[r] \in Job /\ JobOk(job[r], faults) /\ job[r].late > 0
  BY DEF AloneInv, JobsOk, ServeLate
<1>2. PICK o \in Outcomes(job[r].kind, job[r].arg, dom) : dom' = o.dom
  BY DEF ServeLate
<1>3. /\ \A q \in Request \ {r} : job'[q] = job[q]
      /\ job'[r].kind = job[r].kind /\ job'[r].arg = job[r].arg
      /\ job'[r].phase = job[r].phase /\ job'[r].seen = job[r].seen
  BY <1>1 DEF ServeLate, Job
<1>4. Steps(r) /\ RequestOk(r, job[r])
  <2>1. Active(job[r])
    BY <1>1 DEF Active
  <2> QED
    BY <1>1, <1>3, <2>1, ActorIsAlone
<1>5. /\ job[r].kind \in Kinds \ {"clone"} /\ Accepted(job[r])
      /\ job[r].kind \in Direct => job[r].phase \in {"denied", "failed"}
  BY <1>1 DEF JobOk
<1>6. Effects(job[r].kind, job[r].arg, dom, o)
  BY <1>2, <1>5, OutcomesEffects
<1>7. row' = row /\ snapRow' = snapRow /\ r # NoRequest /\ row.disk \in Nat
  BY OperationsAssumption DEF ServeLate, Row
<1>8. RequestOk(r, job[r])'
  <2>1. job[r].kind = "dropSnapshot" => dom'.saved = None \/ dom'.kept
    BY <1>2, <1>6 DEF Effects
  <2>2. ~(job[r].kind = "mount" /\ job[r].phase = "answered")
    BY <1>5 DEF Direct
  <2> QED
    BY <1>3, <1>4, <1>5, <1>7, <2>1, <2>2 DEF RequestOk
<1>9. OneAtATime' /\ RequestsOk'
  BY <1>4, <1>8, OneMoves
<1>10. (SnapshotsAgree /\ SizesAgree /\ DriveAgrees)'
  <2>1. job[r].phase \in Phase /\ job'[r].phase \in Phase
    BY <1>1, <1>3 DEF Job
  <2>2. job[r].phase # "done" => job'[r].phase \in Unfinished \union {"answered"}
    BY <1>1, <1>3, <1>5 DEF Job, Phase, Accepted, Unfinished
  <2>3. job[r].kind = "unmount" => job'[r].phase \in Unmounting
    BY <1>3, <1>5 DEF Direct, Unmounting
  <2>4. job[r].kind = "restore" => job[r].arg \in Request
    BY DEF CopyInv
  <2> QED
    BY <1>1, <1>2, <1>3, <1>4, <1>5, <1>6, <1>7, <2>1, <2>2, <2>3, <2>4, AnswerAgrees
<1> QED
  BY <1>9, <1>10 DEF Alone

\* What is written after the answer is what the agent has made of the domain.
LEMMA SettleAlone ==
  ASSUME OperationsType, AloneInv, NEW r \in Request, Settle(r)
  PROVE  AloneInv'
<1> SUFFICES ASSUME ~overlapped PROVE Alone'
  BY DEF AloneInv, Settle
<1> USE DEF OperationsType, TypeOK
<1>1. Alone /\ job[r] \in Job /\ job[r].phase = "answered"
  BY DEF AloneInv, Settle
<1>2. /\ \A q \in Request \ {r} : job'[q] = job[q]
      /\ job'[r].kind = job[r].kind /\ job'[r].arg = job[r].arg
      /\ job'[r].phase = "done"
  BY <1>1 DEF Settle, Goto, Job
<1>3. Steps(r) /\ RequestOk(r, job[r]) /\ Accepted(job[r])
  <2>1. Active(job[r])
    BY <1>1 DEF Active, Resting
  <2> QED
    BY <1>1, <1>2, <2>1, ActorIsAlone DEF Accepted
<1>4. /\ row'.mem = row.mem /\ row'.disk = row.disk /\ dom' = dom
      /\ row'.iso = (CASE job[r].kind = "mount" -> TRUE
                       [] job[r].kind = "unmount" -> FALSE
                       [] OTHER -> row.iso)
      /\ snapRow' = (IF job[r].kind = "dropSnapshot" /\ snapRow = job[r].arg
                     THEN NoRequest ELSE snapRow)
  BY DEF Settle, Row
<1>5. job[r].kind = "dropSnapshot" => snapRow' = NoRequest
  BY <1>3, <1>4 DEF RequestOk
<1>6. RequestOk(r, job[r])'
  BY <1>2, <1>3, <1>4, <1>5 DEF RequestOk
<1>7. OneAtATime' /\ RequestsOk'
  BY <1>3, <1>6, OneMoves
<1>8. ASSUME NEW k, NEW phases, HasJob(k, phases),
             job[r].kind # k \/ "answered" \notin phases
      PROVE  HasJob(k, phases)'
  BY <1>1, <1>8, <1>3, StillHasJob DEF HasJob
<1>9. SnapshotsAgree'
  <2>1. CASE job[r].kind = "dropSnapshot"
    <3>1. dom.saved = None \/ dom.kept
      BY <1>1, <1>3, <2>1 DEF RequestOk
    <3> QED
      BY <1>4, <1>5, <2>1, <3>1 DEF SnapshotsAgree
  <2>2. CASE job[r].kind # "dropSnapshot"
    <3>1. snapRow' = snapRow
      BY <1>4, <2>2
    <3>2. HasJob("snapshot", Unfinished) => HasJob("snapshot", Unfinished)'
      BY <1>8 DEF Unfinished
    <3>3. HasJob("dropSnapshot", Unfinished \union {"answered"}) =>
            HasJob("dropSnapshot", Unfinished \union {"answered"})'
      BY <1>8, <2>2
    <3> QED
      BY <1>1, <1>4, <3>1, <3>2, <3>3 DEF Alone, SnapshotsAgree
  <2> QED
    BY <2>1, <2>2
<1>a. HasJob("revert", Phase) => HasJob("revert", Phase)'
  <2>1. job'[r].phase \in Phase
    BY <1>2 DEF Phase
  <2> QED
    BY <1>3, <2>1, StillHasJob DEF HasJob
<1>10. SizesAgree'
  <2>1. "answered" \notin Unfinished
    BY DEF Unfinished
  <2>2. RestoresImage => RestoresImage'
    BY <1>3, StillRestores
  <2> QED
    BY <1>1, <1>4, <1>8, <1>a, <2>1, <2>2 DEF Alone, SizesAgree
<1>11. DriveAgrees'
  <2>1. CASE job[r].kind = "mount"
    <3>1. dom'.drive = "iso"
      BY <1>1, <1>3, <1>4, <2>1 DEF RequestOk
    <3> QED
      BY <3>1 DEF DriveAgrees
  <2>2. CASE job[r].kind = "unmount"
    BY <1>4, <2>2 DEF DriveAgrees
  <2>3. CASE job[r].kind \notin {"mount", "unmount"}
    <3>1. row'.iso = row.iso
      BY <1>4, <2>3
    <3>2. HasJob("unmount", Unmounting) => HasJob("unmount", Unmounting)'
      BY <1>8, <2>3
    <3> QED
      BY <1>1, <1>4, <1>a, <3>1, <3>2 DEF Alone, DriveAgrees
  <2> QED
    BY <2>1, <2>2, <2>3
<1> QED
  BY <1>7, <1>9, <1>10, <1>11 DEF Alone

\* A power state that changes by itself, and a removed backup, are not about these.
LEMMA OtherAlone ==
  ASSUME OperationsType, AloneInv,
         Heartbeat \/ GuestStops \/ (\E b \in Request : RemoveBackup(b)) \/ UNCHANGED vars
  PROVE  AloneInv'
<1> USE DEF OperationsType, TypeOK
<1>1. /\ job' = job /\ snapRow' = snapRow /\ overlapped' = overlapped
      /\ row'.mem = row.mem /\ row'.disk = row.disk /\ row'.iso = row.iso
      /\ dom'.mem = dom.mem /\ dom'.disk = dom.disk
      /\ dom'.saved = dom.saved /\ dom'.drive = dom.drive /\ dom'.kept = dom.kept
  <2>1. CASE Heartbeat
    BY <2>1 DEF Heartbeat, Row
  <2>2. CASE GuestStops
    BY <2>2 DEF GuestStops, Domain
  <2>3. CASE \E b \in Request : RemoveBackup(b)
    BY <2>3 DEF RemoveBackup
  <2>4. CASE UNCHANGED vars
    BY <2>4 DEF vars
  <2> QED
    BY <2>1, <2>2, <2>3, <2>4
<1> SUFFICES ASSUME ~overlapped PROVE Alone'
  BY <1>1 DEF AloneInv
<1>2. Alone
  BY DEF AloneInv
<1>3. OneAtATime'
  BY <1>1, <1>2 DEF Alone, OneAtATime
<1>4. RequestsOk'
  BY <1>1, <1>2 DEF Alone, RequestsOk, RequestOk
<1>5. SnapshotsAgree'
  BY <1>1, <1>2 DEF Alone, SnapshotsAgree, HasJob
<1>6. SizesAgree'
  BY <1>1, <1>2 DEF Alone, SizesAgree, HasJob, RestoresImage
<1>7. DriveAgrees'
  BY <1>1, <1>2 DEF Alone, DriveAgrees, HasJob
<1> QED
  BY <1>3, <1>4, <1>5, <1>6, <1>7 DEF Alone

\* Every step keeps what is so of requests that wait for each other.
LEMMA AloneStep ==
  ASSUME OperationsType, CopyInv, AloneInv, [Next]_vars
  PROVE  AloneInv'
<1>1. ASSUME NEW r \in Request,
             \/ Ask(r) \/ Accept(r) \/ Serve(r) \/ ServeLate(r) \/ Settle(r)
      PROVE  AloneInv'
  BY <1>1, AskAlone, AcceptAlone, ServeAlone, ServeLateAlone, SettleAlone
<1>2. ASSUME NEW r \in Request,
             \/ Refuse(r) \/ Enqueue(r) \/ EnqueueRejected(r) \/ Take(r) \/ GiveUp(r)
             \/ SettleRejected(r) \/ Retry(r)
      PROVE  AloneInv'
  BY <1>2, MovesAlone
<1>3. CASE \/ Heartbeat \/ GuestStops
           \/ \E b \in Request : RemoveBackup(b)
           \/ UNCHANGED vars
  BY <1>3, OtherAlone
<1> QED
  BY <1>1, <1>2, <1>3 DEF Next

-----------------------------------------------------------------------------
(* The theorems.                                                           *)

\* The inductive invariant.
OperationsInv == OperationsType /\ CopyInv /\ NodeInv /\ AloneInv

\* It holds in every state.
LEMMA OperationsInvHolds == Spec => []OperationsInv
<1>1. ASSUME Init
      PROVE  OperationsInv
  <2>1. OperationsType
    BY <1>1, OperationsTypeInit
  <2>2. CopyInv /\ NodeInv
    BY <1>1 DEF Init, CopyInv, NodeInv, Unused
  <2>3. \A r \in Request : ~Active(job[r])
    BY <1>1 DEF Init, Unused, Active, Resting
  <2>4. OneAtATime /\ RequestsOk
    BY <2>3 DEF OneAtATime, RequestsOk
  <2>5. SnapshotsAgree /\ SizesAgree /\ DriveAgrees
    BY <1>1 DEF Init, SnapshotsAgree, SizesAgree, DriveAgrees
  <2> QED
    BY <2>1, <2>2, <2>4, <2>5 DEF OperationsInv, AloneInv, Alone
<1>2. ASSUME OperationsInv, [Next]_vars
      PROVE  OperationsInv'
  BY <1>2, OperationsTypeStep, CopyStep, NodeStep, AloneStep DEF OperationsInv
<1> QED
  BY <1>1, <1>2, PTL DEF Spec

\* Every variable keeps its type, whatever requests overlap, are lost, answered late
\* or repeated.
THEOREM OperationsTypeCorrect == Spec => []TypeOK
<1>1. OperationsInv => TypeOK
  BY DEF OperationsInv, OperationsType
<1> QED
  BY <1>1, OperationsInvHolds, PTL

\* A backup that BackupsService shows as completed has been copied by the agent, under
\* every interleaving of backups, restores and removals, unless its request had named an
\* image file as the directory of the copies.
THEOREM BackupWasCopied == Spec => []CompletedBackupWasCopied
<1>1. OperationsInv => CompletedBackupWasCopied
  BY DEF OperationsInv, CopyInv, CompletedBackupWasCopied, PathIsFile
<1> QED
  BY <1>1, OperationsInvHolds, PTL

\* While requests wait for each other the node keeps no snapshot that the panel cannot
\* show or delete, unless manager.go has passed over an error while it deleted it; the
\* panel plans with no less disk than there is, unless a snapshot was reverted or an
\* image file restored; and it looks for the VM and its ISO where they are.
THEOREM PanelCovers == Spec => []PanelCoversNode
<1>1. OperationsInv => PanelCoversNode
  <2> SUFFICES ASSUME OperationsInv, ~overlapped
               PROVE  /\ dom.saved # None => snapRow # NoRequest \/ dom.kept
                      /\ HasJob("revert", Phase) \/ RestoresImage \/ dom.disk <= row.disk
                      /\ row.node = Home
                      /\ row.iso => \/ dom.drive = "iso"
                                    \/ HasJob("revert", Phase)
                                    \/ HasJob("unmount", {"calling", "answered", "denied",
                                                          "failed"})
    BY DEF PanelCoversNode
  <2>1. SnapshotsAgree /\ SizesAgree /\ DriveAgrees /\ NodeInv
    BY DEF OperationsInv, AloneInv, Alone
  <2> QED
    BY <2>1 DEF SnapshotsAgree, SizesAgree, DriveAgrees, NodeInv, Unmounting
<1> QED
  BY <1>1, OperationsInvHolds, PTL

\* When requests that waited for each other have all succeeded, after however many
\* attempts, the node has the sizes and the snapshot that the panel shows: but for the
\* disk when an image file was restored, and for a snapshot whose deletion passed over an
\* error.
THEOREM SuccessAgrees == Spec => []SuccessMeansAgreement
<1>1. OperationsInv => SuccessMeansAgreement
  <2> SUFFICES ASSUME OperationsInv, ~overlapped, AtRest, ~HasJob("revert", Phase),
                      \A r \in Request : job[r].phase # "failed"
               PROVE  /\ dom.mem = row.mem
                      /\ RestoresImage \/ dom.disk = row.disk
                      /\ dom.kept \/ (dom.saved # None) = (snapRow # NoRequest)
    BY DEF SuccessMeansAgreement
  <2>1. SnapshotsAgree /\ SizesAgree
    BY DEF OperationsInv, AloneInv, Alone
  <2>2. \A k : ~HasJob(k, Unfinished) /\ ~HasJob(k, Unfinished \union {"answered"})
    BY DEF HasJob, AtRest, Resting, Unfinished
  <2>3. dom.mem = row.mem /\ (RestoresImage \/ dom.disk = row.disk)
    BY <2>1, <2>2 DEF SizesAgree
  <2>4. dom.kept \/ ((dom.saved # None) <=> (snapRow # NoRequest))
    BY <2>1, <2>2 DEF SnapshotsAgree
  <2> QED
    BY <2>3, <2>4
<1> QED
  BY <1>1, OperationsInvHolds, PTL

-----------------------------------------------------------------------------
\* The pages and the routes (Access).

\* What is asked and what is offered, item by item.
LEMMA NeedsIs ==
  ASSUME NEW p, NEW requests, NEW r \in requests
  PROVE  [permission |-> p, request |-> r] \in Needs(p, requests)
  BY DEF Needs

LEMMA OffersIs ==
  ASSUME NEW gate, NEW states, NEW requests, NEW o \in Offers(gate, states, requests)
  PROVE  o.gate = gate /\ o.states = states /\ o.request \in requests
  BY DEF Offers

LEMMA RequiresIs ==
  ASSUME NEW states, NEW requests, NEW c \in Requires(states, requests)
  PROVE  c.states = states /\ c.request \in requests
  BY DEF Requires

\* A route that asks for permission p serves request r.
Serves(p, r) == [permission |-> p, request |-> r] \in Routes

LEMMA VmRoutesServe ==
  /\ \A r \in {"vms.list", "vms.get", "vms.listSnapshots"} :
       Serves("vm.read", r)
  /\ \A r \in {"vms.create", "vms.clone", "vms.resize", "vms.resizeDisk"} :
       Serves("vm.create", r)
  /\ Serves("vm.delete", "vms.remove")
  /\ \A r \in {"vms.start", "vms.stop", "vms.restart"} :
       Serves("vm.power", r)
  /\ \A r \in {"vms.createSnapshot", "vms.revert", "vms.deleteSnapshot"} :
       Serves("vm.snapshot", r)
<1>1. VmRoutes \subseteq Routes
  BY DEF Routes
<1> QED
  BY <1>1, NeedsIs DEF VmRoutes, Serves

LEMMA VmDeviceRoutesServe ==
  /\ Serves("vm.console", "vms.console")
  /\ \A r \in {"vms.listFirewall", "vms.addRule", "vms.deleteRule"} :
       Serves("vm.firewall", r)
<1>1. VmDeviceRoutes \subseteq Routes
  BY DEF Routes
<1> QED
  BY <1>1, NeedsIs DEF VmDeviceRoutes, Serves

LEMMA ContainerRoutesServe ==
  /\ \A r \in {"containers.list", "containers.get"} :
       Serves("vm.read", r)
  /\ Serves("vm.create", "containers.create")
  /\ Serves("vm.delete", "containers.remove")
<1>1. ContainerRoutes \subseteq Routes
  BY DEF Routes
<1> QED
  BY <1>1, NeedsIs DEF ContainerRoutes, Serves

LEMMA BackupRoutesServe ==
  /\ \A r \in {"backups.list", "backups.listSchedules"} :
       Serves("backup.read", r)
  /\ \A r \in {"backups.create", "backups.restore", "backups.remove", "backups.createSchedule",
               "backups.updateSchedule", "backups.deleteSchedule"} :
       Serves("backup.manage", r)
<1>1. BackupRoutes \subseteq Routes
  BY DEF Routes
<1> QED
  BY <1>1, NeedsIs DEF BackupRoutes, Serves

LEMMA NodeRoutesServe ==
  /\ \A r \in {"nodes.list", "nodes.get", "nodes.metrics", "nodes.pciDevices"} :
       Serves("node.read", r)
  /\ \A r \in {"nodes.createJoinToken", "nodes.patch", "nodes.drain", "nodes.remove",
               "nodes.createPool", "nodes.defaultPool", "nodes.removePool"} :
       Serves("node.manage", r)
  /\ \A r \in {"nodes.join", "nodes.heartbeat"} :
       Serves(Anyone, r)
<1>1. NodeRoutes \subseteq Routes
  BY DEF Routes
<1> QED
  BY <1>1, NeedsIs DEF NodeRoutes, Serves

LEMMA NetworkRoutesServe ==
  /\ \A r \in {"networks.list", "networks.getOne", "networks.listPools", "networks.ipAddresses",
               "networks.listPortForwards"} :
       Serves("network.read", r)
  /\ \A r \in {"networks.create", "networks.createPool", "networks.deleteNetwork",
               "networks.deletePool", "networks.createPortForward", "networks.deletePortForward"} :
       Serves("network.manage", r)
<1>1. NetworkRoutes \subseteq Routes
  BY DEF Routes
<1> QED
  BY <1>1, NeedsIs DEF NetworkRoutes, Serves

LEMMA StorageRoutesServe ==
  /\ \A r \in {"storage.templates", "storage.isos"} :
       Serves(Anyone, r)
  /\ \A r \in {"storage.createTemplate", "storage.deleteTemplate", "storage.createIso",
               "storage.deleteIso"} :
       Serves("storage.manage", r)
<1>1. StorageRoutes \subseteq Routes
  BY DEF Routes
<1> QED
  BY <1>1, NeedsIs DEF StorageRoutes, Serves

LEMMA TaskRoutesServe ==
  /\ \A r \in {"tasks.list", "tasks.get"} :
       Serves("node.read", r)
<1>1. TaskRoutes \subseteq Routes
  BY DEF Routes
<1> QED
  BY <1>1, NeedsIs DEF TaskRoutes, Serves

LEMMA AlertRoutesServe ==
  /\ \A r \in {"alerts.list", "alerts.create", "alerts.update", "alerts.remove"} :
       Serves("node.read", r)
<1>1. AlertRoutes \subseteq Routes
  BY DEF Routes
<1> QED
  BY <1>1, NeedsIs DEF AlertRoutes, Serves

LEMMA WebhookRoutesServe ==
  /\ \A r \in {"webhooks.list", "webhooks.create", "webhooks.update", "webhooks.remove",
               "webhooks.deliveries"} :
       Serves("node.read", r)
<1>1. WebhookRoutes \subseteq Routes
  BY DEF Routes
<1> QED
  BY <1>1, NeedsIs DEF WebhookRoutes, Serves

LEMMA UserRoutesServe ==
  /\ \A r \in {"users.list", "users.create", "users.update", "users.remove"} :
       Serves("user.manage", r)
<1>1. UserRoutes \subseteq Routes
  BY DEF Routes
<1> QED
  BY <1>1, NeedsIs DEF UserRoutes, Serves

LEMMA RoleRoutesServe ==
  /\ \A r \in {"roles.list", "roles.permissions", "roles.create", "roles.update", "roles.delete",
               "roles.getQuota", "roles.putQuota", "roles.deleteQuota"} :
       Serves("user.manage", r)
<1>1. RoleRoutes \subseteq Routes
  BY DEF Routes
<1> QED
  BY <1>1, NeedsIs DEF RoleRoutes, Serves

LEMMA SettingRoutesServe ==
  /\ \A r \in {"settings.list", "settings.update"} :
       Serves("user.manage", r)
<1>1. SettingRoutes \subseteq Routes
  BY DEF Routes
<1> QED
  BY <1>1, NeedsIs DEF SettingRoutes, Serves

LEMMA AuditRoutesServe ==
  /\ Serves("audit.read", "audit.list")
<1>1. AuditRoutes \subseteq Routes
  BY DEF Routes
<1> QED
  BY <1>1, NeedsIs DEF AuditRoutes, Serves

LEMMA LicenseRoutesServe ==
  /\ Serves("license.read", "license.status")
  /\ Serves("license.manage", "license.refresh")
  /\ \A r \in {"license.systemState", "license.activate", "license.activateSelfHosted"} :
       Serves(Anyone, r)
<1>1. LicenseRoutes \subseteq Routes
  BY DEF Routes
<1> QED
  BY <1>1, NeedsIs DEF LicenseRoutes, Serves

LEMMA AiRoutesServe ==
  /\ \A r \in {"ai.capabilities", "ai.chat", "ai.diagnoseVm", "ai.diagnoseNode", "ai.execute"} :
       Serves("vm.read", r)
<1>1. AiRoutes \subseteq Routes
  BY DEF Routes
<1> QED
  BY <1>1, NeedsIs DEF AiRoutes, Serves

LEMMA ApiKeyRoutesServe ==
  /\ \A r \in {"apiKeys.list", "apiKeys.remove"} :
       Serves(Anyone, r)
  /\ Serves("vm.read", "apiKeys.createWithFirstScope")
<1>1. ApiKeyRoutes \subseteq Routes
  BY DEF Routes
<1> QED
  BY <1>1, NeedsIs DEF ApiKeyRoutes, Serves

LEMMA AccountRoutesServe ==
  /\ \A r \in {"auth.me", "auth.updateMe", "auth.changePassword", "auth.setupTotp",
               "auth.confirmTotp", "auth.disableTotp", "auth.sessions", "auth.revokeSession",
               "auth.revokeSessions"} :
       Serves(Anyone, r)
<1>1. AccountRoutes \subseteq Routes
  BY DEF Routes
<1> QED
  BY <1>1, NeedsIs DEF AccountRoutes, Serves

\* Only a few routes look at the state of an object.
Checked ==
  {"vms.clone", "vms.migrate", "vms.resize", "vms.resizeDisk", "vms.addPci",
   "roles.update", "roles.delete"}

LEMMA StateChecksAre ==
  \A c \in StateChecks :
    /\ c.request \in Checked
    /\ c.request \in {"vms.clone", "vms.resize", "vms.resizeDisk"} => c.states = {"stopped"}
    /\ c.request = "roles.update" => c.states = {"in use", "unused"}
    /\ c.request = "roles.delete" => c.states = {"unused"}
<1> SUFFICES ASSUME NEW c \in StateChecks
             PROVE  /\ c.request \in Checked
                    /\ c.request \in {"vms.clone", "vms.resize", "vms.resizeDisk"}
                         => c.states = {"stopped"}
                    /\ c.request = "roles.update" => c.states = {"in use", "unused"}
                    /\ c.request = "roles.delete" => c.states = {"unused"}
  OBVIOUS
<1>1. CASE c \in Requires({"stopped"}, {"vms.clone", "vms.migrate", "vms.resize", "vms.resizeDisk"})
  <2>1. c.states = {"stopped"}
        /\ c.request \in {"vms.clone", "vms.migrate", "vms.resize", "vms.resizeDisk"}
    BY <1>1, RequiresIs
  <2> QED
    BY <2>1 DEF Checked
<1>2. CASE c \in Requires(VmState \ {"running"}, {"vms.addPci"})
  <2>1. c.request \in {"vms.addPci"}
    BY <1>2, RequiresIs
  <2> QED
    BY <2>1 DEF Checked
<1>3. CASE c \in Requires({"in use", "unused"}, {"roles.update"})
  <2>1. c.states = {"in use", "unused"} /\ c.request \in {"roles.update"}
    BY <1>3, RequiresIs
  <2> QED
    BY <2>1 DEF Checked
<1>4. CASE c \in Requires({"unused"}, {"roles.delete"})
  <2>1. c.states = {"unused"} /\ c.request \in {"roles.delete"}
    BY <1>4, RequiresIs
  <2> QED
    BY <2>1 DEF Checked
<1> QED
  BY <1>1, <1>2, <1>3, <1>4 DEF StateChecks

\* A request passes whose permission the user has and whose route looks at no state.
LEMMA Unchecked ==
  ASSUME NEW p \in granted \cup {Anyone}, NEW r, Serves(p, r), r \notin Checked
  PROVE  Acceptable(r)
  BY StateChecksAre DEF Acceptable, Allowed, Serves

\* A request passes whose permission the user has and whose object is in the state
\* that the route wants.
LEMMA InState ==
  ASSUME NEW p \in granted \cup {Anyone}, NEW r, Serves(p, r),
         \/ r \in {"vms.clone", "vms.resize", "vms.resizeDisk"} /\ actual = "stopped"
         \/ r = "roles.update" /\ actual \in {"in use", "unused"}
         \/ r = "roles.delete" /\ actual = "unused"
  PROVE  Acceptable(r)
  BY StateChecksAre DEF Acceptable, Allowed, Serves

\* What a page offers is accepted when the user has the permission of the way that
\* led there; nobody has vm.manage.
Shown(o) == o.gate \in granted \cup {Anyone} /\ actual \in o.states

LEMMA LayoutAccepted ==
  ASSUME NEW o \in Layout, Shown(o)
  PROVE  Acceptable(o.request)
  BY OffersIs, LicenseRoutesServe, Unchecked
     DEF Layout, Shown, Checked

LEMMA AiPanelAccepted ==
  ASSUME NEW o \in AiPanel, Shown(o)
  PROVE  Acceptable(o.request) \/ o.request \in {"ai.chat", "ai.execute"}
  BY OffersIs
     DEF AiPanel, Shown

LEMMA CommandPaletteAccepted ==
  ASSUME NEW o \in CommandPalette, Shown(o)
  PROVE  Acceptable(o.request)
  BY OffersIs, ContainerRoutesServe, NodeRoutesServe, VmRoutesServe, Unchecked
     DEF CommandPalette, Shown, Checked

LEMMA DashboardPageAccepted ==
  ASSUME NEW o \in DashboardPage, Shown(o)
  PROVE  Acceptable(o.request) \/ o.request = "vms.list"
  BY OffersIs, ContainerRoutesServe, NodeRoutesServe, TaskRoutesServe, Unchecked
     DEF DashboardPage, Shown, Checked

LEMMA AiAssistantPageAccepted ==
  ASSUME NEW o \in AiAssistantPage, Shown(o)
  PROVE  Acceptable(o.request) \/ o.request \in {"ai.chat", "ai.execute"}
  BY OffersIs
     DEF AiAssistantPage, Shown

LEMMA VmListPageAccepted ==
  ASSUME "vm.read" \in granted, NEW o \in VmListPage, Shown(o)
  PROVE  Acceptable(o.request)
  BY OffersIs, NodeRoutesServe, VmRoutesServe, Unchecked
     DEF VmListPage, Shown, Checked

LEMMA CreateVmPageAccepted ==
  ASSUME "vm.create" \in granted, NEW o \in CreateVmPage, Shown(o)
  PROVE  Acceptable(o.request) \/ o.request \in {"nodes.list", "nodes.get", "networks.list"}
  BY OffersIs, StorageRoutesServe, VmRoutesServe, Unchecked
     DEF CreateVmPage, Shown, Checked

LEMMA VmReadsAccepted ==
  ASSUME "vm.manage" \notin granted, "vm.read" \in granted, NEW o \in VmReads, Shown(o)
  PROVE  Acceptable(o.request)
  BY OffersIs, BackupRoutesServe, NodeRoutesServe, VmDeviceRoutesServe, VmRoutesServe, Unchecked
     DEF VmReads, Shown, Checked, Anyone

LEMMA VmHeaderAccepted ==
  ASSUME NEW o \in VmHeader, Shown(o)
  PROVE  Acceptable(o.request)
  BY OffersIs, VmDeviceRoutesServe, VmRoutesServe, Unchecked
     DEF VmHeader, Shown, Checked

LEMMA VmConfigurationAccepted ==
  ASSUME "vm.manage" \notin granted, NEW o \in VmConfiguration, Shown(o)
  PROVE  Acceptable(o.request)
<1>1. CASE o \in Offers("vm.create", {"stopped"}, {"vms.resizeDisk"})
  <2>1. /\ o.gate = "vm.create" /\ o.states = {"stopped"}
        /\ o.request \in {"vms.resizeDisk"}
    BY <1>1, OffersIs
  <2> QED
    BY <2>1, VmRoutesServe, InState DEF Shown
<1>2. CASE o \notin Offers("vm.create", {"stopped"}, {"vms.resizeDisk"})
  BY <1>2, OffersIs DEF VmConfiguration, Shown, Anyone
<1> QED
  BY <1>1, <1>2

\* What a dialog offers to a user who may open it is allowed, and accepted while the
\* virtual machine is in the state in which it was opened.
LEMMA VmDialogsAccepted ==
  ASSUME "vm.manage" \notin granted, NEW o \in VmDialogs, o.gate \in granted
  PROVE  Allowed(o.request) /\ (actual \in o.states => Acceptable(o.request))
<1>1. CASE o \in Offers("vm.create", Movable, {"vms.clone", "vms.resize"})
  <2>1. /\ o.gate = "vm.create" /\ o.states = {"stopped"}
        /\ o.request \in {"vms.clone", "vms.resize"}
    BY <1>1, OffersIs DEF Movable
  <2>2. Serves("vm.create", o.request) /\ "vm.create" \in granted
    BY <2>1, VmRoutesServe
  <2>3. Allowed(o.request)
    BY <2>2 DEF Serves, Allowed
  <2>4. actual \in o.states => Acceptable(o.request)
    BY <2>1, <2>2, InState
  <2> QED
    BY <2>3, <2>4
<1>2. CASE o \in Offers("vm.manage", Movable, {"vms.migrate", "vms.addPci"})
  <2>1. o.gate = "vm.manage"
    BY <1>2, OffersIs
  <2> QED
    BY <2>1
<1> QED
  BY <1>1, <1>2 DEF VmDialogs

LEMMA VmPassthroughAccepted ==
  ASSUME "vm.manage" \notin granted, NEW o \in VmPassthrough, Shown(o)
  PROVE  Acceptable(o.request)
  BY OffersIs
     DEF VmPassthrough, Shown, Anyone

LEMMA VmBackupsAccepted ==
  ASSUME NEW o \in VmBackups, Shown(o)
  PROVE  Acceptable(o.request)
  BY OffersIs, BackupRoutesServe, Unchecked
     DEF VmBackups, Shown, Checked

LEMMA VmIsoAccepted ==
  ASSUME "vm.manage" \notin granted, NEW o \in VmIso, Shown(o)
  PROVE  Acceptable(o.request)
  BY OffersIs
     DEF VmIso, Shown, Anyone

LEMMA VmSnapshotsAccepted ==
  ASSUME NEW o \in VmSnapshots, Shown(o)
  PROVE  Acceptable(o.request)
  BY OffersIs, VmRoutesServe, Unchecked
     DEF VmSnapshots, Shown, Checked

LEMMA VmFirewallAccepted ==
  ASSUME NEW o \in VmFirewall, Shown(o)
  PROVE  Acceptable(o.request)
  BY OffersIs, VmDeviceRoutesServe, Unchecked
     DEF VmFirewall, Shown, Checked

LEMMA ContainersPageAccepted ==
  ASSUME "vm.read" \in granted, NEW o \in ContainersPage, Shown(o)
  PROVE  Acceptable(o.request) \/ o.request \in {"containers.start", "containers.stop"}
  BY OffersIs, ContainerRoutesServe, NodeRoutesServe, Unchecked
     DEF ContainersPage, Shown, Checked

LEMMA CreateContainerPageAccepted ==
  ASSUME "vm.create" \in granted, NEW o \in CreateContainerPage, Shown(o)
  PROVE  Acceptable(o.request) \/ o.request = "nodes.list"
  BY OffersIs, ContainerRoutesServe, Unchecked
     DEF CreateContainerPage, Shown, Checked

LEMMA ContainerDetailPageAccepted ==
  ASSUME "vm.manage" \notin granted, "vm.read" \in granted, NEW o \in ContainerDetailPage, Shown(o)
  PROVE  Acceptable(o.request) \/ o.request = "ai.diagnoseContainer"
  BY OffersIs, ContainerRoutesServe, Unchecked
     DEF ContainerDetailPage, Shown, Checked, Anyone

LEMMA NodesPageAccepted ==
  ASSUME "node.read" \in granted, NEW o \in NodesPage, Shown(o)
  PROVE  Acceptable(o.request)
  BY OffersIs, NodeRoutesServe, Unchecked
     DEF NodesPage, Shown, Checked

LEMMA NodeDetailPageAccepted ==
  ASSUME "node.read" \in granted, NEW o \in NodeDetailPage, Shown(o)
  PROVE  Acceptable(o.request) \/ o.request = "ai.diagnoseNode"
  BY OffersIs, NodeRoutesServe, Unchecked
     DEF NodeDetailPage, Shown, Checked

LEMMA NodePoolsAccepted ==
  ASSUME NEW o \in NodePools, Shown(o)
  PROVE  Acceptable(o.request)
  BY OffersIs, NodeRoutesServe, Unchecked
     DEF NodePools, Shown, Checked

LEMMA NetworksPageAccepted ==
  ASSUME "network.read" \in granted, NEW o \in NetworksPage, Shown(o)
  PROVE  Acceptable(o.request)
  BY OffersIs, NetworkRoutesServe, Unchecked
     DEF NetworksPage, Shown, Checked

LEMMA NetworkListForwardsAccepted ==
  ASSUME NEW o \in NetworkListForwards, Shown(o)
  PROVE  Acceptable(o.request)
  BY OffersIs, NetworkRoutesServe, Unchecked
     DEF NetworkListForwards, Shown, Checked

LEMMA NetworkListPoolsAccepted ==
  ASSUME NEW o \in NetworkListPools, Shown(o)
  PROVE  Acceptable(o.request)
  BY OffersIs, NetworkRoutesServe, Unchecked
     DEF NetworkListPools, Shown, Checked

LEMMA NetworkOverviewAccepted ==
  ASSUME "network.read" \in granted, NEW o \in NetworkOverview, Shown(o)
  PROVE  Acceptable(o.request)
  BY OffersIs, NetworkRoutesServe, Unchecked
     DEF NetworkOverview, Shown, Checked

LEMMA NetworkPoolsAccepted ==
  ASSUME NEW o \in NetworkPools, Shown(o)
  PROVE  Acceptable(o.request)
  BY OffersIs, NetworkRoutesServe, Unchecked
     DEF NetworkPools, Shown, Checked

LEMMA NetworkForwardsAccepted ==
  ASSUME NEW o \in NetworkForwards, Shown(o)
  PROVE  Acceptable(o.request)
  BY OffersIs, NetworkRoutesServe, Unchecked
     DEF NetworkForwards, Shown, Checked

LEMMA ClusterTabAccepted ==
  ASSUME NEW o \in ClusterTab, Shown(o)
  PROVE  Acceptable(o.request) \/ o.request \in {"nodes.list", "nodes.get"}
  BY OffersIs
     DEF ClusterTab, Shown

LEMMA TemplatesTabAccepted ==
  ASSUME NEW o \in TemplatesTab, Shown(o)
  PROVE  Acceptable(o.request)
  BY OffersIs, StorageRoutesServe, Unchecked
     DEF TemplatesTab, Shown, Checked

LEMMA IsosTabAccepted ==
  ASSUME NEW o \in IsosTab, Shown(o)
  PROVE  Acceptable(o.request)
  BY OffersIs, StorageRoutesServe, Unchecked
     DEF IsosTab, Shown, Checked

LEMMA TasksPageAccepted ==
  ASSUME "node.read" \in granted, NEW o \in TasksPage, Shown(o)
  PROVE  Acceptable(o.request)
  BY OffersIs, TaskRoutesServe, Unchecked
     DEF TasksPage, Shown, Checked

LEMMA AlertsPageAccepted ==
  ASSUME "node.read" \in granted, NEW o \in AlertsPage, Shown(o)
  PROVE  Acceptable(o.request)
  BY OffersIs, AlertRoutesServe, NodeRoutesServe, WebhookRoutesServe, Unchecked
     DEF AlertsPage, Shown, Checked

LEMMA WebhooksPageAccepted ==
  ASSUME "node.read" \in granted, NEW o \in WebhooksPage, Shown(o)
  PROVE  Acceptable(o.request)
  BY OffersIs, WebhookRoutesServe, Unchecked
     DEF WebhooksPage, Shown, Checked

LEMMA QuotaEditorAccepted ==
  ASSUME "user.manage" \in granted, NEW o \in QuotaEditor, Shown(o)
  PROVE  Acceptable(o.request)
  BY OffersIs, RoleRoutesServe, Unchecked
     DEF QuotaEditor, Shown, Checked

LEMMA UsersPageAccepted ==
  ASSUME "user.manage" \in granted, NEW o \in UsersPage, Shown(o)
  PROVE  Acceptable(o.request)
  BY OffersIs, UserRoutesServe, Unchecked
     DEF UsersPage, Shown, Checked

LEMMA RolesSectionAccepted ==
  ASSUME "user.manage" \in granted, NEW o \in RolesSection, Shown(o)
  PROVE  Acceptable(o.request)
<1>1. CASE o \in Offers(Anyone, {"in use", "unused"}, {"roles.update"})
  <2>1. o.states = {"in use", "unused"} /\ o.request \in {"roles.update"}
    <3> DEFINE S == {"in use", "unused"}
    <3> HIDE DEF S
    <3>1. o \in Offers(Anyone, S, {"roles.update"})
      BY <1>1 DEF S
    <3>2. o.states = S /\ o.request \in {"roles.update"}
      BY <3>1, OffersIs
    <3> QED
      BY <3>2 DEF S
  <2> QED
    BY <2>1, RoleRoutesServe, InState DEF Shown
<1>2. CASE o \in Offers(Anyone, {"unused"}, {"roles.delete"})
  <2>1. o.states = {"unused"} /\ o.request \in {"roles.delete"}
    BY <1>2, OffersIs
  <2> QED
    BY <2>1, RoleRoutesServe, InState DEF Shown
<1>3. CASE o \in Offers(Anyone, AnyState, {"roles.list", "roles.permissions", "roles.create"})
  BY <1>3, OffersIs, RoleRoutesServe, Unchecked DEF Checked
<1> QED
  BY <1>1, <1>2, <1>3 DEF RolesSection

LEMMA ApiKeysPageAccepted ==
  ASSUME NEW o \in ApiKeysPage, Shown(o)
  PROVE  Acceptable(o.request) \/ o.request = "apiKeys.createWithFirstScope"
  BY OffersIs, ApiKeyRoutesServe, Unchecked
     DEF ApiKeysPage, Shown, Checked

LEMMA AuditPageAccepted ==
  ASSUME "audit.read" \in granted, NEW o \in AuditPage, Shown(o)
  PROVE  Acceptable(o.request)
  BY OffersIs, AuditRoutesServe, Unchecked
     DEF AuditPage, Shown, Checked

LEMMA SystemSettingsPageAccepted ==
  ASSUME "user.manage" \in granted, NEW o \in SystemSettingsPage, Shown(o)
  PROVE  Acceptable(o.request)
  BY OffersIs, SettingRoutesServe, Unchecked
     DEF SystemSettingsPage, Shown, Checked

LEMMA ProfileSectionAccepted ==
  ASSUME NEW o \in ProfileSection, Shown(o)
  PROVE  Acceptable(o.request)
  BY OffersIs, AccountRoutesServe, Unchecked
     DEF ProfileSection, Shown, Checked

LEMMA PasswordSectionAccepted ==
  ASSUME NEW o \in PasswordSection, Shown(o)
  PROVE  Acceptable(o.request)
  BY OffersIs, AccountRoutesServe, Unchecked
     DEF PasswordSection, Shown, Checked

LEMMA TotpSectionAccepted ==
  ASSUME NEW o \in TotpSection, Shown(o)
  PROVE  Acceptable(o.request)
  BY OffersIs, AccountRoutesServe, Unchecked
     DEF TotpSection, Shown, Checked

LEMMA SessionsSectionAccepted ==
  ASSUME NEW o \in SessionsSection, Shown(o)
  PROVE  Acceptable(o.request)
  BY OffersIs, AccountRoutesServe, Unchecked
     DEF SessionsSection, Shown, Checked

LEMMA LicensePageAccepted ==
  ASSUME "license.read" \in granted, NEW o \in LicensePage, Shown(o)
  PROVE  Acceptable(o.request)
  BY OffersIs, LicenseRoutesServe, Unchecked
     DEF LicensePage, Shown, Checked

LEMMA VmDetailPageAccepted ==
  ASSUME "vm.manage" \notin granted, "vm.read" \in granted, NEW o \in VmDetailPage, Shown(o)
  PROVE  Acceptable(o.request)
<1>1. CASE o \in Offers(Anyone, AnyState, {"ai.diagnoseVm"})
  <2>1. o.request \in {"ai.diagnoseVm"}
    BY <1>1, OffersIs
  <2> QED
    BY <2>1, AiRoutesServe, Unchecked DEF Checked
<1>2. CASE o \notin Offers(Anyone, AnyState, {"ai.diagnoseVm"})
  BY <1>2, VmReadsAccepted, VmHeaderAccepted, VmConfigurationAccepted, VmPassthroughAccepted,
     VmBackupsAccepted, VmIsoAccepted, VmSnapshotsAccepted, VmFirewallAccepted
     DEF VmDetailPage
<1> QED
  BY <1>1, <1>2

\* What the menu and the links to a page have made sure of.
Led(q) ==
  \/ q \in {"Dashboard", "ApiKeys", "Settings", "Storage"}
  \/ q \in {"Ai", "Vms", "Vm", "Containers", "Container"} /\ "vm.read" \in granted
  \/ q \in {"NewVm", "NewContainer"} /\ "vm.create" \in granted
  \/ q \in {"Nodes", "Node", "Tasks", "Alerts", "Webhooks"} /\ "node.read" \in granted
  \/ q \in {"Networks", "Network"} /\ "network.read" \in granted
  \/ q \in {"Users", "SystemSettings"} /\ "user.manage" \in granted
  \/ q = "Audit" /\ "audit.read" \in granted
  \/ q = "License" /\ "license.read" \in granted

AccessInv ==
  /\ "vm.manage" \notin granted
  /\ settled => known = granted /\ Led(page)
  /\ dialogs \subseteq VmDialogs
  /\ \A o \in dialogs : o.gate \in known

LEMMA EntriesIs ==
  ASSUME NEW gate, NEW pages, NEW w \in Entries(gate, pages)
  PROVE  w.gate = gate /\ w.to \in pages
  BY DEF Entries

LEMMA LinksIs ==
  ASSUME NEW gate, NEW from, NEW to, NEW w \in Links(gate, from, to)
  PROVE  w.gate = gate /\ w.from \in from /\ w.to \in to
  BY DEF Links

LEMMA MenuLeads ==
  ASSUME "vm.manage" \notin granted, NEW w \in Menu, w.gate \in granted \cup {Anyone}
  PROVE  Led(w.to)
  BY EntriesIs DEF Menu, Led, Anyone

LEMMA LinksLead ==
  ASSUME NEW w \in PageLinks, w.gate \in granted \cup {Anyone}
  PROVE  Led(w.to)
  BY LinksIs DEF PageLinks, Led, Anyone

LEMMA NobodyManagesVms == ASSUME NEW g \in Grants PROVE "vm.manage" \notin g
<1>1. "vm.manage" \notin Permissions
  BY DEF Permissions
<1> QED
  BY <1>1, AccessAssumption

LEMMA AccessStep == AccessInv /\ [AccessNext]_accessVars => AccessInv'
<1> SUFFICES ASSUME AccessInv, [AccessNext]_accessVars
             PROVE  AccessInv'
  OBVIOUS
<1>1. CASE SignIn
  BY <1>1 DEF SignIn, Open, AccessInv, Led
<1>2. ASSUME NEW q \in Page, TypeAddress(q)
      PROVE  AccessInv'
  BY <1>2 DEF TypeAddress, Open, AccessInv, Led
<1>3. ASSUME NEW w \in Menu, ChooseInMenu(w)
      PROVE  AccessInv'
  <2>1. settled' => w.gate \in granted \cup {Anyone}
    BY <1>3 DEF ChooseInMenu, Hides
  <2>2. settled' => Led(w.to)
    BY <2>1, MenuLeads DEF AccessInv
  <2> QED
    BY <1>3, <2>2 DEF ChooseInMenu, Open, AccessInv, Led
<1>4. ASSUME NEW w \in PageLinks \cup CarelessLinks, FollowLink(w)
      PROVE  AccessInv'
  <2>1. settled' => w \in PageLinks /\ w.gate \in granted \cup {Anyone}
    BY <1>4 DEF FollowLink, Hides
  <2>2. settled' => Led(w.to)
    BY <2>1, LinksLead
  <2> QED
    BY <1>4, <2>2 DEF FollowLink, Open, AccessInv, Led
<1>a. ASSUME NEW o \in VmDialogs, OpenDialog(o) \/ CloseDialog(o)
      PROVE  AccessInv'
  <2>1. o.gate # Anyone
    <3>1. o.gate \in {"vm.create", "vm.manage"}
      BY OffersIs DEF VmDialogs
    <3> QED
      BY <3>1 DEF Anyone
  <2>2. OpenDialog(o) => o.gate \in known
    BY <2>1 DEF OpenDialog, Hides
  <2> QED
    BY <1>a, <2>2 DEF OpenDialog, CloseDialog, AccessInv, Led
<1>5. CASE RoleChanges
  BY <1>5, NobodyManagesVms DEF RoleChanges, AccessInv
<1>6. CASE ObjectChanges
  BY <1>6 DEF ObjectChanges, AccessInv, Led
<1>7. CASE Refetch
  BY <1>7 DEF Refetch, AccessInv, Led
<1>8. CASE UNCHANGED accessVars
  BY <1>8 DEF accessVars, AccessInv, Led
<1> QED
  BY <1>1, <1>2, <1>3, <1>4, <1>a, <1>5, <1>6, <1>7, <1>8 DEF AccessNext

\* What is offered on every page.
LEMMA EveryPageAccepted ==
  ASSUME NEW o \in Layout \cup AiPanel \cup CommandPalette, Shown(o), page \in Page
  PROVE  Acceptable(o.request) \/ <<page, o.request>> \in Gaps
  BY LayoutAccepted, AiPanelAccepted, CommandPaletteAccepted DEF Gaps

\* And on the page itself.
LEMMA PageAccepted ==
  ASSUME "vm.manage" \notin granted, Led(page), NEW o \in PageAt[page], Shown(o), page \in Page
  PROVE  Acceptable(o.request) \/ <<page, o.request>> \in Gaps
<1>1. CASE page = "Dashboard"
  <2>1. o \in DashboardPage
    BY <1>1 DEF PageAt
  <2> QED
    BY <1>1, <2>1, DashboardPageAccepted
       DEF Gaps, PageGaps
<1>2. CASE page = "Ai"
  <2>1. o \in AiAssistantPage
    BY <1>2 DEF PageAt
  <2> QED
    BY <1>2, <2>1, AiAssistantPageAccepted
       DEF Led, Gaps, PageGaps
<1>3. CASE page = "Vms"
  <2>1. o \in VmListPage
    BY <1>3 DEF PageAt
  <2> QED
    BY <1>3, <2>1, VmListPageAccepted
       DEF Led
<1>4. CASE page = "NewVm"
  <2>1. o \in CreateVmPage
    BY <1>4 DEF PageAt
  <2> QED
    BY <1>4, <2>1, CreateVmPageAccepted
       DEF Led, Gaps, PageGaps
<1>5. CASE page = "Vm"
  <2>1. o \in VmDetailPage
    BY <1>5 DEF PageAt
  <2> QED
    BY <1>5, <2>1, VmDetailPageAccepted
       DEF Led
<1>6. CASE page = "Containers"
  <2>1. o \in ContainersPage
    BY <1>6 DEF PageAt
  <2> QED
    BY <1>6, <2>1, ContainersPageAccepted
       DEF Led, Gaps, PageGaps
<1>7. CASE page = "NewContainer"
  <2>1. o \in CreateContainerPage
    BY <1>7 DEF PageAt
  <2> QED
    BY <1>7, <2>1, CreateContainerPageAccepted
       DEF Led, Gaps, PageGaps
<1>8. CASE page = "Container"
  <2>1. o \in ContainerDetailPage
    BY <1>8 DEF PageAt
  <2> QED
    BY <1>8, <2>1, ContainerDetailPageAccepted
       DEF Led, Gaps, PageGaps
<1>9. CASE page = "Nodes"
  <2>1. o \in NodesPage
    BY <1>9 DEF PageAt
  <2> QED
    BY <1>9, <2>1, NodesPageAccepted
       DEF Led
<1>10. CASE page = "Node"
  <2>1. o \in NodeDetailPage \cup NodePools
    BY <1>10 DEF PageAt
  <2> QED
    BY <1>10, <2>1, NodeDetailPageAccepted, NodePoolsAccepted
       DEF Led, Gaps, PageGaps
<1>11. CASE page = "Networks"
  <2>1. o \in NetworksPage \cup NetworkListForwards \cup NetworkListPools
    BY <1>11 DEF PageAt
  <2> QED
    BY <1>11, <2>1, NetworksPageAccepted, NetworkListForwardsAccepted, NetworkListPoolsAccepted
       DEF Led
<1>12. CASE page = "Network"
  <2>1. o \in NetworkOverview \cup NetworkPools \cup NetworkForwards
    BY <1>12 DEF PageAt
  <2> QED
    BY <1>12, <2>1, NetworkOverviewAccepted, NetworkPoolsAccepted, NetworkForwardsAccepted
       DEF Led
<1>13. CASE page = "Storage"
  <2>1. o \in ClusterTab \cup TemplatesTab \cup IsosTab
    BY <1>13 DEF PageAt
  <2> QED
    BY <1>13, <2>1, ClusterTabAccepted, TemplatesTabAccepted, IsosTabAccepted
       DEF Gaps, PageGaps
<1>14. CASE page = "Tasks"
  <2>1. o \in TasksPage
    BY <1>14 DEF PageAt
  <2> QED
    BY <1>14, <2>1, TasksPageAccepted
       DEF Led
<1>15. CASE page = "Alerts"
  <2>1. o \in AlertsPage
    BY <1>15 DEF PageAt
  <2> QED
    BY <1>15, <2>1, AlertsPageAccepted
       DEF Led
<1>16. CASE page = "Webhooks"
  <2>1. o \in WebhooksPage
    BY <1>16 DEF PageAt
  <2> QED
    BY <1>16, <2>1, WebhooksPageAccepted
       DEF Led
<1>17. CASE page = "Users"
  <2>1. o \in UsersPage \cup RolesSection \cup QuotaEditor
    BY <1>17 DEF PageAt
  <2> QED
    BY <1>17, <2>1, UsersPageAccepted, RolesSectionAccepted, QuotaEditorAccepted
       DEF Led
<1>18. CASE page = "ApiKeys"
  <2>1. o \in ApiKeysPage
    BY <1>18 DEF PageAt
  <2> QED
    BY <1>18, <2>1, ApiKeysPageAccepted
       DEF Gaps, PageGaps
<1>19. CASE page = "Audit"
  <2>1. o \in AuditPage
    BY <1>19 DEF PageAt
  <2> QED
    BY <1>19, <2>1, AuditPageAccepted
       DEF Led
<1>20. CASE page = "SystemSettings"
  <2>1. o \in SystemSettingsPage
    BY <1>20 DEF PageAt
  <2> QED
    BY <1>20, <2>1, SystemSettingsPageAccepted
       DEF Led
<1>21. CASE page = "License"
  <2>1. o \in LicensePage
    BY <1>21 DEF PageAt
  <2> QED
    BY <1>21, <2>1, LicensePageAccepted
       DEF Led
<1>22. CASE page = "Settings"
  <2>1. o \in ProfileSection \cup PasswordSection \cup TotpSection \cup SessionsSection
    BY <1>22 DEF PageAt
  <2> QED
    BY <1>22, <2>1, ProfileSectionAccepted, PasswordSectionAccepted, TotpSectionAccepted,
       SessionsSectionAccepted
<1> QED
  BY <1>1, <1>2, <1>3, <1>4, <1>5, <1>6, <1>7, <1>8, <1>9, <1>10, <1>11, <1>12, <1>13,
     <1>14, <1>15, <1>16, <1>17, <1>18, <1>19, <1>20, <1>21, <1>22 DEF Led

LEMMA PagesAre ==
  Page = {"Dashboard", "Ai", "Vms", "NewVm", "Vm", "Containers", "NewContainer", "Container",
          "Nodes", "Node", "Networks", "Network", "Storage", "Tasks", "Schedules", "Alerts",
          "Webhooks", "Users", "ApiKeys", "Audit", "SystemSettings", "License", "Settings"}
  BY DEF Page, PageAt

\* For every set of permissions that roles may have: where the menu and the links
\* lead, the pages offer what the backend accepts, but for the gaps and for a dialog that
\* was left open while the virtual machine changed its state.
THEOREM PagesAgree == AccessSpec => []OfferedIsAccepted
<1>1. AccessInit => AccessInv
  BY NobodyManagesVms DEF AccessInit, AccessInv, Led
<1>2. AccessInv => OfferedIsAccepted
  <2> SUFFICES ASSUME AccessInv, settled, displayed = actual, NEW o \in Offered
               PROVE  \/ Acceptable(o.request)
                      \/ <<page, o.request>> \in Gaps
                      \/ LeftOpen(o) /\ Allowed(o.request)
    BY DEF OfferedIsAccepted
  <2>1. "vm.manage" \notin granted /\ known = granted /\ Led(page)
    BY DEF AccessInv
  <2>6. CASE o \in dialogs
    <3>1. o \in VmDialogs /\ o.gate \in granted
      BY <2>1, <2>6 DEF AccessInv
    <3> QED
      BY <2>1, <2>6, <3>1, VmDialogsAccepted DEF LeftOpen
  <2> SUFFICES ASSUME o \notin dialogs
               PROVE  Acceptable(o.request) \/ <<page, o.request>> \in Gaps
    BY <2>6
  <2>2. Shown(o) /\ o \in OfPage(page)
    BY <2>1 DEF Offered, Hides, Shown
  <2>3. page \in Page
    BY <2>1, PagesAre DEF Led
  <2>4. CASE o \in PageAt[page]
    BY <2>1, <2>2, <2>3, <2>4, PageAccepted
  <2>5. CASE o \in Layout \cup AiPanel \cup CommandPalette
    BY <2>2, <2>3, <2>5, EveryPageAccepted
  <2> QED
    BY <2>2, <2>4, <2>5 DEF OfPage
<1> QED
  BY <1>1, <1>2, AccessStep, PTL DEF AccessSpec
=============================================================================
