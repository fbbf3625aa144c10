------------------------------ MODULE StaffProofs ------------------------------
(***************************************************************************)
(* Proofs about the staff account's two modules, StaffLeave and StaffBot.  *)
(*                                                                         *)
(* StaffLeave: requests, reserved days and roster agree after every        *)
(* commit, long sick leaves are recorded with their certificate, and what  *)
(* a manager decided stays - for every set of requests, workers, days and  *)
(* leaves, as long as the handlers that are known to race run alone        *)
(* (RacersAlone).  The inductive invariant ties what each handler has read *)
(* to what is committed by now (ReadInv): a version that is still current  *)
(* has the leave and the photo that were read, a handler that runs alone   *)
(* has read the row as it is.                                              *)
(*                                                                         *)
(* StaffBot: the group gets one report for each window and leave, what is  *)
(* checked off was posted, and a photo is in one place - for every set of  *)
(* slots, users and scenes.  The reports a slot has had and those on their *)
(* way are one more at most than the posts that were lost and the reports  *)
(* that were late, and none more when the slot is free (SlotsInv); a       *)
(* photo's places exclude each other (PhotoOnce).                          *)
(***************************************************************************)
EXTENDS StaffLeave, StaffBot, FiniteSetTheorems, SequenceTheorems, TLAPS

\* Half days and the roster page write what they read without asking again, and
\* a cancellation races an automatic approval (OnlyApprovedMarksOff shows how):
\* the handlers beside each other are of the other kinds.  Edits do not ask
\* again either; what they may spoil is theirs alone (stray).
RacersAlone ==
  \A a \in BOOLEAN :
    Overlapping[a] \subseteq
      {"submit", "edit", "decide", "certificate"} \cup IF a THEN {} ELSE {"cancel"}

-----------------------------------------------------------------------------
(* The inductive invariant. *)

\* LeavesAgree, day by day.
DayInv ==
  \A r \in Tracked :
    /\ request[r].status = "approved" => \E d \in Days : roster[d].by = r
    /\ \A d \in Days :
         /\ roster[d].by = r =>
              /\ request[r].status = "approved" /\ d \in Span(request[r].leave)
              /\ roster[d].portion = request[r].leave.portion
         /\ reserved[d] = r <=>
              \/ request[r].status = "pending" /\ d \in Span(request[r].leave)
              \/ request[r].status = "approved" /\ roster[d].by = r

\* A photo counts for the dates it was sent for.
CertificateInv ==
  \A r \in Tracked : LET row == request[r] IN
    row.certificate # NoPhoto => Span(row.certificate) = Span(row.leave)

Books == DayInv /\ CertificateInv /\ LongSickIsCertified

Open(row) == row.status \in {"none", "pending"}

\* Nobody has reviewed what is still to be reviewed.
ReviewInv == \A r \in Requests : Open(request[r]) => request[r].reviewer = "nobody"

\* The row a handler has read against the row there is.
SameIfCurrent(read, row) ==
  /\ read.version <= row.version
  /\ read.version = row.version /\ row.status = "pending" =>
       read.leave = row.leave /\ read.certificate = row.certificate

\* A cancellation knows of roster rows to delete if there are any.
KnowsRoster(read, row) ==
  IF AutoRecorded(read) THEN ~Open(row) /\ (AutoRecorded(row) => read.leave = row.leave)
                        ELSE ~AutoRecorded(row)

\* The kind of handler a write belongs to.
OpInv(j) ==
  /\ j.pc = "insert" /\ j.leave.portion = "half" => j.op = "submit half"
  /\ j.pc = "portion" => j.op = "submit half"
  /\ j.pc \in {"approved", "rejected"} => j.op = "decide"
  /\ j.pc \in {"cancel", "edit", "delete", "write"} => j.op = j.pc
  /\ j.pc \notin {"idle", "delete", "write"} => j.id \in Requests

ReadInv(j) ==
  /\ OpInv(j)
  /\ j.pc = "insert" => WellFormed(j.leave) /\ (j.leave.portion = "half" => request[j.id] = Absent)
  /\ j.pc = "portion" => request[j.id].status = "pending"
  /\ j.pc \in {"approved", "auto", "rejected"} =>
       j.id \in stray \/ SameIfCurrent(j.row, request[j.id])
  /\ j.pc \in {"approved", "auto"} => ~NeedsCertificate(j.row)
  /\ j.pc = "auto" => auto
  /\ j.pc = "cancel" => j.id \in stray \/ KnowsRoster(j.row, request[j.id])
  /\ j.pc = "edit" => WellFormed(j.leave) /\ j.row.status = "pending"
  /\ j.pc \in {"delete", "write"} => j.old = roster[j.day]

Overlaps(op) == op \in Overlapping[auto]
AloneInv ==
  \A v, w \in Workers :
    v # w /\ job[v].pc # "idle" /\ job[w].pc # "idle" => Overlaps(job[v].op) /\ Overlaps(job[w].op)

JobsInv == AloneInv /\ \A w \in Workers : ReadInv(job[w])

LeaveInv == TypeOK /\ Books /\ ReviewInv /\ JobsInv

-----------------------------------------------------------------------------
(* Rows and handlers. *)

Handlers == [op : Operations \cup {"none"}, pc : Pcs, id : Requests \cup {Nobody},
             leave : Leaves, row : Rows, day : Days, old : RosterRows]

LEMMA Constants ==
  /\ Absent \in Rows /\ Free \in RosterRows /\ AdminRow \in RosterRows /\ NoJob \in Handlers
  /\ Absent.status = "none" /\ Absent.version = 0 /\ Absent.reviewer = "nobody"
  /\ Absent.certificate = NoPhoto /\ WellFormed(Absent.leave)
  /\ Free.by = Nobody /\ AdminRow.by = Admin
  /\ NoJob.op = "none" /\ NoJob.pc = "idle"
<1>1. 1 \in Days
  BY LeaveAssumption DEF Days
<1>2. Blank \in Leaves /\ WellFormed(Blank)
  BY <1>1 DEF Blank, Leaves, Portions, WellFormed
<1>3. /\ Absent \in Rows /\ Absent.status = "none" /\ Absent.version = 0
      /\ Absent.reviewer = "nobody" /\ Absent.certificate = NoPhoto /\ WellFormed(Absent.leave)
  BY <1>2 DEF Absent, Rows
<1>4. Free \in RosterRows /\ AdminRow \in RosterRows /\ Free.by = Nobody /\ AdminRow.by = Admin
  BY DEF Free, AdminRow, RosterRows, Portions
<1>5. NoJob \in Handlers /\ NoJob.op = "none" /\ NoJob.pc = "idle"
  BY <1>1, <1>2, <1>3, <1>4 DEF NoJob, Handlers, Pcs
<1> QED
  BY <1>3, <1>4, <1>5

\* What each write makes of a row, field by field.
LEMMA Portioned ==
  ASSUME NEW wanted \in Leaves, NEW portion \in Portions
  PROVE  /\ AsPortion(wanted, portion) \in Leaves
         /\ AsPortion(wanted, portion).portion = portion
         /\ Span(AsPortion(wanted, portion)) = Span(wanted)
         /\ AsPortion(wanted, portion).from = wanted.from /\ AsPortion(wanted, portion).to = wanted.to
BY DEF AsPortion, Leaves, Span

LEMMA NewRow ==
  ASSUME NEW wanted \in Leaves
  PROVE  /\ New(wanted) \in Rows
         /\ New(wanted).status = "pending" /\ New(wanted).leave = wanted /\ New(wanted).version = 1
         /\ New(wanted).reviewer = "nobody" /\ New(wanted).certificate = NoPhoto
BY Constants DEF New, Rows

LEMMA RowsWritten ==
  ASSUME NEW row \in Rows
  PROVE  /\ Halved(row) \in Rows /\ Halved(row).leave = AsPortion(row.leave, "half")
         /\ Halved(row).status = row.status /\ Halved(row).version = row.version
         /\ Halved(row).reviewer = row.reviewer /\ Halved(row).certificate = row.certificate
         /\ Cancelled(row) \in Rows /\ Cancelled(row).status = "cancelled"
         /\ Cancelled(row).leave = row.leave /\ Cancelled(row).version = row.version + 1
         /\ Cancelled(row).reviewer = row.reviewer /\ Cancelled(row).certificate = NoPhoto
         /\ TakenOff(row) \in Rows /\ TakenOff(row).status = "cancelled"
         /\ TakenOff(row).leave = row.leave /\ TakenOff(row).version = row.version + 1
         /\ TakenOff(row).reviewer = "roster" /\ TakenOff(row).certificate = NoPhoto
         /\ Certified(row) \in Rows /\ Certified(row).status = row.status
         /\ Certified(row).leave = row.leave /\ Certified(row).version = row.version + 1
         /\ Certified(row).reviewer = row.reviewer /\ Certified(row).certificate = row.leave
<1>1. /\ Halved(row) \in Rows /\ Halved(row).leave = AsPortion(row.leave, "half")
      /\ Halved(row).status = row.status /\ Halved(row).version = row.version
      /\ Halved(row).reviewer = row.reviewer /\ Halved(row).certificate = row.certificate
  <2>1. AsPortion(row.leave, "half") \in Leaves
    BY Portioned DEF Rows, Portions
  <2> QED
    BY <2>1 DEF Halved, Rows
<1>2. /\ Cancelled(row) \in Rows /\ Cancelled(row).status = "cancelled"
      /\ Cancelled(row).leave = row.leave /\ Cancelled(row).version = row.version + 1
      /\ Cancelled(row).reviewer = row.reviewer /\ Cancelled(row).certificate = NoPhoto
  <2>1. PICK next \in Nat : next = row.version + 1
    BY DEF Rows
  <2> QED
    BY <2>1 DEF Cancelled, Rows
<1>3. PICK off : off = Cancelled(row)
  OBVIOUS
<1>4. /\ TakenOff(row) \in Rows /\ TakenOff(row).status = "cancelled"
      /\ TakenOff(row).leave = row.leave /\ TakenOff(row).version = row.version + 1
      /\ TakenOff(row).reviewer = "roster" /\ TakenOff(row).certificate = NoPhoto
  BY <1>2, <1>3 DEF TakenOff, Rows
<1>5. /\ Certified(row) \in Rows /\ Certified(row).status = row.status
      /\ Certified(row).leave = row.leave /\ Certified(row).version = row.version + 1
      /\ Certified(row).reviewer = row.reviewer /\ Certified(row).certificate = row.leave
  <2>1. PICK next \in Nat : next = row.version + 1
    BY DEF Rows
  <2> QED
    BY <2>1 DEF Certified, Rows
<1> QED
  BY <1>1, <1>2, <1>4, <1>5

LEMMA RowDecided ==
  ASSUME NEW row \in Rows, NEW status \in {"approved", "rejected"},
         NEW reviewer \in {"auto", "manager"}
  PROVE  /\ Decided(row, status, reviewer) \in Rows
         /\ Decided(row, status, reviewer).status = status
         /\ Decided(row, status, reviewer).leave = row.leave
         /\ Decided(row, status, reviewer).version = row.version + 1
         /\ Decided(row, status, reviewer).reviewer = reviewer
         /\ Decided(row, status, reviewer).certificate = row.certificate
<1>1. PICK next \in Nat : next = row.version + 1
  BY DEF Rows
<1> QED
  BY <1>1 DEF Decided, Rows

LEMMA RowEdited ==
  ASSUME NEW row \in Rows, NEW wanted \in Leaves, NEW version \in Nat,
         NEW sent \in Leaves \cup {NoPhoto}
  PROVE  /\ Edited(row, wanted, version, sent) \in Rows
         /\ Edited(row, wanted, version, sent).status = row.status
         /\ Edited(row, wanted, version, sent).leave = wanted
         /\ Edited(row, wanted, version, sent).version = version
         /\ Edited(row, wanted, version, sent).reviewer = row.reviewer
         /\ Edited(row, wanted, version, sent).certificate = sent
BY DEF Edited, Rows

-----------------------------------------------------------------------------
(* What the others do while a handler has read and not written. *)

\* A row as it was and as a write beside others leaves it.
Evolves(was, is) ==
  \/ is = was
  \/ /\ was.version < is.version
     /\ ~Open(was) => ~Open(is) /\ (AutoRecorded(is) => AutoRecorded(was) /\ is.leave = was.leave)
     /\ AutoRecorded(is) => AutoRecorded(was) \/ auto

LEMMA ReadKept ==
  ASSUME NEW t \in Handlers, ReadInv(t), Overlaps(t.op), RacersAlone,
         TypeOK, TypeOK', auto' = auto, stray \subseteq stray',
         \A r \in Requests \ stray' : Evolves(request[r], request'[r])
  PROVE  ReadInv(t)'
<1>1. auto \in BOOLEAN
  BY LeaveAssumption DEF TypeOK
<1>2. t.op \in {"submit", "edit", "decide", "certificate"} \cup IF auto THEN {} ELSE {"cancel"}
  BY <1>1 DEF RacersAlone, Overlaps
<1>3. /\ OpInv(t) /\ t.pc \notin {"portion", "delete", "write"}
      /\ t.pc = "insert" => t.leave.portion # "half"
      /\ t.pc = "cancel" => ~auto
  BY <1>2 DEF ReadInv, OpInv
<1>4. CASE t.pc \in {"approved", "auto", "rejected", "cancel"}
  <2>1. t.id \in Requests
    BY <1>4 DEF ReadInv, OpInv
  <2>2. PICK was \in Rows, is \in Rows, read \in Rows :
          was = request[t.id] /\ is = request'[t.id] /\ read = t.row
    BY <2>1 DEF TypeOK, Handlers
  <2>6. CASE t.id \in stray'
    BY <1>3, <1>4, <2>6 DEF ReadInv
  <2> SUFFICES ASSUME t.id \notin stray' PROVE ReadInv(t)'
    BY <2>6
  <2>3. Evolves(was, is) /\ t.id \notin stray
    BY <2>1, <2>2
  <2>4. SameIfCurrent(read, was) => SameIfCurrent(read, is)
    BY <2>2, <2>3 DEF SameIfCurrent, Evolves, Rows
  <2>5. ~auto /\ KnowsRoster(read, was) => KnowsRoster(read, is)
    BY <2>3 DEF KnowsRoster, Evolves, AutoRecorded
  <2> QED
    BY <1>3, <1>4, <2>2, <2>3, <2>4, <2>5 DEF ReadInv
<1>5. CASE t.pc \notin {"approved", "auto", "rejected", "cancel"}
  BY <1>3, <1>5 DEF ReadInv
<1> QED
  BY <1>4, <1>5

\* A step of handler w leaves it as t, and the others as they are.
LEMMA JobsKept ==
  ASSUME LeaveInv, RacersAlone, TypeOK', auto' = auto, stray \subseteq stray',
         NEW w \in Workers, job[w].pc # "idle",
         NEW t \in Handlers, t.pc # "idle" => t.op = job[w].op,
         job' = [job EXCEPT ![w] = t],
         Overlaps(job[w].op) => \A r \in Requests \ stray' : Evolves(request[r], request'[r]),
         ReadInv(t)'
  PROVE  JobsInv'
<1>1. job \in [Workers -> Handlers] /\ job'[w] = t
  BY DEF LeaveInv, TypeOK, Handlers
<1>2. \A v \in Workers \ {w} : job'[v] = job[v]
  BY <1>1
<1>3. AloneInv'
  BY <1>1, <1>2 DEF LeaveInv, JobsInv, AloneInv, Overlaps
<1>4. ASSUME NEW v \in Workers \ {w}
      PROVE  ReadInv(job[v])'
  <2>1. PICK s \in Handlers : s = job[v]
    BY <1>1
  <2>2. s = job'[v] /\ ReadInv(s)
    BY <1>2, <2>1 DEF LeaveInv, JobsInv
  <2>3. CASE s.pc = "idle"
    BY <2>2, <2>3 DEF ReadInv, OpInv
  <2>4. CASE s.pc # "idle"
    <3>1. Overlaps(s.op) /\ Overlaps(job[w].op)
      BY <2>1, <2>4 DEF LeaveInv, JobsInv, AloneInv
    <3>2. ReadInv(s)'
      BY <2>2, <3>1, ReadKept DEF LeaveInv
    <3> QED
      BY <2>2, <3>2
  <2> QED
    BY <2>3, <2>4
<1>5. ReadInv(job[w])'
  BY <1>1
<1> QED
  BY <1>3, <1>4, <1>5 DEF JobsInv

\* A handler that has read, and nothing is written.
LEMMA StartKeeps ==
  ASSUME LeaveInv, NEW w \in Workers, NEW op, Call(w, op), NEW t \in Handlers,
         t.op = op, t.pc # "idle", ReadInv(t),
         job' = [job EXCEPT ![w] = t], auto' = auto, calls' = calls + 1, NoWrite, stray' = stray
  PROVE  LeaveInv'
<1> USE DEF LeaveInv, NoWrite
<1>1. job \in [Workers -> Handlers] /\ job'[w] = t /\ job' \in [Workers -> Handlers]
  BY DEF TypeOK, Handlers
<1>2. \A v \in Workers \ {w} : job'[v] = job[v]
  BY <1>1
<1>3. TypeOK'
  BY <1>1, LeaveAssumption DEF TypeOK, Handlers, Call
<1>4. AloneInv'
  BY <1>1, <1>2 DEF JobsInv, AloneInv, Overlaps, Call, Busy
<1>5. \A v \in Workers : ReadInv(job[v])'
  <2>1. ASSUME NEW v \in Workers, NEW s, s = job'[v], ReadInv(s)
        PROVE  ReadInv(job[v])'
    BY <2>1 DEF ReadInv
  <2> QED
    BY <1>1, <1>2, <2>1 DEF JobsInv
<1>6. Books' /\ ReviewInv'
  BY DEF Books, DayInv, CertificateInv, LongSickIsCertified, ReviewInv, Tracked
<1> QED
  BY <1>3, <1>4, <1>5, <1>6 DEF JobsInv

-----------------------------------------------------------------------------
(* The reads. *)

LEMMA Starting ==
  ASSUME NEW j \in Handlers, NEW op \in Operations, NEW t, t = [j EXCEPT !.op = op]
  PROVE  /\ t \in Handlers /\ t.op = op /\ t.pc = j.pc /\ t.id = j.id /\ t.leave = j.leave
         /\ t.row = j.row /\ t.day = j.day /\ t.old = j.old
BY DEF Handlers

LEMMA ReadSubmitKeeps ==
  ASSUME LeaveInv, NEW w \in Workers, NEW r \in Requests, NEW wanted \in Filed,
         ReadSubmit(w, r, wanted)
  PROVE  LeaveInv'
<1>1. PICK op : op = SubmitOf(wanted)
  OBVIOUS
<1>2. Call(w, op) /\ op \in Operations /\ wanted \in Leaves /\ WellFormed(wanted)
  BY <1>1, LeaveAssumption DEF ReadSubmit, Call
<1>3. wanted.portion = "half" => op = "submit half"
  BY <1>1 DEF SubmitOf
<1>4. CASE request[r] = Absent
  <2>1. PICK j : j = [NoJob EXCEPT !.pc = "insert", !.id = r, !.leave = wanted]
    OBVIOUS
  <2>2. j \in Handlers /\ j.pc = "insert" /\ j.id = r /\ j.leave = wanted
    BY <1>2, <2>1, Constants DEF Handlers, Pcs
  <2>3. PICK t : t = [j EXCEPT !.op = op]
    OBVIOUS
  <2>4. Starts(w, op, j)
    BY <1>1, <1>4, <2>1 DEF ReadSubmit
  <2>5. t \in Handlers /\ t.op = op /\ t.pc = "insert" /\ t.id = r /\ t.leave = wanted
    BY <1>2, <2>2, <2>3, Starting
  <2>6. ReadInv(t)
    BY <1>2, <1>3, <1>4, <2>5 DEF ReadInv, OpInv
  <2> QED
    BY <1>2, <2>3, <2>4, <2>5, <2>6, StartKeeps DEF Starts, Run, Goes
<1>5. CASE request[r] # Absent
  <2>1. PICK j : j = [NoJob EXCEPT !.pc = "approve", !.id = r]
    OBVIOUS
  <2>2. j \in Handlers /\ j.pc = "approve" /\ j.id = r
    BY <2>1, Constants DEF Handlers, Pcs
  <2>3. PICK t : t = [j EXCEPT !.op = op]
    OBVIOUS
  <2>4. Starts(w, op, j)
    BY <1>1, <1>5, <2>1 DEF ReadSubmit
  <2>5. t \in Handlers /\ t.op = op /\ t.pc = "approve" /\ t.id = r
    BY <1>2, <2>2, <2>3, Starting
  <2>6. ReadInv(t)
    BY <2>5 DEF ReadInv, OpInv
  <2> QED
    BY <1>2, <2>3, <2>4, <2>5, <2>6, StartKeeps DEF Starts, Run, Goes
<1> QED
  BY <1>4, <1>5

LEMMA ReadDecideKeeps ==
  ASSUME LeaveInv, NEW w \in Workers, NEW r \in Requests,
         NEW verdict \in {"approved", "rejected"}, ReadDecide(w, r, verdict)
  PROVE  LeaveInv'
<1>1. Call(w, "decide") /\ "decide" \in Operations
  BY DEF ReadDecide, Call
<1>2. PICK row \in Rows : row = request[r]
  BY DEF LeaveInv, TypeOK
<1>3. PICK version \in 1 .. row.version :
        Starts(w, "decide", [NoJob EXCEPT !.pc = verdict, !.id = r,
                               !.row = [request[r] EXCEPT !.version = version]])
  BY <1>2 DEF ReadDecide
<1>4. PICK read : read = [row EXCEPT !.version = version]
  OBVIOUS
<1>5. /\ read \in Rows /\ read.version = version /\ read.leave = row.leave
      /\ read.certificate = row.certificate
  BY <1>2, <1>3, <1>4 DEF Rows
<1>6. PICK j : j = [NoJob EXCEPT !.pc = verdict, !.id = r, !.row = read]
  OBVIOUS
<1>7. j \in Handlers /\ j.pc = verdict /\ j.id = r /\ j.row = read
  BY <1>5, <1>6, Constants DEF Handlers, Pcs
<1>8. PICK t : t = [j EXCEPT !.op = "decide"]
  OBVIOUS
<1>9. t \in Handlers /\ t.op = "decide" /\ t.pc = verdict /\ t.id = r /\ t.row = read
  BY <1>1, <1>7, <1>8, Starting
<1>10. verdict = "approved" => ~NeedsCertificate(read)
  BY <1>2, <1>5 DEF ReadDecide, NeedsCertificate
<1>11. SameIfCurrent(read, row)
  BY <1>2, <1>3, <1>5 DEF SameIfCurrent, Rows
<1>12. ReadInv(t)
  BY <1>2, <1>9, <1>10, <1>11 DEF ReadInv, OpInv
<1> QED
  BY <1>1, <1>2, <1>3, <1>4, <1>6, <1>8, <1>9, <1>12, StartKeeps DEF Starts, Run, Goes

LEMMA ReadCancelKeeps ==
  ASSUME LeaveInv, NEW w \in Workers, NEW r \in Requests, ReadCancel(w, r)
  PROVE  LeaveInv'
<1>1. Call(w, "cancel") /\ "cancel" \in Operations
  BY DEF ReadCancel, Call
<1>2. PICK row \in Rows : row = request[r]
  BY DEF LeaveInv, TypeOK
<1>3. PICK j : j = [NoJob EXCEPT !.pc = "cancel", !.id = r, !.row = row]
  OBVIOUS
<1>4. j \in Handlers /\ j.pc = "cancel" /\ j.id = r /\ j.row = row
  BY <1>2, <1>3, Constants DEF Handlers, Pcs
<1>5. PICK t : t = [j EXCEPT !.op = "cancel"]
  OBVIOUS
<1>6. t \in Handlers /\ t.op = "cancel" /\ t.pc = "cancel" /\ t.id = r /\ t.row = row
  BY <1>1, <1>4, <1>5, Starting
<1>7. ReadInv(t)
  <2>1. KnowsRoster(row, row)
    BY <1>2 DEF ReadCancel, KnowsRoster, AutoRecorded, Open
  <2> QED
    BY <1>2, <1>6, <2>1 DEF ReadInv, OpInv
<1> QED
  BY <1>1, <1>2, <1>3, <1>5, <1>6, <1>7, StartKeeps DEF ReadCancel, Starts, Run, Goes

LEMMA ReadEditKeeps ==
  ASSUME LeaveInv, NEW w \in Workers, NEW r \in Requests, NEW wanted \in Filed,
         ReadEdit(w, r, wanted)
  PROVE  LeaveInv'
<1>1. Call(w, "edit") /\ "edit" \in Operations /\ wanted \in Leaves /\ WellFormed(wanted)
  BY LeaveAssumption DEF ReadEdit, Call
<1>2. PICK row \in Rows : row = request[r]
  BY DEF LeaveInv, TypeOK
<1>3. CASE row.leave = wanted
  <2>1. PICK j : j = [NoJob EXCEPT !.pc = "approve", !.id = r]
    OBVIOUS
  <2>2. j \in Handlers /\ j.pc = "approve" /\ j.id = r
    BY <2>1, Constants DEF Handlers, Pcs
  <2>3. PICK t : t = [j EXCEPT !.op = "edit"]
    OBVIOUS
  <2>4. t \in Handlers /\ t.op = "edit" /\ t.pc = "approve" /\ t.id = r
    BY <1>1, <2>2, <2>3, Starting
  <2>5. ReadInv(t)
    BY <2>4 DEF ReadInv, OpInv
  <2> QED
    BY <1>1, <1>2, <1>3, <2>1, <2>3, <2>4, <2>5, StartKeeps DEF ReadEdit, Starts, Run, Goes
<1>4. CASE row.leave # wanted
  <2>1. PICK j : j = [NoJob EXCEPT !.pc = "edit", !.id = r, !.leave = wanted, !.row = row]
    OBVIOUS
  <2>2. j \in Handlers /\ j.pc = "edit" /\ j.id = r /\ j.leave = wanted /\ j.row = row
    BY <1>1, <1>2, <2>1, Constants DEF Handlers, Pcs
  <2>3. PICK t : t = [j EXCEPT !.op = "edit"]
    OBVIOUS
  <2>4. /\ t \in Handlers /\ t.op = "edit" /\ t.pc = "edit" /\ t.id = r
        /\ t.leave = wanted /\ t.row = row
    BY <1>1, <2>2, <2>3, Starting
  <2>5. ReadInv(t)
    BY <1>1, <1>2, <2>4 DEF ReadInv, OpInv, ReadEdit
  <2> QED
    BY <1>1, <1>2, <1>4, <2>1, <2>3, <2>4, <2>5, StartKeeps DEF ReadEdit, Starts, Run, Goes
<1> QED
  BY <1>3, <1>4

LEMMA ReadCertificateKeeps ==
  ASSUME LeaveInv, NEW w \in Workers, NEW r \in Requests, ReadCertificate(w, r)
  PROVE  LeaveInv'
<1>1. Call(w, "certificate") /\ "certificate" \in Operations
  BY DEF ReadCertificate, Call
<1>2. PICK j : j = [NoJob EXCEPT !.pc = "certificate", !.id = r]
  OBVIOUS
<1>3. j \in Handlers /\ j.pc = "certificate" /\ j.id = r
  BY <1>2, Constants DEF Handlers, Pcs
<1>4. PICK t : t = [j EXCEPT !.op = "certificate"]
  OBVIOUS
<1>5. t \in Handlers /\ t.op = "certificate" /\ t.pc = "certificate" /\ t.id = r
  BY <1>1, <1>3, <1>4, Starting
<1>6. ReadInv(t)
  BY <1>5 DEF ReadInv, OpInv
<1> QED
  BY <1>1, <1>2, <1>4, <1>5, <1>6, StartKeeps DEF ReadCertificate, Starts, Run, Goes

LEMMA ReadRosterKeeps ==
  ASSUME LeaveInv, NEW w \in Workers, NEW d \in Days, NEW op \in {"delete", "write"},
         ReadRoster(w, d, op)
  PROVE  LeaveInv'
<1>1. Call(w, op) /\ op \in Operations
  BY DEF ReadRoster, Call
<1>2. PICK old \in RosterRows : old = roster[d]
  BY DEF LeaveInv, TypeOK
<1>3. PICK j : j = [NoJob EXCEPT !.pc = op, !.day = d, !.old = old]
  OBVIOUS
<1>4. j \in Handlers /\ j.pc = op /\ j.day = d /\ j.old = old
  BY <1>2, <1>3, Constants DEF Handlers, Pcs
<1>5. PICK t : t = [j EXCEPT !.op = op]
  OBVIOUS
<1>6. t \in Handlers /\ t.op = op /\ t.pc = op /\ t.day = d /\ t.old = old
  BY <1>1, <1>4, <1>5, Starting
<1>7. ReadInv(t)
  BY <1>2, <1>6 DEF ReadInv, OpInv
<1> QED
  BY <1>1, <1>2, <1>3, <1>5, <1>6, <1>7, StartKeeps DEF ReadRoster, Starts, Run, Goes

-----------------------------------------------------------------------------
(* Steps of a handler that write nothing. *)

LEMMA NoWriteKeeps ==
  ASSUME LeaveInv, RacersAlone, NEW w \in Workers, job[w].pc # "idle",
         NEW t \in Handlers, t.pc # "idle" => t.op = job[w].op, ReadInv(t),
         job' = [job EXCEPT ![w] = t], auto' = auto, calls' = calls, NoWrite, stray' = stray
  PROVE  LeaveInv'
<1> USE DEF LeaveInv, NoWrite
<1>1. job' \in [Workers -> Handlers]
  BY DEF TypeOK, Handlers
<1>2. TypeOK'
  BY <1>1 DEF TypeOK, Handlers
<1>3. ReadInv(t)'
  BY DEF ReadInv
<1>4. JobsInv'
  BY <1>2, <1>3, JobsKept DEF Evolves
<1>5. Books' /\ ReviewInv'
  BY DEF Books, DayInv, CertificateInv, LongSickIsCertified, ReviewInv, Tracked
<1> QED
  BY <1>2, <1>4, <1>5

LEMMA NoJobReads == ReadInv(NoJob)
BY Constants DEF ReadInv, OpInv

LEMMA EndKeeps ==
  ASSUME LeaveInv, RacersAlone, NEW w \in Workers, job[w].pc # "idle",
         Done(w), calls' = calls, NoWrite
  PROVE  LeaveInv'
BY Constants, NoJobReads, NoWriteKeeps DEF Done, Run, Goes

LEMMA Onwards ==
  ASSUME NEW t \in Handlers, NEW pc \in Pcs, NEW u, u = [t EXCEPT !.pc = pc]
  PROVE  /\ u \in Handlers /\ u.pc = pc /\ u.op = t.op /\ u.id = t.id
         /\ u.leave = t.leave /\ u.row = t.row
BY DEF Handlers

LEMMA ReadAutoApproveKeeps ==
  ASSUME LeaveInv, RacersAlone, NEW w \in Workers, ReadAutoApprove(w)
  PROVE  LeaveInv'
<1>1. PICK t \in Handlers : t = job[w]
  BY DEF LeaveInv, TypeOK, Handlers
<1>2. t.pc = "approve" /\ t.id \in Requests
  BY <1>1 DEF LeaveInv, JobsInv, ReadInv, OpInv, ReadAutoApprove
<1>3. PICK row \in Rows : row = request[t.id]
  BY <1>2 DEF LeaveInv, TypeOK
<1>4. CASE auto /\ row.status = "pending" /\ ~NeedsCertificate(row)
  <2>1. PICK u : u = [t EXCEPT !.pc = "auto", !.row = row]
    OBVIOUS
  <2>2. u \in Handlers /\ u.pc = "auto" /\ u.op = t.op /\ u.id = t.id /\ u.row = row
    BY <2>1 DEF Handlers, Pcs
  <2>3. SameIfCurrent(row, row)
    BY DEF SameIfCurrent, Rows
  <2>4. ReadInv(u)
    BY <1>2, <1>3, <1>4, <2>2, <2>3 DEF ReadInv, OpInv
  <2>5. job' = [job EXCEPT ![w] = u] /\ auto' = auto /\ stray' = stray /\ calls' = calls /\ NoWrite
    BY <1>1, <1>3, <1>4, <2>1 DEF ReadAutoApprove, Run, Goes
  <2> QED
    BY <1>1, <1>2, <2>2, <2>4, <2>5, NoWriteKeeps
<1>5. CASE ~(auto /\ row.status = "pending" /\ ~NeedsCertificate(row))
  BY <1>1, <1>2, <1>3, <1>5, EndKeeps DEF ReadAutoApprove
<1> QED
  BY <1>4, <1>5

-----------------------------------------------------------------------------
(* The writes. *)

\* The row of one request is replaced, the others stay.
LEMMA OneRow ==
  ASSUME TypeOK, NEW r \in Requests, NEW row \in Rows, WellFormed(row.leave),
         request' = [request EXCEPT ![r] = row]
  PROVE  /\ request' \in [Requests -> Rows] /\ request'[r] = row
         /\ \A s \in Requests \ {r} : request'[s] = request[s]
         /\ \A s \in Requests : WellFormed(request'[s].leave)
BY DEF TypeOK

\* What is written to a request that is not tracked disturbs no other.
LEMMA StrayKeeps ==
  ASSUME LeaveInv, NEW r \in Requests, stray \subseteq stray', r \in stray',
         \A s \in Requests \ {r} : request'[s] = request[s],
         \A s \in Requests \ {r}, d \in Days :
           /\ roster'[d].by = s <=> roster[d].by = s
           /\ roster'[d].by = s => roster'[d] = roster[d]
           /\ reserved'[d] = s <=> reserved[d] = s
  PROVE  Books'
<1>1. \A s \in Tracked' : s \in Tracked /\ s \in Requests \ {r}
  BY DEF Tracked
<1>2. DayInv'
  BY <1>1 DEF LeaveInv, Books, DayInv
<1>3. CertificateInv' /\ LongSickIsCertified'
  BY <1>1 DEF LeaveInv, Books, CertificateInv, LongSickIsCertified
<1> QED
  BY <1>2, <1>3 DEF Books

LEMMA InsertKeeps ==
  ASSUME LeaveInv, RacersAlone, NEW w \in Workers, Insert(w)
  PROVE  LeaveInv'
<1>1. PICK t \in Handlers : t = job[w]
  BY DEF LeaveInv, TypeOK, Handlers
<1>2. t.pc = "insert" /\ t.id \in Requests /\ t.leave \in Leaves
  BY <1>1 DEF LeaveInv, JobsInv, ReadInv, OpInv, Insert, Handlers
<1>3. /\ WellFormed(t.leave)
      /\ t.leave.portion = "half" => request[t.id] = Absent
      /\ t.leave.portion = "half" => t.op = "submit half"
  BY <1>1, <1>2 DEF LeaveInv, JobsInv, ReadInv, OpInv
<1>4. PICK wanted : wanted = AsPortion(t.leave, "full")
  OBVIOUS
<1>5. wanted \in Leaves /\ WellFormed(wanted) /\ Span(wanted) = Span(t.leave)
  BY <1>2, <1>3, <1>4, Portioned DEF Portions, WellFormed
<1>6. PICK half : half = (t.leave.portion = "half")
  OBVIOUS
<1>7. PICK pc \in Pcs : pc = IF half THEN "portion" ELSE "approve"
  BY DEF Pcs
<1>8. PICK u : u = [t EXCEPT !.pc = pc]
  OBVIOUS
<1>9. u \in Handlers /\ u.pc = pc /\ u.op = t.op /\ u.id = t.id
  BY <1>8, Onwards
<1>10. OpInv(u)
  BY <1>2, <1>3, <1>6, <1>7, <1>9 DEF OpInv
<1>11. /\ UNCHANGED <<roster, calls>>
       /\ \/ /\ request[t.id] = Absent /\ NotReserved(wanted, Nobody)
             /\ request' = [request EXCEPT ![t.id] = New(wanted)]
             /\ reserved' = [d \in Days |-> IF d \in Span(wanted) THEN t.id ELSE reserved[d]]
             /\ Run(w, u)
          \/ /\ request[t.id] # Absent \/ ~NotReserved(wanted, Nobody)
             /\ \/ request[t.id] # Absent /\ Run(w, u)
                \/ Done(w)
             /\ UNCHANGED <<request, reserved>>
  BY <1>1, <1>4, <1>6, <1>7, <1>8 DEF Insert
<1>12. CASE /\ request[t.id] # Absent \/ ~NotReserved(wanted, Nobody)
            /\ \/ request[t.id] # Absent /\ Run(w, u)
               \/ Done(w)
            /\ UNCHANGED <<request, reserved>>
  <2>1. CASE request[t.id] # Absent /\ Run(w, u)
    <3>1. ReadInv(u)
      BY <1>3, <1>6, <1>7, <1>9, <1>10, <2>1 DEF ReadInv
    <3> QED
      BY <1>1, <1>2, <1>9, <1>11, <1>12, <2>1, <3>1, NoWriteKeeps DEF Run, Goes, NoWrite
  <2>2. CASE Done(w)
    BY <1>1, <1>2, <1>11, <1>12, <2>2, EndKeeps DEF NoWrite
  <2> QED
    BY <1>12, <2>1, <2>2
<1>13. CASE /\ request[t.id] = Absent /\ NotReserved(wanted, Nobody)
            /\ request' = [request EXCEPT ![t.id] = New(wanted)]
            /\ reserved' = [d \in Days |-> IF d \in Span(wanted) THEN t.id ELSE reserved[d]]
            /\ Run(w, u)
  <2>1. PICK row \in Rows :
          /\ row = New(wanted)
          /\ row.status = "pending" /\ row.leave = wanted /\ row.version = 1
          /\ row.reviewer = "nobody" /\ row.certificate = NoPhoto
    BY <1>5, NewRow
  <2>2. /\ request' \in [Requests -> Rows] /\ request'[t.id] = row
        /\ \A s \in Requests \ {t.id} : request'[s] = request[s]
        /\ \A s \in Requests : WellFormed(request'[s].leave)
    BY <1>2, <1>5, <1>13, <2>1, OneRow DEF LeaveInv
  <2>3. job' = [job EXCEPT ![w] = u] /\ auto' = auto /\ stray' = stray
    BY <1>13 DEF Run, Goes
  <2>4. TypeOK'
    BY <1>2, <1>9, <1>11, <1>13, <2>2, <2>3 DEF LeaveInv, TypeOK, Handlers
  <2>5. \A r \in Requests : Evolves(request[r], request'[r])
    <3>1. Evolves(Absent, row)
      BY <2>1, Constants DEF Evolves, Open, AutoRecorded
    <3> QED
      BY <1>2, <1>13, <2>2, <3>1 DEF Evolves
  <2>6. ReadInv(u)'
    BY <1>2, <1>7, <1>9, <1>10, <2>1, <2>2 DEF ReadInv, OpInv
  <2>7. JobsInv'
    BY <1>1, <1>2, <1>9, <2>3, <2>4, <2>5, <2>6, JobsKept
  <2>8. ReviewInv'
    BY <2>1, <2>2 DEF LeaveInv, ReviewInv
  <2>9. \A s \in Requests : s # Nobody
    BY LeaveAssumption
  <2>10. \A d \in Days : reserved'[d] = IF d \in Span(wanted) THEN t.id ELSE reserved[d]
    BY <1>13
  <2>11. \A d \in Span(wanted) : reserved[d] = Nobody
    BY <1>13 DEF NotReserved
  <2>12. CASE t.id \in stray
    <3>1. Books'
      BY <1>2, <1>11, <2>2, <2>3, <2>9, <2>10, <2>11, <2>12, StrayKeeps
    <3> QED
      BY <2>4, <2>7, <2>8, <3>1 DEF LeaveInv
  <2>13. CASE t.id \notin stray
    <3>1. t.id \in Tracked /\ Tracked' = Tracked /\ Tracked \subseteq Requests
      BY <1>2, <2>3, <2>13 DEF Tracked
    <3>2. CertificateInv' /\ LongSickIsCertified'
      BY <2>1, <2>2, <3>1 DEF LeaveInv, Books, CertificateInv, LongSickIsCertified
    <3>3. \A d \in Days : roster[d].by # t.id /\ reserved[d] # t.id
      BY <1>2, <1>13, <3>1, Constants DEF LeaveInv, Books, DayInv
    <3>4. DayInv'
      BY <1>2, <1>11, <2>1, <2>2, <2>9, <2>10, <2>11, <3>1, <3>3 DEF LeaveInv, Books, DayInv
    <3> QED
      BY <2>4, <2>7, <2>8, <3>2, <3>4 DEF LeaveInv, Books
  <2> QED
    BY <2>12, <2>13
<1> QED
  BY <1>11, <1>12, <1>13

\* Who runs alone.
LEMMA Racers ==
  ASSUME LeaveInv, RacersAlone
  PROVE  /\ \A op \in {"submit half", "delete", "write"} : ~Overlaps(op)
         /\ Overlaps("cancel") => ~auto
<1>1. auto \in BOOLEAN
  BY LeaveAssumption DEF LeaveInv, TypeOK
<1> QED
  BY <1>1 DEF RacersAlone, Overlaps

LEMMA SetPortionKeeps ==
  ASSUME LeaveInv, RacersAlone, NEW w \in Workers, SetPortion(w)
  PROVE  LeaveInv'
<1>1. PICK t \in Handlers : t = job[w]
  BY DEF LeaveInv, TypeOK, Handlers
<1>2. /\ t.pc = "portion" /\ t.id \in Requests /\ t.op = "submit half"
      /\ request[t.id].status = "pending"
  BY <1>1 DEF LeaveInv, JobsInv, ReadInv, OpInv, SetPortion
<1>3. PICK was \in Rows : was = request[t.id]
  BY <1>2 DEF LeaveInv, TypeOK
<1>4. PICK row \in Rows :
        /\ row = Halved(was) /\ row.leave = AsPortion(was.leave, "half")
        /\ row.status = "pending" /\ row.reviewer = was.reviewer /\ row.certificate = was.certificate
  <2>1. /\ Halved(was) \in Rows /\ Halved(was).leave = AsPortion(was.leave, "half")
        /\ Halved(was).status = was.status /\ Halved(was).reviewer = was.reviewer
        /\ Halved(was).certificate = was.certificate
    BY RowsWritten
  <2> QED
    BY <1>2, <1>3, <2>1
<1>5. was.leave \in Leaves /\ row.leave \in Leaves /\ Span(row.leave) = Span(was.leave)
  BY <1>4, Portioned DEF Rows, Portions
<1>6. PICK u : u = [t EXCEPT !.pc = "approve"]
  OBVIOUS
<1>7. u \in Handlers /\ u.pc = "approve" /\ u.op = t.op /\ u.id = t.id
  BY <1>6, Onwards DEF Pcs
<1>8. /\ request' = [request EXCEPT ![t.id] = row] /\ WellFormed(row.leave)
      /\ job' = [job EXCEPT ![w] = u] /\ auto' = auto /\ stray' = stray /\ UNCHANGED <<reserved, roster, calls>>
  BY <1>1, <1>3, <1>4, <1>6 DEF SetPortion, Run, Goes
<1>9. /\ request' \in [Requests -> Rows] /\ request'[t.id] = row
      /\ \A s \in Requests \ {t.id} : request'[s] = request[s]
      /\ \A s \in Requests : WellFormed(request'[s].leave)
  BY <1>2, <1>8, OneRow DEF LeaveInv
<1>10. TypeOK'
  BY <1>7, <1>8, <1>9 DEF LeaveInv, TypeOK, Handlers
<1>11. ReadInv(u)'
  BY <1>2, <1>7 DEF ReadInv, OpInv
<1>12. JobsInv'
  BY <1>1, <1>2, <1>7, <1>8, <1>10, <1>11, JobsKept, Racers
<1>13. ReviewInv'
  BY <1>2, <1>3, <1>4, <1>9 DEF LeaveInv, ReviewInv, Open
<1>14. CASE t.id \in stray
  <2>1. Books'
    BY <1>2, <1>8, <1>9, <1>14, StrayKeeps
  <2> QED
    BY <1>10, <1>12, <1>13, <2>1 DEF LeaveInv
<1>15. CASE t.id \notin stray
  <2>1. t.id \in Tracked /\ Tracked' = Tracked /\ Tracked \subseteq Requests
    BY <1>2, <1>8, <1>15 DEF Tracked
  <2>2. CertificateInv'
    BY <1>2, <1>3, <1>4, <1>5, <1>9, <2>1 DEF LeaveInv, Books, CertificateInv
  <2>3. LongSickIsCertified'
    BY <1>4, <1>9, <2>1 DEF LeaveInv, Books, LongSickIsCertified
  <2>4. DayInv'
    <3>1. \A d \in Days : roster[d].by # t.id
      BY <1>2, <2>1 DEF LeaveInv, Books, DayInv
    <3>2. \A d \in Days : reserved[d] = t.id <=> d \in Span(row.leave)
      BY <1>2, <1>3, <1>5, <2>1 DEF LeaveInv, Books, DayInv
    <3>3. row.status = "pending" /\ UNCHANGED <<reserved, roster>>
      BY <1>4, <1>8
    <3>4. ASSUME NEW s \in Tracked, NEW d \in Days
          PROVE  /\ roster'[d].by = s =>
                      /\ request'[s].status = "approved" /\ d \in Span(request'[s].leave)
                      /\ roster'[d].portion = request'[s].leave.portion
                 /\ reserved'[d] = s <=>
                      \/ request'[s].status = "pending" /\ d \in Span(request'[s].leave)
                      \/ request'[s].status = "approved" /\ roster'[d].by = s
      <4>1. CASE s = t.id
        BY <1>9, <3>1, <3>2, <3>3, <4>1
      <4>2. CASE s # t.id
        BY <1>9, <2>1, <3>3, <4>2 DEF LeaveInv, Books, DayInv
      <4> QED
        BY <4>1, <4>2
    <3>5. \A s \in Tracked : request'[s].status = "approved" => \E d \in Days : roster'[d].by = s
      BY <1>9, <2>1, <3>3 DEF LeaveInv, Books, DayInv
    <3> QED
      BY <2>1, <3>4, <3>5 DEF DayInv
  <2> QED
    BY <1>10, <1>12, <1>13, <2>2, <2>3, <2>4 DEF LeaveInv, Books
<1> QED
  BY <1>14, <1>15

LEMMA ApproveKeeps ==
  ASSUME LeaveInv, RacersAlone, NEW w \in Workers, Approve(w)
  PROVE  LeaveInv'
<1>1. PICK t \in Handlers : t = job[w]
  BY DEF LeaveInv, TypeOK, Handlers
<1>2. t.pc \in {"approved", "auto"} /\ t.id \in Requests
  BY <1>1 DEF LeaveInv, JobsInv, ReadInv, OpInv, Approve
<1>3. PICK was \in Rows, read \in Rows : was = request[t.id] /\ read = t.row
  BY <1>2 DEF LeaveInv, TypeOK, Handlers
<1>4. /\ t.id \in stray \/ SameIfCurrent(read, was)
      /\ ~NeedsCertificate(read) /\ (t.pc = "auto" => auto)
  BY <1>1, <1>2, <1>3 DEF LeaveInv, JobsInv, ReadInv
<1>5. Done(w) /\ UNCHANGED <<reserved, calls>>
  BY DEF Approve
<1>6. CASE ~(Undecided(w) /\ RosterFree(read.leave))
  BY <1>1, <1>2, <1>3, <1>5, <1>6, EndKeeps DEF Approve, NoWrite
<1>7. CASE Undecided(w) /\ RosterFree(read.leave)
  <2>1. PICK reviewer \in {"auto", "manager"} :
          reviewer = IF t.pc = "auto" THEN "auto" ELSE "manager"
    OBVIOUS
  <2>2. PICK row \in Rows :
          /\ row = Decided(was, "approved", reviewer)
          /\ row.status = "approved" /\ row.leave = was.leave /\ row.version = was.version + 1
          /\ row.reviewer = reviewer /\ row.certificate = was.certificate
    BY RowDecided
  <2>3. was.status = "pending" /\ was.version = read.version
    BY <1>1, <1>3, <1>7 DEF Undecided
  <2>4. /\ request' = [request EXCEPT ![t.id] = row]
        /\ roster' = [d \in Days |-> IF d \in Span(read.leave)
                        THEN [by |-> t.id, portion |-> read.leave.portion] ELSE roster[d]]
    BY <1>1, <1>3, <1>7, <2>1, <2>2 DEF Approve, Decide
  <2>5. WellFormed(was.leave) /\ was.leave \in Leaves /\ read.leave \in Leaves
    BY <1>2, <1>3 DEF LeaveInv, TypeOK, Rows
  <2>6. /\ request' \in [Requests -> Rows] /\ request'[t.id] = row
        /\ \A s \in Requests \ {t.id} : request'[s] = request[s]
        /\ \A s \in Requests : WellFormed(request'[s].leave)
    BY <1>2, <2>2, <2>4, <2>5, OneRow DEF LeaveInv
  <2>7. roster' \in [Days -> RosterRows]
    BY <1>2, <2>4, <2>5 DEF LeaveInv, TypeOK, RosterRows, Leaves
  <2>8. job' = [job EXCEPT ![w] = NoJob] /\ auto' = auto /\ stray' = stray
    BY <1>5 DEF Done, Run, Goes
  <2>9. TypeOK'
    BY <1>5, <2>6, <2>7, <2>8, Constants DEF LeaveInv, TypeOK, Handlers
  <2>10. \A r \in Requests : Evolves(request[r], request'[r])
    <3>1. Evolves(was, row)
      BY <1>4, <2>1, <2>2, <2>3 DEF Evolves, Open, AutoRecorded, Rows
    <3> QED
      BY <1>3, <2>6, <3>1 DEF Evolves
  <2>11. ReadInv(NoJob)'
    BY Constants DEF ReadInv, OpInv
  <2>12. JobsInv'
    BY <1>1, <1>2, <2>8, <2>9, <2>10, <2>11, Constants, JobsKept
  <2>13. ReviewInv'
    BY <2>2, <2>6 DEF LeaveInv, ReviewInv, Open
  <2>14. \A d \in Span(read.leave) : roster[d].by = Nobody
    BY <1>7, Constants DEF RosterFree
  <2>15. \A s \in Requests : s # Nobody
    BY LeaveAssumption
  <2>16. \A d \in Days :
           /\ d \in Span(read.leave) =>
                roster'[d].by = t.id /\ roster'[d].portion = read.leave.portion
           /\ d \notin Span(read.leave) => roster'[d] = roster[d]
    BY <2>4
  <2>17. \A s \in Requests \ {t.id}, d \in Days :
           /\ roster'[d].by = s <=> roster[d].by = s
           /\ roster'[d].by = s => roster'[d] = roster[d]
    BY <2>14, <2>15, <2>16
  <2>18. CASE t.id \in stray
    <3>1. Books'
      BY <1>2, <1>5, <2>6, <2>8, <2>17, <2>18, StrayKeeps
    <3> QED
      BY <2>9, <2>12, <2>13, <3>1 DEF LeaveInv
  <2>19. CASE t.id \notin stray
    <3>1. t.id \in Tracked /\ Tracked' = Tracked /\ Tracked \subseteq Requests
      BY <1>2, <2>8, <2>19 DEF Tracked
    <3>2. read.leave = was.leave /\ read.certificate = was.certificate
      BY <1>4, <2>3, <2>19 DEF SameIfCurrent
    <3>3. CertificateInv'
      BY <1>2, <1>3, <2>2, <2>6, <3>1 DEF LeaveInv, Books, CertificateInv
    <3>4. LongSickIsCertified'
      <4>1. row.leave.sick /\ row.leave.to - row.leave.from + 1 > LongSick =>
              row.certificate # NoPhoto /\ Span(row.certificate) = Span(row.leave)
        BY <1>2, <1>3, <1>4, <2>2, <3>1, <3>2 DEF NeedsCertificate, LeaveInv, Books, CertificateInv
      <4> QED
        BY <2>2, <2>6, <3>1, <4>1 DEF LeaveInv, Books, LongSickIsCertified
    <3>5. DayInv'
      <4>1. \A d \in Days : roster[d].by # t.id
        BY <1>2, <1>3, <2>3, <3>1 DEF LeaveInv, Books, DayInv
      <4>2. was.leave.from \in Days /\ was.leave.from \in Span(was.leave)
        BY <2>5 DEF WellFormed, Span, Leaves, Days
      <4>3. \A d \in Days : reserved[d] = t.id <=> d \in Span(was.leave)
        BY <1>2, <1>3, <2>3, <3>1 DEF LeaveInv, Books, DayInv
      <4>4. \A d \in Days :
              /\ d \in Span(was.leave) => roster'[d].by = t.id /\ roster'[d].portion = was.leave.portion
              /\ d \notin Span(was.leave) => roster'[d].by # t.id
        BY <2>16, <3>2, <4>1
      <4> QED
        BY <1>2, <1>3, <1>5, <2>2, <2>6, <2>17, <3>1, <4>2, <4>3, <4>4 DEF LeaveInv, Books, DayInv
    <3> QED
      BY <2>9, <2>12, <2>13, <3>3, <3>4, <3>5 DEF LeaveInv, Books
  <2> QED
    BY <2>18, <2>19
<1> QED
  BY <1>6, <1>7

LEMMA RejectKeeps ==
  ASSUME LeaveInv, RacersAlone, NEW w \in Workers, Reject(w)
  PROVE  LeaveInv'
<1>1. PICK t \in Handlers : t = job[w]
  BY DEF LeaveInv, TypeOK, Handlers
<1>2. t.pc = "rejected" /\ t.id \in Requests
  BY <1>1 DEF LeaveInv, JobsInv, ReadInv, OpInv, Reject
<1>3. PICK was \in Rows : was = request[t.id]
  BY <1>2 DEF LeaveInv, TypeOK
<1>4. Done(w) /\ UNCHANGED <<roster, calls>>
  BY DEF Reject
<1>5. CASE ~Undecided(w)
  BY <1>1, <1>2, <1>4, <1>5, EndKeeps DEF Reject, NoWrite
<1>6. CASE Undecided(w)
  <2>1. PICK row \in Rows :
          /\ row = Decided(was, "rejected", "manager")
          /\ row.status = "rejected" /\ row.leave = was.leave /\ row.version = was.version + 1
          /\ row.reviewer = "manager" /\ row.certificate = was.certificate
    BY RowDecided
  <2>2. was.status = "pending"
    BY <1>1, <1>3, <1>6 DEF Undecided
  <2>3. request' = [request EXCEPT ![t.id] = row] /\ reserved' = Released(t.id)
    BY <1>1, <1>3, <1>6, <2>1 DEF Reject, Decide
  <2>4. WellFormed(was.leave)
    BY <1>2, <1>3 DEF LeaveInv, TypeOK
  <2>5. /\ request' \in [Requests -> Rows] /\ request'[t.id] = row
        /\ \A s \in Requests \ {t.id} : request'[s] = request[s]
        /\ \A s \in Requests : WellFormed(request'[s].leave)
    BY <1>2, <2>1, <2>3, <2>4, OneRow DEF LeaveInv
  <2>6. \A d \in Days : reserved'[d] = IF reserved[d] = t.id THEN Nobody ELSE reserved[d]
    BY <2>3 DEF Released
  <2>7. reserved' \in [Days -> Requests \cup {Nobody}]
    BY <2>3 DEF Released, LeaveInv, TypeOK
  <2>8. job' = [job EXCEPT ![w] = NoJob] /\ auto' = auto /\ stray' = stray
    BY <1>4 DEF Done, Run, Goes
  <2>9. TypeOK'
    BY <1>4, <2>5, <2>7, <2>8, Constants DEF LeaveInv, TypeOK, Handlers
  <2>10. \A r \in Requests : Evolves(request[r], request'[r])
    <3>1. Evolves(was, row)
      BY <2>1, <2>2 DEF Evolves, Open, AutoRecorded, Rows
    <3> QED
      BY <1>3, <2>5, <3>1 DEF Evolves
  <2>11. ReadInv(NoJob)'
    BY Constants DEF ReadInv, OpInv
  <2>12. JobsInv'
    BY <1>1, <1>2, <2>8, <2>9, <2>10, <2>11, Constants, JobsKept
  <2>13. ReviewInv'
    BY <2>1, <2>5 DEF LeaveInv, ReviewInv, Open
  <2>14. \A s \in Requests : s # Nobody
    BY LeaveAssumption
  <2>15. CASE t.id \in stray
    <3>1. Books'
      BY <1>2, <1>4, <2>5, <2>6, <2>8, <2>14, <2>15, StrayKeeps
    <3> QED
      BY <2>9, <2>12, <2>13, <3>1 DEF LeaveInv
  <2>16. CASE t.id \notin stray
    <3>1. t.id \in Tracked /\ Tracked' = Tracked /\ Tracked \subseteq Requests
      BY <1>2, <2>8, <2>16 DEF Tracked
    <3>2. CertificateInv' /\ LongSickIsCertified'
      BY <1>2, <1>3, <2>1, <2>5, <3>1 DEF LeaveInv, Books, CertificateInv, LongSickIsCertified
    <3>3. \A d \in Days : roster[d].by # t.id
      BY <1>2, <1>3, <2>2, <3>1 DEF LeaveInv, Books, DayInv
    <3>4. DayInv'
      BY <1>2, <1>4, <2>1, <2>5, <2>6, <2>14, <3>1, <3>3 DEF LeaveInv, Books, DayInv
    <3> QED
      BY <2>9, <2>12, <2>13, <3>2, <3>4 DEF LeaveInv, Books
  <2> QED
    BY <2>15, <2>16
<1> QED
  BY <1>5, <1>6

LEMMA CancelKeeps ==
  ASSUME LeaveInv, RacersAlone, NEW w \in Workers, Cancel(w)
  PROVE  LeaveInv'
<1>1. PICK t \in Handlers : t = job[w]
  BY DEF LeaveInv, TypeOK, Handlers
<1>2. t.pc = "cancel" /\ t.op = "cancel" /\ t.id \in Requests
  BY <1>1 DEF LeaveInv, JobsInv, ReadInv, OpInv, Cancel
<1>3. PICK was \in Rows, read \in Rows : was = request[t.id] /\ read = t.row
  BY <1>2 DEF LeaveInv, TypeOK, Handlers
<1>4. t.id \in stray \/ KnowsRoster(read, was)
  BY <1>1, <1>2, <1>3 DEF LeaveInv, JobsInv, ReadInv
<1>5. Done(w) /\ calls' = calls
  BY DEF Cancel
<1>6. CASE ~Cancellable(was)
  BY <1>1, <1>2, <1>3, <1>5, <1>6, EndKeeps DEF Cancel
<1>7. CASE Cancellable(was)
  <2>1. PICK row \in Rows :
          /\ row = Cancelled(was)
          /\ row.status = "cancelled" /\ row.leave = was.leave /\ row.version = was.version + 1
          /\ row.reviewer = was.reviewer /\ row.certificate = NoPhoto
    <3>1. /\ Cancelled(was) \in Rows /\ Cancelled(was).status = "cancelled"
          /\ Cancelled(was).leave = was.leave /\ Cancelled(was).version = was.version + 1
          /\ Cancelled(was).reviewer = was.reviewer /\ Cancelled(was).certificate = NoPhoto
      BY RowsWritten
    <3> QED
      BY <3>1
  <2>2. /\ request' = [request EXCEPT ![t.id] = row]
        /\ reserved' = Released(t.id)
        /\ roster' = [d \in Days |->
             IF AutoRecorded(read) /\ d \in LinkedDays(t.id) \cap Span(read.leave)
             THEN Free ELSE roster[d]]
    BY <1>1, <1>3, <1>7, <2>1 DEF Cancel
  <2>3. WellFormed(was.leave)
    BY <1>2, <1>3 DEF LeaveInv, TypeOK
  <2>4. /\ request' \in [Requests -> Rows] /\ request'[t.id] = row
        /\ \A s \in Requests \ {t.id} : request'[s] = request[s]
        /\ \A s \in Requests : WellFormed(request'[s].leave)
    BY <1>2, <2>1, <2>2, <2>3, OneRow DEF LeaveInv
  <2>5. \A d \in Days : reserved'[d] = IF reserved[d] = t.id THEN Nobody ELSE reserved[d]
    BY <2>2 DEF Released
  <2>6. reserved' \in [Days -> Requests \cup {Nobody}] /\ roster' \in [Days -> RosterRows]
    BY <2>2, Constants DEF Released, LeaveInv, TypeOK
  <2>7. job' = [job EXCEPT ![w] = NoJob] /\ auto' = auto /\ stray' = stray
    BY <1>5 DEF Done, Run, Goes
  <2>8. TypeOK'
    BY <1>5, <2>4, <2>6, <2>7, Constants DEF LeaveInv, TypeOK, Handlers
  <2>9. \A r \in Requests : Evolves(request[r], request'[r])
    <3>1. Evolves(was, row)
      BY <2>1 DEF Evolves, Open, AutoRecorded, Rows
    <3> QED
      BY <1>3, <2>4, <3>1 DEF Evolves
  <2>10. ReadInv(NoJob)'
    BY Constants DEF ReadInv, OpInv
  <2>11. JobsInv'
    BY <1>1, <1>2, <2>7, <2>8, <2>9, <2>10, Constants, JobsKept
  <2>12. ReviewInv'
    BY <2>1, <2>4 DEF LeaveInv, ReviewInv, Open
  <2>13. \A s \in Requests : s # Nobody
    BY LeaveAssumption
  <2>14. \A d \in Days : roster'[d] = roster[d] \/ (roster[d].by = t.id /\ roster'[d].by = Nobody)
    BY <2>2, Constants DEF LinkedDays
  <2>15. \A s \in Requests \ {t.id}, d \in Days :
           /\ roster'[d].by = s <=> roster[d].by = s
           /\ roster'[d].by = s => roster'[d] = roster[d]
           /\ reserved'[d] = s <=> reserved[d] = s
    BY <2>5, <2>13, <2>14
  <2>16. CASE t.id \in stray
    <3>1. Books'
      BY <1>2, <2>4, <2>7, <2>15, <2>16, StrayKeeps
    <3> QED
      BY <2>8, <2>11, <2>12, <3>1 DEF LeaveInv
  <2>17. CASE t.id \notin stray
    <3>1. t.id \in Tracked /\ Tracked' = Tracked /\ Tracked \subseteq Requests
      BY <1>2, <2>7, <2>17 DEF Tracked
    <3>2. CertificateInv' /\ LongSickIsCertified'
      BY <2>1, <2>4, <3>1 DEF LeaveInv, Books, CertificateInv, LongSickIsCertified
    <3>3. \A d \in Days : roster'[d].by # t.id
      <4>1. SUFFICES ASSUME NEW d \in Days, roster[d].by = t.id
                     PROVE  AutoRecorded(read) /\ d \in LinkedDays(t.id) \cap Span(read.leave)
        BY <1>2, <2>2, <4>1, Constants, LeaveAssumption
      <4>2. was.status = "approved" /\ d \in Span(was.leave)
        BY <1>2, <1>3, <3>1, <4>1 DEF LeaveInv, Books, DayInv
      <4>3. AutoRecorded(was)
        BY <1>7, <4>2 DEF Cancellable
      <4> QED
        BY <1>4, <2>17, <4>1, <4>2, <4>3 DEF KnowsRoster, LinkedDays
    <3>4. DayInv'
      BY <1>2, <2>1, <2>4, <2>5, <2>13, <2>15, <3>1, <3>3 DEF LeaveInv, Books, DayInv
    <3> QED
      BY <2>8, <2>11, <2>12, <3>2, <3>4 DEF LeaveInv, Books
  <2> QED
    BY <2>16, <2>17
<1> QED
  BY <1>6, <1>7

\* What an edit writes, whatever became of the row it read.
LEMMA EditWrites ==
  ASSUME LeaveInv, NEW w \in Workers, Edit(w), job[w].id \in Requests
  PROVE  /\ Written(w) \in Leaves /\ KeptPhoto(w) \in Leaves \cup {NoPhoto}
         /\ job[w].row = request[job[w].id] =>
              Written(w) = job[w].leave /\ KeptPhoto(w) = NoPhoto
<1>1. PICK t \in Handlers : t = job[w]
  BY DEF LeaveInv, TypeOK, Handlers
<1>2. PICK read \in Rows, is \in Rows : read = t.row /\ is = request[t.id]
  BY <1>1 DEF LeaveInv, TypeOK, Handlers
<1>3. PICK was \in Leaves, wanted \in Leaves, current \in Leaves :
        was = read.leave /\ wanted = t.leave /\ current = is.leave
  BY DEF Handlers, Rows
<1>4. Written(w) = [sick |-> Column(was.sick, wanted.sick, current.sick),
                    from |-> Column(was.from, wanted.from, current.from),
                    to |-> Column(was.to, wanted.to, current.to),
                    portion |-> Column(was.portion, wanted.portion, current.portion)]
  BY <1>1, <1>2, <1>3 DEF Written
<1>5. Written(w) \in Leaves
  BY <1>3, <1>4 DEF Column, Leaves
<1>6. KeptPhoto(w) \in Leaves \cup {NoPhoto}
  BY <1>1, <1>2 DEF KeptPhoto, Rows
<1>7. ASSUME read = is PROVE Written(w) = wanted /\ KeptPhoto(w) = NoPhoto
  <2>1. Written(w) = [sick |-> wanted.sick, from |-> wanted.from, to |-> wanted.to,
                      portion |-> wanted.portion]
    BY <1>3, <1>4, <1>7 DEF Column
  <2>2. KeptPhoto(w) = NoPhoto
    BY <1>1, <1>2, <1>7 DEF KeptPhoto
  <2> QED
    BY <2>1, <2>2 DEF Leaves
<1> QED
  BY <1>1, <1>2, <1>3, <1>5, <1>6, <1>7

LEMMA EditKeeps ==
  ASSUME LeaveInv, RacersAlone, NEW w \in Workers, Edit(w)
  PROVE  LeaveInv'
<1>1. PICK t \in Handlers : t = job[w]
  BY DEF LeaveInv, TypeOK, Handlers
<1>2. /\ t.pc = "edit" /\ t.op = "edit" /\ t.id \in Requests
      /\ WellFormed(t.leave) /\ t.row.status = "pending"
  BY <1>1 DEF LeaveInv, JobsInv, ReadInv, OpInv, Edit
<1>3. PICK was \in Rows, read \in Rows : was = request[t.id] /\ read = t.row
  BY <1>2 DEF LeaveInv, TypeOK, Handlers
<1>4. PICK wanted \in Leaves : wanted = t.leave
  BY DEF Handlers
<1>5. PICK written \in Leaves, kept \in Leaves \cup {NoPhoto} :
        /\ written = Written(w) /\ kept = KeptPhoto(w)
        /\ read = was => written = wanted /\ kept = NoPhoto
  BY <1>1, <1>2, <1>3, <1>4, EditWrites
<1>6. CASE ~(WellFormed(written) /\ NotReserved(wanted, t.id))
  BY <1>1, <1>2, <1>4, <1>5, <1>6, EndKeeps DEF Edit, NoWrite
<1>7. CASE WellFormed(written) /\ NotReserved(wanted, t.id)
  <2>2. PICK next \in Nat : next = read.version + 1
    BY DEF Rows
  <2>3. PICK row \in Rows :
          /\ row = Edited(was, written, next, kept)
          /\ row.status = was.status /\ row.leave = written /\ row.version = next
          /\ row.reviewer = was.reviewer /\ row.certificate = kept
    BY RowEdited
  <2>4. PICK u : u = [t EXCEPT !.pc = "approve"]
    OBVIOUS
  <2>5. u \in Handlers /\ u.pc = "approve" /\ u.op = t.op /\ u.id = t.id
    BY <2>4, Onwards DEF Pcs
  <2>6. /\ request' = [request EXCEPT ![t.id] = row]
        /\ reserved' = [d \in Days |-> IF d \in Span(wanted) THEN t.id ELSE Released(t.id)[d]]
        /\ job' = [job EXCEPT ![w] = u] /\ auto' = auto /\ UNCHANGED <<roster, calls>>
        /\ stray' = IF read = was THEN stray ELSE stray \cup {t.id}
    BY <1>1, <1>2, <1>3, <1>4, <1>5, <1>7, <2>2, <2>3, <2>4 DEF Edit, Goes, Strays
  <2>7. /\ request' \in [Requests -> Rows] /\ request'[t.id] = row
        /\ \A s \in Requests \ {t.id} : request'[s] = request[s]
        /\ \A s \in Requests : WellFormed(request'[s].leave)
    BY <1>2, <1>7, <2>3, <2>6, OneRow DEF LeaveInv
  <2>8. \A d \in Days : reserved'[d] = IF d \in Span(wanted) THEN t.id
                                       ELSE IF reserved[d] = t.id THEN Nobody ELSE reserved[d]
    BY <2>6 DEF Released
  <2>9. reserved' \in [Days -> Requests \cup {Nobody}]
    BY <1>2, <2>6 DEF Released, LeaveInv, TypeOK
  <2>10. TypeOK' /\ stray \subseteq stray'
    <3>1. stray' \subseteq Requests /\ stray \subseteq stray'
      BY <1>2, <2>6 DEF LeaveInv, TypeOK
    <3> QED
      BY <2>5, <2>6, <2>7, <2>9, <3>1 DEF LeaveInv, TypeOK, Handlers
  <2>11. ReadInv(u)'
    BY <1>2, <2>5 DEF ReadInv, OpInv
  <2>12. JobsInv'
    <3>1. t.id \notin stray' => Evolves(was, row)
      BY <1>2, <1>3, <2>2, <2>3, <2>6 DEF Evolves, Open, AutoRecorded, Rows
    <3>2. \A r \in Requests \ stray' : Evolves(request[r], request'[r])
      BY <1>3, <2>7, <3>1 DEF Evolves
    <3> QED
      BY <1>1, <1>2, <2>5, <2>6, <2>10, <2>11, <3>2, JobsKept
  <2>13. ReviewInv'
    BY <1>2, <1>3, <2>3, <2>7 DEF LeaveInv, ReviewInv, Open
  <2>14. \A s \in Requests : s # Nobody
    BY LeaveAssumption
  <2>15. \A d \in Span(wanted) : reserved[d] \in {t.id, Nobody}
    BY <1>7 DEF NotReserved
  <2>16. \A s \in Requests \ {t.id}, d \in Days : reserved'[d] = s <=> reserved[d] = s
    BY <2>8, <2>14, <2>15
  <2>17. CASE t.id \in stray'
    <3>1. Books'
      BY <1>2, <2>6, <2>7, <2>10, <2>16, <2>17, StrayKeeps
    <3> QED
      BY <2>10, <2>12, <2>13, <3>1 DEF LeaveInv
  <2>18. CASE t.id \notin stray'
    <3>1. /\ read = was /\ stray' = stray /\ t.id \in Tracked
          /\ Tracked' = Tracked /\ Tracked \subseteq Requests
      BY <1>2, <2>6, <2>18 DEF Tracked
    <3>2. row.status = "pending" /\ row.leave = wanted /\ row.certificate = NoPhoto
      BY <1>2, <1>3, <1>5, <2>3, <3>1
    <3>3. CertificateInv' /\ LongSickIsCertified'
      BY <2>7, <3>1, <3>2 DEF LeaveInv, Books, CertificateInv, LongSickIsCertified
    <3>4. \A d \in Days : roster[d].by # t.id
      BY <1>2, <1>3, <3>1 DEF LeaveInv, Books, DayInv
    <3>5. \A d \in Days : reserved'[d] = t.id <=> d \in Span(wanted)
      BY <1>2, <2>8, <2>14
    <3>6. DayInv'
      BY <1>2, <2>6, <2>7, <2>16, <3>1, <3>2, <3>4, <3>5 DEF LeaveInv, Books, DayInv
    <3> QED
      BY <2>10, <2>12, <2>13, <3>3, <3>6 DEF LeaveInv, Books
  <2> QED
    BY <2>17, <2>18
<1> QED
  BY <1>6, <1>7

LEMMA AttachKeeps ==
  ASSUME LeaveInv, RacersAlone, NEW w \in Workers, Attach(w)
  PROVE  LeaveInv'
<1>1. PICK t \in Handlers : t = job[w]
  BY DEF LeaveInv, TypeOK, Handlers
<1>2. t.pc = "certificate" /\ t.id \in Requests
  BY <1>1 DEF LeaveInv, JobsInv, ReadInv, OpInv, Attach
<1>3. PICK was \in Rows : was = request[t.id]
  BY <1>2 DEF LeaveInv, TypeOK
<1>4. UNCHANGED <<reserved, roster, calls>>
  BY DEF Attach
<1>5. CASE ~(was.status = "pending" /\ was.certificate = NoPhoto)
  BY <1>1, <1>2, <1>3, <1>4, <1>5, EndKeeps DEF Attach, NoWrite
<1>6. CASE was.status = "pending" /\ was.certificate = NoPhoto
  <2>1. PICK row \in Rows :
          /\ row = Certified(was)
          /\ row.status = "pending" /\ row.leave = was.leave /\ row.version = was.version + 1
          /\ row.reviewer = was.reviewer /\ row.certificate = was.leave
    <3>1. /\ Certified(was) \in Rows /\ Certified(was).status = was.status
          /\ Certified(was).leave = was.leave /\ Certified(was).version = was.version + 1
          /\ Certified(was).reviewer = was.reviewer /\ Certified(was).certificate = was.leave
      BY RowsWritten
    <3> QED
      BY <1>6, <3>1
  <2>2. PICK u : u = [t EXCEPT !.pc = "approve"]
    OBVIOUS
  <2>3. u \in Handlers /\ u.pc = "approve" /\ u.op = t.op /\ u.id = t.id
    BY <2>2, Onwards DEF Pcs
  <2>4. /\ request' = [request EXCEPT ![t.id] = row]
        /\ job' = [job EXCEPT ![w] = u] /\ auto' = auto /\ stray' = stray
    BY <1>1, <1>3, <1>6, <2>1, <2>2 DEF Attach, Run, Goes
  <2>5. WellFormed(was.leave)
    BY <1>2, <1>3 DEF LeaveInv, TypeOK
  <2>6. /\ request' \in [Requests -> Rows] /\ request'[t.id] = row
        /\ \A s \in Requests \ {t.id} : request'[s] = request[s]
        /\ \A s \in Requests : WellFormed(request'[s].leave)
    BY <1>2, <2>1, <2>4, <2>5, OneRow DEF LeaveInv
  <2>7. TypeOK'
    BY <1>4, <2>3, <2>4, <2>6 DEF LeaveInv, TypeOK, Handlers
  <2>8. \A r \in Requests : Evolves(request[r], request'[r])
    <3>1. Evolves(was, row)
      BY <1>6, <2>1 DEF Evolves, Open, AutoRecorded, Rows
    <3> QED
      BY <1>3, <2>6, <3>1 DEF Evolves
  <2>9. ReadInv(u)'
    BY <1>2, <2>3 DEF ReadInv, OpInv
  <2>10. JobsInv'
    BY <1>1, <1>2, <2>3, <2>4, <2>7, <2>8, <2>9, JobsKept
  <2>11. ReviewInv'
    BY <1>2, <1>3, <1>6, <2>1, <2>6 DEF LeaveInv, ReviewInv, Open
  <2>12. CASE t.id \in stray
    <3>1. Books'
      BY <1>2, <1>4, <2>4, <2>6, <2>12, StrayKeeps
    <3> QED
      BY <2>7, <2>10, <2>11, <3>1 DEF LeaveInv
  <2>13. CASE t.id \notin stray
    <3>1. t.id \in Tracked /\ Tracked' = Tracked /\ Tracked \subseteq Requests
      BY <1>2, <2>4, <2>13 DEF Tracked
    <3>2. CertificateInv' /\ LongSickIsCertified'
      BY <1>2, <1>3, <1>6, <2>1, <2>6, <3>1 DEF LeaveInv, Books, CertificateInv, LongSickIsCertified
    <3>3. DayInv'
      BY <1>2, <1>3, <1>4, <1>6, <2>1, <2>6, <3>1 DEF LeaveInv, Books, DayInv
    <3> QED
      BY <2>7, <2>10, <2>11, <3>2, <3>3 DEF LeaveInv, Books
  <2> QED
    BY <2>12, <2>13
<1> QED
  BY <1>5, <1>6

\* The roster page takes a day from the request whose row was read, or from
\* nobody.
LEMMA RemovalKeeps ==
  ASSUME LeaveInv, RacersAlone, NEW w \in Workers, job[w].pc \in {"delete", "write"},
         NEW d \in Days, d = job[w].day, NEW cell \in {Free, AdminRow},
         roster' = [roster EXCEPT ![d] = cell],
         OnRosterLeaveRemoved(job[w].old, d), Done(w), calls' = calls
  PROVE  LeaveInv'
<1>1. PICK t \in Handlers : t = job[w]
  BY DEF LeaveInv, TypeOK, Handlers
<1>2. /\ t.pc \in {"delete", "write"} /\ t.op \in {"delete", "write"} /\ t.old = roster[d]
  BY <1>1 DEF LeaveInv, JobsInv, ReadInv, OpInv
<1>3. PICK r : r = roster[d].by
  OBVIOUS
<1>4. cell \in RosterRows /\ cell.by \notin Requests
  BY Constants, LeaveAssumption
<1>5. roster' \in [Days -> RosterRows]
  BY <1>4 DEF LeaveInv, TypeOK
<1>6. job' = [job EXCEPT ![w] = NoJob] /\ auto' = auto /\ stray' = stray
  BY DEF Done, Run, Goes
<1>7. \A e \in Days : /\ e # d => roster'[e] = roster[e]
                      /\ e = d => roster'[e].by \notin Requests
  BY <1>4 DEF LeaveInv, TypeOK
<1>8. ReadInv(NoJob)'
  BY Constants DEF ReadInv, OpInv
<1>9. ASSUME TypeOK'
      PROVE  JobsInv'
  BY <1>1, <1>2, <1>6, <1>8, <1>9, Constants, JobsKept, Racers
<1>10. \A s \in Requests : s # Nobody
  BY LeaveAssumption
<1>11. CASE r \notin Requests
  <2>1. UNCHANGED <<request, reserved>> /\ Tracked' = Tracked /\ Tracked \subseteq Requests
    BY <1>1, <1>2, <1>3, <1>6, <1>11 DEF OnRosterLeaveRemoved, Tracked
  <2>2. TypeOK'
    BY <1>5, <1>6, <2>1, Constants DEF LeaveInv, TypeOK, Handlers
  <2>3. ReviewInv'
    BY <2>1 DEF LeaveInv, ReviewInv
  <2>4. CertificateInv' /\ LongSickIsCertified'
    BY <2>1 DEF LeaveInv, Books, CertificateInv, LongSickIsCertified
  <2>5. DayInv'
    <3>1. \A s \in Requests, e \in Days : roster[e].by = s => roster'[e] = roster[e]
      BY <1>3, <1>7, <1>11
    <3>2. \A s \in Requests, e \in Days : roster'[e].by = s => roster'[e] = roster[e]
      BY <1>7
    <3> QED
      BY <2>1, <3>1, <3>2 DEF LeaveInv, Books, DayInv
  <2> QED
    BY <1>9, <2>2, <2>3, <2>4, <2>5 DEF LeaveInv, Books
<1>12. CASE r \in Requests
  <2>1. PICK left : left = {e \in Days : roster'[e].by = r}
    OBVIOUS
  <2>2. PICK was \in Rows : was = request[r]
    BY <1>12 DEF LeaveInv, TypeOK
  <2>3. WellFormed(was.leave)
    BY <1>12, <2>2 DEF LeaveInv, TypeOK
  <2>4. reserved' = ReleasedOnRemoval(r, d, left)
    BY <1>1, <1>2, <1>3, <1>12, <2>1 DEF OnRosterLeaveRemoved
  <2>5. request' = IF left # {} \/ was.status # "approved" THEN request
                   ELSE [request EXCEPT ![r] = TakenOff(was)]
    BY <1>1, <1>2, <1>3, <1>12, <2>1, <2>2 DEF OnRosterLeaveRemoved
  <2>6. \A s \in Requests, e \in Days : s # r =>
          /\ roster'[e].by = s <=> roster[e].by = s
          /\ roster'[e].by = s => roster'[e] = roster[e]
    BY <1>3, <1>7
  <2>7. CASE left # {} \/ was.status # "approved"
    <3>1. request' = request /\ reserved' = [reserved EXCEPT ![d] = IF @ = r THEN Nobody ELSE @]
      BY <2>2, <2>4, <2>5, <2>7 DEF ReleasedOnRemoval
    <3>2. TypeOK' /\ ReviewInv'
      BY <1>5, <1>6, <3>1, Constants DEF LeaveInv, TypeOK, Handlers, ReviewInv
    <3>3. \A e \in Days : /\ e # d => reserved'[e] = reserved[e]
                          /\ e = d => reserved'[e] # r
                          /\ reserved[e] # r => reserved'[e] = reserved[e]
      BY <1>10, <1>12, <3>1 DEF LeaveInv, TypeOK
    <3>4. \A s \in Requests, e \in Days : s # r => (reserved'[e] = s <=> reserved[e] = s)
      <4>1. ASSUME NEW s \in Requests, NEW e \in Days, s # r, reserved'[e] = s
            PROVE  reserved[e] = s
        BY <1>10, <3>1, <4>1 DEF LeaveInv, TypeOK
      <4> QED
        BY <3>3, <4>1
    <3>5. CASE r \in stray
      <4>1. Books'
        BY <1>6, <1>12, <2>6, <3>1, <3>4, <3>5, StrayKeeps
      <4> QED
        BY <1>9, <3>2, <4>1 DEF LeaveInv
    <3>6. CASE r \notin stray
      <4>1. r \in Tracked /\ Tracked' = Tracked /\ Tracked \subseteq Requests
        BY <1>6, <1>12, <3>6 DEF Tracked
      <4>2. was.status = "approved" /\ left # {}
        BY <1>3, <2>2, <2>7, <4>1 DEF LeaveInv, Books, DayInv
      <4>3. CertificateInv' /\ LongSickIsCertified'
        BY <3>1, <4>1 DEF LeaveInv, Books, CertificateInv, LongSickIsCertified
      <4>4. DayInv'
        <5>1. \E e \in Days : roster'[e].by = r
          BY <2>1, <4>2
        <5>2. \A e \in Days : /\ reserved'[e] = r <=> reserved[e] = r /\ e # d
                              /\ roster'[e].by = r <=> roster[e].by = r /\ e # d
          BY <1>7, <1>12, <3>3
        <5>3. \A s \in Requests : s # r =>
                \A e \in Days : /\ roster'[e].by = s <=> roster[e].by = s
                                /\ roster'[e].by = s => roster'[e] = roster[e]
                                /\ reserved'[e] = s <=> reserved[e] = s
          BY <2>6, <3>4
        <5> QED
          BY <1>7, <2>2, <3>1, <4>1, <4>2, <5>1, <5>2, <5>3 DEF LeaveInv, Books, DayInv
      <4> QED
        BY <1>9, <3>2, <4>3, <4>4 DEF LeaveInv, Books
    <3> QED
      BY <3>5, <3>6
  <2>8. CASE left = {} /\ was.status = "approved"
    <3>1. PICK row \in Rows :
            /\ row = TakenOff(was)
            /\ row.status = "cancelled" /\ row.leave = was.leave
            /\ row.reviewer = "roster" /\ row.certificate = NoPhoto
      <4>1. /\ TakenOff(was) \in Rows /\ TakenOff(was).status = "cancelled"
            /\ TakenOff(was).leave = was.leave
            /\ TakenOff(was).reviewer = "roster" /\ TakenOff(was).certificate = NoPhoto
        BY RowsWritten
      <4> QED
        BY <4>1
    <3>2. request' = [request EXCEPT ![r] = row] /\ reserved' = Released(r)
      BY <2>2, <2>4, <2>5, <2>8, <3>1 DEF ReleasedOnRemoval
    <3>3. /\ request' \in [Requests -> Rows] /\ request'[r] = row
          /\ \A s \in Requests \ {r} : request'[s] = request[s]
          /\ \A s \in Requests : WellFormed(request'[s].leave)
      BY <1>12, <2>3, <3>1, <3>2, OneRow DEF LeaveInv
    <3>4. \A e \in Days : reserved'[e] = IF reserved[e] = r THEN Nobody ELSE reserved[e]
      BY <3>2 DEF Released
    <3>5. reserved' \in [Days -> Requests \cup {Nobody}]
      BY <3>2 DEF Released, LeaveInv, TypeOK
    <3>6. TypeOK' /\ ReviewInv'
      <4>1. TypeOK'
        BY <1>5, <1>6, <3>3, <3>5, Constants DEF LeaveInv, TypeOK, Handlers
      <4>2. ReviewInv'
        BY <3>1, <3>3 DEF LeaveInv, ReviewInv, Open
      <4> QED
        BY <4>1, <4>2
    <3>7. \A s \in Requests, e \in Days : s # r => (reserved'[e] = s <=> reserved[e] = s)
      BY <1>10, <3>4
    <3>8. CASE r \in stray
      <4>1. Books'
        BY <1>6, <1>12, <2>6, <3>3, <3>7, <3>8, StrayKeeps
      <4> QED
        BY <1>9, <3>6, <4>1 DEF LeaveInv
    <3>9. CASE r \notin stray
      <4>1. r \in Tracked /\ Tracked' = Tracked /\ Tracked \subseteq Requests
        BY <1>6, <1>12, <3>9 DEF Tracked
      <4>2. CertificateInv' /\ LongSickIsCertified'
        BY <3>1, <3>3, <4>1 DEF LeaveInv, Books, CertificateInv, LongSickIsCertified
      <4>3. \A e \in Days : roster'[e].by # r /\ reserved'[e] # r
        BY <1>10, <1>12, <2>1, <2>8, <3>4
      <4>4. \A s \in Requests : s # r =>
              \A e \in Days : /\ roster'[e].by = s <=> roster[e].by = s
                              /\ roster'[e].by = s => roster'[e] = roster[e]
                              /\ reserved'[e] = s <=> reserved[e] = s
        BY <2>6, <3>7
      <4>5. DayInv'
        BY <3>1, <3>3, <4>1, <4>3, <4>4 DEF LeaveInv, Books, DayInv
      <4> QED
        BY <1>9, <3>6, <4>2, <4>5 DEF LeaveInv, Books
    <3> QED
      BY <3>8, <3>9
  <2> QED
    BY <2>7, <2>8
<1> QED
  BY <1>11, <1>12

LEMMA RosterDeleteKeeps ==
  ASSUME LeaveInv, RacersAlone, NEW w \in Workers, RosterDelete(w)
  PROVE  LeaveInv'
<1>1. job[w].day \in Days
  BY DEF LeaveInv, TypeOK
<1> QED
  BY <1>1, RemovalKeeps DEF RosterDelete

LEMMA RosterWriteKeeps ==
  ASSUME LeaveInv, RacersAlone, NEW w \in Workers, RosterWrite(w)
  PROVE  LeaveInv'
<1>1. job[w].day \in Days /\ job[w].pc = "write"
  BY DEF LeaveInv, TypeOK, RosterWrite
<1>2. CASE /\ roster' = [roster EXCEPT ![job[w].day] = AdminRow]
           /\ OnRosterLeaveRemoved(job[w].old, job[w].day)
  BY <1>1, <1>2, RemovalKeeps DEF RosterWrite
<1>3. CASE NoWrite
  BY <1>1, <1>3, EndKeeps DEF RosterWrite
<1> QED
  BY <1>2, <1>3 DEF RosterWrite

-----------------------------------------------------------------------------
(* The specification. *)

LEMMA LeaveInvInit == Init => LeaveInv
<1> SUFFICES ASSUME Init PROVE LeaveInv
  OBVIOUS
<1> USE DEF Init
<1>1. TypeOK
  BY Constants, LeaveAssumption DEF TypeOK, Handlers
<1>2. DayInv
  BY Constants, LeaveAssumption DEF DayInv, Tracked
<1>3. CertificateInv /\ LongSickIsCertified /\ ReviewInv
  BY Constants DEF CertificateInv, LongSickIsCertified, ReviewInv, Tracked
<1>4. JobsInv
  BY Constants, NoJobReads DEF JobsInv, AloneInv
<1> QED
  BY <1>1, <1>2, <1>3, <1>4 DEF LeaveInv, Books

LEMMA LeaveInvNext == RacersAlone /\ LeaveInv /\ [Next]_vars => LeaveInv'
<1> SUFFICES ASSUME RacersAlone, LeaveInv, [Next]_vars PROVE LeaveInv'
  OBVIOUS
<1>1. CASE Next
  <2>1. ASSUME NEW w \in Workers, NEW r \in Requests, Employee(w, r)
        PROVE  LeaveInv'
    BY <2>1, ReadSubmitKeeps, ReadEditKeeps, ReadCancelKeeps, ReadCertificateKeeps DEF Employee
  <2>2. ASSUME NEW w \in Workers, NEW r \in Requests, Manager(w, r)
        PROVE  LeaveInv'
    BY <2>2, ReadDecideKeeps DEF Manager
  <2>3. ASSUME NEW w \in Workers, NEW d \in Days, RosterPage(w, d)
        PROVE  LeaveInv'
    BY <2>3, ReadRosterKeeps DEF RosterPage
  <2>4. ASSUME NEW w \in Workers, Commits(w)
        PROVE  LeaveInv'
    BY <2>4, InsertKeeps, SetPortionKeeps, ReadAutoApproveKeeps, ApproveKeeps, RejectKeeps,
       CancelKeeps, EditKeeps, AttachKeeps, RosterDeleteKeeps, RosterWriteKeeps DEF Commits
  <2>5. ASSUME NEW w \in Workers, Dies(w)
        PROVE  LeaveInv'
    BY <2>5, EndKeeps DEF Dies
  <2>6. CASE FlipSwitch
    <3>1. \A w \in Workers : job[w].pc = "idle"
      BY <2>6 DEF FlipSwitch, Busy
    <3>2. auto' \in Settings /\ UNCHANGED <<request, reserved, roster, job, calls, stray>>
      BY <2>6 DEF FlipSwitch, NoWrite
    <3>3. TypeOK' /\ Books' /\ ReviewInv'
      BY <3>2 DEF LeaveInv, TypeOK, Books, DayInv, CertificateInv, LongSickIsCertified, ReviewInv,
                  Tracked
    <3>4. JobsInv'
      BY <3>1, <3>2 DEF JobsInv, AloneInv, ReadInv, OpInv
    <3> QED
      BY <3>3, <3>4 DEF LeaveInv
  <2> QED
    BY <1>1, <2>1, <2>2, <2>3, <2>4, <2>5, <2>6 DEF Next
<1>2. CASE UNCHANGED vars
  <2>1. UNCHANGED <<request, reserved, roster, job, calls, auto, stray>>
    BY <1>2 DEF vars
  <2>2. TypeOK' /\ Books' /\ ReviewInv'
    BY <2>1 DEF LeaveInv, TypeOK, Books, DayInv, CertificateInv, LongSickIsCertified, ReviewInv,
                Tracked
  <2>3. JobsInv'
    BY <2>1 DEF LeaveInv, JobsInv, AloneInv, ReadInv, Overlaps
  <2> QED
    BY <2>2, <2>3 DEF LeaveInv
<1> QED
  BY <1>1, <1>2

LEMMA LeaveInvHolds ==
  ASSUME RacersAlone
  PROVE  Spec => []LeaveInv
<1>1. Init => LeaveInv
  BY LeaveInvInit
<1>2. LeaveInv /\ [Next]_vars => LeaveInv'
  BY LeaveInvNext
<1> QED
  BY <1>1, <1>2, PTL DEF Spec

LEMMA DaysAgree == LeaveInv => LeavesAgree
<1> SUFFICES ASSUME LeaveInv PROVE LeavesAgree
  OBVIOUS
<1>1. RosterFollowsRequests
  BY DEF LeaveInv, Books, DayInv, RosterFollowsRequests, LinkedDays
<1>2. ASSUME NEW r \in Requests
      PROVE  Span(request[r].leave) \subseteq Days
  <2>1. PICK wanted \in Leaves : wanted = request[r].leave
    BY DEF LeaveInv, TypeOK, Rows
  <2>2. Span(wanted) \subseteq Days
    BY LeaveAssumption DEF Leaves, Span, Days
  <2> QED
    BY <2>1, <2>2
<1>3. DaysFollowRequests
  <2> SUFFICES ASSUME NEW r \in Tracked
               PROVE  ReservedDays(r) = CASE request[r].status = "pending"  -> Span(request[r].leave)
                                          [] request[r].status = "approved" -> LinkedDays(r)
                                          [] OTHER                          -> {}
    BY DEF DaysFollowRequests
  <2>1. CASE request[r].status = "pending"
    <3>1. ReservedDays(r) = Span(request[r].leave)
      BY <1>2, <2>1 DEF LeaveInv, Books, DayInv, ReservedDays, Tracked
    <3> QED
      BY <2>1, <3>1
  <2>2. CASE request[r].status = "approved"
    <3>1. ReservedDays(r) = LinkedDays(r)
      BY <2>2 DEF LeaveInv, Books, DayInv, ReservedDays, Tracked, LinkedDays
    <3> QED
      BY <2>2, <3>1
  <2>3. CASE request[r].status \notin {"pending", "approved"}
    <3>1. ReservedDays(r) = {}
      BY <2>3 DEF LeaveInv, Books, DayInv, ReservedDays, Tracked
    <3> QED
      BY <2>3, <3>1
  <2> QED
    BY <2>1, <2>2, <2>3
<1> QED
  BY <1>1, <1>3 DEF LeavesAgree, LeaveInv

\* Exactly the approved requests have rows on the roster, within their dates
\* and of their portion, and the reserved days are those of the live requests,
\* whichever handlers interleave and die between their commits: submit,
\* decide, cancel, _edit_request, on_roster_leave_removed.
THEOREM LeavesStayInAgreement ==
  ASSUME RacersAlone
  PROVE  Spec => []LeavesAgree
<1>1. LeaveInv => LeavesAgree
  BY DaysAgree
<1> QED
  BY <1>1, LeaveInvHolds, PTL

\* However a long sick leave gets recorded - by decide, by _maybe_auto_approve
\* after a confirmation, an edit or a photo - its certificate was sent for the
\* days it has.
THEOREM LongSickStaysCertified ==
  ASSUME RacersAlone
  PROVE  Spec => []LongSickIsCertified
<1>1. LeaveInv => LongSickIsCertified
  BY DEF LeaveInv, Books
<1> QED
  BY <1>1, LeaveInvHolds, PTL

-----------------------------------------------------------------------------
(* What a manager decided. *)

\* No request that a manager has decided changes, unless the roster page takes
\* its last day or an edit writes that had read it before.
FinalStep ==
  \A r \in Requests : request[r].reviewer = "manager" =>
    \/ request'[r] = request[r]
    \/ request'[r].status = "cancelled" /\ request'[r].reviewer = "roster"
    \/ /\ \E w \in Workers : EditOf(w, r)
       /\ request'[r].status = request[r].status /\ request'[r].reviewer = "manager"

\* Whatever replaces the row of a request that no manager has decided.
LEMMA OtherRowFinal ==
  ASSUME NEW r \in Requests, request[r].reviewer # "manager", NEW row,
         request' = [request EXCEPT ![r] = row], TypeOK
  PROVE  FinalStep
BY DEF FinalStep, TypeOK

LEMMA OpenNotDecided ==
  ASSUME LeaveInv, NEW r \in Requests, Open(request[r]) \/ AutoRecorded(request[r])
  PROVE  request[r].reviewer # "manager"
BY DEF LeaveInv, ReviewInv, Open, AutoRecorded

LEMMA RemovalFinal ==
  ASSUME LeaveInv, NEW old, NEW d, OnRosterLeaveRemoved(old, d)
  PROVE  FinalStep
<1>1. PICK r : r = old.by
  OBVIOUS
<1>2. CASE request' = request
  BY <1>2 DEF FinalStep
<1>3. CASE r \in Requests /\ request' = [request EXCEPT ![r] = TakenOff(request[r])]
  <2>1. PICK was \in Rows : was = request[r]
    BY <1>3 DEF LeaveInv, TypeOK
  <2>2. TakenOff(was).status = "cancelled" /\ TakenOff(was).reviewer = "roster"
    BY RowsWritten
  <2>3. request'[r] = TakenOff(was) /\ \A s \in Requests \ {r} : request'[s] = request[s]
    BY <1>3, <2>1 DEF LeaveInv, TypeOK
  <2> QED
    BY <2>2, <2>3 DEF FinalStep
<1> QED
  BY <1>1, <1>2, <1>3 DEF OnRosterLeaveRemoved

LEMMA CommitFinal ==
  ASSUME LeaveInv, NEW w \in Workers, Commits(w)
  PROVE  FinalStep
<1>1. PICK t \in Handlers : t = job[w]
  BY DEF LeaveInv, TypeOK, Handlers
<1>2. ReadInv(t)
  BY <1>1 DEF LeaveInv, JobsInv
<1>3. ASSUME UNCHANGED request PROVE FinalStep
  BY <1>3 DEF FinalStep
<1>4. CASE t.pc \in {"insert", "portion", "approved", "auto", "rejected", "cancel", "edit",
                     "certificate"}
  <2>1. t.id \in Requests
    BY <1>2, <1>4 DEF ReadInv, OpInv
  <2>2. ASSUME Open(request[t.id]) \/ AutoRecorded(request[t.id]), NEW row,
               request' = [request EXCEPT ![t.id] = row]
        PROVE  FinalStep
    BY <2>1, <2>2, OpenNotDecided, OtherRowFinal DEF LeaveInv
  <2>3. CASE Insert(w)
    BY <1>1, <1>3, <2>2, <2>3, Constants DEF Insert, Open
  <2>4. CASE SetPortion(w)
    BY <1>1, <1>2, <2>2, <2>4 DEF SetPortion, ReadInv, Open
  <2>5. CASE Approve(w)
    BY <1>1, <1>3, <2>2, <2>5 DEF Approve, Decide, Undecided, Open
  <2>6. CASE Reject(w)
    BY <1>1, <1>3, <2>2, <2>6 DEF Reject, Decide, Undecided, Open
  <2>7. CASE Cancel(w)
    BY <1>1, <1>3, <2>2, <2>7 DEF Cancel, Cancellable, NoWrite, Open
  <2>8. CASE Edit(w)
    <3>1. t.pc = "edit" /\ t.row.status = "pending" /\ EditOf(w, t.id)
      BY <1>1, <1>2, <2>8 DEF Edit, ReadInv, EditOf
    <3>2. PICK was \in Rows : was = request[t.id]
      BY <2>1 DEF LeaveInv, TypeOK
    <3>3. ASSUME NEW row, row.status = was.status, row.reviewer = was.reviewer,
                 request' = [request EXCEPT ![t.id] = row]
          PROVE  FinalStep
      <4>1. request'[t.id] = row /\ \A s \in Requests \ {t.id} : request'[s] = request[s]
        BY <2>1, <3>3 DEF LeaveInv, TypeOK
      <4> QED
        BY <3>1, <3>2, <3>3, <4>1 DEF FinalStep
    <3>4. PICK written \in Leaves, kept \in Leaves \cup {NoPhoto}, next \in Nat :
            written = Written(w) /\ kept = KeptPhoto(w) /\ next = job[w].row.version + 1
      <4>1. job[w].row \in Rows
        BY DEF LeaveInv, TypeOK
      <4> QED
        BY <1>1, <2>1, <2>8, <4>1, EditWrites DEF Rows
    <3>5. PICK row :
            /\ row = Edited(was, written, next, kept)
            /\ row.status = was.status /\ row.reviewer = was.reviewer
      BY RowEdited
    <3>6. request' = request \/ request' = [request EXCEPT ![t.id] = row]
      BY <1>1, <2>8, <3>2, <3>4, <3>5 DEF Edit
    <3> QED
      BY <1>3, <3>3, <3>5, <3>6
  <2>9. CASE Attach(w)
    BY <1>1, <1>3, <2>2, <2>9 DEF Attach, Open
  <2> QED
    BY <1>1, <1>4, <2>3, <2>4, <2>5, <2>6, <2>7, <2>8, <2>9
       DEF Commits, ReadAutoApprove, RosterDelete, RosterWrite
<1>5. CASE t.pc \in {"delete", "write"}
  <2>1. CASE RosterDelete(w)
    BY <2>1, RemovalFinal DEF RosterDelete
  <2>2. CASE RosterWrite(w)
    BY <1>3, <2>2, RemovalFinal DEF RosterWrite, NoWrite
  <2> QED
    BY <1>1, <1>5, <2>1, <2>2
       DEF Commits, Insert, SetPortion, ReadAutoApprove, Approve, Reject, Cancel, Edit, Attach
<1>6. CASE t.pc \in {"idle", "approve"}
  BY <1>1, <1>3, <1>6
     DEF Commits, Insert, SetPortion, ReadAutoApprove, Approve, Reject, Cancel, Edit, Attach,
         RosterDelete, RosterWrite, NoWrite
<1> QED
  BY <1>4, <1>5, <1>6 DEF Handlers, Pcs

\* What a manager decided stays decided, whatever handlers that read the
\* request before write afterwards: only the roster page may end it, and an
\* edit that read it before moves its dates but not the verdict.
THEOREM DecisionsStay ==
  ASSUME RacersAlone
  PROVE  Spec => DecisionsAreFinal
<1>1. LeaveInv /\ [Next]_vars => [FinalStep]_vars
  <2> SUFFICES ASSUME LeaveInv, Next PROVE FinalStep
    OBVIOUS
  <2>1. ASSUME UNCHANGED request PROVE FinalStep
    BY <2>1 DEF FinalStep
  <2>2. ASSUME NEW w \in Workers, Commits(w) PROVE FinalStep
    BY <2>2, CommitFinal
  <2>3. CASE FlipSwitch \/ \E w \in Workers : Dies(w)
    BY <2>1, <2>3 DEF FlipSwitch, Dies, NoWrite
  <2>4. ASSUME NEW w \in Workers, NEW op, NEW next, Starts(w, op, next) PROVE FinalStep
    BY <2>1, <2>4 DEF Starts, NoWrite
  <2>5. ASSUME NEW w \in Workers, NEW r \in Requests, Employee(w, r) PROVE FinalStep
    <3>1. CASE \E wanted \in Filed : ReadSubmit(w, r, wanted)
      BY <2>4, <3>1 DEF ReadSubmit
    <3>2. CASE \E wanted \in Filed : ReadEdit(w, r, wanted)
      BY <2>4, <3>2 DEF ReadEdit
    <3>3. CASE ReadCancel(w, r)
      BY <2>4, <3>3 DEF ReadCancel
    <3>4. CASE ReadCertificate(w, r)
      BY <2>4, <3>4 DEF ReadCertificate
    <3> QED
      BY <2>5, <3>1, <3>2, <3>3, <3>4 DEF Employee
  <2>6. ASSUME NEW w \in Workers, NEW r \in Requests, Manager(w, r) PROVE FinalStep
    BY <2>4, <2>6 DEF Manager, ReadDecide
  <2>7. ASSUME NEW w \in Workers, NEW d \in Days, RosterPage(w, d) PROVE FinalStep
    BY <2>4, <2>7 DEF RosterPage, ReadRoster
  <2> QED
    BY <2>2, <2>3, <2>5, <2>6, <2>7 DEF Next
<1> QED
  BY <1>1, LeaveInvHolds, PTL DEF Spec, DecisionsAreFinal, FinalStep

-----------------------------------------------------------------------------
(* Staff bot: the types. *)

Stages == {"read", "act", "open", "upload", "send", "report", "mark", "confirm"}
Early == {"read", "act", "open", "upload"}

FlightFields ==
  {"stage", "since", "slot", "token", "asks", "acks", "todo", "messages", "owns", "included",
   "carried", "leaves", "claims"}
EntryFields == {"token", "first", "last", "quiet", "slot", "asks", "todo", "acks"}

\* What only a slot report has: its mark, feedback and leave, and the steps
\* after LINE's answer.
FlightOK(f) ==
  /\ DOMAIN f = FlightFields
  /\ f.stage \in Stages /\ f.slot \in Slots \cup {NoSlot} /\ f.owns \in BOOLEAN
  /\ f.carried \subseteq Feedback /\ f.leaves \subseteq DOMAIN leave
  /\ f.slot = NoSlot => ~f.owns /\ f.carried = {} /\ f.leaves = {}
  /\ f.stage \in {"report", "mark", "confirm"} => f.slot # NoSlot
  /\ f.stage \in {"read", "act", "open"} => f.leaves = {}

EntryOK(e) ==
  /\ DOMAIN e = EntryFields
  /\ e.last \in Int /\ e.quiet \in Int
  /\ e.slot \in Slots \cup {NoSlot}

Marks == {NoMark} \cup [state : {"pending", "sent"}, filed : 0 .. now]

LeaveRecords == [status : {"live", "cancelled", "roster"}, reported : BOOLEAN]

MemoryTypes ==
  /\ DOMAIN pending = Chats /\ \A c \in Chats : pending[c] = NoReply \/ EntryOK(pending[c])
  /\ DOMAIN flight = Chats /\ \A c \in Chats : flight[c] = NoFlight \/ FlightOK(flight[c])
  /\ \A c \in Chats : c # Group =>
       /\ pending[c] = NoReply \/ pending[c].slot = NoSlot
       /\ flight[c] = NoFlight \/ flight[c].slot = NoSlot

StoreTypes ==
  /\ now \in Nat /\ mark \in [Slots -> Marks]
  /\ leave \in [DOMAIN leave -> LeaveRecords]
  /\ seen \in [slots : [Slots -> Nat], leaves : [DOMAIN leave -> Nat], shown : SUBSET Feedback, cut : SUBSET Feedback]
  /\ lost \in [slots : [Slots -> Nat], leaves : [DOMAIN leave -> Nat], late : [Slots -> Nat]]

BotTypes == MemoryTypes /\ StoreTypes

-----------------------------------------------------------------------------
(* Staff bot: what the steps have in common. *)

\* A reply goes on, before it is sent.
Advances(c) ==
  LET f == flight[c]
      g == flight'[c]
  IN /\ f # NoFlight /\ f.stage \in Early
     /\ DOMAIN flight' = Chats /\ \A d \in Chats : d # c => flight'[d] = flight[d]
     /\ g # NoFlight /\ FlightOK(g) /\ g.stage \in Early
     /\ g.slot = f.slot /\ g.owns = f.owns
     /\ \A l \in g.leaves : ~leave[l].reported \/ l \in f.leaves
     /\ g.stage = "upload" /\ f.stage # "upload" => \A l \in g.leaves : ~leave[l].reported
     /\ UNCHANGED <<slotVars, pending, reportVars, seen, lost>>

LEMMA NotNoFlight == ASSUME NEW f, f.stage \in Stages PROVE f # NoFlight
BY DEF Stages, NoFlight

LEMMA ReadAdvances ==
  ASSUME BotTypes, NEW c \in Chats, NEW digest \in BOOLEAN, NEW feedback \in BOOLEAN,
         Read(c, digest, feedback)
  PROVE  Advances(c)
<1> DEFINE f == flight[c]
          items == IF f.slot # NoSlot /\ feedback THEN Waiting ELSE {}
<1>1. /\ f # NoFlight /\ f.stage = "read" /\ FlightOK(f) /\ DOMAIN flight = Chats
      /\ UNCHANGED <<slotVars, pending, reportVars, seen, lost>>
  BY DEF BotTypes, MemoryTypes, Read, At, slotVars, Quiet
<1>2. items \subseteq Feedback /\ (f.slot = NoSlot => items = {})
  BY DEF Waiting
<1>3. PICK m, i : flight' = [flight EXCEPT ![c].stage = "act", ![c].messages = m,
                             ![c].included = i, ![c].carried = items]
  BY DEF Read
<1> HIDE DEF items
<1>4. /\ DOMAIN flight' = Chats /\ \A d \in Chats : d # c => flight'[d] = flight[d]
      /\ DOMAIN flight'[c] = FlightFields /\ flight'[c].stage = "act"
      /\ flight'[c].slot = f.slot /\ flight'[c].owns = f.owns
      /\ flight'[c].leaves = f.leaves /\ flight'[c].carried = items
  BY <1>1, <1>3 DEF FlightOK, FlightFields
<1>5. FlightOK(flight'[c])
  BY <1>1, <1>2, <1>4 DEF FlightOK, Stages
<1> QED BY <1>1, <1>4, <1>5, NotNoFlight DEF Advances, FlightOK, Early

LEMMA TicketAdvances ==
  ASSUME BotTypes, NEW c \in Chats,
         CreateTicket(c) \/ OpenWindow(c) \/ TicketRefused(c) \/ OpenForOrder(c) \/ StartUploads(c)
  PROVE  Advances(c)
<1> DEFINE f == flight[c]
<1>1. /\ f # NoFlight /\ f.stage \in {"act", "open", "upload"} /\ FlightOK(f)
      /\ DOMAIN flight = Chats
      /\ UNCHANGED <<slotVars, pending, reportVars, seen, lost>>
  BY DEF BotTypes, MemoryTypes, CreateTicket, OpenWindow, TicketRefused, OpenForOrder, StartUploads,
         Acting, At, slotVars, Quiet, deskVars
<1>2. /\ DOMAIN flight' = Chats /\ \A d \in Chats : d # c => flight'[d] = flight[d]
      /\ DOMAIN flight'[c] = FlightFields
      /\ \/ flight'[c].stage = f.stage
         \/ f.stage # "upload" /\ flight'[c].stage \in {"act", "open"}
      /\ flight'[c].slot = f.slot /\ flight'[c].owns = f.owns
      /\ flight'[c].leaves = f.leaves /\ flight'[c].carried = f.carried
  <2>1. CASE CreateTicket(c)
    BY <1>1, <2>1 DEF CreateTicket, FlightOK, FlightFields, Acting, At
  <2>2. CASE OpenWindow(c)
    BY <1>1, <2>2 DEF OpenWindow, Acted, FlightOK, FlightFields, At
  <2>3. CASE TicketRefused(c)
    BY <1>1, <2>3 DEF TicketRefused, Acted, FlightOK, FlightFields
  <2>4. CASE OpenForOrder(c)
    BY <1>1, <2>4 DEF OpenForOrder, Acted, FlightOK, FlightFields
  <2>5. CASE StartUploads(c)
    BY <1>1, <2>5 DEF StartUploads, FlightOK, FlightFields
  <2> QED BY <2>1, <2>2, <2>3, <2>4, <2>5
<1>3. FlightOK(flight'[c])
  BY <1>1, <1>2 DEF FlightOK, Stages
<1> QED BY <1>1, <1>2, <1>3, NotNoFlight DEF Advances, FlightOK, Early

LEMMA LeavesAdvance ==
  ASSUME BotTypes, NEW c \in Chats, ReadLeaves(c)
  PROVE  Advances(c)
<1> DEFINE f == flight[c]
<1>1. /\ f # NoFlight /\ f.stage = "act" /\ FlightOK(f) /\ DOMAIN flight = Chats
      /\ UNCHANGED <<slotVars, pending, reportVars, seen, lost>>
  BY DEF BotTypes, MemoryTypes, ReadLeaves, At, slotVars, Quiet
<1> DEFINE sent == IF f.messages < MaxMessages THEN f.messages ELSE MaxMessages
          room == ImageRoom(sent, f.included)
          asks == f.slot # NoSlot /\ room > 0
          With(items) ==
            flight' = [flight EXCEPT ![c].stage = "upload", ![c].leaves = items,
              ![c].included = @ \/ items # {},
              ![c].messages = sent + Cardinality(items) + (IF f.included \/ items = {} THEN 0 ELSE 1)]
<1>2. PICK items, m, i :
        /\ items = {} \/ (f.slot # NoSlot /\ items = Unreported(room))
        /\ flight' = [flight EXCEPT ![c].stage = "upload", ![c].leaves = items,
                                    ![c].included = i, ![c].messages = m]
  <2>1. PICK items : /\ items = {} \/ (asks /\ items = Unreported(room))
                     /\ With(items)
    BY DEF ReadLeaves
  <2>2. flight' = [flight EXCEPT ![c].stage = "upload", ![c].leaves = items,
          ![c].included = f.included \/ items # {},
          ![c].messages = sent + Cardinality(items) + (IF f.included \/ items = {} THEN 0 ELSE 1)]
    BY <1>1, <2>1 DEF FlightOK, FlightFields
  <2> QED BY <2>1, <2>2
<1>3. /\ items \subseteq DOMAIN leave /\ (f.slot = NoSlot => items = {})
      /\ \A l \in items : ~leave[l].reported
  BY <1>2 DEF Unreported, Oldest
<1>4. /\ DOMAIN flight' = Chats /\ \A d \in Chats : d # c => flight'[d] = flight[d]
      /\ DOMAIN flight'[c] = FlightFields /\ flight'[c].stage = "upload"
      /\ flight'[c].slot = f.slot /\ flight'[c].owns = f.owns
      /\ flight'[c].leaves = items /\ flight'[c].carried = f.carried
  BY <1>1, <1>2 DEF FlightOK, FlightFields
<1>5. FlightOK(flight'[c])
  BY <1>1, <1>3, <1>4 DEF FlightOK, Stages
<1> QED BY <1>1, <1>3, <1>4, <1>5, NotNoFlight DEF Advances, FlightOK, Early

\* Talk and acknowledgements: what a chat has pending stays for its slot.
PendingKept ==
  /\ DOMAIN pending' = Chats
  /\ \A c \in Chats :
       \/ pending'[c] = NoReply
       \/ /\ EntryOK(pending'[c])
          /\ \/ pending[c] # NoReply /\ pending'[c].slot = pending[c].slot
             \/ pending'[c].slot = NoSlot

SameReplies == UNCHANGED <<now, flight, reportVars, seen>>

Talks ==
  /\ SameReplies /\ PendingKept
  /\ UNCHANGED <<mark, lost>> \/ (mark' = Looked /\ CountLate)

\* Talk that opens a slot.
Opens ==
  /\ SameReplies
  /\ SlotNow \in Slots /\ SlotFree(SlotNow) /\ mark' = SlotFiled /\ CountLate
  /\ DOMAIN pending' = Chats /\ \A c \in Chats : c # Group => pending'[c] = pending[c]
  /\ EntryOK(pending'[Group]) /\ pending'[Group].slot = SlotNow

LEMMA EntryKept ==
  ASSUME BotTypes, NEW c \in Chats
  PROVE  /\ EntryOK(Entry(c))
         /\ \/ Entry(c).slot = NoSlot
            \/ pending[c] # NoReply /\ Entry(c) = pending[c]
<1>1. CASE pending[c] = NoReply
  <2>1. Entry(c) = Started
    BY <1>1 DEF Entry
  <2>2. now \in Nat /\ MaxWait \in Nat
    BY BotAssumption DEF BotTypes, StoreTypes
  <2>3. EntryOK(Started) /\ Started.slot = NoSlot
    BY <2>2 DEF Started, EntryOK, EntryFields
  <2> QED BY <2>1, <2>3
<1>2. CASE pending[c] # NoReply
  BY <1>2 DEF Entry, BotTypes, MemoryTypes
<1> QED BY <1>1, <1>2

LEMMA NotedKept ==
  ASSUME BotTypes, NEW c \in Chats, NEW t, NEW quiet \in Nat
  PROVE  /\ EntryOK(Noted(c, t, quiet))
         /\ Noted(c, t, quiet).slot = Entry(c).slot
<1>1. EntryOK(Entry(c)) /\ now \in Nat
  BY EntryKept DEF BotTypes, StoreTypes
<1>2. Sooner(Entry(c).quiet, quiet) \in Int
  BY <1>1 DEF EntryOK, Sooner
<1>3. Noted(c, t, quiet) = [Entry(c) EXCEPT !.token = t, !.last = now,
                                            !.quiet = Sooner(Entry(c).quiet, quiet)]
  BY <1>1 DEF Noted, EntryOK, EntryFields
<1> QED BY <1>1, <1>2, <1>3 DEF EntryOK, EntryFields

\* One chat's entry becomes another that keeps its slot.
LEMMA OneEntryKept ==
  ASSUME BotTypes, NEW c \in Chats, NEW e, pending' = [pending EXCEPT ![c] = e],
         \/ e = NoReply
         \/ (EntryOK(e) /\ e.slot = Entry(c).slot)
  PROVE  PendingKept
<1>1. DOMAIN pending = Chats /\ \A d \in Chats : pending[d] = NoReply \/ EntryOK(pending[d])
  BY DEF BotTypes, MemoryTypes
<1>2. DOMAIN pending' = Chats /\ pending'[c] = e /\ \A d \in Chats : d # c => pending'[d] = pending[d]
  BY <1>1
<1> QED BY <1>1, <1>2, EntryKept DEF PendingKept

\* An entry that no chat has is not made.
LEMMA NoChatKept ==
  ASSUME BotTypes, NEW c, c \notin Chats, NEW e, pending' = [pending EXCEPT ![c] = e]
  PROVE  PendingKept
<1>1. DOMAIN pending' = Chats /\ \A d \in Chats : pending'[d] = pending[d]
  BY DEF BotTypes, MemoryTypes
<1> QED BY <1>1 DEF BotTypes, MemoryTypes, PendingKept

LEMMA CommandKeeps ==
  ASSUME BotTypes, NEW c, NEW t, NEW todo, NoteCommand(c, t, todo)
  PROVE  PendingKept
<1>1. CASE c \notin Chats
  BY <1>1, NoChatKept DEF NoteCommand
<1>2. CASE c \in Chats
  <2> DEFINE n == Noted(c, t, CommandQuiet)
             e == [n EXCEPT !.todo = n.todo \o todo, !.asks = n.asks \/ todo = <<>>]
  <2>1. EntryOK(n) /\ n.slot = Entry(c).slot
    BY <1>2, NotedKept, BotAssumption
  <2>2. pending' = [pending EXCEPT ![c] = e]
    BY <2>1 DEF NoteCommand, EntryOK, EntryFields
  <2>3. EntryOK(e) /\ e.slot = Entry(c).slot
    BY <2>1 DEF EntryOK, EntryFields
  <2> QED BY <1>2, <2>2, <2>3, OneEntryKept
<1> QED BY <1>1, <1>2

LEMMA AckKeeps ==
  ASSUME BotTypes, NEW c, NEW t, NEW o, NoteAck(c, t, o)
  PROVE  PendingKept
<1>1. CASE c \notin Chats
  BY <1>1, NoChatKept DEF NoteAck
<1>2. CASE c \in Chats
  <2> DEFINE n == Noted(c, t, AckQuiet)
             e == [n EXCEPT !.acks = n.acks \cup {o}]
  <2>1. EntryOK(n) /\ n.slot = Entry(c).slot
    BY <1>2, NotedKept, BotAssumption
  <2>2. pending' = [pending EXCEPT ![c] = e]
    BY <2>1 DEF NoteAck, EntryOK, EntryFields
  <2>3. EntryOK(e) /\ e.slot = Entry(c).slot
    BY <2>1 DEF EntryOK, EntryFields
  <2> QED BY <1>2, <2>2, <2>3, OneEntryKept
<1> QED BY <1>1, <1>2

LEMMA RefreshKeeps ==
  ASSUME BotTypes, NEW c \in Chats, NEW t, pending' = [pending EXCEPT ![c] = Refreshed(@, t)]
  PROVE  PendingKept
<1> DEFINE e == Refreshed(pending[c], t)
<1>1. /\ DOMAIN pending = Chats /\ (pending[c] = NoReply \/ EntryOK(pending[c])) /\ now \in Nat
  BY DEF BotTypes, MemoryTypes, StoreTypes
<1>2. CASE pending[c] = NoReply
  <2>1. e = NoReply
    BY <1>2 DEF Refreshed
  <2>2. pending' = [pending EXCEPT ![c] = e]
    BY <1>1
  <2> QED BY <2>1, <2>2, OneEntryKept
<1>3. CASE pending[c] # NoReply
  <2>1. e = [pending[c] EXCEPT !.token = t, !.last = now] /\ Entry(c) = pending[c]
    BY <1>3 DEF Refreshed, Entry
  <2>2. EntryOK(e) /\ e.slot = Entry(c).slot
    BY <1>1, <1>3, <2>1 DEF EntryOK, EntryFields
  <2>3. pending' = [pending EXCEPT ![c] = e]
    BY <1>1
  <2> QED BY <2>2, <2>3, OneEntryKept
<1> QED BY <1>2, <1>3

LEMMA NothingKeeps == ASSUME BotTypes, UNCHANGED pending PROVE PendingKept
BY DEF BotTypes, MemoryTypes, PendingKept

LEMMA DigestSteps ==
  ASSUME BotTypes, NEW u, SlotDigest(u), SameReplies
  PROVE  Talks \/ Opens
<1>0. Group \in Chats
  BY DEF Chats
<1>1. CASE Triggers(u) /\ mark' = SlotFiled
           /\ pending' = [pending EXCEPT ![Group] = WithSlot(Group, token', SlotNow)]
  <2>1. SlotNow # NoSlot /\ SlotFree(SlotNow)
    BY <1>1 DEF Triggers
  <2>2. SlotNow \in Slots
    BY <2>1 DEF SlotNow
  <2> DEFINE n == Noted(Group, token', SlotQuiet)
  <2>3. EntryOK(n)
    BY <1>0, NotedKept, BotAssumption
  <2>4. DOMAIN pending = Chats
    BY DEF BotTypes, MemoryTypes
  <2>5. /\ DOMAIN pending' = Chats /\ \A c \in Chats : c # Group => pending'[c] = pending[c]
        /\ pending'[Group] = [n EXCEPT !.slot = SlotNow]
    BY <1>0, <1>1, <2>4 DEF WithSlot
  <2>6. EntryOK(pending'[Group]) /\ pending'[Group].slot = SlotNow
    BY <2>2, <2>3, <2>5 DEF EntryOK, EntryFields
  <2> QED BY <1>1, <2>1, <2>2, <2>5, <2>6 DEF Opens, SlotDigest
<1>2. CASE mark' = Looked /\ pending' = [pending EXCEPT ![Group] = Refreshed(@, token')]
  BY <1>0, <1>2, RefreshKeeps DEF Talks, SlotDigest
<1> QED BY <1>1, <1>2 DEF SlotDigest

LEMMA WebhookSteps ==
  ASSUME BotTypes, Webhook
  PROVE  Talks \/ Opens
<1>0. Group \in Chats /\ Users \subseteq Chats
  BY DEF Chats
<1>1. ASSUME NEW u, GroupTalk(u) \/ GroupPhoto(u) PROVE Talks \/ Opens
  BY <1>1, DigestSteps DEF GroupTalk, GroupPhoto, Event, SameReplies
<1>2. ASSUME NEW u, PrivatePhoto(u) PROVE Talks
  BY <1>0, <1>2, RefreshKeeps, BotAssumption DEF PrivatePhoto, Event, SameReplies, Talks
<1>3. ASSUME NEW u, Ask(u) PROVE Talks
  BY <1>3, CommandKeeps DEF Ask, Event, SameReplies, Talks
<1>4. ASSUME NEW u, NEW o, AddPhoto(u, o) PROVE Talks
  BY <1>4, CommandKeeps DEF AddPhoto, Event, SameReplies, Talks
<1>5. ASSUME NEW u, NEW c, NEW quoted, Report(c, u, quoted) PROVE Talks
  BY <1>5, CommandKeeps DEF Report, Event, SameReplies, Talks
<1> QED BY <1>1, <1>2, <1>3, <1>4, <1>5 DEF Webhook

\* A step of one reply leaves the others and what is pending alone.
OneReply(c) ==
  /\ DOMAIN flight' = Chats /\ \A d \in Chats : d # c => flight'[d] = flight[d]
  /\ UNCHANGED <<now, pending>>

\* A mark may be given back.
Releases(c) ==
  LET f == flight[c]
  IN \/ mark' = mark
     \/ f.owns /\ f.slot \in Slots /\ mark' = [mark EXCEPT ![f.slot] = NoMark]

\* A reply ends without an answer, which may have been lost on its way.
Gives(c) ==
  LET f == flight[c]
  IN /\ f # NoFlight /\ f.stage \in {"read", "send"}
     /\ OneReply(c) /\ flight'[c] = NoFlight /\ Releases(c) /\ UNCHANGED reportVars
     /\ \/ UNCHANGED <<seen, lost>>
        \/ f.stage = "send" /\ seen' = Posted(f) /\ lost' = Unnoted(OwnSlot(f), f.leaves)

\* A report without content gives its mark back; the rest is sent.
Decides(c) ==
  LET f == flight[c]
      g == flight'[c]
  IN /\ f # NoFlight /\ f.stage = "upload"
     /\ OneReply(c) /\ UNCHANGED <<reportVars, seen, lost>>
     /\ \/ g = NoFlight
        \/ /\ g # NoFlight /\ FlightOK(g) /\ g.stage = "send"
           /\ g.slot = f.slot /\ g.leaves = f.leaves
           /\ g.owns => f.owns /\ mark' = mark
     /\ Releases(c)

\* A reply moves to a later stage and keeps all else.
MovesTo(c, stage) ==
  LET f == flight[c]
      g == flight'[c]
  IN /\ g # NoFlight /\ FlightOK(g) /\ g.stage = stage
     /\ g.slot = f.slot /\ g.owns = f.owns
     /\ g.carried = f.carried /\ g.leaves = f.leaves

\* LINE has taken the reply.
Sends(c) ==
  LET f == flight[c]
  IN /\ f # NoFlight /\ f.stage = "send"
     /\ OneReply(c) /\ UNCHANGED <<mark, reportVars, lost>> /\ seen' = Posted(f)
     /\ \/ f.slot = NoSlot /\ flight'[c] = NoFlight
        \/ f.slot # NoSlot /\ MovesTo(c, "report")

NotesLeaves(c) ==
  LET f == flight[c]
  IN /\ f # NoFlight /\ f.stage = "report" /\ MovesTo(c, "mark")
     /\ OneReply(c) /\ UNCHANGED <<mark, confirmed, seen>>
     /\ \/ MarkReported(f.leaves) /\ UNCHANGED lost
        \/ lost' = Unnoted({}, f.leaves) /\ UNCHANGED leave

NotesSlot(c) ==
  LET f == flight[c]
  IN /\ f # NoFlight /\ f.stage = "mark" /\ MovesTo(c, "confirm")
     /\ OneReply(c) /\ UNCHANGED <<reportVars, seen>>
     /\ \/ f.owns /\ MarkSent(f.slot) /\ UNCHANGED lost
        \/ ~f.owns /\ UNCHANGED <<mark, lost>>
        \/ f.owns /\ lost' = Unnoted({f.slot}, {}) /\ UNCHANGED mark

NotesFeedback(c) ==
  LET f == flight[c]
  IN /\ f # NoFlight /\ f.stage = "confirm"
     /\ OneReply(c) /\ flight'[c] = NoFlight /\ UNCHANGED <<mark, leave, seen, lost>>
     /\ confirmed' = confirmed \/ confirmed' = confirmed \cup f.carried

LEMMA ReplyOpened ==
  ASSUME BotTypes, NEW c \in Chats
  PROVE  /\ DOMAIN flight = Chats /\ now \in Nat
         /\ flight[c] # NoFlight => FlightOK(flight[c])
         /\ NoFlight.stage \notin Stages
BY DEF BotTypes, MemoryTypes, StoreTypes, NoFlight, Stages

LEMMA OverIs ==
  ASSUME BotTypes, NEW c \in Chats, Over(c)
  PROVE  /\ DOMAIN flight' = Chats /\ flight'[c] = NoFlight
         /\ \A d \in Chats : d # c => flight'[d] = flight[d]
BY DEF BotTypes, MemoryTypes, Over

LEMMA GivesSteps ==
  ASSUME BotTypes, NEW c \in Chats, ReadFails(c) \/ SendFails(c) \/ SendUnanswered(c)
  PROVE  Gives(c)
<1>1. /\ flight[c] # NoFlight /\ FlightOK(flight[c]) /\ flight[c].stage \in {"read", "send"}
      /\ GiveUp(c) /\ UNCHANGED <<now, pending, reportVars>>
  BY ReplyOpened DEF ReadFails, SendFails, SendUnanswered, Accepted, At
<1>2. OneReply(c) /\ flight'[c] = NoFlight
  BY <1>1, OverIs DEF GiveUp, OneReply
<1>3. Releases(c)
  BY <1>1 DEF GiveUp, Release, DropMark, Releases, FlightOK
<1>4. \/ UNCHANGED <<seen, lost>>
      \/ /\ flight[c].stage = "send" /\ seen' = Posted(flight[c])
         /\ lost' = Unnoted(OwnSlot(flight[c]), flight[c].leaves)
  BY DEF ReadFails, SendFails, SendUnanswered, Accepted, At
<1> QED BY <1>1, <1>2, <1>3, <1>4 DEF Gives

\* One reply whose stage and owned mark change.
LEMMA StageMoves ==
  ASSUME BotTypes, NEW c \in Chats, flight[c] # NoFlight, NEW stage \in Stages,
         NEW owns \in BOOLEAN, owns => flight[c].owns,
         stage \in {"report", "mark", "confirm"} => flight[c].slot # NoSlot,
         stage \in {"read", "act", "open"} => flight[c].leaves = {},
         flight' = [flight EXCEPT ![c].stage = stage, ![c].owns = owns]
  PROVE  LET f == flight[c]
             g == flight'[c]
         IN /\ DOMAIN flight' = Chats /\ \A d \in Chats : d # c => flight'[d] = flight[d]
            /\ g # NoFlight /\ FlightOK(g) /\ g.stage = stage /\ g.owns = owns
            /\ g.slot = f.slot
            /\ g.carried = f.carried /\ g.leaves = f.leaves
<1> DEFINE f == flight[c]
           g == flight'[c]
<1>1. FlightOK(f) /\ DOMAIN flight = Chats
  BY ReplyOpened
<1>2. /\ DOMAIN flight' = Chats /\ \A d \in Chats : d # c => flight'[d] = flight[d]
      /\ DOMAIN g = FlightFields /\ g.stage = stage /\ g.owns = owns
      /\ g.slot = f.slot /\ g.carried = f.carried /\ g.leaves = f.leaves
  BY <1>1 DEF FlightOK, FlightFields
<1>3. FlightOK(g)
  BY <1>1, <1>2 DEF FlightOK
<1> QED BY <1>2, <1>3, NotNoFlight

LEMMA StageMovesTo ==
  ASSUME BotTypes, NEW c \in Chats, flight[c] # NoFlight, NEW stage \in {"report", "mark", "confirm"},
         flight[c].slot # NoSlot, flight' = [flight EXCEPT ![c].stage = stage]
  PROVE  /\ DOMAIN flight' = Chats /\ \A d \in Chats : d # c => flight'[d] = flight[d]
         /\ MovesTo(c, stage)
<1> DEFINE f == flight[c]
           g == flight'[c]
<1>1. FlightOK(f) /\ DOMAIN flight = Chats
  BY ReplyOpened
<1>2. /\ DOMAIN flight' = Chats /\ \A d \in Chats : d # c => flight'[d] = flight[d]
      /\ DOMAIN g = FlightFields /\ g.stage = stage /\ g.owns = f.owns
      /\ g.slot = f.slot /\ g.carried = f.carried /\ g.leaves = f.leaves
  BY <1>1 DEF FlightOK, FlightFields
<1>3. FlightOK(g)
  BY <1>1, <1>2 DEF FlightOK, Stages
<1>4. g # NoFlight
  BY <1>3, NotNoFlight DEF FlightOK
<1> QED BY <1>2, <1>3, <1>4 DEF MovesTo

LEMMA DecideSteps ==
  ASSUME BotTypes, NEW c \in Chats, DecideReport(c)
  PROVE  Decides(c)
<1> DEFINE f == flight[c]
<1>1. /\ f # NoFlight /\ FlightOK(f) /\ f.stage = "upload" /\ DOMAIN flight = Chats
      /\ UNCHANGED <<now, pending, reportVars, seen, lost>>
  BY ReplyOpened DEF DecideReport, At, Quiet
<1>2. Releases(c) /\ (f.included \/ ~f.owns => mark' = mark)
  BY <1>1 DEF DecideReport, Release, DropMark, Releases, FlightOK
<1>3. CASE Over(c)
  BY <1>1, <1>2, <1>3, OverIs DEF Decides, OneReply
<1>4. CASE flight' = [flight EXCEPT ![c].stage = "send", ![c].owns = @ /\ f.included]
  <2> DEFINE owns == f.owns /\ f.included
  <2>1. flight' = [flight EXCEPT ![c].stage = "send", ![c].owns = owns]
    BY <1>1, <1>4 DEF FlightOK, FlightFields
  <2>2. owns \in BOOLEAN /\ (owns => f.owns /\ f.included)
    BY <1>1 DEF FlightOK
  <2> HIDE DEF owns
  <2>3. /\ DOMAIN flight' = Chats /\ \A d \in Chats : d # c => flight'[d] = flight[d]
        /\ flight'[c] # NoFlight /\ FlightOK(flight'[c]) /\ flight'[c].stage = "send"
        /\ flight'[c].owns = owns /\ flight'[c].slot = f.slot
        /\ flight'[c].leaves = f.leaves
    BY <1>1, <2>1, <2>2, StageMoves DEF Stages
  <2> QED BY <1>1, <1>2, <2>2, <2>3 DEF Decides, OneReply
<1> QED BY <1>3, <1>4 DEF DecideReport

LEMMA SendSteps ==
  ASSUME BotTypes, NEW c \in Chats, Send(c)
  PROVE  Sends(c)
<1>1. /\ flight[c] # NoFlight /\ flight[c].stage = "send" /\ seen' = Posted(flight[c])
      /\ UNCHANGED <<now, pending, mark, reportVars, lost>>
  BY DEF Send, Accepted, At, Quiet
<1>2. CASE flight[c].slot = NoSlot /\ Over(c)
  BY <1>1, <1>2, OverIs DEF Sends, OneReply
<1>3. CASE flight[c].slot # NoSlot /\ flight' = [flight EXCEPT ![c].stage = "report"]
  BY <1>1, <1>3, StageMovesTo DEF Sends, OneReply
<1> QED BY <1>2, <1>3 DEF Send

LEMMA NoteSteps ==
  ASSUME BotTypes, NEW c \in Chats
  PROVE  /\ NoteLeaves(c) => NotesLeaves(c)
         /\ NoteSlot(c) => NotesSlot(c)
         /\ NoteFeedback(c) => NotesFeedback(c)
<1>1. ASSUME NoteLeaves(c) PROVE NotesLeaves(c)
  <2>1. /\ flight[c] # NoFlight /\ flight[c].stage = "report" /\ flight[c].slot # NoSlot
        /\ flight' = [flight EXCEPT ![c].stage = "mark"]
        /\ UNCHANGED <<now, pending, mark, confirmed, seen>>
    BY <1>1, ReplyOpened DEF NoteLeaves, At, FlightOK
  <2>2. \/ MarkReported(flight[c].leaves) /\ UNCHANGED lost
        \/ lost' = Unnoted({}, flight[c].leaves) /\ UNCHANGED leave
    BY <1>1 DEF NoteLeaves
  <2> QED BY <2>1, <2>2, StageMovesTo DEF NotesLeaves, OneReply
<1>2. ASSUME NoteSlot(c) PROVE NotesSlot(c)
  <2>1. /\ flight[c] # NoFlight /\ flight[c].stage = "mark" /\ flight[c].slot # NoSlot
        /\ flight' = [flight EXCEPT ![c].stage = "confirm"]
        /\ UNCHANGED <<now, pending, reportVars, seen>>
    BY <1>2, ReplyOpened DEF NoteSlot, At, FlightOK
  <2>2. \/ flight[c].owns /\ MarkSent(flight[c].slot) /\ UNCHANGED lost
        \/ ~flight[c].owns /\ UNCHANGED <<mark, lost>>
        \/ flight[c].owns /\ lost' = Unnoted({flight[c].slot}, {}) /\ UNCHANGED mark
    BY <1>2 DEF NoteSlot
  <2> QED BY <2>1, <2>2, StageMovesTo DEF NotesSlot, OneReply
<1>3. ASSUME NoteFeedback(c) PROVE NotesFeedback(c)
  BY <1>3, OverIs DEF NoteFeedback, At, NotesFeedback, OneReply
<1> QED BY <1>1, <1>2, <1>3

\* Every step is one of these.
LEMMA BotSteps ==
  ASSUME BotTypes, [BotNext]_staffVars
  PROVE  \/ Talks \/ Opens \/ PopDue \/ Tick \/ Restart \/ LeaveChanges
         \/ \E c \in Chats :
              \/ Advances(c) \/ Gives(c) \/ Decides(c) \/ Sends(c)
              \/ NotesLeaves(c) \/ NotesSlot(c) \/ NotesFeedback(c)
<1>1. ASSUME NEW c \in Chats, Step(c)
      PROVE  \/ Advances(c) \/ Gives(c) \/ Decides(c) \/ Sends(c)
             \/ NotesLeaves(c) \/ NotesSlot(c) \/ NotesFeedback(c)
  BY <1>1, ReadAdvances, TicketAdvances, LeavesAdvance, GivesSteps, DecideSteps, SendSteps, NoteSteps
     DEF Step
<1>2. ASSUME NEW t, UploadDone(t) \/ AnswerEarly(t) PROVE Talks
  <2>1. PendingKept
    BY <1>2, NothingKeeps, AckKeeps DEF UploadDone, AnswerEarly
  <2> QED BY <1>2, <2>1 DEF UploadDone, AnswerEarly, slotVars, botVars, reportVars, Talks, SameReplies
<1>3. CASE UNCHANGED staffVars
  BY <1>3, NothingKeeps DEF staffVars, slotVars, botVars, reportVars, Talks, SameReplies
<1> QED BY <1>1, <1>2, <1>3, WebhookSteps DEF BotNext

\* Marks that are dropped, and the one that is filed.
LEMMA LookedIs ==
  ASSUME StoreTypes
  PROVE  /\ Looked \in [Slots -> Marks]
         /\ \A s \in Slots : \/ Looked[s] = mark[s]
                             \/ s = SlotNow /\ SlotFree(s) /\ Looked[s] = NoMark
         /\ SlotNow \in Slots =>
              /\ SlotFiled \in [Slots -> Marks]
              /\ SlotFiled[SlotNow] = Pending
              /\ \A s \in Slots : s # SlotNow => SlotFiled[s] = mark[s]
<1>1. mark \in [Slots -> Marks] /\ now \in Nat /\ NoMark \in Marks /\ Pending \in Marks
  BY DEF StoreTypes, Marks, Pending
<1> QED BY <1>1 DEF Looked, SlotFiled

\* A slot is counted as late, and nothing else changes.
LEMMA LateIs ==
  ASSUME StoreTypes, CountLate
  PROVE  /\ lost' \in [slots : [Slots -> Nat], leaves : [DOMAIN leave -> Nat], late : [Slots -> Nat]]
         /\ lost'.slots = lost.slots /\ lost'.leaves = lost.leaves
         /\ \A s \in Slots : lost'.late[s] =
              lost.late[s] + (IF s = SlotNow /\ TakenForDead(s) /\ OnItsWay(s) THEN 1 ELSE 0)
<1> DEFINE late == [s \in Slots |-> lost.late[s] +
                     (IF s = SlotNow /\ TakenForDead(s) /\ OnItsWay(s) THEN 1 ELSE 0)]
<1>1. lost \in [slots : [Slots -> Nat], leaves : [DOMAIN leave -> Nat], late : [Slots -> Nat]]
  BY DEF StoreTypes
<1>2. lost' = [lost EXCEPT !.late = late]
  BY <1>1 DEF CountLate
<1>3. late \in [Slots -> Nat]
  BY <1>1
<1>4. \A s \in Slots : late[s] =
        lost.late[s] + (IF s = SlotNow /\ TakenForDead(s) /\ OnItsWay(s) THEN 1 ELSE 0)
  OBVIOUS
<1> HIDE DEF late
<1> QED BY <1>1, <1>2, <1>3, <1>4

\* The types depend on the flights, what is pending and the tables only.
LEMMA RepliesTyped ==
  ASSUME BotTypes, UNCHANGED <<now, leave>>, DOMAIN pending' = Chats, DOMAIN flight' = Chats,
         \A c \in Chats : pending'[c] = NoReply \/ EntryOK(pending'[c]),
         \A c \in Chats : flight'[c] = NoFlight \/ FlightOK(flight'[c]),
         \A c \in Chats : c # Group =>
           /\ pending'[c] = NoReply \/ pending'[c].slot = NoSlot
           /\ flight'[c] = NoFlight \/ flight'[c].slot = NoSlot
  PROVE  MemoryTypes'
BY DEF BotTypes, MemoryTypes, FlightOK, EntryOK

LEMMA OneReplyTyped ==
  ASSUME BotTypes, NEW c \in Chats, OneReply(c), UNCHANGED leave,
         \/ flight'[c] = NoFlight
         \/ FlightOK(flight'[c]) /\ flight[c] # NoFlight /\ flight'[c].slot = flight[c].slot
  PROVE  MemoryTypes'
<1>1. /\ \A d \in Chats : flight'[d] = NoFlight \/ FlightOK(flight'[d])
      /\ \A d \in Chats : d # Group => flight'[d] = NoFlight \/ flight'[d].slot = NoSlot
  BY DEF OneReply, BotTypes, MemoryTypes
<1> QED BY <1>1, RepliesTyped DEF OneReply, BotTypes, MemoryTypes

LEMMA CountsTyped ==
  ASSUME StoreTypes, NEW f, NEW slots, NEW leaves
  PROVE  /\ f.carried \subseteq Feedback =>
              Posted(f) \in [slots : [Slots -> Nat], leaves : [DOMAIN leave -> Nat],
                             shown : SUBSET Feedback, cut : SUBSET Feedback]
         /\ \A s \in Slots : Posted(f).slots[s] =
              seen.slots[s] + (IF f.owns /\ s = f.slot THEN 1 ELSE 0)
         /\ \A l \in DOMAIN leave : Posted(f).leaves[l] =
              seen.leaves[l] + (IF l \in f.leaves THEN 1 ELSE 0)
         /\ Posted(f).shown \cup Posted(f).cut = seen.shown \cup seen.cut \cup f.carried
         /\ Unnoted(slots, leaves) \in [slots : [Slots -> Nat], leaves : [DOMAIN leave -> Nat], late : [Slots -> Nat]]
         /\ \A s \in Slots : Unnoted(slots, leaves).slots[s] =
              lost.slots[s] + (IF s \in slots THEN 1 ELSE 0)
         /\ \A l \in DOMAIN leave : Unnoted(slots, leaves).leaves[l] =
              lost.leaves[l] + (IF l \in leaves THEN 1 ELSE 0)
         /\ Unnoted(slots, leaves).late = lost.late
<1>1. /\ seen \in [slots : [Slots -> Nat], leaves : [DOMAIN leave -> Nat], shown : SUBSET Feedback, cut : SUBSET Feedback]
      /\ lost \in [slots : [Slots -> Nat], leaves : [DOMAIN leave -> Nat], late : [Slots -> Nat]]
  BY DEF StoreTypes
<1> DEFINE s1 == [s \in Slots |-> seen.slots[s] + (IF f.owns /\ s = f.slot THEN 1 ELSE 0)]
           l1 == [l \in DOMAIN leave |-> seen.leaves[l] + (IF l \in f.leaves THEN 1 ELSE 0)]
           s2 == [s \in Slots |-> lost.slots[s] + (IF s \in slots THEN 1 ELSE 0)]
           l2 == [l \in DOMAIN leave |-> lost.leaves[l] + (IF l \in leaves THEN 1 ELSE 0)]
<1>2. s1 \in [Slots -> Nat] /\ l1 \in [DOMAIN leave -> Nat]
  BY <1>1
<1>3. s2 \in [Slots -> Nat] /\ l2 \in [DOMAIN leave -> Nat]
  BY <1>1
<1>4. Posted(f) = [slots |-> s1, leaves |-> l1, shown |-> seen.shown \cup Shown(f.carried),
                   cut |-> seen.cut \cup (f.carried \ Shown(f.carried))]
  BY <1>1 DEF Posted
<1>5. Unnoted(slots, leaves) = [slots |-> s2, leaves |-> l2, late |-> lost.late]
  BY <1>1 DEF Unnoted
<1>6. /\ \A s \in Slots : s1[s] = seen.slots[s] + (IF f.owns /\ s = f.slot THEN 1 ELSE 0)
      /\ \A l \in DOMAIN leave : l1[l] = seen.leaves[l] + (IF l \in f.leaves THEN 1 ELSE 0)
      /\ \A s \in Slots : s2[s] = lost.slots[s] + (IF s \in slots THEN 1 ELSE 0)
      /\ \A l \in DOMAIN leave : l2[l] = lost.leaves[l] + (IF l \in leaves THEN 1 ELSE 0)
  OBVIOUS
<1>7. Shown(f.carried) \subseteq f.carried
  BY DEF Shown, Oldest
<1> HIDE DEF s1, l1, s2, l2
<1> QED BY <1>1, <1>2, <1>3, <1>4, <1>5, <1>6, <1>7

LEMMA BotTypesInit == BotInit => BotTypes
<1> SUFFICES ASSUME BotInit PROVE BotTypes
  OBVIOUS
<1>1. now \in Nat /\ leave \in [DOMAIN leave -> LeaveRecords] /\ mark \in [Slots -> Marks]
  BY BotAssumption DEF BotInit, ReportInit, LeaveRecords, Marks
<1>2. /\ seen \in [slots : [Slots -> Nat], leaves : [DOMAIN leave -> Nat], shown : SUBSET Feedback, cut : SUBSET Feedback]
      /\ lost \in [slots : [Slots -> Nat], leaves : [DOMAIN leave -> Nat], late : [Slots -> Nat]]
  BY DEF BotInit, Count
<1>3. MemoryTypes
  BY DEF BotInit, DebouncerInit, MemoryTypes
<1> QED BY <1>1, <1>2, <1>3 DEF BotTypes, StoreTypes

LEMMA BotTypesStep ==
  ASSUME BotTypes, [BotNext]_staffVars
  PROVE  BotTypes'
<1>0. /\ StoreTypes /\ MemoryTypes /\ Group \in Chats
      /\ mark \in [Slots -> Marks] /\ leave \in [DOMAIN leave -> LeaveRecords] /\ now \in Nat
      /\ \A c \in Chats : flight[c] = NoFlight \/ FlightOK(flight[c])
  BY DEF BotTypes, StoreTypes, MemoryTypes, Chats
<1>1. ASSUME SameReplies, mark' \in [Slots -> Marks], UNCHANGED lost \/ CountLate PROVE StoreTypes'
  <2>1. lost' \in [slots : [Slots -> Nat], leaves : [DOMAIN leave -> Nat], late : [Slots -> Nat]]
    BY <1>0, <1>1, LateIs DEF StoreTypes
  <2> QED BY <1>0, <1>1, <2>1 DEF SameReplies, reportVars, StoreTypes, Marks
<1>2. CASE Talks
  <2>1. mark' \in [Slots -> Marks]
    BY <1>0, <1>2, LookedIs DEF Talks
  <2>2. MemoryTypes'
    BY <1>0, <1>2, RepliesTyped DEF Talks, SameReplies, reportVars, PendingKept, MemoryTypes
  <2> QED BY <1>1, <1>2, <2>1, <2>2 DEF Talks, BotTypes
<1>3. CASE Opens
  <2>1. mark' \in [Slots -> Marks]
    BY <1>0, <1>3, LookedIs DEF Opens
  <2>2. \A c \in Chats : pending'[c] = NoReply \/ EntryOK(pending'[c])
    BY <1>0, <1>3 DEF Opens, MemoryTypes
  <2>3. MemoryTypes'
    BY <1>0, <1>3, <2>2, RepliesTyped DEF Opens, SameReplies, reportVars, MemoryTypes
  <2> QED BY <1>1, <1>3, <2>1, <2>3 DEF Opens, BotTypes
<1>4. CASE PopDue
  <2>1. UNCHANGED <<now, mark, reportVars, seen, lost>>
    BY <1>4 DEF PopDue, Quiet
  <2>2. StoreTypes'
    BY <1>0, <2>1 DEF StoreTypes, Marks, reportVars
  <2>3. /\ DOMAIN pending' = Chats /\ DOMAIN flight' = Chats
        /\ \A c \in Chats : pending'[c] = NoReply \/ pending'[c] = pending[c]
        /\ \A c \in Chats : flight'[c] = NoFlight
                              \/ (pending[c] # NoReply /\ flight'[c] = Taken(pending[c]))
    BY <1>4 DEF PopDue, Due
  <2>4. \A c \in Chats : flight'[c] = NoFlight
          \/ (pending[c] # NoReply /\ FlightOK(flight'[c]) /\ flight'[c].slot = pending[c].slot)
    <3>1. ASSUME NEW e, EntryOK(e) PROVE FlightOK(Taken(e)) /\ Taken(e).slot = e.slot
      BY <1>0, <3>1 DEF Taken, FlightOK, EntryOK, FlightFields, Stages
    <3> QED BY <1>0, <2>3, <3>1 DEF MemoryTypes
  <2>5. MemoryTypes'
    BY <1>0, <2>1, <2>3, <2>4, RepliesTyped DEF MemoryTypes, reportVars
  <2> QED BY <2>2, <2>5 DEF BotTypes
<1>5. CASE Tick
  <2>1. now' = now + 1 /\ UNCHANGED <<mark, pending, reportVars, flight, seen, lost>>
    BY <1>5 DEF Tick, botVars
  <2>2. mark' \in [Slots -> Marks'] /\ now' \in Nat
    <3>1. 0 .. now \subseteq 0 .. now'
      BY <1>0, <2>1
    <3> QED BY <1>0, <2>1, <3>1 DEF Marks
  <2>3. \A c \in Chats : pending[c] = NoReply \/ EntryOK(pending[c])'
    <3>1. ASSUME NEW e, EntryOK(e) PROVE EntryOK(e)'
      BY <1>0, <2>1, <3>1 DEF EntryOK
    <3> QED BY <1>0, <2>1, <3>1 DEF MemoryTypes
  <2>4. MemoryTypes'
    BY <1>0, <2>1, <2>3 DEF MemoryTypes, FlightOK, reportVars
  <2>5. StoreTypes'
    BY <1>0, <2>1, <2>2 DEF StoreTypes, reportVars
  <2> QED BY <2>4, <2>5 DEF BotTypes
<1>6. CASE Restart
  <2>1. /\ UNCHANGED <<now, mark, leave, confirmed, seen>>
        /\ flight' = [c \in Chats |-> NoFlight] /\ pending' = [c \in Chats |-> NoReply]
        /\ \E slots, leaves : lost' = Unnoted(slots, leaves)
    BY <1>6 DEF Restart, slotVars, reportVars
  <2>2. MemoryTypes'
    BY <2>1 DEF MemoryTypes
  <2>3. lost' \in [slots : [Slots -> Nat], leaves : [DOMAIN leave -> Nat], late : [Slots -> Nat]]
    BY <1>0, <2>1, CountsTyped
  <2>4. StoreTypes'
    BY <1>0, <2>1, <2>3 DEF StoreTypes, Marks
  <2> QED BY <2>2, <2>4 DEF BotTypes
<1>7. CASE LeaveChanges
  <2>1. PICK l \in DOMAIN leave, how \in {"cancelled", "roster"} :
          leave' = [leave EXCEPT ![l].status = how]
    BY <1>7 DEF LeaveChanges, LeaveEnds
  <2>2. UNCHANGED <<now, mark, pending, flight, seen, lost>>
    BY <1>7 DEF LeaveChanges, slotVars, botVars
  <2>3. leave' \in [DOMAIN leave -> LeaveRecords] /\ DOMAIN leave' = DOMAIN leave
    BY <1>0, <2>1 DEF LeaveRecords
  <2>4. MemoryTypes'
    BY <1>0, <2>2, <2>3 DEF MemoryTypes, FlightOK, EntryOK
  <2>5. StoreTypes'
    BY <1>0, <2>2, <2>3 DEF StoreTypes, Marks
  <2> QED BY <2>4, <2>5 DEF BotTypes
<1>8. ASSUME NEW c \in Chats, Advances(c) PROVE BotTypes'
  <2>1. UNCHANGED <<now, mark, pending, leave, seen, lost>>
    BY <1>8 DEF Advances, slotVars, reportVars
  <2>2. OneReply(c) /\ FlightOK(flight'[c]) /\ flight[c] # NoFlight /\ flight'[c].slot = flight[c].slot
    BY <1>8, <2>1 DEF Advances, OneReply
  <2>3. MemoryTypes'
    BY <2>1, <2>2, OneReplyTyped
  <2>4. StoreTypes'
    BY <1>0, <2>1 DEF StoreTypes, Marks
  <2> QED BY <2>3, <2>4 DEF BotTypes
<1>9. ASSUME NEW c \in Chats, Releases(c) PROVE mark' \in [Slots -> Marks]
  BY <1>0, <1>9 DEF Releases, Marks
<1>10. ASSUME NEW c \in Chats, Gives(c) PROVE BotTypes'
  <2>1. mark' \in [Slots -> Marks] /\ UNCHANGED <<now, leave>> /\ FlightOK(flight[c])
    BY <1>0, <1>9, <1>10 DEF Gives, OneReply, reportVars
  <2>2. MemoryTypes'
    BY <1>10, <2>1, OneReplyTyped DEF Gives
  <2>3. /\ seen' \in [slots : [Slots -> Nat], leaves : [DOMAIN leave -> Nat], shown : SUBSET Feedback, cut : SUBSET Feedback]
        /\ lost' \in [slots : [Slots -> Nat], leaves : [DOMAIN leave -> Nat], late : [Slots -> Nat]]
    BY <1>0, <1>10, <2>1, CountsTyped DEF Gives, FlightOK, StoreTypes
  <2> QED BY <1>0, <2>1, <2>2, <2>3 DEF BotTypes, StoreTypes, Marks
<1>11. ASSUME NEW c \in Chats, Decides(c) PROVE BotTypes'
  <2>1. mark' \in [Slots -> Marks] /\ UNCHANGED <<now, leave, seen, lost>>
    BY <1>9, <1>11 DEF Decides, OneReply, reportVars
  <2>2. MemoryTypes'
    BY <1>11, <2>1, OneReplyTyped DEF Decides
  <2> QED BY <1>0, <2>1, <2>2 DEF BotTypes, StoreTypes, Marks
<1>12. ASSUME NEW c \in Chats, Sends(c) PROVE BotTypes'
  <2>1. UNCHANGED <<now, leave, mark, lost>> /\ FlightOK(flight[c])
    BY <1>0, <1>12 DEF Sends, OneReply, reportVars
  <2>2. MemoryTypes'
    BY <1>12, <2>1, OneReplyTyped DEF Sends, MovesTo
  <2>3. seen' \in [slots : [Slots -> Nat], leaves : [DOMAIN leave -> Nat], shown : SUBSET Feedback, cut : SUBSET Feedback]
    BY <1>0, <1>12, <2>1, CountsTyped DEF Sends, FlightOK
  <2> QED BY <1>0, <2>1, <2>2, <2>3 DEF BotTypes, StoreTypes, Marks
<1>13. ASSUME NEW c \in Chats, NotesLeaves(c) PROVE BotTypes'
  <2>1. /\ UNCHANGED <<now, mark, seen>> /\ flight[c] # NoFlight
        /\ leave' \in [DOMAIN leave -> LeaveRecords] /\ DOMAIN leave' = DOMAIN leave
    <3>1. CASE MarkReported(flight[c].leaves)
      <4>1. leave' = [l \in DOMAIN leave |->
                       [leave[l] EXCEPT !.reported = leave[l].reported \/ l \in flight[c].leaves]]
        BY <1>0, <3>1 DEF MarkReported, LeaveRecords
      <4>2. \A l \in DOMAIN leave, b \in BOOLEAN : [leave[l] EXCEPT !.reported = b] \in LeaveRecords
        BY <1>0 DEF LeaveRecords
      <4> QED BY <1>13, <4>1, <4>2 DEF NotesLeaves, OneReply
    <3>2. CASE UNCHANGED leave
      BY <1>0, <1>13, <3>2 DEF NotesLeaves, OneReply
    <3> QED BY <1>13, <3>1, <3>2 DEF NotesLeaves
  <2>2. lost' \in [slots : [Slots -> Nat], leaves : [DOMAIN leave -> Nat], late : [Slots -> Nat]]
    BY <1>0, <1>13, CountsTyped DEF NotesLeaves, StoreTypes
  <2>3. /\ \A d \in Chats : flight'[d] = NoFlight \/ FlightOK(flight'[d])
        /\ \A d \in Chats : d # Group => flight'[d] = NoFlight \/ flight'[d].slot = NoSlot
    BY <1>0, <1>13 DEF NotesLeaves, MovesTo, OneReply, MemoryTypes
  <2>4. MemoryTypes'
    BY <1>0, <1>13, <2>1, <2>3 DEF NotesLeaves, OneReply, MemoryTypes, FlightOK, EntryOK
  <2> QED BY <1>0, <2>1, <2>2, <2>4 DEF BotTypes, StoreTypes, Marks
<1>14. ASSUME NEW c \in Chats, NotesSlot(c) PROVE BotTypes'
  <2>1. UNCHANGED <<now, leave, seen>> /\ FlightOK(flight[c])
    BY <1>0, <1>14 DEF NotesSlot, OneReply, reportVars
  <2>2. MemoryTypes'
    BY <1>14, <2>1, OneReplyTyped DEF NotesSlot, MovesTo
  <2>3. lost' \in [slots : [Slots -> Nat], leaves : [DOMAIN leave -> Nat], late : [Slots -> Nat]]
    BY <1>0, <1>14, CountsTyped DEF NotesSlot, StoreTypes
  <2>4. mark' \in [Slots -> Marks]
    BY <1>0, <1>14 DEF NotesSlot, MarkSent, Marks
  <2> QED BY <1>0, <2>1, <2>2, <2>3, <2>4 DEF BotTypes, StoreTypes, Marks
<1>15. ASSUME NEW c \in Chats, NotesFeedback(c) PROVE BotTypes'
  <2>1. UNCHANGED <<now, leave, mark, seen, lost>>
    BY <1>15 DEF NotesFeedback, OneReply
  <2>2. MemoryTypes'
    BY <1>15, <2>1, OneReplyTyped DEF NotesFeedback
  <2> QED BY <1>0, <2>1, <2>2 DEF BotTypes, StoreTypes, Marks
<1> QED BY <1>2, <1>3, <1>4, <1>5, <1>6, <1>7, <1>8, <1>10, <1>11, <1>12, <1>13, <1>14, <1>15, BotSteps

-----------------------------------------------------------------------------
(* Staff bot: what was checked off was posted. *)

\* What a reply that LINE has taken still has to note was seen by the group.
Seen(f) ==
  f.stage \in {"report", "mark", "confirm"} =>
    /\ f.carried \subseteq (seen.shown \cup seen.cut)
    /\ f.stage = "report" => \A l \in f.leaves : seen.leaves[l] > 0
    /\ f.owns /\ f.stage \in {"report", "mark"} => seen.slots[f.slot] > 0

CheckedInv ==
  /\ confirmed \subseteq (seen.shown \cup seen.cut)
  /\ \A c \in Chats : flight[c] # NoFlight => Seen(flight[c])
  /\ \A l \in DOMAIN leave : leave[l].reported => seen.leaves[l] > 0
  /\ \A s \in Slots : mark[s].state = "sent" => seen.slots[s] > 0

\* The group only sees more.
SeesMore ==
  /\ (seen.shown \cup seen.cut) \subseteq (seen'.shown \cup seen'.cut)
  /\ \A s \in Slots : seen'.slots[s] \in Nat /\ seen'.slots[s] >= seen.slots[s]
  /\ \A l \in DOMAIN leave : seen'.leaves[l] \in Nat /\ seen'.leaves[l] >= seen.leaves[l]

\* A step that reports nothing: no flight is new after its post, nothing is
\* confirmed, reported or marked as sent.
LEMMA CheckedKept ==
  ASSUME BotTypes, CheckedInv, SeesMore, UNCHANGED confirmed,
         DOMAIN leave' = DOMAIN leave,
         \A l \in DOMAIN leave : leave'[l].reported => leave[l].reported,
         \A s \in Slots : mark'[s].state = "sent" => mark[s].state = "sent",
         \A c \in Chats : flight'[c] # NoFlight /\ flight'[c] # flight[c] =>
           flight'[c].stage \notin {"report", "mark", "confirm"}
  PROVE  CheckedInv'
<1>1. /\ \A l \in DOMAIN leave : seen.leaves[l] \in Nat
      /\ \A s \in Slots : seen.slots[s] \in Nat
      /\ \A c \in Chats : flight[c] = NoFlight \/ FlightOK(flight[c])
  BY DEF BotTypes, StoreTypes, MemoryTypes
<1>2. ASSUME NEW c \in Chats, flight'[c] # NoFlight PROVE Seen(flight[c])'
  <2>1. CASE flight'[c] # flight[c]
    BY <1>2, <2>1 DEF Seen
  <2>2. CASE flight'[c] = flight[c]
    BY <1>1, <1>2, <2>2 DEF Seen, CheckedInv, SeesMore, FlightOK
  <2> QED BY <2>1, <2>2
<1>3. \A s \in Slots : mark'[s].state = "sent" => seen'.slots[s] > 0
  BY <1>1 DEF CheckedInv, SeesMore
<1>4. \A l \in DOMAIN leave : leave'[l].reported => seen'.leaves[l] > 0
  BY <1>1 DEF CheckedInv, SeesMore
<1>5. confirmed' \subseteq (seen'.shown \cup seen'.cut)
  BY DEF CheckedInv, SeesMore
<1> QED BY <1>2, <1>3, <1>4, <1>5 DEF CheckedInv

LEMMA SeesSame == ASSUME StoreTypes, UNCHANGED seen PROVE SeesMore
BY DEF StoreTypes, SeesMore

LEMMA PostedSees == ASSUME StoreTypes, NEW f, seen' = Posted(f) PROVE SeesMore
<1>1. /\ \A s \in Slots : seen.slots[s] \in Nat
      /\ \A l \in DOMAIN leave : seen.leaves[l] \in Nat
  BY DEF StoreTypes
<1> QED BY <1>1, CountsTyped DEF SeesMore

LEMMA CheckedStep ==
  ASSUME BotTypes, CheckedInv, [BotNext]_staffVars
  PROVE  CheckedInv'
<1>0. /\ StoreTypes /\ NoMark.state # "sent" /\ Pending.state # "sent"
      /\ \A c \in Chats : flight[c] = NoFlight \/ FlightOK(flight[c])
      /\ mark \in [Slots -> Marks] /\ leave \in [DOMAIN leave -> LeaveRecords]
  BY DEF BotTypes, StoreTypes, MemoryTypes, NoMark, Pending
<1>1. CASE Talks
  <2>1. \A s \in Slots : mark'[s].state = "sent" => mark[s].state = "sent"
    BY <1>0, <1>1, LookedIs DEF Talks
  <2> QED BY <1>0, <1>1, <2>1, SeesSame, CheckedKept DEF Talks, SameReplies, reportVars
<1>2. CASE Opens
  <2>1. \A s \in Slots : mark'[s].state = "sent" => mark[s].state = "sent"
    BY <1>0, <1>2, LookedIs DEF Opens
  <2> QED BY <1>0, <1>2, <2>1, SeesSame, CheckedKept DEF Opens, SameReplies, reportVars
<1>3. CASE PopDue
  <2>1. \A c \in Chats : flight'[c] # NoFlight => flight'[c].stage = "read"
    BY <1>3 DEF PopDue, Taken, Due
  <2> QED BY <1>0, <1>3, <2>1, SeesSame, CheckedKept DEF PopDue, reportVars
<1>4. CASE Tick
  BY <1>0, <1>4, SeesSame, CheckedKept DEF Tick, reportVars, botVars
<1>5. CASE Restart
  BY <1>0, <1>5, SeesSame, CheckedKept DEF Restart, reportVars, slotVars
<1>6. CASE LeaveChanges
  <2>1. PICK l \in DOMAIN leave, how \in {"cancelled", "roster"} :
          leave' = [leave EXCEPT ![l].status = how]
    BY <1>6 DEF LeaveChanges, LeaveEnds
  <2>2. DOMAIN leave' = DOMAIN leave /\ \A k \in DOMAIN leave : leave'[k].reported => leave[k].reported
    BY <1>0, <2>1 DEF LeaveRecords
  <2> QED BY <1>0, <1>6, <2>2, SeesSame, CheckedKept DEF LeaveChanges, slotVars, botVars
<1>7. ASSUME NEW c \in Chats, Advances(c) PROVE CheckedInv'
  BY <1>0, <1>7, SeesSame, CheckedKept DEF Advances, slotVars, reportVars, Early
<1>8. ASSUME NEW c \in Chats, Releases(c)
      PROVE  \A s \in Slots : mark'[s].state = "sent" => mark[s].state = "sent"
  BY <1>0, <1>8 DEF Releases
<1>9. ASSUME NEW c \in Chats, Gives(c) PROVE CheckedInv'
  <2>1. SeesMore
    BY <1>0, <1>9, SeesSame, PostedSees DEF Gives
  <2> QED BY <1>0, <1>8, <1>9, <2>1, CheckedKept DEF Gives, OneReply, reportVars
<1>10. ASSUME NEW c \in Chats, Decides(c) PROVE CheckedInv'
  <2>1. \A d \in Chats : flight'[d] # NoFlight /\ flight'[d] # flight[d] =>
          flight'[d].stage \notin {"report", "mark", "confirm"}
    BY <1>10 DEF Decides, OneReply
  <2> QED BY <1>0, <1>8, <1>10, <2>1, SeesSame, CheckedKept DEF Decides, reportVars
<1>11. ASSUME NEW c \in Chats, Sends(c) PROVE CheckedInv'
  <2> DEFINE f == flight[c]
  <2>1. /\ FlightOK(f) /\ UNCHANGED <<mark, leave, confirmed>> /\ seen' = Posted(f)
        /\ \A d \in Chats : d # c => flight'[d] = flight[d]
        /\ flight'[c] = NoFlight \/ MovesTo(c, "report")
    BY <1>0, <1>11 DEF Sends, OneReply, reportVars
  <2>2. SeesMore
    BY <1>0, <2>1, PostedSees
  <2>3. /\ f.carried \subseteq (seen'.shown \cup seen'.cut)
        /\ \A l \in f.leaves : seen'.leaves[l] > 0
        /\ f.owns => seen'.slots[f.slot] > 0
    <3>1. /\ \A s \in Slots : seen.slots[s] \in Nat
          /\ \A l \in DOMAIN leave : seen.leaves[l] \in Nat
      BY <1>0 DEF StoreTypes
    <3> QED BY <1>0, <2>1, <3>1, CountsTyped DEF FlightOK
  <2>4. ASSUME NEW d \in Chats, flight'[d] # NoFlight PROVE Seen(flight[d])'
    <3>1. CASE d = c
      BY <2>1, <2>3, <2>4, <3>1 DEF Seen, MovesTo
    <3>2. CASE d # c
      <4>1. flight'[d] = flight[d] /\ FlightOK(flight[d]) /\ Seen(flight[d])
        BY <1>0, <2>1, <2>4, <3>2 DEF CheckedInv
      <4>2. /\ \A s \in Slots : seen.slots[s] \in Nat
            /\ \A l \in DOMAIN leave : seen.leaves[l] \in Nat
        BY <1>0 DEF StoreTypes
      <4> QED BY <2>2, <4>1, <4>2 DEF Seen, SeesMore, FlightOK
    <3> QED BY <3>1, <3>2
  <2>5. /\ \A l \in DOMAIN leave : leave[l].reported => seen'.leaves[l] > 0
        /\ \A s \in Slots : mark[s].state = "sent" => seen'.slots[s] > 0
        /\ confirmed \subseteq (seen'.shown \cup seen'.cut)
    BY <1>0, <2>2 DEF CheckedInv, SeesMore, StoreTypes
  <2> QED BY <2>1, <2>4, <2>5 DEF CheckedInv
<1>12. ASSUME NEW c \in Chats, NEW stage \in {"mark", "confirm"}, flight[c] # NoFlight,
              flight[c].stage \in {"report", "mark"}, flight[c].stage # stage,
              MovesTo(c, stage), OneReply(c), UNCHANGED seen
       PROVE  \A d \in Chats : flight'[d] # NoFlight => Seen(flight[d])'
  BY <1>12 DEF MovesTo, OneReply, Seen, CheckedInv
<1>13. ASSUME NEW c \in Chats, NotesLeaves(c) PROVE CheckedInv'
  <2>1. \A d \in Chats : flight'[d] # NoFlight => Seen(flight[d])'
    BY <1>12, <1>13 DEF NotesLeaves
  <2>2. DOMAIN leave' = DOMAIN leave /\ \A l \in DOMAIN leave : leave'[l].reported => seen.leaves[l] > 0
    <3>1. \A l \in flight[c].leaves : seen.leaves[l] > 0
      BY <1>0, <1>13 DEF NotesLeaves, CheckedInv, Seen
    <3>2. CASE MarkReported(flight[c].leaves)
      BY <1>0, <3>1, <3>2 DEF MarkReported, CheckedInv, LeaveRecords
    <3>3. CASE UNCHANGED leave
      BY <3>3 DEF CheckedInv
    <3> QED BY <1>13, <3>2, <3>3 DEF NotesLeaves
  <2> QED BY <1>13, <2>1, <2>2 DEF NotesLeaves, CheckedInv
<1>14. ASSUME NEW c \in Chats, NotesSlot(c) PROVE CheckedInv'
  <2>1. \A d \in Chats : flight'[d] # NoFlight => Seen(flight[d])'
    BY <1>12, <1>14 DEF NotesSlot
  <2>2. \A s \in Slots : mark'[s].state = "sent" => seen.slots[s] > 0
    <3>1. flight[c].owns => seen.slots[flight[c].slot] > 0
      BY <1>0, <1>14 DEF NotesSlot, CheckedInv, Seen
    <3> QED BY <1>0, <1>14, <3>1 DEF NotesSlot, MarkSent, CheckedInv
  <2> QED BY <1>14, <2>1, <2>2 DEF NotesSlot, CheckedInv, reportVars
<1>15. ASSUME NEW c \in Chats, NotesFeedback(c) PROVE CheckedInv'
  <2>1. confirmed' \subseteq (seen.shown \cup seen.cut)
    BY <1>0, <1>15 DEF NotesFeedback, CheckedInv, Seen
  <2> QED BY <1>0, <1>15, <2>1 DEF NotesFeedback, OneReply, CheckedInv, Seen
<1> QED BY <1>1, <1>2, <1>3, <1>4, <1>5, <1>6, <1>7, <1>9, <1>10, <1>11, <1>13, <1>14, <1>15, BotSteps

-----------------------------------------------------------------------------
(* Staff bot: every leave is posted once. *)

\* The group has the picture, and the table does not know it yet.
Told(l) ==
  flight[Group] # NoFlight /\ flight[Group].stage = "report" /\ l \in flight[Group].leaves

PostedAtMost(l) ==
  \/ seen.leaves[l] <= lost.leaves[l]
  \/ seen.leaves[l] <= lost.leaves[l] + 1 /\ (leave[l].reported \/ Told(l))

LeavesPosted ==
  /\ \A l \in DOMAIN leave : PostedAtMost(l)
  /\ \A c \in Chats : flight[c] # NoFlight /\ flight[c].stage \in {"upload", "send"} =>
       \A l \in flight[c].leaves : ~leave[l].reported

\* A step that neither posts nor notes leaves, and takes none into a reply
\* that has been reported.
LEMMA LeavesKept ==
  ASSUME BotTypes, LeavesPosted, UNCHANGED seen, lost'.leaves = lost.leaves,
         DOMAIN leave' = DOMAIN leave,
         \A l \in DOMAIN leave : leave'[l].reported <=> leave[l].reported,
         \A l \in DOMAIN leave : Told(l) => Told(l)',
         \A c \in Chats :
           flight'[c] # NoFlight /\ flight'[c].stage \in {"upload", "send"} =>
             \A l \in flight'[c].leaves : l \in DOMAIN leave /\ ~leave[l].reported
  PROVE  LeavesPosted'
BY DEF LeavesPosted, PostedAtMost

LEMMA GroupOnly ==
  ASSUME BotTypes, NEW c \in Chats, flight[c] # NoFlight, flight[c].slot # NoSlot
  PROVE  c = Group
BY DEF BotTypes, MemoryTypes

LEMMA LeavesStep ==
  ASSUME BotTypes, LeavesPosted, [BotNext]_staffVars
  PROVE  LeavesPosted'
<1>0. /\ StoreTypes /\ Group \in Chats
      /\ \A c \in Chats : flight[c] = NoFlight \/ FlightOK(flight[c])
      /\ leave \in [DOMAIN leave -> LeaveRecords]
      /\ \A l \in DOMAIN leave : seen.leaves[l] \in Nat /\ lost.leaves[l] \in Nat
  BY DEF BotTypes, StoreTypes, MemoryTypes, Chats
<1>1. ASSUME NEW c \in Chats, flight[c] # NoFlight
      PROVE  flight[c].stage \in {"upload", "send"} =>
               \A l \in flight[c].leaves : l \in DOMAIN leave /\ ~leave[l].reported
  BY <1>0, <1>1 DEF LeavesPosted, FlightOK
<1>2. CASE Talks \/ Opens \/ Tick
  <2>1. UNCHANGED <<flight, leave, seen>> /\ lost'.leaves = lost.leaves
    BY <1>0, <1>2, LateIs DEF Talks, Opens, SameReplies, Tick, reportVars, botVars
  <2> QED BY <1>1, <2>1, LeavesKept DEF Told
<1>3. CASE PopDue
  <2>1. /\ flight[Group] = NoFlight /\ UNCHANGED <<leave, seen, lost>>
        /\ \A c \in Chats : flight'[c] # NoFlight => flight'[c].stage = "read"
    BY <1>0, <1>3 DEF PopDue, Taken, Idle, reportVars
  <2> QED BY <2>1, LeavesKept DEF Told
<1>4. CASE LeaveChanges
  <2>1. PICK l \in DOMAIN leave, how \in {"cancelled", "roster"} :
          leave' = [leave EXCEPT ![l].status = how]
    BY <1>4 DEF LeaveChanges, LeaveEnds
  <2>2. /\ DOMAIN leave' = DOMAIN leave /\ UNCHANGED <<flight, seen, lost>>
        /\ \A k \in DOMAIN leave : leave'[k].reported <=> leave[k].reported
    BY <1>0, <1>4, <2>1 DEF LeaveRecords, LeaveChanges, botVars
  <2> QED BY <1>1, <2>2, LeavesKept DEF Told
<1>5. CASE Restart
  <2> DEFINE open == {c \in Chats : flight[c] # NoFlight}
             told == UNION {flight[c].leaves : c \in {d \in open : flight[d].stage = "report"}}
  <2>1. /\ UNCHANGED <<leave, seen>> /\ flight' = [c \in Chats |-> NoFlight]
        /\ \E slots : lost' = Unnoted(slots, told)
    BY <1>5 DEF Restart, reportVars
  <2>2. \A l \in DOMAIN leave : Told(l) => l \in told
    BY <1>0 DEF Told
  <2> HIDE DEF told
  <2>3. \A l \in DOMAIN leave : lost'.leaves[l] = lost.leaves[l] + (IF l \in told THEN 1 ELSE 0)
    BY <1>0, <2>1, CountsTyped
  <2>4. \A l \in DOMAIN leave : PostedAtMost(l)'
    BY <1>0, <2>1, <2>2, <2>3 DEF PostedAtMost, LeavesPosted
  <2> QED BY <2>1, <2>4 DEF LeavesPosted
<1>6. ASSUME NEW c \in Chats, Advances(c) PROVE LeavesPosted'
  <2>1. /\ UNCHANGED <<leave, seen, lost>> /\ flight[c] # NoFlight
        /\ \A d \in Chats : d # c => flight'[d] = flight[d]
    BY <1>6 DEF Advances, reportVars
  <2>2. flight'[c].stage = "upload" =>
          \A l \in flight'[c].leaves : l \in DOMAIN leave /\ ~leave[l].reported
    BY <1>1, <1>6, <2>1 DEF Advances, FlightOK
  <2>3. \A l \in DOMAIN leave : c = Group => ~Told(l)
    BY <1>6 DEF Advances, Early, Told
  <2>4. \A l \in DOMAIN leave : Told(l) => Told(l)'
    BY <1>0, <2>1, <2>3 DEF Told
  <2>5. flight'[c].stage # "send"
    BY <1>6 DEF Advances, Early
  <2> QED BY <1>1, <2>1, <2>2, <2>4, <2>5, LeavesKept
<1>7. ASSUME NEW c \in Chats, OneReply(c), flight[c] # NoFlight, flight[c].stage # "report"
      PROVE  \A l \in DOMAIN leave : Told(l) => Told(l)'
  BY <1>0, <1>7 DEF OneReply, Told
\* The picture of a leave is posted: the reply is that of the group, and nobody
\* has posted it since it was read.
<1>8. ASSUME NEW c \in Chats, flight[c] # NoFlight, flight[c].stage = "send",
             NEW l \in DOMAIN leave, l \in flight[c].leaves
      PROVE  c = Group /\ seen.leaves[l] <= lost.leaves[l]
  <2>1. c = Group
    BY <1>0, <1>8, GroupOnly DEF FlightOK
  <2>2. ~leave[l].reported /\ ~Told(l)
    BY <1>1, <1>8, <2>1 DEF Told
  <2> QED BY <2>1, <2>2 DEF LeavesPosted, PostedAtMost
<1>9. ASSUME NEW c \in Chats, Gives(c) PROVE LeavesPosted'
  <2> DEFINE f == flight[c]
  <2>1. /\ f # NoFlight /\ f.stage \in {"read", "send"} /\ UNCHANGED leave /\ OneReply(c)
        /\ flight'[c] = NoFlight /\ \A d \in Chats : d # c => flight'[d] = flight[d]
    BY <1>9 DEF Gives, reportVars, OneReply
  <2>2. \A l \in DOMAIN leave : Told(l) => Told(l)'
    BY <1>7, <2>1
  <2>3. CASE UNCHANGED <<seen, lost>>
    BY <1>1, <2>1, <2>2, <2>3, LeavesKept
  <2>4. CASE f.stage = "send" /\ seen' = Posted(f) /\ lost' = Unnoted(OwnSlot(f), f.leaves)
    <3>1. \A l \in DOMAIN leave :
            /\ seen'.leaves[l] = seen.leaves[l] + (IF l \in f.leaves THEN 1 ELSE 0)
            /\ lost'.leaves[l] = lost.leaves[l] + (IF l \in f.leaves THEN 1 ELSE 0)
      BY <1>0, <2>4, CountsTyped
    <3>2. \A l \in DOMAIN leave : PostedAtMost(l)'
      BY <1>0, <2>1, <2>2, <3>1 DEF PostedAtMost, LeavesPosted
    <3> QED BY <1>1, <2>1, <3>2 DEF LeavesPosted
  <2> QED BY <1>9, <2>3, <2>4 DEF Gives
<1>10. ASSUME NEW c \in Chats, Decides(c) PROVE LeavesPosted'
  <2>1. /\ flight[c] # NoFlight /\ flight[c].stage = "upload" /\ OneReply(c)
        /\ UNCHANGED <<leave, seen, lost>>
        /\ \A d \in Chats : d # c => flight'[d] = flight[d]
        /\ flight'[c] # NoFlight => flight'[c].leaves = flight[c].leaves
    BY <1>10 DEF Decides, reportVars, OneReply
  <2>2. \A l \in DOMAIN leave : Told(l) => Told(l)'
    BY <1>7, <2>1
  <2> QED BY <1>1, <2>1, <2>2, LeavesKept
<1>11. ASSUME NEW c \in Chats, Sends(c) PROVE LeavesPosted'
  <2> DEFINE f == flight[c]
  <2>1. /\ f # NoFlight /\ f.stage = "send" /\ UNCHANGED <<leave, lost>> /\ OneReply(c)
        /\ \A d \in Chats : d # c => flight'[d] = flight[d]
        /\ \A l \in DOMAIN leave :
             seen'.leaves[l] = seen.leaves[l] + (IF l \in f.leaves THEN 1 ELSE 0)
    BY <1>0, <1>11, CountsTyped DEF Sends, reportVars, OneReply
  <2>2. \A l \in DOMAIN leave : Told(l) => Told(l)'
    BY <1>7, <2>1
  <2>3. \A l \in f.leaves : Told(l)'
    <3>1. f.leaves # {} => f.slot # NoSlot /\ c = Group
      BY <1>0, <2>1, GroupOnly DEF FlightOK
    <3> QED BY <1>11, <3>1 DEF Sends, MovesTo, Told
  <2>4. \A l \in DOMAIN leave : PostedAtMost(l)'
    BY <1>0, <1>8, <2>1, <2>2, <2>3 DEF PostedAtMost, LeavesPosted
  <2>5. flight'[c] = NoFlight \/ flight'[c].stage = "report"
    BY <1>11 DEF Sends, MovesTo
  <2> QED BY <1>1, <2>1, <2>4, <2>5 DEF LeavesPosted
<1>12. ASSUME NEW c \in Chats, NotesLeaves(c) PROVE LeavesPosted'
  <2> DEFINE f == flight[c]
  <2>1. /\ f # NoFlight /\ f.stage = "report" /\ UNCHANGED seen /\ c = Group
        /\ \A d \in Chats : d # c => flight'[d] = flight[d]
        /\ flight'[c] # NoFlight /\ flight'[c].stage = "mark"
    BY <1>0, <1>12, GroupOnly DEF NotesLeaves, OneReply, MovesTo, FlightOK
  <2>2. \A d \in Chats : d # c /\ flight[d] # NoFlight => flight[d].leaves = {}
    BY <1>0, <2>1, GroupOnly DEF FlightOK
  <2>3. /\ DOMAIN leave' = DOMAIN leave
        /\ \A l \in DOMAIN leave :
             \/ /\ leave'[l].reported <=> (leave[l].reported \/ l \in f.leaves)
                /\ lost'.leaves[l] = lost.leaves[l]
             \/ /\ leave'[l] = leave[l]
                /\ lost'.leaves[l] = lost.leaves[l] + (IF l \in f.leaves THEN 1 ELSE 0)
    <3>1. CASE MarkReported(f.leaves) /\ UNCHANGED lost
      <4>1. leave' = [l \in DOMAIN leave |->
                       [leave[l] EXCEPT !.reported = leave[l].reported \/ l \in f.leaves]]
        BY <1>0, <3>1 DEF MarkReported, LeaveRecords
      <4> QED BY <1>0, <3>1, <4>1 DEF LeaveRecords
    <3>2. CASE lost' = Unnoted({}, f.leaves) /\ UNCHANGED leave
      BY <1>0, <3>2, CountsTyped
    <3> QED BY <1>12, <3>1, <3>2 DEF NotesLeaves
  <2>4. \A l \in DOMAIN leave : Told(l) <=> l \in f.leaves
    BY <2>1 DEF Told
  <2>5. ASSUME NEW l \in DOMAIN leave PROVE PostedAtMost(l)'
    <3>1. \/ seen.leaves[l] <= lost.leaves[l]
          \/ seen.leaves[l] <= lost.leaves[l] + 1 /\ (leave[l].reported \/ l \in f.leaves)
      BY <2>4 DEF PostedAtMost, LeavesPosted
    <3>2. seen.leaves[l] \in Nat /\ lost.leaves[l] \in Nat /\ UNCHANGED seen
      BY <1>0, <2>1
    <3>3. \/ seen.leaves[l] <= lost'.leaves[l]
          \/ seen.leaves[l] <= lost'.leaves[l] + 1 /\ leave'[l].reported
      BY <2>3, <3>1, <3>2
    <3> QED BY <3>2, <3>3 DEF PostedAtMost
  <2> QED BY <2>1, <2>2, <2>3, <2>5 DEF LeavesPosted
<1>13. ASSUME NEW c \in Chats, NotesSlot(c) PROVE LeavesPosted'
  <2>1. /\ flight[c] # NoFlight /\ flight[c].stage = "mark" /\ UNCHANGED <<seen, leave>> /\ OneReply(c)
        /\ \A d \in Chats : d # c => flight'[d] = flight[d]
        /\ flight'[c].stage = "confirm"
        /\ \A l \in DOMAIN leave : lost'.leaves[l] = lost.leaves[l]
    BY <1>0, <1>13, CountsTyped DEF NotesSlot, OneReply, MovesTo, reportVars
  <2>2. \A l \in DOMAIN leave : Told(l) => Told(l)'
    BY <1>7, <2>1
  <2>3. \A l \in DOMAIN leave : PostedAtMost(l)'
    BY <1>0, <2>1, <2>2 DEF PostedAtMost, LeavesPosted
  <2> QED BY <1>1, <2>1, <2>3 DEF LeavesPosted
<1>14. ASSUME NEW c \in Chats, NotesFeedback(c) PROVE LeavesPosted'
  <2>1. /\ flight[c] # NoFlight /\ flight[c].stage = "confirm" /\ OneReply(c)
        /\ UNCHANGED <<leave, seen, lost>> /\ flight'[c] = NoFlight
        /\ \A d \in Chats : d # c => flight'[d] = flight[d]
    BY <1>14 DEF NotesFeedback, OneReply
  <2> QED BY <1>1, <1>7, <2>1, LeavesKept
<1> QED BY <1>2, <1>3, <1>4, <1>5, <1>6, <1>9, <1>10, <1>11, <1>12, <1>13, <1>14, BotSteps

-----------------------------------------------------------------------------
(* Staff bot: every slot is posted once. *)

\* The report of the slot is pending, or under way with its mark to note.
Asked(s) == pending[Group] # NoReply /\ pending[Group].slot = s

Owned(s) ==
  /\ flight[Group] # NoFlight /\ flight[Group].stage # "confirm"
  /\ flight[Group].owns /\ flight[Group].slot = s

Taking == flight[Group].stage \in {"report", "mark"}

\* The reports the group has or may get from the reply under way, less those
\* that are excused; and with the one that is pending.
Balance(s) ==
  seen.slots[s] + (IF Owned(s) /\ ~Taking THEN 1 ELSE 0) - lost.slots[s] - lost.late[s]

Debt(s) == Balance(s) + (IF Asked(s) THEN 1 ELSE 0)

\* Nothing is in the way of another report, now or when the mark is stale.
Claimable(s) == mark[s] = NoMark \/ (mark[s].state = "pending" /\ ~Asked(s) /\ ~Owned(s))

SlotOK(s) == Debt(s) <= 1 /\ (Claimable(s) => Debt(s) <= 0)

SlotsInv == \A s \in Slots : SlotOK(s)

LEMMA SlotsOpened ==
  ASSUME BotTypes, NEW s \in Slots
  PROVE  /\ Group \in Chats /\ s # NoSlot /\ Debt(s) \in Int /\ Balance(s) \in Int
         /\ seen.slots[s] \in Nat /\ lost.slots[s] \in Nat /\ lost.late[s] \in Nat
         /\ flight[Group] # NoFlight => FlightOK(flight[Group])
<1>1. seen.slots[s] \in Nat /\ lost.slots[s] \in Nat /\ lost.late[s] \in Nat
  BY DEF BotTypes, StoreTypes
<1>2. Group \in Chats /\ (flight[Group] # NoFlight => FlightOK(flight[Group]))
  BY DEF BotTypes, MemoryTypes, Chats
<1> QED BY <1>1, <1>2, WindowAssumption DEF Debt, Balance

LEMMA SlotsOpenedNext ==
  ASSUME BotTypes', NEW s \in Slots
  PROVE  /\ seen'.slots[s] \in Nat /\ lost'.slots[s] \in Nat /\ lost'.late[s] \in Nat
         /\ Debt(s)' \in Int /\ Balance(s)' \in Int
<1>1. seen'.slots[s] \in Nat /\ lost'.slots[s] \in Nat /\ lost'.late[s] \in Nat
  BY DEF BotTypes, StoreTypes
<1> QED BY <1>1 DEF Debt, Balance

\* A report less to come or one more excused; or the mark is that of a report
\* that was sent; or as it was, with the report it stands for.
LEMMA SlotKept ==
  ASSUME BotTypes, BotTypes', NEW s \in Slots, SlotOK(s),
         \/ Debt(s)' <= Debt(s) - 1
         \/ Debt(s)' <= Debt(s) /\ mark'[s].state = "sent"
         \/ /\ Debt(s)' <= Debt(s) /\ mark'[s] = mark[s]
            /\ Asked(s) \/ Owned(s) => Asked(s)' \/ Owned(s)'
  PROVE  SlotOK(s)'
<1>1. Debt(s) \in Int /\ Debt(s)' \in Int
  BY SlotsOpened, SlotsOpenedNext
<1>2. CASE Debt(s)' <= Debt(s) - 1
  BY <1>1, <1>2 DEF SlotOK
<1>3. CASE Debt(s)' <= Debt(s) /\ mark'[s].state = "sent"
  <2>1. ~Claimable(s)'
    BY <1>3 DEF Claimable, NoMark
  <2> QED BY <1>1, <1>3, <2>1 DEF SlotOK
<1>4. CASE /\ Debt(s)' <= Debt(s) /\ mark'[s] = mark[s]
           /\ Asked(s) \/ Owned(s) => Asked(s)' \/ Owned(s)'
  <2>1. Claimable(s)' => Claimable(s)
    BY <1>4 DEF Claimable
  <2> QED BY <1>1, <1>4, <2>1 DEF SlotOK
<1> QED BY <1>2, <1>3, <1>4

\* A mark that is deleted or filed anew belonged to nobody, or its report is
\* counted as late.
LEMMA FreeIsExcused ==
  ASSUME BotTypes, BotTypes', NEW s \in Slots, SlotOK(s), s = SlotNow, SlotFree(s), CountLate,
         UNCHANGED <<flight, seen>>
  PROVE  Balance(s)' + (IF Asked(s) THEN 1 ELSE 0) <= 0
<1>1. /\ Debt(s) \in Int /\ Balance(s) \in Int /\ Balance(s)' \in Int
      /\ lost.late[s] \in Nat /\ lost'.late[s] \in Nat
      /\ lost.slots[s] \in Nat /\ lost'.slots[s] = lost.slots[s] /\ seen.slots[s] \in Nat
      /\ Owned(s)' = Owned(s) /\ Taking' = Taking
  BY SlotsOpened, SlotsOpenedNext, LateIs DEF BotTypes, Owned, Taking
<1>2. OnItsWay(s) <=> Asked(s) \/ Owned(s)
  BY DEF OnItsWay, Asked, Owned
<1>3. CASE TakenForDead(s) /\ OnItsWay(s)
  <2>1. lost'.late[s] = lost.late[s] + 1
    BY <1>3, LateIs DEF BotTypes
  <2>2. Balance(s)' = Balance(s) - 1
    BY <1>1, <2>1 DEF Balance
  <2> QED BY <1>1, <2>2 DEF SlotOK, Debt
<1>4. CASE ~(TakenForDead(s) /\ OnItsWay(s))
  <2>1. lost'.late[s] = lost.late[s]
    BY <1>1, <1>4, LateIs DEF BotTypes
  <2>2. Balance(s)' = Balance(s)
    BY <1>1, <2>1 DEF Balance
  <2>3. Claimable(s)
    BY <1>2, <1>4 DEF Claimable, SlotFree, TakenForDead
  <2> QED BY <1>1, <2>2, <2>3 DEF SlotOK, Debt
<1> QED BY <1>3, <1>4

LEMMA LateIsMore ==
  ASSUME BotTypes, NEW s \in Slots, UNCHANGED lost \/ CountLate
  PROVE  lost'.slots[s] = lost.slots[s] /\ lost'.late[s] \in Nat /\ lost'.late[s] >= lost.late[s]
<1>1. CASE UNCHANGED lost
  BY <1>1, SlotsOpened
<1>2. CASE CountLate
  BY <1>2, SlotsOpened, LateIs DEF BotTypes
<1> QED BY <1>1, <1>2

LEMMA SlotsStep ==
  ASSUME BotTypes, SlotsInv, [BotNext]_staffVars
  PROVE  SlotsInv'
<1> SUFFICES ASSUME NEW s \in Slots PROVE SlotOK(s)'
  BY DEF SlotsInv
<1>0. /\ SlotOK(s) /\ BotTypes' /\ StoreTypes /\ MemoryTypes /\ Group \in Chats
      /\ (flight[Group] # NoFlight => FlightOK(flight[Group]))
  BY BotTypesStep, SlotsOpened DEF SlotsInv, BotTypes
<1>i. /\ seen.slots[s] \in Nat /\ lost.slots[s] \in Nat /\ lost.late[s] \in Nat
      /\ seen'.slots[s] \in Nat /\ lost'.slots[s] \in Nat /\ lost'.late[s] \in Nat
      /\ Debt(s) \in Int /\ Debt(s)' \in Int /\ Balance(s) \in Int /\ Balance(s)' \in Int /\ s # NoSlot
  BY <1>0, SlotsOpened, SlotsOpenedNext
<1>1. CASE Talks
  <2>1. (Asked(s)' => Asked(s)) /\ UNCHANGED <<flight, seen>> /\ (UNCHANGED lost \/ CountLate)
    BY <1>0, <1>1, <1>i DEF Talks, SameReplies, PendingKept, Asked
  <2>2. Owned(s)' = Owned(s) /\ Taking' = Taking
    BY <2>1 DEF Owned, Taking
  <2>3. Balance(s)' <= Balance(s)
    BY <1>i, <2>1, <2>2, LateIsMore DEF Balance
  <2>4. CASE mark'[s] = mark[s]
    <3>1. CASE Asked(s) /\ ~Asked(s)'
      <4>1. Debt(s)' <= Debt(s) - 1
        BY <1>i, <2>3, <3>1 DEF Debt
      <4> QED BY <1>0, <4>1, SlotKept
    <3>2. CASE Asked(s) <=> Asked(s)'
      <4>1. Debt(s)' <= Debt(s)
        BY <1>i, <2>3, <3>2 DEF Debt
      <4> QED BY <1>0, <2>2, <2>4, <3>2, <4>1, SlotKept
    <3> QED BY <2>1, <3>1, <3>2
  <2>5. CASE mark'[s] # mark[s]
    <3>1. s = SlotNow /\ SlotFree(s) /\ CountLate
      BY <1>0, <1>1, <2>5, LookedIs DEF Talks
    <3>2. Balance(s)' + (IF Asked(s) THEN 1 ELSE 0) <= 0
      BY <1>0, <2>1, <3>1, FreeIsExcused
    <3>3. Debt(s)' <= 0
      BY <1>i, <2>1, <3>2 DEF Debt
    <3> QED BY <1>i, <3>3 DEF SlotOK
  <2> QED BY <2>4, <2>5
<1>2. CASE Opens
  <2>1. /\ UNCHANGED <<flight, seen>> /\ CountLate
        /\ Owned(s)' = Owned(s) /\ Taking' = Taking
    BY <1>2 DEF Opens, SameReplies, Owned, Taking
  <2>2. CASE s # SlotNow
    <3>1. mark'[s] = mark[s] /\ ~Asked(s)' /\ Balance(s)' <= Balance(s)
      BY <1>0, <1>i, <1>2, <2>1, <2>2, LookedIs, LateIsMore DEF Opens, Asked, Balance
    <3>2. CASE Asked(s)
      <4>1. Debt(s)' <= Debt(s) - 1
        BY <1>i, <3>1, <3>2 DEF Debt
      <4> QED BY <1>0, <4>1, SlotKept
    <3>3. CASE ~Asked(s)
      <4>1. Debt(s)' <= Debt(s)
        BY <1>i, <3>1, <3>3 DEF Debt
      <4> QED BY <1>0, <2>1, <3>1, <3>3, <4>1, SlotKept
    <3> QED BY <3>2, <3>3
  <2>3. CASE s = SlotNow
    <3>1. Balance(s)' <= 0
      BY <1>0, <1>i, <1>2, <2>1, <2>3, FreeIsExcused DEF Opens
    <3>2. Debt(s)' <= 1 /\ (~Asked(s)' => Debt(s)' <= 0)
      BY <1>i, <3>1 DEF Debt
    <3>3. mark'[s] # NoMark
      BY <1>0, <1>2, <2>3, LookedIs DEF Opens, Pending, NoMark
    <3> QED BY <3>2, <3>3 DEF SlotOK, Claimable
  <2> QED BY <2>2, <2>3
<1>3. CASE PopDue
  <2>1. /\ UNCHANGED <<mark, seen, lost>> /\ flight[Group] = NoFlight
        /\ \/ flight'[Group] = NoFlight /\ pending'[Group] = pending[Group]
           \/ /\ pending[Group] # NoReply /\ pending'[Group] = NoReply
              /\ flight'[Group] = Taken(pending[Group])
    BY <1>0, <1>3 DEF PopDue, Idle, Due
  <2>2. ~Owned(s) /\ NoFlight # Taken(pending[Group])
    BY <2>1 DEF Owned, Taken, NoFlight
  <2>3. CASE flight'[Group] = NoFlight /\ pending'[Group] = pending[Group]
    <3>1. ~Owned(s)' /\ (Asked(s)' <=> Asked(s)) /\ Debt(s)' = Debt(s)
      BY <1>i, <2>1, <2>2, <2>3 DEF Owned, Asked, Debt, Balance
    <3> QED BY <1>0, <1>i, <2>1, <2>2, <3>1, SlotKept
  <2>4. CASE /\ pending[Group] # NoReply /\ pending'[Group] = NoReply
             /\ flight'[Group] = Taken(pending[Group])
    <3>1. /\ flight'[Group] # NoFlight /\ flight'[Group].stage = "read"
          /\ flight'[Group].slot = pending[Group].slot
          /\ flight'[Group].owns = (pending[Group].slot # NoSlot)
      BY <2>2, <2>4 DEF Taken
    <3>2. ~Asked(s)' /\ (Owned(s)' <=> Asked(s)) /\ ~Taking'
      BY <1>i, <2>4, <3>1 DEF Asked, Owned, Taking
    <3>3. Debt(s)' = Debt(s)
      BY <1>i, <2>1, <2>2, <3>2 DEF Debt, Balance
    <3> QED BY <1>0, <1>i, <2>1, <2>2, <3>2, <3>3, SlotKept
  <2> QED BY <2>1, <2>3, <2>4
<1>4. CASE Tick \/ LeaveChanges
  <2>1. UNCHANGED <<mark, pending, flight, seen, lost>>
    BY <1>4 DEF Tick, LeaveChanges, slotVars, botVars
  <2>2. (Asked(s)' <=> Asked(s)) /\ (Owned(s)' <=> Owned(s)) /\ Debt(s)' = Debt(s)
    BY <2>1 DEF Asked, Owned, Taking, Debt, Balance
  <2> QED BY <1>0, <1>i, <2>1, <2>2, SlotKept
<1>5. CASE Restart
  <2> DEFINE open == {c \in Chats : flight[c] # NoFlight}
             slots == UNION {OwnSlot(flight[c]) :
                               c \in {d \in open : flight[d].stage \in {"report", "mark"}}}
  <2>1. /\ UNCHANGED <<mark, seen>> /\ flight'[Group] = NoFlight /\ pending'[Group] = NoReply
        /\ lost'.slots[s] = lost.slots[s] + (IF s \in slots THEN 1 ELSE 0)
        /\ lost'.late[s] = lost.late[s]
    BY <1>0, <1>5, CountsTyped DEF Restart, slotVars
  <2>2. ~Asked(s)' /\ ~Owned(s)'
    BY <2>1 DEF Asked, Owned
  <2>3. Owned(s) /\ Taking => s \in slots
    BY <1>0 DEF Owned, Taking, OwnSlot
  <2> HIDE DEF slots
  <2>4. CASE Asked(s) \/ Owned(s)
    <3>1. Debt(s)' <= Debt(s) - 1
      BY <1>i, <2>1, <2>2, <2>3, <2>4 DEF Debt, Balance
    <3> QED BY <1>0, <3>1, SlotKept
  <2>5. CASE ~Asked(s) /\ ~Owned(s)
    <3>1. Debt(s)' <= Debt(s)
      BY <1>i, <2>1, <2>2, <2>5 DEF Debt, Balance
    <3> QED BY <1>0, <2>1, <2>5, <3>1, SlotKept
  <2> QED BY <2>4, <2>5
\* A reply that is not the group's has no slot.
<1>6. ASSUME NEW c \in Chats, flight[c] # NoFlight, OneReply(c)
      PROVE  /\ c # Group => flight'[Group] = flight[Group] /\ ~flight[c].owns
             /\ pending' = pending /\ (Asked(s)' <=> Asked(s))
  BY <1>0, <1>6 DEF OneReply, MemoryTypes, FlightOK, Asked
\* A mark is given back by the report that has it.
<1>7. ASSUME NEW c \in Chats, flight[c] # NoFlight, flight[c].stage # "confirm", Releases(c)
      PROVE  mark'[s] = mark[s] \/ (c = Group /\ Owned(s))
  BY <1>0, <1>7 DEF Releases, Owned, MemoryTypes, FlightOK, StoreTypes
\* A step of a reply that has nothing to do with the slot.
<1>8. ASSUME NEW c \in Chats, flight[c] # NoFlight, OneReply(c), mark'[s] = mark[s],
             seen'.slots[s] = seen.slots[s], lost'.slots[s] = lost.slots[s],
             lost'.late[s] = lost.late[s], Owned(s)' <=> Owned(s), Owned(s) => (Taking' <=> Taking)
      PROVE  SlotOK(s)'
  <2>1. Debt(s)' = Debt(s) /\ (Asked(s)' <=> Asked(s))
    BY <1>6, <1>8 DEF Debt, Balance
  <2> QED BY <1>0, <1>i, <1>8, <2>1, SlotKept
<1>9. ASSUME NEW c \in Chats, Advances(c) PROVE SlotOK(s)'
  <2>1. UNCHANGED <<mark, seen, lost>> /\ flight[c] # NoFlight /\ OneReply(c)
    BY <1>9 DEF Advances, slotVars, OneReply
  <2>2. (Owned(s)' <=> Owned(s)) /\ (Owned(s) => (Taking' <=> Taking))
    <3>1. CASE c = Group
      BY <1>9, <3>1 DEF Advances, Owned, Taking, Early
    <3>2. CASE c # Group
      BY <1>6, <2>1, <3>2 DEF Owned, Taking
    <3> QED BY <3>1, <3>2
  <2> QED BY <1>8, <2>1, <2>2
<1>10. ASSUME NEW c \in Chats, Gives(c) PROVE SlotOK(s)'
  <2> DEFINE f == flight[c]
  <2>1. /\ f # NoFlight /\ f.stage \in {"read", "send"} /\ OneReply(c) /\ flight'[c] = NoFlight
        /\ mark'[s] = mark[s] \/ (c = Group /\ Owned(s))
        /\ Asked(s)' <=> Asked(s)
    BY <1>6, <1>7, <1>10 DEF Gives
  <2>2. \/ seen' = seen /\ lost' = lost
        \/ /\ seen'.slots[s] = seen.slots[s] + (IF f.owns /\ s = f.slot THEN 1 ELSE 0)
           /\ lost'.slots[s] = lost.slots[s] + (IF f.owns /\ s = f.slot THEN 1 ELSE 0)
           /\ lost'.late = lost.late
    BY <1>0, <1>10, CountsTyped DEF Gives, OwnSlot
  <2>3. CASE c = Group /\ Owned(s)
    <3>1. ~Owned(s)' /\ ~Taking /\ f.owns /\ s = f.slot
      BY <2>1, <2>3 DEF Owned, Taking
    <3>2. Debt(s)' <= Debt(s) - 1
      BY <1>i, <2>1, <2>2, <2>3, <3>1 DEF Debt, Balance
    <3> QED BY <1>0, <3>2, SlotKept
  <2>4. CASE ~(c = Group /\ Owned(s))
    <3>1. ~(f.owns /\ s = f.slot) /\ (Owned(s)' <=> Owned(s)) /\ (Owned(s) => (Taking' <=> Taking))
      BY <1>6, <2>1, <2>4 DEF Owned, Taking
    <3>2. seen'.slots[s] = seen.slots[s] /\ lost'.slots[s] = lost.slots[s]
          /\ lost'.late[s] = lost.late[s]
      BY <1>i, <2>2, <3>1
    <3> QED BY <1>8, <2>1, <2>4, <3>1, <3>2
  <2> QED BY <2>3, <2>4
<1>11. ASSUME NEW c \in Chats, Decides(c) PROVE SlotOK(s)'
  <2>1. /\ flight[c] # NoFlight /\ flight[c].stage = "upload" /\ OneReply(c)
        /\ UNCHANGED <<seen, lost>> /\ (Asked(s)' <=> Asked(s))
        /\ mark'[s] = mark[s] \/ (c = Group /\ Owned(s))
    BY <1>6, <1>7, <1>11 DEF Decides
  <2>2. CASE c = Group /\ Owned(s) /\ ~Owned(s)'
    <3>1. ~Taking
      BY <2>1, <2>2 DEF Taking
    <3>2. Debt(s)' <= Debt(s) - 1
      BY <1>i, <2>1, <2>2, <3>1 DEF Debt, Balance
    <3> QED BY <1>0, <3>2, SlotKept
  <2>3. CASE ~(c = Group /\ Owned(s) /\ ~Owned(s)')
    <3>1. /\ (Owned(s)' <=> Owned(s)) /\ (Owned(s) => (Taking' <=> Taking))
          /\ mark'[s] = mark[s]
      BY <1>6, <1>11, <2>1, <2>3 DEF Decides, Owned, Taking
    <3> QED BY <1>8, <2>1, <3>1
  <2> QED BY <2>2, <2>3
<1>12. ASSUME NEW c \in Chats, Sends(c) PROVE SlotOK(s)'
  <2> DEFINE f == flight[c]
  <2>1. /\ f # NoFlight /\ f.stage = "send" /\ OneReply(c) /\ UNCHANGED <<mark, lost>>
        /\ Asked(s)' <=> Asked(s)
        /\ seen'.slots[s] = seen.slots[s] + (IF f.owns /\ s = f.slot THEN 1 ELSE 0)
    BY <1>0, <1>6, <1>12, CountsTyped DEF Sends
  <2>2. CASE c = Group /\ Owned(s)
    <3>1. Owned(s)' /\ Taking' /\ ~Taking /\ f.slot = s /\ f.owns
      BY <1>12, <1>i, <2>2 DEF Sends, MovesTo, Owned, Taking
    <3>2. Debt(s)' = Debt(s)
      BY <1>i, <2>1, <2>2, <3>1 DEF Debt, Balance
    <3> QED BY <1>0, <1>i, <2>1, <3>1, <3>2, SlotKept
  <2>3. CASE ~(c = Group /\ Owned(s))
    <3>1. /\ ~(f.owns /\ s = f.slot) /\ (Owned(s)' <=> Owned(s))
          /\ Owned(s) => (Taking' <=> Taking)
      BY <1>6, <1>12, <2>1, <2>3 DEF Sends, MovesTo, Owned, Taking
    <3>2. seen'.slots[s] = seen.slots[s]
      BY <1>i, <2>1, <3>1
    <3> QED BY <1>8, <2>1, <3>1, <3>2
  <2> QED BY <2>2, <2>3
<1>13. ASSUME NEW c \in Chats, NotesLeaves(c) PROVE SlotOK(s)'
  <2>1. /\ flight[c] # NoFlight /\ OneReply(c) /\ UNCHANGED <<mark, seen>>
        /\ lost'.slots[s] = lost.slots[s] /\ lost'.late[s] = lost.late[s]
    BY <1>0, <1>i, <1>13, CountsTyped DEF NotesLeaves
  <2>2. (Owned(s)' <=> Owned(s)) /\ (Owned(s) => (Taking' <=> Taking))
    <3>1. CASE c = Group
      BY <1>13, <3>1 DEF NotesLeaves, MovesTo, Owned, Taking
    <3>2. CASE c # Group
      BY <1>6, <2>1, <3>2 DEF Owned, Taking
    <3> QED BY <3>1, <3>2
  <2> QED BY <1>8, <2>1, <2>2
<1>14. ASSUME NEW c \in Chats, NotesSlot(c) PROVE SlotOK(s)'
  <2> DEFINE f == flight[c]
  <2>1. /\ f # NoFlight /\ f.stage = "mark" /\ OneReply(c) /\ UNCHANGED seen
        /\ flight'[c].stage = "confirm" /\ (f.owns => c = Group) /\ (Asked(s)' <=> Asked(s))
    BY <1>6, <1>14 DEF NotesSlot, MovesTo
  <2>2. CASE f.owns /\ f.slot = s
    <3>1. Owned(s) /\ Taking /\ ~Owned(s)'
      BY <2>1, <2>2 DEF Owned, Taking
    <3>2. CASE MarkSent(f.slot) /\ UNCHANGED lost
      <4>1. mark'[s].state = "sent"
        BY <1>0, <2>2, <3>2 DEF MarkSent, StoreTypes
      <4>2. Debt(s)' <= Debt(s)
        BY <1>i, <2>1, <3>1, <3>2 DEF Debt, Balance
      <4> QED BY <1>0, <4>1, <4>2, SlotKept
    <3>3. CASE lost' = Unnoted({f.slot}, {}) /\ UNCHANGED mark
      <4>1. lost'.slots[s] = lost.slots[s] + 1 /\ lost'.late = lost.late
        BY <1>0, <2>2, <3>3, CountsTyped
      <4>2. Debt(s)' <= Debt(s) - 1
        BY <1>i, <2>1, <3>1, <4>1 DEF Debt, Balance
      <4> QED BY <1>0, <4>2, SlotKept
    <3> QED BY <1>14, <2>2, <3>2, <3>3 DEF NotesSlot
  <2>3. CASE ~(f.owns /\ f.slot = s)
    <3>1. mark'[s] = mark[s] /\ lost'.slots[s] = lost.slots[s] /\ lost'.late[s] = lost.late[s]
      <4>1. CASE f.owns /\ MarkSent(f.slot) /\ UNCHANGED lost
        BY <1>0, <2>3, <4>1 DEF MarkSent, StoreTypes
      <4>2. CASE f.owns /\ lost' = Unnoted({f.slot}, {}) /\ UNCHANGED mark
        BY <1>0, <1>i, <2>3, <4>2, CountsTyped
      <4> QED BY <1>14, <4>1, <4>2 DEF NotesSlot
    <3>2. (Owned(s)' <=> Owned(s)) /\ (Owned(s) => (Taking' <=> Taking))
      BY <1>6, <1>14, <2>1, <2>3 DEF NotesSlot, MovesTo, Owned, Taking
    <3> QED BY <1>8, <2>1, <3>1, <3>2
  <2> QED BY <2>2, <2>3
<1>15. ASSUME NEW c \in Chats, NotesFeedback(c) PROVE SlotOK(s)'
  <2>1. /\ flight[c] # NoFlight /\ flight[c].stage = "confirm" /\ OneReply(c)
        /\ UNCHANGED <<mark, seen, lost>> /\ flight'[c] = NoFlight
    BY <1>15 DEF NotesFeedback
  <2>2. (Owned(s)' <=> Owned(s)) /\ (Owned(s) => (Taking' <=> Taking))
    BY <1>6, <2>1 DEF Owned, Taking
  <2> QED BY <1>8, <2>1, <2>2
<1> QED BY <1>1, <1>2, <1>3, <1>4, <1>5, <1>9, <1>10, <1>11, <1>12, <1>13, <1>14, <1>15, BotSteps

-----------------------------------------------------------------------------
(* Staff bot: what the proofs amount to. *)

BotInv == BotTypes /\ CheckedInv /\ LeavesPosted /\ SlotsInv

LEMMA BotInvInit == BotInit => BotInv
<1> SUFFICES ASSUME BotInit PROVE BotInv
  OBVIOUS
<1>1. BotTypes
  BY BotTypesInit
<1>2. /\ mark = [s \in Slots |-> NoMark] /\ confirmed = {} /\ NoMark.state = "none"
      /\ \A c \in Chats : flight[c] = NoFlight /\ pending[c] = NoReply
      /\ \A l \in DOMAIN leave : ~leave[l].reported
      /\ seen.slots = Count(Slots) /\ lost.slots = Count(Slots) /\ lost.late = Count(Slots)
      /\ seen.leaves = Count(DOMAIN leave) /\ lost.leaves = Count(DOMAIN leave)
  BY DEF BotInit, ReportInit, DebouncerInit, NoMark
<1>3. /\ \A s \in Slots : seen.slots[s] = 0 /\ lost.slots[s] = 0 /\ lost.late[s] = 0
      /\ \A l \in DOMAIN leave : seen.leaves[l] = 0 /\ lost.leaves[l] = 0
  BY <1>2 DEF Count
<1>4. CheckedInv
  BY <1>2 DEF CheckedInv
<1>5. LeavesPosted
  BY <1>2, <1>3 DEF LeavesPosted, PostedAtMost
<1>6. SlotsInv
  BY <1>2, <1>3 DEF SlotsInv, SlotOK, Debt, Balance, Asked, Owned, Chats
<1> QED BY <1>1, <1>4, <1>5, <1>6 DEF BotInv

LEMMA BotInvHolds == BotSpec => []BotInv
<1>1. BotInv /\ [BotNext]_staffVars => BotInv'
  BY BotTypesStep, CheckedStep, LeavesStep, SlotsStep DEF BotInv
<1> QED BY BotInvInit, <1>1, PTL DEF BotSpec

\* A window has one report in the group and a leave request one picture, unless
\* the outcome of an earlier post was lost, at whatever point a service failed
\* or the process ended, or a report was still on its way when its mark was
\* taken for dead - however long replies take.
THEOREM ReportsStayPostedOnce == BotSpec => []PostedOnceUnlessLost
<1>1. BotInv => PostedOnceUnlessLost
  <2> SUFFICES ASSUME BotInv PROVE PostedOnceUnlessLost
    OBVIOUS
  <2>1. /\ \A s \in Slots : /\ seen.slots[s] \in Nat /\ lost.slots[s] \in Nat
                             /\ lost.late[s] \in Nat
        /\ \A l \in DOMAIN leave : seen.leaves[l] \in Nat /\ lost.leaves[l] \in Nat
    BY DEF BotInv, BotTypes, StoreTypes
  <2>2. \A s \in Slots : seen.slots[s] <= 1 + lost.slots[s] + lost.late[s]
    BY <2>1 DEF BotInv, SlotsInv, SlotOK, Debt, Balance
  <2>3. \A l \in DOMAIN leave : seen.leaves[l] <= 1 + lost.leaves[l]
    BY <2>1 DEF BotInv, LeavesPosted, PostedAtMost
  <2> QED BY <2>2, <2>3 DEF PostedOnceUnlessLost
<1> QED BY BotInvHolds, <1>1, PTL

\* A leave request is reported and a slot marked as sent only after the group
\* got a report with it; feedback is confirmed only after the group got a
\* report that shows it, or that only counts it because its lines are full.
THEOREM CheckedOffStaysPosted == BotSpec => []CheckedOffWasPosted
<1>1. BotInv => CheckedOffWasPosted
  BY DEF BotInv, BotTypes, StoreTypes, Marks, CheckedInv, CheckedOffWasPosted
<1> QED BY BotInvHolds, <1>1, PTL

-----------------------------------------------------------------------------
(* Staff bot: a photo is in one place at a time. *)

IsSeq(s) == s \in Seq({s[i] : i \in DOMAIN s})

\* What the reply of a chat has claimed and not begun to upload.
Held(c) == IF flight[c] = NoFlight THEN <<>> ELSE flight[c].claims

Own(t) == t.how # "quoted"

Buffers(p, k) == k \in Keys /\ p \in buffer[k]
Holds(p, c, i) ==
  c \in Chats /\ i \in DOMAIN Held(c) /\ \E t \in Held(c)[i].tasks : Own(t) /\ t.photo = p
Uploads(p, t) == t \in upload /\ Own(t) /\ t.photo = p

PhotoTypes ==
  /\ IsSeq(photo) /\ IsSeq(order) /\ IsSeq(attached)
  /\ DOMAIN attached = DOMAIN photo /\ DOMAIN buffer = Keys
  /\ \A p \in DOMAIN photo : IsSeq(attached[p])
  /\ \A c \in Chats : IsSeq(Held(c))
  /\ \A t \in upload : DOMAIN t = {"photo", "order", "how", "token"}

\* Its order is one of the photo's sender in the photo's chat.
RightOrder(p, o) == o \in DOMAIN order /\ order[o].key = photo[p].key

PhotoPlaces ==
  /\ \A p, k : Buffers(p, k) => p \in DOMAIN photo /\ k = photo[p].key
  /\ \A c \in Chats : \A i \in DOMAIN Held(c) : \A t \in Held(c)[i].tasks :
       Own(t) => /\ t = [photo |-> t.photo, how |-> "claimed"] /\ t.photo \in DOMAIN photo
                 /\ RightOrder(t.photo, Held(c)[i].order)
  /\ \A t \in upload : Own(t) =>
       t.photo \in DOMAIN photo /\ (t.how = "claimed" => RightOrder(t.photo, t.order))
  /\ \A p \in DOMAIN photo : \A i \in Placed(p) :
       attached[p][i].how = "claimed" => RightOrder(p, attached[p][i].order)

\* Nowhere else than in the buffer, in one claim, in one upload, at one order.
PhotoOnce ==
  /\ \A p, k, c, i : Buffers(p, k) => ~Holds(p, c, i)
  /\ \A p, k, t : Buffers(p, k) => ~Uploads(p, t)
  /\ \A p, k : Buffers(p, k) => Placed(p) = {}
  /\ \A p, c, i, d, j : Holds(p, c, i) /\ Holds(p, d, j) => c = d /\ i = j
  /\ \A p, c, i, t : Holds(p, c, i) => ~Uploads(p, t)
  /\ \A p, c, i : Holds(p, c, i) => Placed(p) = {}
  /\ \A p, t, u : Uploads(p, t) /\ Uploads(p, u) => t = u
  /\ \A p, t : Uploads(p, t) => Placed(p) = {}
  /\ \A p \in DOMAIN photo : \A i, j \in Placed(p) : i = j

PhotoInv == PhotoTypes /\ PhotoPlaces /\ PhotoOnce

LEMMA AppendIs ==
  ASSUME NEW s, IsSeq(s), NEW e
  PROVE  /\ Len(s) \in Nat /\ DOMAIN s = 1 .. Len(s)
         /\ IsSeq(Append(s, e)) /\ DOMAIN Append(s, e) = 1 .. Len(s) + 1
         /\ \A i \in DOMAIN s : Append(s, e)[i] = s[i]
         /\ Append(s, e)[Len(s) + 1] = e
<1> DEFINE S == {s[i] : i \in DOMAIN s}
           a == Append(s, e)
<1>1. s \in Seq(S)
  BY DEF IsSeq
<1>2. s \in Seq(S \cup {e})
  <2>1. Len(s) \in Nat /\ s \in [1 .. Len(s) -> S]
    BY <1>1, LenProperties
  <2> HIDE DEF S
  <2> QED BY <1>1
<1> HIDE DEF S
<1>3. /\ Len(s) \in Nat /\ DOMAIN s = 1 .. Len(s)
      /\ a \in Seq(S \cup {e}) /\ Len(a) = Len(s) + 1
      /\ \A i \in 1 .. Len(s) : a[i] = s[i]
      /\ a[Len(s) + 1] = e
  BY <1>2, LenProperties, AppendProperties
<1>4. DOMAIN a = 1 .. Len(s) + 1
  BY <1>3, LenProperties
<1> HIDE DEF a
<1>5. a \in Seq({a[i] : i \in DOMAIN a})
  <2>1. /\ a \in [1 .. Len(a) -> S \cup {e}] /\ DOMAIN a = 1 .. Len(a) /\ Len(a) \in Nat
    BY <1>3, LenProperties
  <2>2. a \in [1 .. Len(a) -> {a[i] : i \in DOMAIN a}]
    BY <2>1
  <2> QED BY <2>1, <2>2
<1> QED BY <1>3, <1>4, <1>5 DEF IsSeq, a

LEMMA TailIs ==
  ASSUME NEW s, IsSeq(s), s # <<>>
  PROVE  /\ Len(s) \in Nat \ {0} /\ DOMAIN s = 1 .. Len(s) /\ Head(s) = s[1]
         /\ IsSeq(Tail(s)) /\ DOMAIN Tail(s) = 1 .. Len(s) - 1
         /\ \A i \in DOMAIN Tail(s) : Tail(s)[i] = s[i + 1] /\ i + 1 \in DOMAIN s /\ i + 1 # 1
<1> DEFINE S == {s[i] : i \in DOMAIN s}
           a == Tail(s)
<1>1. s \in Seq(S)
  BY DEF IsSeq
<1> HIDE DEF S
<1>2. /\ Len(s) \in Nat \ {0} /\ DOMAIN s = 1 .. Len(s) /\ Head(s) = s[1]
  BY <1>1, LenProperties, EmptySeq
<1>3. /\ a \in Seq(S) /\ Len(a) = Len(s) - 1
      /\ \A i \in 1 .. Len(a) : a[i] = s[i + 1]
  BY <1>1, HeadTailProperties
<1>4. DOMAIN a = 1 .. Len(s) - 1
  BY <1>3, LenProperties
<1> HIDE DEF a
<1>5. a \in Seq({a[i] : i \in DOMAIN a})
  <2>1. /\ a \in [1 .. Len(a) -> S] /\ DOMAIN a = 1 .. Len(a) /\ Len(a) \in Nat
    BY <1>3, LenProperties
  <2>2. a \in [1 .. Len(a) -> {a[i] : i \in DOMAIN a}]
    BY <2>1
  <2> QED BY <2>1, <2>2
<1>6. \A i \in DOMAIN a : a[i] = s[i + 1] /\ i + 1 \in DOMAIN s /\ i + 1 # 1
  BY <1>2, <1>3, <1>4
<1> QED BY <1>2, <1>4, <1>5, <1>6 DEF IsSeq, a

HeldKept == \A c \in Chats : Held(c)' = Held(c) \/ Held(c)' = <<>>

\* A step that moves no photo; a reply that ends drops what it holds.
StaysPut == UNCHANGED <<photo, buffer, order, upload, attached>> /\ HeldKept

LEMMA HeldByOne ==
  ASSUME BotTypes, NEW c \in Chats, NEW g, flight' = [flight EXCEPT ![c] = g],
         g = NoFlight \/ (flight[c] # NoFlight /\ g.claims = flight[c].claims)
  PROVE  HeldKept
<1>1. DOMAIN flight = Chats
  BY ReplyOpened
<1>2. flight'[c] = g /\ \A d \in Chats : d # c => flight'[d] = flight[d]
  BY <1>1
<1> QED BY <1>2 DEF HeldKept, Held

LEMMA ReplyPuts ==
  ASSUME BotTypes, NEW c \in Chats, Step(c)
  PROVE  StaysPut \/ CreateTicket(c) \/ StartUploads(c)
<1> DEFINE f == flight[c]
<1>0. DOMAIN flight = Chats /\ (f # NoFlight => DOMAIN f = FlightFields)
  BY ReplyOpened DEF FlightOK
<1> USE DEF FlightFields
<1>1. ASSUME NEW digest \in BOOLEAN, NEW feedback \in BOOLEAN, Read(c, digest, feedback)
      PROVE  HeldKept
  <2>1. PICK m, n, i : flight' = [flight EXCEPT ![c].stage = "act", ![c].messages = m,
                                    ![c].included = n, ![c].carried = i]
    BY <1>1 DEF Read
  <2>2. f # NoFlight
    BY <1>1 DEF Read, At
  <2> DEFINE g == [f EXCEPT !.stage = "act", !.messages = m, !.included = n, !.carried = i]
  <2>3. flight' = [flight EXCEPT ![c] = g] /\ g.claims = f.claims
    BY <1>0, <2>1, <2>2
  <2> QED BY <2>2, <2>3, HeldByOne
<1>2. ASSUME OpenWindow(c) \/ TicketRefused(c) \/ OpenForOrder(c) PROVE HeldKept
  <2>1. f # NoFlight
    BY <1>2 DEF OpenWindow, TicketRefused, OpenForOrder, Acting, At
  <2>2. /\ Acted(c).claims = f.claims /\ [Acted(c) EXCEPT !.stage = "act"].claims = f.claims
    BY <1>0, <2>1 DEF Acted
  <2>3. \/ flight' = [flight EXCEPT ![c] = Acted(c)]
        \/ flight' = [flight EXCEPT ![c] = [Acted(c) EXCEPT !.stage = "act"]]
    BY <1>2 DEF OpenWindow, TicketRefused, OpenForOrder
  <2> QED BY <2>1, <2>2, <2>3, HeldByOne
<1>3. ASSUME ReadLeaves(c) PROVE HeldKept
  <2>1. f # NoFlight
    BY <1>3 DEF ReadLeaves, At
  <2>2. PICK l, i, m : flight' = [flight EXCEPT ![c].stage = "upload", ![c].leaves = l,
                                    ![c].included = f.included \/ i, ![c].messages = m]
    <3> DEFINE sent == IF f.messages < MaxMessages THEN f.messages ELSE MaxMessages
    <3>1. PICK items : flight' = [flight EXCEPT ![c].stage = "upload", ![c].leaves = items,
            ![c].included = @ \/ items # {},
            ![c].messages = sent + Cardinality(items) + (IF f.included \/ items = {} THEN 0 ELSE 1)]
      BY <1>3 DEF ReadLeaves
    <3> DEFINE some == items # {}
               more == sent + Cardinality(items) + (IF f.included \/ items = {} THEN 0 ELSE 1)
    <3>2. flight' = [flight EXCEPT ![c].stage = "upload", ![c].leaves = items,
                       ![c].included = f.included \/ some, ![c].messages = more]
      BY <1>0, <2>1, <3>1
    <3> QED BY <3>2
  <2> DEFINE g == [f EXCEPT !.stage = "upload", !.leaves = l, !.included = f.included \/ i,
                            !.messages = m]
  <2>3. flight' = [flight EXCEPT ![c] = g] /\ g.claims = f.claims
    BY <1>0, <2>1, <2>2
  <2> QED BY <2>1, <2>3, HeldByOne
<1>4. ASSUME Over(c) PROVE HeldKept
  BY <1>4, HeldByOne DEF Over
<1>5. ASSUME DecideReport(c) PROVE HeldKept
  <2>1. f # NoFlight
    BY <1>5 DEF DecideReport, At
  <2>2. CASE flight' = [flight EXCEPT ![c].stage = "send", ![c].owns = @ /\ f.included]
    <3> DEFINE owns == f.owns /\ f.included
               g == [f EXCEPT !.stage = "send", !.owns = owns]
    <3>1. flight' = [flight EXCEPT ![c] = g] /\ g.claims = f.claims
      BY <1>0, <2>1, <2>2
    <3> QED BY <2>1, <3>1, HeldByOne
  <2> QED BY <1>4, <1>5, <2>2 DEF DecideReport
<1>6. ASSUME NEW stage, f # NoFlight, flight' = [flight EXCEPT ![c].stage = stage] PROVE HeldKept
  <2> DEFINE g == [f EXCEPT !.stage = stage]
  <2>1. flight' = [flight EXCEPT ![c] = g] /\ g.claims = f.claims
    BY <1>0, <1>6
  <2> QED BY <1>6, <2>1, HeldByOne
<1>7. ASSUME Send(c) \/ NoteLeaves(c) \/ NoteSlot(c) \/ NoteFeedback(c) PROVE HeldKept
  BY <1>4, <1>6, <1>7 DEF Send, Accepted, NoteLeaves, NoteSlot, NoteFeedback, At
<1>8. ASSUME ReadFails(c) \/ SendUnanswered(c) \/ SendFails(c) PROVE HeldKept
  BY <1>4, <1>8 DEF ReadFails, SendUnanswered, SendFails, GiveUp
<1>9. CASE CreateTicket(c) \/ StartUploads(c)
  BY <1>9
<1>10. CASE ~(CreateTicket(c) \/ StartUploads(c))
  <2>1. HeldKept
    BY <1>1, <1>2, <1>3, <1>5, <1>7, <1>8, <1>10 DEF Step
  <2>2. UNCHANGED <<photo, buffer, order, upload, attached>>
    BY <1>10 DEF Step, ReadFails, Read, OpenWindow, TicketRefused, OpenForOrder, ReadLeaves,
       DecideReport, Send, SendUnanswered, SendFails, NoteLeaves, NoteSlot, NoteFeedback, deskVars
  <2> QED BY <2>1, <2>2 DEF StaysPut
<1> QED BY <1>9, <1>10

\* Every step leaves the photos where they are or is one of these.
LEMMA PhotoSteps ==
  ASSUME BotTypes, [BotNext]_staffVars
  PROVE  \/ StaysPut \/ Restart
         \/ \E k, t : PhotoArrives(k, t) /\ HeldKept
         \/ \E c \in Chats : CreateTicket(c) \/ StartUploads(c)
         \/ \E t \in upload : (UploadDone(t) \/ AnswerEarly(t)) /\ HeldKept
<1>1. UNCHANGED flight => HeldKept
  BY DEF HeldKept, Held
<1>2. ASSUME NEW u, GroupTalk(u) \/ Ask(u) PROVE StaysPut
  BY <1>1, <1>2 DEF GroupTalk, Ask, Event, StaysPut, deskVars
<1>3. ASSUME NEW u, GroupPhoto(u) PROVE StaysPut \/ \E k, t : PhotoArrives(k, t) /\ HeldKept
  BY <1>1, <1>3 DEF GroupPhoto, Event, StaysPut, deskVars
<1>4. ASSUME NEW u, PrivatePhoto(u) PROVE \E k, t : PhotoArrives(k, t) /\ HeldKept
  BY <1>1, <1>4 DEF PrivatePhoto, Event
<1>5. ASSUME NEW u, NEW o, AddPhoto(u, o) PROVE StaysPut
  BY <1>1, <1>5 DEF AddPhoto, Event, StaysPut, deskVars
<1>6. ASSUME NEW u, NEW c, NEW quoted, Report(c, u, quoted) PROVE StaysPut
  BY <1>1, <1>6 DEF Report, Event, StaysPut, deskVars
<1>7. CASE Webhook
  BY <1>2, <1>3, <1>4, <1>5, <1>6, <1>7 DEF Webhook
<1>8. CASE PopDue
  <2>1. \A c \in Chats : flight'[c] = NoFlight \/ flight'[c].claims = <<>>
    BY <1>8 DEF PopDue, Taken
  <2> QED BY <1>8, <2>1 DEF PopDue, StaysPut, HeldKept, Held, deskVars
<1>9. CASE Tick
  BY <1>1, <1>9 DEF Tick, StaysPut, deskVars, botVars
<1>10. CASE LeaveChanges
  BY <1>1, <1>10 DEF LeaveChanges, StaysPut, deskVars, botVars
<1>11. CASE UNCHANGED staffVars
  BY <1>1, <1>11 DEF staffVars, StaysPut, deskVars, botVars
<1>12. ASSUME NEW t \in upload, UploadDone(t) \/ AnswerEarly(t) PROVE HeldKept
  BY <1>1, <1>12 DEF UploadDone, AnswerEarly, botVars
<1> QED BY <1>7, <1>8, <1>9, <1>10, <1>11, <1>12, ReplyPuts DEF BotNext

LEMMA ExceptIs ==
  ASSUME NEW s, IsSeq(s), NEW i, NEW e
  PROVE  IsSeq([s EXCEPT ![i] = e])
<1> DEFINE S == {s[j] : j \in DOMAIN s}
           a == [s EXCEPT ![i] = e]
<1>1. s \in Seq(S)
  BY DEF IsSeq
<1> HIDE DEF S
<1>2. Len(s) \in Nat /\ s \in [1 .. Len(s) -> S]
  BY <1>1, LenProperties
<1>3. DOMAIN a = 1 .. Len(s) /\ a \in [1 .. Len(s) -> S \cup {e}]
  BY <1>2
<1> HIDE DEF a
<1>4. a \in [1 .. Len(s) -> {a[j] : j \in DOMAIN a}]
  BY <1>3
<1>5. a \in Seq({a[j] : j \in DOMAIN a})
  BY <1>2, <1>4
<1> QED BY <1>5 DEF IsSeq, a

LEMMA EmptyIs == IsSeq(<<>>) /\ DOMAIN <<>> = {}
<1>1. <<>> \in Seq({}) /\ Len(<<>>) = 0 /\ DOMAIN <<>> = 1 .. Len(<<>>)
  BY EmptySeq, LenProperties
<1>2. {<<>>[i] : i \in DOMAIN <<>>} = {}
  BY <1>1
<1> QED BY <1>1, <1>2 DEF IsSeq

\* A reply that ends holds nothing, and one that goes on holds the same.
LEMMA HeldIs ==
  ASSUME PhotoTypes, HeldKept
  PROVE  /\ \A c \in Chats : IsSeq(Held(c))'
         /\ \A p, c, i : Holds(p, c, i)' => Holds(p, c, i)
         /\ \A c \in Chats : \A i \in DOMAIN Held(c)' : i \in DOMAIN Held(c) /\ Held(c)'[i] = Held(c)[i]
<1>1. \A c \in Chats : \A i \in DOMAIN Held(c)' : i \in DOMAIN Held(c) /\ Held(c)'[i] = Held(c)[i]
  BY EmptyIs DEF HeldKept
<1>2. \A c \in Chats : IsSeq(Held(c))'
  <2>1. ASSUME NEW s, NEW c \in Chats, Held(c)' = s, IsSeq(s) PROVE IsSeq(Held(c))'
    BY <2>1 DEF IsSeq
  <2> QED BY <2>1, EmptyIs DEF HeldKept, PhotoTypes
<1> QED BY <1>1, <1>2 DEF Holds

LEMMA SameSeqs ==
  /\ UNCHANGED photo /\ IsSeq(photo) => IsSeq(photo)'
  /\ UNCHANGED order /\ IsSeq(order) => IsSeq(order)'
  /\ UNCHANGED attached /\ IsSeq(attached) => IsSeq(attached)'
  /\ \A p : UNCHANGED attached /\ IsSeq(attached[p]) => IsSeq(attached[p])'
<1>1. UNCHANGED photo /\ IsSeq(photo) => IsSeq(photo)'
  BY DEF IsSeq
<1>2. UNCHANGED order /\ IsSeq(order) => IsSeq(order)'
  BY DEF IsSeq
<1>3. UNCHANGED attached /\ IsSeq(attached) => IsSeq(attached)'
  BY DEF IsSeq
<1>4. \A p : UNCHANGED attached /\ IsSeq(attached[p]) => IsSeq(attached[p])'
  BY DEF IsSeq
<1> QED BY <1>1, <1>2, <1>3, <1>4

\* Photos that are let go stay in at most one place.
LEMMA FewerKeep ==
  ASSUME PhotoInv, UNCHANGED <<photo, order, attached>>, HeldKept,
         DOMAIN buffer' = Keys, \A k \in Keys : buffer'[k] \subseteq buffer[k], upload' \subseteq upload
  PROVE  PhotoInv'
<1>1. /\ \A p, k : Buffers(p, k)' => Buffers(p, k)
      /\ \A p, c, i : Holds(p, c, i)' => Holds(p, c, i)
      /\ \A p, t : Uploads(p, t)' => Uploads(p, t)
      /\ \A p : Placed(p)' = Placed(p)
  BY HeldIs DEF Buffers, Uploads, Placed, PhotoInv
<1>2. PhotoTypes'
  <2>1. IsSeq(photo)' /\ IsSeq(order)' /\ IsSeq(attached)'
    BY SameSeqs DEF PhotoInv, PhotoTypes
  <2>2. \A p \in DOMAIN photo : IsSeq(attached[p])'
    BY SameSeqs DEF PhotoInv, PhotoTypes
  <2> QED BY <2>1, <2>2, HeldIs DEF PhotoInv, PhotoTypes
<1>3. PhotoPlaces'
  <2>1. \A p, k : Buffers(p, k)' => p \in DOMAIN photo /\ k = photo[p].key
    BY <1>1 DEF PhotoInv, PhotoPlaces
  <2>2. \A c \in Chats : \A i \in DOMAIN Held(c)' : \A t \in Held(c)'[i].tasks :
          Own(t) => /\ t = [photo |-> t.photo, how |-> "claimed"] /\ t.photo \in DOMAIN photo
                    /\ RightOrder(t.photo, Held(c)'[i].order)
    BY HeldIs DEF PhotoInv, PhotoPlaces
  <2>3. \A p, o : RightOrder(p, o)' <=> RightOrder(p, o)
    BY DEF RightOrder
  <2> QED BY <1>1, <2>1, <2>2, <2>3 DEF PhotoInv, PhotoPlaces
<1>4. PhotoOnce'
  BY <1>1 DEF PhotoInv, PhotoOnce
<1> QED BY <1>2, <1>3, <1>4 DEF PhotoInv

\* The new photo is in no place yet.
LEMMA NewIsNowhere ==
  ASSUME PhotoInv, NEW p, p \notin DOMAIN photo
  PROVE  /\ \A k : ~Buffers(p, k)
         /\ \A c, i : ~Holds(p, c, i)
         /\ \A t : ~Uploads(p, t)
BY DEF PhotoInv, PhotoPlaces, Holds, Uploads

LEMMA ArrivalKeeps ==
  ASSUME PhotoInv, NEW k, NEW tok, PhotoArrives(k, tok), HeldKept
  PROVE  PhotoInv'
<1>n. PICK n : n = Len(photo) + 1
  OBVIOUS
<1>t. PICK task : task = Task(n, window[k].order, "window", tok)
  OBVIOUS
<1>0. PhotoTypes /\ PhotoPlaces /\ PhotoOnce
  BY DEF PhotoInv
<1>1. /\ Len(photo) \in Nat /\ DOMAIN photo = 1 .. Len(photo) /\ DOMAIN attached = 1 .. Len(photo)
      /\ IsSeq(photo') /\ DOMAIN photo' = 1 .. n
      /\ \A p \in DOMAIN photo : photo'[p] = photo[p]
      /\ photo'[n].key = k /\ order' = order
  BY <1>n, <1>0, AppendIs DEF PhotoArrives, PhotoTypes
<1>2. /\ IsSeq(attached') /\ DOMAIN attached' = 1 .. n /\ attached'[n] = <<>>
      /\ \A p \in DOMAIN photo : attached'[p] = attached[p]
  <2>1. Len(attached) = Len(photo)
    <3>1. Len(attached) \in Nat /\ DOMAIN attached = 1 .. Len(attached)
      BY <1>0, AppendIs DEF PhotoTypes
    <3> QED BY <1>1, <3>1
  <2> QED BY <1>n, <1>0, <1>1, <2>1, AppendIs DEF PhotoArrives, PhotoTypes
<1>3. n \notin DOMAIN photo /\ n \in DOMAIN photo' /\ \A p \in DOMAIN photo' : p = n \/ p \in DOMAIN photo
  BY <1>n, <1>1
<1>4. task.photo = n /\ task.how = "window" /\ DOMAIN task = {"photo", "order", "how", "token"}
  BY <1>t DEF Task
\* It is in the buffer or in an upload; the others stay or leave the buffer.
<1>5. \/ upload' = upload \cup {task} /\ buffer' = buffer
      \/ upload' = upload /\ buffer' = [buffer EXCEPT ![k] = Fresh(k) \cup {n}]
  BY <1>n, <1>t DEF PhotoArrives, Buffered
<1>6. (\A b : ~Buffers(n, b)) /\ (\A c, i : ~Holds(n, c, i)) /\ (\A t : ~Uploads(n, t))
  BY <1>3, NewIsNowhere
<1>7. /\ DOMAIN buffer' = Keys
      /\ \A q, b : Buffers(q, b)' => Buffers(q, b) \/ (q = n /\ b = k /\ upload' = upload)
      /\ \A t \in upload' : t \in upload \/ t = task
      /\ \A q, t : Uploads(q, t)' => Uploads(q, t) \/ (q = n /\ t = task /\ buffer' = buffer)
  <2>1. CASE upload' = upload \cup {task} /\ buffer' = buffer
    BY <1>0, <1>4, <2>1 DEF Buffers, Uploads, PhotoTypes
  <2>2. CASE upload' = upload /\ buffer' = [buffer EXCEPT ![k] = Fresh(k) \cup {n}]
    <3>1. Fresh(k) \subseteq buffer[k] /\ DOMAIN buffer = Keys
      BY <1>0 DEF Fresh, PhotoTypes
    <3> QED BY <2>2, <3>1 DEF Buffers, Uploads
  <2> QED BY <1>5, <2>1, <2>2
<1>8. /\ \A p : p \in DOMAIN photo => Placed(p)' = Placed(p)
      /\ Placed(n)' = {}
  <2>1. DOMAIN attached'[n] = {}
    BY <1>2, EmptyIs
  <2> QED BY <1>2, <2>1 DEF Placed
<1>9. PhotoTypes'
  <2>1. \A p \in DOMAIN photo' : IsSeq(attached'[p])
    BY <1>0, <1>2, <1>3, EmptyIs DEF PhotoTypes
  <2>2. IsSeq(order)' /\ \A c \in Chats : IsSeq(Held(c))'
    BY <1>0, <1>1, HeldIs, SameSeqs DEF PhotoTypes
  <2>3. IsSeq(photo)' /\ IsSeq(attached)' /\ \A p \in DOMAIN photo' : IsSeq(attached[p])'
    BY <1>1, <1>2, <2>1 DEF IsSeq
  <2>4. \A t \in upload' : DOMAIN t = {"photo", "order", "how", "token"}
    BY <1>0, <1>4, <1>7 DEF PhotoTypes
  <2> QED BY <1>1, <1>2, <1>7, <2>2, <2>3, <2>4 DEF PhotoTypes
<1>10. \A p, o : p \in DOMAIN photo => (RightOrder(p, o)' <=> RightOrder(p, o))
  BY <1>1 DEF RightOrder
<1>11. PhotoPlaces'
  <2>1. (\A q, b : Buffers(q, b) => q \in DOMAIN photo /\ b = photo[q].key)'
    BY <1>0, <1>1, <1>3, <1>7 DEF PhotoPlaces
  <2>2. (\A c \in Chats : \A i \in DOMAIN Held(c) : \A t \in Held(c)[i].tasks :
           Own(t) => /\ t = [photo |-> t.photo, how |-> "claimed"] /\ t.photo \in DOMAIN photo
                     /\ RightOrder(t.photo, Held(c)[i].order))'
    BY <1>0, <1>1, <1>3, <1>10, HeldIs DEF PhotoPlaces
  <2>3. ASSUME NEW t \in upload', Own(t)
        PROVE  t.photo \in DOMAIN photo' /\ (t.how = "claimed" => RightOrder(t.photo, t.order)')
    <3>1. CASE t = task
      BY <1>3, <1>4, <3>1
    <3>2. CASE t \in upload
      BY <1>0, <1>1, <1>3, <1>10, <2>3, <3>2 DEF PhotoPlaces
    <3> QED BY <1>7, <3>1, <3>2
  <2>4. ASSUME NEW p \in DOMAIN photo', NEW i \in Placed(p)'
        PROVE  attached'[p][i].how = "claimed" => (RightOrder(p, attached[p][i].order))'
    <3>1. p \in DOMAIN photo /\ i \in Placed(p) /\ attached'[p] = attached[p]
      BY <1>2, <1>3, <1>8, <2>4
    <3> QED BY <1>0, <1>10, <3>1 DEF PhotoPlaces
  <2> QED BY <2>1, <2>2, <2>3, <2>4 DEF PhotoPlaces
<1>12. PhotoOnce'
  <2>1. \A q, b : Buffers(q, b)' =>
          \/ q = n /\ b = k /\ upload' = upload
          \/ Buffers(q, b) /\ q \in DOMAIN photo /\ q # n
    BY <1>0, <1>3, <1>7 DEF PhotoPlaces
  <2>2. \A q, c, i : Holds(q, c, i)' => Holds(q, c, i) /\ q \in DOMAIN photo /\ q # n
    BY <1>0, <1>3, <1>6, HeldIs, NewIsNowhere DEF PhotoInv
  <2>3. \A q, t : Uploads(q, t)' =>
          \/ q = n /\ t = task /\ buffer' = buffer
          \/ Uploads(q, t) /\ q \in DOMAIN photo /\ q # n
    BY <1>6, <1>7, NewIsNowhere
  <2>4. \A q, t : Uploads(q, t)' /\ upload' = upload => Uploads(q, t)
    BY DEF Uploads
  <2>5. \A q, b, c, i : Buffers(q, b)' => ~Holds(q, c, i)'
    BY <1>0, <2>1, <2>2 DEF PhotoOnce
  <2>6. \A q, b, t : Buffers(q, b)' => ~Uploads(q, t)'
    BY <1>0, <1>6, <2>1, <2>3, <2>4 DEF PhotoOnce
  <2>7. \A q, b : Buffers(q, b)' => Placed(q)' = {}
    BY <1>0, <1>8, <2>1 DEF PhotoOnce
  <2>8. \A q, c, i, d, j : Holds(q, c, i)' /\ Holds(q, d, j)' => c = d /\ i = j
    BY <1>0, <2>2 DEF PhotoOnce
  <2>9. \A q, c, i, t : Holds(q, c, i)' => ~Uploads(q, t)'
    BY <1>0, <2>2, <2>3 DEF PhotoOnce
  <2>10. \A q, c, i : Holds(q, c, i)' => Placed(q)' = {}
    BY <1>0, <1>8, <2>2 DEF PhotoOnce
  <2>11. \A q, t, u : Uploads(q, t)' /\ Uploads(q, u)' => t = u
    BY <1>0, <2>3 DEF PhotoOnce
  <2>12. \A q, t : Uploads(q, t)' => Placed(q)' = {}
    BY <1>0, <1>8, <2>3 DEF PhotoOnce
  <2>13. \A q \in DOMAIN photo' : \A i, j \in Placed(q)' : i = j
    BY <1>0, <1>3, <1>8 DEF PhotoOnce
  <2> QED BY <2>5, <2>6, <2>7, <2>8, <2>9, <2>10, <2>11, <2>12, <2>13 DEF PhotoOnce
<1> QED BY <1>9, <1>11, <1>12 DEF PhotoInv

LEMMA TicketKeeps ==
  ASSUME BotTypes, PhotoInv, NEW c \in Chats, CreateTicket(c)
  PROVE  PhotoInv'
<1>0. PhotoTypes /\ PhotoPlaces /\ PhotoOnce
  BY DEF PhotoInv
<1>k. PICK k : k = <<c, Action(c).by>>
  OBVIOUS
<1>o. PICK o : o = Len(order) + 1
  OBVIOUS
<1>m. PICK m : m = Len(Held(c)) + 1
  OBVIOUS
<1>t. PICK tasks : tasks = {[photo |-> p, how |-> "claimed"] : p \in Claimed(k)}
                             \cup {[photo |-> p, how |-> "quoted"] : p \in Action(c).quoted}
  OBVIOUS
<1>1. /\ k \in Keys /\ order' = Append(order, [key |-> k])
      /\ buffer' = [buffer EXCEPT ![k] = {}]
      /\ UNCHANGED <<photo, upload, attached>>
  BY <1>k, BotAssumption DEF CreateTicket, Claim, Keys
<1>2. /\ DOMAIN flight = Chats /\ flight[c] # NoFlight /\ DOMAIN flight[c] = FlightFields
      /\ Held(c) = flight[c].claims
      /\ flight' = [flight EXCEPT ![c].stage = "open",
                      ![c].claims = Append(@, [order |-> o, tasks |-> tasks])]
  BY <1>k, <1>o, <1>t, ReplyOpened DEF CreateTicket, Acting, At, FlightOK, Held
<1>3. /\ flight'[c].stage = "open" /\ \A d \in Chats : d # c => flight'[d] = flight[d]
      /\ flight'[c].claims = Append(Held(c), [order |-> o, tasks |-> tasks])
  BY <1>2 DEF FlightFields
<1>4. /\ Held(c)' = Append(Held(c), [order |-> o, tasks |-> tasks])
      /\ \A d \in Chats : d # c => Held(d)' = Held(d)
  <2>1. flight'[c] # NoFlight
    BY <1>3, NotNoFlight DEF Stages
  <2> QED BY <1>3, <2>1 DEF Held
<1>5. /\ IsSeq(Held(c)') /\ m \notin DOMAIN Held(c) /\ DOMAIN Held(c)' = DOMAIN Held(c) \cup {m}
      /\ \A i \in DOMAIN Held(c) : Held(c)'[i] = Held(c)[i]
      /\ Held(c)'[m].order = o /\ Held(c)'[m].tasks = tasks
  BY <1>0, <1>m, <1>4, AppendIs DEF PhotoTypes
<1>6. /\ IsSeq(order') /\ o \in DOMAIN order' /\ order'[o].key = k
      /\ \A x \in DOMAIN order : x \in DOMAIN order' /\ order'[x] = order[x]
  BY <1>0, <1>o, <1>1, AppendIs DEF PhotoTypes
<1>7. \A p, x : RightOrder(p, x) => RightOrder(p, x)'
  BY <1>1, <1>6 DEF RightOrder
<1>8. ASSUME NEW t \in tasks, Own(t)
      PROVE  t = [photo |-> t.photo, how |-> "claimed"] /\ Buffers(t.photo, k)
  <2>1. Claimed(k) \subseteq buffer[k]
    BY DEF Claimed, Oldest, Fresh
  <2>2. \/ \E p \in Claimed(k) : t = [photo |-> p, how |-> "claimed"]
        \/ \E p : t = [photo |-> p, how |-> "quoted"]
    BY <1>t
  <2>3. PICK p \in Claimed(k) : t = [photo |-> p, how |-> "claimed"]
    BY <1>8, <2>2 DEF Own
  <2> QED BY <1>1, <2>1, <2>3 DEF Buffers
<1>9. /\ DOMAIN buffer' = Keys
      /\ \A q, b : Buffers(q, b)' => Buffers(q, b) /\ b # k
      /\ \A q, t : Uploads(q, t)' <=> Uploads(q, t)
      /\ \A q : Placed(q)' = Placed(q)
  BY <1>0, <1>1 DEF Buffers, Uploads, Placed, PhotoTypes
<1>10. \A q, d, i : Holds(q, d, i)' => Holds(q, d, i) \/ (d = c /\ i = m /\ Buffers(q, k))
  <2> SUFFICES ASSUME NEW q, NEW d, NEW i, Holds(q, d, i)'
               PROVE  Holds(q, d, i) \/ (d = c /\ i = m /\ Buffers(q, k))
    OBVIOUS
  <2>1. d \in Chats /\ i \in DOMAIN Held(d)' /\ \E t \in Held(d)'[i].tasks : Own(t) /\ t.photo = q
    BY DEF Holds, Own
  <2>2. CASE d # c
    BY <1>4, <2>1, <2>2 DEF Holds
  <2>3. CASE d = c /\ i = m
    BY <1>5, <1>8, <2>1, <2>3
  <2>4. CASE d = c /\ i # m
    BY <1>5, <2>1, <2>4 DEF Holds
  <2> QED BY <2>2, <2>3, <2>4
<1>11. PhotoTypes'
  <2>1. \A d \in Chats : IsSeq(Held(d))'
    <3>1. ASSUME NEW d \in Chats, NEW s, Held(d)' = s, IsSeq(s) PROVE IsSeq(Held(d))'
      BY <3>1 DEF IsSeq
    <3> QED BY <1>0, <1>4, <1>5, <3>1 DEF PhotoTypes
  <2>2. IsSeq(order)'
    BY <1>6 DEF IsSeq
  <2>3. IsSeq(photo)' /\ IsSeq(attached)' /\ \A p \in DOMAIN photo : IsSeq(attached[p])'
    BY <1>0, <1>1, SameSeqs DEF PhotoTypes
  <2> QED BY <1>0, <1>1, <1>9, <2>1, <2>2, <2>3 DEF PhotoTypes
<1>12. PhotoPlaces'
  <2>1. (\A q, b : Buffers(q, b) => q \in DOMAIN photo /\ b = photo[q].key)'
    BY <1>0, <1>1, <1>9 DEF PhotoPlaces
  <2>2. ASSUME NEW d \in Chats, NEW i \in DOMAIN Held(d)', NEW t \in Held(d)'[i].tasks, Own(t)
        PROVE  /\ t = [photo |-> t.photo, how |-> "claimed"] /\ t.photo \in DOMAIN photo'
               /\ (RightOrder(t.photo, Held(d)[i].order))'
    <3>1. CASE d # c
      BY <1>0, <1>1, <1>4, <1>7, <2>2, <3>1 DEF PhotoPlaces
    <3>2. CASE d = c /\ i = m
      <4>1. t = [photo |-> t.photo, how |-> "claimed"] /\ Buffers(t.photo, k)
        BY <1>5, <1>8, <2>2, <3>2
      <4>2. t.photo \in DOMAIN photo /\ k = photo[t.photo].key
        BY <1>0, <4>1 DEF PhotoPlaces
      <4>3. RightOrder(t.photo, o)'
        BY <1>1, <1>6, <4>2 DEF RightOrder
      <4> QED BY <1>1, <1>5, <3>2, <4>1, <4>2, <4>3
    <3>3. CASE d = c /\ i # m
      BY <1>0, <1>1, <1>5, <1>7, <2>2, <3>3 DEF PhotoPlaces
    <3> QED BY <3>1, <3>2, <3>3
  <2>3. (\A t \in upload : Own(t) =>
           t.photo \in DOMAIN photo /\ (t.how = "claimed" => RightOrder(t.photo, t.order)))'
    BY <1>0, <1>1, <1>7 DEF PhotoPlaces
  <2>4. (\A p \in DOMAIN photo : \A i \in Placed(p) :
           attached[p][i].how = "claimed" => RightOrder(p, attached[p][i].order))'
    BY <1>0, <1>1, <1>7, <1>9 DEF PhotoPlaces
  <2> QED BY <2>1, <2>2, <2>3, <2>4 DEF PhotoPlaces, Own
<1>13. PhotoOnce'
  <2>1. \A q, b : Buffers(q, b) /\ Buffers(q, k) => b = k
    BY <1>0 DEF PhotoPlaces
  <2> QED BY <1>0, <1>1, <1>9, <1>10, <2>1 DEF PhotoOnce
<1> QED BY <1>11, <1>12, <1>13 DEF PhotoInv

LEMMA StartKeepsPhotos ==
  ASSUME BotTypes, PhotoInv, NEW c \in Chats, StartUploads(c)
  PROVE  PhotoInv'
<1>0. PhotoTypes /\ PhotoPlaces /\ PhotoOnce
  BY DEF PhotoInv
<1>1. /\ DOMAIN flight = Chats /\ flight[c] # NoFlight /\ DOMAIN flight[c] = FlightFields
      /\ flight[c].stage = "upload" /\ Held(c) = flight[c].claims /\ Held(c) # <<>>
      /\ flight' = [flight EXCEPT ![c].claims = Tail(@)]
      /\ UNCHANGED <<photo, buffer, order, attached>>
  BY ReplyOpened DEF StartUploads, At, FlightOK, Held
<1>j. PICK first : first = Held(c)[1]
  OBVIOUS
<1>2. /\ IsSeq(Held(c)) /\ 1 \in DOMAIN Held(c) /\ Head(Held(c)) = first
      /\ IsSeq(Tail(Held(c)))
      /\ \A i \in DOMAIN Tail(Held(c)) :
           /\ Tail(Held(c))[i] = Held(c)[i + 1] /\ i + 1 \in DOMAIN Held(c)
           /\ i + 1 # 1 /\ i \in Int
  <2>1. IsSeq(Held(c))
    BY <1>0 DEF PhotoTypes
  <2> QED BY <1>1, <1>j, <2>1, TailIs
<1>3. /\ Held(c)' = Tail(Held(c)) /\ \A d \in Chats : d # c => Held(d)' = Held(d)
  <2>1. /\ flight'[c].stage = "upload" /\ flight'[c].claims = Tail(Held(c))
        /\ \A d \in Chats : d # c => flight'[d] = flight[d]
    BY <1>1 DEF FlightFields
  <2>2. flight'[c] # NoFlight
    BY <2>1, NotNoFlight DEF Stages
  <2> QED BY <2>1, <2>2 DEF Held
<1>4. upload' = upload \cup {Task(t.photo, first.order, t.how, NoToken) : t \in first.tasks}
  BY <1>1, <1>2 DEF StartUploads
<1>5. ASSUME NEW u \in upload', u \notin upload
      PROVE  /\ DOMAIN u = {"photo", "order", "how", "token"}
             /\ Own(u) => /\ u = Task(u.photo, first.order, "claimed", NoToken)
                          /\ Holds(u.photo, c, 1) /\ u.photo \in DOMAIN photo
                          /\ RightOrder(u.photo, u.order)
  <2>1. PICK t \in first.tasks : u = Task(t.photo, first.order, t.how, NoToken)
    BY <1>4, <1>5
  <2>2. /\ u.photo = t.photo /\ u.how = t.how /\ u.order = first.order
        /\ DOMAIN u = {"photo", "order", "how", "token"}
    BY <2>1 DEF Task
  <2>3. ASSUME Own(t)
        PROVE  /\ t.how = "claimed" /\ t.photo \in DOMAIN photo /\ RightOrder(t.photo, first.order)
               /\ Holds(t.photo, c, 1)
    <3>1. t = [photo |-> t.photo, how |-> "claimed"]
      BY <1>0, <1>2, <1>j, <2>3 DEF PhotoPlaces
    <3>2. t.how = "claimed"
      BY <3>1
    <3> QED BY <1>0, <1>2, <1>j, <2>3, <3>2 DEF PhotoPlaces, Holds
  <2> QED BY <2>1, <2>2, <2>3 DEF Own
<1>6. /\ \A q, b : Buffers(q, b)' <=> Buffers(q, b)
      /\ \A q : Placed(q)' = Placed(q)
      /\ \A q, x : RightOrder(q, x)' <=> RightOrder(q, x)
  BY <1>1 DEF Buffers, Placed, RightOrder
<1>7. \A q, u : Uploads(q, u)' =>
        \/ Uploads(q, u)
        \/ u = Task(q, first.order, "claimed", NoToken) /\ Holds(q, c, 1)
  BY <1>5 DEF Uploads
<1>8. ASSUME NEW q, NEW d, NEW i, Holds(q, d, i)'
      PROVE  \/ d # c /\ Holds(q, d, i)
             \/ d = c /\ Holds(q, c, i + 1) /\ i + 1 # 1 /\ i \in Int
  <2>1. d \in Chats /\ i \in DOMAIN Held(d)' /\ \E t \in Held(d)'[i].tasks : Own(t) /\ t.photo = q
    BY <1>8 DEF Holds, Own
  <2>2. CASE d # c
    BY <1>3, <2>1, <2>2 DEF Holds
  <2>3. CASE d = c
    <3>1. /\ i + 1 \in DOMAIN Held(c) /\ i + 1 # 1 /\ i \in Int
          /\ Held(c)'[i] = Held(c)[i + 1]
      BY <1>2, <1>3, <2>1, <2>3
    <3>2. \E t \in Held(c)[i + 1].tasks : Own(t) /\ t.photo = q
      BY <2>1, <2>3, <3>1
    <3> QED BY <2>3, <3>1, <3>2 DEF Holds
  <2> QED BY <2>2, <2>3
<1>9. PhotoTypes'
  <2>1. \A d \in Chats : IsSeq(Held(d))'
    <3>1. ASSUME NEW d \in Chats, NEW s, Held(d)' = s, IsSeq(s) PROVE IsSeq(Held(d))'
      BY <3>1 DEF IsSeq
    <3> QED BY <1>0, <1>2, <1>3, <3>1 DEF PhotoTypes
  <2>2. \A t \in upload' : DOMAIN t = {"photo", "order", "how", "token"}
    BY <1>0, <1>5 DEF PhotoTypes
  <2>3. /\ IsSeq(photo)' /\ IsSeq(order)' /\ IsSeq(attached)'
        /\ \A p \in DOMAIN photo : IsSeq(attached[p])'
    BY <1>0, <1>1, SameSeqs DEF PhotoTypes
  <2> QED BY <1>0, <1>1, <2>1, <2>2, <2>3 DEF PhotoTypes
<1>10. PhotoPlaces'
  <2>1. (\A q, b : Buffers(q, b) => q \in DOMAIN photo /\ b = photo[q].key)'
    BY <1>0, <1>1, <1>6 DEF PhotoPlaces
  <2>2. ASSUME NEW d \in Chats, NEW i \in DOMAIN Held(d)', NEW t \in Held(d)'[i].tasks, Own(t)
        PROVE  /\ t = [photo |-> t.photo, how |-> "claimed"] /\ t.photo \in DOMAIN photo'
               /\ (RightOrder(t.photo, Held(d)[i].order))'
    <3>1. CASE d # c
      BY <1>0, <1>1, <1>3, <1>6, <2>2, <3>1 DEF PhotoPlaces
    <3>2. CASE d = c
      <4>1. i + 1 \in DOMAIN Held(c) /\ Held(c)'[i] = Held(c)[i + 1]
        BY <1>2, <1>3, <2>2, <3>2
      <4> QED BY <1>0, <1>1, <1>6, <2>2, <3>2, <4>1 DEF PhotoPlaces
    <3> QED BY <3>1, <3>2
  <2>3. ASSUME NEW t \in upload', Own(t)
        PROVE  t.photo \in DOMAIN photo' /\ (t.how = "claimed" => RightOrder(t.photo, t.order)')
    <3>1. CASE t \in upload
      BY <1>0, <1>1, <1>6, <2>3, <3>1 DEF PhotoPlaces
    <3>2. CASE t \notin upload
      BY <1>1, <1>5, <1>6, <2>3, <3>2
    <3> QED BY <3>1, <3>2
  <2>4. (\A p \in DOMAIN photo : \A i \in Placed(p) :
           attached[p][i].how = "claimed" => RightOrder(p, attached[p][i].order))'
    BY <1>0, <1>1, <1>6 DEF PhotoPlaces
  <2> QED BY <2>1, <2>2, <2>3, <2>4 DEF PhotoPlaces, Own
<1>11. PhotoOnce'
  \* Where it was held before.
  <2>1. \A q, d, i : Holds(q, d, i)' => \E j : Holds(q, d, j) /\ (d = c => j # 1)
    BY <1>8
  <2>2. \A q, d, i, e, j : Holds(q, d, i)' /\ Holds(q, e, j)' => d = e /\ i = j
    <3> SUFFICES ASSUME NEW q, NEW d, NEW i, NEW e, NEW j, Holds(q, d, i)', Holds(q, e, j)'
                 PROVE  d = e /\ i = j
      OBVIOUS
    <3>1. CASE d = c /\ e = c
      <4>1. i + 1 = j + 1 /\ i \in Int /\ j \in Int
        BY <1>0, <1>8, <3>1 DEF PhotoOnce
      <4> QED BY <3>1, <4>1
    <3>2. CASE d # c \/ e # c
      BY <1>0, <1>8, <3>2 DEF PhotoOnce
    <3> QED BY <3>1, <3>2
  <2>3. \A q, b, d, i : Buffers(q, b)' => ~Holds(q, d, i)'
    BY <1>0, <1>6, <2>1 DEF PhotoOnce
  <2>4. \A q, b, u : Buffers(q, b)' => ~Uploads(q, u)'
    BY <1>0, <1>6, <1>7 DEF PhotoOnce
  <2>5. \A q, d, i, u : Holds(q, d, i)' => ~Uploads(q, u)'
    BY <1>0, <1>7, <2>1 DEF PhotoOnce
  <2>6. \A q, t, u : Uploads(q, t)' /\ Uploads(q, u)' => t = u
    BY <1>0, <1>7 DEF PhotoOnce
  <2>7. /\ \A q, b : Buffers(q, b)' => Placed(q)' = {}
        /\ \A q, d, i : Holds(q, d, i)' => Placed(q)' = {}
        /\ \A q, t : Uploads(q, t)' => Placed(q)' = {}
        /\ \A q \in DOMAIN photo' : \A i, j \in Placed(q)' : i = j
    BY <1>0, <1>1, <1>6, <1>7, <2>1 DEF PhotoOnce
  <2> QED BY <2>2, <2>3, <2>4, <2>5, <2>6, <2>7 DEF PhotoOnce
<1> QED BY <1>9, <1>10, <1>11 DEF PhotoInv

LEMMA EarlyKeepsPhotos ==
  ASSUME PhotoInv, NEW t \in upload, AnswerEarly(t), HeldKept
  PROVE  PhotoInv'
<1>0. PhotoTypes /\ PhotoPlaces /\ PhotoOnce
  BY DEF PhotoInv
<1>n. PICK n : n = [t EXCEPT !.token = NoToken]
  OBVIOUS
<1>1. /\ upload' = (upload \ {t}) \cup {n}
      /\ UNCHANGED <<photo, buffer, order, attached>>
  BY <1>n DEF AnswerEarly
<1>2. /\ n.photo = t.photo /\ n.order = t.order /\ n.how = t.how
      /\ DOMAIN n = {"photo", "order", "how", "token"}
  BY <1>0, <1>n DEF PhotoTypes
<1>3. /\ \A q, b : Buffers(q, b)' <=> Buffers(q, b)
      /\ \A q : Placed(q)' = Placed(q)
      /\ \A q, x : RightOrder(q, x)' <=> RightOrder(q, x)
      /\ \A q, u : Uploads(q, u)' => (Uploads(q, u) /\ u # t) \/ (u = n /\ Uploads(q, t))
      /\ \A q, c, i : Holds(q, c, i)' => Holds(q, c, i)
  BY <1>0, <1>1, <1>2, HeldIs DEF Buffers, Placed, RightOrder, Uploads, Own
<1>4. PhotoTypes'
  <2>1. /\ IsSeq(photo)' /\ IsSeq(order)' /\ IsSeq(attached)'
        /\ \A p \in DOMAIN photo : IsSeq(attached[p])'
    BY <1>0, <1>1, SameSeqs DEF PhotoTypes
  <2> QED BY <1>0, <1>1, <1>2, <2>1, HeldIs DEF PhotoTypes
<1>5. PhotoPlaces'
  <2>1. (\A q, b : Buffers(q, b) => q \in DOMAIN photo /\ b = photo[q].key)'
    BY <1>0, <1>1, <1>3 DEF PhotoPlaces
  <2>2. (\A c \in Chats : \A i \in DOMAIN Held(c) : \A u \in Held(c)[i].tasks :
           Own(u) => /\ u = [photo |-> u.photo, how |-> "claimed"] /\ u.photo \in DOMAIN photo
                     /\ RightOrder(u.photo, Held(c)[i].order))'
    BY <1>0, <1>1, <1>3, HeldIs DEF PhotoPlaces
  <2>3. ASSUME NEW u \in upload', Own(u)
        PROVE  u.photo \in DOMAIN photo' /\ (u.how = "claimed" => RightOrder(u.photo, u.order)')
    BY <1>0, <1>1, <1>2, <1>3, <2>3 DEF PhotoPlaces, Own
  <2>4. (\A p \in DOMAIN photo : \A i \in Placed(p) :
           attached[p][i].how = "claimed" => RightOrder(p, attached[p][i].order))'
    BY <1>0, <1>1, <1>3 DEF PhotoPlaces
  <2> QED BY <2>1, <2>2, <2>3, <2>4 DEF PhotoPlaces, Own
<1>6. PhotoOnce'
  BY <1>0, <1>1, <1>3 DEF PhotoOnce
<1> QED BY <1>4, <1>5, <1>6 DEF PhotoInv

LEMMA DoneKeepsPhotos ==
  ASSUME PhotoInv, NEW t \in upload, UploadDone(t), HeldKept
  PROVE  PhotoInv'
<1>0. PhotoTypes /\ PhotoPlaces /\ PhotoOnce
  BY DEF PhotoInv
<1>p. PICK p : p = t.photo
  OBVIOUS
<1>1. /\ upload' = upload \ {t} /\ UNCHANGED <<photo, buffer, order>>
      /\ \/ attached' = [attached EXCEPT ![p] = Append(@, [order |-> t.order, how |-> t.how])]
         \/ attached' = attached
  BY <1>p DEF UploadDone
<1>2. CASE attached' = attached
  BY <1>0, <1>1, <1>2, FewerKeep DEF PhotoTypes
<1>3. CASE p \notin DOMAIN attached
  <2> DEFINE S == {attached[i] : i \in DOMAIN attached}
  <2>0. attached \in Seq(S)
    BY <1>0 DEF PhotoTypes, IsSeq
  <2> HIDE DEF S
  <2>1. attached \in [1 .. Len(attached) -> S] /\ DOMAIN attached = 1 .. Len(attached)
    BY <2>0, LenProperties
  <2>2. attached' = attached
    BY <1>1, <1>3, <2>1
  <2> QED BY <1>2, <2>2
<1>4. CASE /\ p \in DOMAIN attached
           /\ attached' = [attached EXCEPT ![p] = Append(@, [order |-> t.order, how |-> t.how])]
  <2> DEFINE s == attached[p]
             e == [order |-> t.order, how |-> t.how]
  <2>n. PICK n : n = Len(s) + 1
    OBVIOUS
  <2>1. /\ DOMAIN attached' = DOMAIN attached /\ attached'[p] = Append(s, e)
        /\ \A q : q \in DOMAIN photo /\ q # p => attached'[q] = attached[q]
    BY <1>0, <1>4 DEF PhotoTypes
  <2>2. /\ IsSeq(attached'[p]) /\ n \notin DOMAIN s /\ DOMAIN attached'[p] = DOMAIN s \cup {n}
        /\ \A i \in DOMAIN s : attached'[p][i] = s[i]
        /\ attached'[p][n] = e
    BY <1>0, <1>4, <2>n, <2>1, AppendIs DEF PhotoTypes
  <2>3. /\ \A q : q \in DOMAIN photo /\ q # p => Placed(q)' = Placed(q)
        /\ Own(t) => Placed(p)' = {n} /\ Placed(p) = {}
        /\ ~Own(t) => Placed(p)' = Placed(p)
    <3>1. \A q : q \in DOMAIN photo /\ q # p => Placed(q)' = Placed(q)
      BY <2>1 DEF Placed
    <3>2. ASSUME Own(t) PROVE Placed(p)' = {n} /\ Placed(p) = {}
      <4>1. Placed(p) = {}
        BY <1>0, <1>p, <3>2 DEF PhotoOnce, Uploads
      <4>2. \A i \in DOMAIN s : s[i].how = "quoted"
        BY <4>1 DEF Placed
      <4> QED BY <2>2, <3>2, <4>1, <4>2 DEF Placed, Own
    <3>3. ASSUME ~Own(t) PROVE Placed(p)' = Placed(p)
      BY <2>2, <3>3 DEF Placed, Own
    <3> QED BY <3>1, <3>2, <3>3
  <2>4. /\ \A q, b : Buffers(q, b)' <=> Buffers(q, b)
        /\ \A q, x : RightOrder(q, x)' <=> RightOrder(q, x)
        /\ \A q, u : Uploads(q, u)' => Uploads(q, u) /\ u # t
        /\ \A q, c, i : Holds(q, c, i)' => Holds(q, c, i)
    BY <1>0, <1>1, HeldIs DEF Buffers, RightOrder, Uploads
  \* A photo that is anywhere else is not the one that got through.
  <2>5. Own(t) => /\ \A b : ~Buffers(p, b)
                  /\ \A c, i : ~Holds(p, c, i)
                  /\ \A u : Uploads(p, u) => u = t
    <3>1. Own(t) => Uploads(p, t)
      BY <1>p DEF Uploads
    <3> QED BY <1>0, <3>1 DEF PhotoOnce
  <2>6. PhotoTypes'
    <3>1. IsSeq(attached)'
      <4>1. IsSeq(attached')
        BY <1>0, <1>4, ExceptIs DEF PhotoTypes
      <4> QED BY <4>1 DEF IsSeq
    <3>2. \A q \in DOMAIN photo : IsSeq(attached[q])'
      <4>1. \A q \in DOMAIN photo : IsSeq(attached'[q])
        BY <1>0, <2>1, <2>2 DEF PhotoTypes
      <4> QED BY <4>1 DEF IsSeq
    <3>3. IsSeq(photo)' /\ IsSeq(order)'
      BY <1>0, <1>1, SameSeqs DEF PhotoTypes
    <3> QED BY <1>0, <1>1, <2>1, <3>1, <3>2, <3>3, HeldIs DEF PhotoTypes
  <2>7. PhotoPlaces'
    <3>1. (\A q, b : Buffers(q, b) => q \in DOMAIN photo /\ b = photo[q].key)'
      BY <1>0, <1>1, <2>4 DEF PhotoPlaces
    <3>2. (\A c \in Chats : \A i \in DOMAIN Held(c) : \A u \in Held(c)[i].tasks :
             Own(u) => /\ u = [photo |-> u.photo, how |-> "claimed"] /\ u.photo \in DOMAIN photo
                       /\ RightOrder(u.photo, Held(c)[i].order))'
      BY <1>0, <1>1, <2>4, HeldIs DEF PhotoPlaces
    <3>3. (\A u \in upload : Own(u) =>
             u.photo \in DOMAIN photo /\ (u.how = "claimed" => RightOrder(u.photo, u.order)))'
      BY <1>0, <1>1, <2>4 DEF PhotoPlaces, Own
    <3>4. ASSUME NEW q \in DOMAIN photo', NEW i \in Placed(q)'
          PROVE  attached'[q][i].how = "claimed" => (RightOrder(q, attached[q][i].order))'
      <4>1. CASE q # p \/ ~Own(t)
        <5>1. q \in DOMAIN photo /\ i \in Placed(q)
          BY <1>1, <2>3, <3>4, <4>1
        <5>2. attached'[q][i] = attached[q][i]
          BY <2>1, <2>2, <5>1 DEF Placed
        <5> QED BY <1>0, <2>4, <5>1, <5>2 DEF PhotoPlaces
      <4>2. CASE q = p /\ Own(t)
        <5>1. i = n /\ attached'[q][i] = e
          BY <2>2, <2>3, <3>4, <4>2
        <5>2. attached'[q][i].how = "claimed" => RightOrder(q, attached'[q][i].order)
          BY <1>0, <1>p, <4>2, <5>1 DEF PhotoPlaces
        <5> QED BY <2>4, <5>2
      <4> QED BY <4>1, <4>2
    <3> QED BY <3>1, <3>2, <3>3, <3>4 DEF PhotoPlaces
  <2>8. PhotoOnce'
    <3>1. \A q, b : Buffers(q, b)' => Placed(q)' = {}
      BY <1>0, <1>1, <2>3, <2>4, <2>5 DEF PhotoOnce, PhotoPlaces
    <3>2. \A q, c, i : Holds(q, c, i)' => Placed(q)' = {}
      BY <1>0, <2>3, <2>4, <2>5, NewIsNowhere DEF PhotoOnce
    <3>3. \A q, u : Uploads(q, u)' => Placed(q)' = {}
      BY <1>0, <2>3, <2>4, <2>5, NewIsNowhere DEF PhotoOnce
    <3>4. \A q \in DOMAIN photo' : \A i, j \in Placed(q)' : i = j
      BY <1>0, <1>1, <2>3 DEF PhotoOnce
    <3>5. /\ \A q, b, c, i : Buffers(q, b)' => ~Holds(q, c, i)'
          /\ \A q, b, u : Buffers(q, b)' => ~Uploads(q, u)'
          /\ \A q, c, i, d, j : Holds(q, c, i)' /\ Holds(q, d, j)' => c = d /\ i = j
          /\ \A q, c, i, u : Holds(q, c, i)' => ~Uploads(q, u)'
          /\ \A q, u, v : Uploads(q, u)' /\ Uploads(q, v)' => u = v
      BY <1>0, <2>4 DEF PhotoOnce
    <3> QED BY <3>1, <3>2, <3>3, <3>4, <3>5 DEF PhotoOnce
  <2> QED BY <2>6, <2>7, <2>8 DEF PhotoInv
<1> QED BY <1>1, <1>2, <1>3, <1>4

LEMMA PhotoInit == BotInit => PhotoInv
<1> SUFFICES ASSUME BotInit PROVE PhotoInv
  OBVIOUS
<1>1. /\ photo = <<>> /\ order = <<>> /\ attached = <<>> /\ upload = {}
      /\ buffer = [k \in Keys |-> {}]
      /\ \A c \in Chats : Held(c) = <<>>
  BY DEF BotInit, DeskInit, Held
<1>2. PhotoTypes
  BY <1>1, EmptyIs DEF PhotoTypes
<1>3. /\ \A p, k : ~Buffers(p, k)
      /\ \A p, c, i : ~Holds(p, c, i)
      /\ \A p, t : ~Uploads(p, t)
  BY <1>1, EmptyIs DEF Buffers, Holds, Uploads
<1>4. PhotoPlaces
  BY <1>1, <1>3, EmptyIs DEF PhotoPlaces
<1>5. PhotoOnce
  BY <1>1, <1>3, EmptyIs DEF PhotoOnce
<1> QED BY <1>2, <1>4, <1>5 DEF PhotoInv

LEMMA PhotoStep ==
  ASSUME BotTypes, PhotoInv, [BotNext]_staffVars
  PROVE  PhotoInv'
<1>1. CASE StaysPut
  BY <1>1, FewerKeep DEF StaysPut, PhotoInv, PhotoTypes
<1>2. CASE Restart
  <2>1. /\ UNCHANGED <<photo, order, attached>> /\ upload' = {}
        /\ buffer' = [k \in Keys |-> {}] /\ \A c \in Chats : Held(c)' = <<>>
    BY <1>2 DEF Restart, DeskLost, Held
  <2> QED BY <2>1, FewerKeep DEF HeldKept
<1>3. ASSUME NEW k, NEW t, PhotoArrives(k, t), HeldKept PROVE PhotoInv'
  BY <1>3, ArrivalKeeps
<1>4. ASSUME NEW c \in Chats, CreateTicket(c) \/ StartUploads(c) PROVE PhotoInv'
  BY <1>4, TicketKeeps, StartKeepsPhotos
<1>5. ASSUME NEW t \in upload, UploadDone(t) \/ AnswerEarly(t), HeldKept PROVE PhotoInv'
  BY <1>5, DoneKeepsPhotos, EarlyKeepsPhotos
<1> QED BY <1>1, <1>2, <1>3, <1>4, <1>5, PhotoSteps

LEMMA OneAtMost ==
  ASSUME NEW S, \A x, y \in S : x = y
  PROVE  Cardinality(S) \in {0, 1} /\ (S = {} => Cardinality(S) = 0)
<1>1. CASE S = {}
  BY <1>1, FS_EmptySet
<1>2. CASE S # {}
  <2>1. PICK x \in S : S = {x}
    BY <1>2
  <2> QED BY <1>2, <2>1, FS_Singleton
<1> QED BY <1>1, <1>2

\* A photo is in one place at a time - waiting in the buffer, being uploaded, or
\* at one order - and one claimed from the buffer goes to an order that its
\* sender reported in its chat.
THEOREM PhotosStayWithReports == BotSpec => []PhotosFollowReports
<1>1. BotInit => BotTypes /\ PhotoInv
  BY BotTypesInit, PhotoInit
<1>2. BotTypes /\ PhotoInv /\ [BotNext]_staffVars => BotTypes' /\ PhotoInv'
  BY BotTypesStep, PhotoStep
<1>3. BotTypes /\ PhotoInv => PhotosFollowReports
  <2> SUFFICES ASSUME PhotoInv, NEW p \in DOMAIN photo
               PROVE  LET tasks == {t \in upload : t.photo = p /\ t.how # "quoted"}
                          inBuffer == {b \in Keys : p \in buffer[b]}
                      IN /\ Cardinality(Placed(p)) + Cardinality(tasks) + Cardinality(inBuffer) <= 1
                         /\ \A i \in Placed(p) :
                              attached[p][i].how = "claimed"
                                => order[attached[p][i].order].key = photo[p].key
    BY DEF PhotosFollowReports
  <2> DEFINE tasks == {t \in upload : t.photo = p /\ t.how # "quoted"}
             inBuffer == {b \in Keys : p \in buffer[b]}
  <2>1. /\ \A t : t \in tasks <=> Uploads(p, t)
        /\ \A b : b \in inBuffer <=> Buffers(p, b)
    BY DEF Uploads, Buffers, Own
  <2> HIDE DEF tasks, inBuffer
  <2>2. /\ \A i, j \in Placed(p) : i = j
        /\ \A t, u \in tasks : t = u
        /\ \A b, d \in inBuffer : b = d
    BY <2>1 DEF PhotoInv, PhotoOnce, PhotoPlaces
  <2>3. /\ tasks = {} \/ inBuffer = {}
        /\ tasks = {} \/ Placed(p) = {}
        /\ inBuffer = {} \/ Placed(p) = {}
    BY <2>1 DEF PhotoInv, PhotoOnce
  <2>4. /\ Cardinality(Placed(p)) \in {0, 1} /\ (Placed(p) = {} => Cardinality(Placed(p)) = 0)
        /\ Cardinality(tasks) \in {0, 1} /\ (tasks = {} => Cardinality(tasks) = 0)
        /\ Cardinality(inBuffer) \in {0, 1} /\ (inBuffer = {} => Cardinality(inBuffer) = 0)
    BY <2>2, OneAtMost
  <2>5. Cardinality(Placed(p)) + Cardinality(tasks) + Cardinality(inBuffer) <= 1
    BY <2>3, <2>4
  <2>6. \A i \in Placed(p) :
          attached[p][i].how = "claimed" => order[attached[p][i].order].key = photo[p].key
    BY DEF PhotoInv, PhotoPlaces, RightOrder
  <2> QED BY <2>5, <2>6 DEF tasks, inBuffer
<1> QED BY <1>1, <1>2, <1>3, PTL DEF BotSpec

=============================================================================
