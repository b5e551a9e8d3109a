-------------------------- MODULE DocumentJobProofs -------------------------
(* Theorems about DocumentJob, for every number of workers and documents,  *)
(* every MaxAttempts, every limit and every number of faults of any kind.  *)
EXTENDS DocumentJob, SumProofs

LEMMA NoWriteType == NoWrite \in Write /\ NoJob \in Job
BY DEF NoWrite, Write, NoJob, Job, DocumentState

LEMMA TypeInit == Init => TypeOK
BY DocumentAssumption, NoWriteType
   DEF Init, TypeOK, Row, Command, DocumentState, PC

-----------------------------------------------------------------------------
(* The two ways a transaction changes *)

LEMMA UpdateEffect ==
    ASSUME TypeOK, NEW w \in Workers, NEW d \in Documents,
           NEW s \in DocumentState, NEW n \in Nat, Update(w, d, s, n)
    PROVE  /\ tx' \in [Workers -> Write]
           /\ lock' \in [Documents -> Workers \cup {NoWorker}]
           /\ \A v \in Workers : tx'[v] # NoWrite =>
                 tx'[v].document \in Documents /\ lock'[tx'[v].document] = v
           /\ \A v \in Workers : v # w => tx'[v] = tx[v]
           /\ \/ row[d].state = "DELETED" /\ tx' = tx /\ lock' = lock
              \/ /\ row[d].state # "DELETED"
                 /\ tx'[w] = [document |-> d, state |-> s, size |-> n]
<1>1. CASE row[d].state = "DELETED"
  BY <1>1 DEF Update, TypeOK
<1>2. CASE row[d].state # "DELETED"
  <2>1. /\ lock[d] \in {NoWorker, w}
        /\ tx' = [tx EXCEPT ![w] = [document |-> d, state |-> s, size |-> n]]
        /\ lock' = [lock EXCEPT ![d] = w]
    BY <1>2 DEF Update
  <2>2. [document |-> d, state |-> s, size |-> n] \in Write
    BY DEF Write
  <2>3. /\ tx' \in [Workers -> Write]
        /\ lock' \in [Documents -> Workers \cup {NoWorker}]
        /\ tx'[w] = [document |-> d, state |-> s, size |-> n]
        /\ \A v \in Workers : v # w => tx'[v] = tx[v]
    BY <2>1, <2>2 DEF TypeOK
  <2>4. ASSUME NEW v \in Workers, tx'[v] # NoWrite
        PROVE  tx'[v].document \in Documents /\ lock'[tx'[v].document] = v
    <3>1. CASE v = w
      BY <2>1, <2>3, <3>1 DEF TypeOK
    <3>2. CASE v # w
      BY <2>1, <2>3, <2>4, <3>2, DocumentAssumption DEF TypeOK
    <3>. QED  BY <3>1, <3>2
  <2>. QED  BY <1>2, <2>3, <2>4
<1>. QED  BY <1>1, <1>2

LEMMA RolledBackEffect ==
    ASSUME TypeOK, NEW w \in Workers, RolledBack(w)
    PROVE  /\ tx' \in [Workers -> Write]
           /\ lock' \in [Documents -> Workers \cup {NoWorker}]
           /\ aborted' \in [Workers -> BOOLEAN]
           /\ \A v \in Workers : tx'[v] # NoWrite =>
                 tx'[v].document \in Documents /\ lock'[tx'[v].document] = v
           /\ tx'[w] = NoWrite /\ aborted'[w] = FALSE
           /\ \A v \in Workers : v # w => tx'[v] = tx[v] /\ aborted'[v] = aborted[v]
<1>1. /\ tx' = [tx EXCEPT ![w] = NoWrite]
      /\ lock' = [d \in Documents |-> IF lock[d] = w THEN NoWorker ELSE lock[d]]
      /\ aborted' = [aborted EXCEPT ![w] = FALSE]
  BY DEF RolledBack, Unlocked
<1>2. /\ tx'[w] = NoWrite /\ aborted'[w] = FALSE
      /\ \A v \in Workers : v # w => tx'[v] = tx[v] /\ aborted'[v] = aborted[v]
  BY <1>1 DEF TypeOK
<1>3. /\ tx' \in [Workers -> Write]
      /\ lock' \in [Documents -> Workers \cup {NoWorker}]
      /\ aborted' \in [Workers -> BOOLEAN]
  BY <1>1, NoWriteType DEF TypeOK
<1>4. ASSUME NEW v \in Workers, tx'[v] # NoWrite
      PROVE  tx'[v].document \in Documents /\ lock'[tx'[v].document] = v
  BY <1>1, <1>2, <1>4 DEF TypeOK
<1>. QED  BY <1>2, <1>3, <1>4

-----------------------------------------------------------------------------
(* Steps that leave the table, its locks and its transactions alone *)
QuietStep(w) ==
    \/ Construct(w) \/ CheckCompliance(w) \/ GetDocument(w) \/ PrepareTemplate(w)
    \/ BuildDocument(w) \/ StoreDocument(w) \/ StepFails(w)
    \/ CheckDocumentExists(w) \/ Leave(w) \/ RecordInFailedTransaction(w)
    \/ TimeOut(w) \/ StallInConstruct(w) \/ BreakTransaction(w)

LEMMA RaiseType ==
    ASSUME TypeOK, NEW w \in Workers, pc[w] \in SqlStep, Raise(w)
    PROVE  /\ pc' \in [Workers -> PC]
           /\ current' \in [Workers -> Documents \cup {NoDocument}]
           /\ \A v \in Workers : v # w => pc'[v] = pc[v] /\ current'[v] = current[v]
           /\ pc[w] # "idle"
<1>1. pc[w] # "idle"
  BY DEF SqlStep
<1>2. /\ Goto(w, "failing") \/ Return(w) \/ Goto(w, "error")
      /\ UNCHANGED current \/ current' = [current EXCEPT ![w] = NoDocument]
  BY DEF Raise, SqlStep, RunStep
<1>. QED  BY <1>1, <1>2 DEF Goto, Return, TypeOK, PC, SqlStep, Outcome

LEMMA FaultType ==
    ASSUME TypeOK, NEW k, Fault(k)
    PROVE  faults' \in 0..MaxFaults
BY DocumentAssumption DEF TypeOK, Fault

LEMMA QuietType ==
    ASSUME TypeOK, NEW w \in Workers, QuietStep(w)
    PROVE  TypeOK'
<1>1. CASE \/ Construct(w) \/ CheckCompliance(w) \/ PrepareTemplate(w)
           \/ CheckDocumentExists(w) \/ Leave(w)
  BY <1>1 DEF Construct, CheckCompliance, PrepareTemplate, CheckDocumentExists,
              Leave, Return, Goto, TypeOK, PC, RunStep, SqlStep, Outcome, dbVars, Doc
<1>2. CASE GetDocument(w)
  <2>1. Return(w) \/ Goto(w, "failing") \/ Goto(w, "retrieve")
    BY <1>2 DEF GetDocument
  <2>. QED
    BY <1>2, <2>1 DEF GetDocument, Return, Goto, TypeOK, PC, RunStep, SqlStep,
                      Outcome, dbVars, Doc
<1>3. CASE BuildDocument(w)
  <2>1. PICK size \in Sizes :
           \/ job' = [job EXCEPT ![w].size = size] /\ Goto(w, "store")
           \/ Goto(w, "failing") /\ UNCHANGED job
    BY <1>3 DEF BuildDocument
  <2>2. job' \in [Workers -> Job] /\ \A v \in Workers : job'[v].document = job[v].document
    <3>1. CASE UNCHANGED job
      BY <3>1 DEF TypeOK
    <3>2. CASE job' = [job EXCEPT ![w].size = size]
      <4>1. job[w] \in Job /\ size \in Nat
        BY DocumentAssumption DEF TypeOK
      <4>2. [job[w] EXCEPT !.size = size] \in Job
        BY <4>1 DEF Job
      <4>3. job' = [job EXCEPT ![w] = [job[w] EXCEPT !.size = size]]
        BY <3>2
      <4>4. job' \in [Workers -> Job]
        BY <4>2, <4>3 DEF TypeOK
      <4>5. job'[w].document = job[w].document
        BY <4>1, <4>3 DEF TypeOK, Job
      <4>. QED  BY <4>3, <4>4, <4>5 DEF TypeOK
    <3>. QED  BY <2>1, <3>1, <3>2
  <2>. QED
    BY <1>3, <2>1, <2>2 DEF BuildDocument, Goto, TypeOK, PC, RunStep, SqlStep,
                            dbVars, Doc
<1>4. CASE StoreDocument(w)
  BY <1>4 DEF StoreDocument, Goto, TypeOK, PC, RunStep, Job, Doc
<1>5. CASE StepFails(w) \/ TimeOut(w)
  <2>1. /\ object' = object \/ object' = [object EXCEPT ![Doc(w)] = job[w].size]
        /\ pc[w] # "idle"
        /\ Goto(w, "failing") \/ Goto(w, "timed_out")
        /\ UNCHANGED <<row, command, lock, tx, aborted, job, current, dropped, faults>>
    BY <1>5 DEF StepFails, TimeOut, RunStep
  <2>2. object' \in [Documents -> Nat]
    BY <2>1 DEF TypeOK, Job
  <2>. QED  BY <2>1, <2>2 DEF TypeOK, Goto, PC, SqlStep, Doc
<1>6. CASE RecordInFailedTransaction(w)
  BY <1>6, NoWriteType
     DEF RecordInFailedTransaction, Goto, TypeOK, PC, dbVars, Doc
<1>7. CASE StallInConstruct(w)
  <2>1. faults' \in 0..MaxFaults
    BY <1>7, FaultType DEF StallInConstruct
  <2>. QED
    BY <1>7, <2>1 DEF StallInConstruct, Goto, TypeOK, PC, SqlStep, dbVars, Doc
<1>8. CASE BreakTransaction(w)
  <2>1. /\ aborted' = [aborted EXCEPT ![w] = TRUE]
        /\ faults' \in 0..MaxFaults
        /\ UNCHANGED <<row, object, command, lock, tx, job, dropped>>
        /\ Raise(w) /\ pc[w] \in SqlStep
    BY <1>8, FaultType DEF BreakTransaction
  <2>. QED  BY <2>1, RaiseType DEF TypeOK, Doc
<1>. QED  BY <1>1, <1>2, <1>3, <1>4, <1>5, <1>6, <1>7, <1>8 DEF QuietStep

-----------------------------------------------------------------------------
(* Steps that write into the transaction, or end it without a commit *)
WriteStep(w) ==
    Retrieve(w) \/ Finalize(w) \/ MarkFailed(w) \/ ProcessTimeout(w)

RollbackStep(w) ==
    \/ RetriesRunOut(w) \/ Crash(w)
    \/ LoseConnection(w) \/ LoseDatabase(w) \/ LoseCommit(w)

(* A write step is one UPDATE, or none. *)
LEMMA WriteShape ==
    ASSUME TypeOK, NEW w \in Workers, WriteStep(w)
    PROVE  /\ UNCHANGED <<row, object, command, aborted, job, dropped, faults>>
           /\ pc[w] # "idle"
           /\ \/ UNCHANGED <<tx, lock>>
              \/ \E d \in Documents, s \in DocumentState, n \in Nat : Update(w, d, s, n)
           /\ pc' \in [Workers -> PC]
           /\ current' \in [Workers -> Documents \cup {NoDocument}]
           /\ \A v \in Workers : v # w => pc'[v] = pc[v] /\ current'[v] = current[v]
<1>1. /\ UNCHANGED <<row, object, command, aborted, job, dropped, faults>>
      /\ pc[w] # "idle" /\ Doc(w) \in Documents
  BY DEF WriteStep, Retrieve, Finalize, MarkFailed, ProcessTimeout, TypeOK
<1>2. job[w].size \in Nat /\ \A d \in Documents : row[d].size \in Nat
  BY DEF TypeOK, Job, Row
<1>3. \/ UNCHANGED <<tx, lock>>
      \/ \E d \in Documents, s \in DocumentState, n \in Nat : Update(w, d, s, n)
  <2>1. \/ UNCHANGED <<tx, lock>>
        \/ Update(w, Doc(w), "PROCESSING", row[Doc(w)].size)
        \/ Update(w, Doc(w), "FINISHED", job[w].size)
        \/ Update(w, Doc(w), "FAILED", row[Doc(w)].size)
        \/ current[w] # NoDocument /\ Update(w, current[w], "FAILED", row[current[w]].size)
    BY DEF WriteStep, Retrieve, Finalize, MarkFailed, ProcessTimeout
  <2>2. current[w] # NoDocument => current[w] \in Documents
    BY DEF TypeOK
  <2>. QED  BY <1>1, <1>2, <2>1, <2>2 DEF DocumentState
<1>4. /\ Return(w) \/ Goto(w, "prepare") \/ Goto(w, "error")
      /\ UNCHANGED current \/ current' = [current EXCEPT ![w] = NoDocument]
  BY DEF WriteStep, Retrieve, Finalize, MarkFailed, ProcessTimeout
<1>5. /\ pc' \in [Workers -> PC]
      /\ current' \in [Workers -> Documents \cup {NoDocument}]
      /\ \A v \in Workers : v # w => pc'[v] = pc[v] /\ current'[v] = current[v]
  BY <1>4 DEF Return, Goto, TypeOK, PC, RunStep, Outcome
<1>. QED  BY <1>1, <1>3, <1>5

LEMMA WriteType ==
    ASSUME TypeOK, NEW w \in Workers, WriteStep(w)
    PROVE  TypeOK'
<1>1. /\ tx' \in [Workers -> Write]
      /\ lock' \in [Documents -> Workers \cup {NoWorker}]
      /\ \A v \in Workers : tx'[v] # NoWrite =>
            tx'[v].document \in Documents /\ lock'[tx'[v].document] = v
  <2>1. CASE UNCHANGED <<tx, lock>>
    BY <2>1 DEF TypeOK
  <2>2. ASSUME NEW d \in Documents, NEW s \in DocumentState, NEW n \in Nat,
               Update(w, d, s, n)
        PROVE  <1>1!:
    BY <2>2, UpdateEffect
  <2>. QED  BY <2>1, <2>2, WriteShape
<1>2. \A v \in Workers : pc'[v] # "idle" => Doc(v)' \in Documents
  BY WriteShape DEF TypeOK, Doc
<1>. QED  BY <1>1, <1>2, WriteShape DEF TypeOK

(* A rollback step keeps the tables, and the worker its job unless it      *)
(* becomes idle.                                                           *)
LEMMA RollbackShape ==
    ASSUME TypeOK, NEW w \in Workers, RollbackStep(w)
    PROVE  /\ UNCHANGED <<row, object, command>>
           /\ RolledBack(w)
           /\ dropped \subseteq dropped' /\ dropped' \subseteq Documents
           /\ faults' \in 0..MaxFaults
           /\ pc' \in [Workers -> PC]
           /\ job' \in [Workers -> Job]
           /\ current' \in [Workers -> Documents \cup {NoDocument}]
           /\ \A v \in Workers : v # w =>
                 pc'[v] = pc[v] /\ job'[v] = job[v] /\ current'[v] = current[v]
           /\ pc'[w] # "idle" => pc[w] # "idle" /\ job'[w] = job[w]
<1>1. CASE RetriesRunOut(w) \/ Crash(w)
  <2>1. Restart(w) /\ faults' \in 0..MaxFaults
    BY <1>1, FaultType DEF RetriesRunOut, Crash, TypeOK
  <2>. QED  BY <2>1, NoWriteType DEF Restart, Goto, TypeOK, PC
<1>2. CASE LoseConnection(w)
  <2>1. /\ faults' \in 0..MaxFaults /\ RolledBack(w)
        /\ dropped' = dropped \cup ({job[w].document} \ {NoDocument})
        /\ UNCHANGED <<row, object, command, pc, job, current>>
    BY <1>2, FaultType DEF LoseConnection, Doc, workerVars
  <2>2. job[w].document \in Documents \cup {NoDocument}
    BY DEF TypeOK, Job
  <2>. QED  BY <2>1, <2>2 DEF TypeOK
<1>3. CASE LoseDatabase(w)
  <2>1. /\ faults' \in 0..MaxFaults /\ RolledBack(w) /\ Raise(w)
        /\ pc[w] \in SqlStep
        /\ dropped' = dropped \cup {Doc(w)}
        /\ UNCHANGED <<row, object, command, job>>
    BY <1>3, FaultType DEF LoseDatabase
  <2>2. Doc(w) \in Documents
    BY <2>1, RaiseType DEF TypeOK
  <2>. QED  BY <2>1, <2>2, RaiseType DEF TypeOK
<1>4. CASE LoseCommit(w)
  <2>1. /\ faults' \in 0..MaxFaults /\ RolledBack(w) /\ pc[w] \in Outcome
        /\ dropped' = dropped \cup {Doc(w)}
        /\ job' = [job EXCEPT ![w] = NoJob]
        /\ pc' = [pc EXCEPT ![w] = "idle"]
        /\ UNCHANGED <<row, object, command, current>>
    BY <1>4, FaultType DEF LoseCommit, Goto
  <2>2. Doc(w) \in Documents
    BY <2>1 DEF TypeOK, Outcome
  <2>. QED  BY <2>1, <2>2, NoWriteType DEF TypeOK, PC
<1>. QED  BY <1>1, <1>2, <1>3, <1>4 DEF RollbackStep

LEMMA RollbackType ==
    ASSUME TypeOK, NEW w \in Workers, RollbackStep(w)
    PROVE  TypeOK'
<1>1. \A v \in Workers : pc'[v] # "idle" => Doc(v)' \in Documents
  BY RollbackShape DEF TypeOK, Doc
<1>. QED  BY <1>1, RollbackShape, RolledBackEffect DEF TypeOK

-----------------------------------------------------------------------------
(* The commit of an outcome: the UPDATE of the document becomes visible.   *)
LEMMA RecordShape ==
    ASSUME TypeOK, NEW w \in Workers, Record(w)
    PROVE  /\ Doc(w) \in Documents /\ pc[w] \in Outcome /\ ~aborted[w]
           /\ UNCHANGED <<object, current, dropped, faults>>
           /\ row' \in [Documents -> Row] /\ command' \in [Documents -> Command]
           /\ \A d \in Documents :
                 IF tx[w].document = d THEN row'[d].state = tx[w].state
                                       ELSE row'[d] = row[d]
           /\ \A d \in Documents \ {Doc(w)} : command'[d] = command[d]
           /\ command'[Doc(w)].state = IF pc[w] = "succeeded" THEN "done" ELSE "error"
           /\ RolledBack(w)
           /\ job' = [job EXCEPT ![w] = NoJob] /\ pc' = [pc EXCEPT ![w] = "idle"]
<1>1. Doc(w) \in Documents /\ pc[w] \in Outcome
  BY DEF Record, TypeOK, Outcome
<1>2. /\ row' \in [Documents -> Row]
      /\ \A d \in Documents :
            IF tx[w].document = d THEN row'[d].state = tx[w].state
                                  ELSE row'[d] = row[d]
  <2>1. [state |-> tx[w].state, size |-> tx[w].size] \in Row
    BY DEF TypeOK, Write, Row
  <2>. QED  BY <2>1 DEF Record, TypeOK
<1>3. DEFINE c == [state |-> IF pc[w] = "succeeded" THEN "done" ELSE "error",
                   attempts |-> job[w].attempt]
<1>4. c \in Command
  BY DEF TypeOK, Command, Job
<1>5. command' = [command EXCEPT ![Doc(w)] = c]
  BY DEF Record
<1>6. c.state = IF pc[w] = "succeeded" THEN "done" ELSE "error"
  OBVIOUS
<1>. HIDE DEF c
<1>7. /\ command' \in [Documents -> Command]
      /\ command'[Doc(w)] = c
      /\ \A d \in Documents \ {Doc(w)} : command'[d] = command[d]
  BY <1>1, <1>4, <1>5 DEF TypeOK
<1>. QED  BY <1>1, <1>2, <1>6, <1>7 DEF Record, Goto

LEMMA RecordType ==
    ASSUME TypeOK, NEW w \in Workers, Record(w)
    PROVE  TypeOK'
<1>1. /\ UNCHANGED <<object, current, dropped, faults>>
      /\ RolledBack(w)
      /\ job' = [job EXCEPT ![w] = NoJob]
      /\ pc' = [pc EXCEPT ![w] = "idle"]
  BY DEF Record, Goto
<1>2. row' \in [Documents -> Row] /\ command' \in [Documents -> Command]
  BY RecordShape
<1>3. /\ job' \in [Workers -> Job] /\ pc' \in [Workers -> PC]
      /\ \A v \in Workers : pc'[v] # "idle" => Doc(v)' \in Documents
  BY <1>1, NoWriteType DEF TypeOK, PC, Doc
<1>. QED  BY <1>1, <1>2, <1>3, RolledBackEffect DEF TypeOK

LEMMA PickType ==
    ASSUME TypeOK, NEW w \in Workers, NEW d \in Documents, Pick(w, d)
    PROVE  /\ TypeOK'
           /\ \A e \in Documents : command'[e].state = command[e].state
<1>1. /\ command[d] \in Command
      /\ [command[d] EXCEPT !.attempts = command[d].attempts + 1] \in Command
      /\ [document |-> d, size |-> 0, attempt |-> command[d].attempts + 1] \in Job
  BY DEF TypeOK, Command, Job
<1>2. command' = [command EXCEPT ![d] =
                    [command[d] EXCEPT !.attempts = command[d].attempts + 1]]
  BY DEF Pick
<1>3. /\ command' \in [Documents -> Command]
      /\ \A e \in Documents : command'[e].state = command[e].state
  BY <1>1, <1>2 DEF TypeOK, Command
<1>4. /\ job' \in [Workers -> Job] /\ pc' \in [Workers -> PC]
      /\ \A v \in Workers : pc'[v] # "idle" => Doc(v)' \in Documents
  BY <1>1 DEF Pick, Goto, TypeOK, PC, SqlStep, Doc
<1>. QED  BY <1>3, <1>4 DEF Pick, TypeOK

LEMMA DeleteType ==
    ASSUME TypeOK, NEW d \in Documents, Delete(d)
    PROVE  TypeOK'
<1>1. [state |-> "DELETED", size |-> 0] \in Row
  BY DEF Row, DocumentState
<1>. QED  BY <1>1 DEF Delete, TypeOK, workerVars, Doc

(* Every step is of one of these kinds. *)
LEMMA StepKinds ==
    ASSUME [Next]_vars
    PROVE  \/ UNCHANGED vars
           \/ \E d \in Documents : Delete(d)
           \/ \E w \in Workers :
                 \/ \E d \in Documents : Pick(w, d)
                 \/ QuietStep(w) \/ WriteStep(w) \/ RollbackStep(w) \/ Record(w)
BY DEF Next, WorkerStep, RunJob, FaultStep, Wait, QuietStep, WriteStep, RollbackStep

LEMMA TypeStep == TypeOK /\ [Next]_vars => TypeOK'
<1>. SUFFICES ASSUME TypeOK, [Next]_vars
              PROVE  TypeOK'
  OBVIOUS
<1>1. CASE UNCHANGED vars
  BY <1>1 DEF vars, dbVars, workerVars, TypeOK, Doc
<1>. QED
  BY <1>1, StepKinds, DeleteType, PickType, QuietType, WriteType, RollbackType,
     RecordType

(* Every reachable state of the document workers is well typed, a job is   *)
(* in hand outside of the idle state, and an uncommitted UPDATE holds the  *)
(* lock of its row.                                                        *)
THEOREM TypeCorrect == Spec => []TypeOK
BY TypeInit, TypeStep, PTL DEF Spec

-----------------------------------------------------------------------------
(* The inductive invariant: what a worker's transaction holds at each      *)
(* place of the job, and why its commit is a report of the document.       *)

Reported == {"FINISHED", "FAILED", "DELETED"}

(* Places of a job from where a committed transaction is still far. *)
Working == RunStep \cup {"failing", "mark"}

(* An uncommitted UPDATE is on a row that exists; FINISHED is written when *)
(* the file is stored.                                                     *)
TxInv(w) ==
    tx[w] # NoWrite =>
        /\ row[tx[w].document].state # "DELETED"
        /\ tx[w].state \in {"PROCESSING", "FINISHED", "FAILED"}
        /\ tx[w].state = "FINISHED" => object[tx[w].document] > 0

(* PROCESSING is uncommitted only while the job of that document goes on,  *)
(* or while its timeout is handled with current_job still pointing to it.  *)
ProcessingInv(w) ==
    tx[w] # NoWrite /\ tx[w].state = "PROCESSING" /\ ~aborted[w] =>
        /\ pc[w] \in Working \cup {"timed_out"}
        /\ tx[w].document = Doc(w)
        /\ current[w] = Doc(w)

CurrentInv(w) == pc[w] \in Working => current[w] = Doc(w)

FileInv(w) ==
    /\ pc[w] = "store" => job[w].size > 0
    /\ pc[w] = "finalize" => object[Doc(w)] > 0

(* A job that succeeds has its report in the transaction, or nothing to    *)
(* report on.                                                              *)
SuccessInv(w) ==
    pc[w] \in {"return", "succeeded"} /\ ~aborted[w] =>
        \/ Doc(w) \in dropped
        \/ row[Doc(w)].state = "DELETED"
        \/ tx[w].document = Doc(w) /\ tx[w].state \in {"FINISHED", "FAILED"}

WorkerInv(w) ==
    TxInv(w) /\ ProcessingInv(w) /\ CurrentInv(w) /\ FileInv(w) /\ SuccessInv(w)

JobInv ==
    /\ ProcessingNeverCommitted
    /\ FinishedHasFile
    /\ DoneMeansReported
    /\ \A w \in Workers : WorkerInv(w)

LEMMA JobInit == Init => JobInv
BY DEF Init, JobInv, ProcessingNeverCommitted, FinishedHasFile, DoneMeansReported,
       WorkerInv, TxInv, ProcessingInv, CurrentInv, FileInv, SuccessInv, NoWrite,
       Working, RunStep

(* What a worker knows stays true while others work: deleted rows stay     *)
(* deleted, the row it has written cannot be deleted, files are not        *)
(* removed.                                                                *)
Growing ==
    /\ \A d \in Documents : row[d].state = "DELETED" => row'[d].state = "DELETED"
    /\ \A d \in Documents : object[d] > 0 => object'[d] > 0
    /\ dropped \subseteq dropped'

Idling(v) ==
    /\ tx'[v] = tx[v] /\ aborted'[v] = aborted[v] /\ pc'[v] = pc[v]
    /\ job'[v] = job[v] /\ current'[v] = current[v]

LEMMA OtherWorker ==
    ASSUME TypeOK, NEW v \in Workers, WorkerInv(v), Growing, Idling(v),
           tx[v] # NoWrite => row'[tx[v].document].state # "DELETED"
    PROVE  WorkerInv(v)'
<1>1. TxInv(v)'
  BY DEF TypeOK, WorkerInv, TxInv, Growing, Idling
<1>2. ProcessingInv(v)' /\ CurrentInv(v)'
  BY DEF WorkerInv, ProcessingInv, CurrentInv, Idling, Doc
<1>3. FileInv(v)' /\ SuccessInv(v)'
  <2>1. pc[v] \in {"finalize", "return", "succeeded"} => Doc(v) \in Documents
    BY DEF TypeOK
  <2>. QED  BY <2>1 DEF WorkerInv, FileInv, SuccessInv, Growing, Idling, Doc
<1>. QED  BY <1>1, <1>2, <1>3 DEF WorkerInv

(* A step of w that leaves the tables alone. *)
Private(w) ==
    /\ UNCHANGED row
    /\ \A d \in Documents : command'[d].state = command[d].state
    /\ Growing
    /\ \A v \in Workers \ {w} : Idling(v)

LEMMA PrivateJob ==
    ASSUME TypeOK, JobInv, NEW w \in Workers, Private(w), WorkerInv(w)'
    PROVE  JobInv'
<1>1. /\ ProcessingNeverCommitted'
      /\ FinishedHasFile'
      /\ DoneMeansReported'
  BY DEF JobInv, Private, Growing, ProcessingNeverCommitted, FinishedHasFile,
         DoneMeansReported
<1>2. ASSUME NEW v \in Workers  PROVE WorkerInv(v)'
  <2>1. CASE v = w
    BY <2>1
  <2>2. CASE v # w
    <3>1. WorkerInv(v) /\ Growing /\ Idling(v) /\ row' = row
      BY <2>2 DEF JobInv, Private
    <3>2. tx[v] # NoWrite => row'[tx[v].document].state # "DELETED"
      BY <3>1 DEF WorkerInv, TxInv
    <3>. QED  BY <3>1, <3>2, OtherWorker
  <2>. QED  BY <2>1, <2>2
<1>. QED  BY <1>1, <1>2 DEF JobInv

-----------------------------------------------------------------------------
LEMMA RaiseJob ==
    ASSUME TypeOK, NEW w \in Workers, pc[w] \in SqlStep, Raise(w),
           CurrentInv(w), UNCHANGED job,
           (tx'[w] = NoWrite /\ Doc(w) \in dropped') \/ aborted'[w],
           TxInv(w)'
    PROVE  WorkerInv(w)'
<1>1. /\ pc'[w] \in {"failing", "return", "error"}
      /\ pc'[w] = "failing" => pc[w] \in RunStep /\ current'[w] = current[w]
  BY DEF Raise, Goto, Return, TypeOK, SqlStep, RunStep
<1>2. ProcessingInv(w)' /\ FileInv(w)' /\ SuccessInv(w)'
  BY <1>1 DEF ProcessingInv, FileInv, SuccessInv, Doc
<1>3. CurrentInv(w)'
  BY <1>1 DEF CurrentInv, Working, RunStep, Doc
<1>. QED  BY <1>2, <1>3 DEF WorkerInv

LEMMA QuietJob ==
    ASSUME TypeOK, JobInv, NEW w \in Workers, QuietStep(w)
    PROVE  JobInv'
<1>1. WorkerInv(w)
  BY DEF JobInv
<1>2. CASE Construct(w)
  <2>1. Private(w)
    BY <1>2 DEF Construct, Goto, Private, Growing, Idling, TypeOK, dbVars
  <2>2. TxInv(w)' /\ FileInv(w)'
    BY <1>1, <1>2 DEF Construct, Goto, TypeOK, WorkerInv, TxInv, FileInv, dbVars
  <2>3. ProcessingInv(w)' /\ CurrentInv(w)' /\ SuccessInv(w)'
    BY <1>1, <1>2 DEF Construct, Goto, TypeOK, WorkerInv, ProcessingInv, CurrentInv,
                      SuccessInv, Working, RunStep, Doc, dbVars
  <2>. QED  BY <2>1, <2>2, <2>3, PrivateJob DEF WorkerInv
<1>3. CASE CheckCompliance(w) \/ PrepareTemplate(w)
  <2>1. Private(w)
    BY <1>3 DEF CheckCompliance, PrepareTemplate, Goto, Private, Growing, Idling,
                TypeOK, dbVars
  <2>2. WorkerInv(w)'
    BY <1>1, <1>3 DEF CheckCompliance, PrepareTemplate, Goto, TypeOK, WorkerInv,
         TxInv, ProcessingInv, CurrentInv, FileInv, SuccessInv, Working, RunStep,
         Doc, dbVars
  <2>. QED  BY <2>1, <2>2, PrivateJob
<1>4. CASE GetDocument(w)
  <2>1. Private(w)
    BY <1>4 DEF GetDocument, Return, Goto, Private, Growing, Idling, TypeOK, dbVars
  <2>2. /\ TxInv(w)' /\ FileInv(w)'
        /\ pc[w] = "get" /\ UNCHANGED <<dbVars, job, dropped>>
    BY <1>1, <1>4 DEF GetDocument, Return, Goto, TypeOK, WorkerInv, TxInv, FileInv,
                      dbVars
  <2>3. CASE row[Doc(w)].state = "DELETED"
    <3>1. pc'[w] = "return"
      BY <1>4, <2>3 DEF GetDocument, Return, Goto, TypeOK
    <3>2. SuccessInv(w)' /\ CurrentInv(w)'
      BY <2>2, <2>3, <3>1 DEF SuccessInv, CurrentInv, Working, RunStep, Doc, dbVars
    <3>3. ProcessingInv(w)'
      BY <1>1, <2>2, <2>3 DEF WorkerInv, TxInv, ProcessingInv, Doc, dbVars
    <3>. QED  BY <2>1, <2>2, <3>2, <3>3, PrivateJob DEF WorkerInv
  <2>4. CASE row[Doc(w)].state # "DELETED"
    <3>1. pc'[w] \in {"failing", "retrieve"} /\ UNCHANGED current
      BY <1>4, <2>4 DEF GetDocument, Goto, TypeOK
    <3>2. ProcessingInv(w)' /\ SuccessInv(w)' /\ CurrentInv(w)'
      BY <1>1, <2>2, <3>1 DEF WorkerInv, ProcessingInv, SuccessInv, CurrentInv,
                              Working, RunStep, Doc, dbVars
    <3>. QED  BY <2>1, <2>2, <3>2, PrivateJob DEF WorkerInv
  <2>. QED  BY <2>3, <2>4
<1>5. CASE BuildDocument(w)
  <2>1. /\ pc[w] = "build" /\ UNCHANGED <<dbVars, current, dropped, faults>>
        /\ \/ pc' = [pc EXCEPT ![w] = "failing"] /\ job' = job
           \/ \E size \in Sizes : /\ pc' = [pc EXCEPT ![w] = "store"]
                                 /\ job' = [job EXCEPT ![w].size = size]
    BY <1>5 DEF BuildDocument, Goto
  <2>2. /\ job'[w].document = job[w].document
        /\ pc'[w] \in {"failing", "store"}
        /\ pc'[w] = "store" => job'[w].size > 0
        /\ \A v \in Workers \ {w} : job'[v] = job[v] /\ pc'[v] = pc[v]
    BY <2>1, DocumentAssumption DEF TypeOK, Job
  <2>3. Private(w)
    BY <2>1, <2>2 DEF Private, Growing, Idling, dbVars
  <2>4. WorkerInv(w)'
    BY <1>1, <2>1, <2>2 DEF WorkerInv, TxInv, ProcessingInv, CurrentInv, FileInv,
         SuccessInv, Working, RunStep, Doc, dbVars
  <2>. QED  BY <2>3, <2>4, PrivateJob
<1>6. CASE StoreDocument(w) \/ StepFails(w) \/ (TimeOut(w) /\ pc[w] \in Working)
  <2>1. /\ pc[w] \in Working
        /\ pc'[w] \in {"finalize", "failing", "timed_out"}
        /\ pc'[w] = "finalize" => /\ pc[w] = "store"
                                 /\ object' = [object EXCEPT ![Doc(w)] = job[w].size]
        /\ \/ object' = object
           \/ pc[w] = "store" /\ object' = [object EXCEPT ![Doc(w)] = job[w].size]
        /\ \A v \in Workers \ {w} : pc'[v] = pc[v]
        /\ UNCHANGED <<row, command, lock, tx, aborted, job, current, dropped>>
    BY <1>6 DEF StoreDocument, StepFails, TimeOut, Goto, TypeOK, Working, RunStep
  <2>2. Doc(w) \in Documents /\ current[w] = Doc(w)
    BY <1>1, <2>1 DEF TypeOK, WorkerInv, CurrentInv, Working, RunStep
  <2>3. \A d \in Documents : object[d] > 0 => object'[d] > 0
    BY <1>1, <2>1, <2>2 DEF TypeOK, WorkerInv, FileInv
  <2>4. pc'[w] = "finalize" => object'[Doc(w)] > 0
    BY <1>1, <2>1, <2>2 DEF TypeOK, WorkerInv, FileInv
  <2>5. Private(w)
    BY <2>1, <2>3 DEF Private, Growing, Idling
  <2>6. TxInv(w)'
    BY <1>1, <2>1, <2>3 DEF TypeOK, WorkerInv, TxInv
  <2>7. ProcessingInv(w)' /\ CurrentInv(w)' /\ FileInv(w)' /\ SuccessInv(w)'
    BY <1>1, <2>1, <2>2, <2>4 DEF WorkerInv, ProcessingInv, CurrentInv, FileInv,
         SuccessInv, Working, RunStep, Doc
  <2>. QED  BY <2>5, <2>6, <2>7, PrivateJob DEF WorkerInv
<1>7. CASE CheckDocumentExists(w)
  <2>1. Private(w)
    BY <1>7 DEF CheckDocumentExists, Return, Goto, Private, Growing, Idling, TypeOK,
                dbVars
  <2>2. /\ pc[w] = "failing" /\ UNCHANGED <<dbVars, job, dropped>>
        /\ \/ /\ aborted[w] \/ row[Doc(w)].state = "DELETED"
              /\ pc'[w] = "return"
           \/ pc'[w] = "mark" /\ UNCHANGED current
    BY <1>7 DEF CheckDocumentExists, Return, Goto, TypeOK
  <2>3. TxInv(w)' /\ FileInv(w)' /\ SuccessInv(w)' /\ CurrentInv(w)'
    BY <1>1, <2>2 DEF WorkerInv, TxInv, FileInv, SuccessInv, CurrentInv, Working,
                      RunStep, Doc, dbVars
  <2>4. ProcessingInv(w)'
    BY <1>1, <2>2 DEF WorkerInv, TxInv, ProcessingInv, Working, Doc, dbVars
  <2>. QED  BY <2>1, <2>3, <2>4, PrivateJob DEF WorkerInv
<1>8. CASE RecordInFailedTransaction(w)
  <2>1. Private(w)
    BY <1>8 DEF RecordInFailedTransaction, Goto, Private, Growing, Idling, TypeOK,
                dbVars
  <2>2. pc'[w] = "idle" /\ aborted[w] /\ UNCHANGED <<dbVars, dropped>>
    BY <1>8 DEF RecordInFailedTransaction, Goto, TypeOK
  <2>3. WorkerInv(w)'
    BY <1>1, <2>2 DEF WorkerInv, TxInv, ProcessingInv, CurrentInv, FileInv,
         SuccessInv, Working, RunStep, Doc, dbVars
  <2>. QED  BY <2>1, <2>3, PrivateJob
<1>9. CASE StallInConstruct(w)
  <2>1. /\ pc[w] = "construct" /\ pc' = [pc EXCEPT ![w] = "timed_out"]
        /\ UNCHANGED <<dbVars, job, current, dropped>>
    BY <1>9 DEF StallInConstruct, Goto
  <2>2. Private(w)
    BY <2>1 DEF Private, Growing, Idling, TypeOK, dbVars
  <2>3. WorkerInv(w)'
    BY <1>1, <2>1 DEF TypeOK, WorkerInv, TxInv, ProcessingInv, CurrentInv, FileInv,
         SuccessInv, Working, RunStep, Doc, dbVars
  <2>. QED  BY <2>2, <2>3, PrivateJob
<1>10. CASE BreakTransaction(w)
  <2>1. /\ pc[w] \in SqlStep /\ Raise(w)
        /\ aborted' = [aborted EXCEPT ![w] = TRUE]
        /\ UNCHANGED <<row, object, command, lock, tx, job, dropped>>
    BY <1>10 DEF BreakTransaction
  <2>2. Private(w)
    BY <2>1, RaiseType DEF Private, Growing, Idling, TypeOK
  <2>3. TxInv(w)' /\ CurrentInv(w) /\ aborted'[w]
    BY <1>1, <2>1 DEF TypeOK, WorkerInv, TxInv
  <2>. QED  BY <2>1, <2>2, <2>3, RaiseJob, PrivateJob
<1>11. CASE Leave(w) \/ (TimeOut(w) /\ pc[w] \in {"return", "succeeded"})
  <2>1. /\ pc[w] \in {"return", "succeeded"} /\ pc'[w] \in {"succeeded", "timed_out"}
        /\ UNCHANGED <<row, object, command, tx, aborted, job, dropped>>
        /\ \A v \in Workers \ {w} : pc'[v] = pc[v] /\ current'[v] = current[v]
    BY <1>11 DEF Leave, TimeOut, Goto, TypeOK, dbVars
  <2>2. Private(w)
    BY <2>1 DEF Private, Growing, Idling
  <2>3. TxInv(w)' /\ CurrentInv(w)' /\ FileInv(w)'
    BY <1>1, <2>1 DEF WorkerInv, TxInv, CurrentInv, FileInv, Working, RunStep
  <2>4. ProcessingInv(w)' /\ SuccessInv(w)'
    BY <1>1, <2>1 DEF WorkerInv, ProcessingInv, SuccessInv, Working, RunStep, Doc
  <2>. QED  BY <2>2, <2>3, <2>4, PrivateJob DEF WorkerInv
<1>12. TimeOut(w) => pc[w] \in Working \cup {"return", "succeeded"}
  BY DEF TimeOut, Working
<1>. QED
  BY <1>2, <1>3, <1>4, <1>5, <1>6, <1>7, <1>8, <1>9, <1>10, <1>11, <1>12 DEF QuietStep

LEMMA WritePrivate ==
    ASSUME TypeOK, NEW w \in Workers, WriteStep(w)
    PROVE  Private(w)
<1>1. \A v \in Workers : v # w => tx'[v] = tx[v]
  BY WriteShape, UpdateEffect
<1>. QED  BY <1>1, WriteShape DEF Private, Growing, Idling

LEMMA WriteJob ==
    ASSUME TypeOK, JobInv, NEW w \in Workers, WriteStep(w)
    PROVE  JobInv'
<1>1. WorkerInv(w) /\ Private(w) /\ Doc(w) \in Documents
  BY WritePrivate, WriteShape DEF JobInv, TypeOK
<1>2. UNCHANGED <<row, object, aborted, job, dropped>>
  BY WriteShape
<1>3. job[w].size \in Nat /\ row[Doc(w)].size \in Nat
  BY <1>1 DEF TypeOK, Job, Row
<1>4. CASE Retrieve(w)
  <2>1. /\ Update(w, Doc(w), "PROCESSING", row[Doc(w)].size)
        /\ pc[w] = "retrieve" /\ pc'[w] = "prepare" /\ current' = current
    BY <1>4 DEF Retrieve, Goto, TypeOK
  <2>2. \/ tx' = tx
        \/ /\ row[Doc(w)].state # "DELETED"
           /\ tx'[w] = [document |-> Doc(w), state |-> "PROCESSING",
                        size |-> row[Doc(w)].size]
    BY <1>1, <1>3, <2>1, UpdateEffect DEF DocumentState
  <2>3. current[w] = Doc(w)
    BY <1>1, <2>1 DEF WorkerInv, CurrentInv, Working, RunStep
  <2>4. WorkerInv(w)'
    BY <1>1, <1>2, <2>1, <2>2, <2>3 DEF WorkerInv, TxInv, ProcessingInv,
         CurrentInv, FileInv, SuccessInv, Working, RunStep, Doc
  <2>. QED  BY <1>1, <2>4, PrivateJob
<1>5. CASE Finalize(w)
  <2>1. /\ Update(w, Doc(w), "FINISHED", job[w].size)
        /\ pc[w] = "finalize" /\ pc'[w] = "return"
    BY <1>5 DEF Finalize, Return, Goto, TypeOK
  <2>2. \/ row[Doc(w)].state = "DELETED" /\ tx' = tx
        \/ /\ row[Doc(w)].state # "DELETED"
           /\ tx'[w] = [document |-> Doc(w), state |-> "FINISHED", size |-> job[w].size]
    BY <1>1, <1>3, <2>1, UpdateEffect DEF DocumentState
  <2>3. object[Doc(w)] > 0
    BY <1>1, <2>1 DEF WorkerInv, FileInv
  <2>4. TxInv(w)' /\ ProcessingInv(w)'
    BY <1>1, <1>2, <2>2, <2>3 DEF WorkerInv, TxInv, ProcessingInv, Doc
  <2>5. CurrentInv(w)' /\ FileInv(w)' /\ SuccessInv(w)'
    BY <1>2, <2>1, <2>2 DEF CurrentInv, FileInv, SuccessInv, Working, RunStep, Doc
  <2>. QED  BY <1>1, <2>4, <2>5, PrivateJob DEF WorkerInv
<1>6. CASE MarkFailed(w)
  <2>1. /\ Update(w, Doc(w), "FAILED", row[Doc(w)].size)
        /\ pc[w] = "mark"
        /\ pc'[w] = IF row[Doc(w)].state = "DELETED" THEN "error" ELSE "return"
    BY <1>6 DEF MarkFailed, Return, Goto, TypeOK
  <2>2. \/ row[Doc(w)].state = "DELETED" /\ tx' = tx
        \/ /\ row[Doc(w)].state # "DELETED"
           /\ tx'[w] = [document |-> Doc(w), state |-> "FAILED",
                        size |-> row[Doc(w)].size]
    BY <1>1, <1>3, <2>1, UpdateEffect DEF DocumentState
  <2>3. TxInv(w)' /\ ProcessingInv(w)'
    BY <1>1, <1>2, <2>2 DEF WorkerInv, TxInv, ProcessingInv, Doc
  <2>4. CurrentInv(w)' /\ FileInv(w)' /\ SuccessInv(w)'
    BY <1>2, <2>1, <2>2 DEF CurrentInv, FileInv, SuccessInv, Working, RunStep, Doc
  <2>. QED  BY <1>1, <2>3, <2>4, PrivateJob DEF WorkerInv
<1>7. CASE ProcessTimeout(w)
  <2>1. /\ \/ current[w] = NoDocument \/ aborted[w]
           \/ current[w] # NoDocument /\ Update(w, current[w], "FAILED", row[current[w]].size)
        /\ current[w] = NoDocument \/ aborted[w] => tx' = tx
        /\ pc'[w] = "error"
    BY <1>7 DEF ProcessTimeout, Goto, TypeOK
  <2>2. \/ tx' = tx /\ (current[w] = NoDocument \/ aborted[w])
        \/ tx' = tx /\ row[current[w]].state = "DELETED"
        \/ /\ row[current[w]].state # "DELETED"
           /\ tx'[w] = [document |-> current[w], state |-> "FAILED",
                        size |-> row[current[w]].size]
    <3>1. CASE current[w] = NoDocument \/ aborted[w]
      BY <2>1, <3>1
    <3>2. CASE ~(current[w] = NoDocument \/ aborted[w])
      <4>1. current[w] \in Documents /\ row[current[w]].size \in Nat
        BY <3>2 DEF TypeOK, Row
      <4>. QED  BY <2>1, <3>2, <4>1, UpdateEffect DEF DocumentState
    <3>. QED  BY <3>1, <3>2
  <2>3. TxInv(w)'
    BY <1>1, <1>2, <2>2 DEF WorkerInv, TxInv
  <2>4. ProcessingInv(w)'
    BY <1>1, <1>2, <2>2, DocumentAssumption DEF WorkerInv, TxInv, ProcessingInv, Doc
  <2>5. CurrentInv(w)' /\ FileInv(w)' /\ SuccessInv(w)'
    BY <2>1 DEF CurrentInv, FileInv, SuccessInv, Working, RunStep
  <2>. QED  BY <1>1, <2>3, <2>4, <2>5, PrivateJob DEF WorkerInv
<1>. QED  BY <1>4, <1>5, <1>6, <1>7 DEF WriteStep

LEMMA RollbackJob ==
    ASSUME TypeOK, JobInv, NEW w \in Workers, RollbackStep(w)
    PROVE  JobInv'
<1>1. /\ WorkerInv(w) /\ tx'[w] = NoWrite /\ aborted'[w] = FALSE
      /\ \A v \in Workers : v # w => tx'[v] = tx[v] /\ aborted'[v] = aborted[v]
  BY RollbackShape, RolledBackEffect DEF JobInv
<1>2. Private(w)
  <2>1. /\ UNCHANGED <<row, object, command>>
        /\ dropped \subseteq dropped'
        /\ \A v \in Workers : v # w =>
              pc'[v] = pc[v] /\ job'[v] = job[v] /\ current'[v] = current[v]
    BY RollbackShape
  <2>. QED  BY <1>1, <2>1 DEF Private, Growing, Idling
<1>3. UNCHANGED <<row, object>>
  BY RollbackShape
<1>4. CASE RetriesRunOut(w) \/ Crash(w) \/ LoseCommit(w)
  <2>1. pc'[w] = "idle"
    BY <1>4 DEF RetriesRunOut, Crash, LoseCommit, Restart, Goto, TypeOK
  <2>2. WorkerInv(w)'
    BY <1>1, <2>1 DEF WorkerInv, TxInv, ProcessingInv, CurrentInv, FileInv,
         SuccessInv, Working, RunStep
  <2>. QED  BY <1>2, <2>2, PrivateJob
<1>5. CASE LoseConnection(w)
  <2>1. /\ UNCHANGED <<pc, job, current>>
        /\ dropped' = dropped \cup ({Doc(w)} \ {NoDocument})
    BY <1>5 DEF LoseConnection, workerVars
  <2>2. pc[w] \in {"return", "succeeded"} => Doc(w) \in dropped'
    BY <2>1, DocumentAssumption DEF TypeOK
  <2>3. TxInv(w)' /\ ProcessingInv(w)'
    BY <1>1 DEF TxInv, ProcessingInv
  <2>4. CurrentInv(w)' /\ FileInv(w)'
    BY <1>1, <1>3, <2>1 DEF WorkerInv, CurrentInv, FileInv, Doc
  <2>5. SuccessInv(w)'
    BY <2>1, <2>2 DEF SuccessInv, Doc
  <2>. QED  BY <1>2, <2>3, <2>4, <2>5, PrivateJob DEF WorkerInv
<1>6. CASE LoseDatabase(w)
  <2>1. /\ pc[w] \in SqlStep /\ Raise(w) /\ UNCHANGED job
        /\ Doc(w) \in dropped' /\ CurrentInv(w)
    BY <1>1, <1>6 DEF LoseDatabase, WorkerInv
  <2>2. TxInv(w)'
    BY <1>1 DEF TxInv
  <2>. QED  BY <1>1, <1>2, <2>1, <2>2, RaiseJob, PrivateJob
<1>. QED  BY <1>4, <1>5, <1>6 DEF RollbackStep

LEMMA PickJob ==
    ASSUME TypeOK, JobInv, NEW w \in Workers, NEW d \in Documents, Pick(w, d)
    PROVE  JobInv'
<1>1. Private(w)
  BY PickType DEF Pick, Goto, Private, Growing, Idling, TypeOK
<1>2. /\ pc[w] = "idle" /\ pc'[w] = "construct" /\ ~aborted[w]
      /\ UNCHANGED <<row, object, tx, aborted, current, dropped>>
  BY DEF Pick, Goto, TypeOK
<1>3. WorkerInv(w)'
  BY <1>2 DEF JobInv, WorkerInv, TxInv, ProcessingInv, CurrentInv, FileInv,
       SuccessInv, Working, RunStep
<1>. QED  BY <1>1, <1>3, PrivateJob

(* The lock keeps a row from being deleted while a transaction writes it.  *)
LEMMA DeleteJob ==
    ASSUME TypeOK, JobInv, NEW d \in Documents, Delete(d)
    PROVE  JobInv'
<1>1. /\ lock[d] = NoWorker
      /\ row' = [row EXCEPT ![d] = [state |-> "DELETED", size |-> 0]]
      /\ UNCHANGED <<object, command, tx, aborted, pc, job, current, dropped>>
  BY DEF Delete, workerVars
<1>2. /\ row'[d].state = "DELETED"
      /\ \A e \in Documents \ {d} : row'[e] = row[e]
  BY <1>1 DEF TypeOK
<1>3. ProcessingNeverCommitted' /\ FinishedHasFile' /\ DoneMeansReported'
  BY <1>1, <1>2 DEF JobInv, ProcessingNeverCommitted, FinishedHasFile,
                    DoneMeansReported
<1>4. ASSUME NEW v \in Workers  PROVE WorkerInv(v)'
  <2>1. Growing /\ Idling(v) /\ WorkerInv(v)
    BY <1>1, <1>2 DEF Growing, Idling, JobInv
  <2>2. tx[v] # NoWrite => row'[tx[v].document].state # "DELETED"
    BY <1>1, <1>2, <2>1, DocumentAssumption DEF TypeOK, WorkerInv, TxInv
  <2>. QED  BY <2>1, <2>2, OtherWorker
<1>. QED  BY <1>3, <1>4 DEF JobInv

LEMMA RecordJob ==
    ASSUME TypeOK, JobInv, NEW w \in Workers, Record(w)
    PROVE  JobInv'
<1>. DEFINE e == tx[w].document
<1>1. /\ WorkerInv(w) /\ Doc(w) \in Documents
      /\ pc[w] \in Outcome /\ ~aborted[w]
      /\ UNCHANGED <<object, current, dropped>>
  BY RecordShape DEF JobInv
<1>2. /\ \A d \in Documents : d # e => row'[d] = row[d]
      /\ e \in Documents => row'[e].state = tx[w].state
  BY RecordShape
<1>3. /\ \A d \in Documents \ {Doc(w)} : command'[d] = command[d]
      /\ command'[Doc(w)].state = IF pc[w] = "succeeded" THEN "done" ELSE "error"
  BY RecordShape
<1>4. tx[w] = NoWrite => e \notin Documents
  BY DocumentAssumption DEF NoWrite
<1>5. e \in Documents =>
        /\ tx[w].state \in {"FINISHED", "FAILED"}
        /\ tx[w].state = "FINISHED" => object[e] > 0
        /\ row[e].state # "DELETED" /\ lock[e] = w
  BY <1>1, <1>4 DEF TypeOK, WorkerInv, TxInv, ProcessingInv, Working, RunStep, Outcome
<1>6. ProcessingNeverCommitted' /\ FinishedHasFile'
  BY <1>1, <1>2, <1>5 DEF JobInv, ProcessingNeverCommitted, FinishedHasFile
<1>7. DoneMeansReported'
  <2>. SUFFICES ASSUME NEW d \in Documents, d \notin dropped, command'[d].state = "done"
                PROVE  row'[d].state \in Reported
    BY <1>1 DEF DoneMeansReported, Reported
  <2>1. CASE d = e
    BY <1>2, <1>5, <2>1 DEF Reported
  <2>2. CASE d # e /\ d # Doc(w)
    BY <1>2, <1>3, <2>2 DEF JobInv, DoneMeansReported, Reported
  <2>3. CASE d # e /\ d = Doc(w)
    <3>1. pc[w] = "succeeded"
      BY <1>3, <2>3
    <3>. QED  BY <1>1, <1>2, <2>3, <3>1 DEF WorkerInv, SuccessInv, Reported
  <2>. QED  BY <2>1, <2>2, <2>3
<1>8. Growing
  BY <1>1, <1>2, <1>5 DEF Growing
<1>9. /\ tx'[w] = NoWrite /\ pc'[w] = "idle"
      /\ \A v \in Workers : v # w => Idling(v)
  <2>1. RolledBack(w)
    BY RecordShape
  <2>2. pc'[w] = "idle" /\ \A v \in Workers : v # w => pc'[v] = pc[v] /\ job'[v] = job[v]
    BY RecordShape DEF TypeOK
  <2>. QED  BY <1>1, <2>1, <2>2, RolledBackEffect DEF Idling
<1>10. ASSUME NEW v \in Workers  PROVE WorkerInv(v)'
  <2>1. CASE v = w
    BY <1>9, <2>1 DEF WorkerInv, TxInv, ProcessingInv, CurrentInv, FileInv,
                      SuccessInv, Working, RunStep
  <2>2. CASE v # w
    <3>1. Idling(v) /\ WorkerInv(v)
      BY <1>9, <2>2 DEF JobInv
    <3>2. tx[v] # NoWrite => row'[tx[v].document].state # "DELETED"
      BY <1>2, <1>5, <2>2, <3>1 DEF TypeOK, WorkerInv, TxInv
    <3>. QED  BY <1>8, <3>1, <3>2, OtherWorker
  <2>. QED  BY <2>1, <2>2
<1>. QED  BY <1>6, <1>7, <1>10 DEF JobInv

LEMMA JobStep == TypeOK /\ JobInv /\ [Next]_vars => JobInv'
<1>. SUFFICES ASSUME TypeOK, JobInv, [Next]_vars
              PROVE  JobInv'
  OBVIOUS
<1>1. CASE UNCHANGED vars
  <2>1. /\ UNCHANGED <<row, object, command, dropped>>
        /\ \A v \in Workers : Idling(v)
    BY <1>1 DEF vars, dbVars, workerVars, Idling
  <2>2. \A v \in Workers : WorkerInv(v)'
    BY <2>1, OtherWorker DEF Growing, JobInv, WorkerInv, TxInv
  <2>. QED
    BY <2>1, <2>2 DEF JobInv, ProcessingNeverCommitted, FinishedHasFile,
                      DoneMeansReported
<1>. QED
  BY <1>1, StepKinds, DeleteJob, PickJob, QuietJob, WriteJob, RollbackJob, RecordJob

LEMMA JobCorrect == Spec => [](TypeOK /\ JobInv)
BY TypeInit, TypeStep, JobInit, JobStep, PTL DEF Spec

-----------------------------------------------------------------------------
(* PROCESSING is never committed: whatever ends a job, its transaction     *)
(* either holds the final state of the document or is rolled back.         *)
THEOREM ProcessingCorrect == Spec => []ProcessingNeverCommitted
BY JobCorrect, PTL DEF JobInv

(* A document that is FINISHED has its file in S3, however many workers    *)
(* process it, time out, crash or lose their connections.                  *)
THEOREM FileCorrect == Spec => []FinishedHasFile
BY JobCorrect, PTL DEF JobInv

(* A command that is done has reported its document, unless a connection   *)
(* was lost under its job: a failed transaction cannot commit "done".      *)
THEOREM ReportCorrect == Spec => []DoneMeansReported
BY JobCorrect, PTL DEF JobInv

-----------------------------------------------------------------------------
(* A settled document stays settled: a step touches only the document that *)
(* its worker has in hand, in current_job or in its transaction.           *)

LEMMA QuietReach ==
    ASSUME TypeOK, NEW w \in Workers, QuietStep(w)
    PROVE  /\ UNCHANGED <<row, command, tx>>
           /\ \A v \in Workers : v # w => Doc(v)' = Doc(v) /\ current'[v] = current[v]
           /\ Doc(w)' \in {Doc(w), NoDocument}
           /\ current'[w] \in {current[w], Doc(w), NoDocument}
           /\ \A d \in Documents : d # Doc(w) => object'[d] = object[d]
<1>1. CASE \/ Construct(w) \/ CheckCompliance(w) \/ PrepareTemplate(w) \/ Leave(w)
           \/ StallInConstruct(w)
  BY <1>1 DEF Construct, CheckCompliance, PrepareTemplate, Leave, StallInConstruct,
              TypeOK, dbVars, Doc
<1>2. CASE GetDocument(w) \/ CheckDocumentExists(w)
  BY <1>2 DEF GetDocument, CheckDocumentExists, TypeOK, dbVars, Doc
<1>3. CASE BuildDocument(w)
  <2>1. /\ UNCHANGED <<dbVars, current>>
        /\ job' = job \/ \E size \in Sizes : job' = [job EXCEPT ![w].size = size]
    BY <1>3 DEF BuildDocument
  <2>2. \A v \in Workers : job'[v].document = job[v].document
    BY <2>1 DEF TypeOK, Job
  <2>. QED  BY <2>1, <2>2 DEF dbVars, Doc
<1>4. CASE StoreDocument(w) \/ StepFails(w) \/ TimeOut(w)
  <2>1. /\ UNCHANGED <<row, command, tx, job, current>>
        /\ object' = object \/ object' = [object EXCEPT ![Doc(w)] = job[w].size]
    BY <1>4 DEF StoreDocument, StepFails, TimeOut
  <2>. QED  BY <2>1 DEF TypeOK, Doc
<1>5. CASE RecordInFailedTransaction(w)
  BY <1>5 DEF RecordInFailedTransaction, TypeOK, dbVars, Doc, NoJob
<1>6. CASE BreakTransaction(w)
  <2>1. /\ UNCHANGED <<row, object, command, tx, job>>
        /\ UNCHANGED current \/ current' = [current EXCEPT ![w] = NoDocument]
    BY <1>6 DEF BreakTransaction, Raise, SqlStep, RunStep
  <2>. QED  BY <2>1 DEF TypeOK, Doc
<1>. QED  BY <1>1, <1>2, <1>3, <1>4, <1>5, <1>6 DEF QuietStep

LEMMA WriteReach ==
    ASSUME TypeOK, NEW w \in Workers, WriteStep(w)
    PROVE  /\ UNCHANGED <<row, object, command, job>>
           /\ \A v \in Workers : v # w => tx'[v] = tx[v] /\ current'[v] = current[v]
           /\ current'[w] \in {current[w], NoDocument}
           /\ \/ tx' = tx
              \/ \E d \in Documents \cap {Doc(w), current[w]}, s \in DocumentState, n \in Nat :
                    tx' = [tx EXCEPT ![w] = [document |-> d, state |-> s, size |-> n]]
<1>1. UNCHANGED <<row, object, command, job>> /\ Doc(w) \in Documents
  BY WriteShape DEF TypeOK
<1>2. job[w].size \in Nat /\ \A d \in Documents : row[d].size \in Nat
  BY DEF TypeOK, Job, Row
<1>3. current' = current \/ current' = [current EXCEPT ![w] = NoDocument]
  BY DEF WriteStep, Retrieve, Finalize, MarkFailed, ProcessTimeout
<1>4. \/ tx' = tx
      \/ \E d \in Documents \cap {Doc(w), current[w]}, s \in DocumentState, n \in Nat :
            Update(w, d, s, n)
  <2>1. \/ tx' = tx
        \/ Update(w, Doc(w), "PROCESSING", row[Doc(w)].size)
        \/ Update(w, Doc(w), "FINISHED", job[w].size)
        \/ Update(w, Doc(w), "FAILED", row[Doc(w)].size)
        \/ current[w] # NoDocument /\ Update(w, current[w], "FAILED", row[current[w]].size)
    BY DEF WriteStep, Retrieve, Finalize, MarkFailed, ProcessTimeout
  <2>2. current[w] # NoDocument => current[w] \in Documents
    BY DEF TypeOK
  <2>. QED  BY <1>1, <1>2, <2>1, <2>2 DEF DocumentState
<1>5. \/ tx' = tx
      \/ \E d \in Documents \cap {Doc(w), current[w]}, s \in DocumentState, n \in Nat :
            tx' = [tx EXCEPT ![w] = [document |-> d, state |-> s, size |-> n]]
  BY <1>4 DEF Update
<1>. QED  BY <1>1, <1>3, <1>5 DEF TypeOK

StaysSettled(d) ==
    /\ object'[d] = object[d]
    /\ \/ row'[d].state = "DELETED"
       \/ row'[d] = row[d] /\ Settled(d)'

LEMMA SettledStep ==
    ASSUME TypeOK, [Next]_vars, NEW d \in Documents, Settled(d)
    PROVE  StaysSettled(d)
<1>0. d # NoDocument /\ NoWrite.document = NoDocument /\ NoJob.document = NoDocument
  BY DocumentAssumption DEF NoWrite, NoJob
<1>1. CASE UNCHANGED vars
  BY <1>1 DEF vars, dbVars, workerVars, StaysSettled, Settled, Doc
<1>2. ASSUME NEW e \in Documents, Delete(e) PROVE StaysSettled(d)
  BY <1>2 DEF Delete, workerVars, StaysSettled, Settled, Doc, TypeOK
<1>3. ASSUME NEW w \in Workers, NEW e \in Documents, Pick(w, e) PROVE StaysSettled(d)
  <2>1. e # d
    BY <1>3 DEF Pick, Pickable, Settled
  <2>2. /\ command'[d] = command[d]
        /\ \A v \in Workers : Doc(v)' \in {Doc(v), e}
    BY <1>3, <2>1 DEF Pick, TypeOK, Doc
  <2>. QED  BY <1>3, <2>1, <2>2 DEF Pick, StaysSettled, Settled
<1>4. ASSUME NEW w \in Workers, QuietStep(w) PROVE StaysSettled(d)
  BY <1>0, <1>4, QuietReach DEF StaysSettled, Settled
<1>5. ASSUME NEW w \in Workers, WriteStep(w) PROVE StaysSettled(d)
  <2>1. \A v \in Workers : tx'[v].document # d
    <3>1. CASE tx' = tx
      BY <3>1 DEF Settled
    <3>2. ASSUME NEW e \in Documents \cap {Doc(w), current[w]},
                 NEW s \in DocumentState, NEW n \in Nat,
                 tx' = [tx EXCEPT ![w] = [document |-> e, state |-> s, size |-> n]]
          PROVE  \A v \in Workers : tx'[v].document # d
      BY <3>2 DEF Settled, TypeOK
    <3>. QED  BY <1>5, <3>1, <3>2, WriteReach
  <2>. QED  BY <1>0, <1>5, <2>1, WriteReach DEF StaysSettled, Settled, Doc
<1>6. ASSUME NEW w \in Workers, RollbackStep(w) PROVE StaysSettled(d)
  <2>1. \A v \in Workers : tx'[v].document # d
    BY <1>0, <1>6, RollbackShape, RolledBackEffect DEF Settled
  <2>2. \A v \in Workers : Doc(v)' # d /\ current'[v] # d
    <3>1. \A v \in Workers : v # w => job'[v] = job[v] /\ current'[v] = current[v]
      BY <1>6, RollbackShape
    <3>2. Doc(w)' \in {Doc(w), NoDocument} /\ current'[w] \in {current[w], NoDocument}
      <4>1. CASE RetriesRunOut(w) \/ Crash(w) \/ LoseConnection(w) \/ LoseCommit(w)
        BY <4>1 DEF RetriesRunOut, Crash, LoseConnection, LoseCommit, Restart,
                    workerVars, NoJob, TypeOK, Doc
      <4>2. CASE LoseDatabase(w)
        BY <4>2 DEF LoseDatabase, Raise, SqlStep, RunStep, TypeOK, Doc
      <4>. QED  BY <1>6, <4>1, <4>2 DEF RollbackStep
    <3>. QED  BY <1>0, <3>1, <3>2 DEF Settled, Doc
  <2>. QED  BY <1>6, <2>1, <2>2, RollbackShape DEF StaysSettled, Settled
<1>7. ASSUME NEW w \in Workers, Record(w) PROVE StaysSettled(d)
  <2>1. row'[d] = row[d] /\ command'[d] = command[d]
    BY <1>7, RecordShape DEF Settled
  <2>2. \A v \in Workers : tx'[v].document # d
    <3>1. RolledBack(w)
      BY <1>7, RecordShape
    <3>. QED  BY <1>0, <3>1, RolledBackEffect DEF Settled
  <2>3. \A v \in Workers : Doc(v)' # d
    BY <1>0, <1>7, RecordShape DEF Settled, TypeOK, Doc
  <2>. QED  BY <1>7, <2>1, <2>2, <2>3, RecordShape DEF StaysSettled, Settled
<1>. QED  BY <1>1, <1>2, <1>3, <1>4, <1>5, <1>6, <1>7, StepKinds

(* A finished document that nobody has in hand, left behind or is about to *)
(* write is settled for good, whatever the other documents go through.     *)
THEOREM SettledCorrect == Spec => FinishedStays
<1>1. TypeOK /\ [Next]_vars =>
        [\A d \in Documents :
            Settled(d) => /\ object'[d] = object[d]
                          /\ \/ row'[d].state = "DELETED"
                             \/ row'[d] = row[d] /\ Settled(d)']_vars
  BY SettledStep DEF StaysSettled
<1>. QED  BY <1>1, TypeCorrect, PTL DEF Spec, FinishedStays

-----------------------------------------------------------------------------
(* The quota: besides what is committed, every worker may have one file    *)
(* that was checked against the limits and whose size is not committed.    *)

Pending(w) ==
    IF pc[w] \in {"store", "finalize"} THEN job[w].size
    ELSE IF tx[w].state = "FINISHED" THEN tx[w].size ELSE 0

RowSizes == [d \in Documents |-> row[d].size]

PendingSizes == [w \in Workers |-> Pending(w)]

Bound == StorageLimit + (Cardinality(Workers) - 1) * MaxDocSize

(* The size that is committed or may become committed without a check. *)
Total == UsedSize + SumFunction(PendingSizes)

(* The places of a job that has nothing more to write, or only that it has *)
(* timed out.                                                              *)
Leaving == {"return", "succeeded", "timed_out", "error"}

(* After FINISHED only a timeout is written, and every other UPDATE keeps  *)
(* the size, since the lock keeps the row as it was read.                  *)
TxSize(w) ==
    /\ tx[w].state = "FINISHED" => /\ pc[w] \in Leaving \/ (pc[w] = "idle" /\ aborted[w])
                                  /\ tx[w].size <= MaxDocSize
    /\ pc[w] \in {"store", "finalize"} => job[w].size <= MaxDocSize
    /\ tx[w] # NoWrite /\ tx[w].state # "FINISHED" =>
          tx[w].size = row[tx[w].document].size

QuotaInv ==
    /\ \A w \in Workers : TxSize(w)
    /\ Total > 0 => Total < Bound

SizesOK ==
    /\ RowSizes \in [Documents -> Int]
    /\ PendingSizes \in [Workers -> Int]
    /\ \A w \in Workers : Pending(w) \in Nat
    /\ UsedSize \in Int /\ SumFunction(PendingSizes) \in Int
    /\ UsedSize = SumFunction(RowSizes)
    /\ UsedSize >= 0 /\ SumFunction(PendingSizes) >= 0

LEMMA BoundType == Bound \in Int
BY DocumentAssumption, FS_CardinalityType DEF Bound, StorageLimit

LEMMA SizesType == TypeOK => SizesOK
<1>. SUFFICES ASSUME TypeOK PROVE SizesOK
  OBVIOUS
<1>0. IsFiniteSet(Documents) /\ IsFiniteSet(Workers)
  BY DocumentAssumption
<1>1. RowSizes \in [Documents -> Int] /\ \A d \in Documents : RowSizes[d] >= 0
  BY DEF RowSizes, TypeOK, Row
<1>2. \A w \in Workers : Pending(w) \in Nat
  BY DEF Pending, TypeOK, Job, Write
<1>3. PendingSizes \in [Workers -> Int] /\ \A w \in Workers : PendingSizes[w] >= 0
  BY <1>2 DEF PendingSizes
<1>4. UsedSize = SumFunction(RowSizes)
  BY DEF UsedSize, RowSizes
<1>5. SumFunction(RowSizes) \in Int /\ SumFunction(RowSizes) >= 0
  <2>. DEFINE zeros == [d \in Documents |-> 0]
  <2>1. zeros \in [Documents -> Int] /\ \A d \in Documents : zeros[d] <= RowSizes[d]
    BY <1>1
  <2>2. SumFunction(zeros) = 0
    BY <1>0, SumOfZeros
  <2>. HIDE DEF zeros
  <2>3. SumFunction(zeros) <= SumFunction(RowSizes)
    BY <1>0, <1>1, <2>1, SumIsMonotone
  <2>. QED  BY <1>0, <1>1, <2>2, <2>3, SumOfFunction
<1>6. SumFunction(PendingSizes) \in Int /\ SumFunction(PendingSizes) >= 0
  <2>. DEFINE zeros == [w \in Workers |-> 0]
  <2>1. zeros \in [Workers -> Int] /\ \A w \in Workers : zeros[w] <= PendingSizes[w]
    BY <1>3
  <2>2. SumFunction(zeros) = 0
    BY <1>0, SumOfZeros
  <2>. HIDE DEF zeros
  <2>3. SumFunction(zeros) <= SumFunction(PendingSizes)
    BY <1>0, <1>3, <2>1, SumIsMonotone
  <2>. QED  BY <1>0, <1>3, <2>2, <2>3, SumOfFunction
<1>. QED  BY <1>1, <1>2, <1>3, <1>4, <1>5, <1>6 DEF SizesOK

LEMMA SizesTypeAfter == TypeOK' => SizesOK'
BY SizesType, PTL

(* Where no size grows, the total does not. *)
LEMMA QuotaKept ==
    ASSUME TypeOK, TypeOK', QuotaInv,
           \A d \in Documents : row'[d].size <= row[d].size,
           \A w \in Workers : Pending(w)' <= Pending(w),
           \A w \in Workers : TxSize(w)'
    PROVE  QuotaInv'
<1>0. IsFiniteSet(Documents) /\ IsFiniteSet(Workers)
  BY DocumentAssumption
<1>1. /\ RowSizes \in [Documents -> Int] /\ RowSizes' \in [Documents -> Int]
      /\ PendingSizes \in [Workers -> Int] /\ PendingSizes' \in [Workers -> Int]
      /\ UsedSize \in Int /\ SumFunction(PendingSizes) \in Int
      /\ UsedSize' \in Int /\ SumFunction(PendingSizes') \in Int
      /\ UsedSize = SumFunction(RowSizes) /\ UsedSize' = SumFunction(RowSizes')
      /\ Bound \in Int /\ Bound' = Bound
  BY SizesType, SizesTypeAfter, BoundType DEF SizesOK, Bound, StorageLimit
<1>2. SumFunction(RowSizes') <= SumFunction(RowSizes)
  <2>1. \A d \in Documents : RowSizes'[d] <= RowSizes[d]
    BY DEF RowSizes
  <2>. QED  BY <1>0, <1>1, <2>1, SumIsMonotone
<1>3. SumFunction(PendingSizes') <= SumFunction(PendingSizes)
  <2>1. \A w \in Workers : PendingSizes'[w] <= PendingSizes[w]
    BY DEF PendingSizes
  <2>. QED  BY <1>0, <1>1, <2>1, SumIsMonotone
<1>4. Total' <= Total /\ Total \in Int /\ Total' \in Int
  BY <1>1, <1>2, <1>3 DEF Total
<1>. QED  BY <1>1, <1>4 DEF QuotaInv

(* What a step of one worker leaves to the others. *)
Resting(v) ==
    /\ tx'[v] = tx[v] /\ aborted'[v] = aborted[v] /\ pc'[v] = pc[v] /\ job'[v] = job[v]
    /\ tx[v] # NoWrite => row'[tx[v].document].size = row[tx[v].document].size

LEMMA QuotaOfOthers ==
    ASSUME NEW v \in Workers, TxSize(v), Resting(v)
    PROVE  TxSize(v)' /\ Pending(v)' = Pending(v)
BY DEF TxSize, Pending, Resting

(* A step of w after which none of its sizes has grown. *)
LEMMA QuotaOfWorker ==
    ASSUME TypeOK, TypeOK', QuotaInv, NEW w \in Workers,
           \A d \in Documents : row'[d].size <= row[d].size,
           \A v \in Workers \ {w} : Resting(v),
           TxSize(w)', Pending(w)' <= Pending(w)
    PROVE  QuotaInv'
<1>1. \A v \in Workers : TxSize(v)' /\ Pending(v)' <= Pending(v)
  <2>1. ASSUME NEW v \in Workers, v # w PROVE TxSize(v)' /\ Pending(v)' <= Pending(v)
    <3>1. TxSize(v)' /\ Pending(v)' = Pending(v)
      BY <2>1, QuotaOfOthers DEF QuotaInv
    <3>2. Pending(v) \in Nat
      BY SizesType DEF SizesOK
    <3>. QED  BY <3>1, <3>2
  <2>. QED  BY <2>1
<1>. QED  BY <1>1, QuotaKept

(* Where a step that leaves the transaction alone leads. *)
QuietPlaced(w) ==
    /\ UNCHANGED <<row, tx>>
    /\ \A v \in Workers \ {w} :
          pc'[v] = pc[v] /\ job'[v] = job[v] /\ aborted'[v] = aborted[v]
    /\ \/ pc[w] \notin {"idle"} \cup Leaving /\ pc'[w] \notin {"store", "finalize"}
       \/ pc[w] \in Leaving /\ pc'[w] \in Leaving
       \/ pc[w] = "store" /\ pc'[w] = "finalize" /\ job' = job
       \/ /\ pc[w] = "build" /\ pc'[w] = "store"
          /\ job'[w].size \in Sizes /\ WithinLimits(job'[w].size)
       \/ aborted[w] /\ aborted' = aborted /\ pc[w] \in Outcome /\ pc'[w] = "idle"

LEMMA QuietPlace ==
    ASSUME TypeOK, NEW w \in Workers, QuietStep(w)
    PROVE  QuietPlaced(w)
<1>1. CASE Construct(w) \/ CheckCompliance(w) \/ PrepareTemplate(w) \/ StallInConstruct(w)
  BY <1>1 DEF QuietPlaced, Leaving, Construct, CheckCompliance, PrepareTemplate,
              StallInConstruct, Goto, TypeOK, dbVars
<1>2. CASE GetDocument(w) \/ CheckDocumentExists(w)
  <2>1. /\ UNCHANGED <<dbVars, job>> /\ pc[w] \in {"get", "failing"}
        /\ Goto(w, "return") \/ Goto(w, "failing") \/ Goto(w, "retrieve") \/ Goto(w, "mark")
    BY <1>2 DEF GetDocument, CheckDocumentExists, Return
  <2>. QED  BY <2>1 DEF QuietPlaced, Leaving, Goto, TypeOK, dbVars
<1>3. CASE BuildDocument(w)
  <2>1. /\ UNCHANGED dbVars /\ pc[w] = "build"
        /\ \/ \E size \in Sizes : /\ WithinLimits(size) /\ Goto(w, "store")
                                 /\ job' = [job EXCEPT ![w].size = size]
           \/ job' = job /\ Goto(w, "failing")
    BY <1>3 DEF BuildDocument
  <2>2. CASE job' = job /\ Goto(w, "failing")
    BY <2>1, <2>2 DEF QuietPlaced, Leaving, Goto, TypeOK, dbVars
  <2>3. ASSUME NEW size \in Sizes, WithinLimits(size), Goto(w, "store"),
               job' = [job EXCEPT ![w].size = size]
        PROVE  QuietPlaced(w)
    BY <2>1, <2>3 DEF QuietPlaced, Goto, TypeOK, Job, dbVars
  <2>. QED  BY <2>1, <2>2, <2>3
<1>4. CASE StoreDocument(w) \/ StepFails(w) \/ TimeOut(w)
  BY <1>4 DEF QuietPlaced, Leaving, StoreDocument, StepFails, TimeOut, Goto, RunStep, TypeOK
<1>5. CASE RecordInFailedTransaction(w)
  BY <1>5 DEF QuietPlaced, RecordInFailedTransaction, Goto, TypeOK, dbVars
<1>6. CASE BreakTransaction(w)
  <2>1. /\ UNCHANGED <<row, tx, job>> /\ pc[w] \in SqlStep
        /\ aborted' = [aborted EXCEPT ![w] = TRUE]
        /\ \/ pc[w] = "timed_out" /\ Goto(w, "error")
           \/ /\ pc[w] # "timed_out"
              /\ Goto(w, "failing") \/ Goto(w, "return") \/ Goto(w, "error")
    BY <1>6 DEF BreakTransaction, Raise, Return, SqlStep, RunStep
  <2>. QED  BY <2>1 DEF QuietPlaced, Leaving, Goto, SqlStep, RunStep, TypeOK
<1>7. CASE Leave(w)
  BY <1>7 DEF QuietPlaced, Leaving, Leave, Goto, TypeOK, dbVars
<1>. QED  BY <1>1, <1>2, <1>3, <1>4, <1>5, <1>6, <1>7 DEF QuietStep

LEMMA QuietQuota ==
    ASSUME TypeOK, TypeOK', QuotaInv, NEW w \in Workers, QuietStep(w)
    PROVE  QuotaInv'
<1>1. TxSize(w) /\ \A v \in Workers \ {w} : Resting(v)
  BY QuietPlace DEF QuietPlaced, QuotaInv, Resting
<1>2. /\ UNCHANGED <<row, tx>>
      /\ \A d \in Documents : row'[d].size <= row[d].size
  BY QuietPlace DEF QuietPlaced, TypeOK, Row
<1>3. Pending(w) \in Nat /\ MaxDocSize \in Nat
  BY SizesType, DocumentAssumption DEF SizesOK
<1>4. CASE pc[w] \notin {"idle"} \cup Leaving /\ pc'[w] \notin {"store", "finalize"}
  <2>1. TxSize(w)' /\ Pending(w)' = 0
    BY <1>1, <1>2, <1>4 DEF TxSize, Pending
  <2>. QED  BY <1>1, <1>2, <1>3, <2>1, QuotaOfWorker
<1>5. CASE pc[w] = "store" /\ pc'[w] = "finalize" /\ job' = job
  <2>1. TxSize(w)' /\ Pending(w)' = Pending(w)
    BY <1>1, <1>2, <1>5 DEF TxSize, Pending, Leaving
  <2>. QED  BY <1>1, <1>2, <1>3, <2>1, QuotaOfWorker
<1>6. CASE aborted[w] /\ aborted' = aborted /\ pc[w] \in Outcome /\ pc'[w] = "idle"
  <2>1. TxSize(w)' /\ Pending(w)' = Pending(w)
    BY <1>1, <1>2, <1>6 DEF TxSize, Pending, Outcome
  <2>. QED  BY <1>1, <1>2, <1>3, <2>1, QuotaOfWorker
<1>7. CASE /\ pc[w] = "build" /\ pc'[w] = "store"
           /\ job'[w].size \in Sizes /\ WithinLimits(job'[w].size)
  <2>. DEFINE size == job'[w].size
  <2>1. size \in Nat /\ size <= MaxDocSize /\ UsedSize + size < StorageLimit
    BY <1>7, DocumentAssumption DEF WithinLimits, Fits
  <2>2. UsedSize' = UsedSize
    BY <1>2 DEF UsedSize
  <2>3. TxSize(w)' /\ Pending(w)' = size
    BY <1>1, <1>2, <1>7, <2>1 DEF TxSize, Pending, Leaving
  <2>4. \A v \in Workers : TxSize(v)'
    BY <1>1, <2>3, QuotaOfOthers DEF QuotaInv
  <2>5. \A v \in Workers : PendingSizes'[v] <= MaxDocSize
    BY <1>3, <2>4 DEF PendingSizes, Pending, TxSize
  <2>6. SumFunction(PendingSizes') <= size + (Cardinality(Workers) - 1) * MaxDocSize
    <3>1. PendingSizes' \in [Workers -> Int] /\ PendingSizes'[w] = size
      BY <2>3, SizesTypeAfter DEF SizesOK, PendingSizes
    <3>2. IsFiniteSet(Workers)
      BY DocumentAssumption
    <3>. QED  BY <1>3, <2>5, <3>1, <3>2, SumIsBounded
  <2>7. Total' < Bound' /\ Bound' = Bound
    <3>1. /\ StorageLimit \in Int /\ UsedSize \in Int /\ SumFunction(PendingSizes') \in Int
          /\ (Cardinality(Workers) - 1) * MaxDocSize \in Int
      BY SizesType, SizesTypeAfter, FS_CardinalityType, DocumentAssumption
         DEF SizesOK, StorageLimit
    <3>. DEFINE rest == (Cardinality(Workers) - 1) * MaxDocSize
                sum == SumFunction(PendingSizes')
    <3>2. Total' = UsedSize + sum /\ Bound = StorageLimit + rest /\ Bound' = Bound
      BY <2>2 DEF Total, Bound, StorageLimit
    <3>. HIDE DEF rest, sum, size
    <3>. QED  BY <2>1, <2>6, <3>1, <3>2 DEF rest, sum
  <2>. QED  BY <2>4, <2>7 DEF QuotaInv
<1>8. CASE pc[w] \in Leaving /\ pc'[w] \in Leaving
  <2>1. TxSize(w)' /\ Pending(w)' = Pending(w)
    BY <1>1, <1>2, <1>8 DEF TxSize, Pending, Leaving
  <2>. QED  BY <1>1, <1>2, <1>3, <2>1, QuotaOfWorker
<1>. QED  BY <1>4, <1>5, <1>6, <1>7, <1>8, QuietPlace DEF QuietPlaced

LEMMA WriteQuota ==
    ASSUME TypeOK, TypeOK', QuotaInv, NEW w \in Workers, WriteStep(w)
    PROVE  QuotaInv'
<1>1. /\ UNCHANGED <<row, aborted, job>> /\ Doc(w) \in Documents
      /\ job[w].size \in Nat /\ \A d \in Documents : row[d].size \in Nat
      /\ TxSize(w)
  BY WriteShape DEF TypeOK, Job, Row, QuotaInv
<1>2. \A v \in Workers \ {w} : Resting(v)
  BY <1>1, WriteShape, WritePrivate DEF Private, Idling, Resting
<1>3. \A d \in Documents : row'[d].size <= row[d].size
  BY <1>1
<1>4. CASE Finalize(w)
  <2>1. /\ Update(w, Doc(w), "FINISHED", job[w].size)
        /\ pc[w] = "finalize" /\ pc'[w] = "return"
    BY <1>4 DEF Finalize, Return, Goto, TypeOK
  <2>2. \/ tx' = tx
        \/ tx'[w] = [document |-> Doc(w), state |-> "FINISHED", size |-> job[w].size]
    BY <1>1, <2>1, UpdateEffect DEF DocumentState
  <2>3. TxSize(w)' /\ Pending(w)' <= Pending(w)
    BY <1>1, <2>1, <2>2 DEF TxSize, Pending, Leaving
  <2>. QED  BY <1>2, <1>3, <2>3, QuotaOfWorker
<1>5. CASE Retrieve(w) \/ MarkFailed(w) \/ ProcessTimeout(w)
  <2>1. /\ pc[w] \in {"retrieve", "mark", "timed_out"}
        /\ pc'[w] \in {"prepare", "return", "error"}
        /\ pc[w] = "timed_out" => pc'[w] = "error"
    BY <1>5 DEF Retrieve, MarkFailed, ProcessTimeout, Return, Goto, TypeOK
  <2>2. \/ tx' = tx
        \/ \E d \in Documents, s \in {"PROCESSING", "FAILED"} :
              tx'[w] = [document |-> d, state |-> s, size |-> row[d].size]
    <3>1. \/ tx' = tx
          \/ Update(w, Doc(w), "PROCESSING", row[Doc(w)].size)
          \/ Update(w, Doc(w), "FAILED", row[Doc(w)].size)
          \/ current[w] # NoDocument /\ Update(w, current[w], "FAILED", row[current[w]].size)
      BY <1>5 DEF Retrieve, MarkFailed, ProcessTimeout
    <3>2. current[w] # NoDocument => current[w] \in Documents
      BY DEF TypeOK
    <3>3. ASSUME NEW d \in Documents, NEW s \in {"PROCESSING", "FAILED"},
                 Update(w, d, s, row[d].size)
          PROVE  \/ tx' = tx
                 \/ tx'[w] = [document |-> d, state |-> s, size |-> row[d].size]
      BY <1>1, <3>3, UpdateEffect DEF DocumentState
    <3>. QED  BY <1>1, <3>1, <3>2, <3>3
  <2>3. tx[w].state = "FINISHED" => pc[w] = "timed_out"
    BY <1>1, <2>1 DEF TxSize, Leaving
  <2>4. TxSize(w)' /\ Pending(w)' \in {0, Pending(w)}
    <3>1. CASE tx' = tx
      BY <1>1, <2>1, <2>3, <3>1 DEF TxSize, Pending, Leaving
    <3>2. CASE \E d \in Documents, s \in {"PROCESSING", "FAILED"} :
                  tx'[w] = [document |-> d, state |-> s, size |-> row[d].size]
      <4>1. PICK d \in Documents, s \in {"PROCESSING", "FAILED"} :
                  tx'[w] = [document |-> d, state |-> s, size |-> row[d].size]
        BY <3>2
      <4>2. tx'[w].document = d /\ tx'[w].state # "FINISHED" /\ tx'[w].size = row[d].size
        BY <4>1
      <4>. QED  BY <1>1, <2>1, <4>2 DEF TxSize, Pending
    <3>. QED  BY <2>2, <3>1, <3>2
  <2>5. Pending(w) \in Nat
    BY SizesType DEF SizesOK
  <2>. QED  BY <1>2, <1>3, <2>4, <2>5, QuotaOfWorker
<1>. QED  BY <1>4, <1>5 DEF WriteStep

LEMMA RollbackQuota ==
    ASSUME TypeOK, TypeOK', QuotaInv, NEW w \in Workers, RollbackStep(w)
    PROVE  QuotaInv'
<1>1. /\ row' = row /\ tx'[w] = NoWrite
      /\ \A v \in Workers : v # w =>
            /\ tx'[v] = tx[v] /\ aborted'[v] = aborted[v]
            /\ pc'[v] = pc[v] /\ job'[v] = job[v]
  <2>1. /\ RolledBack(w) /\ row' = row
        /\ \A v \in Workers : v # w => pc'[v] = pc[v] /\ job'[v] = job[v]
    BY RollbackShape
  <2>2. /\ tx'[w] = NoWrite
        /\ \A v \in Workers : v # w => tx'[v] = tx[v] /\ aborted'[v] = aborted[v]
    BY <2>1, RolledBackEffect
  <2>. QED  BY <2>1, <2>2
<1>2. pc'[w] \in {"store", "finalize"} => pc'[w] = pc[w] /\ job'[w] = job[w]
  <2>1. CASE RetriesRunOut(w) \/ Crash(w) \/ LoseCommit(w)
    BY <2>1 DEF RetriesRunOut, Crash, LoseCommit, Restart, Goto, TypeOK
  <2>2. CASE LoseConnection(w)
    BY <2>2 DEF LoseConnection, workerVars
  <2>3. CASE LoseDatabase(w)
    <3>1. Goto(w, "failing") \/ Goto(w, "return") \/ Goto(w, "error")
      BY <2>3 DEF LoseDatabase, Raise, Return, SqlStep, RunStep
    <3>. QED  BY <3>1 DEF Goto, TypeOK
  <2>. QED  BY <2>1, <2>2, <2>3 DEF RollbackStep
<1>3. /\ \A v \in Workers \ {w} : Resting(v)
      /\ \A d \in Documents : row'[d].size <= row[d].size
      /\ Pending(w) \in Nat
  BY <1>1, SizesType DEF Resting, TypeOK, Row, SizesOK
<1>4. TxSize(w)' /\ Pending(w)' <= Pending(w)
  BY <1>1, <1>2, <1>3 DEF QuotaInv, TxSize, Pending, NoWrite
<1>. QED  BY <1>3, <1>4, QuotaOfWorker

LEMMA PickQuota ==
    ASSUME TypeOK, TypeOK', QuotaInv, NEW w \in Workers, NEW d \in Documents, Pick(w, d)
    PROVE  QuotaInv'
<1>1. /\ UNCHANGED <<row, tx, aborted>> /\ ~aborted[w]
      /\ pc[w] = "idle" /\ pc'[w] = "construct"
      /\ \A v \in Workers \ {w} : pc'[v] = pc[v] /\ job'[v] = job[v]
  BY DEF Pick, Goto, TypeOK
<1>2. /\ \A v \in Workers \ {w} : Resting(v)
      /\ \A e \in Documents : row'[e].size <= row[e].size
      /\ Pending(w) \in Nat
  BY <1>1, SizesType DEF Resting, TypeOK, Row, SizesOK
<1>3. TxSize(w)' /\ Pending(w)' = 0
  BY <1>1 DEF QuotaInv, TxSize, Pending, Leaving
<1>. QED  BY <1>2, <1>3, QuotaOfWorker

LEMMA DeleteQuota ==
    ASSUME TypeOK, TypeOK', QuotaInv, NEW d \in Documents, Delete(d)
    PROVE  QuotaInv'
<1>1. /\ lock[d] = NoWorker
      /\ row' = [row EXCEPT ![d] = [state |-> "DELETED", size |-> 0]]
      /\ UNCHANGED <<tx, aborted, pc, job>>
  BY DEF Delete, workerVars
<1>2. \A e \in Documents : row'[e].size <= row[e].size
  BY <1>1 DEF TypeOK, Row
<1>3. \A v \in Workers : Resting(v)
  <2>1. \A e \in Documents : e # d => row'[e] = row[e]
    BY <1>1 DEF TypeOK
  <2>2. \A v \in Workers : tx[v] # NoWrite => tx[v].document \in Documents \ {d}
    BY <1>1, DocumentAssumption DEF TypeOK
  <2>. QED  BY <1>1, <2>1, <2>2 DEF Resting
<1>4. \A v \in Workers : TxSize(v)' /\ Pending(v)' = Pending(v) /\ Pending(v) \in Nat
  BY <1>3, QuotaOfOthers, SizesType DEF QuotaInv, SizesOK
<1>. QED  BY <1>2, <1>4, QuotaKept

(* The size of a FINISHED document moves from the transaction to the row.  *)
LEMMA RecordQuota ==
    ASSUME TypeOK, TypeOK', QuotaInv, NEW w \in Workers, Record(w)
    PROVE  QuotaInv'
<1>. DEFINE e == tx[w].document
<1>1. /\ pc[w] \in Outcome /\ pc'[w] = "idle" /\ tx'[w] = NoWrite
      /\ \A v \in Workers : v # w =>
            /\ tx'[v] = tx[v] /\ aborted'[v] = aborted[v]
            /\ pc'[v] = pc[v] /\ job'[v] = job[v]
  <2>1. RolledBack(w)
    BY RecordShape
  <2>2. /\ pc[w] \in Outcome /\ pc'[w] = "idle"
        /\ \A v \in Workers : v # w => pc'[v] = pc[v] /\ job'[v] = job[v]
    BY RecordShape DEF TypeOK
  <2>3. /\ tx'[w] = NoWrite
        /\ \A v \in Workers : v # w => tx'[v] = tx[v] /\ aborted'[v] = aborted[v]
    BY <2>1, RolledBackEffect
  <2>. QED  BY <2>2, <2>3
<1>2. \A d \in Documents : row'[d] = IF e = d THEN [state |-> tx[w].state, size |-> tx[w].size]
                                     ELSE row[d]
  BY DEF Record
<1>3. tx[w] = NoWrite => e \notin Documents
  BY DocumentAssumption DEF NoWrite
<1>4. \A v \in Workers \ {w} : Resting(v)
  <2>1. \A v \in Workers \ {w} : tx[v] # NoWrite => tx[v].document \in Documents \ {e}
    BY <1>3 DEF TypeOK
  <2>. QED  BY <1>1, <1>2, <2>1 DEF Resting
<1>5. TxSize(w)' /\ Pending(w)' = 0
  BY <1>1 DEF TxSize, Pending, NoWrite
<1>6. CASE e \notin Documents \/ tx[w].state # "FINISHED"
  <2>1. \A d \in Documents : row'[d].size <= row[d].size
    BY <1>2, <1>3, <1>6 DEF QuotaInv, TxSize, TypeOK, Row
  <2>2. Pending(w) \in Nat
    BY SizesType DEF SizesOK
  <2>. QED  BY <1>4, <1>5, <2>1, <2>2, QuotaOfWorker
<1>7. CASE e \in Documents /\ tx[w].state = "FINISHED"
  <2>1. Pending(w) = tx[w].size
    BY <1>1, <1>7 DEF Pending, Outcome
  <2>2. \A v \in Workers : TxSize(v)'
    BY <1>4, <1>5, QuotaOfOthers DEF QuotaInv
  <2>3. \A v \in Workers \ {w} : PendingSizes'[v] = PendingSizes[v]
    BY <1>4, QuotaOfOthers DEF QuotaInv, PendingSizes
  <2>4. /\ RowSizes'[e] = PendingSizes[w] /\ PendingSizes'[w] = 0
        /\ \A d \in Documents \ {e} : RowSizes'[d] = RowSizes[d]
    BY <1>2, <1>5, <1>7, <2>1 DEF RowSizes, PendingSizes
  <2>5. SizesOK /\ SizesOK' /\ IsFiniteSet(Documents) /\ IsFiniteSet(Workers)
    BY SizesType, SizesTypeAfter, DocumentAssumption
  <2>6. SumFunction(RowSizes') = SumFunction(RowSizes) - RowSizes[e] + PendingSizes[w]
    BY <1>7, <2>4, <2>5, SumOfUpdate DEF SizesOK
  <2>7. SumFunction(PendingSizes') = SumFunction(PendingSizes) - PendingSizes[w] + 0
    BY <2>3, <2>4, <2>5, SumOfUpdate DEF SizesOK
  <2>8. RowSizes[e] \in Nat /\ PendingSizes[w] \in Nat
    BY <1>7, <2>5 DEF SizesOK, RowSizes, PendingSizes, TypeOK, Row
  <2>9. Total' <= Total /\ Total \in Int /\ Total' \in Int
    BY <2>5, <2>6, <2>7, <2>8 DEF Total, SizesOK
  <2>10. Bound' = Bound /\ Bound \in Int
    BY BoundType DEF Bound, StorageLimit
  <2>. QED  BY <2>2, <2>9, <2>10 DEF QuotaInv
<1>. QED  BY <1>6, <1>7

LEMMA QuotaStep == TypeOK /\ QuotaInv /\ [Next]_vars => QuotaInv'
<1>. SUFFICES ASSUME TypeOK, QuotaInv, [Next]_vars
              PROVE  QuotaInv'
  OBVIOUS
<1>1. TypeOK'
  BY TypeStep
<1>2. CASE UNCHANGED vars
  <2>1. UNCHANGED <<row, tx, aborted, pc, job>>
    BY <1>2 DEF vars, dbVars, workerVars
  <2>2. /\ \A w \in Workers : Resting(w)
        /\ \A d \in Documents : row'[d].size <= row[d].size
    BY <2>1 DEF Resting, TypeOK, Row
  <2>3. \A w \in Workers : TxSize(w)' /\ Pending(w)' = Pending(w) /\ Pending(w) \in Nat
    BY <2>2, QuotaOfOthers, SizesType DEF QuotaInv, SizesOK
  <2>. QED  BY <1>1, <2>2, <2>3, QuotaKept
<1>. QED
  BY <1>1, <1>2, StepKinds, DeleteQuota, PickQuota, QuietQuota, WriteQuota,
     RollbackQuota, RecordQuota

LEMMA QuotaInit == Init => QuotaInv
<1>. SUFFICES ASSUME Init PROVE QuotaInv
  OBVIOUS
<1>1. \A w \in Workers : TxSize(w) /\ Pending(w) = 0
  BY DEF Init, TxSize, Pending, NoWrite
<1>2. /\ RowSizes = [d \in Documents |-> 0]
      /\ PendingSizes = [w \in Workers |-> 0]
  BY <1>1 DEF Init, RowSizes, PendingSizes
<1>3. UsedSize = 0 /\ SumFunction(PendingSizes) = 0
  <2>1. IsFiniteSet(Documents) /\ IsFiniteSet(Workers)
    BY DocumentAssumption
  <2>2. UsedSize = SumFunction(RowSizes)
    BY DEF UsedSize, RowSizes
  <2>. QED  BY <1>2, <2>1, <2>2, SumOfZeros
<1>4. Total = 0
  BY <1>3 DEF Total
<1>. QED  BY <1>1, <1>4 DEF QuotaInv

(* However many jobs check the quota against the same committed sizes,     *)
(* together they exceed it by less than one largest file for every worker  *)
(* but the first.                                                          *)
THEOREM QuotaCorrect == Spec => []OvershootBounded
<1>1. TypeOK /\ QuotaInv => OvershootBounded
  <2>. SUFFICES ASSUME TypeOK, QuotaInv PROVE OvershootBounded
    OBVIOUS
  <2>1. UsedSize \in Int /\ SumFunction(PendingSizes) \in Int /\ SumFunction(PendingSizes) >= 0
    BY SizesType DEF SizesOK
  <2>2. UsedSize > 0 => UsedSize < Bound
    BY <2>1, BoundType DEF QuotaInv, Total
  <2>. QED  BY <2>2 DEF OvershootBounded, Bound
<1>. QED  BY <1>1, TypeCorrect, QuotaInit, QuotaStep, PTL DEF Spec

-----------------------------------------------------------------------------
(* The file of a FINISHED document, with a single process: between the     *)
(* look at the row and the commit nobody else stores a file for it.        *)

OneWorker == \A v, w \in Workers : v = w

(* Past get_document the row is known not to be FINISHED, and nobody but   *)
(* the job itself could make it so; what it writes then is the size of     *)
(* the file it has just stored.                                            *)
FileSizes(w) ==
    /\ pc[w] \in {"retrieve", "prepare", "build", "store", "finalize"} =>
          row[Doc(w)].state # "FINISHED"
    /\ pc[w] = "finalize" => object[Doc(w)] = job[w].size
    /\ tx[w].state = "FINISHED" => object[tx[w].document] = tx[w].size

MatchInv == FileMatchesRow /\ \A w \in Workers : FileSizes(w)

(* The steps of a job before and after the file is stored. *)
LEMMA QuietMatch ==
    ASSUME OneWorker, TypeOK, QuotaInv, MatchInv, NEW w \in Workers, QuietStep(w)
    PROVE  MatchInv'
<1>1. /\ UNCHANGED <<row, tx>>
      /\ Workers = {w} /\ TxSize(w) /\ FileSizes(w) /\ FileMatchesRow
  BY QuietPlace DEF QuietPlaced, OneWorker, QuotaInv, MatchInv
<1>2. SUFFICES FileMatchesRow' /\ FileSizes(w)'
  BY <1>1 DEF MatchInv
<1>3. CASE object' = object /\ pc'[w] # "finalize"
  <2>1. \/ pc'[w] \notin {"retrieve", "prepare", "build", "store", "finalize"}
        \/ /\ job'[w].document = job[w].document
           /\ \/ pc[w] \in {"retrieve", "prepare", "build", "store", "finalize"}
              \/ pc[w] = "get" /\ row[Doc(w)].state # "FINISHED"
    <3>1. CASE \/ Construct(w) \/ CheckCompliance(w) \/ PrepareTemplate(w)
               \/ CheckDocumentExists(w) \/ Leave(w)
      BY <3>1 DEF Construct, CheckCompliance, PrepareTemplate, CheckDocumentExists, Leave,
                  Return, Goto, TypeOK
    <3>2. CASE GetDocument(w)
      BY <3>2 DEF GetDocument, Return, Goto, TypeOK
    <3>3. CASE BuildDocument(w)
      <4>1. PICK size \in Sizes :
               \/ job' = [job EXCEPT ![w].size = size]
               \/ Goto(w, "failing") /\ UNCHANGED job
        BY <3>3 DEF BuildDocument
      <4>. QED  BY <3>3, <4>1 DEF BuildDocument, TypeOK, Job
    <3>4. CASE StoreDocument(w) \/ StepFails(w) \/ TimeOut(w) \/ RecordInFailedTransaction(w)
               \/ StallInConstruct(w)
      BY <1>3, <3>4 DEF StoreDocument, StepFails, TimeOut, RecordInFailedTransaction,
                  StallInConstruct, Goto, TypeOK
    <3>5. CASE BreakTransaction(w)
      <4>1. Goto(w, "failing") \/ Goto(w, "return") \/ Goto(w, "error")
        BY <3>5 DEF BreakTransaction, Raise, Return, SqlStep, RunStep
      <4>. QED  BY <4>1 DEF Goto, TypeOK
    <3>. QED  BY <3>1, <3>2, <3>3, <3>4, <3>5 DEF QuietStep
  <2>. QED  BY <1>1, <1>3, <2>1 DEF FileSizes, FileMatchesRow, Doc
<1>4. CASE /\ pc[w] = "store" /\ object' = [object EXCEPT ![Doc(w)] = job[w].size]
           /\ job' = job
           /\ pc'[w] \in {"finalize", "failing", "timed_out"}
  <2>1. tx[w].state # "FINISHED" /\ row[Doc(w)].state # "FINISHED" /\ Doc(w) \in Documents
    BY <1>1, <1>4 DEF TxSize, Leaving, FileSizes, TypeOK
  <2>2. /\ object'[Doc(w)] = job[w].size
        /\ \A d \in Documents : d # Doc(w) => object'[d] = object[d]
    BY <1>4, <2>1 DEF TypeOK
  <2>. QED  BY <1>1, <1>4, <2>1, <2>2 DEF FileSizes, FileMatchesRow, Doc
<1>5. \/ object' = object /\ pc'[w] # "finalize"
      \/ /\ pc[w] = "store" /\ object' = [object EXCEPT ![Doc(w)] = job[w].size]
         /\ job' = job /\ pc'[w] \in {"finalize", "failing", "timed_out"}
  <2>1. CASE StoreDocument(w) \/ StepFails(w) \/ TimeOut(w)
    BY <2>1 DEF StoreDocument, StepFails, TimeOut, Goto, TypeOK
  <2>2. CASE \/ Construct(w) \/ CheckCompliance(w) \/ GetDocument(w) \/ PrepareTemplate(w)
             \/ BuildDocument(w) \/ CheckDocumentExists(w) \/ Leave(w)
             \/ RecordInFailedTransaction(w) \/ StallInConstruct(w) \/ BreakTransaction(w)
    <3>1. object' = object
      BY <2>2 DEF Construct, CheckCompliance, GetDocument, PrepareTemplate, BuildDocument,
                  CheckDocumentExists, Leave, RecordInFailedTransaction, StallInConstruct,
                  BreakTransaction, dbVars
    <3>2. \/ Goto(w, "check") \/ Goto(w, "get") \/ Goto(w, "retrieve") \/ Goto(w, "build")
          \/ Goto(w, "store") \/ Goto(w, "failing") \/ Goto(w, "mark") \/ Goto(w, "succeeded")
          \/ Goto(w, "return") \/ Goto(w, "error") \/ Goto(w, "timed_out") \/ Goto(w, "idle")
      BY <2>2 DEF Construct, CheckCompliance, GetDocument, PrepareTemplate, BuildDocument,
                  CheckDocumentExists, Leave, RecordInFailedTransaction, StallInConstruct,
                  BreakTransaction, Raise, Return, SqlStep, RunStep
    <3>. QED  BY <3>1, <3>2 DEF Goto, TypeOK
  <2>. QED  BY <2>1, <2>2 DEF QuietStep
<1>. QED  BY <1>3, <1>4, <1>5

LEMMA WriteMatch ==
    ASSUME OneWorker, TypeOK, QuotaInv, MatchInv, NEW w \in Workers, WriteStep(w)
    PROVE  MatchInv'
<1>1. /\ UNCHANGED <<row, object, job>> /\ Doc(w) \in Documents
      /\ job[w].size \in Nat /\ \A d \in Documents : row[d].size \in Nat
      /\ Workers = {w} /\ TxSize(w) /\ FileSizes(w) /\ FileMatchesRow
  BY WriteShape DEF TypeOK, Job, Row, OneWorker, QuotaInv, MatchInv
<1>2. SUFFICES FileSizes(w)'
  BY <1>1 DEF MatchInv, FileMatchesRow
<1>3. /\ pc'[w] \in {"prepare", "return", "error"}
      /\ pc'[w] = "prepare" => pc[w] = "retrieve"
  BY DEF WriteStep, Retrieve, Finalize, MarkFailed, ProcessTimeout, Return, Goto, TypeOK
<1>4. tx'[w].state = "FINISHED" => object[tx'[w].document] = tx'[w].size
  <2>1. \/ tx' = tx
        \/ pc[w] = "finalize" /\ Update(w, Doc(w), "FINISHED", job[w].size)
        \/ Update(w, Doc(w), "PROCESSING", row[Doc(w)].size)
        \/ Update(w, Doc(w), "FAILED", row[Doc(w)].size)
        \/ current[w] # NoDocument /\ Update(w, current[w], "FAILED", row[current[w]].size)
    BY DEF WriteStep, Retrieve, Finalize, MarkFailed, ProcessTimeout
  <2>2. current[w] # NoDocument => current[w] \in Documents
    BY DEF TypeOK
  <2>3. CASE tx' = tx
    BY <1>1, <2>3 DEF FileSizes
  <2>4. CASE pc[w] = "finalize" /\ Update(w, Doc(w), "FINISHED", job[w].size)
    <3>1. \/ tx' = tx
          \/ tx'[w] = [document |-> Doc(w), state |-> "FINISHED", size |-> job[w].size]
      BY <1>1, <2>4, UpdateEffect DEF DocumentState
    <3>. QED  BY <1>1, <2>4, <3>1 DEF FileSizes
  <2>5. ASSUME NEW d \in Documents, NEW s \in {"PROCESSING", "FAILED"},
               Update(w, d, s, row[d].size)
        PROVE  tx'[w].state = "FINISHED" => object[tx'[w].document] = tx'[w].size
    <3>1. tx' = tx \/ tx'[w] = [document |-> d, state |-> s, size |-> row[d].size]
      BY <1>1, <2>5, UpdateEffect DEF DocumentState
    <3>2. CASE tx' = tx
      BY <1>1, <3>2 DEF FileSizes
    <3>3. CASE tx'[w] = [document |-> d, state |-> s, size |-> row[d].size]
      BY <3>3
    <3>. QED  BY <3>1, <3>2, <3>3
  <2>. QED  BY <1>1, <2>1, <2>2, <2>3, <2>4, <2>5
<1>. QED  BY <1>1, <1>3, <1>4 DEF FileSizes, Doc

LEMMA RollbackMatch ==
    ASSUME OneWorker, TypeOK, QuotaInv, MatchInv, NEW w \in Workers, RollbackStep(w)
    PROVE  MatchInv'
<1>1. UNCHANGED <<row, object>> /\ tx'[w] = NoWrite
  <2>1. RolledBack(w) /\ UNCHANGED <<row, object>>
    BY RollbackShape
  <2>. QED  BY <2>1, RolledBackEffect
<1>2. Workers = {w} /\ FileSizes(w) /\ FileMatchesRow
  BY DEF OneWorker, MatchInv
<1>3. \/ pc'[w] \in {"idle", "failing", "return", "error"}
      \/ pc'[w] = pc[w] /\ job'[w] = job[w]
  <2>1. CASE RetriesRunOut(w) \/ Crash(w) \/ LoseCommit(w)
    BY <2>1 DEF RetriesRunOut, Crash, LoseCommit, Restart, Goto, TypeOK
  <2>2. CASE LoseConnection(w)
    BY <2>2 DEF LoseConnection, workerVars
  <2>3. CASE LoseDatabase(w)
    <3>1. Goto(w, "failing") \/ Goto(w, "return") \/ Goto(w, "error")
      BY <2>3 DEF LoseDatabase, Raise, Return, SqlStep, RunStep
    <3>. QED  BY <3>1 DEF Goto, TypeOK
  <2>. QED  BY <2>1, <2>2, <2>3 DEF RollbackStep
<1>4. FileSizes(w)' /\ FileMatchesRow'
  BY <1>1, <1>2, <1>3 DEF FileSizes, FileMatchesRow, Doc, NoWrite
<1>. QED  BY <1>2, <1>4 DEF MatchInv

LEMMA RecordMatch ==
    ASSUME OneWorker, TypeOK, QuotaInv, MatchInv, NEW w \in Workers, Record(w)
    PROVE  MatchInv'
<1>1. pc'[w] = "idle" /\ tx'[w] = NoWrite /\ object' = object
  <2>1. RolledBack(w) /\ object' = object /\ pc' = [pc EXCEPT ![w] = "idle"]
    BY RecordShape
  <2>2. tx'[w] = NoWrite
    BY <2>1, RolledBackEffect
  <2>. QED  BY <2>1, <2>2 DEF TypeOK
<1>2. Workers = {w} /\ FileSizes(w) /\ FileMatchesRow
  BY DEF OneWorker, MatchInv
<1>3. \A d \in Documents :
         row'[d] = IF tx[w].document = d THEN [state |-> tx[w].state, size |-> tx[w].size]
                                         ELSE row[d]
  BY DEF Record
<1>4. FileMatchesRow'
  BY <1>1, <1>2, <1>3 DEF FileMatchesRow, FileSizes
<1>5. FileSizes(w)'
  BY <1>1 DEF FileSizes, NoWrite
<1>. QED  BY <1>2, <1>4, <1>5 DEF MatchInv

LEMMA MatchStep == OneWorker /\ TypeOK /\ QuotaInv /\ MatchInv /\ [Next]_vars => MatchInv'
<1>. SUFFICES ASSUME OneWorker, TypeOK, QuotaInv, MatchInv, [Next]_vars
              PROVE  MatchInv'
  OBVIOUS
<1>1. CASE UNCHANGED vars
  BY <1>1 DEF vars, dbVars, workerVars, MatchInv, FileMatchesRow, FileSizes, Doc
<1>2. ASSUME NEW d \in Documents, Delete(d) PROVE MatchInv'
  <2>1. /\ row' = [row EXCEPT ![d] = [state |-> "DELETED", size |-> 0]]
        /\ UNCHANGED <<object, tx, pc, job>>
    BY <1>2 DEF Delete, workerVars
  <2>2. row'[d].state = "DELETED" /\ \A e \in Documents : e # d => row'[e] = row[e]
    BY <2>1 DEF TypeOK
  <2>3. \A w \in Workers : pc[w] # "idle" => Doc(w) \in Documents
    BY DEF TypeOK
  <2>. QED  BY <2>1, <2>2, <2>3 DEF MatchInv, FileMatchesRow, FileSizes, Doc
<1>3. ASSUME NEW w \in Workers, NEW d \in Documents, Pick(w, d) PROVE MatchInv'
  <2>1. UNCHANGED <<row, object, tx>> /\ pc'[w] = "construct" /\ Workers = {w}
    BY <1>3 DEF Pick, Goto, TypeOK, OneWorker
  <2>. QED  BY <2>1 DEF MatchInv, FileMatchesRow, FileSizes
<1>. QED
  BY <1>1, <1>2, <1>3, StepKinds, QuietMatch, WriteMatch, RollbackMatch, RecordMatch

(* With a single process, the row of a FINISHED document describes the     *)
(* file that is stored, whatever earlier attempts have left there.         *)
THEOREM FileMatchesCorrect ==
    ASSUME OneWorker
    PROVE  Spec => []FileMatchesRow
<1>1. Init => MatchInv
  BY DEF Init, MatchInv, FileMatchesRow, FileSizes, NoWrite
<1>2. TypeOK /\ QuotaInv /\ MatchInv /\ [Next]_vars => MatchInv'
  BY MatchStep
<1>3. MatchInv => FileMatchesRow
  BY DEF MatchInv
<1>. QED  BY <1>1, <1>2, <1>3, TypeCorrect, QuotaInit, QuotaStep, PTL DEF Spec

=============================================================================
