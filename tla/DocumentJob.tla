---------------------------- MODULE DocumentJob -----------------------------
(***************************************************************************)
(* The document worker: processes that generate documents for the commands *)
(* of the queue.  A job reads the row of its document, renders a file,     *)
(* puts it into S3 and updates the row.  All statements of a job and the   *)
(* record of the command's outcome share one transaction of conn_query;    *)
(* the file is outside of it.                                              *)
(*                                                                         *)
(* The queue is the one of CommandQueue, reduced to what a job sees of it: *)
(* a command is picked, its attempt is charged and committed, its outcome  *)
(* is written with the attempt number of the pick.  Back-offs are left     *)
(* out, so a command may be picked again at any time.                      *)
(***************************************************************************)
EXTENDS Integers, FiniteSets, Functions

CONSTANTS
    Workers,      \* document worker processes
    Documents,    \* rows of the table document of one tenant
    NoWorker,     \* "nobody holds the row lock"
    NoDocument,   \* "no job"
    MaxAttempts,  \* max_attempts of a document's command
    Sizes,        \* sizes a rendered file can have
    MaxDocSize,   \* experimental.max_doc_size
    Limit,        \* storage of the tenant's limit bundle (its sign is ignored)
    FaultKinds,   \* faults the environment may inject
    MaxFaults     \* bound: number of faults of a behaviour

AllFaultKinds == {"crash", "connection", "sql", "stall"}

ASSUME DocumentAssumption ==
    /\ NoWorker \notin Workers
    /\ NoDocument \notin Documents
    /\ IsFiniteSet(Workers) /\ IsFiniteSet(Documents)
    /\ MaxAttempts \in Nat \ {0}
    /\ Sizes \subseteq Nat \ {0}
    /\ MaxDocSize \in Nat
    /\ Limit \in Int
    /\ FaultKinds \subseteq AllFaultKinds
    /\ MaxFaults \in Nat

VARIABLES
    row,       \* table document: what is committed
    object,    \* S3: size of the file stored under the document's key, 0: none
    command,   \* persistent_command of every document
    lock,      \* row locks on document, held until the transaction ends
    tx,        \* the uncommitted UPDATE of a worker's transaction
    aborted,   \* the transaction of conn_query has failed
    pc,        \* where a worker is
    job,       \* the Job: document, attempt of its command, size of final_file
    current,   \* DocumentWorker.current_job
    dropped,   \* history: documents whose job lost its connection
    faults     \* history: number of faults so far

dbVars     == <<row, object, command, lock, tx, aborted>>
workerVars == <<pc, job, current>>
vars == <<dbVars, workerVars, dropped, faults>>

-----------------------------------------------------------------------------
(* DocumentState; "DELETED" is a row the server has removed. *)
DocumentState == {"QUEUED", "PROCESSING", "FINISHED", "FAILED", "DELETED"}

Row == [state: DocumentState, size: Nat]

Command == [state: {"new", "done", "error"}, attempts: Nat]

Job == [document: Documents \cup {NoDocument}, attempt: Nat, size: Nat]

NoJob == [document |-> NoDocument, attempt |-> 0, size |-> 0]

Write == [document: Documents \cup {NoDocument}, state: DocumentState, size: Nat]

NoWrite == [document |-> NoDocument, state |-> "QUEUED", size |-> 0]

(* The steps of Job._run in their order, then those of its error handling. *)
RunStep == {"check", "get", "retrieve", "prepare", "build", "store", "finalize"}

(* Steps that execute SQL: any of them can break the transaction. *)
SqlStep ==
    {"construct", "get", "retrieve", "prepare", "build", "finalize",
     "failing", "mark", "timed_out"}

Outcome == {"succeeded", "error"}

PC == {"idle", "return"} \cup RunStep \cup SqlStep \cup Outcome

Init ==
    /\ row = [d \in Documents |-> [state |-> "QUEUED", size |-> 0]]
    /\ object = [d \in Documents |-> 0]
    /\ command = [d \in Documents |-> [state |-> "new", attempts |-> 0]]
    /\ lock = [d \in Documents |-> NoWorker]
    /\ tx = [w \in Workers |-> NoWrite]
    /\ aborted = [w \in Workers |-> FALSE]
    /\ pc = [w \in Workers |-> "idle"]
    /\ job = [w \in Workers |-> NoJob]
    /\ current = [w \in Workers |-> NoDocument]
    /\ dropped = {}
    /\ faults = 0

-----------------------------------------------------------------------------
(* Helpers *)

(* The document of the job of w. *)
Doc(w) == job[w].document

(* Worker w goes to step s. *)
Goto(w, s) == pc' = [pc EXCEPT ![w] = s]

Fault(k) ==
    /\ k \in FaultKinds
    /\ faults < MaxFaults
    /\ faults' = faults + 1

Unlocked(w) == [d \in Documents |-> IF lock[d] = w THEN NoWorker ELSE lock[d]]

(* UPDATE document ... WHERE uuid = d in the transaction of w: waits for   *)
(* the row lock and keeps it; without a row it does nothing.               *)
Update(w, d, state, size) ==
    /\ lock[d] \in {NoWorker, w}
    /\ IF row[d].state = "DELETED"
       THEN UNCHANGED <<tx, lock>>
       ELSE /\ tx' = [tx EXCEPT ![w] = [document |-> d, state |-> state,
                                        size |-> size]]
            /\ lock' = [lock EXCEPT ![d] = w]

(* Mutant: the write of the old transaction survives its lock. *)
LocksReleased(w) ==
    /\ lock' = Unlocked(w)
    /\ aborted' = [aborted EXCEPT ![w] = FALSE]
    /\ UNCHANGED tx

(* The transaction of w is gone without a commit. *)
RolledBack(w) ==
    /\ tx' = [tx EXCEPT ![w] = NoWrite]
    /\ lock' = Unlocked(w)
    /\ aborted' = [aborted EXCEPT ![w] = FALSE]

(* get_currently_used_size *)
UsedSize == SumFunction([d \in Documents |-> row[d].size])

StorageLimit == IF Limit < 0 THEN -Limit ELSE Limit

(* LimitsEnforcer.check_size_usage; mutant: the file itself is left out. *)
FitsWithoutFile(size) == UsedSize < StorageLimit

Fits(size) == UsedSize + size < StorageLimit

WithinLimits(size) == size <= MaxDocSize /\ Fits(size)

-----------------------------------------------------------------------------
(* The queue, as a job sees it *)

(* The WHERE clause of query_get_command without the back-off.  Mutant:    *)
(* any state.                                                              *)
PickableInAnyState(d) == command[d].attempts < MaxAttempts

Pickable(d) ==
    command[d].state \in {"new", "error"} /\ command[d].attempts < MaxAttempts

(* The queue picks the command of d, charges the attempt, commits, and     *)
(* calls DocumentWorker.work.                                              *)
Pick(w, d) ==
    /\ pc[w] = "idle"
    /\ ~aborted[w]
    /\ Pickable(d)
    /\ command' = [command EXCEPT ![d].attempts = @ + 1]
    /\ job' = [job EXCEPT ![w] = [document |-> d, size |-> 0,
                                  attempt |-> command[d].attempts + 1]]
    /\ Goto(w, "construct")
    /\ UNCHANGED <<row, object, lock, tx, aborted, current, dropped, faults>>

(* Nothing to pick: the queue waits for a notification. *)
Wait(w) ==
    /\ pc[w] = "idle"
    /\ ~aborted[w]
    /\ \A d \in Documents : ~Pickable(d)
    /\ UNCHANGED vars

(* The outcome of the command is written, and the transaction committed:   *)
(* the UPDATE of the document becomes visible with it.                     *)
Record(w) ==
    /\ pc[w] \in Outcome
    /\ ~aborted[w]
    /\ row' = [d \in Documents |->
                 IF tx[w].document = d
                 THEN [state |-> tx[w].state, size |-> tx[w].size] ELSE row[d]]
    /\ command' = [command EXCEPT ![Doc(w)] =
                     [state |-> IF pc[w] = "succeeded" THEN "done" ELSE "error",
                      attempts |-> job[w].attempt]]
    /\ RolledBack(w)
    /\ job' = [job EXCEPT ![w] = NoJob]
    /\ Goto(w, "idle")
    /\ UNCHANGED <<object, current, dropped, faults>>

(* In a failed transaction the outcome cannot be written; the exception    *)
(* leaves run(), which tenacity calls again: every statement still fails.  *)
RecordInFailedTransaction(w) ==
    /\ pc[w] \in Outcome
    /\ aborted[w]
    /\ job' = [job EXCEPT ![w] = NoJob]
    /\ Goto(w, "idle")
    /\ UNCHANGED <<dbVars, current, dropped, faults>>

(* A new process: no transaction, no job. *)
Restart(w) ==
    /\ RolledBack(w)
    /\ job' = [job EXCEPT ![w] = NoJob]
    /\ current' = [current EXCEPT ![w] = NoDocument]
    /\ Goto(w, "idle")
    /\ UNCHANGED <<row, object, command, dropped>>

(* Mutant: the process never gives up. *)
RetriesNeverRunOut(w) == FALSE

(* The retries of run() are used up; the supervisor starts a new process. *)
RetriesRunOut(w) ==
    /\ pc[w] = "idle"
    /\ aborted[w]
    /\ Restart(w)
    /\ UNCHANGED faults

-----------------------------------------------------------------------------
(* The job: DocumentWorker.work and Job.run *)

(* Job.__init__ reads the limits of the tenant; current_job is set after. *)
Construct(w) ==
    /\ pc[w] = "construct"
    /\ current' = [current EXCEPT ![w] = Doc(w)]
    /\ Goto(w, "check")
    /\ UNCHANGED <<dbVars, job, dropped, faults>>

CheckCompliance(w) ==
    /\ pc[w] = "check"
    /\ Goto(w, "get")
    /\ UNCHANGED <<dbVars, job, current, dropped, faults>>

(* Job.run is left without an exception. *)
Return(w) == Goto(w, "return")

(* get_document: without a row there is nothing to do and nothing to mark; *)
(* a finished document is a job error.                                     *)
GetDocument(w) ==
    /\ pc[w] = "get"
    /\ CASE row[Doc(w)].state = "DELETED" -> Return(w)
         [] row[Doc(w)].state = "FINISHED" -> Goto(w, "failing")
         [] OTHER -> Goto(w, "retrieve")
    /\ UNCHANGED <<dbVars, job, current, dropped, faults>>

(* update_document_retrieved; whether it found the row is not looked at. *)
Retrieve(w) ==
    /\ pc[w] = "retrieve"
    /\ Update(w, Doc(w), "PROCESSING", row[Doc(w)].size)
    /\ Goto(w, "prepare")
    /\ UNCHANGED <<row, object, command, aborted, job, current, dropped, faults>>

PrepareTemplate(w) ==
    /\ pc[w] = "prepare"
    /\ Goto(w, "build")
    /\ UNCHANGED <<dbVars, job, current, dropped, faults>>

(* build_document: the file is rendered and checked against the limits,    *)
(* with the sizes that are committed now.                                  *)
BuildDocument(w) ==
    /\ pc[w] = "build"
    /\ \E size \in Sizes :
         IF WithinLimits(size)
         THEN job' = [job EXCEPT ![w].size = size] /\ Goto(w, "store")
         ELSE Goto(w, "failing") /\ UNCHANGED job
    /\ UNCHANGED <<dbVars, current, dropped, faults>>

(* Mutant: the row is finished before the file is stored. *)
FinalizeFirst(w) ==
    /\ pc[w] = "store"
    /\ Update(w, Doc(w), "FINISHED", job[w].size)
    /\ Return(w)
    /\ UNCHANGED <<row, object, command, aborted, job, current, dropped, faults>>

(* Mutant: a file that is stored already is not stored again. *)
StoreOnce(w) ==
    /\ pc[w] = "store"
    /\ object' = [object EXCEPT ![Doc(w)] = IF @ > 0 THEN @ ELSE job[w].size]
    /\ Goto(w, "finalize")
    /\ UNCHANGED <<row, command, lock, tx, aborted, job, current, dropped, faults>>

StoreDocument(w) ==
    /\ pc[w] = "store"
    /\ object' = [object EXCEPT ![Doc(w)] = job[w].size]
    /\ Goto(w, "finalize")
    /\ UNCHANGED <<row, command, lock, tx, aborted, job, current, dropped, faults>>

Finalize(w) ==
    /\ pc[w] = "finalize"
    /\ Update(w, Doc(w), "FINISHED", job[w].size)
    /\ Return(w)
    /\ UNCHANGED <<row, object, command, aborted, job, current, dropped, faults>>

(* A step of _run raises: unsupported metamodel version, unknown template  *)
(* or format, an error while rendering, in S3 or while naming the file.    *)
(* A put that raises may have stored the file all the same.                *)
StepFails(w) ==
    /\ pc[w] \in {"check", "prepare", "build", "store", "finalize"}
    /\ object' \in {object} \cup
         (IF pc[w] = "store" THEN {[object EXCEPT ![Doc(w)] = job[w].size]} ELSE {})
    /\ Goto(w, "failing")
    /\ UNCHANGED <<row, command, lock, tx, aborted, job, current, dropped, faults>>

(* _set_failed begins with check_document_exists, which takes an exception *)
(* of its SELECT for "no".                                                 *)
CheckDocumentExists(w) ==
    /\ pc[w] = "failing"
    /\ IF aborted[w] \/ row[Doc(w)].state = "DELETED"
       THEN Return(w)
       ELSE Goto(w, "mark")
    /\ UNCHANGED <<dbVars, job, current, dropped, faults>>

(* Mutant: the state is not set. *)
MarkNothing(w) ==
    /\ pc[w] = "mark"
    /\ Return(w)
    /\ UNCHANGED <<dbVars, job, current, dropped, faults>>

(* try_set_job_state(FAILED); a row deleted meanwhile makes it a           *)
(* RuntimeError, which leaves work() and keeps current_job.                *)
MarkFailed(w) ==
    /\ pc[w] = "mark"
    /\ Update(w, Doc(w), "FAILED", row[Doc(w)].size)
    /\ IF row[Doc(w)].state = "DELETED" THEN Goto(w, "error") ELSE Return(w)
    /\ UNCHANGED <<row, object, command, aborted, job, current, dropped, faults>>

(* work resets current_job, and returns. *)
Leave(w) ==
    /\ pc[w] = "return"
    /\ current' = [current EXCEPT ![w] = NoDocument]
    /\ Goto(w, "succeeded")
    /\ UNCHANGED <<dbVars, job, dropped, faults>>

(* The job timeout of the queue strikes until work has returned, before or *)
(* after it has reset current_job; the statements of the job stay in the   *)
(* transaction.  A put may be completed still.                             *)
TimeOut(w) ==
    /\ pc[w] \in RunStep \cup {"failing", "mark", "return", "succeeded"}
    /\ object' \in {object} \cup
         (IF pc[w] = "store" THEN {[object EXCEPT ![Doc(w)] = job[w].size]} ELSE {})
    /\ Goto(w, "timed_out")
    /\ UNCHANGED <<row, command, lock, tx, aborted, job, current, dropped, faults>>

(* process_timeout marks the document of current_job, if there is one, and *)
(* does not look at the result.                                            *)
ProcessTimeout(w) ==
    /\ pc[w] = "timed_out"
    /\ IF current[w] = NoDocument \/ aborted[w]
       THEN UNCHANGED <<tx, lock>>
       ELSE Update(w, current[w], "FAILED", row[current[w]].size)
    /\ current' = [current EXCEPT ![w] = NoDocument]
    /\ Goto(w, "error")
    /\ UNCHANGED <<row, object, command, aborted, job, dropped, faults>>

-----------------------------------------------------------------------------
(* Faults and the server *)

(* An exception of a statement, by the step that executes it: Job.__init__ *)
(* and the UPDATE of _set_failed let it out of work(); the SELECT of       *)
(* check_document_exists and the UPDATE of process_timeout swallow it.     *)
Raise(w) ==
    CASE pc[w] \in RunStep -> Goto(w, "failing") /\ UNCHANGED current
      [] pc[w] = "failing" -> Return(w) /\ UNCHANGED current
      [] pc[w] \in {"construct", "mark"} -> Goto(w, "error") /\ UNCHANGED current
      [] pc[w] = "timed_out" ->
           /\ Goto(w, "error")
           /\ current' = [current EXCEPT ![w] = NoDocument]

(* A statement fails: the transaction is in a failed state from now on. *)
BreakTransaction(w) ==
    /\ pc[w] \in SqlStep
    /\ ~aborted[w]
    /\ Fault("sql")
    /\ aborted' = [aborted EXCEPT ![w] = TRUE]
    /\ Raise(w)
    /\ UNCHANGED <<row, object, command, lock, tx, job, dropped>>

(* The connection is lost and the next statement goes on in the new one. *)
LoseConnection(w) ==
    /\ pc[w] # "idle" \/ aborted[w]
    /\ Fault("connection")
    /\ RolledBack(w)
    /\ dropped' = dropped \cup ({Doc(w)} \ {NoDocument})
    /\ UNCHANGED <<row, object, command, workerVars>>

(* The connection is lost and the database cannot be reached: the retries  *)
(* of the statement are used up and it raises.                             *)
LoseDatabase(w) ==
    /\ pc[w] \in SqlStep
    /\ Fault("connection")
    /\ RolledBack(w)
    /\ dropped' = dropped \cup {Doc(w)}
    /\ Raise(w)
    /\ UNCHANGED <<row, object, command, job>>

(* The connection is lost at the commit of the outcome. *)
LoseCommit(w) ==
    /\ pc[w] \in Outcome
    /\ Fault("connection")
    /\ RolledBack(w)
    /\ dropped' = dropped \cup {Doc(w)}
    /\ job' = [job EXCEPT ![w] = NoJob]
    /\ Goto(w, "idle")
    /\ UNCHANGED <<row, object, command, current>>

Crash(w) ==
    /\ pc[w] # "idle"
    /\ Fault("crash")
    /\ Restart(w)

(* The job timeout strikes although the job has not begun: current_job is  *)
(* that of an earlier job that left an exception, or None.                 *)
StallInConstruct(w) ==
    /\ pc[w] = "construct"
    /\ Fault("stall")
    /\ Goto(w, "timed_out")
    /\ UNCHANGED <<dbVars, job, current, dropped>>

(* A user deletes a document; the DELETE waits for the row lock. *)
Delete(d) ==
    /\ row[d].state # "DELETED"
    /\ lock[d] = NoWorker
    /\ row' = [row EXCEPT ![d] = [state |-> "DELETED", size |-> 0]]
    /\ UNCHANGED <<object, command, lock, tx, aborted, workerVars, dropped, faults>>

-----------------------------------------------------------------------------
RunJob(w) ==
    \/ Construct(w) \/ CheckCompliance(w) \/ GetDocument(w) \/ Retrieve(w)
    \/ PrepareTemplate(w) \/ BuildDocument(w) \/ StoreDocument(w) \/ Finalize(w)
    \/ StepFails(w) \/ CheckDocumentExists(w) \/ MarkFailed(w) \/ Leave(w)
    \/ ProcessTimeout(w)

WorkerStep(w) ==
    \/ \E d \in Documents : Pick(w, d)
    \/ RunJob(w)
    \/ Record(w) \/ RecordInFailedTransaction(w) \/ RetriesRunOut(w)

FaultStep(w) ==
    \/ BreakTransaction(w) \/ LoseConnection(w) \/ LoseDatabase(w)
    \/ LoseCommit(w) \/ Crash(w) \/ StallInConstruct(w)

Next ==
    \/ \E w \in Workers : WorkerStep(w) \/ Wait(w) \/ TimeOut(w) \/ FaultStep(w)
    \/ \E d \in Documents : Delete(d)

Spec == Init /\ [][Next]_vars

(* Worker processes are scheduled and started again when they end.  No     *)
(* timeout, deletion or fault is assumed.                                  *)
FairSpec == Spec /\ \A w \in Workers : WF_vars(WorkerStep(w))

-----------------------------------------------------------------------------
(* Properties, for any number of workers *)

(* Every variable has the type of the code's value; a row lock belongs to  *)
(* the transaction that wrote the row.                                     *)
TypeOK ==
    /\ row \in [Documents -> Row]
    /\ object \in [Documents -> Nat]
    /\ command \in [Documents -> Command]
    /\ lock \in [Documents -> Workers \cup {NoWorker}]
    /\ tx \in [Workers -> Write]
    /\ aborted \in [Workers -> BOOLEAN]
    /\ pc \in [Workers -> PC]
    /\ job \in [Workers -> Job]
    /\ current \in [Workers -> Documents \cup {NoDocument}]
    /\ dropped \subseteq Documents
    /\ faults \in 0..MaxFaults
    /\ \A w \in Workers : pc[w] # "idle" => Doc(w) \in Documents
    /\ \A w \in Workers : tx[w] # NoWrite =>
          tx[w].document \in Documents /\ lock[tx[w].document] = w

(* PROCESSING is written at the beginning of a job and read by users of    *)
(* the table, but no path through errors, timeouts, failed transactions    *)
(* and lost connections ever commits it: a document cannot be stuck in it. *)
ProcessingNeverCommitted ==
    \A d \in Documents : row[d].state # "PROCESSING"

(* The file is stored before the row says so, whatever happens in between, *)
(* with retries and overlapping jobs: a FINISHED document can be           *)
(* downloaded.                                                             *)
FinishedHasFile ==
    \A d \in Documents : row[d].state = "FINISHED" => object[d] > 0

(* The quota is checked against what is committed, so concurrent jobs can  *)
(* exceed it together: by less than one largest file for every worker but  *)
(* the first.                                                              *)
OvershootBounded ==
    UsedSize > 0 =>
        UsedSize < StorageLimit + (Cardinality(Workers) - 1) * MaxDocSize

(* A command that is done has told the user something: the document is     *)
(* FINISHED, FAILED or gone -- unless the connection was lost under the    *)
(* job, and the UPDATE of the document with it.                            *)
DoneMeansReported ==
    \A d \in Documents \ dropped :
        command[d].state = "done" => row[d].state \in {"FINISHED", "FAILED", "DELETED"}

(* A finished document whose command is done, and that no worker has in    *)
(* hand, left behind in current_job, or is about to commit the timeout of. *)
Settled(d) ==
    /\ row[d].state = "FINISHED" /\ command[d].state = "done"
    /\ \A w \in Workers : d \notin {Doc(w), current[w], tx[w].document}

(* Such a document is settled for good: it is not picked again, and keeps  *)
(* its row and its file until it is deleted.                               *)
FinishedStays ==
    [][\A d \in Documents :
          Settled(d) => /\ object'[d] = object[d]
                        /\ \/ row'[d].state = "DELETED"
                           \/ row'[d] = row[d] /\ Settled(d)']_vars

-----------------------------------------------------------------------------
(* Properties of a single worker process *)

(* The row describes the file that is stored, although files of earlier    *)
(* attempts, timed out or crashed, were stored under the same key.         *)
FileMatchesRow ==
    \A d \in Documents :
        row[d].state = "FINISHED" => object[d] = row[d].size

-----------------------------------------------------------------------------
(* Liveness *)

(* With fewer faults than attempts, every document whose job kept its      *)
(* connection is eventually FINISHED, FAILED or deleted, for good: crashes *)
(* and failed transactions leave it to a later attempt, and the locks of a *)
(* failed transaction, which nobody rolls back, end with the process.      *)
DocumentsSettle ==
    \A d \in Documents :
        <>[](row[d].state \in {"FINISHED", "FAILED", "DELETED"} \/ d \in dropped)

-----------------------------------------------------------------------------
(* What process_timeout writes into the log of a document ("Generating     *)
(* document exceeded the time limit"): the job that timed out is the job   *)
(* of that document.  The code does not keep it.                           *)
TimeoutBlamesItsDocument ==
    \A w \in Workers : pc[w] = "timed_out" => current[w] \in {NoDocument, Doc(w)}

=============================================================================
