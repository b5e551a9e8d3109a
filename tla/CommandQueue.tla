---------------------------- MODULE CommandQueue ----------------------------
(***************************************************************************)
(* The persistent command queue of dsw-command-queue: worker processes     *)
(* that share the table persistent_command, pick one row at a time with    *)
(* SELECT ... FOR UPDATE SKIP LOCKED, commit the new attempt number, do    *)
(* the work WITHOUT the row lock, and write the outcome back.              *)
(*                                                                         *)
(* Time is counted in minutes, the unit of the back-off in the query.      *)
(***************************************************************************)
EXTENDS Naturals, FiniteSets

CONSTANTS
    Workers,      \* processes that run a CommandQueue on the same component
    Commands,     \* identities of the rows of persistent_command
    NoWorker,     \* "nobody holds the row lock"
    NoCommand,    \* "no command in hand"
    MaxAttempts,  \* max_attempts the server gives to every command
    QueueTries,   \* RETRY_QUEUE_TRIES: how often tenacity runs run()/run_once()
    Timed,        \* TRUE when the component is configured with a work_timeout
    OneShot,      \* the processes that are lambda invocations (run_once, not run)
    FaultKinds,   \* faults the environment may inject
    MaxFaults,    \* bound: number of faults of a behaviour
    Horizon       \* bound: last minute of the clock

AllFaultKinds == {"crash", "connection", "sql", "late"}

ASSUME QueueAssumption ==
    /\ NoWorker \notin Workers
    /\ NoCommand \notin Commands
    /\ IsFiniteSet(Workers)
    /\ MaxAttempts \in Nat \ {0}
    /\ QueueTries \in Nat \ {0}
    /\ Timed \in BOOLEAN
    /\ OneShot \subseteq Workers
    /\ FaultKinds \subseteq AllFaultKinds
    /\ MaxFaults \in Nat
    /\ Horizon \in Nat

(* What a power of two is, for the back-off 2^attempts - 1 and the number  *)
(* of runs; arithmetic, on which the proofs rely.                          *)
ASSUME PowerAssumption ==
    \A a \in 0..MaxAttempts :
        2 ^ a \in Nat \ {0} /\ (a > 0 => 2 ^ a = 2 * 2 ^ (a - 1))

VARIABLES
    now,          \* the clock, in minutes
    table,        \* persistent_command: one row per command
    newer,        \* pairs <<c, d>> with updated_at of c later than that of d
    lock,         \* row locks held by open transactions
    pc,           \* where a worker process is
    job,          \* the PersistentCommand a worker has read, with its attempt
    aborted,      \* conn_query is in a failed transaction
    tries,        \* attempts of the tenacity wrapper around run / run_once
    interrupted,  \* CommandQueue._interrupted
    inbox,        \* a NOTIFY waits on the LISTENing connection
    started,      \* history: how often worker.work was entered
    finished,     \* history: how often worker.work completed its effects
    faults        \* history: number of faults so far

processVars == <<pc, job, aborted, tries, interrupted, inbox>>
tableVars   == <<table, newer, lock>>
historyVars == <<started, finished>>
vars == <<now, tableVars, processVars, historyVars, faults>>

-----------------------------------------------------------------------------
(* CommandState; "absent" is a row that is not inserted yet. *)
CommandState == {"absent", "new", "done", "error", "ignore"}

Row == [state: CommandState, attempts: Nat, max: Nat, created: Nat]

(* What a worker keeps of a command between reading and recording it.      *)
Job == [command: Commands \cup {NoCommand}, attempt: Nat, limit: Nat]

NoJob == [command |-> NoCommand, attempt |-> 0, limit |-> 0]

(* worker.work has returned, raised or been stopped; its outcome is not    *)
(* written yet.                                                            *)
OutcomePC == {"succeeded", "timed_out", "failed", "retry", "stop"}

PC == {"down", "listen", "fetch", "start", "work", "select"} \cup OutcomePC

(* Where run() and run_once() begin. *)
Entry(w) == IF w \in OneShot THEN "fetch" ELSE "listen"

Init ==
    /\ now = 0
    /\ table = [c \in Commands |->
                  [state |-> "absent", attempts |-> 0, max |-> 0, created |-> 0]]
    /\ newer = {}
    /\ lock = [c \in Commands |-> NoWorker]
    /\ pc = [w \in Workers |-> "down"]
    /\ job = [w \in Workers |-> NoJob]
    /\ aborted = [w \in Workers |-> FALSE]
    /\ tries = [w \in Workers |-> 1]
    /\ interrupted = [w \in Workers |-> FALSE]
    /\ inbox = [w \in Workers |-> FALSE]
    /\ started = [c \in Commands |-> 0]
    /\ finished = [c \in Commands |-> 0]
    /\ faults = 0

-----------------------------------------------------------------------------
(* Helpers *)

(* updated_at = now for row c: c becomes the latest updated row. *)
Touched(c) ==
    {p \in newer : p[1] # c /\ p[2] # c} \cup ({c} \X (Commands \ {c}))

BackedOff(c) == table[c].created + (2 ^ table[c].attempts - 1) < now

(* The WHERE clause of query_get_command, preceded by its mutants: any     *)
(* state, attempts <= max_attempts, no back-off.                           *)
EligibleInAnyState(c) == table[c].attempts < table[c].max /\ BackedOff(c)

EligibleBeyondBudget(c) ==
    /\ table[c].state \in {"new", "error"}
    /\ table[c].attempts <= table[c].max
    /\ BackedOff(c)

EligibleAtOnce(c) ==
    /\ table[c].state \in {"new", "error"}
    /\ table[c].attempts < table[c].max

Eligible(c) ==
    /\ table[c].state \in {"new", "error"}
    /\ table[c].attempts < table[c].max
    /\ BackedOff(c)

(* SKIP LOCKED: rows locked by another transaction are not seen.  Mutant:  *)
(* a plain SELECT.                                                         *)
VisibleThoughLocked(c) == Eligible(c)

Visible(c) == Eligible(c) /\ lock[c] = NoWorker

(* ORDER BY attempts ASC, updated_at DESC *)
SortsBefore(c, d) ==
    \/ table[c].attempts < table[d].attempts
    \/ table[c].attempts = table[d].attempts /\ <<c, d>> \in newer

(* Row locks of w are gone: its transaction ended. *)
Unlocked(w) == [c \in Commands |-> IF lock[c] = w THEN NoWorker ELSE lock[c]]

(* One fault of kind k, within the bound. *)
Fault(k) ==
    /\ k \in FaultKinds
    /\ faults < MaxFaults
    /\ faults' = faults + 1

(* Worker w has read command c and has not written its outcome yet. *)
Holds(w, c) == job[w].command = c

HandsFullPC == {"start", "work"} \cup OutcomePC

(* attempt_number of _process. *)
AttemptNumber(c) == table[c].attempts + 1

(* stop_after_attempt of the retry around run().                           *)
TriesLeft(w) == tries[w] < QueueTries

(* An exception leaves run(): tenacity calls it again, or, after           *)
(* QueueTries calls, lets it end the process (and with it the connection). *)
(* A connection that was lost is opened anew by the next use.              *)
Escape(w, lost) ==
    LET again == TriesLeft(w) IN
    /\ pc' = [pc EXCEPT ![w] = IF again THEN Entry(w) ELSE "down"]
    /\ tries' = [tries EXCEPT ![w] = IF again THEN @ + 1 ELSE 1]
    /\ aborted' = [aborted EXCEPT ![w] = @ /\ again /\ ~lost]
    /\ inbox' = [inbox EXCEPT ![w] = @ /\ again /\ pc[w] # "select"]
    /\ interrupted' = [interrupted EXCEPT ![w] = @ /\ again]
    /\ job' = [job EXCEPT ![w] = NoJob]
    /\ lock' = Unlocked(w)
    /\ UNCHANGED <<now, table, newer, historyVars>>

-----------------------------------------------------------------------------
(* The environment: the server that inserts commands, time. *)

(* The server inserts a command and notifies the channel.  The deadline    *)
(* (a bound) leaves time for every back-off of the command.                *)
Enqueue(c) ==
    /\ table[c].state = "absent"
    /\ now + 2 ^ (MaxAttempts - 1) <= Horizon
    /\ table' = [table EXCEPT ![c] = [state |-> "new", attempts |-> 0,
                                      max |-> MaxAttempts, created |-> now]]
    /\ newer' = Touched(c)
    /\ inbox' = [w \in Workers |->
                   inbox[w] \/ (w \notin OneShot /\ pc[w] \notin {"down", "listen"})]
    /\ UNCHANGED <<now, lock, pc, job, aborted, tries, interrupted,
                   historyVars, faults>>

(* An operator takes a command out of the queue; the UPDATE waits for the  *)
(* row lock.                                                               *)
Ignore(c) ==
    /\ table[c].state \in {"new", "error"}
    /\ lock[c] = NoWorker
    /\ table' = [table EXCEPT ![c].state = "ignore"]
    /\ newer' = Touched(c)
    /\ UNCHANGED <<now, lock, processVars, historyVars, faults>>

Tick ==
    /\ now < Horizon
    /\ now' = now + 1
    /\ UNCHANGED <<tableVars, processVars, historyVars, faults>>

-----------------------------------------------------------------------------
(* One worker process *)

(* The process (or the lambda invocation) begins with fresh connections. *)
Launch(w) ==
    /\ pc[w] = "down"
    /\ pc' = [pc EXCEPT ![w] = Entry(w)]
    /\ UNCHANGED <<now, tableVars, job, aborted, tries, interrupted, inbox,
                   historyVars, faults>>

(* LISTEN: from here on a NOTIFY reaches the process. *)
Listen(w) ==
    /\ pc[w] = "listen"
    /\ pc' = [pc EXCEPT ![w] = "fetch"]
    /\ UNCHANGED <<now, tableVars, job, aborted, tries, interrupted, inbox,
                   historyVars, faults>>

(* The SELECT returns the first visible row and locks it. *)
Fetch(w, c) ==
    /\ pc[w] = "fetch"
    /\ ~aborted[w]
    /\ Visible(c)
    /\ \A d \in Commands : Visible(d) => ~SortsBefore(d, c)
    /\ lock' = [lock EXCEPT ![c] = w]
    /\ job' = [job EXCEPT ![w] = [command |-> c,
                                  attempt |-> AttemptNumber(c),
                                  limit |-> table[c].max]]
    /\ pc' = [pc EXCEPT ![w] = "start"]
    /\ UNCHANGED <<now, table, newer, aborted, tries, interrupted, inbox,
                   historyVars, faults>>

(* The SELECT returns no row: run() goes to select, run_once() returns.    *)
FetchNothing(w) ==
    /\ pc[w] = "fetch"
    /\ ~aborted[w]
    /\ \A c \in Commands : ~Visible(c)
    /\ pc' = [pc EXCEPT ![w] = IF w \in OneShot THEN "down" ELSE "select"]
    /\ tries' = IF w \in OneShot THEN [tries EXCEPT ![w] = 1] ELSE tries
    /\ interrupted' = IF w \in OneShot THEN [interrupted EXCEPT ![w] = FALSE]
                                      ELSE interrupted
    /\ UNCHANGED <<now, tableVars, job, aborted, inbox, historyVars, faults>>

(* Mutant: the failed SELECT is taken for an empty queue. *)
FetchSwallowsFailure(w) ==
    /\ pc[w] = "fetch"
    /\ aborted[w]
    /\ pc' = [pc EXCEPT ![w] = "select"]
    /\ UNCHANGED <<now, tableVars, job, aborted, tries, interrupted, inbox,
                   historyVars, faults>>

(* Nobody rolls back: in a failed transaction the SELECT raises too. *)
FetchInFailedTransaction(w) ==
    /\ pc[w] = "fetch"
    /\ aborted[w]
    /\ Escape(w, FALSE)
    /\ UNCHANGED faults

(* query_command_start and commit: the attempt is charged, the row lock is *)
(* released, and worker.work begins.                                       *)
Start(w) ==
    LET c == job[w].command IN
    /\ pc[w] = "start"
    /\ lock[c] \in {w, NoWorker}
    /\ table' = [table EXCEPT ![c].attempts = job[w].attempt]
    /\ newer' = Touched(c)
    /\ lock' = Unlocked(w)
    /\ started' = [started EXCEPT ![c] = @ + 1]
    /\ pc' = [pc EXCEPT ![w] = "work"]
    /\ UNCHANGED <<now, job, aborted, tries, interrupted, inbox, finished,
                   faults>>

(* worker.work returns. *)
WorkSucceeds(w) ==
    /\ pc[w] = "work"
    /\ finished' = [finished EXCEPT ![job[w].command] = @ + 1]
    /\ pc' = [pc EXCEPT ![w] = "succeeded"]
    /\ UNCHANGED <<now, tableVars, job, aborted, tries, interrupted, inbox,
                   started, faults>>

(* worker.work raises: an ordinary exception, or a CommandJobError that    *)
(* asks (e.try_again) for another attempt or not.                          *)
WorkRaises(w) ==
    /\ pc[w] = "work"
    /\ \E outcome \in {"failed", "retry", "stop"} :
          pc' = [pc EXCEPT ![w] = outcome]
    /\ UNCHANGED <<now, tableVars, job, aborted, tries, interrupted, inbox,
                   historyVars, faults>>

(* func_timeout gives up waiting and stops the thread. *)
WorkTimesOut(w) ==
    /\ Timed
    /\ pc[w] = "work"
    /\ pc' = [pc EXCEPT ![w] = "timed_out"]
    /\ UNCHANGED <<now, tableVars, job, aborted, tries, interrupted, inbox,
                   historyVars, faults>>

(* Fault: the timeout fires although the thread completes its effects. *)
WorkFinishesLate(w) ==
    /\ Timed
    /\ pc[w] = "work"
    /\ Fault("late")
    /\ finished' = [finished EXCEPT ![job[w].command] = @ + 1]
    /\ pc' = [pc EXCEPT ![w] = "timed_out"]
    /\ UNCHANGED <<now, tableVars, job, aborted, tries, interrupted, inbox,
                   started>>

(* Fault: a statement of worker.work fails on the shared connection.  The  *)
(* worker may propagate the error or swallow it and return.                *)
WorkBreaksTransaction(w) ==
    /\ pc[w] = "work"
    /\ Fault("sql")
    /\ aborted' = [aborted EXCEPT ![w] = TRUE]
    /\ \/ /\ pc' = [pc EXCEPT ![w] = "failed"]
          /\ UNCHANGED finished
       \/ /\ pc' = [pc EXCEPT ![w] = "succeeded"]
          /\ finished' = [finished EXCEPT ![job[w].command] = @ + 1]
    /\ UNCHANGED <<now, tableVars, job, tries, interrupted, inbox, started>>

(* A job error that leaves no further attempt: query_command_error_stop. *)
GivesUp(w) ==
    \/ pc[w] = "stop"
    \/ pc[w] = "retry" /\ job[w].attempt >= job[w].limit

(* The row after the handler of _process for the outcome of w: every       *)
(* statement writes the attempt number read before the work.               *)
RecordedRow(w) ==
    [table[job[w].command] EXCEPT
        !.attempts = job[w].attempt,
        !.state = IF pc[w] = "succeeded" THEN "done" ELSE "error",
        !.max = IF GivesUp(w) THEN job[w].attempt ELSE @]

(* The UPDATE of the outcome waits for the row lock; then commit. *)
Record(w) ==
    LET c == job[w].command IN
    /\ pc[w] \in OutcomePC
    /\ ~aborted[w]
    /\ lock[c] \in {w, NoWorker}
    /\ table' = [table EXCEPT ![c] = RecordedRow(w)]
    /\ newer' = Touched(c)
    /\ lock' = Unlocked(w)
    /\ job' = [job EXCEPT ![w] = NoJob]
    /\ pc' = [pc EXCEPT ![w] = "fetch"]
    /\ UNCHANGED <<now, aborted, tries, interrupted, inbox, historyVars,
                   faults>>

(* In a failed transaction the UPDATE of the outcome raises, and so does   *)
(* the one of the exception handler: the outcome is lost.                  *)
RecordInFailedTransaction(w) ==
    /\ pc[w] \in OutcomePC
    /\ aborted[w]
    /\ Escape(w, FALSE)
    /\ UNCHANGED faults

(* select returns: a notification, or wait_timeout seconds have passed.    *)
(* The interrupt flag is looked at here and nowhere else.  Mutant: never.  *)
WakeUninterrupted(w) ==
    /\ pc[w] = "select"
    /\ pc' = [pc EXCEPT ![w] = "fetch"]
    /\ inbox' = [inbox EXCEPT ![w] = FALSE]
    /\ UNCHANGED <<now, tableVars, job, aborted, tries, interrupted,
                   historyVars, faults>>

Wake(w) ==
    /\ pc[w] = "select"
    /\ pc' = [pc EXCEPT ![w] = IF interrupted[w] THEN "down" ELSE "fetch"]
    /\ inbox' = [inbox EXCEPT ![w] = FALSE]
    /\ interrupted' = [interrupted EXCEPT ![w] = FALSE]
    /\ tries' = IF interrupted[w] THEN [tries EXCEPT ![w] = 1] ELSE tries
    /\ UNCHANGED <<now, tableVars, job, aborted, historyVars, faults>>

WakeOnNotification(w) == inbox[w] /\ Wake(w)

(* Mutant: select without wait_timeout. *)
NeverTimesOut(w) == FALSE

WakeOnTimeout(w) == ~inbox[w] /\ Wake(w)

(* SIGINT or SIGABRT: only the flag is set. *)
Interrupt(w) ==
    /\ pc[w] # "down"
    /\ ~interrupted[w]
    /\ interrupted' = [interrupted EXCEPT ![w] = TRUE]
    /\ UNCHANGED <<now, tableVars, pc, job, aborted, tries, inbox,
                   historyVars, faults>>

-----------------------------------------------------------------------------
(* Faults *)

(* The process is killed: its transactions are rolled back. *)
Crash(w) ==
    /\ pc[w] # "down"
    /\ Fault("crash")
    /\ pc' = [pc EXCEPT ![w] = "down"]
    /\ job' = [job EXCEPT ![w] = NoJob]
    /\ aborted' = [aborted EXCEPT ![w] = FALSE]
    /\ tries' = [tries EXCEPT ![w] = 1]
    /\ interrupted' = [interrupted EXCEPT ![w] = FALSE]
    /\ inbox' = [inbox EXCEPT ![w] = FALSE]
    /\ lock' = Unlocked(w)
    /\ UNCHANGED <<now, table, newer, historyVars>>

(* conn_query is lost while a command is in hand.  execute_query is tried  *)
(* again on a new connection, in a new transaction that has no row lock.   *)
LoseConnection(w) ==
    /\ pc[w] \in HandsFullPC
    /\ Fault("connection")
    /\ aborted' = [aborted EXCEPT ![w] = FALSE]
    /\ lock' = Unlocked(w)
    /\ UNCHANGED <<now, table, newer, pc, job, tries, interrupted, inbox,
                   historyVars>>

(* conn_query is lost at the commit of the start: an exception inside the  *)
(* try block of _process, handled as a failure of the attempt.             *)
LoseStartCommit(w) ==
    /\ pc[w] = "start"
    /\ Fault("connection")
    /\ pc' = [pc EXCEPT ![w] = "failed"]
    /\ lock' = Unlocked(w)
    /\ UNCHANGED <<now, table, newer, job, aborted, tries, interrupted, inbox,
                   historyVars>>

(* A connection is lost where nothing catches the error: at the SELECT, at *)
(* the commit of the outcome, or (conn_queue) while waiting in select.     *)
LoseConnectionOutsideTry(w) ==
    /\ \/ pc[w] \in {"fetch", "select"}
       \/ pc[w] \in OutcomePC /\ ~aborted[w]
    /\ Fault("connection")
    /\ Escape(w, TRUE)

-----------------------------------------------------------------------------
(* What the process does by itself, and what happens to it. *)
WorkStep(w) ==
    \/ WorkSucceeds(w) \/ WorkRaises(w) \/ WorkTimesOut(w)

WorkerStep(w) ==
    \/ Launch(w) \/ Listen(w)
    \/ \E c \in Commands : Fetch(w, c)
    \/ FetchNothing(w) \/ FetchInFailedTransaction(w)
    \/ Start(w) \/ WorkStep(w)
    \/ Record(w) \/ RecordInFailedTransaction(w)
    \/ WakeOnNotification(w) \/ WakeOnTimeout(w)

FaultStep(w) ==
    \/ WorkFinishesLate(w) \/ WorkBreaksTransaction(w)
    \/ Crash(w) \/ LoseConnection(w)
    \/ LoseStartCommit(w) \/ LoseConnectionOutsideTry(w)

Next ==
    \/ Tick
    \/ \E c \in Commands : Enqueue(c) \/ Ignore(c)
    \/ \E w \in Workers : WorkerStep(w) \/ Interrupt(w) \/ FaultStep(w)

Spec == Init /\ [][Next]_vars

(* Every process is scheduled, its supervisor launches it again when it    *)
(* ends, worker.work returns or is stopped, and time passes.  Nothing is   *)
(* assumed of the server, of signals or of faults.                         *)
FairSpec == Spec /\ WF_vars(Tick) /\ \A w \in Workers : WF_vars(WorkerStep(w))

-----------------------------------------------------------------------------
(* Invariants that hold whatever the number of workers *)

(* Every variable has the type of the code's value. *)
TypeOK ==
    /\ now \in Nat
    /\ table \in [Commands -> Row]
    /\ newer \subseteq Commands \X Commands
    /\ lock \in [Commands -> Workers \cup {NoWorker}]
    /\ pc \in [Workers -> PC]
    /\ job \in [Workers -> Job]
    /\ aborted \in [Workers -> BOOLEAN]
    /\ tries \in [Workers -> 1..QueueTries]
    /\ interrupted \in [Workers -> BOOLEAN]
    /\ inbox \in [Workers -> BOOLEAN]
    /\ started \in [Commands -> Nat]
    /\ finished \in [Commands -> Nat]
    /\ faults \in 0..MaxFaults

(* A worker has a command in hand exactly from the SELECT to the outcome. *)
HandsOK ==
    \A w \in Workers :
        IF pc[w] \in HandsFullPC THEN job[w].command \in Commands
                                 ELSE job[w] = NoJob

(* A worker that has begun the work and not recorded its outcome. *)
InFlight(w, c) == Holds(w, c) /\ pc[w] \in {"work"} \cup OutcomePC

(* Handlers write attempt numbers that may be stale, and a job error may   *)
(* lower max_attempts under a run of another worker: still no row, and no  *)
(* run, ever goes beyond the max_attempts the server asked for.            *)
AttemptsWithinBudget ==
    /\ \A c \in Commands :
          table[c].attempts <= MaxAttempts /\ table[c].max <= MaxAttempts
    /\ \A w \in Workers : job[w].attempt <= MaxAttempts

(* A row says Done only if some run of its work completed its effects,     *)
(* whatever was lost, timed out or overlapped.                             *)
DoneMeansFinished ==
    \A c \in Commands : table[c].state = "done" => finished[c] > 0

(* The row lock is released before the work begins, so a second worker may *)
(* pick the command while the first one works on it.  As long as no        *)
(* connection is lost this needs a back-off that has elapsed: two workers  *)
(* never share a command in the first minute of its life.                  *)
OverlapOnlyAfterBackoff ==
    \A v, w \in Workers : \A c \in Commands :
        v # w /\ Holds(v, c) /\ Holds(w, c) => table[c].created + 1 < now

(* Overlapping runs write stale attempt numbers back and so buy further    *)
(* attempts: MaxAttempts bounds the attempt number, not the number of      *)
(* runs.  A run with attempt k writes k twice (start and outcome), each    *)
(* write allows one run with attempt k + 1: at most 2^MaxAttempts - 1 runs *)
(* in all, as long as no connection is lost.                               *)
RunsWithinDoubling ==
    \A c \in Commands : started[c] <= 2 ^ MaxAttempts - 1

(* The row lock taken by the SELECT makes the read of attempts and its     *)
(* write one step: as long as no connection is lost, nobody changes the    *)
(* row between the two.                                                    *)
StartSeesFreshRow ==
    \A w \in Workers : pc[w] = "start" =>
        /\ lock[job[w].command] = w
        /\ table[job[w].command].attempts + 1 = job[w].attempt
        /\ Eligible(job[w].command)

(* A Done row is never picked again; only a run that had the command in    *)
(* hand already, overlapping the one that finished, can write another      *)
(* outcome over it.                                                        *)
DoneReopenedOnlyByOverlap ==
    [][\A c \in Commands :
          table[c].state = "done" =>
            /\ \A w \in Workers : Holds(w, c)' => Holds(w, c)
            /\ table'[c].state # "done"
                 => \E w \in Workers : InFlight(w, c) /\ ~Holds(w, c)']_vars

(* Ignoring a command that nobody has in hand takes it out of the queue    *)
(* for good.                                                               *)
IgnoredStaysIgnored ==
    [][\A c \in Commands :
          table[c].state = "ignore" /\ (\A w \in Workers : ~Holds(w, c))
            => /\ table'[c] = table[c]
               /\ \A w \in Workers : ~Holds(w, c)']_vars

-----------------------------------------------------------------------------
(* Invariants of a component that is served by one worker process *)

(* An attempt is charged and committed before its work begins, so that a   *)
(* command that kills its worker cannot be run for ever: no run is         *)
(* uncharged, none goes beyond the charge.                                 *)
RunsAreCharged ==
    \A c \in Commands :
        finished[c] <= started[c] /\ started[c] <= table[c].attempts

(* At-least-once, and why: the effects of a command are repeated only if a *)
(* crash, a lost connection, a failed statement or a timeout that came too *)
(* late kept the outcome of a completed run out of the table.              *)
RepeatsNeedFaults ==
    \A c \in Commands : finished[c] <= 1 + faults

(* A command that is Done is never touched again. *)
DoneIsFinal ==
    [][\A c \in Commands :
          table[c].state = "done" => table'[c] = table[c]]_vars

(* The row has been picked, and its attempt is not charged yet. *)
Picked(c) ==
    \E w \in Workers : Holds(w, c) /\ table[c].attempts # job[w].attempt

lifecycleStatus ==
    [c \in Commands |->
        CASE table[c].state = "absent" -> "absent"
          [] Picked(c) -> "queued"
          [] ~Picked(c) /\ (\E w \in Workers : Holds(w, c)) -> "trying"
          [] OTHER ->
               IF table[c].state = "done" THEN "done"
               ELSE IF table[c].attempts >= table[c].max THEN "exhausted"
               ELSE IF table[c].state = "ignore" THEN "ignored"
               ELSE "queued"]

lifecycleTried == [c \in Commands |-> table[c].attempts]

Lifecycle == INSTANCE CommandLifecycle
                WITH status <- lifecycleStatus, tried <- lifecycleTried

(* The queue with one worker implements the life cycle of commands. *)
ImplementsLifecycle == Lifecycle!Spec

-----------------------------------------------------------------------------
(* Liveness under FairSpec *)

Settled(c) ==
    /\ \A w \in Workers : ~Holds(w, c)
    /\ \/ table[c].state \in {"done", "ignore"}
       \/ table[c].attempts >= table[c].max

(* Every command that was inserted is eventually done, ignored or out of   *)
(* attempts for good, although notifications are sent once, back-offs      *)
(* elapse silently, processes die and connections fail.                    *)
CommandsSettle ==
    \A c \in Commands : table[c].state # "absent" ~> []Settled(c)

(* Nobody rolls a failed transaction back, yet no process is stuck in one: *)
(* the retries run out, the process ends and its connection with it.       *)
FailedTransactionEnds ==
    \A w \in Workers : aborted[w] ~> ~aborted[w]

(* A process that is told to stop drains the queue and stops. *)
InterruptedProcessEnds ==
    \A w \in Workers : interrupted[w] ~> pc[w] = "down"

=============================================================================
