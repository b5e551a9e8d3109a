----------------------------- MODULE DataSeeder ------------------------------
(***************************************************************************)
(* The data seeder: for a command it loads a recipe, executes the SQL      *)
(* scripts of the recipe in the default database and in extra databases,   *)
(* puts the objects of the recipe into S3, and commits one database after  *)
(* the other, the default one first.                                       *)
(*                                                                         *)
(* The connection of the default database is the one the command queue     *)
(* writes outcomes with and commits.  The connections of the extra         *)
(* databases live as long as the process: nobody but _execute ends their   *)
(* transactions.  A statement that runs when the job timeout strikes is    *)
(* executed or not.  Of the queue, as in DocumentJob, picks, charged       *)
(* attempts and outcomes are kept; there is one process.                   *)
(***************************************************************************)
EXTENDS Naturals, Sequences, FiniteSets

CONSTANTS
    Commands,     \* commands of the queue
    Default,      \* the default database
    Extra,        \* ids of the extra databases the configuration names
    Targets,      \* targets a script can name: databases and others
    RecipeOf,     \* the recipe a command names
    NoRun,        \* "no job"
    MaxAttempts,  \* max_attempts of a command
    FaultKinds,   \* faults the environment may inject
    MaxFaults     \* bound: number of faults of a behaviour

AllFaultKinds == {"crash", "connection", "sql", "storage", "timeout"}

Databases == {Default} \cup Extra

(* A recipe: whether it is found and read, the targets of its scripts in   *)
(* their order, and the number of its objects.  Default stands for a       *)
(* script without target.                                                  *)
SeedRecipe == [found : BOOLEAN, scripts : Seq(Targets), objects : Nat]

ASSUME SeederAssumption ==
    /\ Default \notin Extra
    /\ RecipeOf \in [Commands -> SeedRecipe]
    /\ NoRun \notin Commands \X Nat
    /\ MaxAttempts \in Nat \ {0}
    /\ FaultKinds \subseteq AllFaultKinds
    /\ MaxFaults \in Nat

VARIABLES
    command,    \* persistent_command
    committed,  \* the scripts that are committed in a database, of all runs
    open,       \* the scripts in the open transaction of its connection
    aborted,    \* databases whose transaction has failed
    lost,       \* databases whose connection is lost, which nobody noticed
    objects,    \* the objects in S3, of all runs
    pc,         \* where the worker is
    run,        \* the command and the number of its attempt
    next,       \* the script or object that is next
    used,       \* used_targets
    left,       \* databases that are still to be committed or rolled back
    rolledback, \* history: runs that were rolled back in all their databases
    unclean,    \* history: runs that timed out, or whose rollback raised
    faults      \* history: number of faults so far

dbVars      == <<committed, open, aborted, lost>>
jobVars     == <<pc, run, next, used, left>>
historyVars == <<rolledback, unclean>>
vars == <<command, dbVars, objects, jobVars, historyVars, faults>>

-----------------------------------------------------------------------------
Command == [state : {"new", "done", "error"}, attempts : Nat]

Run == Commands \X Nat

Recipe(r) == RecipeOf[r[1]]

(* A script or an object of a run: every load of a recipe draws fresh      *)
(* UUIDs, so those of two attempts are different.                          *)
Item == Run \X Nat

(* The objects of a run: the files below the directories that its recipe   *)
(* copies, under the names that the run gives them.                        *)
ObjectsOf(r) == {<<r, i>> : i \in 1..Recipe(r).objects}

(* A target that is not configured is the default database. *)
DatabaseOf(target) == IF target \in Extra THEN target ELSE Default

(* What a target adds to used_targets; mutant: it need not be configured. *)
NamedTarget(target) == {target}

UsedTarget(target) == {target} \cap Extra

(* The scripts of run r for database d. *)
ScriptsFor(r, d) ==
    {<<r, i>> : i \in {j \in DOMAIN Recipe(r).scripts :
                         DatabaseOf(Recipe(r).scripts[j]) = d}}

Running == {"prepare", "script", "store", "commit", "rollback"}

PC == {"idle", "succeeded", "error"} \cup Running

Init ==
    /\ command = [c \in Commands |-> [state |-> "new", attempts |-> 0]]
    /\ committed = [d \in Databases |-> {}]
    /\ open = [d \in Databases |-> {}]
    /\ aborted = {}
    /\ lost = {}
    /\ objects = {}
    /\ pc = "idle"
    /\ run = NoRun
    /\ next = 0
    /\ used = {}
    /\ left = {}
    /\ rolledback = {}
    /\ unclean = {}
    /\ faults = 0

Fault(k) ==
    /\ k \in FaultKinds
    /\ faults < MaxFaults
    /\ faults' = faults + 1

(* Database d begins a new transaction, with or without a new connection. *)
EndTransaction(d) ==
    /\ open' = [open EXCEPT ![d] = {}]
    /\ aborted' = aborted \ {d}

(* The first use of a lost connection raises; the next one reconnects. *)
Notice(d) ==
    /\ lost' = lost \ {d}
    /\ EndTransaction(d)

Begin(step, dbs) ==
    /\ pc' = step
    /\ next' = 1
    /\ left' = dbs

-----------------------------------------------------------------------------
(* The queue, as the seeder sees it *)

Pickable(c) ==
    command[c].state \in {"new", "error"} /\ command[c].attempts < MaxAttempts

Pick(c) ==
    /\ pc = "idle"
    /\ Default \notin aborted
    /\ Pickable(c)
    /\ command' = [command EXCEPT ![c].attempts = @ + 1]
    /\ run' = <<c, command[c].attempts + 1>>
    /\ lost' = lost \ {Default}
    /\ Begin("prepare", {})
    /\ used' = {}
    /\ UNCHANGED <<committed, open, aborted, objects, historyVars, faults>>

(* Nothing to pick: the queue waits for a notification. *)
Wait ==
    /\ pc = "idle"
    /\ Default \notin aborted
    /\ \A c \in Commands : ~Pickable(c)
    /\ UNCHANGED vars

EndRun ==
    /\ pc' = "idle"
    /\ run' = NoRun
    /\ next' = 0
    /\ used' = {}
    /\ left' = {}

(* The outcome is written, and committed with whatever is in the open      *)
(* transaction of the default database.  A lost connection is replaced by  *)
(* the retries of execute_query.                                           *)
Record ==
    /\ pc \in {"succeeded", "error"}
    /\ Default \notin aborted
    /\ command' = [command EXCEPT ![run[1]].state =
                     IF pc = "succeeded" THEN "done" ELSE "error"]
    /\ committed' = [committed EXCEPT ![Default] = @ \cup open[Default]]
    /\ Notice(Default)
    /\ EndRun
    /\ UNCHANGED <<objects, historyVars, faults>>

(* In a failed transaction the outcome cannot be written. *)
RecordInFailedTransaction ==
    /\ pc \in {"succeeded", "error"}
    /\ Default \in aborted
    /\ EndRun
    /\ UNCHANGED <<command, dbVars, objects, historyVars, faults>>

(* A new process has new connections. *)
Restart ==
    /\ open' = [d \in Databases |-> {}]
    /\ aborted' = {}
    /\ lost' = {}
    /\ EndRun
    /\ UNCHANGED <<command, committed, objects, historyVars>>

(* Mutant: the statement is tried for ever. *)
RetriesNeverRunOut ==
    /\ pc = "idle"
    /\ Default \in aborted
    /\ UNCHANGED vars

(* The retries of run() are used up in the failed transaction. *)
RetriesRunOut ==
    /\ pc = "idle"
    /\ Default \in aborted
    /\ Restart
    /\ UNCHANGED faults

-----------------------------------------------------------------------------
(* DataSeeder.seed *)

(* _prepare_recipe is outside of the handler of _execute: nothing has been *)
(* executed and nothing is rolled back.                                    *)
Prepare ==
    /\ pc = "prepare"
    /\ IF Recipe(run).found THEN Begin("script", {}) ELSE Begin("error", {})
    /\ UNCHANGED <<command, dbVars, objects, run, used, historyVars, faults>>

(* The handler rolls back the default database, then the used targets. *)
HandleException(targets) == Begin("rollback", {Default} \cup targets)

(* A script is executed in its database; in a failed transaction or on a   *)
(* lost connection it raises.                                              *)
RunScript ==
    /\ pc = "script"
    /\ next <= Len(Recipe(run).scripts)
    /\ LET target == Recipe(run).scripts[next]
           d == DatabaseOf(target)
       IN /\ used' = used \cup UsedTarget(target)
          /\ \/ /\ d \in lost
                /\ Notice(d)
                /\ HandleException(used')
             \/ /\ d \in aborted \ lost
                /\ HandleException(used')
                /\ UNCHANGED <<open, aborted, lost>>
             \/ /\ d \notin aborted \cup lost
                /\ open' = [open EXCEPT ![d] = @ \cup {<<run, next>>}]
                /\ next' = next + 1
                /\ UNCHANGED <<aborted, lost, pc, left>>
    /\ UNCHANGED <<command, committed, objects, run, historyVars, faults>>

ScriptsDone ==
    /\ pc = "script"
    /\ next > Len(Recipe(run).scripts)
    /\ Begin("store", {})
    /\ UNCHANGED <<command, dbVars, objects, run, used, historyVars, faults>>

StoreObject ==
    /\ pc = "store"
    /\ <<run, next>> \in ObjectsOf(run)
    /\ objects' = objects \cup {<<run, next>>}
    /\ next' = next + 1
    /\ UNCHANGED <<command, dbVars, pc, run, used, left, historyVars, faults>>

(* Mutant: only the default database is committed. *)
CommitDefaultOnly ==
    /\ pc = "store"
    /\ <<run, next>> \notin ObjectsOf(run)
    /\ Begin("commit", {Default})
    /\ UNCHANGED <<command, dbVars, objects, run, used, historyVars, faults>>

ObjectsDone ==
    /\ pc = "store"
    /\ <<run, next>> \notin ObjectsOf(run)
    /\ Begin("commit", {Default} \cup used)
    /\ UNCHANGED <<command, dbVars, objects, run, used, historyVars, faults>>

(* The default database comes first, the used targets in no order. *)
Turn == IF Default \in left THEN {Default} ELSE left

(* A commit that raises leaves the others undone: the else clause of       *)
(* _execute is outside of its handler.                                     *)
CommitNext(d) ==
    /\ pc = "commit"
    /\ d \in Turn
    /\ Notice(d)
    /\ IF d \in lost
       THEN Begin("error", {}) /\ UNCHANGED committed
       ELSE /\ committed' = [committed EXCEPT ![d] = @ \cup open[d]]
            /\ left' = left \ {d}
            /\ UNCHANGED <<pc, next>>
    /\ UNCHANGED <<command, objects, run, used, historyVars, faults>>

AllCommitted ==
    /\ pc = "commit"
    /\ left = {}
    /\ Begin("succeeded", {})
    /\ UNCHANGED <<command, dbVars, objects, run, used, historyVars, faults>>

(* Mutant: only the default database is rolled back. *)
RollbackDefaultOnly(d) ==
    /\ pc = "rollback"
    /\ d \in Turn
    /\ Notice(d)
    /\ left' = {}
    /\ UNCHANGED <<command, committed, objects, pc, run, next, used, historyVars, faults>>

(* A rollback on a lost connection raises and leaves the others undone. *)
RollbackNext(d) ==
    /\ pc = "rollback"
    /\ d \in Turn
    /\ Notice(d)
    /\ IF d \in lost
       THEN Begin("error", {}) /\ unclean' = unclean \cup {run}
       ELSE left' = left \ {d} /\ UNCHANGED <<pc, next, unclean>>
    /\ UNCHANGED <<command, committed, objects, run, used, rolledback, faults>>

AllRolledBack ==
    /\ pc = "rollback"
    /\ left = {}
    /\ Begin("error", {})
    /\ rolledback' = rolledback \cup {run}
    /\ UNCHANGED <<command, dbVars, objects, run, used, unclean, faults>>

-----------------------------------------------------------------------------
(* Faults *)

(* A script fails: the transaction of its database has failed. *)
ScriptFails ==
    /\ pc = "script"
    /\ next <= Len(Recipe(run).scripts)
    /\ Fault("sql")
    /\ LET target == Recipe(run).scripts[next]
           d == DatabaseOf(target)
       IN /\ d \notin lost
          /\ used' = used \cup UsedTarget(target)
          /\ aborted' = aborted \cup {d}
    /\ HandleException(used')
    /\ UNCHANGED <<command, committed, open, lost, objects, run, historyVars>>

(* The retries of store_object are used up, or the file cannot be read; a  *)
(* put that raises may have stored the object.                             *)
StoreFails ==
    /\ pc = "store"
    /\ <<run, next>> \in ObjectsOf(run)
    /\ Fault("storage")
    /\ objects' \in {objects, objects \cup {<<run, next>>}}
    /\ HandleException(used)
    /\ UNCHANGED <<command, dbVars, run, used, historyVars>>

(* The job timeout strikes.  FunctionTimedOut is not an Exception: the     *)
(* handler of _execute does not see it and process_timeout only logs.      *)
TimeOut ==
    /\ pc \in Running
    /\ Fault("timeout")
    /\ Begin("error", {})
    /\ unclean' = unclean \cup {run}
    /\ UNCHANGED <<command, dbVars, objects, run, used, rolledback>>

(* A connection is lost, and the transaction with it. *)
LoseConnection(d) ==
    /\ d \notin lost
    /\ Fault("connection")
    /\ EndTransaction(d)
    /\ lost' = lost \cup {d}
    /\ UNCHANGED <<command, committed, objects, jobVars, historyVars>>

(* The connection is lost between the UPDATE of the outcome and its        *)
(* commit.                                                                 *)
LoseOutcome ==
    /\ pc \in {"succeeded", "error"}
    /\ Fault("connection")
    /\ Notice(Default)
    /\ EndRun
    /\ UNCHANGED <<command, committed, objects, historyVars>>

Crash ==
    /\ Fault("crash")
    /\ Restart

-----------------------------------------------------------------------------
RunJob ==
    \/ Prepare \/ RunScript \/ ScriptsDone \/ StoreObject \/ ObjectsDone
    \/ \E d \in Databases : CommitNext(d) \/ RollbackNext(d)
    \/ AllCommitted \/ AllRolledBack

WorkerStep ==
    \/ \E c \in Commands : Pick(c)
    \/ RunJob \/ Record \/ RecordInFailedTransaction \/ RetriesRunOut

FaultStep ==
    \/ ScriptFails \/ StoreFails \/ TimeOut \/ LoseOutcome \/ Crash
    \/ \E d \in Databases : LoseConnection(d)

Next == WorkerStep \/ Wait \/ FaultStep

Spec == Init /\ [][Next]_vars

(* The process is scheduled, and started again when it ends. *)
FairSpec == Spec /\ WF_vars(WorkerStep)

-----------------------------------------------------------------------------
(* Properties *)

(* Every variable has the type of the code's value, and a job has a run.   *)
TypeOK ==
    /\ command \in [Commands -> Command]
    /\ committed \in [Databases -> SUBSET Item]
    /\ open \in [Databases -> SUBSET Item]
    /\ aborted \subseteq Databases
    /\ lost \subseteq Databases
    /\ objects \subseteq Item
    /\ pc \in PC
    /\ run \in Run \cup {NoRun}
    /\ next \in Nat
    /\ used \subseteq Extra
    /\ left \subseteq Databases
    /\ rolledback \subseteq Run
    /\ unclean \subseteq Run
    /\ faults \in 0..MaxFaults
    /\ pc # "idle" => run \in Run

(* A command that is done has been seeded as a whole by one of its         *)
(* attempts: every script is committed in its database, and every object   *)
(* is stored, under the UUIDs of that attempt -- although the databases    *)
(* are committed one after the other and any of them may be lost.          *)
Seeded(r) ==
    /\ \A d \in Databases : ScriptsFor(r, d) \subseteq committed[d]
    /\ ObjectsOf(r) \subseteq objects

DoneMeansSeeded ==
    \A c \in Commands : command[c].state = "done" =>
        \E n \in 1..command[c].attempts : Seeded(<<c, n>>)

(* What a run executed in a database is committed as a whole or not at     *)
(* all, unless the run timed out or its rollback was cut short; a          *)
(* transaction that a failed commit left open ends as a whole, with        *)
(* whatever run commits it.  What a rolled back run executed is gone for   *)
(* good, in every database, open transactions included.                    *)
Whole(r, d) ==
    LET mine == committed[d] \cap ({r} \X Nat)
    IN mine = {} \/ mine = ScriptsFor(r, d)

SeedsAreWhole ==
    \A d \in Databases :
        /\ \A c \in Commands : \A n \in 1..command[c].attempts :
              <<c, n>> \in unclean \/ Whole(<<c, n>>, d)
        /\ \A e \in committed[d] \cup open[d] : e[1] \notin rolledback

(* With fewer faults than attempts, every command whose recipe can be read *)
(* is done in the end: transactions, failed or left open, that a run       *)
(* leaves behind in some connection do not stand in the way of all retries. *)
SeedsSettle ==
    \A c \in Commands : RecipeOf[c].found => <>[](command[c].state = "done")

=============================================================================
