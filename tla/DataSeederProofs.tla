--------------------------- MODULE DataSeederProofs --------------------------
(* Theorems about DataSeeder, for all recipes, every set of extra          *)
(* databases, every MaxAttempts and every number of faults of any kind.    *)
EXTENDS DataSeeder, TLAPS

(* What run r has among the items of a database or a transaction. *)
Mine(r, items) == items \cap ({r} \X Nat)

(* The scripts of run r for database d that come before script n. *)
ScriptsBefore(r, d, n) == {e \in ScriptsFor(r, d) : e[2] < n}

-----------------------------------------------------------------------------
(* The inductive invariant *)

(* A job is the latest attempt of its command, and counts from one. *)
RunIsLatest ==
    pc # "idle" => run[2] = command[run[1]].attempts /\ run[2] # 0 /\ next # 0

(* Whatever is in a database, and every run that was rolled back, is of an *)
(* attempt that has been charged.                                          *)
Charged(r) == r[2] \in 1..command[r[1]].attempts

RunsAreCharged ==
    /\ \A d \in Databases : \A e \in committed[d] \cup open[d] : Charged(e[1])
    /\ \A r \in rolledback : Charged(r)

LostIsEmpty == \A d \in lost : open[d] = {}

RolledBackIsGone ==
    /\ \A d \in Databases : \A e \in committed[d] \cup open[d] : e[1] \notin rolledback
    /\ pc \in Running => run \notin rolledback

(* The transaction of database d holds these items of the job, unless it   *)
(* is lost.                                                                *)
Opened(d, items) == d \in lost \/ Mine(run, open[d]) = items

Nothing(d) == Mine(run, committed[d]) = {}

(* What the job has done where it is. *)
Prepared ==
    \A d \in Databases : Nothing(d) /\ Mine(run, open[d]) = {}

ScriptsRun ==
    \A d \in Databases :
        /\ Nothing(d)
        /\ Opened(d, ScriptsBefore(run, d, next))
        /\ d \notin {Default} \cup used => ScriptsBefore(run, d, next) = {}

ObjectsStored ==
    /\ \A d \in Databases :
        /\ Nothing(d)
        /\ Opened(d, ScriptsFor(run, d))
        /\ d \notin {Default} \cup used => ScriptsFor(run, d) = {}
    /\ {e \in ObjectsOf(run) : e[2] < next} \subseteq objects

CommittedSoFar ==
    /\ \A d \in left : Nothing(d) /\ Opened(d, ScriptsFor(run, d))
    /\ \A d \in Databases \ left : Mine(run, committed[d]) = ScriptsFor(run, d)
    /\ ObjectsOf(run) \subseteq objects

RolledBackSoFar ==
    /\ \A d \in Databases : Nothing(d)
    /\ \A d \in Databases \ left : Mine(run, open[d]) = {}

Stage ==
    /\ pc = "prepare" => Prepared
    /\ pc = "script" => ScriptsRun
    /\ pc = "store" => ObjectsStored
    /\ pc = "commit" => CommittedSoFar
    /\ pc = "rollback" => RolledBackSoFar
    /\ pc = "succeeded" => Seeded(run)

(* A run that neither timed out nor failed to roll back has executed all   *)
(* or nothing of each database, but for the job that is doing it.          *)
Halfway(r) == r = run /\ pc \in {"script", "rollback"}

OpenWhole(r, d) == Mine(r, open[d]) \in {{}, ScriptsFor(r, d)}

RunsAreWhole ==
    \A r \in Run \ unclean : \A d \in Databases :
        Whole(r, d) /\ (Halfway(r) \/ OpenWhole(r, d))

IInv ==
    /\ TypeOK
    /\ RunIsLatest
    /\ RunsAreCharged
    /\ LostIsEmpty
    /\ RolledBackIsGone
    /\ Stage
    /\ RunsAreWhole
    /\ DoneMeansSeeded

-----------------------------------------------------------------------------
(* Facts about items, and about the scripts of a run *)

LEMMA MineUnion ==
    ASSUME NEW r, NEW A, NEW B
    PROVE  Mine(r, A \cup B) = Mine(r, A) \cup Mine(r, B)
BY DEF Mine

LEMMA MineEmpty == \A r : Mine(r, {}) = {}
BY DEF Mine

LEMMA RunType ==
    ASSUME NEW r \in Run
    PROVE  /\ r[1] \in Commands /\ r[2] \in Nat
           /\ r = <<r[1], r[2]>>
           /\ Recipe(r) \in SeedRecipe
           /\ Recipe(r).scripts \in Seq(Targets)
           /\ Recipe(r).found \in BOOLEAN
           /\ Recipe(r).objects \in Nat
           /\ Len(Recipe(r).scripts) \in Nat
           /\ DOMAIN Recipe(r).scripts = 1..Len(Recipe(r).scripts)
<1>1. /\ r[1] \in Commands /\ r[2] \in Nat
      /\ r = <<r[1], r[2]>>
  BY DEF Run
<1>2. Recipe(r) \in SeedRecipe
  BY <1>1, SeederAssumption DEF Recipe
<1>3. /\ Recipe(r).scripts \in Seq(Targets)
      /\ Recipe(r).objects \in Nat
      /\ Recipe(r).found \in BOOLEAN
  BY <1>2 DEF SeedRecipe
<1>. QED  BY <1>1, <1>2, <1>3

LEMMA DatabaseType == \A t : DatabaseOf(t) \in Databases
BY DEF DatabaseOf, Databases

LEMMA ScriptsOfRun ==
    ASSUME NEW r \in Run, NEW d
    PROVE  /\ ScriptsFor(r, d) \subseteq {r} \X Nat
           /\ \A i \in 1..Len(Recipe(r).scripts) :
                 DatabaseOf(Recipe(r).scripts[i]) = d => <<r, i>> \in ScriptsFor(r, d)
           /\ \A e \in ScriptsFor(r, d) :
                 /\ e[2] \in 1..Len(Recipe(r).scripts)
                 /\ DatabaseOf(Recipe(r).scripts[e[2]]) = d
                 /\ e = <<r, e[2]>>
<1>1. ScriptsFor(r, d) = {<<r, i>> : i \in {j \in 1..Len(Recipe(r).scripts) :
                            DatabaseOf(Recipe(r).scripts[j]) = d}}
  BY RunType DEF ScriptsFor
<1>. QED  BY <1>1, RunType

LEMMA NoScriptsBefore ==
    ASSUME NEW r \in Run, NEW d
    PROVE  ScriptsBefore(r, d, 1) = {}
BY ScriptsOfRun, RunType DEF ScriptsBefore

LEMMA AllScriptsBefore ==
    ASSUME NEW r \in Run, NEW d, NEW n \in Nat, n > Len(Recipe(r).scripts)
    PROVE  ScriptsBefore(r, d, n) = ScriptsFor(r, d)
BY ScriptsOfRun, RunType DEF ScriptsBefore

LEMMA OneMoreScript ==
    ASSUME NEW r \in Run, NEW d, NEW n \in 1..Len(Recipe(r).scripts)
    PROVE  /\ DatabaseOf(Recipe(r).scripts[n]) = d =>
                 ScriptsBefore(r, d, n + 1) = ScriptsBefore(r, d, n) \cup {<<r, n>>}
           /\ DatabaseOf(Recipe(r).scripts[n]) # d =>
                 ScriptsBefore(r, d, n + 1) = ScriptsBefore(r, d, n)
<1>1. \A e \in ScriptsFor(r, d) : e[2] < n + 1 <=> e[2] < n \/ e[2] = n
  BY ScriptsOfRun, RunType
<1>2. \A e \in ScriptsFor(r, d) : e[2] = n <=> e = <<r, n>>
  BY ScriptsOfRun
<1>3. <<r, n>> \in ScriptsFor(r, d) <=> DatabaseOf(Recipe(r).scripts[n]) = d
  BY ScriptsOfRun
<1>4. ScriptsBefore(r, d, n + 1) = {e \in ScriptsFor(r, d) : e[2] < n \/ e[2] = n}
  BY <1>1 DEF ScriptsBefore
<1>. QED  BY <1>2, <1>3, <1>4 DEF ScriptsBefore

LEMMA ObjectType ==
    ASSUME NEW r \in Run
    PROVE  /\ ObjectsOf(r) \subseteq Item
           /\ \A e \in ObjectsOf(r) : e[2] \in 1..Recipe(r).objects /\ e = <<r, e[2]>>
           /\ \A i \in Nat \ {0} : <<r, i>> \in ObjectsOf(r) <=> i <= Recipe(r).objects
BY RunType DEF ObjectsOf, Item

-----------------------------------------------------------------------------
(* Types *)

LEMMA TypeInit == Init => TypeOK
BY SeederAssumption DEF Init, TypeOK, Command, PC, Running, Databases

LEMMA RunningIsPC == Running \subseteq PC /\ \A p \in Running : p # "idle"
BY DEF Running, PC

LEMMA JobType ==
    ASSUME TypeOK, RunJob
    PROVE  TypeOK'
<1>. run \in Run /\ run' = run /\ command' = command /\ faults' = faults
  BY DEF RunJob, Prepare, RunScript, ScriptsDone, StoreObject, ObjectsDone, CommitNext,
         RollbackNext, AllCommitted, AllRolledBack, TypeOK, historyVars, dbVars
<1>1. CASE Prepare \/ ScriptsDone \/ ObjectsDone \/ AllCommitted
  BY <1>1 DEF Prepare, ScriptsDone, ObjectsDone, AllCommitted, Begin, TypeOK, PC,
              Running, Databases, historyVars, dbVars
<1>2. CASE RunScript
  <2>. DEFINE target == Recipe(run).scripts[next]
              d == DatabaseOf(target)
  <2>1. used' \subseteq Extra /\ d \in Databases
    BY <1>2, DatabaseType DEF RunScript, UsedTarget, TypeOK
  <2>2. <<run, next>> \in Item
    BY <1>2 DEF RunScript, Item, TypeOK
  <2>3. open' \in [Databases -> SUBSET Item] /\ aborted' \subseteq Databases
        /\ lost' \subseteq Databases
    BY <1>2, <2>1, <2>2 DEF RunScript, Notice, EndTransaction, TypeOK
  <2>4. pc' \in PC /\ next' \in Nat /\ left' \subseteq Databases
    BY <1>2, <2>1 DEF RunScript, HandleException, Begin, TypeOK, PC, Running, Databases
  <2>. QED  BY <1>2, <2>1, <2>3, <2>4 DEF RunScript, TypeOK, historyVars
<1>3. CASE StoreObject
  BY <1>3, ObjectType DEF StoreObject, TypeOK, historyVars, dbVars
<1>4. ASSUME NEW d \in Databases, CommitNext(d)
      PROVE  TypeOK'
  <2>1. open' \in [Databases -> SUBSET Item] /\ aborted' \subseteq Databases
        /\ lost' \subseteq Databases
    BY <1>4 DEF CommitNext, Notice, EndTransaction, TypeOK
  <2>2. /\ committed' \in [Databases -> SUBSET Item]
        /\ pc' \in PC /\ next' \in Nat /\ left' \subseteq Databases
    BY <1>4 DEF CommitNext, Begin, TypeOK, PC
  <2>. QED  BY <1>4, <2>1, <2>2 DEF CommitNext, TypeOK, historyVars
<1>5. ASSUME NEW d \in Databases, RollbackNext(d)
      PROVE  TypeOK'
  <2>1. open' \in [Databases -> SUBSET Item] /\ aborted' \subseteq Databases
        /\ lost' \subseteq Databases
    BY <1>5 DEF RollbackNext, Notice, EndTransaction, TypeOK
  <2>2. pc' \in PC /\ next' \in Nat /\ left' \subseteq Databases /\ unclean' \subseteq Run
    BY <1>5 DEF RollbackNext, Begin, TypeOK, PC
  <2>. QED  BY <1>5, <2>1, <2>2 DEF RollbackNext, TypeOK
<1>6. CASE AllRolledBack
  BY <1>6 DEF AllRolledBack, Begin, TypeOK, PC, dbVars
<1>. QED  BY <1>1, <1>2, <1>3, <1>4, <1>5, <1>6 DEF RunJob

LEMMA RestartType ==
    ASSUME TypeOK, Restart, faults' \in 0..MaxFaults
    PROVE  TypeOK'
BY DEF Restart, EndRun, TypeOK, PC, historyVars

LEMMA TypeNext == TypeOK /\ [Next]_vars => TypeOK'
<1>. SUFFICES ASSUME TypeOK, [Next]_vars PROVE TypeOK'
  OBVIOUS
<1>0. ASSUME NEW k, Fault(k) PROVE faults' \in 0..MaxFaults
  BY <1>0, SeederAssumption DEF Fault, TypeOK
<1>1. ASSUME NEW c \in Commands, Pick(c) PROVE TypeOK'
  <2>1. command' \in [Commands -> Command] /\ run' \in Run
    BY <1>1 DEF Pick, TypeOK, Command, Run
  <2>. QED
    BY <1>1, <2>1 DEF Pick, Begin, TypeOK, PC, Running, historyVars
<1>2. CASE RunJob
  BY <1>2, JobType
<1>3. CASE Record
  <2>1. run \in Run /\ Default \in Databases
    BY <1>3 DEF Record, TypeOK, Databases
  <2>2. command' \in [Commands -> Command]
    BY <1>3, <2>1, RunType DEF Record, TypeOK, Command
  <2>3. committed' \in [Databases -> SUBSET Item]
    BY <1>3, <2>1 DEF Record, TypeOK
  <2>. QED
    BY <1>3, <2>1, <2>2, <2>3 DEF Record, Notice, EndTransaction, EndRun, TypeOK, PC, historyVars
<1>4. CASE RecordInFailedTransaction
  BY <1>4 DEF RecordInFailedTransaction, EndRun, TypeOK, PC, historyVars, dbVars
<1>5. CASE RetriesRunOut \/ Crash
  BY <1>0, <1>5, RestartType DEF RetriesRunOut, Crash, TypeOK
<1>6. CASE ScriptFails
  <2>. DEFINE target == Recipe(run).scripts[next]
              d == DatabaseOf(target)
  <2>1. d \in Databases
    BY DatabaseType
  <2>2. used' \subseteq Extra /\ aborted' \subseteq Databases
    BY <1>6, <2>1 DEF ScriptFails, UsedTarget, TypeOK
  <2>. QED
    BY <1>0, <1>6, <2>2 DEF ScriptFails, HandleException, Begin, TypeOK, PC, Running, Databases, historyVars
<1>7. CASE StoreFails
  <2>1. objects' \subseteq Item
    BY <1>7, RunningIsPC, ObjectType DEF StoreFails, TypeOK
  <2>. QED
    BY <1>0, <1>7, <2>1 DEF StoreFails, HandleException, Begin, TypeOK, PC, Running,
                            Databases, historyVars, dbVars
<1>8. CASE TimeOut
  BY <1>0, <1>8 DEF TimeOut, Begin, TypeOK, PC, Running, dbVars
<1>9. CASE LoseOutcome
  BY <1>0, <1>9 DEF LoseOutcome, Notice, EndTransaction, EndRun, TypeOK, PC, historyVars, Databases
<1>10. ASSUME NEW d \in Databases, LoseConnection(d) PROVE TypeOK'
  BY <1>0, <1>10 DEF LoseConnection, EndTransaction, TypeOK, jobVars, historyVars
<1>11. CASE Wait \/ UNCHANGED vars
  BY <1>11 DEF Wait, vars, dbVars, jobVars, historyVars, TypeOK
<1>. QED
  BY <1>1, <1>2, <1>3, <1>4, <1>5, <1>6, <1>7, <1>8, <1>9, <1>10, <1>11
  DEF Next, WorkerStep, FaultStep

(* Every variable always has the type of the code's value, and a worker    *)
(* that is in a job has a run: seeder.py keeps no state between two jobs.  *)
THEOREM TypeCorrect == Spec => []TypeOK
BY TypeInit, TypeNext, PTL DEF Spec
-----------------------------------------------------------------------------
(* What a step does to the databases *)

(* Every database keeps what it has, loses its transaction or commits it,  *)
(* and commits it only while no script of a job can be missing from it.    *)
Flow ==
    \A d \in Databases :
        \/ committed'[d] = committed[d] /\ open'[d] \in {open[d], {}}
        \/ /\ pc \notin {"script", "rollback"}
           /\ committed'[d] = committed[d] \cup open[d]
           /\ open'[d] = {}

(* Or a script of the job is executed. *)
ExecuteScript ==
    /\ pc = "script" /\ pc' = "script"
    /\ next \in 1..Len(Recipe(run).scripts)
    /\ LET target == Recipe(run).scripts[next]
           d == DatabaseOf(target)
       IN /\ d \notin lost
          /\ open' = [open EXCEPT ![d] = @ \cup {<<run, next>>}]
          /\ used' = used \cup UsedTarget(target)
    /\ next' = next + 1
    /\ UNCHANGED <<command, committed, lost, objects, run, left, historyVars>>

(* A job that is running goes on, ends or is lost; a new one has a new     *)
(* number.                                                                 *)
NewRun ==
    /\ pc = "idle" /\ pc' = "prepare"
    /\ run' \in Run
    /\ run'[2] = command[run'[1]].attempts + 1
    /\ command' = [command EXCEPT ![run'[1]].attempts = @ + 1]

SameRun ==
    /\ pc' # "idle" => pc # "idle" /\ run' = run
    /\ pc' \in Running => pc \in Running
    /\ \A c \in Commands : command'[c].attempts = command[c].attempts

(* Only a running job is rolled back. *)
Histories ==
    /\ \/ rolledback' = rolledback
       \/ /\ pc = "rollback" /\ pc' = "error" /\ left = {}
          /\ rolledback' = rolledback \cup {run}
    /\ unclean' = unclean \/ unclean' = unclean \cup {run}

LEMMA RunScriptStep ==
    ASSUME TypeOK, next # 0, RunScript
    PROVE  Flow \/ ExecuteScript
<1>. DEFINE target == Recipe(run).scripts[next]
            d == DatabaseOf(target)
<1>0. run \in Run /\ next \in Nat /\ d \in Databases
  BY DatabaseType DEF RunScript, TypeOK
<1>1. CASE d \in aborted \cup lost
  BY <1>0, <1>1 DEF RunScript, Notice, EndTransaction, Flow, TypeOK
<1>2. CASE d \notin aborted \cup lost
  BY <1>0, <1>2, RunType DEF RunScript, ExecuteScript, Flow
<1>. QED  BY <1>1, <1>2

LEMMA JobFlow ==
    ASSUME TypeOK, pc = "script" => next # 0, RunJob
    PROVE  Flow \/ ExecuteScript
<1>1. CASE Prepare \/ ScriptsDone \/ StoreObject \/ ObjectsDone \/ AllCommitted \/ AllRolledBack
  BY <1>1 DEF Prepare, ScriptsDone, StoreObject, ObjectsDone, AllCommitted, AllRolledBack,
              dbVars, Flow
<1>2. CASE RunScript
  BY <1>2, RunScriptStep DEF RunScript
<1>3. ASSUME NEW d \in Databases, CommitNext(d) PROVE Flow
  BY <1>3 DEF CommitNext, Notice, EndTransaction, Flow, TypeOK
<1>4. ASSUME NEW d \in Databases, RollbackNext(d) PROVE Flow
  BY <1>4 DEF RollbackNext, Notice, EndTransaction, Flow, TypeOK
<1>. QED  BY <1>1, <1>2, <1>3, <1>4 DEF RunJob

LEMMA StepFlow ==
    ASSUME TypeOK, pc = "script" => next # 0, [Next]_vars
    PROVE  Flow \/ ExecuteScript
<1>1. ASSUME NEW c \in Commands, Pick(c) PROVE Flow
  BY <1>1 DEF Pick, Flow
<1>2. CASE RunJob
  BY <1>2, JobFlow
<1>3. CASE Record
  BY <1>3 DEF Record, Notice, EndTransaction, Flow, TypeOK
<1>4. CASE RecordInFailedTransaction
  BY <1>4 DEF RecordInFailedTransaction, dbVars, Flow
<1>5. CASE RetriesRunOut \/ Crash
  BY <1>5 DEF RetriesRunOut, Crash, Restart, Flow
<1>6. CASE ScriptFails \/ StoreFails \/ TimeOut
  BY <1>6 DEF ScriptFails, StoreFails, TimeOut, dbVars, Flow
<1>7. CASE LoseOutcome
  BY <1>7 DEF LoseOutcome, Notice, EndTransaction, Flow, TypeOK
<1>8. ASSUME NEW d \in Databases, LoseConnection(d) PROVE Flow
  BY <1>8 DEF LoseConnection, EndTransaction, Flow, TypeOK
<1>9. CASE Wait \/ UNCHANGED vars
  BY <1>9 DEF Wait, vars, dbVars, Flow
<1>. QED
  BY <1>1, <1>2, <1>3, <1>4, <1>5, <1>6, <1>7, <1>8, <1>9
  DEF Next, WorkerStep, FaultStep

LEMMA StepRuns ==
    ASSUME TypeOK, [Next]_vars
    PROVE  (NewRun \/ SameRun) /\ Histories
<1>1. ASSUME NEW c \in Commands, Pick(c) PROVE NewRun /\ Histories
  <2>1. run' = <<c, command[c].attempts + 1>> /\ command[c].attempts \in Nat
    BY <1>1 DEF Pick, TypeOK, Command
  <2>2. run'[1] = c /\ run'[2] = command[c].attempts + 1 /\ run' \in Run
    BY <2>1 DEF Run
  <2>. QED
    BY <1>1, <2>2 DEF Pick, Begin, NewRun, Histories, historyVars
<1>2. CASE RunJob
  <2>1. SameRun
    BY <1>2
    DEF RunJob, Prepare, RunScript, ScriptsDone, StoreObject, ObjectsDone, CommitNext,
        RollbackNext, AllCommitted, AllRolledBack, SameRun, Running
  <2>2. CASE AllRolledBack
    BY <2>1, <2>2 DEF AllRolledBack, Begin, Histories
  <2>3. ASSUME NEW d \in Databases, RollbackNext(d) PROVE Histories
    BY <2>3 DEF RollbackNext, Histories
  <2>4. CASE Prepare \/ RunScript \/ ScriptsDone \/ StoreObject \/ ObjectsDone \/ AllCommitted
    BY <2>1, <2>4 DEF Prepare, RunScript, ScriptsDone, StoreObject, ObjectsDone, AllCommitted,
                Histories, historyVars
  <2>5. ASSUME NEW d \in Databases, CommitNext(d) PROVE Histories
    BY <2>5 DEF CommitNext, Histories, historyVars
  <2>. QED  BY <1>2, <2>1, <2>2, <2>3, <2>4, <2>5 DEF RunJob
<1>3. CASE Record
  <2>1. \A c \in Commands : command'[c].attempts = command[c].attempts
    BY <1>3 DEF Record, TypeOK, Command
  <2>. QED
    BY <1>3, <2>1 DEF Record, EndRun, SameRun, Running, Histories, historyVars
<1>4. CASE RecordInFailedTransaction
  BY <1>4 DEF RecordInFailedTransaction, EndRun, SameRun, Running, Histories, historyVars
<1>5. CASE RetriesRunOut \/ Crash
  BY <1>5 DEF RetriesRunOut, Crash, Restart, EndRun, SameRun, Running, Histories, historyVars
<1>6. CASE ScriptFails \/ StoreFails \/ TimeOut
  BY <1>6 DEF ScriptFails, StoreFails, TimeOut, HandleException, Begin,
              SameRun, Running, Histories, historyVars
<1>7. CASE LoseOutcome
  BY <1>7 DEF LoseOutcome, EndRun, SameRun, Running, Histories, historyVars
<1>8. ASSUME NEW d \in Databases, LoseConnection(d) PROVE SameRun /\ Histories
  BY <1>8 DEF LoseConnection, SameRun, Running, Histories, historyVars, jobVars
<1>9. CASE Wait \/ UNCHANGED vars
  BY <1>9 DEF Wait, vars, jobVars, historyVars, SameRun, Running, Histories
<1>. QED
  BY <1>1, <1>2, <1>3, <1>4, <1>5, <1>6, <1>7, <1>8, <1>9
  DEF Next, WorkerStep, FaultStep

-----------------------------------------------------------------------------
(* Attempts and runs *)

LEMMA CountsFromOne ==
    ASSUME TypeOK, pc # "idle" => next # 0, [Next]_vars
    PROVE  pc' # "idle" => next' # 0
<1>1. ASSUME NEW c \in Commands, Pick(c) PROVE next' # 0
  BY <1>1 DEF Pick, Begin
<1>2. CASE RunJob
  <2>1. CASE Prepare \/ ScriptsDone \/ StoreObject \/ ObjectsDone \/ AllCommitted \/ AllRolledBack
    BY <2>1 DEF Prepare, ScriptsDone, StoreObject, ObjectsDone, AllCommitted,
                AllRolledBack, Begin, TypeOK
  <2>2. CASE RunScript
    BY <2>2 DEF RunScript, HandleException, Begin, TypeOK
  <2>3. ASSUME NEW d \in Databases, CommitNext(d) \/ RollbackNext(d) PROVE next' # 0
    BY <2>3 DEF CommitNext, RollbackNext, Begin
  <2>. QED  BY <1>2, <2>1, <2>2, <2>3 DEF RunJob
<1>3. CASE Record \/ RecordInFailedTransaction \/ RetriesRunOut \/ Crash \/ LoseOutcome
  BY <1>3 DEF Record, RecordInFailedTransaction, RetriesRunOut, Crash, LoseOutcome,
              Restart, EndRun
<1>4. CASE ScriptFails \/ StoreFails \/ TimeOut
  BY <1>4 DEF ScriptFails, StoreFails, TimeOut, HandleException, Begin
<1>5. ASSUME NEW d \in Databases, LoseConnection(d) PROVE pc' = pc /\ next' = next
  BY <1>5 DEF LoseConnection, jobVars
<1>6. CASE Wait \/ UNCHANGED vars
  BY <1>6 DEF Wait, vars, jobVars
<1>. QED
  BY <1>1, <1>2, <1>3, <1>4, <1>5, <1>6 DEF Next, WorkerStep, FaultStep

LEMMA LatestNext ==
    ASSUME TypeOK, RunIsLatest, [Next]_vars
    PROVE  RunIsLatest'
<1>1. pc' # "idle" => next' # 0
  BY CountsFromOne DEF RunIsLatest
<1>2. CASE NewRun
  BY <1>1, <1>2, RunType DEF NewRun, RunIsLatest, TypeOK, Command
<1>3. CASE SameRun
  BY <1>1, <1>3, RunType DEF SameRun, RunIsLatest, TypeOK
<1>. QED  BY <1>2, <1>3, StepRuns

LEMMA ChargedNext ==
    ASSUME TypeOK, [Next]_vars, NEW r \in Run, Charged(r)
    PROVE  Charged(r)'
<1>1. CASE NewRun
  <2>1. run'[1] \in Commands /\ \A c \in Commands : command[c].attempts \in Nat
    BY <1>1, RunType DEF NewRun, TypeOK, Command
  <2>2. command'[r[1]].attempts \in {command[r[1]].attempts, command[r[1]].attempts + 1}
    BY <1>1, <2>1, RunType DEF NewRun, TypeOK, Command
  <2>. QED  BY <2>1, <2>2, RunType DEF Charged
<1>2. CASE SameRun
  BY <1>2, RunType DEF SameRun, Charged
<1>. QED  BY <1>1, <1>2, StepRuns

LEMMA FreshRun ==
    ASSUME TypeOK, NewRun
    PROVE  ~Charged(run')
BY RunType DEF NewRun, Charged, TypeOK, Command

LEMMA CurrentIsCharged ==
    ASSUME TypeOK, RunIsLatest, pc # "idle"
    PROVE  run \in Run /\ Charged(run)
BY RunType DEF TypeOK, RunIsLatest, Charged

LEMMA ItemsAfterStep ==
    ASSUME TypeOK, RunIsLatest, [Next]_vars, NEW d \in Databases,
           NEW e \in committed'[d] \cup open'[d]
    PROVE  /\ e[1] \in Run
           /\ \/ e \in committed[d] \cup open[d]
              \/ e[1] = run /\ ExecuteScript
<1>1. Flow \/ ExecuteScript
  BY StepFlow DEF RunIsLatest
<1>2. CASE Flow
  BY <1>2 DEF Flow, TypeOK, Item
<1>3. CASE ExecuteScript
  <2>. DEFINE t == DatabaseOf(Recipe(run).scripts[next])
  <2>1. committed' = committed /\ t \in Databases /\ run \in Run
        /\ open' = [open EXCEPT ![t] = @ \cup {<<run, next>>}]
    BY <1>3, DatabaseType DEF ExecuteScript, TypeOK
  <2>2. e \in committed[d] \cup open[d] \/ e = <<run, next>>
    BY <2>1 DEF TypeOK
  <2>. QED  BY <1>3, <2>1, <2>2 DEF TypeOK, Item
<1>. QED  BY <1>1, <1>2, <1>3

LEMMA ChargedRunsNext ==
    ASSUME TypeOK, RunIsLatest, RunsAreCharged, [Next]_vars
    PROVE  RunsAreCharged'
<1>1. ASSUME NEW d \in Databases, NEW e \in committed'[d] \cup open'[d]
      PROVE  Charged(e[1])'
  <2>1. Charged(e[1]) /\ e[1] \in Run
    BY ItemsAfterStep, CurrentIsCharged DEF RunsAreCharged, ExecuteScript
  <2>. QED  BY <2>1, ChargedNext
<1>2. ASSUME NEW r \in rolledback'
      PROVE  Charged(r)'
  <2>1. r \in rolledback \/ (r = run /\ pc = "rollback")
    BY StepRuns DEF Histories
  <2>2. r \in Run /\ Charged(r)
    BY <2>1, CurrentIsCharged DEF RunsAreCharged, TypeOK
  <2>. QED  BY <2>2, ChargedNext
<1>. QED  BY <1>1, <1>2 DEF RunsAreCharged

-----------------------------------------------------------------------------
(* What was rolled back is gone *)

LEMMA RolledBackNext ==
    ASSUME TypeOK, RunIsLatest, RunsAreCharged, RolledBackIsGone, Stage, [Next]_vars
    PROVE  RolledBackIsGone'
<1>1. ASSUME NEW d \in Databases, NEW e \in committed'[d] \cup open'[d]
      PROVE  e[1] \notin rolledback'
  <2>1. CASE ExecuteScript
    <3>1. rolledback' = rolledback /\ pc \in Running
      BY <2>1 DEF ExecuteScript, historyVars, Running
    <3>. QED  BY <3>1, ItemsAfterStep DEF RolledBackIsGone
  <2>2. CASE ~ExecuteScript
    <3>1. e \in committed[d] \cup open[d] /\ e[1] \notin rolledback
      BY <2>2, ItemsAfterStep DEF RolledBackIsGone
    <3>2. CASE rolledback' = rolledback
      BY <3>1, <3>2
    <3>3. CASE rolledback' # rolledback
      <4>1. rolledback' = rolledback \cup {run} /\ pc = "rollback" /\ left = {}
        BY <3>3, StepRuns DEF Histories
      <4>2. Mine(run, committed[d]) = {} /\ Mine(run, open[d]) = {}
        BY <4>1 DEF Stage, RolledBackSoFar, Nothing
      <4>3. e \in Item
        BY <3>1 DEF TypeOK
      <4>4. e[1] # run
        BY <3>1, <4>2, <4>3 DEF Mine, Item
      <4>. QED  BY <3>1, <4>1, <4>4
    <3>. QED  BY <3>2, <3>3
  <2>. QED  BY <2>1, <2>2
<1>2. ASSUME pc' \in Running
      PROVE  run' \notin rolledback'
  <2>1. CASE NewRun
    <3>1. rolledback' = rolledback
      BY <2>1, StepRuns DEF NewRun, Histories
    <3>. QED  BY <2>1, <3>1, FreshRun DEF RunsAreCharged
  <2>2. CASE SameRun
    <3>1. run' = run /\ pc \in Running /\ pc' # "error"
      BY <1>2, <2>2 DEF SameRun, Running
    <3>. QED  BY <3>1, StepRuns DEF Histories, RolledBackIsGone
  <2>. QED  BY <2>1, <2>2, StepRuns
<1>. QED  BY <1>1, <1>2 DEF RolledBackIsGone

-----------------------------------------------------------------------------
(* A lost connection has lost its transaction *)

LEMMA LostNext ==
    ASSUME TypeOK, RunIsLatest, LostIsEmpty, [Next]_vars
    PROVE  LostIsEmpty'
<1>1. ASSUME NEW d \in lost'
      PROVE  d \in Databases /\ (d \in lost \/ open'[d] = {})
  <2>1. ASSUME NEW x \in Databases, LoseConnection(x)
        PROVE  d \in Databases /\ (d \in lost \/ open'[d] = {})
    BY <1>1, <2>1 DEF LoseConnection, EndTransaction, TypeOK
  <2>2. ASSUME NEW x \in Databases, CommitNext(x) \/ RollbackNext(x)
        PROVE  d \in lost
    BY <1>1, <2>2 DEF CommitNext, RollbackNext, Notice
  <2>3. ASSUME NEW c \in Commands, Pick(c)
        PROVE  d \in lost
    BY <1>1, <2>3 DEF Pick
  <2>4. CASE \/ Prepare \/ RunScript \/ ScriptsDone \/ StoreObject \/ ObjectsDone
             \/ AllCommitted \/ AllRolledBack
    BY <1>1, <2>4 DEF Prepare, RunScript, ScriptsDone, StoreObject, ObjectsDone,
                      AllCommitted, AllRolledBack, Notice, dbVars, TypeOK
  <2>5. CASE \/ Record \/ RecordInFailedTransaction \/ RetriesRunOut \/ Crash
             \/ LoseOutcome \/ ScriptFails \/ StoreFails \/ TimeOut \/ Wait \/ UNCHANGED vars
    BY <1>1, <2>5 DEF Record, RecordInFailedTransaction, RetriesRunOut, Crash, Restart,
                      LoseOutcome, ScriptFails, StoreFails, TimeOut, Wait, Notice, dbVars, vars, TypeOK
  <2>. QED
    BY <2>1, <2>2, <2>3, <2>4, <2>5 DEF TypeOK, Next, WorkerStep, FaultStep, RunJob
<1>2. ASSUME NEW d \in lost', d \in lost
      PROVE  open'[d] = {}
  <2>1. open[d] = {} /\ d \in Databases
    BY <1>2 DEF LostIsEmpty, TypeOK
  <2>2. CASE Flow
    BY <2>1, <2>2 DEF Flow
  <2>3. CASE ExecuteScript
    BY <1>2, <2>1, <2>3 DEF ExecuteScript, TypeOK
  <2>. QED  BY <2>2, <2>3, StepFlow DEF RunIsLatest
<1>. QED  BY <1>1, <1>2 DEF LostIsEmpty

-----------------------------------------------------------------------------
(* A run that ends is whole in every database, or unclean *)

LEMMA HalfwayEnds ==
    ASSUME TypeOK, RunIsLatest, LostIsEmpty, Stage, [Next]_vars,
           pc \in {"script", "rollback"},
           pc' \notin {"script", "rollback"} \/ run' # run,
           NEW r, r = run, r \notin unclean', NEW d \in Databases
    PROVE  OpenWhole(r, d)'
<1>1. CASE RunJob
  <2>1. CASE ScriptsDone
    <3>1. open' = open /\ ScriptsBefore(run, d, next) = ScriptsFor(run, d)
      BY <2>1, AllScriptsBefore, CurrentIsCharged DEF ScriptsDone, dbVars, TypeOK
    <3>2. d \in lost \/ Mine(run, open[d]) = ScriptsFor(run, d)
      BY <2>1, <3>1 DEF ScriptsDone, Stage, ScriptsRun, Opened
    <3>. QED  BY <3>1, <3>2, MineEmpty DEF OpenWhole, LostIsEmpty
  <2>2. CASE AllRolledBack
    BY <2>2 DEF AllRolledBack, dbVars, Stage, RolledBackSoFar, OpenWhole
  <2>3. ASSUME NEW x \in Databases, RollbackNext(x)
        PROVE  FALSE
    BY <2>3 DEF RollbackNext
  <2>4. CASE RunScript
    BY <2>4 DEF RunScript, HandleException, Begin
  <2>5. CASE Prepare \/ StoreObject \/ ObjectsDone \/ AllCommitted
    BY <2>5 DEF Prepare, StoreObject, ObjectsDone, AllCommitted
  <2>6. ASSUME NEW x \in Databases, CommitNext(x)
        PROVE  FALSE
    BY <2>6 DEF CommitNext
  <2>. QED  BY <1>1, <2>1, <2>2, <2>3, <2>4, <2>5, <2>6 DEF RunJob
<1>2. CASE Crash
  BY <1>2, MineEmpty DEF Crash, Restart, OpenWhole
<1>3. CASE TimeOut
  BY <1>3 DEF TimeOut
<1>4. CASE ScriptFails \/ StoreFails
  BY <1>4 DEF ScriptFails, StoreFails, HandleException, Begin
<1>5. ASSUME NEW x \in Databases, LoseConnection(x)
      PROVE  FALSE
  BY <1>5 DEF LoseConnection, jobVars
<1>6. ASSUME NEW c \in Commands, Pick(c)
      PROVE  FALSE
  BY <1>6 DEF Pick
<1>7. CASE \/ Record \/ RecordInFailedTransaction \/ RetriesRunOut \/ LoseOutcome
           \/ Wait \/ UNCHANGED vars
  BY <1>7 DEF Record, RecordInFailedTransaction, RetriesRunOut, LoseOutcome, Wait,
              vars, jobVars
<1>. QED
  BY <1>1, <1>2, <1>3, <1>4, <1>5, <1>6, <1>7 DEF Next, WorkerStep, FaultStep

LEMMA WholeMine ==
    ASSUME NEW r, NEW d
    PROVE  Whole(r, d) <=> Mine(r, committed[d]) \in {{}, ScriptsFor(r, d)}
BY DEF Whole, Mine

LEMMA WholeNext ==
    ASSUME TypeOK, RunIsLatest, LostIsEmpty, Stage, RunsAreWhole, [Next]_vars
    PROVE  RunsAreWhole'
<1>. SUFFICES ASSUME NEW r \in Run \ unclean', NEW d \in Databases
              PROVE  Whole(r, d)' /\ (Halfway(r)' \/ OpenWhole(r, d)')
  BY DEF RunsAreWhole
<1>1. /\ Mine(r, committed[d]) \in {{}, ScriptsFor(r, d)}
      /\ Halfway(r) \/ Mine(r, open[d]) \in {{}, ScriptsFor(r, d)}
  BY StepRuns, WholeMine DEF Histories, RunsAreWhole, OpenWhole
<1>2. Flow \/ ExecuteScript
  BY StepFlow DEF RunIsLatest
<1>3. Mine(r, committed'[d]) \in {{}, ScriptsFor(r, d)}
  <2>1. CASE committed'[d] = committed[d]
    BY <1>1, <2>1
  <2>2. CASE committed'[d] # committed[d]
    <3>1. /\ pc \notin {"script", "rollback"}
          /\ committed'[d] = committed[d] \cup open[d]
      BY <1>2, <2>2 DEF Flow, ExecuteScript
    <3>2. Mine(r, open[d]) \in {{}, ScriptsFor(r, d)}
      BY <1>1, <3>1 DEF Halfway
    <3>3. Mine(r, committed'[d]) = Mine(r, committed[d]) \cup Mine(r, open[d])
      BY <3>1, MineUnion
    <3>. QED  BY <1>1, <3>2, <3>3
  <2>. QED  BY <2>1, <2>2
<1>4. Whole(r, d)'
  BY <1>3 DEF Whole, Mine
<1>5. Halfway(r)' \/ OpenWhole(r, d)'
  <2>1. CASE Halfway(r)
    BY <2>1, HalfwayEnds DEF Halfway
  <2>2. CASE ~Halfway(r) /\ Flow
    BY <1>1, <2>2, MineEmpty DEF Flow, OpenWhole
  <2>3. CASE ~Halfway(r) /\ ExecuteScript
    <3>. DEFINE t == DatabaseOf(Recipe(run).scripts[next])
    <3>1. /\ open'[d] = open[d] \/ open'[d] = open[d] \cup {<<run, next>>}
          /\ r # run /\ next \in Nat
      BY <2>3, DatabaseType DEF ExecuteScript, TypeOK, Halfway
    <3>2. Mine(r, open'[d]) = Mine(r, open[d])
      BY <3>1 DEF Mine
    <3>. QED  BY <1>1, <2>3, <3>2 DEF OpenWhole
  <2>. QED  BY <1>2, <2>1, <2>2, <2>3
<1>. QED  BY <1>4, <1>5

-----------------------------------------------------------------------------
(* What the job has done where it is *)

LEMMA RunScriptStage ==
    ASSUME TypeOK, RunIsLatest, LostIsEmpty, Stage, RunScript
    PROVE  Stage'
<1>. DEFINE target == Recipe(run).scripts[next]
            t == DatabaseOf(target)
<1>1. /\ run \in Run /\ run' = run /\ committed' = committed /\ t \in Databases
      /\ next \in 1..Len(Recipe(run).scripts)
      /\ used' = used \cup UsedTarget(target)
  BY DatabaseType, CurrentIsCharged, RunType DEF RunScript, TypeOK, RunIsLatest
<1>2. \A d \in Databases :
         /\ Mine(run, committed[d]) = {}
         /\ d \in lost \/ Mine(run, open[d]) = ScriptsBefore(run, d, next)
         /\ d \notin {Default} \cup used => ScriptsBefore(run, d, next) = {}
         /\ d \in lost => open[d] = {}
  BY DEF RunScript, Stage, ScriptsRun, Nothing, Opened, LostIsEmpty
<1>3. CASE t \in aborted \cup lost
  <2>1. /\ pc' = "rollback" /\ left' = {Default} \cup used'
        /\ \A d \in Databases : open'[d] \in {open[d], {}}
    BY <1>1, <1>3 DEF RunScript, HandleException, Begin, Notice, EndTransaction, TypeOK
  <2>2. ASSUME NEW d \in Databases \ left'
        PROVE  Mine(run, open'[d]) = {}
    <3>1. ScriptsBefore(run, d, next) = {}
      BY <1>1, <1>2, <2>1
    <3>. QED  BY <1>2, <2>1, <3>1, MineEmpty
  <2>. QED  BY <1>1, <1>2, <2>1, <2>2 DEF Stage, RolledBackSoFar, Nothing
<1>4. CASE t \notin aborted \cup lost
  <2>1. /\ pc' = "script" /\ next' = next + 1 /\ lost' = lost
        /\ open' = [open EXCEPT ![t] = @ \cup {<<run, next>>}]
    BY <1>4 DEF RunScript
  <2>. \A d : ScriptsBefore(run, d, next)' = ScriptsBefore(run, d, next + 1)
    BY <1>1, <2>1 DEF ScriptsBefore, ScriptsFor, Recipe
  <2>2. ASSUME NEW d \in Databases
        PROVE  /\ Nothing(d)'
               /\ Opened(d, ScriptsBefore(run, d, next))'
               /\ d \notin {Default} \cup used' => ScriptsBefore(run, d, next)' = {}
    <3>1. CASE t = d
      <4>1. ScriptsBefore(run, d, next + 1) = ScriptsBefore(run, d, next) \cup {<<run, next>>}
        BY <1>1, <3>1, OneMoreScript
      <4>2. open'[d] = open[d] \cup {<<run, next>>} /\ next \in Nat
        BY <1>1, <2>1, <3>1 DEF TypeOK
      <4>3. Mine(run, open'[d]) = Mine(run, open[d]) \cup {<<run, next>>}
        BY <4>2 DEF Mine
      <4>4. d \in {Default} \cup used'
        BY <1>1, <3>1 DEF DatabaseOf, UsedTarget
      <4>. QED
        BY <1>1, <1>2, <1>4, <2>1, <3>1, <4>1, <4>3, <4>4 DEF Nothing, Opened
    <3>2. CASE t # d
      <4>1. ScriptsBefore(run, d, next + 1) = ScriptsBefore(run, d, next)
        BY <1>1, <3>2, OneMoreScript
      <4>2. open'[d] = open[d]
        BY <1>1, <2>1, <3>2 DEF TypeOK
      <4>. QED
        BY <1>1, <1>2, <2>1, <4>1, <4>2 DEF Nothing, Opened
    <3>. QED  BY <3>1, <3>2
  <2>. QED  BY <2>1, <2>2 DEF Stage, ScriptsRun
<1>. QED  BY <1>3, <1>4

LEMMA CommitStage ==
    ASSUME TypeOK, LostIsEmpty, Stage, NEW x \in Databases, CommitNext(x)
    PROVE  Stage'
<1>1. CASE x \in lost
  BY <1>1 DEF CommitNext, Begin, Stage
<1>2. CASE x \notin lost
  <2>1. /\ pc = "commit" /\ pc' = "commit" /\ x \in left /\ left' = left \ {x}
        /\ run' = run /\ objects' = objects /\ lost' = lost /\ used' = used
        /\ committed' = [committed EXCEPT ![x] = @ \cup open[x]]
        /\ open' = [open EXCEPT ![x] = {}]
    BY <1>2 DEF CommitNext, Notice, EndTransaction, Turn
  <2>2. /\ \A d \in left : Mine(run, committed[d]) = {}
                           /\ (d \in lost \/ Mine(run, open[d]) = ScriptsFor(run, d))
        /\ \A d \in Databases \ left : Mine(run, committed[d]) = ScriptsFor(run, d)
        /\ ObjectsOf(run) \subseteq objects
    BY <2>1 DEF Stage, CommittedSoFar, Nothing, Opened
  <2>3. ASSUME NEW d \in Databases, d # x
        PROVE  committed'[d] = committed[d] /\ open'[d] = open[d]
    BY <2>1, <2>3 DEF TypeOK
  <2>4. Mine(run, committed'[x]) = ScriptsFor(run, x)
    <3>1. committed'[x] = committed[x] \cup open[x]
      BY <2>1 DEF TypeOK
    <3>2. Mine(run, committed'[x]) = Mine(run, committed[x]) \cup Mine(run, open[x])
      BY <3>1 DEF Mine
    <3>. QED  BY <1>2, <2>1, <2>2, <3>2
  <2>5. left \subseteq Databases
    BY DEF TypeOK
  <2>6. (\A d : ScriptsFor(run, d)' = ScriptsFor(run, d)) /\ ObjectsOf(run)' = ObjectsOf(run)
    BY <2>1 DEF ScriptsFor, ObjectsOf, Recipe
  <2>7. ASSUME NEW d \in left'
        PROVE  Nothing(d)' /\ Opened(d, ScriptsFor(run, d))'
    BY <2>1, <2>2, <2>3, <2>5, <2>6, <2>7 DEF Nothing, Opened
  <2>8. ASSUME NEW d \in Databases \ left'
        PROVE  Mine(run', committed'[d]) = ScriptsFor(run, d)'
    BY <2>1, <2>2, <2>3, <2>4, <2>6, <2>8
  <2>. QED  BY <2>1, <2>2, <2>6, <2>7, <2>8 DEF Stage, CommittedSoFar
<1>. QED  BY <1>1, <1>2

LEMMA RollbackStage ==
    ASSUME TypeOK, Stage, NEW x \in Databases, RollbackNext(x)
    PROVE  Stage'
<1>1. CASE x \in lost
  BY <1>1 DEF RollbackNext, Begin, Stage
<1>2. CASE x \notin lost
  <2>1. /\ pc = "rollback" /\ pc' = "rollback" /\ left' = left \ {x} /\ run' = run
        /\ committed' = committed /\ open' = [open EXCEPT ![x] = {}]
    BY <1>2 DEF RollbackNext, Notice, EndTransaction
  <2>. QED  BY <2>1, MineEmpty DEF Stage, RolledBackSoFar, Nothing, TypeOK
<1>. QED  BY <1>1, <1>2

LEMMA StoreStage ==
    ASSUME TypeOK, RunIsLatest, LostIsEmpty, Stage,
           StoreObject \/ ObjectsDone \/ StoreFails
    PROVE  Stage'
<1>1. /\ run \in Run /\ run' = run /\ next \in Nat \ {0} /\ pc = "store"
      /\ committed' = committed /\ open' = open /\ lost' = lost /\ used' = used
  BY DEF StoreObject, ObjectsDone, StoreFails, dbVars, TypeOK, RunIsLatest
<1>2. /\ \A d \in Databases :
           /\ Mine(run, committed[d]) = {}
           /\ d \in lost \/ Mine(run, open[d]) = ScriptsFor(run, d)
           /\ d \notin {Default} \cup used => ScriptsFor(run, d) = {}
           /\ d \in lost => open[d] = {}
      /\ {e \in ObjectsOf(run) : e[2] < next} \subseteq objects
  BY <1>1 DEF Stage, ObjectsStored, Nothing, Opened, LostIsEmpty
<1>3. CASE StoreObject
  <2>1. pc' = "store" /\ next' = next + 1 /\ objects' = objects \cup {<<run, next>>}
    BY <1>3 DEF StoreObject
  <2>2. ASSUME NEW e \in ObjectsOf(run), e[2] < next + 1
        PROVE  e \in objects'
    <3>1. e[2] \in Nat /\ e = <<run, e[2]>>
      BY <1>1, ObjectType
    <3>2. e[2] < next \/ e[2] = next
      BY <1>1, <2>2, <3>1
    <3>. QED  BY <1>2, <2>1, <3>1, <3>2
  <2>. QED
    BY <1>1, <1>2, <2>1, <2>2
    DEF Stage, ObjectsStored, Nothing, Opened, ScriptsFor, ObjectsOf, Recipe
<1>4. CASE ObjectsDone
  <2>1. pc' = "commit" /\ left' = {Default} \cup used /\ objects' = objects
    BY <1>4 DEF ObjectsDone, Begin
  <2>2. left' \subseteq Databases
    BY <2>1 DEF TypeOK, Databases
  <2>3. ObjectsOf(run) \subseteq objects
    <3>1. next > Recipe(run).objects
      BY <1>1, <1>4, ObjectType, RunType DEF ObjectsDone
    <3>. QED  BY <1>1, <1>2, <3>1, ObjectType, RunType
  <2>. QED
    BY <1>1, <1>2, <2>1, <2>2, <2>3
    DEF Stage, CommittedSoFar, Nothing, Opened, ScriptsFor, ObjectsOf, Recipe
<1>5. CASE StoreFails
  <2>1. pc' = "rollback" /\ left' = {Default} \cup used
    BY <1>5 DEF StoreFails, HandleException, Begin
  <2>. QED
    BY <1>1, <1>2, <2>1, MineEmpty DEF Stage, RolledBackSoFar, Nothing
<1>. QED  BY <1>3, <1>4, <1>5

LEMMA PickStage ==
    ASSUME TypeOK, RunsAreCharged, NEW c \in Commands, Pick(c)
    PROVE  Stage'
<1>1. NewRun /\ pc' = "prepare" /\ committed' = committed /\ open' = open
  <2>1. run' = <<c, command[c].attempts + 1>> /\ command[c].attempts \in Nat
    BY DEF Pick, TypeOK, Command
  <2>2. run'[1] = c /\ run'[2] = command[c].attempts + 1 /\ run' \in Run
    BY <2>1 DEF Run
  <2>. QED  BY <2>2 DEF Pick, Begin, NewRun
<1>2. ~Charged(run')
  BY <1>1, FreshRun
<1>3. ASSUME NEW d \in Databases
      PROVE  Mine(run', committed[d]) = {} /\ Mine(run', open[d]) = {}
  <2>1. \A e \in committed[d] \cup open[d] : e \in Item /\ e[1] # run'
    BY <1>2 DEF RunsAreCharged, TypeOK
  <2>. QED  BY <2>1 DEF Mine, Item
<1>. QED  BY <1>1, <1>3 DEF Stage, Prepared, Nothing

LEMMA StageNext ==
    ASSUME TypeOK, RunIsLatest, RunsAreCharged, LostIsEmpty, Stage, [Next]_vars
    PROVE  Stage'
<1>1. ASSUME NEW c \in Commands, Pick(c) PROVE Stage'
  BY <1>1, PickStage
<1>2. CASE RunJob
  <2>1. CASE Prepare
    <3>1. CASE pc' = "error"
      BY <3>1 DEF Stage
    <3>2. CASE pc' = "script"
      <4>1. /\ run \in Run /\ run' = run /\ next' = 1
            /\ committed' = committed /\ open' = open /\ lost' = lost
        BY <2>1, <3>2 DEF Prepare, Begin, dbVars, TypeOK
      <4>2. \A d : ScriptsBefore(run, d, next)' = {}
        BY <4>1, NoScriptsBefore
      <4>. QED
        BY <2>1, <3>2, <4>1, <4>2
        DEF Prepare, Stage, Prepared, ScriptsRun, Nothing, Opened
    <3>. QED  BY <2>1, <3>1, <3>2 DEF Prepare, Begin
  <2>2. CASE RunScript
    BY <2>2, RunScriptStage
  <2>3. CASE ScriptsDone
    <3>1. /\ run \in Run /\ run' = run /\ next' = 1 /\ used' = used /\ pc' = "store"
          /\ committed' = committed /\ open' = open /\ lost' = lost /\ objects' = objects
          /\ pc = "script" /\ next \in Nat /\ next > Len(Recipe(run).scripts)
      BY <2>3 DEF ScriptsDone, Begin, dbVars, TypeOK
    <3>2. \A d : ScriptsBefore(run, d, next) = ScriptsFor(run, d)
      BY <3>1, AllScriptsBefore
    <3>3. {e \in ObjectsOf(run) : e[2] < 1} = {}
      BY <3>1, ObjectType, RunType
    <3>. QED
      BY <3>1, <3>2, <3>3
      DEF Stage, ScriptsRun, ObjectsStored, Nothing, Opened, ScriptsFor, ObjectsOf, Recipe
  <2>4. CASE StoreObject \/ ObjectsDone
    BY <2>4, StoreStage
  <2>5. ASSUME NEW d \in Databases, CommitNext(d) PROVE Stage'
    BY <2>5, CommitStage
  <2>6. ASSUME NEW d \in Databases, RollbackNext(d) PROVE Stage'
    BY <2>6, RollbackStage
  <2>7. CASE AllCommitted
    <3>1. /\ pc' = "succeeded" /\ committed' = committed /\ objects' = objects /\ run' = run
          /\ \A d \in Databases : Mine(run, committed[d]) = ScriptsFor(run, d)
          /\ ObjectsOf(run) \subseteq objects
      BY <2>7 DEF AllCommitted, Begin, dbVars, Stage, CommittedSoFar
    <3>2. Seeded(run)
      BY <3>1 DEF Seeded, Mine
    <3>. QED
      BY <3>1, <3>2 DEF Stage, Seeded, ScriptsFor, ObjectsOf, Recipe
  <2>8. CASE AllRolledBack
    BY <2>8 DEF AllRolledBack, Begin, Stage
  <2>. QED  BY <1>2, <2>1, <2>2, <2>3, <2>4, <2>5, <2>6, <2>7, <2>8 DEF RunJob
<1>3. CASE Record \/ RecordInFailedTransaction \/ RetriesRunOut \/ Crash \/ LoseOutcome
  BY <1>3 DEF Record, RecordInFailedTransaction, RetriesRunOut, Crash, LoseOutcome,
              Restart, EndRun, Stage
<1>4. CASE TimeOut
  BY <1>4 DEF TimeOut, Begin, Stage
<1>5. CASE StoreFails
  BY <1>5, StoreStage
<1>6. CASE ScriptFails
  <2>. DEFINE target == Recipe(run).scripts[next]
  <2>1. /\ pc = "script" /\ pc' = "rollback" /\ run' = run
        /\ committed' = committed /\ open' = open
        /\ used' = used \cup UsedTarget(target) /\ left' = {Default} \cup used'
    BY <1>6 DEF ScriptFails, HandleException, Begin, historyVars
  <2>2. \A d \in Databases \ left' : ScriptsBefore(run, d, next) = {}
    BY <2>1 DEF Stage, ScriptsRun
  <2>. QED
    BY <2>1, <2>2, MineEmpty
    DEF Stage, ScriptsRun, RolledBackSoFar, Nothing, Opened, LostIsEmpty
<1>7. ASSUME NEW x \in Databases, LoseConnection(x) PROVE Stage'
  <2>1. /\ open' = [open EXCEPT ![x] = {}] /\ lost' = lost \cup {x}
        /\ committed' = committed /\ objects' = objects
        /\ pc' = pc /\ run' = run /\ next' = next /\ used' = used /\ left' = left
    BY <1>7 DEF LoseConnection, EndTransaction, jobVars
  <2>2. \A d \in Databases : open'[d] = open[d] \/ (d = x /\ open'[d] = {})
    BY <2>1 DEF TypeOK
  <2>3. left \subseteq Databases
    BY DEF TypeOK
  <2>4. /\ Prepared => Prepared'
        /\ RolledBackSoFar => RolledBackSoFar'
    BY <2>1, <2>2, MineEmpty DEF Prepared, RolledBackSoFar, Nothing
  <2>5. ScriptsRun => ScriptsRun'
    BY <2>1, <2>2 DEF ScriptsRun, Nothing, Opened, ScriptsBefore, ScriptsFor, Recipe
  <2>6. ObjectsStored => ObjectsStored'
    BY <2>1, <2>2 DEF ObjectsStored, Nothing, Opened, ScriptsFor, ObjectsOf, Recipe
  <2>7. CommittedSoFar => CommittedSoFar'
    BY <2>1, <2>2, <2>3 DEF CommittedSoFar, Nothing, Opened, ScriptsFor, ObjectsOf, Recipe
  <2>8. Seeded(run) => Seeded(run)'
    BY <2>1 DEF Seeded, ScriptsFor, ObjectsOf, Recipe
  <2>. QED  BY <2>1, <2>4, <2>5, <2>6, <2>7, <2>8 DEF Stage
<1>8. CASE Wait \/ UNCHANGED vars
  BY <1>8 DEF Wait, vars, dbVars, jobVars, Stage, Prepared, ScriptsRun, ObjectsStored,
              CommittedSoFar, RolledBackSoFar, Seeded, Nothing, Opened, ScriptsBefore,
              ScriptsFor, ObjectsOf, Recipe
<1>. QED
  BY <1>1, <1>2, <1>3, <1>4, <1>5, <1>6, <1>7, <1>8 DEF Next, WorkerStep, FaultStep

-----------------------------------------------------------------------------
(* A command that is done is seeded *)

LEMMA SeedsStay ==
    ASSUME TypeOK, RunIsLatest, [Next]_vars, NEW r, Seeded(r)
    PROVE  Seeded(r)'
<1>1. \A d \in Databases : committed[d] \subseteq committed'[d]
  BY StepFlow DEF RunIsLatest, Flow, ExecuteScript
<1>2. objects \subseteq objects'
  <2>1. CASE StoreObject \/ StoreFails
    BY <2>1 DEF StoreObject, StoreFails
  <2>2. ASSUME NEW d \in Databases, CommitNext(d) \/ RollbackNext(d) \/ LoseConnection(d)
        PROVE  objects' = objects
    BY <2>2 DEF CommitNext, RollbackNext, LoseConnection
  <2>3. ASSUME NEW c \in Commands, Pick(c) PROVE objects' = objects
    BY <2>3 DEF Pick
  <2>4. CASE \/ Prepare \/ RunScript \/ ScriptsDone \/ ObjectsDone \/ AllCommitted
             \/ AllRolledBack
    BY <2>4 DEF Prepare, RunScript, ScriptsDone, ObjectsDone, AllCommitted, AllRolledBack
  <2>5. CASE \/ Record \/ RecordInFailedTransaction \/ RetriesRunOut \/ Crash
             \/ LoseOutcome \/ ScriptFails \/ TimeOut \/ Wait \/ UNCHANGED vars
    BY <2>5 DEF Record, RecordInFailedTransaction, RetriesRunOut, Crash, Restart,
                LoseOutcome, ScriptFails, TimeOut, Wait, vars
  <2>. QED  BY <2>1, <2>2, <2>3, <2>4, <2>5 DEF Next, WorkerStep, FaultStep, RunJob
<1>. QED  BY <1>1, <1>2 DEF Seeded

LEMMA DoneByRecord ==
    ASSUME TypeOK, [Next]_vars, NEW c \in Commands,
           command'[c].state = "done", command[c].state # "done"
    PROVE  Record /\ pc = "succeeded" /\ c = run[1]
<1>1. CASE Record
  BY <1>1, RunType DEF Record, TypeOK, Command
<1>2. ASSUME NEW x \in Commands, Pick(x) PROVE FALSE
  BY <1>2 DEF Pick, TypeOK, Command
<1>3. ASSUME NEW d \in Databases, CommitNext(d) \/ RollbackNext(d) \/ LoseConnection(d)
      PROVE  FALSE
  BY <1>3 DEF CommitNext, RollbackNext, LoseConnection
<1>4. CASE \/ Prepare \/ RunScript \/ ScriptsDone \/ StoreObject \/ ObjectsDone
           \/ AllCommitted \/ AllRolledBack
  BY <1>4 DEF Prepare, RunScript, ScriptsDone, StoreObject, ObjectsDone, AllCommitted,
              AllRolledBack
<1>5. CASE \/ RecordInFailedTransaction \/ RetriesRunOut \/ Crash \/ LoseOutcome
           \/ ScriptFails \/ StoreFails \/ TimeOut \/ Wait \/ UNCHANGED vars
  BY <1>5 DEF RecordInFailedTransaction, RetriesRunOut, Crash, Restart, LoseOutcome,
              ScriptFails, StoreFails, TimeOut, Wait, vars
<1>. QED  BY <1>1, <1>2, <1>3, <1>4, <1>5 DEF Next, WorkerStep, FaultStep, RunJob

LEMMA DoneNext ==
    ASSUME TypeOK, RunIsLatest, Stage, DoneMeansSeeded, [Next]_vars
    PROVE  DoneMeansSeeded'
<1>. SUFFICES ASSUME NEW c \in Commands, command'[c].state = "done"
              PROVE  \E n \in 1..command'[c].attempts : Seeded(<<c, n>>)'
  BY DEF DoneMeansSeeded
<1>1. PICK n \in Nat : Charged(<<c, n>>) /\ Seeded(<<c, n>>)
  <2>1. CASE command[c].state = "done"
    BY <2>1 DEF DoneMeansSeeded, Charged, TypeOK, Command
  <2>2. CASE command[c].state # "done"
    <3>1. pc = "succeeded" /\ c = run[1]
      BY <2>2, DoneByRecord
    <3>2. run = <<c, run[2]>> /\ run[2] \in Nat /\ Charged(run) /\ Seeded(run)
      BY <3>1, CurrentIsCharged, RunType DEF Stage
    <3>. QED  BY <3>2
  <2>. QED  BY <2>1, <2>2
<1>2. <<c, n>> \in Run
  BY DEF Run
<1>3. Charged(<<c, n>>)' /\ Seeded(<<c, n>>)'
  BY <1>1, <1>2, ChargedNext, SeedsStay
<1>. QED  BY <1>3 DEF Charged

-----------------------------------------------------------------------------
(* The theorems *)

LEMMA InvInit == Init => IInv
<1>. SUFFICES ASSUME Init PROVE IInv
  OBVIOUS
<1>1. TypeOK
  BY TypeInit
<1>2. RunIsLatest /\ RunsAreCharged /\ LostIsEmpty /\ RolledBackIsGone /\ Stage
  BY DEF Init, RunIsLatest, RunsAreCharged, LostIsEmpty, RolledBackIsGone, Stage, Running
<1>3. RunsAreWhole
  BY WholeMine, MineEmpty DEF Init, RunsAreWhole, OpenWhole
<1>4. DoneMeansSeeded
  BY DEF Init, DoneMeansSeeded
<1>. QED  BY <1>1, <1>2, <1>3, <1>4 DEF IInv

LEMMA InvNext == IInv /\ [Next]_vars => IInv'
BY TypeNext, LatestNext, ChargedRunsNext, LostNext, RolledBackNext, StageNext, WholeNext,
   DoneNext DEF IInv

LEMMA InvImplies == IInv => SeedsAreWhole
<1>. SUFFICES ASSUME IInv PROVE SeedsAreWhole
  OBVIOUS
<1>1. ASSUME NEW d \in Databases, NEW c \in Commands, NEW n \in 1..command[c].attempts
      PROVE  <<c, n>> \in unclean \/ Whole(<<c, n>>, d)
  <2>1. <<c, n>> \in Run
    BY DEF IInv, TypeOK, Command, Run
  <2>. QED  BY <2>1 DEF IInv, RunsAreWhole
<1>. QED  BY <1>1 DEF IInv, RolledBackIsGone, SeedsAreWhole

(* Seeds are whole: whatever faults, timeouts and restarts come between    *)
(* the scripts, the objects and the commits of _execute, a run that has    *)
(* neither timed out nor failed to roll back has all or nothing of its     *)
(* scripts in each database, and of a run that was rolled back nothing is  *)
(* left, neither committed nor in a transaction a later run would commit.  *)
THEOREM SeedsCorrect == Spec => []SeedsAreWhole
BY InvInit, InvNext, InvImplies, PTL DEF Spec

(* A command whose outcome says it is done has been seeded as a whole, in  *)
(* every database and in S3, by one attempt, although _execute commits the *)
(* databases one after the other and each of them may be lost.             *)
THEOREM DoneCorrect == Spec => []DoneMeansSeeded
<1>1. IInv => DoneMeansSeeded
  BY DEF IInv
<1>. QED  BY <1>1, InvInit, InvNext, PTL DEF Spec


=============================================================================
