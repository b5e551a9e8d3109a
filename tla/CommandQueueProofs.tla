-------------------------- MODULE CommandQueueProofs ------------------------
(***************************************************************************)
(* Theorems about CommandQueue, for every number of workers and commands,  *)
(* every MaxAttempts, QueueTries, MaxFaults and Horizon; the last one is   *)
(* that the queue of one worker implements CommandLifecycle.               *)
(***************************************************************************)
EXTENDS CommandQueue, SumProofs

(* Back-offs are never negative, and positive from the first retry on. *)
LEMMA BackoffGrows ==
    \A a \in 0..MaxAttempts : 2 ^ a \in Nat \ {0} /\ (a > 0 => 2 ^ a > 1)
<1>. SUFFICES ASSUME NEW a \in 0..MaxAttempts
              PROVE  2 ^ a \in Nat \ {0} /\ (a > 0 => 2 ^ a > 1)
  OBVIOUS
<1>1. 2 ^ a \in Nat \ {0} /\ (a > 0 => 2 ^ a = 2 * 2 ^ (a - 1))
  BY PowerAssumption
<1>2. a > 0 => 2 ^ (a - 1) \in Nat \ {0}
  <2>. HAVE a > 0
  <2>1. a - 1 \in 0..MaxAttempts
    BY QueueAssumption
  <2>. QED  BY <2>1, PowerAssumption
<1>. QED  BY <1>1, <1>2

LEMMA NoJobType == NoJob \in Job
BY DEF NoJob, Job

LEMMA TypeInit == Init => TypeOK /\ HandsOK
BY QueueAssumption
   DEF Init, TypeOK, HandsOK, HandsFullPC, Row, CommandState, Job, NoJob, PC,
       OutcomePC

LEMMA UnlockedType ==
    ASSUME TypeOK, NEW w \in Workers
    PROVE  Unlocked(w) \in [Commands -> Workers \cup {NoWorker}]
BY DEF TypeOK, Unlocked

LEMMA TouchedType ==
    ASSUME TypeOK, NEW c \in Commands
    PROVE  Touched(c) \subseteq Commands \X Commands
BY DEF TypeOK, Touched

LEMMA RecordedRowShape ==
    ASSUME TypeOK, NEW w \in Workers, job[w].command \in Commands
    PROVE  /\ RecordedRow(w) \in Row
           /\ RecordedRow(w).attempts = job[w].attempt
           /\ RecordedRow(w).state = IF pc[w] = "succeeded" THEN "done" ELSE "error"
           /\ RecordedRow(w).max \in {job[w].attempt, table[job[w].command].max}
           /\ RecordedRow(w).created = table[job[w].command].created
<1>. DEFINE c == job[w].command
            m == IF GivesUp(w) THEN job[w].attempt ELSE table[c].max
            s == IF pc[w] = "succeeded" THEN "done" ELSE "error"
<1>1. /\ table[c] \in Row
      /\ job[w].attempt \in Nat
  BY DEF TypeOK, Job
<1>2. m \in {job[w].attempt, table[c].max}
  OBVIOUS
<1>3. s \in CommandState
  BY DEF CommandState
<1>4. m \in Nat
  BY <1>1, <1>2 DEF Row
<1>5. RecordedRow(w) = [table[c] EXCEPT !.attempts = job[w].attempt,
                                        !.state = s, !.max = m]
  BY DEF RecordedRow
<1>. HIDE DEF m, s
<1>6. /\ RecordedRow(w) \in Row
      /\ RecordedRow(w).attempts = job[w].attempt
      /\ RecordedRow(w).state = s
      /\ RecordedRow(w).max = m
      /\ RecordedRow(w).created = table[c].created
  BY <1>1, <1>3, <1>4, <1>5 DEF Row
<1>. QED  BY <1>2, <1>6 DEF s

LEMMA EscapeType ==
    ASSUME TypeOK, HandsOK, NEW w \in Workers, NEW lost \in BOOLEAN,
           Escape(w, lost), faults' \in 0..MaxFaults
    PROVE  TypeOK' /\ HandsOK'
<1>1. TypeOK'
  BY UnlockedType, QueueAssumption
     DEF TypeOK, Escape, TriesLeft, PC, OutcomePC, Entry, Job, NoJob, historyVars
<1>2. HandsOK'
  BY DEF TypeOK, HandsOK, Escape, TriesLeft, HandsFullPC, OutcomePC, Entry, NoJob
<1>. QED  BY <1>1, <1>2

LEMMA TypeStep == TypeOK /\ HandsOK /\ [Next]_vars => TypeOK' /\ HandsOK'
<1>. SUFFICES ASSUME TypeOK, HandsOK, [Next]_vars
              PROVE  TypeOK' /\ HandsOK'
  OBVIOUS
<1>. USE QueueAssumption
<1>1. CASE Tick
  BY <1>1 DEF Tick, TypeOK, HandsOK, tableVars, processVars, historyVars
<1>2. ASSUME NEW c \in Commands, Enqueue(c)  PROVE TypeOK' /\ HandsOK'
  BY <1>2, TouchedType
     DEF Enqueue, TypeOK, HandsOK, historyVars, Row, CommandState
<1>3. ASSUME NEW c \in Commands, Ignore(c)  PROVE TypeOK' /\ HandsOK'
  BY <1>3, TouchedType
     DEF Ignore, TypeOK, HandsOK, processVars, historyVars, Row, CommandState
<1>4. ASSUME NEW w \in Workers, Launch(w)  PROVE TypeOK' /\ HandsOK'
  BY <1>4 DEF Launch, TypeOK, HandsOK, tableVars, historyVars, PC, OutcomePC,
              HandsFullPC, Entry
<1>5. ASSUME NEW w \in Workers, Listen(w)  PROVE TypeOK' /\ HandsOK'
  BY <1>5 DEF Listen, TypeOK, HandsOK, tableVars, historyVars, PC, OutcomePC,
              HandsFullPC
<1>6. ASSUME NEW w \in Workers, NEW c \in Commands, Fetch(w, c)
      PROVE  TypeOK' /\ HandsOK'
  BY <1>6 DEF Fetch, AttemptNumber, TypeOK, HandsOK, historyVars, PC, OutcomePC, Row, Job,
              HandsFullPC
<1>7. ASSUME NEW w \in Workers, FetchNothing(w)  PROVE TypeOK' /\ HandsOK'
  BY <1>7 DEF FetchNothing, TypeOK, HandsOK, tableVars, historyVars, PC,
              OutcomePC, HandsFullPC
<1>8. ASSUME NEW w \in Workers, FetchInFailedTransaction(w)
      PROVE  TypeOK' /\ HandsOK'
  BY <1>8, EscapeType DEF FetchInFailedTransaction, TypeOK
<1>9. ASSUME NEW w \in Workers, Start(w)  PROVE TypeOK' /\ HandsOK'
  <2>. DEFINE c == job[w].command
  <2>1. c \in Commands
    BY <1>9 DEF Start, HandsOK, HandsFullPC
  <2>2. job[w].attempt \in Nat
    BY DEF TypeOK, Job
  <2>3. Touched(c) \subseteq Commands \X Commands
    BY <2>1, TouchedType
  <2>4. table' \in [Commands -> Row]
    <3>0. table[c] \in Row
      BY <2>1 DEF TypeOK
    <3>1. [table[c] EXCEPT !.attempts = job[w].attempt] \in Row
      BY <3>0, <2>2 DEF Row
    <3>2. table' = [table EXCEPT ![c] = [table[c] EXCEPT !.attempts = job[w].attempt]]
      BY <1>9 DEF Start
    <3>. QED  BY <3>1, <3>2, <2>1 DEF TypeOK
  <2>8. started' \in [Commands -> Nat]
    BY <1>9, <2>1 DEF Start, TypeOK
  <2>5. lock' \in [Commands -> Workers \cup {NoWorker}]
    BY <1>9, UnlockedType DEF Start
  <2>6. TypeOK'
    BY <1>9, <2>3, <2>4, <2>5, <2>8 DEF Start, TypeOK, PC
  <2>7. HandsOK'
    BY <1>9, <2>1 DEF Start, TypeOK, HandsOK, HandsFullPC
  <2>. QED  BY <2>6, <2>7
<1>10. ASSUME NEW w \in Workers, WorkStep(w)  PROVE TypeOK' /\ HandsOK'
  <2>1. job[w].command \in Commands
    BY <1>10 DEF WorkStep, WorkSucceeds, WorkRaises, WorkTimesOut, HandsOK,
                 HandsFullPC
  <2>. QED
    BY <1>10, <2>1
       DEF WorkStep, WorkSucceeds, WorkRaises, WorkTimesOut, TypeOK, HandsOK,
           HandsFullPC, PC, OutcomePC, tableVars, historyVars
<1>11. ASSUME NEW w \in Workers, Record(w)  PROVE TypeOK' /\ HandsOK'
  <2>. DEFINE c == job[w].command
  <2>1. c \in Commands
    BY <1>11 DEF Record, HandsOK, HandsFullPC
  <2>2. Touched(c) \subseteq Commands \X Commands
    BY <2>1, TouchedType
  <2>3. RecordedRow(w) \in Row
    BY <2>1, RecordedRowShape
  <2>4. /\ table' \in [Commands -> Row]
        /\ job' \in [Workers -> Job]
        /\ lock' \in [Commands -> Workers \cup {NoWorker}]
    <3>1. table' \in [Commands -> Row]
      BY <1>11, <2>3 DEF Record, TypeOK
    <3>2. job' \in [Workers -> Job]
      BY <1>11, NoJobType DEF Record, TypeOK
    <3>3. lock' \in [Commands -> Workers \cup {NoWorker}]
      BY <1>11, UnlockedType DEF Record
    <3>. QED  BY <3>1, <3>2, <3>3
  <2>5. TypeOK'
    BY <1>11, <2>2, <2>4 DEF Record, TypeOK, PC, historyVars
  <2>6. HandsOK'
    BY <1>11 DEF Record, TypeOK, HandsOK, HandsFullPC, OutcomePC
  <2>. QED  BY <2>5, <2>6
<1>12. ASSUME NEW w \in Workers, RecordInFailedTransaction(w)
       PROVE  TypeOK' /\ HandsOK'
  BY <1>12, EscapeType DEF RecordInFailedTransaction, TypeOK
<1>13. ASSUME NEW w \in Workers, Wake(w)  PROVE TypeOK' /\ HandsOK'
  BY <1>13 DEF Wake, TypeOK, HandsOK, tableVars, historyVars, PC, OutcomePC,
               HandsFullPC
<1>14. ASSUME NEW w \in Workers, Interrupt(w)  PROVE TypeOK' /\ HandsOK'
  BY <1>14 DEF Interrupt, TypeOK, HandsOK, tableVars, historyVars
<1>15. ASSUME NEW w \in Workers, WorkFinishesLate(w) \/ WorkBreaksTransaction(w)
       PROVE  TypeOK' /\ HandsOK'
  <2>1. pc[w] = "work" /\ job[w].command \in Commands /\ faults' \in 0..MaxFaults
    BY <1>15
       DEF WorkFinishesLate, WorkBreaksTransaction, Fault, TypeOK, HandsOK,
           HandsFullPC
  <2>2. finished' \in [Commands -> Nat]
    BY <1>15, <2>1 DEF WorkFinishesLate, WorkBreaksTransaction, TypeOK
  <2>3. PICK p \in OutcomePC : pc' = [pc EXCEPT ![w] = p]
    BY <1>15 DEF WorkFinishesLate, WorkBreaksTransaction, OutcomePC
  <2>4. aborted' \in [Workers -> BOOLEAN]
    BY <1>15 DEF WorkFinishesLate, WorkBreaksTransaction, TypeOK
  <2>5. UNCHANGED <<now, table, newer, lock, job, tries, interrupted, inbox, started>>
    BY <1>15 DEF WorkFinishesLate, WorkBreaksTransaction, tableVars
  <2>. QED
    BY <2>1, <2>2, <2>3, <2>4, <2>5 DEF TypeOK, HandsOK, HandsFullPC, PC
<1>16. ASSUME NEW w \in Workers, Crash(w)  PROVE TypeOK' /\ HandsOK'
  BY <1>16, UnlockedType
     DEF Crash, Fault, TypeOK, HandsOK, HandsFullPC, PC, OutcomePC, NoJob, Job,
         historyVars
<1>17. ASSUME NEW w \in Workers, LoseConnection(w) \/ LoseStartCommit(w)
       PROVE  TypeOK' /\ HandsOK'
  <2>1. /\ pc[w] \in HandsFullPC
        /\ pc' = pc \/ pc' = [pc EXCEPT ![w] = "failed"]
        /\ aborted' \in [Workers -> BOOLEAN]
        /\ UNCHANGED <<now, table, newer, job, tries, interrupted, inbox, started, finished>>
    BY <1>17 DEF LoseConnection, LoseStartCommit, TypeOK, HandsFullPC, historyVars
  <2>2. lock' \in [Commands -> Workers \cup {NoWorker}]
    BY <1>17, UnlockedType DEF LoseConnection, LoseStartCommit
  <2>3. faults' \in 0..MaxFaults
    BY <1>17 DEF LoseConnection, LoseStartCommit, Fault, TypeOK
  <2>4. TypeOK'
    BY <2>1, <2>2, <2>3 DEF TypeOK, PC, OutcomePC
  <2>5. HandsOK'
    BY <2>1 DEF TypeOK, HandsOK, HandsFullPC, OutcomePC
  <2>. QED  BY <2>4, <2>5
<1>18. ASSUME NEW w \in Workers, LoseConnectionOutsideTry(w)
       PROVE  TypeOK' /\ HandsOK'
  <2>1. Escape(w, TRUE)
    BY <1>18 DEF LoseConnectionOutsideTry
  <2>2. faults' \in 0..MaxFaults
    BY <1>18 DEF LoseConnectionOutsideTry, Fault, TypeOK
  <2>. QED  BY <2>1, <2>2, EscapeType
<1>19. CASE UNCHANGED vars
  BY <1>19 DEF vars, TypeOK, HandsOK, tableVars, processVars, historyVars
<1>. QED
  BY <1>1, <1>2, <1>3, <1>4, <1>5, <1>6, <1>7, <1>8, <1>9, <1>10, <1>11,
     <1>12, <1>13, <1>14, <1>15, <1>16, <1>17, <1>18, <1>19
     DEF Next, WorkerStep, FaultStep, WakeOnNotification, WakeOnTimeout

(* Every reachable state of the queue is well typed, and a worker has a    *)
(* command in hand exactly between its SELECT and its outcome.             *)
THEOREM TypeCorrect == Spec => [](TypeOK /\ HandsOK)
BY TypeInit, TypeStep, PTL DEF Spec

-----------------------------------------------------------------------------
(* Most steps leave the table alone and only let go of a command, or carry *)
(* on with the one in hand.                                                *)
Quiet ==
    /\ UNCHANGED <<table, started>>
    /\ now <= now'
    /\ \A v \in Workers :
          \/ /\ job'[v] = job[v]
             /\ pc'[v] \in {"start", "work"} => pc'[v] = pc[v]
             /\ pc'[v] \in OutcomePC =>
                   \/ pc[v] \in {"work", pc'[v]}
                   \/ pc[v] = "start" /\ pc'[v] = "failed" /\ "connection" \in FaultKinds
          \/ /\ job'[v] = NoJob
             /\ pc'[v] \notin HandsFullPC

LEMMA EnvironmentRow ==
    ASSUME TypeOK, NEW c \in Commands, Enqueue(c) \/ Ignore(c)
    PROVE  /\ \A d \in Commands : d # c => table'[d] = table[d]
           /\ \/ /\ table[c].state = "absent"
                 /\ table'[c].state = "new"
                 /\ table'[c].attempts = 0
                 /\ table'[c].max = MaxAttempts
                 /\ table'[c].created = now
              \/ /\ table[c].state \in {"new", "error"}
                 /\ lock[c] = NoWorker
                 /\ table'[c].state = "ignore"
                 /\ table'[c].attempts = table[c].attempts
                 /\ table'[c].max = table[c].max
                 /\ table'[c].created = table[c].created
           /\ job' = job /\ pc' = pc
           /\ started' = started /\ finished' = finished
           /\ now' = now /\ lock' = lock /\ faults' = faults /\ aborted' = aborted
<1>1. table[c] \in Row /\ \A d \in Commands : d # c => table'[d] = table[d]
  BY DEF TypeOK, Enqueue, Ignore
<1>2. CASE Enqueue(c)
  BY <1>1, <1>2 DEF Enqueue, TypeOK, historyVars
<1>3. CASE Ignore(c)
  <2>1. table'[c] = [table[c] EXCEPT !.state = "ignore"]
    BY <1>3 DEF Ignore, TypeOK
  <2>. QED  BY <1>1, <1>3, <2>1 DEF Ignore, Row, processVars, historyVars
<1>. QED  BY <1>2, <1>3

LEMMA StartRow ==
    ASSUME TypeOK, HandsOK, NEW w \in Workers, Start(w)
    PROVE  LET c == job[w].command IN
           /\ c \in Commands
           /\ \A d \in Commands : d # c => table'[d] = table[d]
           /\ table'[c].state = table[c].state
           /\ table'[c].attempts = job[w].attempt
           /\ table'[c].max = table[c].max
           /\ table'[c].created = table[c].created
           /\ job' = job /\ now' = now
<1>1. job[w].command \in Commands
  BY DEF Start, HandsOK, HandsFullPC
<1>2. /\ table[job[w].command] \in Row
      /\ table'[job[w].command] = [table[job[w].command] EXCEPT !.attempts = job[w].attempt]
      /\ \A d \in Commands : d # job[w].command => table'[d] = table[d]
  BY <1>1 DEF Start, TypeOK
<1>. QED  BY <1>1, <1>2 DEF Start, Row

LEMMA EscapeQuiet ==
    ASSUME TypeOK, NEW w \in Workers, NEW lost \in BOOLEAN, Escape(w, lost)
    PROVE  Quiet
BY DEF TypeOK, Escape, Quiet, Entry, HandsFullPC, OutcomePC, NoJob, historyVars

(* Every step of a worker but Fetch, Start and Record is quiet. *)
QuietStep(w) ==
    \/ Launch(w) \/ Listen(w) \/ FetchNothing(w) \/ Wake(w) \/ Interrupt(w)
    \/ FetchInFailedTransaction(w) \/ RecordInFailedTransaction(w)
    \/ LoseConnectionOutsideTry(w)
    \/ WorkSucceeds(w) \/ WorkRaises(w) \/ WorkTimesOut(w)
    \/ WorkFinishesLate(w) \/ WorkBreaksTransaction(w)
    \/ Crash(w) \/ LoseConnection(w) \/ LoseStartCommit(w)

LEMMA WorkerQuiet ==
    ASSUME TypeOK, NEW w \in Workers, QuietStep(w)
    PROVE  Quiet
<1>1. CASE Launch(w) \/ Listen(w) \/ FetchNothing(w) \/ Wake(w) \/ Interrupt(w)
  BY <1>1 DEF Launch, Listen, FetchNothing, Wake, Interrupt, Quiet, TypeOK,
              Entry, HandsFullPC, OutcomePC, tableVars, historyVars
<1>2. CASE FetchInFailedTransaction(w) \/ RecordInFailedTransaction(w)
  BY <1>2, EscapeQuiet DEF FetchInFailedTransaction, RecordInFailedTransaction
<1>3. CASE LoseConnectionOutsideTry(w)
  BY <1>3, EscapeQuiet DEF LoseConnectionOutsideTry
<1>4. CASE WorkSucceeds(w) \/ WorkRaises(w) \/ WorkTimesOut(w)
  BY <1>4 DEF WorkSucceeds, WorkRaises, WorkTimesOut, Quiet, TypeOK,
              HandsFullPC, OutcomePC, tableVars, historyVars
<1>5. CASE WorkFinishesLate(w) \/ WorkBreaksTransaction(w)
  BY <1>5 DEF WorkFinishesLate, WorkBreaksTransaction, Quiet, TypeOK,
              HandsFullPC, OutcomePC, tableVars
<1>6. CASE Crash(w)
  BY <1>6 DEF Crash, Quiet, TypeOK, HandsFullPC, OutcomePC, NoJob, historyVars
<1>7. CASE LoseConnection(w) \/ LoseStartCommit(w)
  BY <1>7 DEF LoseConnection, LoseStartCommit, Fault, Quiet, TypeOK,
              HandsFullPC, OutcomePC, historyVars
<1>. QED  BY <1>1, <1>2, <1>3, <1>4, <1>5, <1>6, <1>7 DEF QuietStep

(* Every step is of one of these kinds. *)
LEMMA NextKinds ==
    ASSUME [Next]_vars
    PROVE  \/ UNCHANGED vars \/ Tick
           \/ \E c \in Commands : Enqueue(c) \/ Ignore(c)
           \/ \E w \in Workers :
                 \/ QuietStep(w)
                 \/ \E c \in Commands : Fetch(w, c)
                 \/ Start(w) \/ Record(w)
BY DEF Next, WorkerStep, WorkStep, FaultStep, QuietStep, WakeOnNotification,
       WakeOnTimeout

LEMMA StepKinds ==
    ASSUME TypeOK, HandsOK, [Next]_vars
    PROVE  \/ Quiet
           \/ \E c \in Commands : Enqueue(c) \/ Ignore(c)
           \/ \E w \in Workers, c \in Commands : Fetch(w, c)
           \/ \E w \in Workers : Start(w) \/ Record(w)
<1>1. CASE Tick
  BY <1>1 DEF Tick, Quiet, TypeOK, HandsFullPC, OutcomePC, processVars,
              tableVars, historyVars
<1>2. CASE UNCHANGED vars
  BY <1>2 DEF vars, Quiet, TypeOK, HandsFullPC, OutcomePC, processVars,
              tableVars, historyVars
<1>. QED  BY <1>1, <1>2, NextKinds, WorkerQuiet

-----------------------------------------------------------------------------
(* Attempt numbers stay within the budget. *)

LEMMA BudgetStep ==
    TypeOK /\ HandsOK /\ AttemptsWithinBudget /\ [Next]_vars
        => AttemptsWithinBudget'
<1>. SUFFICES ASSUME TypeOK, HandsOK, AttemptsWithinBudget, [Next]_vars
              PROVE  AttemptsWithinBudget'
  OBVIOUS
<1>. USE QueueAssumption
<1>1. CASE Quiet
  BY <1>1 DEF Quiet, AttemptsWithinBudget, NoJob
<1>2. ASSUME NEW c \in Commands, Enqueue(c) \/ Ignore(c)
      PROVE  AttemptsWithinBudget'
  BY <1>2, EnvironmentRow DEF AttemptsWithinBudget
<1>3. ASSUME NEW w \in Workers, NEW c \in Commands, Fetch(w, c)
      PROVE  AttemptsWithinBudget'
  <2>1. /\ table[c] \in Row
        /\ table[c].attempts < table[c].max
        /\ table[c].max <= MaxAttempts
    BY <1>3 DEF Fetch, AttemptNumber, Visible, Eligible, BackedOff, AttemptsWithinBudget, TypeOK
  <2>2. table[c].attempts + 1 <= MaxAttempts
    BY <2>1 DEF Row
  <2>3. /\ table' = table
        /\ \A v \in Workers : job'[v].attempt \in {job[v].attempt, table[c].attempts + 1}
    BY <1>3 DEF Fetch, AttemptNumber, TypeOK
  <2>. QED  BY <2>2, <2>3 DEF AttemptsWithinBudget
<1>4. ASSUME NEW w \in Workers, Start(w)
      PROVE  AttemptsWithinBudget'
  BY <1>4, StartRow DEF AttemptsWithinBudget
<1>5. ASSUME NEW w \in Workers, Record(w)
      PROVE  AttemptsWithinBudget'
  <2>1. job[w].command \in Commands
    BY <1>5 DEF Record, HandsOK, HandsFullPC
  <2>2. /\ table' = [table EXCEPT ![job[w].command] = RecordedRow(w)]
        /\ job' = [job EXCEPT ![w] = NoJob]
    BY <1>5 DEF Record
  <2>. QED
    BY <2>1, <2>2, RecordedRowShape DEF AttemptsWithinBudget, TypeOK, NoJob
<1>. QED  BY <1>1, <1>2, <1>3, <1>4, <1>5, StepKinds

(* No attempt number ever exceeds the max_attempts of the server, however  *)
(* runs overlap and whatever fails.                                        *)
THEOREM BudgetCorrect == Spec => []AttemptsWithinBudget
<1>1. Init => AttemptsWithinBudget
  BY QueueAssumption DEF Init, AttemptsWithinBudget, NoJob
<1>. QED  BY <1>1, BudgetStep, TypeCorrect, PTL DEF Spec

-----------------------------------------------------------------------------
(* Done means that the work completed. *)

(* A worker about to record a success has completed the work. *)
SuccessInv ==
    /\ DoneMeansFinished
    /\ \A w \in Workers :
          pc[w] = "succeeded" => finished[job[w].command] > 0

(* The effects of completed work are not forgotten, and only completed     *)
(* work leads to "succeeded".                                              *)
LEMMA SuccessSteps ==
    ASSUME TypeOK, HandsOK, [Next]_vars
    PROVE  /\ \A c \in Commands : finished'[c] >= finished[c]
           /\ \A v \in Workers : pc'[v] = "succeeded" =>
                 \/ pc[v] = "succeeded" /\ job'[v] = job[v]
                 \/ job[v].command \in Commands /\ job'[v] = job[v]
                    /\ finished'[job[v].command] > 0
<1>. DEFINE Goal ==
        /\ \A c \in Commands : finished'[c] >= finished[c]
        /\ \A v \in Workers : pc'[v] = "succeeded" =>
              \/ pc[v] = "succeeded" /\ job'[v] = job[v]
              \/ job[v].command \in Commands /\ job'[v] = job[v]
                 /\ finished'[job[v].command] > 0
<1>0. \A c \in Commands : finished[c] \in Nat
  BY DEF TypeOK
<1>1. ASSUME UNCHANGED finished,
             \A v \in Workers : pc'[v] = "succeeded"
                 => pc[v] = "succeeded" /\ job'[v] = job[v]
      PROVE  Goal
  BY <1>0, <1>1
<1>2. CASE Tick \/ UNCHANGED vars
  BY <1>1, <1>2 DEF Tick, vars, processVars, historyVars
<1>3. ASSUME NEW c \in Commands, Enqueue(c) \/ Ignore(c)
      PROVE  Goal
  BY <1>1, <1>3 DEF Enqueue, Ignore, processVars, historyVars
<1>4. ASSUME NEW w \in Workers,
             Launch(w) \/ Listen(w) \/ FetchNothing(w) \/ Wake(w) \/ Interrupt(w)
             \/ (\E c \in Commands : Fetch(w, c)) \/ Start(w)
      PROVE  Goal
  BY <1>1, <1>4 DEF Launch, Listen, FetchNothing, Wake, Interrupt, Fetch, Start,
                    TypeOK, Entry, historyVars
<1>5. ASSUME NEW w \in Workers, NEW lost \in BOOLEAN, Escape(w, lost)
      PROVE  Goal
  BY <1>1, <1>5 DEF Escape, TypeOK, Entry, historyVars
<1>6. ASSUME NEW w \in Workers,
             WorkRaises(w) \/ WorkTimesOut(w) \/ Record(w) \/ Crash(w)
             \/ LoseConnection(w) \/ LoseStartCommit(w)
      PROVE  Goal
  BY <1>1, <1>6 DEF WorkRaises, WorkTimesOut, Record, Crash, LoseConnection,
                    LoseStartCommit, TypeOK, historyVars
<1>7. ASSUME NEW w \in Workers,
             WorkSucceeds(w) \/ WorkFinishesLate(w) \/ WorkBreaksTransaction(w)
      PROVE  Goal
  <2>1. job[w].command \in Commands /\ job' = job
    BY <1>7 DEF WorkSucceeds, WorkFinishesLate, WorkBreaksTransaction, HandsOK,
                HandsFullPC
  <2>2. \/ /\ finished' = [finished EXCEPT ![job[w].command] = @ + 1]
           /\ \A v \in Workers : v # w => pc'[v] = pc[v]
        \/ /\ UNCHANGED finished
           /\ \A v \in Workers : v # w => pc'[v] = pc[v]
           /\ pc'[w] # "succeeded"
    BY <1>7 DEF WorkSucceeds, WorkFinishesLate, WorkBreaksTransaction, TypeOK
  <2>. QED  BY <1>0, <2>1, <2>2 DEF TypeOK
<1>. QED
  BY <1>2, <1>3, <1>4, <1>5, <1>6, <1>7
     DEF Next, WorkerStep, WorkStep, FaultStep, FetchInFailedTransaction,
         RecordInFailedTransaction, LoseConnectionOutsideTry,
         WakeOnNotification, WakeOnTimeout

LEMMA SuccessStep ==
    TypeOK /\ HandsOK /\ SuccessInv /\ [Next]_vars => SuccessInv'
<1>. SUFFICES ASSUME TypeOK, HandsOK, SuccessInv, [Next]_vars
              PROVE  SuccessInv'
  OBVIOUS
<1>0. /\ \A c \in Commands : finished[c] \in Nat
      /\ \A c \in Commands : finished'[c] \in Nat
  BY TypeStep DEF TypeOK
<1>1. \A w \in Workers : pc'[w] = "succeeded" => finished'[job'[w].command] > 0
  BY <1>0, SuccessSteps DEF SuccessInv, HandsOK, HandsFullPC, OutcomePC
<1>2. ASSUME NEW c \in Commands, table'[c].state = "done"
      PROVE  finished'[c] > 0
  <2>1. CASE table[c].state = "done"
    BY <1>0, <2>1, SuccessSteps DEF SuccessInv, DoneMeansFinished
  <2>2. CASE table[c].state # "done"
    <3>1. PICK w \in Workers : Record(w)
      <4>1. ~Quiet
        BY <1>2, <2>2 DEF Quiet
      <4>2. ~\E d \in Commands : Enqueue(d) \/ Ignore(d)
        BY <1>2, <2>2, EnvironmentRow
      <4>3. ~\E w \in Workers : Start(w) \/ \E d \in Commands : Fetch(w, d)
        BY <1>2, <2>2, StartRow DEF Fetch, AttemptNumber
      <4>. QED  BY <4>1, <4>2, <4>3, StepKinds
    <3>2. job[w].command \in Commands
      BY <3>1 DEF Record, HandsOK, HandsFullPC
    <3>3. c = job[w].command /\ pc[w] = "succeeded"
      BY <1>2, <2>2, <3>1, <3>2, RecordedRowShape DEF Record, TypeOK
    <3>. QED  BY <1>0, <3>3, SuccessSteps DEF SuccessInv
  <2>. QED  BY <2>1, <2>2
<1>. QED  BY <1>1, <1>2 DEF SuccessInv, DoneMeansFinished

(* A command is recorded as Done only after its work completed. *)
THEOREM DoneCorrect == Spec => []DoneMeansFinished
<1>1. Init => SuccessInv
  BY DEF Init, SuccessInv, DoneMeansFinished
<1>2. SuccessInv => DoneMeansFinished
  BY DEF SuccessInv
<1>. QED  BY <1>1, <1>2, SuccessStep, TypeCorrect, PTL DEF Spec

-----------------------------------------------------------------------------
(* Done and ignored rows *)

LEMMA DoneStep ==
    ASSUME TypeOK, HandsOK, [Next]_vars, NEW c \in Commands,
           table[c].state = "done", table'[c].state # "done"
    PROVE  \E w \in Workers : InFlight(w, c) /\ ~Holds(w, c)'
<1>1. PICK w \in Workers : Record(w)
  <2>1. ~Quiet
    BY DEF Quiet
  <2>2. ~\E d \in Commands : Enqueue(d) \/ Ignore(d)
    BY EnvironmentRow
  <2>3. ~\E w \in Workers : Start(w) \/ \E d \in Commands : Fetch(w, d)
    BY StartRow DEF Fetch, AttemptNumber
  <2>. QED  BY <2>1, <2>2, <2>3, StepKinds
<1>2. job[w].command = c /\ pc[w] \in OutcomePC
  BY <1>1 DEF Record, TypeOK
<1>3. job'[w] = NoJob
  BY <1>1 DEF Record, TypeOK
<1>. QED  BY <1>2, <1>3, QueueAssumption DEF InFlight, Holds, NoJob

LEMMA DoneNotPicked ==
    ASSUME TypeOK, HandsOK, [Next]_vars, NEW c \in Commands,
           table[c].state = "done", NEW w \in Workers, Holds(w, c)'
    PROVE  Holds(w, c)
<1>1. CASE Quiet
  BY <1>1, QueueAssumption DEF Quiet, Holds, NoJob
<1>2. ASSUME NEW d \in Commands, Enqueue(d) \/ Ignore(d)
      PROVE  job' = job
  BY <1>2, EnvironmentRow
<1>3. ASSUME NEW v \in Workers, NEW d \in Commands, Fetch(v, d)
      PROVE  d # c /\ job'[w].command \in {job[w].command, d}
  BY <1>3 DEF Fetch, Visible, Eligible, BackedOff, TypeOK
<1>4. ASSUME NEW v \in Workers, Start(v)
      PROVE  job' = job
  BY <1>4 DEF Start
<1>5. ASSUME NEW v \in Workers, Record(v)
      PROVE  job'[w] \in {job[w], NoJob}
  BY <1>5 DEF Record, TypeOK
<1>. QED
  BY <1>1, <1>2, <1>3, <1>4, <1>5, StepKinds, QueueAssumption DEF Holds, NoJob

(* A row that is Done is never picked again, and written over only by a    *)
(* run that had the command in hand already.                               *)
THEOREM DoneReopenedCorrect == Spec => DoneReopenedOnlyByOverlap
<1>1. TypeOK /\ HandsOK /\ [Next]_vars =>
        [\A c \in Commands :
            table[c].state = "done" =>
              /\ \A w \in Workers : Holds(w, c)' => Holds(w, c)
              /\ table'[c].state # "done"
                   => \E w \in Workers : InFlight(w, c) /\ ~Holds(w, c)']_vars
  BY DoneStep, DoneNotPicked
<1>. QED  BY <1>1, TypeCorrect, PTL DEF Spec, DoneReopenedOnlyByOverlap

LEMMA IgnoredStep ==
    ASSUME TypeOK, HandsOK, [Next]_vars, NEW c \in Commands,
           table[c].state = "ignore", \A w \in Workers : ~Holds(w, c)
    PROVE  /\ table'[c] = table[c]
           /\ \A w \in Workers : ~Holds(w, c)'
<1>1. CASE Quiet
  BY <1>1, QueueAssumption DEF Quiet, Holds, NoJob
<1>2. ASSUME NEW d \in Commands, Enqueue(d) \/ Ignore(d)
      PROVE  table'[c] = table[c] /\ job' = job
  BY <1>2, EnvironmentRow
<1>3. ASSUME NEW w \in Workers, NEW d \in Commands, Fetch(w, d)
      PROVE  /\ table' = table /\ d # c
             /\ \A v \in Workers : job'[v].command \in {job[v].command, d}
  BY <1>3 DEF Fetch, AttemptNumber, Visible, Eligible, BackedOff, TypeOK
<1>4. ASSUME NEW w \in Workers, Start(w)
      PROVE  table'[c] = table[c] /\ job' = job
  BY <1>4, StartRow DEF Holds
<1>5. ASSUME NEW w \in Workers, Record(w)
      PROVE  /\ table'[c] = table[c]
             /\ \A v \in Workers : job'[v] \in {job[v], NoJob}
  BY <1>5 DEF Record, Holds, TypeOK
<1>. QED
  BY <1>1, <1>2, <1>3, <1>4, <1>5, StepKinds, QueueAssumption DEF Holds, NoJob

(* An ignored row that nobody has in hand is never touched again. *)
THEOREM IgnoredCorrect == Spec => IgnoredStaysIgnored
<1>1. TypeOK /\ HandsOK /\ [Next]_vars =>
        [\A c \in Commands :
            table[c].state = "ignore" /\ (\A w \in Workers : ~Holds(w, c))
              => /\ table'[c] = table[c]
                 /\ \A w \in Workers : ~Holds(w, c)']_vars
  BY IgnoredStep
<1>. QED  BY <1>1, TypeCorrect, PTL DEF Spec, IgnoredStaysIgnored

-----------------------------------------------------------------------------
(* Overlap, when no connection is lost *)

(* Along with the two properties: a command in flight has been charged, a  *)
(* command in hand was inserted.                                           *)
OverlapInv ==
    /\ StartSeesFreshRow
    /\ OverlapOnlyAfterBackoff
    /\ \A w \in Workers : pc[w] \in HandsFullPC =>
          /\ job[w].attempt > 0
          /\ table[job[w].command].state # "absent"
          /\ pc[w] # "start" => table[job[w].command].attempts > 0

(* Row locks disappear only with the job of their holder. *)
LEMMA LockSteps ==
    ASSUME TypeOK, HandsOK, "connection" \notin FaultKinds, Quiet, [Next]_vars,
           NEW v \in Workers, pc'[v] = "start"
    PROVE  /\ pc[v] = "start" /\ job'[v] = job[v]
           /\ lock[job[v].command] = v => lock'[job[v].command] = v
<1>1. pc[v] = "start" /\ job'[v] = job[v] /\ job[v].command \in Commands
  BY DEF Quiet, HandsFullPC, HandsOK
<1>. DEFINE Kept(w) == lock' = lock \/ (lock' = Unlocked(w) /\ pc'[w] # "start")
<1>2. ASSUME NEW w \in Workers, Kept(w)
      PROVE  lock[job[v].command] = v => lock'[job[v].command] = v
  BY <1>1, <1>2, QueueAssumption DEF Unlocked
<1>3. CASE lock' = lock
  BY <1>1, <1>3
<1>4. ASSUME NEW w \in Workers, NEW lost \in BOOLEAN, Escape(w, lost)
      PROVE  Kept(w)
  BY <1>4 DEF Escape, Entry, TypeOK
<1>5. ASSUME NEW w \in Workers, Crash(w) \/ Record(w) \/ Start(w)
      PROVE  Kept(w)
  BY <1>5 DEF Crash, Record, Start, TypeOK
<1>6. ASSUME NEW w \in Workers, NEW c \in Commands, Fetch(w, c)
      PROVE  FALSE
  BY <1>6 DEF Fetch, AttemptNumber, Quiet, TypeOK, NoJob, HandsFullPC
<1>. QED
  BY <1>1, <1>2, <1>3, <1>4, <1>5, <1>6
     DEF Next, WorkerStep, WorkStep, FaultStep, FetchInFailedTransaction,
         RecordInFailedTransaction, LoseConnectionOutsideTry, LoseConnection,
         LoseStartCommit, Fault, WakeOnNotification, WakeOnTimeout, Wake, Tick,
         Enqueue, Ignore, Launch, Listen, FetchNothing, WorkSucceeds,
         WorkRaises, WorkTimesOut, WorkFinishesLate, WorkBreaksTransaction,
         Interrupt, tableVars, vars

LEMMA OverlapStep ==
    ASSUME TypeOK, HandsOK, AttemptsWithinBudget, OverlapInv, [Next]_vars,
           "connection" \notin FaultKinds
    PROVE  OverlapInv'
<1>0. TypeOK' /\ HandsOK'
  BY TypeStep
<1>. USE QueueAssumption
<1>1. CASE Quiet
  <2>1. table' = table /\ now <= now' /\ now \in Nat /\ now' \in Nat
    BY <1>0, <1>1 DEF Quiet, TypeOK
  <2>2. ASSUME NEW v \in Workers, pc'[v] = "start"
        PROVE  /\ lock'[job'[v].command] = v
               /\ table'[job'[v].command].attempts + 1 = job'[v].attempt
               /\ Eligible(job[v].command)'
    <3>1. /\ pc[v] = "start" /\ job'[v] = job[v]
          /\ lock[job[v].command] = v => lock'[job[v].command] = v
      BY <1>1, <2>2, LockSteps
    <3>2. job[v].command \in Commands /\ table[job[v].command] \in Row
      BY <3>1 DEF HandsOK, HandsFullPC, TypeOK
    <3>3. table[job[v].command].attempts \in 0..MaxAttempts
      BY <3>2 DEF AttemptsWithinBudget, Row
    <3>4. 2 ^ table[job[v].command].attempts \in Nat
      BY <3>3, BackoffGrows
    <3>5. Eligible(job[v].command)'
      BY <2>1, <3>1, <3>2, <3>4 DEF OverlapInv, StartSeesFreshRow, Eligible, BackedOff, Row
    <3>. QED  BY <2>1, <3>1, <3>5 DEF OverlapInv, StartSeesFreshRow
  <2>3. ASSUME NEW v \in Workers, NEW w \in Workers, NEW c \in Commands,
               v # w, Holds(v, c)', Holds(w, c)'
        PROVE  table'[c].created + 1 < now'
    <3>1. Holds(v, c) /\ Holds(w, c)
      BY <1>1, <2>3 DEF Quiet, Holds, NoJob
    <3>2. table[c].created \in Nat
      BY DEF TypeOK, Row
    <3>. QED  BY <2>1, <2>3, <3>1, <3>2 DEF OverlapInv, OverlapOnlyAfterBackoff
  <2>4. ASSUME NEW w \in Workers, pc'[w] \in HandsFullPC
        PROVE  /\ job'[w].attempt > 0
               /\ table'[job'[w].command].state # "absent"
               /\ pc'[w] # "start" => table'[job'[w].command].attempts > 0
    <3>1. job'[w] = job[w]
      BY <1>1, <2>4 DEF Quiet
    <3>2. pc[w] \in HandsFullPC /\ (pc[w] = "start" => pc'[w] = "start")
      BY <1>1, <2>4, QueueAssumption DEF Quiet, HandsFullPC, OutcomePC
    <3>. QED  BY <2>1, <2>4, <3>1, <3>2 DEF OverlapInv
  <2>. QED  BY <2>2, <2>3, <2>4 DEF OverlapInv, StartSeesFreshRow, OverlapOnlyAfterBackoff
<1>2. ASSUME NEW c \in Commands, Enqueue(c) \/ Ignore(c)
      PROVE  OverlapInv'
  <2>1. \A w \in Workers : pc[w] \in HandsFullPC =>
           /\ job[w].command \in Commands
           /\ job[w].command = c => pc[w] # "start" /\ table[c].state # "absent"
    BY <1>2, EnvironmentRow DEF OverlapInv, StartSeesFreshRow, HandsOK, Eligible, BackedOff
  <2>2. \A v \in Workers : Holds(v, c) => pc[v] \in HandsFullPC
    BY DEF HandsOK, Holds, NoJob
  <2>3. StartSeesFreshRow'
    BY <1>2, <2>1, EnvironmentRow DEF OverlapInv, StartSeesFreshRow, Eligible, BackedOff, HandsFullPC
  <2>4. OverlapOnlyAfterBackoff'
    BY <1>2, <2>1, <2>2, EnvironmentRow DEF OverlapInv, OverlapOnlyAfterBackoff, Holds
  <2>5. \A w \in Workers : pc'[w] \in HandsFullPC =>
           /\ job'[w].attempt > 0
           /\ table'[job'[w].command].state # "absent"
           /\ pc'[w] # "start" => table'[job'[w].command].attempts > 0
    BY <1>2, <2>1, EnvironmentRow DEF OverlapInv
  <2>. QED  BY <2>3, <2>4, <2>5 DEF OverlapInv
<1>3. ASSUME NEW w \in Workers, NEW c \in Commands, Fetch(w, c)
      PROVE  OverlapInv'
  <2>1. /\ pc[w] = "fetch" /\ Visible(c)
        /\ table' = table /\ now' = now
        /\ lock' = [lock EXCEPT ![c] = w]
        /\ job' = [job EXCEPT ![w] = [command |-> c,
                                      attempt |-> table[c].attempts + 1,
                                      limit |-> table[c].max]]
        /\ pc' = [pc EXCEPT ![w] = "start"]
    BY <1>3 DEF Fetch, AttemptNumber
  <2>2. table[c] \in Row /\ table[c].attempts \in 0..MaxAttempts
    BY DEF TypeOK, AttemptsWithinBudget, Row
  <2>3. ASSUME NEW v \in Workers, v # w, Holds(v, c)
        PROVE  table[c].created + 1 < now
    <3>1. pc[v] \in HandsFullPC /\ pc[v] # "start"
      BY <2>1, <2>3 DEF OverlapInv, StartSeesFreshRow, Visible, HandsOK, Holds, NoJob
    <3>2. table[c].attempts > 0
      BY <2>3, <3>1 DEF OverlapInv, Holds
    <3>3. 2 ^ table[c].attempts \in Nat /\ 2 ^ table[c].attempts > 1
      BY <2>2, <3>2, BackoffGrows
    <3>. QED  BY <2>1, <2>2, <3>3 DEF Visible, Eligible, BackedOff, Row, TypeOK
  <2>4. StartSeesFreshRow'
    <3>. SUFFICES ASSUME NEW v \in Workers, pc'[v] = "start"
                  PROVE  /\ lock'[job'[v].command] = v
                         /\ table'[job'[v].command].attempts + 1 = job'[v].attempt
                         /\ Eligible(job[v].command)'
      BY DEF StartSeesFreshRow
    <3>1. CASE v = w
      BY <2>1, <3>1 DEF Visible, Eligible, BackedOff, TypeOK
    <3>2. CASE v # w
      <4>1. pc[v] = "start" /\ job'[v] = job[v]
        BY <2>1, <3>2 DEF TypeOK
      <4>2. job[v].command \in Commands /\ job[v].command # c
        BY <2>1, <4>1 DEF OverlapInv, StartSeesFreshRow, Visible, HandsOK, HandsFullPC
      <4>. QED
        BY <2>1, <4>1, <4>2 DEF OverlapInv, StartSeesFreshRow, Eligible, BackedOff, TypeOK
    <3>. QED  BY <3>1, <3>2
  <2>5. OverlapOnlyAfterBackoff'
    <3>1. \A v \in Workers : v # w => job'[v] = job[v]
      BY <2>1 DEF TypeOK
    <3>2. job'[w].command = c
      BY <2>1 DEF TypeOK
    <3>. QED
      BY <2>1, <2>3, <3>1, <3>2 DEF OverlapInv, OverlapOnlyAfterBackoff, Holds
  <2>6. \A v \in Workers : pc'[v] \in HandsFullPC =>
           /\ job'[v].attempt > 0
           /\ table'[job'[v].command].state # "absent"
           /\ pc'[v] # "start" => table'[job'[v].command].attempts > 0
    BY <2>1, <2>2 DEF OverlapInv, Visible, Eligible, BackedOff, TypeOK
  <2>. QED  BY <2>4, <2>5, <2>6 DEF OverlapInv
<1>4. ASSUME NEW w \in Workers, Start(w) \/ Record(w)
      PROVE  OverlapInv'
  <2>. DEFINE c == job[w].command
  <2>1. /\ c \in Commands
        /\ pc[w] \in HandsFullPC
        /\ lock[c] \in {w, NoWorker}
        /\ lock' = Unlocked(w)
        /\ now' = now
    BY <1>4 DEF Start, Record, HandsOK, HandsFullPC
  <2>2. /\ \A d \in Commands : d # c => table'[d] = table[d]
        /\ table'[c].state # "absent"
        /\ table'[c].attempts = job[w].attempt
        /\ table'[c].created = table[c].created
    <3>1. CASE Start(w)
      BY <2>1, <3>1, StartRow DEF OverlapInv
    <3>2. CASE Record(w)
      <4>1. table' = [table EXCEPT ![c] = RecordedRow(w)]
        BY <3>2 DEF Record
      <4>. QED  BY <2>1, <4>1, RecordedRowShape DEF TypeOK
    <3>. QED  BY <1>4, <3>1, <3>2
  <2>3. /\ \A v \in Workers : v # w => job'[v] = job[v] /\ pc'[v] = pc[v]
        /\ pc'[w] # "start"
        /\ \/ job'[w] = job[w]
           \/ job'[w] = NoJob /\ pc'[w] \notin HandsFullPC
    BY <1>4 DEF Start, Record, TypeOK, HandsFullPC, OutcomePC
  <2>4. \A v \in Workers : pc'[v] = "start" => v # w /\ job[v].command # c
    BY <2>1, <2>3 DEF OverlapInv, StartSeesFreshRow
  <2>5. StartSeesFreshRow'
    BY <2>1, <2>2, <2>3, <2>4
       DEF OverlapInv, StartSeesFreshRow, Eligible, BackedOff, Unlocked, HandsOK, HandsFullPC
  <2>6. OverlapOnlyAfterBackoff'
    BY <2>1, <2>2, <2>3 DEF OverlapInv, OverlapOnlyAfterBackoff, Holds, NoJob
  <2>7. \A v \in Workers : pc'[v] \in HandsFullPC =>
           /\ job'[v].attempt > 0
           /\ table'[job'[v].command].state # "absent"
           /\ pc'[v] # "start" => table'[job'[v].command].attempts > 0
    BY <2>1, <2>2, <2>3 DEF OverlapInv, HandsOK
  <2>. QED  BY <2>5, <2>6, <2>7 DEF OverlapInv
<1>. QED  BY <1>1, <1>2, <1>3, <1>4, StepKinds

LEMMA OverlapInvariant ==
    ASSUME "connection" \notin FaultKinds
    PROVE  Spec => []OverlapInv
<1>1. Init => OverlapInv
  BY QueueAssumption DEF Init, OverlapInv, StartSeesFreshRow,
         OverlapOnlyAfterBackoff, HandsFullPC, OutcomePC, Holds, NoJob
<1>2. TypeOK /\ HandsOK /\ AttemptsWithinBudget /\ OverlapInv /\ [Next]_vars
        => OverlapInv'
  BY OverlapStep
<1>. QED  BY <1>1, <1>2, TypeCorrect, BudgetCorrect, PTL DEF Spec

(* As long as no connection is lost, two workers share a command only      *)
(* after its first minute.                                                 *)
THEOREM OverlapCorrect ==
    ASSUME "connection" \notin FaultKinds
    PROVE  Spec => []OverlapOnlyAfterBackoff
<1>1. OverlapInv => OverlapOnlyAfterBackoff
  BY DEF OverlapInv
<1>. QED  BY <1>1, OverlapInvariant, PTL

(* As long as no connection is lost, the SELECT and the UPDATE that        *)
(* charges the attempt see the same row.                                   *)
THEOREM StartCorrect ==
    ASSUME "connection" \notin FaultKinds
    PROVE  Spec => []StartSeesFreshRow
<1>1. OverlapInv => StartSeesFreshRow
  BY DEF OverlapInv
<1>. QED  BY <1>1, OverlapInvariant, PTL

-----------------------------------------------------------------------------
(* The number of runs, when no connection is lost.  A row with a attempts  *)
(* is worth the runs it still allows, and so is a run in flight, which     *)
(* writes its attempt number back: starting a run turns the worth of       *)
(* attempt k - 1 into that run and twice the worth of attempt k.           *)

Value(a) == 2 ^ (MaxAttempts - a) - 1

Flying(c) == [w \in Workers |-> IF InFlight(w, c) THEN Value(job[w].attempt) ELSE 0]

(* Runs of c that took place or may still do. *)
Spending(c) == started[c] + Value(table[c].attempts) + SumFunction(Flying(c))

DoublingInv ==
    \A c \in Commands :
        /\ Spending(c) <= 2 ^ MaxAttempts - 1
        /\ table[c].state = "absent" => table[c].attempts = 0

Countable(c) ==
    /\ started[c] \in Nat
    /\ Value(table[c].attempts) \in Nat
    /\ Flying(c) \in [Workers -> Int]
    /\ \A w \in Workers : Flying(c)[w] >= 0
    /\ SumFunction(Flying(c)) \in Int /\ SumFunction(Flying(c)) >= 0

LEMMA ValueOfAttempt ==
    \A a \in 0..MaxAttempts :
        Value(a) \in Nat /\ (a > 0 => Value(a - 1) = 1 + 2 * Value(a))
<1>. SUFFICES ASSUME NEW a \in 0..MaxAttempts
              PROVE  Value(a) \in Nat /\ (a > 0 => Value(a - 1) = 1 + 2 * Value(a))
  OBVIOUS
<1>. DEFINE b == MaxAttempts - a
            p == 2 ^ b
<1>1. MaxAttempts \in Nat /\ b \in 0..MaxAttempts
  BY QueueAssumption
<1>2. p \in Nat \ {0}
  BY <1>1, PowerAssumption
<1>3. a > 0 => 2 ^ (b + 1) = 2 * p
  <2>. HAVE a > 0
  <2>1. b + 1 \in 0..MaxAttempts /\ b + 1 > 0 /\ (b + 1) - 1 = b
    BY <1>1
  <2>2. 2 ^ (b + 1) = 2 * 2 ^ ((b + 1) - 1)
    BY <2>1, PowerAssumption
  <2>. QED  BY <2>1, <2>2
<1>4. MaxAttempts - (a - 1) = b + 1
  BY <1>1
<1>5. Value(a) = p - 1
  BY DEF Value
<1>6. Value(a - 1) = 2 ^ (b + 1) - 1
  BY <1>4 DEF Value
<1>. HIDE DEF b, p
<1>. QED  BY <1>2, <1>3, <1>5, <1>6

LEMMA Counting ==
    ASSUME TypeOK, AttemptsWithinBudget, NEW c \in Commands
    PROVE  Countable(c)
<1>1. started[c] \in Nat /\ Value(table[c].attempts) \in Nat
  BY ValueOfAttempt DEF TypeOK, Row, AttemptsWithinBudget
<1>2. \A w \in Workers : Value(job[w].attempt) \in Nat
  BY ValueOfAttempt DEF TypeOK, Job, AttemptsWithinBudget
<1>3. Flying(c) \in [Workers -> Int] /\ \A w \in Workers : Flying(c)[w] >= 0
  BY <1>2 DEF Flying
<1>4. SumFunction(Flying(c)) \in Int /\ SumFunction(Flying(c)) >= 0
  <2>. DEFINE zeros == [w \in Workers |-> 0]
  <2>1. zeros \in [Workers -> Int] /\ \A w \in Workers : zeros[w] <= Flying(c)[w]
    BY <1>3
  <2>2. SumFunction(zeros) = 0
    BY QueueAssumption, SumOfZeros
  <2>. HIDE DEF zeros
  <2>3. SumFunction(zeros) <= SumFunction(Flying(c))
    BY <1>3, <2>1, QueueAssumption, SumIsMonotone
  <2>. QED  BY <1>3, <2>2, <2>3, QueueAssumption, SumOfFunction
<1>. QED  BY <1>1, <1>3, <1>4 DEF Countable

AllCountable == \A c \in Commands : Countable(c)

LEMMA CountingNow == TypeOK /\ AttemptsWithinBudget => AllCountable
BY Counting DEF AllCountable

LEMMA CountingAfter == TypeOK' /\ AttemptsWithinBudget' => AllCountable'
BY CountingNow, PTL

LEMMA CountingStep ==
    ASSUME TypeOK, HandsOK, AttemptsWithinBudget, [Next]_vars
    PROVE  \A c \in Commands : Countable(c) /\ Countable(c)'
BY CountingNow, CountingAfter, TypeStep, BudgetStep DEF AllCountable

(* Where no run begins and no outcome is written, nothing is spent. *)
LEMMA NothingSpent ==
    ASSUME NEW c \in Commands, Countable(c), Countable(c)',
           started'[c] = started[c], table'[c].attempts = table[c].attempts,
           \A v \in Workers : InFlight(v, c)' => InFlight(v, c) /\ job'[v] = job[v]
    PROVE  Spending(c)' <= Spending(c)
<1>1. \A v \in Workers : Flying(c)'[v] <= Flying(c)[v]
  BY DEF Flying, Countable
<1>2. SumFunction(Flying(c)') <= SumFunction(Flying(c))
  BY <1>1, QueueAssumption, SumIsMonotone DEF Countable
<1>. QED  BY <1>2 DEF Spending, Countable

(* One run turns into two chances of the next attempt. *)
LEMMA StartSpends ==
    ASSUME TypeOK, HandsOK, OverlapInv, AttemptsWithinBudget, NEW w \in Workers, Start(w),
           NEW c \in Commands, Countable(c), Countable(c)'
    PROVE  Spending(c)' <= Spending(c)
<1>1. /\ pc[w] = "start" /\ pc' = [pc EXCEPT ![w] = "work"] /\ job' = job
      /\ job[w].command \in Commands
      /\ started' = [started EXCEPT ![job[w].command] = @ + 1]
  BY DEF Start, HandsOK, HandsFullPC
<1>2. CASE c # job[w].command
  <2>1. started'[c] = started[c] /\ table'[c] = table[c]
    BY <1>1, <1>2, StartRow DEF TypeOK
  <2>2. \A v \in Workers : InFlight(v, c)' => InFlight(v, c) /\ job'[v] = job[v]
    BY <1>1, <1>2 DEF InFlight, Holds, TypeOK
  <2>. QED  BY <2>1, <2>2, NothingSpent
<1>3. CASE c = job[w].command
  <2>. DEFINE k == job[w].attempt
  <2>1. k \in 1..MaxAttempts /\ table[c].attempts = k - 1 /\ table'[c].attempts = k
    <3>1. table[c].attempts + 1 = k /\ k > 0
      BY <1>1, <1>3 DEF OverlapInv, StartSeesFreshRow, HandsFullPC
    <3>2. table[c].attempts \in Nat /\ k \in Nat /\ k <= MaxAttempts
      BY <1>3, <1>1 DEF TypeOK, Row, Job, AttemptsWithinBudget
    <3>3. table'[c].attempts = k
      BY <1>3, StartRow
    <3>. QED  BY <3>1, <3>2, <3>3, QueueAssumption
  <2>2. Value(table[c].attempts) = 1 + 2 * Value(k) /\ Value(k) \in Nat
    BY <2>1, ValueOfAttempt
  <2>3. /\ Flying(c)[w] = 0 /\ Flying(c)'[w] = Value(k)
        /\ \A v \in Workers \ {w} : Flying(c)'[v] = Flying(c)[v]
    BY <1>1, <1>3 DEF Flying, InFlight, Holds, OutcomePC, TypeOK
  <2>4. SumFunction(Flying(c)') = SumFunction(Flying(c)) - Flying(c)[w] + Flying(c)'[w]
    BY <2>3, QueueAssumption, SumOfUpdate DEF Countable
  <2>5. started'[c] = started[c] + 1 /\ Value(table'[c].attempts) = Value(k)
    BY <1>1, <1>3, <2>1 DEF TypeOK
  <2>. HIDE DEF k
  <2>. QED  BY <2>2, <2>3, <2>4, <2>5 DEF Spending, Countable
<1>. QED  BY <1>2, <1>3

(* The outcome of a run leaves its chance to the row. *)
LEMMA RecordSpends ==
    ASSUME TypeOK, HandsOK, AttemptsWithinBudget, NEW w \in Workers, Record(w),
           NEW c \in Commands, Countable(c), Countable(c)'
    PROVE  Spending(c)' <= Spending(c)
<1>1. /\ pc[w] \in OutcomePC /\ pc' = [pc EXCEPT ![w] = "fetch"]
      /\ job' = [job EXCEPT ![w] = NoJob]
      /\ started' = started
      /\ job[w].command \in Commands
      /\ table' = [table EXCEPT ![job[w].command] = RecordedRow(w)]
  BY DEF Record, HandsOK, HandsFullPC, historyVars
<1>2. /\ Flying(c)'[w] = 0
      /\ \A v \in Workers \ {w} : Flying(c)'[v] = Flying(c)[v]
  BY <1>1, QueueAssumption DEF Flying, InFlight, Holds, OutcomePC, TypeOK, NoJob
<1>3. SumFunction(Flying(c)') = SumFunction(Flying(c)) - Flying(c)[w] + Flying(c)'[w]
  BY <1>2, QueueAssumption, SumOfUpdate DEF Countable
<1>4. Value(table'[c].attempts) <= Value(table[c].attempts) + Flying(c)[w]
  <2>1. CASE c # job[w].command
    BY <1>1, <2>1 DEF TypeOK, Countable
  <2>2. CASE c = job[w].command
    <3>1. table'[c].attempts = job[w].attempt
      BY <1>1, <2>2, RecordedRowShape DEF TypeOK
    <3>2. Flying(c)[w] = Value(job[w].attempt)
      BY <1>1, <2>2 DEF Flying, InFlight, Holds
    <3>. QED  BY <3>1, <3>2 DEF Countable
  <2>. QED  BY <2>1, <2>2
<1>. QED  BY <1>1, <1>2, <1>3, <1>4 DEF Spending, Countable

LEMMA SpendingStep ==
    ASSUME TypeOK, HandsOK, AttemptsWithinBudget, OverlapInv, DoublingInv, [Next]_vars,
           "connection" \notin FaultKinds, NEW c \in Commands
    PROVE  /\ Spending(c)' <= Spending(c)
           /\ table'[c].state = "absent" => table'[c].attempts = 0
<1>0. Countable(c) /\ Countable(c)'
  BY CountingStep
<1>1. CASE Quiet
  <2>1. \A v \in Workers : InFlight(v, c)' => InFlight(v, c) /\ job'[v] = job[v]
    BY <1>1, QueueAssumption DEF Quiet, InFlight, Holds, HandsFullPC, OutcomePC, NoJob
  <2>. QED  BY <1>0, <1>1, <2>1, NothingSpent DEF Quiet, DoublingInv
<1>2. ASSUME NEW d \in Commands, Enqueue(d) \/ Ignore(d)
      PROVE  /\ Spending(c)' <= Spending(c)
             /\ table'[c].state = "absent" => table'[c].attempts = 0
  <2>1. /\ table'[c].attempts = table[c].attempts
        /\ table'[c].state = "absent" => table[c].state = "absent"
        /\ job' = job /\ pc' = pc
    BY <1>2, EnvironmentRow DEF DoublingInv
  <2>2. started' = started
    BY <1>2 DEF Enqueue, Ignore, historyVars
  <2>3. \A v \in Workers : InFlight(v, c)' => InFlight(v, c) /\ job'[v] = job[v]
    BY <2>1 DEF InFlight, Holds
  <2>. QED  BY <1>0, <2>1, <2>2, <2>3, NothingSpent DEF DoublingInv
<1>3. ASSUME NEW w \in Workers, NEW d \in Commands, Fetch(w, d)
      PROVE  /\ Spending(c)' <= Spending(c)
             /\ table'[c].state = "absent" => table'[c].attempts = 0
  <2>1. /\ UNCHANGED <<table, started>> /\ pc'[w] = "start"
        /\ \A v \in Workers : v # w => job'[v] = job[v] /\ pc'[v] = pc[v]
    BY <1>3 DEF Fetch, TypeOK, historyVars
  <2>2. \A v \in Workers : InFlight(v, c)' => InFlight(v, c) /\ job'[v] = job[v]
    BY <2>1 DEF InFlight, Holds, OutcomePC
  <2>. QED  BY <1>0, <2>1, <2>2, NothingSpent DEF DoublingInv
<1>4. ASSUME NEW w \in Workers, Start(w)
      PROVE  /\ Spending(c)' <= Spending(c)
             /\ table'[c].state = "absent" => table'[c].attempts = 0
  <2>1. pc[w] = "start"
    BY <1>4 DEF Start
  <2>2. table[job[w].command].state # "absent"
    BY <2>1 DEF OverlapInv, HandsFullPC
  <2>3. table'[c].state = "absent" => table'[c] = table[c]
    BY <1>4, <2>2, StartRow
  <2>. QED  BY <1>0, <1>4, <2>3, StartSpends DEF DoublingInv
<1>5. ASSUME NEW w \in Workers, Record(w)
      PROVE  /\ Spending(c)' <= Spending(c)
             /\ table'[c].state = "absent" => table'[c].attempts = 0
  <2>1. /\ job[w].command \in Commands
        /\ table' = [table EXCEPT ![job[w].command] = RecordedRow(w)]
    BY <1>5 DEF Record, HandsOK, HandsFullPC
  <2>2. RecordedRow(w).state # "absent"
    BY <2>1, RecordedRowShape
  <2>3. table'[c].state = "absent" => table'[c] = table[c]
    BY <2>1, <2>2 DEF TypeOK
  <2>. QED  BY <1>0, <1>5, <2>3, RecordSpends DEF DoublingInv
<1>. QED  BY <1>1, <1>2, <1>3, <1>4, <1>5, StepKinds

LEMMA DoublingStep ==
    TypeOK /\ HandsOK /\ AttemptsWithinBudget /\ OverlapInv /\ DoublingInv /\ [Next]_vars
        /\ "connection" \notin FaultKinds => DoublingInv'
<1>. SUFFICES ASSUME TypeOK, HandsOK, AttemptsWithinBudget, OverlapInv, DoublingInv,
                     [Next]_vars, "connection" \notin FaultKinds, NEW c \in Commands
              PROVE  /\ Spending(c)' <= 2 ^ MaxAttempts - 1
                     /\ table'[c].state = "absent" => table'[c].attempts = 0
  BY DEF DoublingInv
<1>1. /\ Spending(c)' <= Spending(c)
      /\ table'[c].state = "absent" => table'[c].attempts = 0
  BY SpendingStep
<1>2. Spending(c) \in Int /\ Spending(c)' \in Int
  BY CountingStep DEF Countable, Spending
<1>3. Spending(c) <= 2 ^ MaxAttempts - 1 /\ 2 ^ MaxAttempts - 1 \in Int
  BY PowerAssumption, QueueAssumption DEF DoublingInv
<1>. QED  BY <1>1, <1>2, <1>3

LEMMA DoublingInit == Init => DoublingInv
<1>. SUFFICES ASSUME Init, NEW c \in Commands
              PROVE  /\ Spending(c) <= 2 ^ MaxAttempts - 1
                     /\ table[c].state = "absent" => table[c].attempts = 0
  BY DEF DoublingInv
<1>1. started[c] = 0 /\ table[c].attempts = 0
  BY DEF Init
<1>2. Flying(c) = [w \in Workers |-> 0]
  BY QueueAssumption DEF Init, Flying, InFlight, Holds, NoJob
<1>3. SumFunction(Flying(c)) = 0
  BY <1>2, QueueAssumption, SumOfZeros
<1>4. Value(0) = 2 ^ MaxAttempts - 1 /\ Value(0) \in Nat
  <2>1. MaxAttempts - 0 = MaxAttempts /\ 0 \in 0..MaxAttempts
    BY QueueAssumption
  <2>. QED  BY <2>1, ValueOfAttempt DEF Value
<1>. QED  BY <1>1, <1>3, <1>4 DEF Spending

(* As long as no connection is lost, stale attempt numbers double the      *)
(* chances of a command at most: it is run 2^MaxAttempts - 1 times, however *)
(* many workers there are and whatever else fails.                         *)
THEOREM DoublingCorrect ==
    ASSUME "connection" \notin FaultKinds
    PROVE  Spec => []RunsWithinDoubling
<1>1. TypeOK /\ AttemptsWithinBudget /\ DoublingInv => RunsWithinDoubling
  <2>. SUFFICES ASSUME TypeOK, AttemptsWithinBudget, DoublingInv, NEW c \in Commands
                PROVE  started[c] <= 2 ^ MaxAttempts - 1
    BY DEF RunsWithinDoubling
  <2>1. Countable(c) /\ 2 ^ MaxAttempts - 1 \in Int
    BY Counting, PowerAssumption, QueueAssumption
  <2>2. Spending(c) <= 2 ^ MaxAttempts - 1
    BY DEF DoublingInv
  <2>. QED  BY <2>1, <2>2 DEF Countable, Spending
<1>2. TypeOK /\ HandsOK /\ AttemptsWithinBudget /\ OverlapInv /\ DoublingInv /\ [Next]_vars
        => DoublingInv'
  BY DoublingStep
<1>. QED
  BY <1>1, <1>2, DoublingInit, TypeCorrect, BudgetCorrect, OverlapInvariant, PTL DEF Spec

-----------------------------------------------------------------------------
(* One worker *)

OneWorker == \A v, w \in Workers : v = w

(* The effects of c are completed and on their way to the table. *)
Credited(c) ==
    \/ table[c].state = "done"
    \/ \E w \in Workers : Holds(w, c) /\ pc[w] = "succeeded" /\ ~aborted[w]

(* With one worker the row of the command in hand changes only by the      *)
(* worker itself and by an operator that ignores it.                       *)
SingleInv ==
    /\ RunsAreCharged
    /\ \A c \in Commands : finished[c] <= faults + (IF Credited(c) THEN 1 ELSE 0)
    /\ \A c \in Commands : table[c].state = "absent" => started[c] = 0
    /\ \A w \in Workers : pc[w] \in HandsFullPC =>
          LET c == job[w].command IN
          /\ table[c].state \notin {"absent", "done"}
          /\ table[c].attempts <= job[w].attempt
          /\ pc[w] = "start" => table[c].attempts + 1 = job[w].attempt
          /\ pc[w] = "work" => finished[c] < started[c]
          /\ pc[w] \in {"start", "work"} => ~aborted[w]

LEMMA CreditOfOne ==
    ASSUME OneWorker, NEW w \in Workers, NEW c \in Commands
    PROVE  /\ Credited(c) <=> \/ table[c].state = "done"
                              \/ Holds(w, c) /\ pc[w] = "succeeded" /\ ~aborted[w]
           /\ Credited(c)' <=> \/ table'[c].state = "done"
                               \/ Holds(w, c)' /\ pc'[w] = "succeeded" /\ ~aborted'[w]
BY DEF Credited, OneWorker

(* What SingleInv says of the row in hand. *)
HandInv(w) ==
    pc[w] \in HandsFullPC =>
        LET c == job[w].command IN
        /\ table[c].state \notin {"absent", "done"}
        /\ table[c].attempts <= job[w].attempt
        /\ pc[w] = "start" => table[c].attempts + 1 = job[w].attempt
        /\ pc[w] = "work" => finished[c] < started[c]
        /\ pc[w] \in {"start", "work"} => ~aborted[w]

(* Steps that complete no work and leave the table alone. *)
LEMMA SingleQuiet ==
    ASSUME TypeOK, HandsOK, TypeOK', SingleInv, OneWorker, NEW w \in Workers,
           Quiet, UNCHANGED finished,
           faults <= faults',
           pc'[w] = "work" => ~aborted'[w],
           pc'[w] = "start" => ~aborted'[w],
           \A c \in Commands : Credited(c) => Credited(c)' \/ faults' = faults + 1
    PROVE  SingleInv'
<1>1. \A c \in Commands : started[c] \in Nat /\ finished[c] \in Nat
  BY DEF TypeOK
<1>2. RunsAreCharged'
  BY DEF SingleInv, RunsAreCharged, Quiet
<1>3. ASSUME NEW c \in Commands
      PROVE  finished'[c] <= faults' + (IF Credited(c)' THEN 1 ELSE 0)
  BY <1>1 DEF SingleInv, TypeOK
<1>4. HandInv(w)'
  BY DEF SingleInv, Quiet, HandInv, HandsFullPC, OutcomePC
<1>. QED
  BY <1>2, <1>3, <1>4 DEF SingleInv, Quiet, HandInv, OneWorker

(* Steps by which the work completes. *)
LEMMA SingleFinish ==
    ASSUME TypeOK, HandsOK, TypeOK', SingleInv, OneWorker, NEW w \in Workers,
           WorkSucceeds(w) \/ WorkFinishesLate(w) \/ WorkBreaksTransaction(w)
    PROVE  SingleInv'
<1>. DEFINE c == job[w].command
<1>1. /\ c \in Commands
      /\ pc[w] = "work" /\ pc'[w] \in OutcomePC
      /\ UNCHANGED <<table, started>>
      /\ job' = job
      /\ ~aborted[w]
  BY DEF WorkSucceeds, WorkFinishesLate, WorkBreaksTransaction, HandsOK,
         HandsFullPC, OutcomePC, TypeOK, tableVars, SingleInv
<1>2. \A d \in Commands : started[d] \in Nat /\ finished[d] \in Nat
  BY DEF TypeOK
<1>3. /\ \A d \in Commands : d # c => finished'[d] = finished[d]
      /\ finished'[c] \in {finished[c], finished[c] + 1}
      /\ \/ faults' = faults + 1
         \/ faults' = faults /\ pc'[w] = "succeeded" /\ aborted' = aborted
  BY <1>1, <1>2 DEF WorkSucceeds, WorkFinishesLate, WorkBreaksTransaction, Fault, TypeOK
<1>4. RunsAreCharged'
  BY <1>1, <1>2, <1>3 DEF SingleInv, RunsAreCharged, HandsFullPC
<1>5. ASSUME NEW d \in Commands
      PROVE  finished'[d] <= faults' + (IF Credited(d)' THEN 1 ELSE 0)
  <2>1. Credited(d) => table[d].state = "done"
    BY <1>1, CreditOfOne
  <2>2. table[d].state = "done" => d # c
    BY <1>1 DEF SingleInv, HandsFullPC
  <2>3. table[d].state = "done" => Credited(d)'
    BY <1>1, CreditOfOne
  <2>4. CASE d # c
    BY <1>1, <1>2, <1>3, <2>1, <2>3, <2>4 DEF SingleInv, TypeOK
  <2>5. CASE d = c
    <3>1. ~Credited(c)
      BY <2>1, <2>2, <2>5
    <3>2. finished[c] <= faults
      BY <1>1, <3>1 DEF SingleInv, TypeOK
    <3>3. CASE faults' = faults + 1
      BY <1>1, <1>2, <1>3, <2>5, <3>2, <3>3 DEF TypeOK
    <3>4. CASE faults' = faults /\ pc'[w] = "succeeded" /\ aborted' = aborted
      <4>1. Credited(c)'
        BY <1>1, <3>4, CreditOfOne DEF Holds
      <4>. QED  BY <1>1, <1>2, <1>3, <2>5, <3>2, <3>4, <4>1 DEF TypeOK
    <3>. QED  BY <1>3, <3>3, <3>4
  <2>. QED  BY <2>4, <2>5
<1>6. HandInv(w)'
  BY <1>1 DEF SingleInv, HandInv, HandsFullPC, OutcomePC
<1>. QED
  BY <1>1, <1>2, <1>3, <1>4, <1>5, <1>6 DEF SingleInv, HandInv, OneWorker

LEMMA SingleEnvironment ==
    ASSUME TypeOK, HandsOK, TypeOK', SingleInv, OneWorker, NEW w \in Workers,
           NEW c \in Commands, Enqueue(c) \/ Ignore(c)
    PROVE  SingleInv'
<1>0. \A d \in Commands : /\ started[d] \in Nat /\ finished[d] \in Nat
                          /\ table[d] \in Row
  BY DEF TypeOK
<1>1. RunsAreCharged'
  BY <1>0, EnvironmentRow DEF SingleInv, RunsAreCharged, Row
<1>2. \A d \in Commands : Credited(d) <=> Credited(d)'
  BY CreditOfOne, EnvironmentRow DEF Holds
<1>3. \A d \in Commands : finished'[d] <= faults' + (IF Credited(d)' THEN 1 ELSE 0)
  BY <1>2, EnvironmentRow DEF SingleInv
<1>4. \A d \in Commands : table'[d].state = "absent" => started'[d] = 0
  BY EnvironmentRow DEF SingleInv
<1>5. HandInv(w)'
  BY EnvironmentRow DEF SingleInv, HandInv, HandsOK
<1>. QED  BY <1>1, <1>3, <1>4, <1>5 DEF SingleInv, HandInv, OneWorker

LEMMA SingleFetch ==
    ASSUME TypeOK, HandsOK, TypeOK', SingleInv, OneWorker, NEW w \in Workers,
           NEW c \in Commands, Fetch(w, c)
    PROVE  SingleInv'
<1>1. /\ pc[w] = "fetch" /\ ~aborted[w] /\ aborted' = aborted
      /\ table[c].state \in {"new", "error"}
      /\ UNCHANGED <<table, started, finished, faults>>
      /\ pc'[w] = "start"
      /\ job'[w].command = c /\ job'[w].attempt = table[c].attempts + 1
      /\ table[c].attempts \in Nat
  BY DEF Fetch, AttemptNumber, Visible, Eligible, BackedOff, TypeOK, Row, historyVars
<1>2. RunsAreCharged'
  BY <1>1 DEF SingleInv, RunsAreCharged
<1>3. \A d \in Commands : Credited(d) <=> Credited(d)'
  BY <1>1, CreditOfOne DEF Holds
<1>4. \A d \in Commands : finished'[d] <= faults' + (IF Credited(d)' THEN 1 ELSE 0)
  BY <1>1, <1>3 DEF SingleInv
<1>5. HandInv(w)'
  BY <1>1 DEF HandInv
<1>. QED  BY <1>1, <1>2, <1>4, <1>5 DEF SingleInv, HandInv, OneWorker

LEMMA SingleStart ==
    ASSUME TypeOK, HandsOK, TypeOK', SingleInv, OneWorker, NEW w \in Workers,
           Start(w)
    PROVE  SingleInv'
<1>. DEFINE c == job[w].command
<1>1. /\ pc[w] = "start" /\ pc'[w] = "work" /\ aborted' = aborted
      /\ UNCHANGED <<job, finished, faults>>
      /\ started' = [started EXCEPT ![c] = @ + 1]
  BY DEF Start, TypeOK
<1>2. /\ c \in Commands
      /\ \A d \in Commands : d # c => table'[d] = table[d]
      /\ table'[c].state = table[c].state
      /\ table'[c].attempts = job[w].attempt
  BY StartRow
<1>3. \A d \in Commands : /\ started[d] \in Nat /\ finished[d] \in Nat
                          /\ table[d].attempts \in Nat
  BY DEF TypeOK, Row
<1>4. /\ started'[c] = started[c] + 1
      /\ \A d \in Commands : d # c => started'[d] = started[d]
  BY <1>1, <1>2 DEF TypeOK
<1>5. HandInv(w)
  BY DEF SingleInv, HandInv
<1>6. RunsAreCharged'
  BY <1>1, <1>2, <1>3, <1>4, <1>5 DEF SingleInv, RunsAreCharged, HandInv, HandsFullPC
<1>7. \A d \in Commands : Credited(d) <=> Credited(d)'
  BY <1>1, <1>2, CreditOfOne
<1>8. \A d \in Commands : finished'[d] <= faults' + (IF Credited(d)' THEN 1 ELSE 0)
  BY <1>1, <1>7 DEF SingleInv
<1>9. \A d \in Commands : table'[d].state = "absent" => started'[d] = 0
  BY <1>1, <1>2, <1>4, <1>5 DEF SingleInv, HandInv, HandsFullPC
<1>10. HandInv(w)'
  <2>1. job[w].attempt \in Nat
    BY DEF TypeOK, Job
  <2>2. finished[c] < started'[c]
    BY <1>2, <1>3, <1>4 DEF SingleInv, RunsAreCharged
  <2>. QED
    BY <1>1, <1>2, <1>5, <2>1, <2>2 DEF HandInv, HandsFullPC
<1>. QED  BY <1>6, <1>8, <1>9, <1>10 DEF SingleInv, HandInv, OneWorker

LEMMA SingleRecord ==
    ASSUME TypeOK, HandsOK, TypeOK', SingleInv, OneWorker, NEW w \in Workers,
           Record(w)
    PROVE  SingleInv'
<1>0. PICK c \in Commands : c = job[w].command
  BY DEF Record, HandsOK, HandsFullPC
<1>1. /\ pc[w] \in OutcomePC /\ ~aborted[w] /\ pc'[w] = "fetch"
      /\ UNCHANGED <<started, finished, faults>>
  BY DEF Record, HandsOK, HandsFullPC, TypeOK, historyVars
<1>2. /\ \A d \in Commands : d # c => table'[d] = table[d]
      /\ table'[c].state = IF pc[w] = "succeeded" THEN "done" ELSE "error"
      /\ table'[c].attempts = job[w].attempt
  BY <1>0, <1>1, RecordedRowShape DEF Record, TypeOK
<1>3. \A d \in Commands : /\ started[d] \in Nat /\ finished[d] \in Nat
                          /\ table[d].attempts \in Nat
  BY DEF TypeOK, Row
<1>4. HandInv(w) /\ job[w].attempt \in Nat
  BY DEF SingleInv, HandInv, TypeOK, Job
<1>5. RunsAreCharged'
  BY <1>0, <1>1, <1>2, <1>3, <1>4 DEF SingleInv, RunsAreCharged, HandInv, HandsFullPC
<1>6. \A d \in Commands : Credited(d) => Credited(d)'
  <2>1. \A d \in Commands : d # c /\ Credited(d) => Credited(d)'
    <3>. SUFFICES ASSUME NEW d \in Commands, d # c, Credited(d)
                  PROVE  Credited(d)'
      OBVIOUS
    <3>1. table[d].state = "done"
      BY <1>0, CreditOfOne DEF Holds
    <3>. QED  BY <1>2, <3>1, CreditOfOne
  <2>2. Credited(c) => Credited(c)'
    <3>. SUFFICES ASSUME Credited(c)
                  PROVE  Credited(c)'
      OBVIOUS
    <3>1. table[c].state # "done"
      BY <1>0, <1>1, <1>4 DEF HandInv, HandsFullPC
    <3>2. pc[w] = "succeeded"
      BY <1>1, <3>1, CreditOfOne
    <3>3. table'[c].state = "done"
      BY <1>2, <3>2
    <3>. QED  BY <3>3, CreditOfOne
  <2>. QED  BY <2>1, <2>2
<1>7. \A d \in Commands : finished'[d] <= faults' + (IF Credited(d)' THEN 1 ELSE 0)
  BY <1>1, <1>3, <1>6 DEF SingleInv, TypeOK
<1>8. \A d \in Commands : table'[d].state = "absent" => started'[d] = 0
  BY <1>1, <1>2 DEF SingleInv
<1>9. HandInv(w)'
  BY <1>1 DEF HandInv, HandsFullPC, OutcomePC
<1>. QED  BY <1>5, <1>7, <1>8, <1>9 DEF SingleInv, HandInv, OneWorker

LEMMA SingleStep ==
    ASSUME TypeOK, HandsOK, SingleInv, [Next]_vars, OneWorker
    PROVE  SingleInv'
<1>0. TypeOK' /\ HandsOK'
  BY TypeStep
<1>1. CASE UNCHANGED vars \/ Tick
  BY <1>1, <1>0 DEF vars, Tick, tableVars, processVars, historyVars, SingleInv,
                    RunsAreCharged, Credited, Holds
<1>2. ASSUME NEW c \in Commands, Enqueue(c) \/ Ignore(c)
      PROVE  SingleInv'
  <2>1. CASE \E w \in Workers : TRUE
    BY <1>0, <1>2, <2>1, SingleEnvironment
  <2>2. CASE Workers = {}
    <3>1. \A d \in Commands : table[d] \in Row /\ started[d] \in Nat
      BY DEF TypeOK
    <3>. QED
      BY <1>2, <2>2, <3>1, EnvironmentRow
         DEF SingleInv, RunsAreCharged, Credited, Row
  <2>. QED  BY <2>1, <2>2
<1>3. ASSUME NEW w \in Workers, QuietStep(w), UNCHANGED finished
      PROVE  SingleInv'
  <2>1. Quiet
    BY <1>3, WorkerQuiet
  <2>2. /\ faults' \in {faults, faults + 1} /\ faults \in Nat
        /\ aborted'[w] => aborted[w] \/ pc'[w] \notin {"start", "work"}
    BY <1>3, QueueAssumption
       DEF QuietStep, Launch, Listen, FetchNothing, Wake, Interrupt,
           FetchInFailedTransaction, RecordInFailedTransaction, Escape,
           LoseConnectionOutsideTry, WorkSucceeds, WorkRaises, WorkTimesOut,
           WorkFinishesLate, WorkBreaksTransaction, Crash, LoseConnection,
           LoseStartCommit, Fault, TypeOK, historyVars
  <2>3. pc'[w] \in {"start", "work"} => ~aborted'[w]
    BY <2>1, <2>2 DEF Quiet, SingleInv, HandsFullPC, OutcomePC
  <2>4. ASSUME NEW c \in Commands, Credited(c)
        PROVE  Credited(c)' \/ faults' = faults + 1
    <3>1. CASE table[c].state = "done"
      BY <2>1, <3>1, CreditOfOne DEF Quiet
    <3>2. CASE Holds(w, c) /\ pc[w] = "succeeded" /\ ~aborted[w]
      <4>1. \/ job' = job /\ pc' = pc /\ aborted' = aborted
            \/ faults' = faults + 1
        BY <1>3, <3>2
           DEF QuietStep, Launch, Listen, FetchNothing, Wake, Interrupt,
               FetchInFailedTransaction, RecordInFailedTransaction,
               LoseConnectionOutsideTry, WorkSucceeds, WorkRaises,
               WorkTimesOut, WorkFinishesLate, WorkBreaksTransaction, Crash,
               LoseConnection, LoseStartCommit, Fault
      <4>. QED  BY <3>2, <4>1, CreditOfOne DEF Holds
    <3>. QED  BY <2>4, <3>1, <3>2, CreditOfOne
  <2>. QED  BY <1>0, <1>3, <2>1, <2>2, <2>3, <2>4, SingleQuiet
<1>4. ASSUME NEW w \in Workers,
             WorkSucceeds(w) \/ WorkFinishesLate(w) \/ WorkBreaksTransaction(w)
      PROVE  SingleInv'
  BY <1>0, <1>4, SingleFinish
<1>5. ASSUME NEW w \in Workers, QuietStep(w),
             ~(WorkSucceeds(w) \/ WorkFinishesLate(w) \/ WorkBreaksTransaction(w))
      PROVE  UNCHANGED finished
  BY <1>5 DEF QuietStep, Launch, Listen, FetchNothing, Wake, Interrupt,
              FetchInFailedTransaction, RecordInFailedTransaction, Escape,
              LoseConnectionOutsideTry, WorkRaises, WorkTimesOut, Crash,
              LoseConnection, LoseStartCommit, historyVars
<1>6. ASSUME NEW w \in Workers, QuietStep(w)
      PROVE  SingleInv'
  BY <1>3, <1>4, <1>5, <1>6
<1>7. ASSUME NEW w \in Workers, (\E c \in Commands : Fetch(w, c)) \/ Start(w) \/ Record(w)
      PROVE  SingleInv'
  BY <1>0, <1>7, SingleFetch, SingleStart, SingleRecord
<1>. QED  BY <1>1, <1>2, <1>6, <1>7, NextKinds

LEMMA SingleInvariant ==
    ASSUME OneWorker
    PROVE  Spec => []SingleInv
<1>1. Init => SingleInv
  BY DEF Init, SingleInv, RunsAreCharged, HandsFullPC, OutcomePC
<1>2. TypeOK /\ HandsOK /\ SingleInv /\ [Next]_vars => SingleInv'
  BY SingleStep
<1>. QED  BY <1>1, <1>2, TypeCorrect, PTL DEF Spec

(* With one worker every run of the work was charged as an attempt before  *)
(* it began, and nothing completes without having been started.            *)
THEOREM ChargeCorrect ==
    ASSUME OneWorker
    PROVE  Spec => []RunsAreCharged
<1>1. SingleInv => RunsAreCharged
  BY DEF SingleInv
<1>. QED  BY <1>1, SingleInvariant, PTL

(* With one worker the effects of a command are completed at most once     *)
(* more than there were faults.                                            *)
THEOREM RepeatsCorrect ==
    ASSUME OneWorker
    PROVE  Spec => []RepeatsNeedFaults
<1>1. TypeOK /\ SingleInv => RepeatsNeedFaults
  BY QueueAssumption DEF TypeOK, SingleInv, RepeatsNeedFaults
<1>. QED  BY <1>1, SingleInvariant, TypeCorrect, PTL

(* With one worker a command that is Done is never touched again. *)
THEOREM DoneFinalCorrect ==
    ASSUME OneWorker
    PROVE  Spec => DoneIsFinal
<1>1. TypeOK /\ HandsOK /\ SingleInv /\ [Next]_vars =>
        [\A c \in Commands : table[c].state = "done" => table'[c] = table[c]]_vars
  <2>. SUFFICES ASSUME TypeOK, HandsOK, SingleInv, [Next]_vars,
                       NEW c \in Commands, table[c].state = "done"
                PROVE  table'[c] = table[c]
    OBVIOUS
  <2>1. ASSUME NEW w \in Workers, Start(w) \/ Record(w)
        PROVE  table'[c] = table[c]
    BY <2>1 DEF Start, Record, SingleInv, HandsFullPC, TypeOK
  <2>. QED
    BY <2>1, StepKinds, EnvironmentRow DEF Quiet, Fetch
<1>. QED  BY <1>1, SingleInvariant, TypeCorrect, PTL DEF Spec, DoneIsFinal

-----------------------------------------------------------------------------
(* The life cycle of a command                                             *)
(*                                                                         *)
(* What a command is in its life depends on its row and on the job of the  *)
(* worker alone.  Only Enqueue, Ignore, Start and Record, and the steps    *)
(* that let go of a job, change it, each by one step of the life cycle;    *)
(* SELECT, the work itself and everything around it are invisible.         *)
(*                                                                         *)
(* The inductive invariant: besides SingleInv, the attempt in hand has a   *)
(* place in the budget, and is charged except before and at the commit of  *)
(* the start.                                                              *)

HandIsCharged(w) ==
    pc[w] \in HandsFullPC =>
        LET c == job[w].command IN
        /\ job[w].attempt <= table[c].max
        /\ job[w].attempt <= table[c].attempts + 1
        /\ pc[w] \notin {"start", "failed"} => table[c].attempts = job[w].attempt

LifeInv ==
    /\ \A c \in Commands : table[c].state = "absent" => table[c].attempts = 0
    /\ \A w \in Workers : HandIsCharged(w)

LEMMA LifeStep ==
    ASSUME TypeOK, HandsOK, SingleInv, LifeInv, [Next]_vars, OneWorker
    PROVE  LifeInv'
<1>0. TypeOK' /\ HandsOK'
  BY TypeStep
<1>1. /\ \A c \in Commands : table[c] \in Row /\ table'[c] \in Row
      /\ \A w \in Workers : job[w] \in Job /\ job'[w] \in Job
  BY <1>0 DEF TypeOK
<1>2. CASE Quiet
  <2>1. ASSUME NEW w \in Workers PROVE HandIsCharged(w)'
    <3>1. CASE job'[w] = NoJob /\ pc'[w] \notin HandsFullPC
      BY <3>1 DEF HandIsCharged
    <3>2. CASE job'[w] = job[w] /\ pc'[w] \in HandsFullPC
      <4>1. pc[w] \in HandsFullPC
        BY <1>2, <3>2 DEF Quiet, HandsFullPC, OutcomePC, HandsOK, NoJob
      <4>2. pc'[w] \notin {"start", "failed"} => pc[w] \notin {"start", "failed"}
        BY <1>2, <3>2 DEF Quiet, HandsFullPC, OutcomePC
      <4>. QED  BY <1>2, <3>2, <4>1, <4>2 DEF Quiet, LifeInv, HandIsCharged
    <3>. QED  BY <1>2, <3>1, <3>2 DEF Quiet, HandIsCharged
  <2>. QED  BY <1>2, <2>1 DEF Quiet, LifeInv
<1>3. ASSUME NEW c \in Commands, Enqueue(c) \/ Ignore(c)
      PROVE  LifeInv'
  <2>1. \A w \in Workers : HandIsCharged(w)'
    BY <1>3, EnvironmentRow DEF LifeInv, HandIsCharged, SingleInv, HandsOK
  <2>. QED  BY <1>3, <2>1, EnvironmentRow DEF LifeInv
<1>4. ASSUME NEW w \in Workers, NEW c \in Commands, Fetch(w, c)
      PROVE  LifeInv'
  <2>1. /\ table[c].attempts < table[c].max /\ table' = table
        /\ pc'[w] = "start"
        /\ job'[w].command = c /\ job'[w].attempt = table[c].attempts + 1
    BY <1>4 DEF Fetch, AttemptNumber, Visible, Eligible, TypeOK
  <2>2. HandIsCharged(w)'
    BY <1>1, <2>1 DEF HandIsCharged, Row
  <2>. QED  BY <2>1, <2>2 DEF LifeInv, OneWorker
<1>5. ASSUME NEW w \in Workers, Start(w)
      PROVE  LifeInv'
  <2>1. pc[w] = "start" /\ pc'[w] = "work"
    BY <1>5 DEF Start, TypeOK
  <2>2. HandIsCharged(w) /\ table[job[w].command].state # "absent"
    BY <2>1 DEF LifeInv, SingleInv, HandsFullPC
  <2>3. HandIsCharged(w)'
    BY <1>1, <1>5, <2>1, <2>2, StartRow DEF HandIsCharged, HandsFullPC, Job
  <2>4. \A c \in Commands : table'[c].state = "absent" => table'[c].attempts = 0
    BY <1>5, <2>2, StartRow DEF LifeInv
  <2>. QED  BY <2>3, <2>4 DEF LifeInv, OneWorker
<1>6. ASSUME NEW w \in Workers, Record(w)
      PROVE  LifeInv'
  <2>1. job[w].command \in Commands /\ pc'[w] = "fetch"
    BY <1>6 DEF Record, HandsOK, HandsFullPC, TypeOK
  <2>2. /\ \A d \in Commands : d # job[w].command => table'[d] = table[d]
        /\ table'[job[w].command].state # "absent"
    BY <1>6, <2>1, RecordedRowShape DEF Record, TypeOK
  <2>3. HandIsCharged(w)'
    BY <2>1 DEF HandIsCharged, HandsFullPC, OutcomePC
  <2>. QED  BY <2>2, <2>3 DEF LifeInv, OneWorker
<1>. QED  BY <1>2, <1>3, <1>4, <1>5, <1>6, StepKinds

-----------------------------------------------------------------------------
(* What a command is in its life *)

(* The status of a command that nobody has in hand. *)
RestingStatus(row) ==
    CASE row.state = "absent" -> "absent"
      [] row.state = "done" -> "done"
      [] row.state \notin {"absent", "done"} ->
           IF row.attempts >= row.max THEN "exhausted"
           ELSE IF row.state = "ignore" THEN "ignored" ELSE "queued"

LEMMA StatusAtRest ==
    ASSUME NEW c \in Commands
    PROVE  /\ (\A w \in Workers : ~Holds(w, c)) => lifecycleStatus[c] = RestingStatus(table[c])
           /\ (\A w \in Workers : ~Holds(w, c)') => lifecycleStatus'[c] = RestingStatus(table'[c])
BY DEF lifecycleStatus, Picked, RestingStatus, Holds

LEMMA StatusInHand ==
    ASSUME OneWorker, NEW w \in Workers, NEW c \in Commands
    PROVE  /\ table[c].state # "absent" /\ Holds(w, c) =>
                lifecycleStatus[c] =
                  IF table[c].attempts = job[w].attempt THEN "trying" ELSE "queued"
           /\ table'[c].state # "absent" /\ Holds(w, c)' =>
                lifecycleStatus'[c] =
                  IF table'[c].attempts = job'[w].attempt THEN "trying" ELSE "queued"
BY DEF lifecycleStatus, Picked, Holds, OneWorker

(* Of a command whose row and holder stay the same nothing changes. *)
LEMMA StatusStays ==
    ASSUME NEW d \in Commands, table'[d] = table[d],
           \A w \in Workers : Holds(w, d) \/ Holds(w, d)' => job'[w] = job[w]
    PROVE  lifecycleStatus'[d] = lifecycleStatus[d]
<1>1. /\ \A w \in Workers : Holds(w, d)' <=> Holds(w, d)
      /\ Picked(d)' <=> Picked(d)
  BY DEF Picked, Holds
<1>. QED  BY <1>1 DEF lifecycleStatus

(* What may become of one command in one step. *)
Moves(c) ==
    LET was   == lifecycleStatus[c]
        is    == lifecycleStatus'[c]
        tried == table[c].attempts
    IN \/ /\ table'[c].attempts = tried
          /\ \/ is = was
             \/ was = "absent" /\ is = "queued"
             \/ was \in {"queued", "trying"} /\ is = "ignored"
             \/ was = "trying" /\ is \in {"done", "exhausted"}
             \/ was = "trying" /\ is = "queued" /\ tried < MaxAttempts
       \/ /\ table'[c].attempts = tried + 1 /\ tried < MaxAttempts
          /\ was = "queued"
          /\ \/ is \in {"trying", "exhausted"}
             \/ is = "queued" /\ tried + 1 < MaxAttempts

LEMMA MoveIsStep ==
    ASSUME NEW c \in Commands, table[c].attempts \in Nat, Moves(c),
           \A d \in Commands \ {c} : /\ lifecycleStatus'[d] = lifecycleStatus[d]
                                     /\ table'[d].attempts = table[d].attempts
    PROVE  [Lifecycle!Next]_(Lifecycle!lifecycleVars)
<1>. DEFINE was == lifecycleStatus[c]
            is  == lifecycleStatus'[c]
<1>0. /\ lifecycleStatus \in [Commands -> Lifecycle!Status]
      /\ lifecycleStatus' \in [Commands -> Lifecycle!Status]
  BY DEF lifecycleStatus, Lifecycle!Status, Lifecycle!Final
<1>1. lifecycleStatus' = [lifecycleStatus EXCEPT ![c] = is]
  BY <1>0
<1>2. lifecycleTried' = [lifecycleTried EXCEPT ![c] = table'[c].attempts]
  BY DEF lifecycleTried
<1>3. lifecycleTried[c] = table[c].attempts /\ lifecycleTried'[c] = table'[c].attempts
  BY DEF lifecycleTried
<1>4. table'[c].attempts = table[c].attempts => lifecycleTried' = lifecycleTried
  BY DEF lifecycleTried
<1>5. is = was => lifecycleStatus' = lifecycleStatus
  BY <1>0
<1>. HIDE DEF was, is
<1>6. CASE table'[c].attempts = table[c].attempts /\ is = was
  BY <1>4, <1>5, <1>6 DEF Lifecycle!lifecycleVars
<1>7. CASE table'[c].attempts = table[c].attempts /\ is # was
  <2>1. lifecycleTried' = lifecycleTried
    BY <1>4, <1>7
  <2>2. CASE was = "absent" /\ is = "queued"
    BY <1>1, <2>1, <2>2 DEF Lifecycle!Next, Lifecycle!Submit, Lifecycle!Become, was
  <2>3. CASE was \in {"queued", "trying"} /\ is = "ignored"
    BY <1>1, <2>1, <2>3 DEF Lifecycle!Next, Lifecycle!Cancel, Lifecycle!Become, was
  <2>4. CASE was = "trying" /\ is = "done"
    BY <1>1, <2>1, <2>4 DEF Lifecycle!Next, Lifecycle!Succeed, Lifecycle!Become, was
  <2>5. CASE was = "trying" /\ (is = "exhausted" \/ (is = "queued" /\ table[c].attempts < MaxAttempts))
    BY <1>1, <1>3, <2>1, <2>5 DEF Lifecycle!Next, Lifecycle!Fail, Lifecycle!Become, was
  <2>6. \/ was = "absent" /\ is = "queued"
        \/ was \in {"queued", "trying"} /\ is = "ignored"
        \/ was = "trying" /\ is = "done"
        \/ was = "trying" /\ (is = "exhausted" \/ (is = "queued" /\ table[c].attempts < MaxAttempts))
    BY <1>7 DEF Moves, was, is
  <2>. QED  BY <2>2, <2>3, <2>4, <2>5, <2>6
<1>8. CASE table'[c].attempts # table[c].attempts
  <2>1. /\ was = "queued" /\ table[c].attempts < MaxAttempts
        /\ table'[c].attempts = table[c].attempts + 1
        /\ \/ is \in {"trying", "exhausted"}
           \/ is = "queued" /\ table'[c].attempts < MaxAttempts
    BY <1>8 DEF Moves, was, is
  <2>2. Lifecycle!Charge(c)
    BY <1>2, <1>3, <2>1 DEF Lifecycle!Charge
  <2>3. CASE is = "trying"
    BY <1>1, <2>1, <2>2, <2>3 DEF Lifecycle!Next, Lifecycle!Try, Lifecycle!Become, was
  <2>4. CASE is = "exhausted"
    BY <1>1, <2>1, <2>2, <2>4 DEF Lifecycle!Next, Lifecycle!FailToStart, Lifecycle!Become, was
  <2>5. CASE is = "queued" /\ table'[c].attempts < MaxAttempts
    BY <1>3, <1>5, <2>1, <2>2, <2>5 DEF Lifecycle!Next, Lifecycle!FailToStart, was
  <2>. QED  BY <2>1, <2>3, <2>4, <2>5
<1>. QED  BY <1>6, <1>7, <1>8

-----------------------------------------------------------------------------
(* Every step of the queue *)

(* What the invariants say of the command in hand. *)
LEMMA InHand ==
    ASSUME TypeOK, HandsOK, SingleInv, LifeInv, AttemptsWithinBudget,
           NEW w \in Workers, NEW c \in Commands, Holds(w, c)
    PROVE  /\ pc[w] \in HandsFullPC
           /\ table[c].state \in {"new", "error", "ignore"}
           /\ table[c].attempts \in Nat /\ table[c].max \in Nat /\ job[w].attempt \in Nat
           /\ job[w].attempt \in {table[c].attempts, table[c].attempts + 1}
           /\ job[w].attempt <= table[c].max
           /\ table[c].max <= MaxAttempts
           /\ pc[w] = "start" => job[w].attempt = table[c].attempts + 1
           /\ pc[w] \notin {"start", "failed"} => job[w].attempt = table[c].attempts
<1>1. pc[w] \in HandsFullPC
  BY QueueAssumption DEF HandsOK, Holds, NoJob
<1>2. table[c] \in Row /\ job[w] \in Job /\ job[w].command = c
  BY DEF TypeOK, Holds
<1>3. /\ table[c].state \notin {"absent", "done"}
      /\ table[c].attempts <= job[w].attempt
      /\ pc[w] = "start" => table[c].attempts + 1 = job[w].attempt
      /\ HandIsCharged(w)
  BY <1>1, <1>2 DEF SingleInv, LifeInv
<1>. QED
  BY <1>1, <1>2, <1>3 DEF HandIsCharged, Row, CommandState, Job, AttemptsWithinBudget

LEMMA QuietMoves ==
    ASSUME TypeOK, HandsOK, SingleInv, LifeInv, AttemptsWithinBudget, OneWorker, Quiet,
           NEW w \in Workers, job'[w] # job[w]
    PROVE  [Lifecycle!Next]_(Lifecycle!lifecycleVars)
<1>1. PICK c \in Commands : Holds(w, c)
  BY DEF Quiet, HandsOK, HandsFullPC, Holds
<1>2. /\ table' = table
      /\ job'[w].command = NoCommand
      /\ \A d \in Commands : ~Holds(w, d)'
  BY QueueAssumption DEF Quiet, NoJob, Holds
<1>3. /\ lifecycleStatus'[c] = RestingStatus(table[c])
      /\ lifecycleStatus[c] =
           IF table[c].attempts = job[w].attempt THEN "trying" ELSE "queued"
  BY <1>1, <1>2, StatusAtRest, StatusInHand, InHand DEF OneWorker
<1>4. /\ table[c].state \in {"new", "error", "ignore"}
      /\ table[c].attempts \in Nat /\ table[c].max \in Nat /\ MaxAttempts \in Nat
      /\ job[w].attempt \in {table[c].attempts, table[c].attempts + 1}
      /\ job[w].attempt <= table[c].max /\ table[c].max <= MaxAttempts
  BY <1>1, InHand, QueueAssumption
<1>5. Moves(c)
  <2>1. CASE table[c].attempts = job[w].attempt
    BY <1>2, <1>3, <1>4, <2>1 DEF Moves, RestingStatus
  <2>2. CASE table[c].attempts # job[w].attempt
    <3>1. table[c].attempts < table[c].max
      BY <1>4, <2>2
    <3>2. lifecycleStatus'[c] = IF table[c].state = "ignore" THEN "ignored" ELSE "queued"
      BY <1>3, <1>4, <3>1 DEF RestingStatus
    <3>. QED  BY <1>2, <1>3, <2>2, <3>2 DEF Moves
  <2>. QED  BY <2>1, <2>2
<1>6. \A d \in Commands \ {c} : lifecycleStatus'[d] = lifecycleStatus[d]
  BY <1>1, <1>2, StatusStays DEF Holds, OneWorker
<1>. QED  BY <1>2, <1>4, <1>5, <1>6, MoveIsStep

LEMMA EnvironmentMoves ==
    ASSUME TypeOK, HandsOK, SingleInv, LifeInv, AttemptsWithinBudget, OneWorker,
           NEW c \in Commands, Enqueue(c) \/ Ignore(c)
    PROVE  [Lifecycle!Next]_(Lifecycle!lifecycleVars)
<1>1. /\ \A d \in Commands : d # c => table'[d] = table[d]
      /\ job' = job
  BY EnvironmentRow
<1>2. \A d \in Commands \ {c} : lifecycleStatus'[d] = lifecycleStatus[d]
  BY <1>1, StatusStays
<1>3. table[c] \in Row
  BY DEF TypeOK
<1>4. CASE \E w \in Workers : Holds(w, c)
  <2>1. PICK w \in Workers : Holds(w, c)
    BY <1>4
  <2>2. table[c].state # "absent" /\ Holds(w, c)'
    BY <1>1, <2>1, InHand DEF Holds
  <2>3. /\ table'[c].state = "ignore" /\ table'[c].attempts = table[c].attempts
    BY <2>2, EnvironmentRow
  <2>4. lifecycleStatus'[c] = lifecycleStatus[c]
    BY <1>1, <2>1, <2>2, <2>3, StatusInHand
  <2>. QED  BY <1>1, <1>2, <1>3, <2>3, <2>4, MoveIsStep DEF Moves, Row
<1>5. CASE \A w \in Workers : ~Holds(w, c)
  <2>1. /\ lifecycleStatus[c] = RestingStatus(table[c])
        /\ lifecycleStatus'[c] = RestingStatus(table'[c])
    BY <1>1, <1>5, StatusAtRest DEF Holds
  <2>2. Moves(c)
    BY <1>3, <2>1, EnvironmentRow, QueueAssumption DEF Moves, RestingStatus, LifeInv, Row
  <2>. QED  BY <1>1, <1>2, <1>3, <2>2, MoveIsStep DEF Row
<1>. QED  BY <1>4, <1>5

LEMMA FetchMoves ==
    ASSUME TypeOK, HandsOK, SingleInv, LifeInv, AttemptsWithinBudget, OneWorker,
           NEW w \in Workers, NEW c \in Commands, Fetch(w, c)
    PROVE  [Lifecycle!Next]_(Lifecycle!lifecycleVars)
<1>1. /\ table' = table /\ table[c] \in Row
      /\ table[c].state \in {"new", "error"} /\ table[c].attempts < table[c].max
      /\ job[w] = NoJob
      /\ job'[w].command = c /\ job'[w].attempt = table[c].attempts + 1
  BY DEF Fetch, AttemptNumber, Visible, Eligible, TypeOK, HandsOK, HandsFullPC, OutcomePC
<1>2. \A d \in Commands : ~Holds(w, d)
  BY <1>1, QueueAssumption DEF NoJob, Holds
<1>3. \A d \in Commands \ {c} : lifecycleStatus'[d] = lifecycleStatus[d]
  BY <1>1, <1>2, StatusStays DEF Holds, OneWorker
<1>4. lifecycleStatus[c] = "queued"
  BY <1>1, <1>2, StatusAtRest DEF RestingStatus, OneWorker, Row
<1>5. lifecycleStatus'[c] = "queued"
  BY <1>1, StatusInHand DEF Holds, Row
<1>. QED  BY <1>1, <1>3, <1>4, <1>5, MoveIsStep DEF Moves, Row

LEMMA StartMoves ==
    ASSUME TypeOK, HandsOK, SingleInv, LifeInv, AttemptsWithinBudget, OneWorker,
           NEW w \in Workers, Start(w)
    PROVE  [Lifecycle!Next]_(Lifecycle!lifecycleVars)
<1>1. PICK c \in Commands : c = job[w].command
  BY StartRow
<1>2. /\ pc[w] = "start" /\ job' = job /\ Holds(w, c) /\ Holds(w, c)'
      /\ \A d \in Commands : d # c => table'[d] = table[d]
      /\ table'[c].state = table[c].state
      /\ table'[c].attempts = job[w].attempt
  BY <1>1, StartRow DEF Start, Holds
<1>3. /\ table[c].state # "absent"
      /\ job[w].attempt = table[c].attempts + 1 /\ table[c].attempts \in Nat
      /\ table[c].attempts < MaxAttempts
  BY <1>2, InHand, QueueAssumption
<1>4. \A d \in Commands \ {c} : lifecycleStatus'[d] = lifecycleStatus[d]
  BY <1>2, StatusStays
<1>5. lifecycleStatus[c] = "queued" /\ lifecycleStatus'[c] = "trying"
  BY <1>2, <1>3, StatusInHand
<1>. QED  BY <1>2, <1>3, <1>4, <1>5, MoveIsStep DEF Moves

LEMMA RecordMoves ==
    ASSUME TypeOK, HandsOK, SingleInv, LifeInv, AttemptsWithinBudget, OneWorker,
           NEW w \in Workers, Record(w)
    PROVE  [Lifecycle!Next]_(Lifecycle!lifecycleVars)
<1>1. PICK c \in Commands : c = job[w].command
  BY DEF Record, HandsOK, HandsFullPC
<1>2. /\ pc[w] \in OutcomePC /\ Holds(w, c)
      /\ \A d \in Commands : ~Holds(w, d)'
      /\ \A d \in Commands : d # c => table'[d] = table[d]
      /\ table'[c] = RecordedRow(w)
  BY <1>1, QueueAssumption DEF Record, TypeOK, Holds, NoJob
<1>3. /\ RecordedRow(w) \in Row
      /\ RecordedRow(w).attempts = job[w].attempt
      /\ RecordedRow(w).state = IF pc[w] = "succeeded" THEN "done" ELSE "error"
      /\ RecordedRow(w).max \in {job[w].attempt, table[c].max}
  BY <1>1, RecordedRowShape
<1>4. \A d \in Commands \ {c} : lifecycleStatus'[d] = lifecycleStatus[d]
  BY <1>2, StatusStays DEF Holds, OneWorker
<1>5. /\ lifecycleStatus'[c] = RestingStatus(RecordedRow(w))
      /\ lifecycleStatus[c] =
           IF table[c].attempts = job[w].attempt THEN "trying" ELSE "queued"
  BY <1>2, StatusAtRest, StatusInHand, InHand DEF OneWorker
<1>6. Moves(c)
  <2>1. /\ job[w].attempt \in {table[c].attempts, table[c].attempts + 1}
        /\ table[c].attempts \in Nat /\ table[c].max \in Nat /\ MaxAttempts \in Nat
        /\ job[w].attempt <= table[c].max /\ table[c].max <= MaxAttempts
        /\ pc[w] = "succeeded" => job[w].attempt = table[c].attempts
    BY <1>2, InHand, QueueAssumption
  <2>2. CASE pc[w] = "succeeded"
    BY <1>2, <1>3, <1>5, <2>1, <2>2 DEF Moves, RestingStatus
  <2>3. CASE pc[w] # "succeeded"
    <3>1. lifecycleStatus'[c] = IF job[w].attempt >= RecordedRow(w).max
                                THEN "exhausted" ELSE "queued"
      BY <1>3, <1>5, <2>3 DEF RestingStatus
    <3>2. job[w].attempt < RecordedRow(w).max => job[w].attempt < MaxAttempts
      BY <1>3, <2>1
    <3>. QED  BY <1>2, <1>3, <1>5, <2>1, <3>1, <3>2 DEF Moves
  <2>. QED  BY <2>2, <2>3
<1>7. table[c].attempts \in Nat
  BY <1>2, InHand
<1>. QED  BY <1>2, <1>4, <1>6, <1>7, MoveIsStep

LEMMA EveryStepMoves ==
    ASSUME TypeOK, HandsOK, SingleInv, LifeInv, AttemptsWithinBudget, OneWorker, [Next]_vars
    PROVE  [Lifecycle!Next]_(Lifecycle!lifecycleVars)
<1>1. CASE Quiet /\ job' = job
  <2>1. \A d \in Commands : lifecycleStatus'[d] = lifecycleStatus[d]
    BY <1>1, StatusStays DEF Quiet
  <2>2. lifecycleStatus' = lifecycleStatus /\ lifecycleTried' = lifecycleTried
    BY <1>1, <2>1 DEF lifecycleStatus, lifecycleTried, Quiet
  <2>. QED  BY <2>2 DEF Lifecycle!lifecycleVars
<1>2. CASE Quiet /\ job' # job
  <2>1. TypeOK'
    BY TypeStep
  <2>2. PICK w \in Workers : job'[w] # job[w]
    BY <1>2, <2>1 DEF TypeOK
  <2>. QED  BY <1>2, <2>2, QuietMoves
<1>. QED
  BY <1>1, <1>2, StepKinds, EnvironmentMoves, FetchMoves, StartMoves, RecordMoves

LEMMA LifeInit == Init => LifeInv /\ Lifecycle!Init
<1>. SUFFICES ASSUME Init PROVE LifeInv /\ Lifecycle!Init
  OBVIOUS
<1>1. LifeInv
  BY DEF Init, LifeInv, HandIsCharged, HandsFullPC, OutcomePC
<1>2. \A c \in Commands : lifecycleStatus[c] = "absent" /\ lifecycleTried[c] = 0
  BY StatusAtRest, QueueAssumption
     DEF Init, RestingStatus, Holds, NoJob, lifecycleTried
<1>3. /\ lifecycleStatus = [c \in Commands |-> "absent"]
      /\ lifecycleTried = [c \in Commands |-> 0]
  BY <1>2 DEF lifecycleStatus, lifecycleTried
<1>. QED  BY <1>1, <1>3 DEF Lifecycle!Init

(* With one worker process the queue implements the life cycle: a command  *)
(* is tried one attempt at a time, at most MaxAttempts times, each charged *)
(* before it begins, and done, ignored and exhausted are final, whatever   *)
(* dies, times out or is lost.                                             *)
THEOREM LifecycleCorrect ==
    ASSUME OneWorker
    PROVE  Spec => ImplementsLifecycle
<1>1. TypeOK /\ HandsOK /\ SingleInv /\ LifeInv /\ [Next]_vars => LifeInv'
  BY LifeStep
<1>2. TypeOK /\ HandsOK /\ SingleInv /\ LifeInv /\ AttemptsWithinBudget /\ [Next]_vars
        => [Lifecycle!Next]_(Lifecycle!lifecycleVars)
  BY EveryStepMoves
<1>. QED
  BY <1>1, <1>2, LifeInit, TypeCorrect, BudgetCorrect, SingleInvariant, PTL
     DEF Spec, ImplementsLifecycle, Lifecycle!Spec

=============================================================================
