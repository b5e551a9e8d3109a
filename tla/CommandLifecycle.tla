-------------------------- MODULE CommandLifecycle --------------------------
(***************************************************************************)
(* What the server that inserts a command may rely on when one worker      *)
(* process serves the component: a command is tried at most MaxAttempts    *)
(* times, one attempt at a time, every attempt is charged before it        *)
(* begins, and done, ignored and exhausted are final.                      *)
(***************************************************************************)
EXTENDS Naturals

CONSTANTS Commands, MaxAttempts

VARIABLES
    status,   \* where the command is in its life
    tried     \* number of attempts charged to it

lifecycleVars == <<status, tried>>

Final == {"done", "ignored", "exhausted"}

Status == {"absent", "queued", "trying"} \cup Final

Init ==
    /\ status = [c \in Commands |-> "absent"]
    /\ tried = [c \in Commands |-> 0]

Become(c, s) == status' = [status EXCEPT ![c] = s]

Charge(c) ==
    /\ tried[c] < MaxAttempts
    /\ tried' = [tried EXCEPT ![c] = @ + 1]

Submit(c) ==
    /\ status[c] = "absent"
    /\ Become(c, "queued")
    /\ UNCHANGED tried

(* Taken out by an operator before an attempt or with the attempt it       *)
(* interrupted.                                                            *)
Cancel(c) ==
    /\ status[c] \in {"queued", "trying"}
    /\ Become(c, "ignored")
    /\ UNCHANGED tried

Try(c) ==
    /\ status[c] = "queued"
    /\ Charge(c)
    /\ Become(c, "trying")

(* The attempt is charged and fails before the work begins. *)
FailToStart(c) ==
    /\ status[c] = "queued"
    /\ Charge(c)
    /\ \/ tried'[c] < MaxAttempts /\ UNCHANGED status
       \/ Become(c, "exhausted")

Succeed(c) ==
    /\ status[c] = "trying"
    /\ Become(c, "done")
    /\ UNCHANGED tried

(* Back to the queue while attempts remain; given up otherwise, or when    *)
(* the worker says that another attempt is useless.                        *)
Fail(c) ==
    /\ status[c] = "trying"
    /\ \/ tried[c] < MaxAttempts /\ Become(c, "queued")
       \/ Become(c, "exhausted")
    /\ UNCHANGED tried

Next ==
    \E c \in Commands :
        \/ Submit(c) \/ Cancel(c) \/ Try(c) \/ FailToStart(c)
        \/ Succeed(c) \/ Fail(c)

Spec == Init /\ [][Next]_lifecycleVars

=============================================================================
