------------------------------ MODULE Scheduler ------------------------------
(***************************************************************************)
(* What the cooperative thread library of lab 2 promises its clients,      *)
(* without stacks, contexts, lazy reaping or the pointer list: each slot   *)
(* is free, READY, RUNNING or KILLED; exactly one thread runs; the ready   *)
(* threads wait in strict FIFO order, a yield runs the one that has waited *)
(* longest (or the one asked for) and puts the caller at the back; exit    *)
(* frees the caller's slot and runs the next thread, or ends the process.  *)
(* An EXITED slot that is not yet reaped is free here: no call can tell    *)
(* the two apart.                                                          *)
(***************************************************************************)
EXTENDS Integers, SequencesExt

CONSTANT Tid

VARIABLES
    st,        \* the state of each slot
    ready,     \* the ready queue, longest waiting first
    running,   \* the running thread
    ended      \* the process has exited

vars == <<st, ready, running, ended>>

Init ==
    /\ st = [t \in Tid |-> IF t = 0 THEN "RUNNING" ELSE "FREE"]
    /\ ready = <<>>
    /\ running = 0
    /\ ended = FALSE

\* The running thread, whose state is s[running], hands the CPU to new;
\* rq is the ready queue afterwards.
Switch(s, new, rq) ==
    /\ running' = new
    /\ ready' = rq
    /\ st' = [s EXCEPT ![running] = IF @ = "FREE" THEN @ ELSE "READY",
                       ![new] = "RUNNING"]
    /\ UNCHANGED ended

Create(t) ==
    /\ st[t] = "FREE"
    /\ st' = [st EXCEPT ![t] = "READY"]
    /\ ready' = Append(ready, t)
    /\ UNCHANGED <<running, ended>>

Yield ==
    /\ ready # <<>>
    /\ Switch(st, Head(ready), Append(Tail(ready), running))

YieldTo(t) ==
    /\ t \in ToSet(ready)
    /\ Switch(st, t, Append(RemoveFirst(ready, t), running))

Exit ==
    LET s == [st EXCEPT ![running] = "FREE"] IN
    IF ready # <<>>
    THEN Switch(s, Head(ready), Tail(ready))
    ELSE /\ st' = s /\ ended' = TRUE
         /\ UNCHANGED <<ready, running>>

Kill(t) ==
    /\ st[t] \in {"READY", "KILLED"}
    /\ st' = [st EXCEPT ![t] = "KILLED"]
    /\ UNCHANGED <<ready, running, ended>>

Next ==
    /\ ~ended
    /\ \/ Yield \/ Exit
       \/ \E t \in Tid : Create(t) \/ YieldTo(t) \/ Kill(t)

Spec == Init /\ [][Next]_vars

=============================================================================
