---------------------------- MODULE CallContract ----------------------------
(***************************************************************************)
(* What a program may rely on when it calls Java: a call works on its      *)
(* arguments as they were when it was made, its method runs once, on a     *)
(* thread of its own if the call is asynchronous, and it ends once, never  *)
(* while the program is inside a synchronous call.                         *)
(***************************************************************************)
EXTENDS Naturals

CONSTANTS Calls, None, MaxChanges

VARIABLES
    state,      \* call -> what has become of it
    sync,       \* the calls made synchronously
    data,       \* the version of the JS value that is passed as the argument
    given,      \* call -> the version it was made with
    sees        \* call -> the version its method works on

vars == <<state, sync, data, given, sees>>

\* The program goes on unless a synchronous call has not ended.
Free == \A c \in sync : state[c] = "finished"

Init ==
    /\ state = [c \in Calls |-> "new"]
    /\ sync = {}
    /\ data = 0
    /\ given = [c \in Calls |-> None]
    /\ sees = [c \in Calls |-> None]

Change ==
    /\ Free
    /\ data < MaxChanges
    /\ data' = data + 1
    /\ UNCHANGED <<state, sync, given, sees>>

\* A synchronous call: the program waits while the method runs.
Call(c) ==
    /\ Free
    /\ state[c] = "new"
    /\ state' = [state EXCEPT ![c] = "executing"]
    /\ sync' = sync \union {c}
    /\ given' = [given EXCEPT ![c] = data]
    /\ sees' = [sees EXCEPT ![c] = data]
    /\ UNCHANGED data

\* An asynchronous call; any number of them may execute at a time.
Accept(c) ==
    /\ Free
    /\ state[c] = "new"
    /\ state' = [state EXCEPT ![c] = "accepted"]
    /\ given' = [given EXCEPT ![c] = data]
    /\ UNCHANGED <<sync, data, sees>>

Execute(c) ==
    /\ state[c] = "accepted"
    /\ state' = [state EXCEPT ![c] = "executing"]
    /\ sees' = [sees EXCEPT ![c] = given[c]]
    /\ UNCHANGED <<sync, data, given>>

\* Also a call that is turned away: its method does not run.
Finish(c) ==
    /\ \/ state[c] = "executing" /\ (Free \/ c \in sync)
       \/ state[c] = "new" /\ Free
    /\ state' = [state EXCEPT ![c] = "finished"]
    /\ UNCHANGED <<sync, data, given, sees>>

Next == Change \/ \E c \in Calls : Call(c) \/ Accept(c) \/ Execute(c) \/ Finish(c)

Spec == Init /\ [][Next]_vars
=============================================================================
