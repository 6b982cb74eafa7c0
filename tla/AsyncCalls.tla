----------------------------- MODULE AsyncCalls -----------------------------
(***************************************************************************)
(* Calls of Java methods and constructors: call_method, call_static_method *)
(* and constructor on the event loop, call_method_async,                   *)
(* call_static_method_async, new_instance and import_class_async through   *)
(* execute_tokio_future (node/java_class_instance.rs, node/java.rs).       *)
(*                                                                         *)
(* An asynchronous call has three parts: the event loop finds the method   *)
(* and converts the arguments, a tokio worker runs the method and is       *)
(* occupied until it returns, the event loop converts the result and       *)
(* settles the promise.  A method may wait for what another call does, or  *)
(* call a JS method through an interface proxy, which needs the event      *)
(* loop.  The wrapper that newProxy makes of a JS method answers before it *)
(* returns, or not at all; it never awaits anything.                       *)
(***************************************************************************)
EXTENDS Naturals, FiniteSets

CONSTANTS
    Calls,
    Workers,        \* the number of tokio workers
    MaxChanges,     \* bound: how often the program changes the argument
    MaxWaits,       \* bound: how often a method waits
    None

ASSUME BoundsAssumption ==
    /\ Workers \in Nat \ {0}
    /\ MaxChanges \in Nat
    /\ MaxWaits \in Nat
ASSUME CallsAssumption == IsFiniteSet(Calls)
ASSUME NoneAssumption == None \notin Calls \union Nat

VARIABLES
    status,     \* call -> how far it is
    loop,       \* the synchronous call the event loop is in, or None
    sync,       \* the calls made synchronously
    needs,      \* call -> the call its method waits for
    waits,      \* call -> how often its method has waited
    data,       \* the version of the JS value that is passed as the argument
    arg,        \* call -> the version converted for it
    sees        \* call -> the version its method works on

waiting == <<needs, waits>>
vars == <<status, loop, sync, waiting, data, arg, sees>>

Over      == {"settled", "refused"}
Executing == {"running", "waiting", "calling", "unanswered"}

TypeOK ==
    /\ status \in [Calls -> {"new", "queued", "returned"} \union Executing \union Over]
    /\ loop \in Calls \union {None}
    /\ sync \subseteq Calls
    /\ needs \in [Calls -> Calls \union {None}]
    /\ waits \in [Calls -> 0 .. MaxWaits]
    /\ data \in 0 .. MaxChanges
    /\ arg \in [Calls -> 0 .. MaxChanges \union {None}]
    /\ sees \in [Calls -> 0 .. MaxChanges \union {None}]
    /\ \A c \in Calls :
        /\ arg[c] = None <=> status[c] \in {"new", "refused"}
        /\ sees[c] = None <=> status[c] \in {"new", "refused", "queued"}
        /\ status[c] = "waiting" => needs[c] \in Calls

Init ==
    /\ status = [c \in Calls |-> "new"]
    /\ loop = None
    /\ sync = {}
    /\ needs = [c \in Calls |-> None]
    /\ waits = [c \in Calls |-> 0]
    /\ data = 0
    /\ arg = [c \in Calls |-> None]
    /\ sees = [c \in Calls |-> None]

\* The calls that occupy a worker, and whether one is left.
OnWorkers  == {c \in Calls \ sync : status[c] \in Executing}
WorkerFree == Cardinality(OnWorkers) < Workers

Move(c, s) == status' = [status EXCEPT ![c] = s]

-----------------------------------------------------------------------------
(***************************************************************************)
(* The event loop                                                          *)
(***************************************************************************)
ChangeArgument ==
    /\ loop = None
    /\ data < MaxChanges
    /\ data' = data + 1
    /\ UNCHANGED <<status, loop, sync, waiting, arg, sees>>

CallSync(c) ==
    /\ loop = None
    /\ status[c] = "new"
    /\ Move(c, "running")
    /\ loop' = c
    /\ sync' = sync \union {c}
    /\ arg' = [arg EXCEPT ![c] = data]
    /\ sees' = [sees EXCEPT ![c] = data]
    /\ UNCHANGED <<waiting, data>>

\* Mutant: the arguments are left to the worker to convert.
CallAsync_ConvertsLater(c) ==
    /\ loop = None
    /\ status[c] = "new"
    /\ Move(c, "queued")
    /\ UNCHANGED <<loop, sync, waiting, data, arg, sees>>

CallAsync(c) ==
    /\ loop = None
    /\ status[c] = "new"
    /\ Move(c, "queued")
    /\ arg' = [arg EXCEPT ![c] = data]
    /\ UNCHANGED <<loop, sync, waiting, data, sees>>

\* No method matches or an argument cannot be converted: the call throws, also
\* an asynchronous one.
Refuse(c) ==
    /\ loop = None
    /\ status[c] = "new"
    /\ Move(c, "refused")
    /\ UNCHANGED <<loop, sync, waiting, data, arg, sees>>

\* Mutant: promises are settled by whoever has the result.
Settle_Anywhere(c) ==
    /\ status[c] = "returned"
    /\ Move(c, "settled")
    /\ UNCHANGED <<loop, sync, waiting, data, arg, sees>>

Settle(c) ==
    /\ loop = None
    /\ status[c] = "returned"
    /\ Move(c, "settled")
    /\ UNCHANGED <<loop, sync, waiting, data, arg, sees>>

\* The JS method that the method of c called through a proxy is run, and the
\* wrapper answers: with its result, its error, or the error of converting a
\* result that has no Java value, such as a promise.  The calls that the JS method
\* makes itself come before this step.
Handle(c) ==
    /\ loop = None
    /\ status[c] = "calling"
    /\ Move(c, "running")
    /\ UNCHANGED <<loop, sync, waiting, data, arg, sees>>

\* The wrapper throws before it has called back: an argument had no JS value, or
\* what the JS method threw has no toString.
LeaveUnanswered(c) ==
    /\ loop = None
    /\ status[c] = "calling"
    /\ Move(c, "unanswered")
    /\ UNCHANGED <<loop, sync, waiting, data, arg, sees>>

\* The callback is collected: its caller gets an error, and goes on.
Collect(c) ==
    /\ loop = None
    /\ status[c] = "unanswered"
    /\ Move(c, "running")
    /\ UNCHANGED <<loop, sync, waiting, data, arg, sees>>

-----------------------------------------------------------------------------
(***************************************************************************)
(* The workers, and the method itself on whatever thread it runs           *)
(***************************************************************************)
\* Mutant: with the arguments as they are now.
Start_ConvertsNow(c) ==
    /\ status[c] = "queued"
    /\ WorkerFree
    /\ Move(c, "running")
    /\ sees' = [sees EXCEPT ![c] = data]
    /\ UNCHANGED <<loop, sync, waiting, data, arg>>

\* Mutant: one worker more than there are.
Start_Extra(c) ==
    /\ status[c] = "queued"
    /\ Cardinality(OnWorkers) <= Workers
    /\ Move(c, "running")
    /\ sees' = [sees EXCEPT ![c] = arg[c]]
    /\ UNCHANGED <<loop, sync, waiting, data, arg>>

\* Mutant: a task is only begun by a worker when all of them are free.
Start_Alone(c) ==
    /\ status[c] = "queued"
    /\ OnWorkers = {}
    /\ Move(c, "running")
    /\ sees' = [sees EXCEPT ![c] = arg[c]]
    /\ UNCHANGED <<loop, sync, waiting, data, arg>>

Start(c) ==
    /\ status[c] = "queued"
    /\ WorkerFree
    /\ Move(c, "running")
    /\ sees' = [sees EXCEPT ![c] = arg[c]]
    /\ UNCHANGED <<loop, sync, waiting, data, arg>>

\* The method waits for something the method of d does.
Await(c, d) ==
    /\ status[c] = "running"
    /\ waits[c] < MaxWaits
    /\ status[d] \in {"queued"} \union Executing
    /\ Move(c, "waiting")
    /\ needs' = [needs EXCEPT ![c] = d]
    /\ waits' = [waits EXCEPT ![c] = @ + 1]
    /\ UNCHANGED <<loop, sync, data, arg, sees>>

Resume(c) ==
    /\ status[c] = "waiting"
    /\ status[needs[c]] \in {"returned", "settled"}
    /\ Move(c, "running")
    /\ UNCHANGED <<loop, sync, waiting, data, arg, sees>>

\* The method calls a method of a proxy and waits for the answer.
CallProxy(c) ==
    /\ status[c] = "running"
    /\ waits[c] < MaxWaits
    /\ Move(c, "calling")
    /\ waits' = [waits EXCEPT ![c] = @ + 1]
    /\ UNCHANGED <<loop, sync, needs, data, arg, sees>>

\* Mutant: a synchronous call leaves the event loop blocked.
Return_KeepsLoop(c) ==
    /\ status[c] = "running"
    /\ Move(c, IF c \in sync THEN "settled" ELSE "returned")
    /\ UNCHANGED <<loop, sync, waiting, data, arg, sees>>

\* The method returns or throws.  A synchronous call converts the result at once.
Return(c) ==
    /\ status[c] = "running"
    /\ Move(c, IF c \in sync THEN "settled" ELSE "returned")
    /\ loop' = IF c \in sync THEN None ELSE loop
    /\ UNCHANGED <<sync, waiting, data, arg, sees>>

-----------------------------------------------------------------------------
Advance(c) ==
    Start(c) \/ Resume(c) \/ Handle(c) \/ LeaveUnanswered(c) \/ Return(c) \/ Settle(c)

Next ==
    \/ ChangeArgument
    \/ \E c \in Calls : CallSync(c) \/ CallAsync(c) \/ Refuse(c) \/ Advance(c) \/ CallProxy(c) \/ Collect(c)
    \/ \E c, d \in Calls : Await(c, d)

\* Workers and event loop take what is queued for them, methods that need not
\* wait return.  The program is not obliged to call anything, the event loop not to
\* answer a proxy call it has taken, nor the collector to find its callback.
Fairness == \A c \in Calls : WF_vars(Advance(c))

Spec == Init /\ [][Next]_vars /\ Fairness

-----------------------------------------------------------------------------
(***************************************************************************)
(* What the calls guarantee.                                               *)
(***************************************************************************)
\* The event loop is blocked exactly while a synchronous call executes, and at
\* most as many asynchronous calls execute as there are workers.
LoopAndPool ==
    /\ \A c \in Calls : loop = c <=> c \in sync /\ status[c] \in Executing
    /\ Cardinality(OnWorkers) <= Workers

Contract == INSTANCE CallContract WITH
    state <- [c \in Calls |->
                CASE status[c] = "new" -> "new"
                  [] status[c] = "queued" -> "accepted"
                  [] status[c] \in Executing \union {"returned"} -> "executing"
                  [] OTHER -> "finished"],
    given <- arg

\* Every call works on its arguments as they were when it was made, runs once
\* and ends once, while the program is not inside a synchronous call.
MeetsContract == Contract!Init /\ [][Contract!Next]_(Contract!vars)

(***************************************************************************)
(* Calls that wait for each other in a circle, by way of what methods wait *)
(* for, of the workers they occupy or of the event loop.                   *)
(***************************************************************************)
Stuck(c, S) ==
    CASE status[c] = "waiting" -> needs[c] \in S /\ status[needs[c]] # "returned"
      [] status[c] = "queued"  -> ~WorkerFree /\ OnWorkers \subseteq S
      [] status[c] \in {"calling", "returned"} -> loop \in S
      [] OTHER -> FALSE

Doomed(c) == \E S \in SUBSET Calls : c \in S /\ \A d \in S : Stuck(d, S)

\* In or behind such a circle, a proxy call that was left unanswered, or both.
Stopped(c) ==
    \E S \in SUBSET Calls :
        c \in S /\ \A d \in S : status[d] = "unanswered" \/ Stuck(d, S)

\* Every call ends, unless it waits in or for a circle or an answer that was lost.  A
\* method that waits keeps its worker, so with enough of them a circle closes that
\* the methods alone do not have, and a lost answer stops calls that have nothing
\* to do with it.  A call that the collector frees must end as well.
CallsEnd ==
    \A c \in Calls : status[c] # "new" ~> (status[c] \in Over \/ Stopped(c))

\* What a call cannot go on without: a free worker, the event loop, another call,
\* an answer that nobody gives any more.
HeldUp(c) ==
    CASE status[c] = "queued"  -> ~WorkerFree
      [] status[c] = "waiting" -> status[needs[c]] \notin {"returned", "settled"}
      [] status[c] \in {"calling", "returned"} -> loop # None
      [] status[c] = "unanswered" -> TRUE
      [] OTHER -> FALSE

Unfinished == {c \in Calls : status[c] \notin Over \union {"new"}}

\* Only circles and lost answers bring everything to a halt: if no call that was
\* begun can go on, each of them is in or behind one; it is never that a worker or
\* the event loop was not given back, or that a call waits for one that is over.
NothingElseStops == (\A c \in Unfinished : HeldUp(c)) => \A c \in Unfinished : Stopped(c)

\* Nothing opens a circle: there is no timeout and the pool does not grow.
CirclesStay == [][\A c \in Calls : Doomed(c) => Doomed(c)']_vars
=============================================================================
