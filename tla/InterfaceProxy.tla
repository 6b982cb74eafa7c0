--------------------------- MODULE InterfaceProxy ---------------------------
(***************************************************************************)
(* Java interfaces implemented by JavaScript functions:                    *)
(* node/java_interface_proxy.rs, JavaFunctionCaller.java and the wrapper   *)
(* that newProxy (java.ts) puts around every method.                       *)
(*                                                                         *)
(* A Java thread that calls a method of a proxy runs                       *)
(* JavaFunctionCaller.invoke, then call_node_function: it takes the global *)
(* lock PROXIES, finds the proxy by its id, takes the lock of the proxy's  *)
(* method table while it still holds PROXIES, queues the call on the       *)
(* thread safe function (TSFN) of the method, drops both locks and blocks  *)
(* on a oneshot channel.  The JS thread takes calls from the queues,       *)
(* creates proxies (it holds PROXIES for the whole construction) and       *)
(* resets them (it takes the lock of the method table, then PROXIES).      *)
(***************************************************************************)
EXTENDS Naturals, Sequences

CONSTANTS
    JavaThreads,    \* threads of the JVM that may call a proxied method
    Js,             \* the thread of the node event loop
    Proxies,        \* the proxies the program creates, each at most once
    Methods,        \* method names of the implemented interfaces
    Provides,       \* [Proxies -> SUBSET Methods]: the methods given to newProxy
    Ids,            \* the values rand::Rng::gen may draw for a proxy
    ReuseIds,       \* may a draw repeat the id of a destroyed proxy?
    SyncCalls,      \* may JS call a proxied method through a synchronous call?
    None            \* no proxy, no thread, no call

ASSUME ThreadsAssumption == Js \notin JavaThreads /\ None \notin JavaThreads \union {Js}
ASSUME ProxiesAssumption == None \notin Proxies /\ Provides \in [Proxies -> SUBSET Methods]
ASSUME IdsAssumption     == None \notin Ids
ASSUME FlagsAssumption   == ReuseIds \in BOOLEAN /\ SyncCalls \in BOOLEAN

Threads == JavaThreads \union {Js}

VARIABLES
    registry,       \* PROXIES: id -> proxy whose method table it maps to
    registryLock,   \* holder of the mutex PROXIES
    methods,        \* proxy -> names still in its method table
    methodsLock,    \* proxy -> holder of the mutex of its method table
    state,          \* proxy -> absent, live or destroyed
    valid,          \* proxy -> the field of its JavaFunctionCaller
    id,             \* proxy -> the id drawn for it (its field and the Java side's ptr)
    queue,          \* proxy -> method -> calls queued on its TSFN
    pc,             \* thread -> what it is doing
    call,           \* thread -> the invocation it is in
    slot,           \* thread -> the oneshot channel of its call
    handling,       \* the call whose method the JS thread is running
    parked,         \* thread -> why its call was dropped without an answer
    subject         \* the proxy the JS thread is creating or resetting

vars == <<registry, registryLock, methods, methodsLock, state, valid, id, queue,
          pc, call, slot, handling, parked, subject>>
locks   == <<registryLock, methodsLock>>
tables  == <<registry, methods, state, valid, id>>
calls   == <<call, slot, queue, handling, parked>>

(***************************************************************************)
(* A call: the proxy and the method; late records whether the proxy had    *)
(* already been destroyed when the call was made.                          *)
(***************************************************************************)
Calls == [proxy : Proxies, method : Methods, late : BOOLEAN]

CallerPcs == {"entering", "found", "locked", "waiting"}
JsPcs     == {"wantRegistry", "creating", "wantMethods", "resetLocked", "destructed"}
Slots     == {"none", "pending", "value", "thrown", "convFailed", "canceled"}

TypeOK ==
    /\ registry \in [Ids -> Proxies \union {None}]
    /\ registryLock \in Threads \union {None}
    /\ methods \in [Proxies -> SUBSET Methods]
    /\ methodsLock \in [Proxies -> Threads \union {None}]
    /\ state \in [Proxies -> {"absent", "live", "destroyed"}]
    /\ valid \in [Proxies -> BOOLEAN]
    /\ id \in [Proxies -> Ids \union {None}]
    /\ queue \in [Proxies -> [Methods -> Seq(Threads)]]
    /\ pc \in [Threads -> {"idle"} \union CallerPcs \union JsPcs]
    /\ \A t \in JavaThreads : pc[t] \notin JsPcs
    /\ call \in [Threads -> Calls \union {None}]
    /\ \A t \in Threads : pc[t] \in CallerPcs => call[t] \in Calls
    /\ slot \in [Threads -> Slots]
    /\ handling \in Threads \union {None}
    /\ parked \in [Threads -> {"no", "threw", "badArgs"}]
    /\ subject \in Proxies \union {None}
    /\ pc[Js] \in JsPcs => subject \in Proxies

Init ==
    /\ registry = [i \in Ids |-> None]
    /\ registryLock = None
    /\ methods = [p \in Proxies |-> {}]
    /\ methodsLock = [p \in Proxies |-> None]
    /\ state = [p \in Proxies |-> "absent"]
    /\ valid = [p \in Proxies |-> FALSE]
    /\ id = [p \in Proxies |-> None]
    /\ queue = [p \in Proxies |-> [m \in Methods |-> <<>>]]
    /\ pc = [t \in Threads |-> "idle"]
    /\ call = [t \in Threads |-> None]
    /\ slot = [t \in Threads |-> "none"]
    /\ handling = None
    /\ parked = [t \in Threads |-> "no"]
    /\ subject = None

Goto(t, label) == pc' = [pc EXCEPT ![t] = label]

-----------------------------------------------------------------------------
(***************************************************************************)
(* JavaInterfaceProxy::new.  The JS thread asks for PROXIES and keeps it   *)
(* until the proxy is complete or one of the Java calls has failed.        *)
(***************************************************************************)
NewCall(p) ==
    /\ pc[Js] = "idle"
    /\ state[p] = "absent"
    /\ subject' = p
    /\ Goto(Js, "wantRegistry")
    /\ UNCHANGED <<locks, tables, calls>>

\* Mutants: ids drawn without regard to the registered, or to the used ones.
FreshIds_Unchecked == {i \in Ids : ReuseIds \/ \A q \in Proxies : id[q] # i}
FreshIds_Repeating == {i \in Ids : registry[i] = None}

FreshIds == {i \in Ids : registry[i] = None /\ (ReuseIds \/ \A q \in Proxies : id[q] # i)}

NewLock ==
    /\ pc[Js] = "wantRegistry"
    /\ registryLock = None
    /\ registryLock' = Js
    /\ \E i \in FreshIds : id' = [id EXCEPT ![subject] = i]
    /\ Goto(Js, "creating")
    /\ UNCHANGED <<methodsLock, registry, methods, state, valid, subject, calls>>

NewFinish ==
    /\ pc[Js] = "creating"
    /\ registry' = [registry EXCEPT ![id[subject]] = subject]
    /\ methods' = [methods EXCEPT ![subject] = Provides[subject]]
    /\ state' = [state EXCEPT ![subject] = "live"]
    /\ valid' = [valid EXCEPT ![subject] = TRUE]
    /\ registryLock' = None
    /\ subject' = None
    /\ Goto(Js, "idle")
    /\ UNCHANGED <<methodsLock, id, calls>>

\* Mutant: an error leaves PROXIES locked.
NewFail_KeepsLock ==
    /\ pc[Js] = "creating"
    /\ id' = [id EXCEPT ![subject] = None]
    /\ subject' = None
    /\ Goto(Js, "idle")
    /\ UNCHANGED <<locks, registry, methods, state, valid, calls>>

NewFail ==
    /\ pc[Js] = "creating"
    /\ id' = [id EXCEPT ![subject] = None]
    /\ registryLock' = None
    /\ subject' = None
    /\ Goto(Js, "idle")
    /\ UNCHANGED <<methodsLock, registry, methods, state, valid, calls>>

(***************************************************************************)
(* JavaInterfaceProxy::reset, which Drop calls as well when the garbage    *)
(* collector frees the object.  Method table first, then PROXIES.          *)
(***************************************************************************)
ResetCall(p) ==
    /\ pc[Js] = "idle"
    /\ state[p] # "absent"
    /\ subject' = p
    /\ Goto(Js, "wantMethods")
    /\ UNCHANGED <<locks, tables, calls>>

\* The proxy was reset before: "This instance is already destroyed".
ResetAgain ==
    /\ pc[Js] = "wantMethods"
    /\ methodsLock[subject] = None
    /\ state[subject] = "destroyed"
    /\ subject' = None
    /\ Goto(Js, "idle")
    /\ UNCHANGED <<locks, tables, calls>>

ResetLock ==
    /\ pc[Js] = "wantMethods"
    /\ methodsLock[subject] = None
    /\ state[subject] = "live"
    /\ methodsLock' = [methodsLock EXCEPT ![subject] = Js]
    /\ Goto(Js, "resetLocked")
    /\ UNCHANGED <<registryLock, tables, subject, calls>>

\* One of the JNI calls up to and including destruct fails.
ResetFail ==
    /\ pc[Js] = "resetLocked"
    /\ methodsLock' = [methodsLock EXCEPT ![subject] = None]
    /\ subject' = None
    /\ Goto(Js, "idle")
    /\ UNCHANGED <<registryLock, tables, calls>>

ResetDestruct ==
    /\ pc[Js] = "resetLocked"
    /\ valid' = [valid EXCEPT ![subject] = FALSE]
    /\ Goto(Js, "destructed")
    /\ UNCHANGED <<locks, registry, methods, state, id, subject, calls>>

\* Mutant: the entry in PROXIES stays.
ResetFinish_KeepsEntry ==
    /\ pc[Js] = "destructed"
    /\ registryLock = None
    /\ methods' = [methods EXCEPT ![subject] = {}]
    /\ state' = [state EXCEPT ![subject] = "destroyed"]
    /\ methodsLock' = [methodsLock EXCEPT ![subject] = None]
    /\ subject' = None
    /\ Goto(Js, "idle")
    /\ UNCHANGED <<registryLock, registry, valid, id, calls>>

\* PROXIES is taken and dropped in this step: nothing happens in between
\* that another thread could see.
ResetFinish ==
    /\ pc[Js] = "destructed"
    /\ registryLock = None
    /\ registry' = [registry EXCEPT ![id[subject]] = None]
    /\ methods' = [methods EXCEPT ![subject] = {}]
    /\ state' = [state EXCEPT ![subject] = "destroyed"]
    /\ methodsLock' = [methodsLock EXCEPT ![subject] = None]
    /\ subject' = None
    /\ Goto(Js, "idle")
    /\ UNCHANGED <<registryLock, valid, id, calls>>

-----------------------------------------------------------------------------
(***************************************************************************)
(* JavaFunctionCaller.invoke and call_node_function, on the calling thread.*)
(* equals, hashCode, toString and the calls invoke itself rejects change   *)
(* no state.  The field valid is not volatile: a thread other than the one *)
(* that ran destruct may still read the old value.                         *)
(***************************************************************************)
Invoke(t, p, m) ==
    /\ pc[t] = "idle"
    /\ t = Js => SyncCalls
    /\ state[p] # "absent"
    /\ valid[p] \/ t # Js
    /\ m \in Provides[p]
    /\ call' = [call EXCEPT ![t] = [proxy |-> p, method |-> m, late |-> state[p] = "destroyed"]]
    /\ Goto(t, "entering")
    /\ UNCHANGED <<locks, tables, slot, queue, handling, parked, subject>>

\* What PROXIES maps the id of the called proxy to.
Hit(t) == registry[id[call[t].proxy]]

\* An error reaches the Java caller as an exception.
Fail(t) ==
    /\ call' = [call EXCEPT ![t] = None]
    /\ Goto(t, "idle")
    /\ UNCHANGED <<slot, queue, handling, parked, subject>>

LookupHit(t) ==
    /\ pc[t] = "entering"
    /\ registryLock = None
    /\ Hit(t) # None
    /\ registryLock' = t
    /\ Goto(t, "found")
    /\ UNCHANGED <<methodsLock, tables, calls, subject>>

\* "No proxy with the id ... exists"
LookupMiss(t) ==
    /\ pc[t] = "entering"
    /\ registryLock = None
    /\ Hit(t) = None
    /\ Fail(t)
    /\ UNCHANGED <<locks, tables>>

MethodHit(t) ==
    /\ pc[t] = "found"
    /\ methodsLock[Hit(t)] = None
    /\ call[t].method \in methods[Hit(t)]
    /\ methodsLock' = [methodsLock EXCEPT ![Hit(t)] = t]
    /\ Goto(t, "locked")
    /\ UNCHANGED <<registryLock, tables, calls, subject>>

\* "No method with the name ... exists"
MethodMiss(t) ==
    /\ pc[t] = "found"
    /\ methodsLock[Hit(t)] = None
    /\ call[t].method \notin methods[Hit(t)]
    /\ registryLock' = None
    /\ Fail(t)
    /\ UNCHANGED <<methodsLock, tables>>

\* Mutant: PROXIES stays locked while the caller waits.
Unlock_Methods(t) ==
    /\ UNCHANGED registryLock
    /\ methodsLock' = [methodsLock EXCEPT ![Hit(t)] = None]

Unlock(t) ==
    /\ registryLock' = None
    /\ methodsLock' = [methodsLock EXCEPT ![Hit(t)] = None]

\* Mutant: a new call overtakes the queued ones.
Enqueue_First(t) ==
    /\ pc[t] = "locked"
    /\ queue' = [queue EXCEPT ![Hit(t)][call[t].method] = <<t>> \o @]
    /\ slot' = [slot EXCEPT ![t] = "pending"]
    /\ Unlock(t)
    /\ Goto(t, "waiting")
    /\ UNCHANGED <<tables, call, handling, parked, subject>>

\* The arguments are converted; the call goes to the end of the TSFN's queue.
Enqueue(t) ==
    /\ pc[t] = "locked"
    /\ queue' = [queue EXCEPT ![Hit(t)][call[t].method] = Append(@, t)]
    /\ slot' = [slot EXCEPT ![t] = "pending"]
    /\ Unlock(t)
    /\ Goto(t, "waiting")
    /\ UNCHANGED <<tables, call, handling, parked, subject>>

\* An argument has a type that cannot be converted.
EnqueueFail(t) ==
    /\ pc[t] = "locked"
    /\ Unlock(t)
    /\ Fail(t)
    /\ UNCHANGED tables

\* Mutant: a canceled call is retried, although it was taken apart.
Receive_Retries(t) ==
    /\ pc[t] = "waiting"
    /\ slot[t] \notin {"none", "pending"}
    /\ slot' = [slot EXCEPT ![t] = "none"]
    /\ call' = [call EXCEPT ![t] = None]
    /\ Goto(t, IF slot[t] = "canceled" THEN "entering" ELSE "idle")
    /\ UNCHANGED <<locks, tables, queue, handling, parked, subject>>

\* block_on returns: the value, or an exception.
Receive(t) ==
    /\ pc[t] = "waiting"
    /\ slot[t] \notin {"none", "pending"}
    /\ slot' = [slot EXCEPT ![t] = "none"]
    /\ call' = [call EXCEPT ![t] = None]
    /\ Goto(t, "idle")
    /\ UNCHANGED <<locks, tables, queue, handling, parked, subject>>

-----------------------------------------------------------------------------
(***************************************************************************)
(* The event loop.  A TSFN hands its calls over in order, also after it    *)
(* was released; the JS thread runs one method at a time, which may itself *)
(* create, reset or call proxies.                                          *)
(***************************************************************************)
Take(p, m) ==
    /\ pc[Js] = "idle"
    /\ handling = None
    /\ queue[p][m] # <<>>
    /\ queue' = [queue EXCEPT ![p][m] = Tail(@)]

Dispatch(p, m) ==
    /\ Take(p, m)
    /\ handling' = Head(queue[p][m])
    /\ UNCHANGED <<locks, tables, pc, call, slot, parked, subject>>

\* An argument cannot be converted to a JS value: the wrapper gets an error
\* and throws it.  The channel stays open until the callback is collected.
DispatchFail(p, m) ==
    /\ Take(p, m)
    /\ parked' = [parked EXCEPT ![Head(queue[p][m])] = "badArgs"]
    /\ UNCHANGED <<locks, tables, pc, call, slot, handling, subject>>

\* The wrapper calls callback(null, res) or callback(error), js_callback
\* makes an object, an exception or a conversion error of it.
Answer(outcome) ==
    /\ pc[Js] = "idle"
    /\ handling # None
    /\ slot' = [slot EXCEPT ![handling] = outcome]
    /\ handling' = None
    /\ UNCHANGED <<locks, tables, pc, call, queue, parked, subject>>

\* The method throws null or undefined: e.toString() throws in the catch
\* block of the wrapper and callback is never called.
ThrowUnprintable ==
    /\ pc[Js] = "idle"
    /\ handling # None
    /\ parked' = [parked EXCEPT ![handling] = "threw"]
    /\ handling' = None
    /\ UNCHANGED <<locks, tables, pc, call, slot, queue, subject>>

\* Mutant: the callback is not kept alive while its method runs.
Collect_Early(t) ==
    /\ parked[t] # "no" \/ handling = t
    /\ parked' = [parked EXCEPT ![t] = "no"]
    /\ slot' = [slot EXCEPT ![t] = "canceled"]
    /\ UNCHANGED <<locks, tables, pc, call, queue, handling, subject>>

\* The garbage collector frees a callback that was never called, and the
\* sender in it: block_on returns Canceled.
Collect(t) ==
    /\ parked[t] # "no"
    /\ parked' = [parked EXCEPT ![t] = "no"]
    /\ slot' = [slot EXCEPT ![t] = "canceled"]
    /\ UNCHANGED <<locks, tables, pc, call, queue, handling, subject>>

-----------------------------------------------------------------------------
LookUp(t)       == LookupHit(t) \/ LookupMiss(t)
LookUpMethod(t) == MethodHit(t) \/ MethodMiss(t)
Submit(t)       == Enqueue(t) \/ EnqueueFail(t)
Serve(p, m)     == Dispatch(p, m) \/ DispatchFail(p, m)
Finish          == (\E o \in {"value", "thrown", "convFailed"} : Answer(o)) \/ ThrowUnprintable

ProxyNext   == NewLock \/ NewFinish \/ NewFail
ResetNext   == ResetAgain \/ ResetLock \/ ResetFail \/ ResetDestruct \/ ResetFinish
CallNext(t) == LookUp(t) \/ LookUpMethod(t) \/ Submit(t) \/ Receive(t)

Next ==
    \/ \E p \in Proxies : NewCall(p) \/ ResetCall(p)
    \/ ProxyNext
    \/ ResetNext
    \/ \E t \in Threads, p \in Proxies, m \in Methods : Invoke(t, p, m)
    \/ \E t \in Threads : CallNext(t)
    \/ \E p \in Proxies, m \in Methods : Serve(p, m)
    \/ Finish
    \/ \E t \in Threads : Collect(t)

Spec == Init /\ [][Next]_vars

(***************************************************************************)
(* A step that can be taken is taken.  A mutex that is free again and      *)
(* again is eventually had (strong fairness), the event loop reaches every *)
(* TSFN with queued calls, and methods return.  Nothing obliges the        *)
(* program to call or reset a proxy or the collector to free a callback.   *)
(***************************************************************************)
Fairness ==
    /\ \A t \in Threads :
        /\ SF_vars(LookUp(t))
        /\ SF_vars(LookUpMethod(t))
        /\ WF_vars(Submit(t))
        /\ WF_vars(Receive(t))
    /\ SF_vars(NewLock)
    /\ WF_vars(NewFinish \/ NewFail)
    /\ SF_vars(ResetAgain \/ ResetLock)
    /\ WF_vars(ResetDestruct \/ ResetFail)
    /\ SF_vars(ResetFinish)
    /\ \A p \in Proxies, m \in Methods : SF_vars(Serve(p, m))
    /\ SF_vars(Finish)

FairSpec == Spec /\ Fairness

-----------------------------------------------------------------------------
(***************************************************************************)
(* Every lock is held by exactly the thread whose program counter says so: *)
(* the nested locks of call_node_function and of reset exclude each other. *)
(***************************************************************************)
HoldsRegistry(t) == pc[t] \in {"creating", "found", "locked"}
HoldsMethods(t, p) ==
    \/ pc[t] = "locked" /\ Hit(t) = p
    \/ t = Js /\ pc[t] \in {"resetLocked", "destructed"} /\ subject = p

LocksHeld ==
    /\ \A t \in Threads : HoldsRegistry(t) <=> registryLock = t
    /\ \A t \in Threads, p \in Proxies : HoldsMethods(t, p) <=> methodsLock[p] = t

(***************************************************************************)
(* The four places that say whether a proxy exists agree: a live proxy is  *)
(* found under its id with all its methods; any other has no entry in      *)
(* PROXIES and no TSFN left.  With a live proxy no other one has its id.   *)
(***************************************************************************)
RegistryAgrees ==
    \A p \in Proxies :
        /\ state[p] = "live" => registry[id[p]] = p /\ methods[p] = Provides[p]
        /\ state[p] # "live" => methods[p] = {} /\ \A i \in Ids : registry[i] # p

(***************************************************************************)
(* A call made after reset has returned throws an error: it is turned away *)
(* by the lookup, even if its thread still saw the proxy as valid.         *)
(* (The documentation of JavaInterfaceProxy.reset.)                        *)
(***************************************************************************)
LateCallsFail == \A t \in Threads : pc[t] \in CallerPcs /\ call[t].late => pc[t] = "entering"

(***************************************************************************)
(* A call is only ever queued on, and run by, the method of the proxy it   *)
(* was made on, although only the id links the two.                        *)
(***************************************************************************)
InQueue(t, p, m) == \E i \in 1 .. Len(queue[p][m]) : queue[p][m][i] = t

NoMisdelivery ==
    /\ \A t \in Threads, p \in Proxies, m \in Methods :
        InQueue(t, p, m) => call[t].proxy = p /\ call[t].method = m
    /\ \A t \in Threads : pc[t] = "locked" => Hit(t) = call[t].proxy

(***************************************************************************)
(* A caller blocked on its channel is not forgotten: until it is answered  *)
(* its call is in a queue, or run by the JS thread, or parked with its     *)
(* callback - in exactly one of these, once - and an answered call is in   *)
(* none of them.                                                           *)
(***************************************************************************)
Queued(t) == \E p \in Proxies, m \in Methods : InQueue(t, p, m)

QueuedOnce(t) ==
    \A p, q \in Proxies, m, n \in Methods :
        \A i \in 1 .. Len(queue[p][m]), j \in 1 .. Len(queue[q][n]) :
            queue[p][m][i] = t /\ queue[q][n][j] = t => p = q /\ m = n /\ i = j

CallsAccounted ==
    \A t \in Threads :
        /\ slot[t] # "none" <=> pc[t] = "waiting"
        /\ slot[t] = "pending" <=> Queued(t) \/ handling = t \/ parked[t] # "no"
        /\ handling = t \/ parked[t] # "no" => ~Queued(t)
        /\ handling = t => parked[t] = "no"
        /\ QueuedOnce(t)

(***************************************************************************)
(* Every call ends, whatever reset and newProxy do meanwhile - unless its  *)
(* callback waits for the garbage collector or the two known ways to stop  *)
(* the JS thread happen: it is blocked in a synchronous call of a proxy    *)
(* (newProxy's documentation forbids it), or a reset and a call of the     *)
(* same proxy wait for each other's lock.                                  *)
(***************************************************************************)
LockCycle ==
    /\ pc[Js] = "destructed"
    /\ \E t \in JavaThreads : pc[t] = "found" /\ Hit(t) = subject

JsBlocked == pc[Js] = "waiting"

CallsEnd ==
    \A t \in JavaThreads :
        pc[t] # "idle" ~> (pc[t] = "idle" \/ parked[t] # "no" \/ LockCycle \/ JsBlocked)

(***************************************************************************)
(* newProxy and reset return, however many threads contend for the locks,  *)
(* unless that lock cycle has formed.                                      *)
(***************************************************************************)
JsCallsReturn == pc[Js] \in JsPcs ~> (pc[Js] = "idle" \/ LockCycle)

(***************************************************************************)
(* Whom a thread waits for: the holder of the lock it asks for, or the JS  *)
(* thread that is to run its call.                                         *)
(***************************************************************************)
WaitsFor(t, u) ==
    \/ pc[t] \in {"entering", "wantRegistry", "destructed"} /\ registryLock = u
    \/ pc[t] = "found" /\ methodsLock[Hit(t)] = u
    \/ pc[t] = "wantMethods" /\ methodsLock[subject] = u
    \/ pc[t] = "waiting" /\ slot[t] = "pending" /\ parked[t] = "no" /\ u = Js

(***************************************************************************)
(* Java threads never wait for each other in a circle; one that goes       *)
(* through the JS thread is the lock cycle, or JS is in a call itself.     *)
(***************************************************************************)
NoOtherDeadlock ==
    \A S \in (SUBSET Threads) \ {{}} :
        (\A t \in S : \E u \in S : WaitsFor(t, u)) => Js \in S /\ (LockCycle \/ JsBlocked)

(***************************************************************************)
(* The documentation of JavaInterfaceProxy: "Call reset to instantly       *)
(* destroy this instance."  A reset that was called returns.               *)
(***************************************************************************)
ResetReturns == pc[Js] \in {"wantMethods", "resetLocked", "destructed"} ~> pc[Js] = "idle"

(***************************************************************************)
(* What the callers of a proxy may rely on (module ProxyContract).         *)
(***************************************************************************)
StatusOf(t) ==
    CASE pc[t] \in {"entering", "found", "locked"} -> "asking"
      [] pc[t] = "waiting" /\ parked[t] # "no" -> "abandoned"
      [] pc[t] = "waiting" /\ slot[t] \notin {"none", "pending"} -> "answered"
      [] pc[t] = "waiting" /\ parked[t] = "no" /\ slot[t] = "pending" -> "accepted"
      [] OTHER -> "idle"

Contract == INSTANCE ProxyContract WITH
    Callers <- Threads,
    phase   <- state,
    inbox   <- queue,
    serving <- handling,
    status  <- [t \in Threads |-> StatusOf(t)],
    target  <- [t \in Threads |-> IF pc[t] \in CallerPcs
                                   THEN [proxy |-> call[t].proxy, method |-> call[t].method]
                                   ELSE None]

MeetsContract == Contract!Spec

=============================================================================
