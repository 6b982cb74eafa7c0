----------------------- MODULE InterfaceProxy_proofs -----------------------
(***************************************************************************)
(* Proofs about InterfaceProxy for any numbers of threads, proxies,        *)
(* methods and ids.                                                        *)
(***************************************************************************)
EXTENDS InterfaceProxy, Integers, TLAPS

(***************************************************************************)
(* What the program counters say about the proxies: a proxy that exists or *)
(* is being completed has an id, a call in progress is of a proxy that     *)
(* exists, and a thread past the lookup has found a proxy.                 *)
(***************************************************************************)
Stages ==
    /\ \A p \in Proxies : state[p] # "absent" => id[p] \in Ids
    /\ \A t \in Threads : pc[t] \in CallerPcs => state[call[t].proxy] # "absent"
    /\ \A t \in Threads : pc[t] \in {"found", "locked"} => Hit(t) \in Proxies
    /\ pc[Js] \in {"wantRegistry", "creating"} => state[subject] = "absent"
    /\ pc[Js] = "creating" => id[subject] \in Ids /\ registry[id[subject]] = None
    /\ pc[Js] = "wantMethods" => state[subject] # "absent"
    /\ pc[Js] \in {"resetLocked", "destructed"} => state[subject] = "live"
    /\ \A i \in Ids : registry[i] # None => id[registry[i]] = i

IInv == TypeOK /\ LocksHeld /\ Stages /\ RegistryAgrees

\* With ids that never repeat.
IdsDistinct == \A p, q \in Proxies : id[p] # None /\ id[p] = id[q] => p = q
LateIsDestroyed == \A t \in Threads : pc[t] \in CallerPcs /\ call[t].late => state[call[t].proxy] = "destroyed"

IInvIds == IdsDistinct /\ LateIsDestroyed /\ LateCallsFail

-----------------------------------------------------------------------------
(***************************************************************************)
(* Type correctness.                                                       *)
(***************************************************************************)
LEMMA TypeInit == Init => TypeOK
  BY ThreadsAssumption, ProxiesAssumption, IdsAssumption
  DEF Init, TypeOK, Threads, CallerPcs, JsPcs, Slots

LEMMA TypeNext == TypeOK /\ [Next]_vars => TypeOK'
<1> SUFFICES ASSUME TypeOK, [Next]_vars PROVE TypeOK'
  OBVIOUS
<1> USE ThreadsAssumption, ProxiesAssumption, IdsAssumption
    DEF TypeOK, Threads, locks, tables, calls, Goto, CallerPcs, JsPcs, Slots, Calls
<1>1. ASSUME NEW p \in Proxies, NewCall(p) PROVE TypeOK'
  BY <1>1 DEF NewCall
<1>2. ASSUME NEW p \in Proxies, ResetCall(p) PROVE TypeOK'
  BY <1>2 DEF ResetCall
<1>3. CASE NewLock
  BY <1>3 DEF NewLock, FreshIds
<1>4. CASE NewFinish
  BY <1>4 DEF NewFinish
<1>5. CASE NewFail
  BY <1>5 DEF NewFail
<1>6. CASE ResetAgain
  BY <1>6 DEF ResetAgain
<1>7. CASE ResetLock
  BY <1>7 DEF ResetLock
<1>8. CASE ResetFail
  BY <1>8 DEF ResetFail
<1>9. CASE ResetDestruct
  BY <1>9 DEF ResetDestruct
<1>10. CASE ResetFinish
  BY <1>10 DEF ResetFinish
<1>11. ASSUME NEW t \in Threads, NEW p \in Proxies, NEW m \in Methods, Invoke(t, p, m) PROVE TypeOK'
  BY <1>11 DEF Invoke
<1>12. ASSUME NEW t \in Threads, LookupHit(t) PROVE TypeOK'
  BY <1>12 DEF LookupHit
<1>13. ASSUME NEW t \in Threads, LookupMiss(t) PROVE TypeOK'
  BY <1>13 DEF LookupMiss, Fail
<1>14. ASSUME NEW t \in Threads, MethodHit(t) PROVE TypeOK'
  BY <1>14 DEF MethodHit
<1>15. ASSUME NEW t \in Threads, MethodMiss(t) PROVE TypeOK'
  BY <1>15 DEF MethodMiss, Fail
<1>16. ASSUME NEW t \in Threads, Enqueue(t) PROVE TypeOK'
  <2>1. call[t] \in Calls /\ call[t].method \in Methods
    BY <1>16 DEF Enqueue
  <2>2. \A p \in Proxies, m \in Methods : queue'[p][m] \in Seq(Threads)
    <3> TAKE p \in Proxies, m \in Methods
    <3>1. CASE p = Hit(t) /\ m = call[t].method
      BY <1>16, <3>1 DEF Enqueue
    <3>2. CASE ~(p = Hit(t) /\ m = call[t].method)
      BY <1>16, <3>2 DEF Enqueue
    <3>3. QED
      BY <3>1, <3>2
  <2>3. queue' \in [Proxies -> [Methods -> Seq(Threads)]]
    BY <1>16, <2>2 DEF Enqueue
  <2>4. QED
    BY <1>16, <2>1, <2>3 DEF Enqueue, Unlock
<1>17. ASSUME NEW t \in Threads, EnqueueFail(t) PROVE TypeOK'
  BY <1>17 DEF EnqueueFail, Unlock, Fail
<1>18. ASSUME NEW t \in Threads, Receive(t) PROVE TypeOK'
  BY <1>18 DEF Receive
<1>19. ASSUME NEW p \in Proxies, NEW m \in Methods, Dispatch(p, m) PROVE TypeOK'
  BY <1>19 DEF Dispatch, Take
<1>20. ASSUME NEW p \in Proxies, NEW m \in Methods, DispatchFail(p, m) PROVE TypeOK'
  BY <1>20 DEF DispatchFail, Take
<1>21. ASSUME NEW o \in {"value", "thrown", "convFailed"}, Answer(o) PROVE TypeOK'
  BY <1>21 DEF Answer
<1>22. CASE ThrowUnprintable
  BY <1>22 DEF ThrowUnprintable
<1>23. ASSUME NEW t \in Threads, Collect(t) PROVE TypeOK'
  BY <1>23 DEF Collect
<1>24. CASE UNCHANGED vars
  BY <1>24 DEF vars
<1>25. QED
  BY <1>1, <1>2, <1>3, <1>4, <1>5, <1>6, <1>7, <1>8, <1>9, <1>10, <1>11, <1>12, <1>13, <1>14, <1>15, <1>16, <1>17, <1>18, <1>19, <1>20, <1>21, <1>22, <1>23, <1>24
  DEF Next, ProxyNext, ResetNext, CallNext, LookUp, LookUpMethod, Submit, Serve, Finish

\* Every variable keeps the values its declaration describes.
THEOREM TypeCorrect == Spec => []TypeOK
<1>1. QED
  BY TypeInit, TypeNext, PTL DEF Spec

-----------------------------------------------------------------------------
(***************************************************************************)
(* The inductive invariant.                                                *)
(***************************************************************************)
LEMMA LocksNext == IInv /\ [Next]_vars => LocksHeld'
<1> SUFFICES ASSUME IInv, [Next]_vars PROVE LocksHeld'
  OBVIOUS
<1> TypeOK'
  BY TypeNext DEF IInv
<1> USE ThreadsAssumption, ProxiesAssumption, IdsAssumption
    DEF IInv, TypeOK, Threads, locks, tables, calls, Goto, CallerPcs, JsPcs, Calls, Hit,
        LocksHeld, HoldsRegistry, HoldsMethods, Stages, RegistryAgrees
<1>1. ASSUME NEW p \in Proxies, NewCall(p) PROVE LocksHeld'
  BY <1>1 DEF NewCall
<1>2. ASSUME NEW p \in Proxies, ResetCall(p) PROVE LocksHeld'
  <2>1. \A t \in Threads : HoldsRegistry(t)' <=> registryLock' = t
    BY <1>2 DEF ResetCall
  <2>2. \A t \in Threads : Hit(t)' = Hit(t)
    BY <1>2 DEF ResetCall
  <2>3. \A t \in Threads, q \in Proxies : HoldsMethods(t, q)' <=> HoldsMethods(t, q)
    BY <1>2, <2>2 DEF ResetCall
  <2>4. \A t \in Threads, q \in Proxies : HoldsMethods(t, q)' <=> methodsLock'[q] = t
    BY <1>2, <2>3 DEF ResetCall
  <2>5. QED
    BY <2>1, <2>4
<1>3. CASE NewLock
  <2>1. \A t \in Threads : HoldsRegistry(t)' <=> registryLock' = t
    BY <1>3 DEF NewLock
  <2>2. \A t \in Threads : pc[t] # "locked" /\ pc'[t] # "locked"
    BY <1>3 DEF NewLock
  <2>3. \A t \in Threads, q \in Proxies : HoldsMethods(t, q)' <=> HoldsMethods(t, q)
    BY <1>3, <2>2 DEF NewLock
  <2>4. \A t \in Threads, q \in Proxies : HoldsMethods(t, q)' <=> methodsLock'[q] = t
    BY <1>3, <2>3 DEF NewLock
  <2>5. QED
    BY <2>1, <2>4
<1>4. CASE NewFinish
  <2>1. \A t \in Threads : HoldsRegistry(t)' <=> registryLock' = t
    BY <1>4 DEF NewFinish
  <2>2. \A t \in Threads : pc[t] # "locked" /\ pc'[t] # "locked"
    BY <1>4 DEF NewFinish
  <2>3. \A t \in Threads, q \in Proxies : HoldsMethods(t, q)' <=> HoldsMethods(t, q)
    BY <1>4, <2>2 DEF NewFinish
  <2>4. \A t \in Threads, q \in Proxies : HoldsMethods(t, q)' <=> methodsLock'[q] = t
    BY <1>4, <2>3 DEF NewFinish
  <2>5. QED
    BY <2>1, <2>4
<1>5. CASE NewFail
  <2>1. \A t \in Threads : HoldsRegistry(t)' <=> registryLock' = t
    BY <1>5 DEF NewFail
  <2>2. \A t \in Threads : pc[t] # "locked" /\ pc'[t] # "locked"
    BY <1>5 DEF NewFail
  <2>3. \A t \in Threads, q \in Proxies : HoldsMethods(t, q)' <=> HoldsMethods(t, q)
    BY <1>5, <2>2 DEF NewFail
  <2>4. \A t \in Threads, q \in Proxies : HoldsMethods(t, q)' <=> methodsLock'[q] = t
    BY <1>5, <2>3 DEF NewFail
  <2>5. QED
    BY <2>1, <2>4
<1>6. CASE ResetAgain
  BY <1>6 DEF ResetAgain
<1>7. CASE ResetLock
  BY <1>7 DEF ResetLock
<1>8. CASE ResetFail
  BY <1>8 DEF ResetFail
<1>9. CASE ResetDestruct
  BY <1>9 DEF ResetDestruct
<1>10. CASE ResetFinish
  BY <1>10 DEF ResetFinish
<1>11. ASSUME NEW u \in Threads, NEW p \in Proxies, NEW m \in Methods, Invoke(u, p, m) PROVE LocksHeld'
  BY <1>11 DEF Invoke
<1>12. ASSUME NEW u \in Threads, LookupHit(u) PROVE LocksHeld'
  BY <1>12 DEF LookupHit
<1>13. ASSUME NEW u \in Threads, LookupMiss(u) PROVE LocksHeld'
  BY <1>13 DEF LookupMiss, Fail
<1>14. ASSUME NEW u \in Threads, MethodHit(u) PROVE LocksHeld'
  <2>1. /\ pc[u] = "found" /\ methodsLock[Hit(u)] = None
        /\ pc' = [pc EXCEPT ![u] = "locked"]
        /\ methodsLock' = [methodsLock EXCEPT ![Hit(u)] = u]
        /\ UNCHANGED <<registryLock, registry, id, call, subject>>
    <3> HIDE DEF IInv, TypeOK, LocksHeld, Stages, RegistryAgrees, Hit
    <3>1. QED
      BY <1>14 DEF MethodHit
  <2>2. registryLock = u /\ Hit(u) \in Proxies
    BY <2>1
  <2>3. \A t \in Threads : HoldsRegistry(t)' <=> registryLock' = t
    BY <2>1, <2>2
  <2>4. \A t \in Threads, q \in Proxies : HoldsMethods(t, q)' <=> HoldsMethods(t, q) \/ (t = u /\ q = Hit(u))
    BY <2>1, <2>2
  <2>5. \A t \in Threads, q \in Proxies : HoldsMethods(t, q)' <=> methodsLock'[q] = t
    BY <2>1, <2>2, <2>4
  <2>6. QED
    BY <2>3, <2>5
<1>15. ASSUME NEW u \in Threads, MethodMiss(u) PROVE LocksHeld'
  <2>1. /\ pc[u] = "found" /\ pc' = [pc EXCEPT ![u] = "idle"]
        /\ registryLock' = None
        /\ call' = [call EXCEPT ![u] = None]
        /\ UNCHANGED <<methodsLock, registry, id, subject>>
    <3> HIDE DEF IInv, TypeOK, LocksHeld, Stages, RegistryAgrees, Hit
    <3>1. QED
      BY <1>15 DEF MethodMiss, Fail
  <2>2. \A t \in Threads : HoldsRegistry(t)' <=> registryLock' = t
    BY <2>1
  <2>3. \A t \in Threads, q \in Proxies : HoldsMethods(t, q)' <=> HoldsMethods(t, q)
    BY <2>1
  <2>4. QED
    BY <2>1, <2>2, <2>3
<1>16. ASSUME NEW u \in Threads, Enqueue(u) PROVE LocksHeld'
  <2>1. /\ pc[u] = "locked"
        /\ pc' = [pc EXCEPT ![u] = "waiting"]
        /\ registryLock' = None
        /\ methodsLock' = [methodsLock EXCEPT ![Hit(u)] = None]
        /\ UNCHANGED <<registry, id, call, subject>>
    <3> HIDE DEF IInv, TypeOK, LocksHeld, Stages, RegistryAgrees, Hit
    <3>1. QED
      BY <1>16 DEF Enqueue, Unlock
  <2>2. registryLock = u /\ Hit(u) \in Proxies /\ methodsLock[Hit(u)] = u
    BY <2>1
  <2>3. \A t \in Threads : HoldsRegistry(t)' <=> registryLock' = t
    BY <2>1, <2>2
  <2>4. \A t \in Threads, q \in Proxies : HoldsMethods(t, q)' <=> HoldsMethods(t, q) /\ t # u
    BY <2>1, <2>2
  <2>5. \A t \in Threads, q \in Proxies : HoldsMethods(t, q)' <=> methodsLock'[q] = t
    BY <2>1, <2>2, <2>4
  <2>6. QED
    BY <2>3, <2>5
<1>17. ASSUME NEW u \in Threads, EnqueueFail(u) PROVE LocksHeld'
  BY <1>17 DEF EnqueueFail, Unlock, Fail
<1>18. ASSUME NEW u \in Threads, Receive(u) PROVE LocksHeld'
  <2>1. \A t \in Threads : HoldsRegistry(t)' <=> registryLock' = t
    BY <1>18 DEF Receive
  <2>2. \A t \in Threads, q \in Proxies : HoldsMethods(t, q)' <=> methodsLock'[q] = t
    BY <1>18 DEF Receive
  <2>3. QED
    BY <2>1, <2>2
<1>19. ASSUME NEW p \in Proxies, NEW m \in Methods, Dispatch(p, m) PROVE LocksHeld'
  BY <1>19 DEF Dispatch, Take
<1>20. ASSUME NEW p \in Proxies, NEW m \in Methods, DispatchFail(p, m) PROVE LocksHeld'
  BY <1>20 DEF DispatchFail, Take
<1>21. ASSUME NEW o \in {"value", "thrown", "convFailed"}, Answer(o) PROVE LocksHeld'
  BY <1>21 DEF Answer
<1>22. CASE ThrowUnprintable
  BY <1>22 DEF ThrowUnprintable
<1>23. ASSUME NEW u \in Threads, Collect(u) PROVE LocksHeld'
  BY <1>23 DEF Collect
<1>24. CASE UNCHANGED vars
  BY <1>24 DEF vars
<1> HIDE DEF IInv, TypeOK, LocksHeld, Stages, RegistryAgrees
<1>25. QED
  BY <1>1, <1>2, <1>3, <1>4, <1>5, <1>6, <1>7, <1>8, <1>9, <1>10, <1>11, <1>12, <1>13, <1>14, <1>15, <1>16, <1>17, <1>18, <1>19, <1>20, <1>21, <1>22, <1>23, <1>24
  DEF Next, ProxyNext, ResetNext, CallNext, LookUp, LookUpMethod, Submit, Serve, Finish

LEMMA StagesNext == IInv /\ [Next]_vars => Stages'
<1> SUFFICES ASSUME IInv, [Next]_vars PROVE Stages'
  OBVIOUS
<1> TypeOK'
  BY TypeNext DEF IInv
<1> USE ThreadsAssumption, ProxiesAssumption, IdsAssumption
    DEF IInv, TypeOK, Threads, locks, tables, calls, Goto, CallerPcs, JsPcs, Calls, Hit,
        LocksHeld, HoldsRegistry, HoldsMethods, Stages, RegistryAgrees
<1>1. ASSUME NEW p \in Proxies, NewCall(p) PROVE Stages'
  BY <1>1 DEF NewCall
<1>2. ASSUME NEW p \in Proxies, ResetCall(p) PROVE Stages'
  BY <1>2 DEF ResetCall
<1>3. CASE NewLock
  <2>1. subject \in Proxies /\ state[subject] = "absent" /\ subject' = subject
    BY <1>3 DEF NewLock
  <2>2. PICK i \in FreshIds : id' = [id EXCEPT ![subject] = i]
    BY <1>3 DEF NewLock
  <2>3. i \in Ids /\ registry[i] = None /\ id'[subject] = i
    BY <2>1, <2>2 DEF FreshIds
  <2>4. \A q \in Proxies : q # subject => id'[q] = id[q]
    BY <2>2
  <2>5. \A t \in Threads : pc[t] \notin {"found", "locked"}
    BY <1>3 DEF NewLock
  <2>6. \A j \in Ids : registry[j] # None => registry[j] # subject
    <3> HIDE DEF TypeOK, LocksHeld, Stages
    <3>1. QED
      BY <2>1
  <2>7. \A j \in Ids : registry'[j] # None => id'[registry'[j]] = j
    BY <1>3, <2>4, <2>6 DEF NewLock
  <2>8. \A q \in Proxies : state'[q] # "absent" => id'[q] \in Ids
    BY <1>3, <2>3, <2>4 DEF NewLock
  <2>9. \A t \in Threads : pc'[t] \in CallerPcs => state'[call'[t].proxy] # "absent"
    BY <1>3 DEF NewLock
  <2>10. \A t \in Threads : pc'[t] \notin {"found", "locked"}
    BY <1>3, <2>5 DEF NewLock
  <2>11. pc'[Js] = "creating" /\ registry' = registry /\ state' = state
    BY <1>3 DEF NewLock
  <2>12. QED
    BY <2>1, <2>3, <2>7, <2>8, <2>9, <2>10, <2>11
<1>4. CASE NewFinish
  BY <1>4 DEF NewFinish
<1>5. CASE NewFail
  BY <1>5 DEF NewFail
<1>6. CASE ResetAgain
  BY <1>6 DEF ResetAgain
<1>7. CASE ResetLock
  BY <1>7 DEF ResetLock
<1>8. CASE ResetFail
  BY <1>8 DEF ResetFail
<1>9. CASE ResetDestruct
  BY <1>9 DEF ResetDestruct
<1>10. CASE ResetFinish
  BY <1>10 DEF ResetFinish
<1>11. ASSUME NEW u \in Threads, NEW p \in Proxies, NEW m \in Methods, Invoke(u, p, m) PROVE Stages'
  BY <1>11 DEF Invoke
<1>12. ASSUME NEW u \in Threads, LookupHit(u) PROVE Stages'
  BY <1>12 DEF LookupHit
<1>13. ASSUME NEW u \in Threads, LookupMiss(u) PROVE Stages'
  BY <1>13 DEF LookupMiss, Fail
<1>14. ASSUME NEW u \in Threads, MethodHit(u) PROVE Stages'
  <2>1. /\ pc[u] = "found"
        /\ pc' = [pc EXCEPT ![u] = "locked"]
        /\ UNCHANGED <<registry, state, id, call, subject>>
    <3> HIDE DEF IInv, TypeOK, LocksHeld, Stages, RegistryAgrees, Hit
    <3>1. QED
      BY <1>14 DEF MethodHit
  <2>2. QED
    BY <2>1
<1>15. ASSUME NEW u \in Threads, MethodMiss(u) PROVE Stages'
  <2>1. /\ pc' = [pc EXCEPT ![u] = "idle"] /\ pc[u] = "found"
        /\ call' = [call EXCEPT ![u] = None]
        /\ UNCHANGED <<registry, state, id, subject>>
    <3> HIDE DEF IInv, TypeOK, LocksHeld, Stages, RegistryAgrees, Hit
    <3>1. QED
      BY <1>15 DEF MethodMiss, Fail
  <2>2. QED
    BY <2>1
<1>16. ASSUME NEW u \in Threads, Enqueue(u) PROVE Stages'
  <2>1. /\ pc' = [pc EXCEPT ![u] = "waiting"] /\ pc[u] = "locked"
        /\ UNCHANGED <<registry, state, id, call, subject>>
    <3> HIDE DEF IInv, TypeOK, LocksHeld, Stages, RegistryAgrees, Hit
    <3>1. QED
      BY <1>16 DEF Enqueue
  <2>2. QED
    BY <2>1
<1>17. ASSUME NEW u \in Threads, EnqueueFail(u) PROVE Stages'
  BY <1>17 DEF EnqueueFail, Unlock, Fail
<1>18. ASSUME NEW u \in Threads, Receive(u) PROVE Stages'
  BY <1>18 DEF Receive
<1>19. ASSUME NEW p \in Proxies, NEW m \in Methods, Dispatch(p, m) PROVE Stages'
  BY <1>19 DEF Dispatch, Take
<1>20. ASSUME NEW p \in Proxies, NEW m \in Methods, DispatchFail(p, m) PROVE Stages'
  BY <1>20 DEF DispatchFail, Take
<1>21. ASSUME NEW o \in {"value", "thrown", "convFailed"}, Answer(o) PROVE Stages'
  BY <1>21 DEF Answer
<1>22. CASE ThrowUnprintable
  BY <1>22 DEF ThrowUnprintable
<1>23. ASSUME NEW u \in Threads, Collect(u) PROVE Stages'
  BY <1>23 DEF Collect
<1>24. CASE UNCHANGED vars
  BY <1>24 DEF vars
<1> HIDE DEF IInv, TypeOK, LocksHeld, Stages, RegistryAgrees
<1>25. QED
  BY <1>1, <1>2, <1>3, <1>4, <1>5, <1>6, <1>7, <1>8, <1>9, <1>10, <1>11, <1>12, <1>13, <1>14, <1>15, <1>16, <1>17, <1>18, <1>19, <1>20, <1>21, <1>22, <1>23, <1>24
  DEF Next, ProxyNext, ResetNext, CallNext, LookUp, LookUpMethod, Submit, Serve, Finish

LEMMA RegistryNext == IInv /\ [Next]_vars => RegistryAgrees'
<1> SUFFICES ASSUME IInv, [Next]_vars PROVE RegistryAgrees'
  OBVIOUS
<1> USE ThreadsAssumption, ProxiesAssumption, IdsAssumption
<1>1. CASE NewLock \/ NewFail
  <2>1. subject \in Proxies /\ state[subject] = "absent"
    BY <1>1 DEF NewLock, NewFail, IInv, TypeOK, Stages, JsPcs
  <2>2. UNCHANGED <<registry, methods, state>> /\ \A p \in Proxies : p # subject => id'[p] = id[p]
    BY <1>1, <2>1 DEF NewLock, NewFail, IInv, TypeOK
  <2>3. QED
    BY <2>1, <2>2 DEF IInv, RegistryAgrees
<1>2. CASE NewFinish
  BY <1>2 DEF NewFinish, IInv, TypeOK, Stages, RegistryAgrees, JsPcs
<1>3. CASE ResetFinish
  BY <1>3 DEF ResetFinish, IInv, TypeOK, Stages, RegistryAgrees, JsPcs
<1>4. CASE ~(NewLock \/ NewFail \/ NewFinish \/ ResetFinish)
  <2>1. UNCHANGED <<registry, methods, state, id>>
    BY <1>4 DEF Next, ProxyNext, ResetNext, CallNext, LookUp, LookUpMethod, Submit, Serve, Finish,
                NewCall, ResetCall, ResetAgain, ResetLock, ResetFail, ResetDestruct, Invoke,
                LookupHit, LookupMiss, MethodHit, MethodMiss, Enqueue, EnqueueFail, Receive,
                Dispatch, DispatchFail, Answer, ThrowUnprintable, Collect, tables, vars
  <2>2. QED
    BY <2>1 DEF IInv, RegistryAgrees
<1>5. QED
  BY <1>1, <1>2, <1>3, <1>4

-----------------------------------------------------------------------------
(***************************************************************************)
(* What joining and leaving a queue does to the places of the calls.       *)
(***************************************************************************)
LEMMA QueueJoined ==
  ASSUME TypeOK, NEW u \in Threads, NEW a \in Proxies, NEW b \in Methods,
         ~Queued(u), \A t \in Threads : QueuedOnce(t),
         queue' = [queue EXCEPT ![a][b] = Append(@, u)]
  PROVE  /\ \A t \in Threads, p \in Proxies, m \in Methods :
               InQueue(t, p, m)' <=> InQueue(t, p, m) \/ (t = u /\ p = a /\ m = b)
         /\ \A t \in Threads : QueuedOnce(t)'
<1> DEFINE Place(p, m, i, t) == i \in 1 .. Len(queue[p][m]) /\ queue[p][m][i] = t
           New(p, m, i, t)   == i \in 1 .. Len(queue'[p][m]) /\ queue'[p][m][i] = t
           n == Len(queue[a][b]) + 1
<1>1. \A p \in Proxies, m \in Methods : queue[p][m] \in Seq(Threads)
  BY DEF TypeOK
<1>2. queue'[a][b] = Append(queue[a][b], u)
  BY DEF TypeOK
<1>3. \A p \in Proxies, m \in Methods : ~(p = a /\ m = b) => queue'[p][m] = queue[p][m]
  BY DEF TypeOK
<1>4. n \in Nat \ {0} /\ Len(queue'[a][b]) = n
  BY <1>1, <1>2
<1>5. \A i \in Int, t \in Threads : New(a, b, i, t) <=> Place(a, b, i, t) \/ (i = n /\ t = u)
  BY <1>1, <1>2, <1>4
<1>6. \A p \in Proxies, m \in Methods, i \in Int, t \in Threads :
        New(p, m, i, t) <=> Place(p, m, i, t) \/ (p = a /\ m = b /\ i = n /\ t = u)
  <2> TAKE p \in Proxies, m \in Methods, i \in Int, t \in Threads
  <2>1. CASE p = a /\ m = b
    BY <1>5, <2>1
  <2>2. CASE ~(p = a /\ m = b)
    BY <1>3, <2>2
  <2>3. QED
    BY <2>1, <2>2
<1>7. \A p \in Proxies, m \in Methods, i \in Int : ~Place(p, m, i, u)
  BY DEF Queued, InQueue
<1>8. \A t \in Threads, p \in Proxies, m \in Methods :
        /\ InQueue(t, p, m) <=> \E i \in Int : Place(p, m, i, t)
        /\ InQueue(t, p, m)' <=> \E i \in Int : New(p, m, i, t)
  BY DEF InQueue
<1>9. \A t \in Threads, p, q \in Proxies, m, k \in Methods, i, j \in Int :
        Place(p, m, i, t) /\ Place(q, k, j, t) => p = q /\ m = k /\ i = j
  BY DEF QueuedOnce
<1>10. \A t \in Threads, p, q \in Proxies, m, k \in Methods, i, j \in Int :
        New(p, m, i, t) /\ New(q, k, j, t) => p = q /\ m = k /\ i = j
  <2> HIDE DEF Place, New, n
  <2>1. QED
    BY <1>6, <1>7, <1>9
<1>11. \A t \in Threads : QueuedOnce(t)'
  <2>1. \A p \in Proxies, m \in Methods, t \in Threads : \A i \in 1 .. Len(queue'[p][m]) :
          i \in Int /\ (queue'[p][m][i] = t => New(p, m, i, t))
    OBVIOUS
  <2> HIDE DEF New
  <2>2. QED
    BY <1>10, <2>1 DEF QueuedOnce
<1>12. \A t \in Threads, p \in Proxies, m \in Methods :
        InQueue(t, p, m)' <=> InQueue(t, p, m) \/ (t = u /\ p = a /\ m = b)
  <2> HIDE DEF Place, New, n
  <2>1. QED
    BY <1>4, <1>6, <1>8
<1>13. QED
  BY <1>11, <1>12

LEMMA QueueLeft ==
  ASSUME TypeOK, NEW a \in Proxies, NEW b \in Methods, queue[a][b] # <<>>,
         \A t \in Threads : QueuedOnce(t),
         queue' = [queue EXCEPT ![a][b] = Tail(@)]
  PROVE  LET u == Head(queue[a][b])
         IN  /\ u \in Threads /\ InQueue(u, a, b)
             /\ \A t \in Threads, p \in Proxies, m \in Methods :
                   InQueue(t, p, m)' <=> InQueue(t, p, m) /\ t # u
             /\ \A t \in Threads : QueuedOnce(t)'
<1> DEFINE Place(p, m, i, t) == i \in 1 .. Len(queue[p][m]) /\ queue[p][m][i] = t
           New(p, m, i, t)   == i \in 1 .. Len(queue'[p][m]) /\ queue'[p][m][i] = t
           Old(p, m, i)      == IF p = a /\ m = b THEN i + 1 ELSE i
           u == Head(queue[a][b])
<1>1. \A p \in Proxies, m \in Methods : queue[p][m] \in Seq(Threads)
  BY DEF TypeOK
<1>2. queue'[a][b] = Tail(queue[a][b])
  BY DEF TypeOK
<1>3. \A p \in Proxies, m \in Methods : ~(p = a /\ m = b) => queue'[p][m] = queue[p][m]
  BY DEF TypeOK
<1>4. u \in Threads /\ Place(a, b, 1, u)
  BY <1>1
<1>5. \A i \in Int, t \in Threads : New(a, b, i, t) <=> Place(a, b, i + 1, t) /\ i + 1 # 1
  <2> DEFINE s == queue[a][b]
  <2>1. s \in Seq(Threads) /\ s # <<>>
    BY <1>1
  <2>2. Len(s) \in Nat \ {0} /\ Len(Tail(s)) = Len(s) - 1
    BY <2>1
  <2>3. \A i \in 1 .. Len(s) - 1 : Tail(s)[i] = s[i + 1]
    BY <2>1
  <2>4. \A i \in Int : i \in 1 .. Len(Tail(s)) <=> i + 1 \in 1 .. Len(s) /\ i + 1 # 1
    BY <2>2
  <2>5. QED
    BY <1>2, <2>2, <2>3, <2>4
<1>6. \A p \in Proxies, m \in Methods, i \in Int, t \in Threads :
        New(p, m, i, t) <=> Place(p, m, Old(p, m, i), t) /\ ~(p = a /\ m = b /\ Old(p, m, i) = 1)
  <2> TAKE p \in Proxies, m \in Methods, i \in Int, t \in Threads
  <2>1. CASE p = a /\ m = b
    BY <1>5, <2>1
  <2>2. CASE ~(p = a /\ m = b)
    BY <1>3, <2>2
  <2>3. QED
    BY <2>1, <2>2
<1>7. \A t \in Threads, p \in Proxies, m \in Methods :
        /\ InQueue(t, p, m) <=> \E i \in Int : Place(p, m, i, t)
        /\ InQueue(t, p, m)' <=> \E i \in Int : New(p, m, i, t)
  BY DEF InQueue
<1>8. \A t \in Threads, p, q \in Proxies, m, k \in Methods, i, j \in Int :
        Place(p, m, i, t) /\ Place(q, k, j, t) => p = q /\ m = k /\ i = j
  BY DEF QueuedOnce
<1>9. \A p \in Proxies, m \in Methods :
        /\ \A i \in Int : Old(p, m, i) \in Int
        /\ \A i, j \in Int : Old(p, m, i) = Old(p, m, j) => i = j
        /\ \A j \in Int : \E i \in Int : Old(p, m, i) = j
  <2> TAKE p \in Proxies, m \in Methods
  <2>1. CASE p = a /\ m = b
    <3>1. \A i : Old(p, m, i) = i + 1
      BY <2>1
    <3> HIDE DEF Old
    <3>2. \A i, j \in Int : i + 1 \in Int /\ (i + 1 = j + 1 => i = j)
      OBVIOUS
    <3>3. ASSUME NEW j \in Int PROVE \E i \in Int : Old(p, m, i) = j
      <4>1. j - 1 \in Int /\ j - 1 + 1 = j
        OBVIOUS
      <4>2. QED
        BY <3>1, <4>1
    <3>4. \A i, j \in Int : Old(p, m, i) \in Int /\ (Old(p, m, i) = Old(p, m, j) => i = j)
      BY <3>1, <3>2
    <3>5. QED
      BY <3>3, <3>4
  <2>2. CASE ~(p = a /\ m = b)
    <3>1. \A i : Old(p, m, i) = i
      BY <2>2
    <3> HIDE DEF Old
    <3>2. QED
      BY <3>1
  <2>3. QED
    BY <2>1, <2>2
<1>10. \A t \in Threads, p, q \in Proxies, m, k \in Methods, i, j \in Int :
        New(p, m, i, t) /\ New(q, k, j, t) => p = q /\ m = k /\ i = j
  <2> HIDE DEF Place, New, Old, u
  <2> SUFFICES ASSUME NEW t \in Threads, NEW p \in Proxies, NEW q \in Proxies, NEW m \in Methods,
                      NEW k \in Methods, NEW i \in Int, NEW j \in Int,
                      New(p, m, i, t), New(q, k, j, t)
               PROVE  p = q /\ m = k /\ i = j
    OBVIOUS
  <2>1. Place(p, m, Old(p, m, i), t) /\ Place(q, k, Old(q, k, j), t)
    BY <1>6
  <2>2. Old(p, m, i) \in Int /\ Old(q, k, j) \in Int
    BY <1>9
  <2>3. p = q /\ m = k /\ Old(p, m, i) = Old(q, k, j)
    BY <1>8, <2>1, <2>2
  <2>4. QED
    BY <1>9, <2>3
<1>11. \A t \in Threads : QueuedOnce(t)'
  <2>1. \A p \in Proxies, m \in Methods, t \in Threads : \A i \in 1 .. Len(queue'[p][m]) :
          i \in Int /\ (queue'[p][m][i] = t => New(p, m, i, t))
    OBVIOUS
  <2> HIDE DEF New
  <2>2. QED
    BY <1>10, <2>1 DEF QueuedOnce
<1>12. \A t \in Threads, p \in Proxies, m \in Methods :
        InQueue(t, p, m)' <=> InQueue(t, p, m) /\ t # u
  <2> HIDE DEF Place, New, Old, u
  <2> TAKE t \in Threads, p \in Proxies, m \in Methods
  <2>1. ASSUME InQueue(t, p, m)' PROVE InQueue(t, p, m) /\ t # u
    <3>1. PICK i \in Int : New(p, m, i, t)
      BY <1>7, <2>1
    <3>2. Place(p, m, Old(p, m, i), t) /\ ~(p = a /\ m = b /\ Old(p, m, i) = 1)
      BY <1>6, <3>1
    <3>3. Old(p, m, i) \in Int /\ 1 \in Int
      BY <1>9
    <3>4. QED
      BY <1>4, <1>7, <1>8, <3>2, <3>3
  <2>2. ASSUME InQueue(t, p, m), t # u PROVE InQueue(t, p, m)'
    <3>1. PICK j \in Int : Place(p, m, j, t)
      BY <1>7, <2>2
    <3>2. PICK i \in Int : Old(p, m, i) = j
      BY <1>9
    <3>3. ~(p = a /\ m = b /\ j = 1)
      BY <1>4, <2>2, <3>1 DEF Place
    <3>4. QED
      BY <1>6, <1>7, <3>1, <3>2, <3>3
  <2>3. QED
    BY <2>1, <2>2
<1>13. InQueue(u, a, b)
  BY <1>4, <1>7
<1>14. QED
  BY <1>4, <1>11, <1>12, <1>13

LEMMA CallsUntouched ==
  ASSUME CallsAccounted, UNCHANGED <<slot, queue, handling, parked>>,
         \A t \in Threads : pc'[t] = "waiting" <=> pc[t] = "waiting"
  PROVE  CallsAccounted'
  BY DEF CallsAccounted, Queued, QueuedOnce, InQueue

LEMMA CallsNext == IInv /\ CallsAccounted /\ [Next]_vars => CallsAccounted'
<1> SUFFICES ASSUME IInv, CallsAccounted, [Next]_vars PROVE CallsAccounted'
  OBVIOUS
<1> TypeOK
  BY DEF IInv
<1> USE ThreadsAssumption
<1>1. ASSUME NEW p \in Proxies, NewCall(p) PROVE CallsAccounted'
  <2>1. \A t \in Threads : pc'[t] = "waiting" <=> pc[t] = "waiting"
    BY <1>1 DEF NewCall, TypeOK, Threads, Goto
  <2>2. UNCHANGED <<slot, queue, handling, parked>>
    BY <1>1 DEF NewCall, calls
  <2>3. QED
    BY <2>1, <2>2, CallsUntouched
<1>2. ASSUME NEW p \in Proxies, ResetCall(p) PROVE CallsAccounted'
  <2>1. \A t \in Threads : pc'[t] = "waiting" <=> pc[t] = "waiting"
    BY <1>2 DEF ResetCall, TypeOK, Threads, Goto
  <2>2. UNCHANGED <<slot, queue, handling, parked>>
    BY <1>2 DEF ResetCall, calls
  <2>3. QED
    BY <2>1, <2>2, CallsUntouched
<1>3. CASE NewLock
  <2>1. \A t \in Threads : pc'[t] = "waiting" <=> pc[t] = "waiting"
    BY <1>3 DEF NewLock, FreshIds, TypeOK, Threads, Goto
  <2>2. UNCHANGED <<slot, queue, handling, parked>>
    BY <1>3 DEF NewLock, FreshIds, calls
  <2>3. QED
    BY <2>1, <2>2, CallsUntouched
<1>4. CASE NewFinish
  <2>1. \A t \in Threads : pc'[t] = "waiting" <=> pc[t] = "waiting"
    BY <1>4 DEF NewFinish, TypeOK, Threads, Goto
  <2>2. UNCHANGED <<slot, queue, handling, parked>>
    BY <1>4 DEF NewFinish, calls
  <2>3. QED
    BY <2>1, <2>2, CallsUntouched
<1>5. CASE NewFail
  <2>1. \A t \in Threads : pc'[t] = "waiting" <=> pc[t] = "waiting"
    BY <1>5 DEF NewFail, TypeOK, Threads, Goto
  <2>2. UNCHANGED <<slot, queue, handling, parked>>
    BY <1>5 DEF NewFail, calls
  <2>3. QED
    BY <2>1, <2>2, CallsUntouched
<1>6. CASE ResetAgain
  <2>1. \A t \in Threads : pc'[t] = "waiting" <=> pc[t] = "waiting"
    BY <1>6 DEF ResetAgain, TypeOK, Threads, Goto
  <2>2. UNCHANGED <<slot, queue, handling, parked>>
    BY <1>6 DEF ResetAgain, calls
  <2>3. QED
    BY <2>1, <2>2, CallsUntouched
<1>7. CASE ResetLock
  <2>1. \A t \in Threads : pc'[t] = "waiting" <=> pc[t] = "waiting"
    BY <1>7 DEF ResetLock, TypeOK, Threads, Goto
  <2>2. UNCHANGED <<slot, queue, handling, parked>>
    BY <1>7 DEF ResetLock, calls
  <2>3. QED
    BY <2>1, <2>2, CallsUntouched
<1>8. CASE ResetFail
  <2>1. \A t \in Threads : pc'[t] = "waiting" <=> pc[t] = "waiting"
    BY <1>8 DEF ResetFail, TypeOK, Threads, Goto
  <2>2. UNCHANGED <<slot, queue, handling, parked>>
    BY <1>8 DEF ResetFail, calls
  <2>3. QED
    BY <2>1, <2>2, CallsUntouched
<1>9. CASE ResetDestruct
  <2>1. \A t \in Threads : pc'[t] = "waiting" <=> pc[t] = "waiting"
    BY <1>9 DEF ResetDestruct, TypeOK, Threads, Goto
  <2>2. UNCHANGED <<slot, queue, handling, parked>>
    BY <1>9 DEF ResetDestruct, calls
  <2>3. QED
    BY <2>1, <2>2, CallsUntouched
<1>10. CASE ResetFinish
  <2>1. \A t \in Threads : pc'[t] = "waiting" <=> pc[t] = "waiting"
    BY <1>10 DEF ResetFinish, TypeOK, Threads, Goto
  <2>2. UNCHANGED <<slot, queue, handling, parked>>
    BY <1>10 DEF ResetFinish, calls
  <2>3. QED
    BY <2>1, <2>2, CallsUntouched
<1>11. ASSUME NEW u \in Threads, NEW p \in Proxies, NEW m \in Methods, Invoke(u, p, m) PROVE CallsAccounted'
  <2>1. \A t \in Threads : pc'[t] = "waiting" <=> pc[t] = "waiting"
    BY <1>11 DEF Invoke, TypeOK, Threads, Goto
  <2>2. UNCHANGED <<slot, queue, handling, parked>>
    BY <1>11 DEF Invoke, calls
  <2>3. QED
    BY <2>1, <2>2, CallsUntouched
<1>12. ASSUME NEW u \in Threads, LookupHit(u) PROVE CallsAccounted'
  <2>1. \A t \in Threads : pc'[t] = "waiting" <=> pc[t] = "waiting"
    BY <1>12 DEF LookupHit, TypeOK, Threads, Goto
  <2>2. UNCHANGED <<slot, queue, handling, parked>>
    BY <1>12 DEF LookupHit, calls
  <2>3. QED
    BY <2>1, <2>2, CallsUntouched
<1>13. ASSUME NEW u \in Threads, LookupMiss(u) PROVE CallsAccounted'
  <2>1. \A t \in Threads : pc'[t] = "waiting" <=> pc[t] = "waiting"
    BY <1>13 DEF LookupMiss, Fail, TypeOK, Threads, Goto
  <2>2. UNCHANGED <<slot, queue, handling, parked>>
    BY <1>13 DEF LookupMiss, Fail, calls
  <2>3. QED
    BY <2>1, <2>2, CallsUntouched
<1>14. ASSUME NEW u \in Threads, MethodHit(u) PROVE CallsAccounted'
  <2>1. \A t \in Threads : pc'[t] = "waiting" <=> pc[t] = "waiting"
    BY <1>14 DEF MethodHit, TypeOK, Threads, Goto
  <2>2. UNCHANGED <<slot, queue, handling, parked>>
    BY <1>14 DEF MethodHit, calls
  <2>3. QED
    BY <2>1, <2>2, CallsUntouched
<1>15. ASSUME NEW u \in Threads, MethodMiss(u) PROVE CallsAccounted'
  <2>1. \A t \in Threads : pc'[t] = "waiting" <=> pc[t] = "waiting"
    BY <1>15 DEF MethodMiss, Fail, TypeOK, Threads, Goto
  <2>2. UNCHANGED <<slot, queue, handling, parked>>
    BY <1>15 DEF MethodMiss, Fail, calls
  <2>3. QED
    BY <2>1, <2>2, CallsUntouched
<1>16. ASSUME NEW u \in Threads, Enqueue(u) PROVE CallsAccounted'
  <2>1. /\ pc[u] = "locked"
        /\ pc' = [pc EXCEPT ![u] = "waiting"]
        /\ slot' = [slot EXCEPT ![u] = "pending"]
        /\ UNCHANGED <<handling, parked>>
        /\ queue' = [queue EXCEPT ![Hit(u)][call[u].method] = Append(@, u)]
    BY <1>16 DEF Enqueue, Goto
  <2>2. Hit(u) \in Proxies /\ call[u].method \in Methods
    BY <2>1 DEF IInv, Stages, TypeOK, CallerPcs, Calls
  <2>3. slot[u] = "none" /\ ~Queued(u) /\ handling # u /\ parked[u] = "no"
    BY <2>1 DEF CallsAccounted
  <2>4. /\ \A t \in Threads, p \in Proxies, m \in Methods :
              InQueue(t, p, m)' <=> InQueue(t, p, m) \/ (t = u /\ p = Hit(u) /\ m = call[u].method)
        /\ \A t \in Threads : QueuedOnce(t)'
    <3>1. \A t \in Threads : QueuedOnce(t)
      BY DEF CallsAccounted
    <3>2. QED
      BY <2>1, <2>2, <2>3, <3>1, QueueJoined
  <2>5. \A t \in Threads : Queued(t)' <=> Queued(t) \/ t = u
    BY <2>2, <2>4 DEF Queued
  <2>6. \A t \in Threads : (slot'[t] = IF t = u THEN "pending" ELSE slot[t])
                        /\ (pc'[t] = IF t = u THEN "waiting" ELSE pc[t])
    BY <2>1 DEF TypeOK
  <2>7. QED
    BY <2>1, <2>3, <2>4, <2>5, <2>6 DEF CallsAccounted
<1>17. ASSUME NEW u \in Threads, EnqueueFail(u) PROVE CallsAccounted'
  <2>1. \A t \in Threads : pc'[t] = "waiting" <=> pc[t] = "waiting"
    BY <1>17 DEF EnqueueFail, Unlock, Fail, TypeOK, Threads, Goto
  <2>2. UNCHANGED <<slot, queue, handling, parked>>
    BY <1>17 DEF EnqueueFail, Unlock, Fail, calls
  <2>3. QED
    BY <2>1, <2>2, CallsUntouched
<1>18. ASSUME NEW u \in Threads, Receive(u) PROVE CallsAccounted'
  <2>1. /\ slot[u] \notin {"none", "pending"} /\ pc[u] = "waiting"
        /\ \A t \in Threads : slot'[t] = IF t = u THEN "none" ELSE slot[t]
        /\ \A t \in Threads : pc'[t] = IF t = u THEN "idle" ELSE pc[t]
        /\ UNCHANGED <<queue, handling, parked>>
    BY <1>18 DEF Receive, Goto, TypeOK
  <2>2. \A t \in Threads : (Queued(t)' <=> Queued(t)) /\ (QueuedOnce(t)' <=> QueuedOnce(t))
    BY <2>1 DEF Queued, QueuedOnce, InQueue
  <2>3. QED
    BY <2>1, <2>2 DEF CallsAccounted
<1>19. ASSUME NEW p \in Proxies, NEW m \in Methods, Dispatch(p, m) PROVE CallsAccounted'
  <2> DEFINE u == Head(queue[p][m])
  <2>1. /\ queue[p][m] # <<>> /\ handling = None
        /\ queue' = [queue EXCEPT ![p][m] = Tail(@)]
        /\ handling' = u /\ UNCHANGED <<pc, slot, parked>>
    BY <1>19 DEF Dispatch, Take
  <2>2. /\ u \in Threads /\ InQueue(u, p, m)
        /\ \A t \in Threads, q \in Proxies, k \in Methods :
              InQueue(t, q, k)' <=> InQueue(t, q, k) /\ t # u
        /\ \A t \in Threads : QueuedOnce(t)'
    <3>1. \A t \in Threads : QueuedOnce(t)
      BY DEF CallsAccounted
    <3>2. QED
      BY <2>1, <3>1, QueueLeft
  <2>3. Queued(u) /\ \A t \in Threads : Queued(t)' <=> Queued(t) /\ t # u
    BY <2>2 DEF Queued
  <2> HIDE DEF u
  <2>4. None \notin Threads
    BY DEF Threads
  <2>5. QED
    BY <2>1, <2>2, <2>3, <2>4 DEF CallsAccounted
<1>20. ASSUME NEW p \in Proxies, NEW m \in Methods, DispatchFail(p, m) PROVE CallsAccounted'
  <2> DEFINE u == Head(queue[p][m])
  <2>1. /\ queue[p][m] # <<>> /\ handling = None
        /\ queue' = [queue EXCEPT ![p][m] = Tail(@)]
        /\ parked' = [parked EXCEPT ![u] = "badArgs"] /\ UNCHANGED <<pc, slot, handling>>
    BY <1>20 DEF DispatchFail, Take
  <2>2. /\ u \in Threads /\ InQueue(u, p, m)
        /\ \A t \in Threads, q \in Proxies, k \in Methods :
              InQueue(t, q, k)' <=> InQueue(t, q, k) /\ t # u
        /\ \A t \in Threads : QueuedOnce(t)'
    <3>1. \A t \in Threads : QueuedOnce(t)
      BY DEF CallsAccounted
    <3>2. QED
      BY <2>1, <3>1, QueueLeft
  <2>3. Queued(u) /\ \A t \in Threads : Queued(t)' <=> Queued(t) /\ t # u
    BY <2>2 DEF Queued
  <2> HIDE DEF u
  <2>4. \A t \in Threads : parked'[t] = IF t = u THEN "badArgs" ELSE parked[t]
    BY <2>1, <2>2 DEF TypeOK
  <2>5. None \notin Threads
    BY DEF Threads
  <2>6. QED
    BY <2>1, <2>2, <2>3, <2>4, <2>5 DEF CallsAccounted
<1>21. ASSUME NEW o \in {"value", "thrown", "convFailed"}, Answer(o) PROVE CallsAccounted'
  <2>1. /\ handling \in Threads /\ handling' = None
        /\ \A t \in Threads : slot'[t] = IF t = handling THEN o ELSE slot[t]
        /\ UNCHANGED <<queue, pc, parked>>
    BY <1>21 DEF Answer, Goto, TypeOK
  <2>2. \A t \in Threads : (Queued(t)' <=> Queued(t)) /\ (QueuedOnce(t)' <=> QueuedOnce(t))
    BY <2>1 DEF Queued, QueuedOnce, InQueue
  <2>3. o \notin {"none", "pending"}
    OBVIOUS
  <2>4. None \notin Threads
    BY DEF Threads
  <2>5. QED
    BY <2>1, <2>2, <2>3, <2>4 DEF CallsAccounted
<1>22. CASE ThrowUnprintable
  <2>1. /\ handling \in Threads /\ handling' = None
        /\ \A t \in Threads : parked'[t] = IF t = handling THEN "threw" ELSE parked[t]
        /\ UNCHANGED <<queue, pc, slot>>
    BY <1>22 DEF ThrowUnprintable, Goto, TypeOK
  <2>2. \A t \in Threads : (Queued(t)' <=> Queued(t)) /\ (QueuedOnce(t)' <=> QueuedOnce(t))
    BY <2>1 DEF Queued, QueuedOnce, InQueue
  <2>3. None \notin Threads
    BY DEF Threads
  <2>4. QED
    BY <2>1, <2>2, <2>3 DEF CallsAccounted
<1>23. ASSUME NEW u \in Threads, Collect(u) PROVE CallsAccounted'
  <2>1. /\ parked[u] # "no"
        /\ \A t \in Threads : parked'[t] = IF t = u THEN "no" ELSE parked[t]
        /\ \A t \in Threads : slot'[t] = IF t = u THEN "canceled" ELSE slot[t]
        /\ UNCHANGED <<queue, pc, handling>>
    BY <1>23 DEF Collect, Goto, TypeOK
  <2>2. \A t \in Threads : (Queued(t)' <=> Queued(t)) /\ (QueuedOnce(t)' <=> QueuedOnce(t))
    BY <2>1 DEF Queued, QueuedOnce, InQueue
  <2>3. QED
    BY <2>1, <2>2 DEF CallsAccounted
<1>24. CASE UNCHANGED vars
  <2>1. QED
    BY <1>24, CallsUntouched DEF vars
<1>25. QED
  BY <1>1, <1>2, <1>3, <1>4, <1>5, <1>6, <1>7, <1>8, <1>9, <1>10, <1>11, <1>12, <1>13, <1>14, <1>15, <1>16, <1>17, <1>18, <1>19, <1>20, <1>21, <1>22, <1>23, <1>24
  DEF Next, ProxyNext, ResetNext, CallNext, LookUp, LookUpMethod, Submit, Serve, Finish

-----------------------------------------------------------------------------
(***************************************************************************)
(* The safety theorems that hold whether or not ids repeat.                *)
(***************************************************************************)
LEMMA InvInit == Init => IInv /\ CallsAccounted
<1> SUFFICES ASSUME Init PROVE IInv /\ CallsAccounted
  OBVIOUS
<1> USE ThreadsAssumption, ProxiesAssumption, IdsAssumption
<1>1. TypeOK
  BY TypeInit
<1>2. LocksHeld /\ Stages /\ RegistryAgrees
  BY <1>1 DEF Init, TypeOK, LocksHeld, HoldsRegistry, HoldsMethods, Hit, Stages, RegistryAgrees,
     CallerPcs, JsPcs, Threads
<1>3. CallsAccounted
  <2>1. \A p \in Proxies, m \in Methods : Len(queue[p][m]) = 0
    BY DEF Init
  <2>2. \A t : ~Queued(t) /\ QueuedOnce(t)
    BY <2>1 DEF Queued, QueuedOnce, InQueue
  <2>3. QED
    BY <2>2 DEF Init, CallsAccounted, Threads
<1>4. QED
  BY <1>1, <1>2, <1>3 DEF IInv

LEMMA InvNext == IInv /\ [Next]_vars => IInv'
  BY TypeNext, LocksNext, StagesNext, RegistryNext DEF IInv

LEMMA Invariance == Spec => []IInv
<1>1. QED
  BY InvInit, InvNext, PTL DEF Spec

\* The nested locks of calls and resets exclude each other.
THEOREM LocksAreHeld == Spec => []LocksHeld
<1>1. IInv => LocksHeld
  BY DEF IInv
<1>2. QED
  BY <1>1, Invariance, PTL

\* A live proxy is registered under its own id with all its methods, no
\* other proxy is registered or has methods.
THEOREM RegistryIsRight == Spec => []RegistryAgrees
<1>1. IInv => RegistryAgrees
  BY DEF IInv
<1>2. QED
  BY <1>1, Invariance, PTL

\* No call is lost or held twice between the queue, the JS thread, the
\* parked callbacks and the answers.
THEOREM NoCallIsLost == Spec => []CallsAccounted
<1>1. QED
  BY InvInit, CallsNext, Invariance, PTL DEF Spec

-----------------------------------------------------------------------------
(***************************************************************************)
(* The safety theorems that need ids that never repeat.                    *)
(***************************************************************************)
LEMMA IdsNext ==
  ASSUME ReuseIds = FALSE
  PROVE  IInv /\ IInvIds /\ [Next]_vars => IInvIds'
<1> SUFFICES ASSUME IInv, IInvIds, [Next]_vars PROVE IInvIds'
  OBVIOUS
<1> TypeOK /\ TypeOK' /\ IInv'
  BY TypeNext, InvNext DEF IInv
<1> USE ThreadsAssumption, ProxiesAssumption, IdsAssumption
    DEF IInv, TypeOK, Threads, locks, tables, calls, Goto, CallerPcs, JsPcs, Calls, Hit,
        Stages, RegistryAgrees, IInvIds, IdsDistinct, LateIsDestroyed, LateCallsFail
<1>1. ASSUME NEW p \in Proxies, NewCall(p) PROVE IInvIds'
  BY <1>1 DEF NewCall
<1>2. ASSUME NEW p \in Proxies, ResetCall(p) PROVE IInvIds'
  BY <1>2 DEF ResetCall
<1>3. CASE NewLock
  BY <1>3 DEF NewLock, FreshIds
<1>4. CASE NewFinish
  <2>1. /\ UNCHANGED <<id, call>>
        /\ pc' = [pc EXCEPT ![Js] = "idle"]
        /\ state' = [state EXCEPT ![subject] = "live"] /\ state[subject] = "absent"
    BY <1>4 DEF NewFinish
  <2>2. IdsDistinct' /\ LateIsDestroyed'
    BY <2>1
  <2>3. LateCallsFail'
    BY <2>1
  <2>4. QED
    BY <2>2, <2>3
<1>5. CASE NewFail
  BY <1>5 DEF NewFail
<1>6. CASE ResetAgain
  BY <1>6 DEF ResetAgain
<1>7. CASE ResetLock
  BY <1>7 DEF ResetLock
<1>8. CASE ResetFail
  BY <1>8 DEF ResetFail
<1>9. CASE ResetDestruct
  BY <1>9 DEF ResetDestruct
<1>10. CASE ResetFinish
  <2>1. /\ UNCHANGED <<id, call>>
        /\ pc' = [pc EXCEPT ![Js] = "idle"]
        /\ state' = [state EXCEPT ![subject] = "destroyed"]
    BY <1>10 DEF ResetFinish
  <2> HIDE DEF IInv, Stages, RegistryAgrees
  <2>2. IdsDistinct' /\ LateCallsFail'
    BY <2>1
  <2>3. LateIsDestroyed'
    BY <2>1
  <2>4. QED
    BY <2>2, <2>3
<1>11. ASSUME NEW u \in Threads, NEW p \in Proxies, NEW m \in Methods, Invoke(u, p, m) PROVE IInvIds'
  <2>1. \A t \in Threads : t # u => pc'[t] = pc[t] /\ call'[t] = call[t]
    BY <1>11 DEF Invoke
  <2>2. pc'[u] = "entering" /\ call'[u].proxy = p /\ (call'[u].late => state[p] = "destroyed")
    BY <1>11 DEF Invoke
  <2>3. UNCHANGED <<state, id>>
    BY <1>11 DEF Invoke
  <2>4. IdsDistinct'
    BY <2>3
  <2>5. LateIsDestroyed'
    BY <2>1, <2>2, <2>3
  <2>6. LateCallsFail'
    BY <2>1, <2>2
  <2>7. QED
    BY <2>4, <2>5, <2>6
<1>12. ASSUME NEW u \in Threads, LookupHit(u) PROVE IInvIds'
  BY <1>12 DEF LookupHit
<1>13. ASSUME NEW u \in Threads, LookupMiss(u) PROVE IInvIds'
  BY <1>13 DEF LookupMiss, Fail
<1>14. ASSUME NEW u \in Threads, MethodHit(u) PROVE IInvIds'
  <2>1. /\ pc[u] = "found"
        /\ pc' = [pc EXCEPT ![u] = "locked"]
        /\ UNCHANGED <<state, id, call>>
    <3> HIDE DEF IInv, TypeOK, Stages, RegistryAgrees, IInvIds, Hit
    <3>1. QED
      BY <1>14 DEF MethodHit
  <2> HIDE DEF IInv, Stages, RegistryAgrees, Hit
  <2>2. IdsDistinct'
    BY <2>1
  <2>3. LateIsDestroyed'
    BY <2>1
  <2>4. LateCallsFail'
    BY <2>1
  <2>5. QED
    BY <2>2, <2>3, <2>4
<1>15. ASSUME NEW u \in Threads, MethodMiss(u) PROVE IInvIds'
  <2>1. /\ pc' = [pc EXCEPT ![u] = "idle"]
        /\ call' = [call EXCEPT ![u] = None]
        /\ UNCHANGED <<state, id>>
    <3> HIDE DEF IInv, TypeOK, Stages, RegistryAgrees, IInvIds, Hit
    <3>1. QED
      BY <1>15 DEF MethodMiss, Fail
  <2> HIDE DEF IInv, Stages, RegistryAgrees, Hit
  <2>2. IdsDistinct'
    BY <2>1
  <2>3. LateIsDestroyed'
    BY <2>1
  <2>4. LateCallsFail'
    BY <2>1
  <2>5. QED
    BY <2>2, <2>3, <2>4
<1>16. ASSUME NEW u \in Threads, Enqueue(u) PROVE IInvIds'
  <2>1. /\ pc[u] = "locked"
        /\ pc' = [pc EXCEPT ![u] = "waiting"]
        /\ UNCHANGED <<state, id, call>>
    <3> HIDE DEF IInv, TypeOK, Stages, RegistryAgrees, IInvIds, Hit
    <3>1. QED
      BY <1>16 DEF Enqueue
  <2> HIDE DEF IInv, Stages, RegistryAgrees, Hit
  <2>2. IdsDistinct'
    BY <2>1
  <2>3. LateIsDestroyed'
    BY <2>1
  <2>4. LateCallsFail'
    BY <2>1
  <2>5. QED
    BY <2>2, <2>3, <2>4
<1>17. ASSUME NEW u \in Threads, EnqueueFail(u) PROVE IInvIds'
  <2>1. /\ pc' = [pc EXCEPT ![u] = "idle"]
        /\ call' = [call EXCEPT ![u] = None]
        /\ UNCHANGED <<state, id>>
    <3> HIDE DEF IInv, TypeOK, Stages, RegistryAgrees, IInvIds, Hit
    <3>1. QED
      BY <1>17 DEF EnqueueFail, Fail
  <2> HIDE DEF IInv, Stages, RegistryAgrees, Hit
  <2>2. QED
    BY <2>1
<1>18. ASSUME NEW u \in Threads, Receive(u) PROVE IInvIds'
  BY <1>18 DEF Receive
<1>19. ASSUME (\E p \in Proxies, m \in Methods : Serve(p, m)) \/ Finish \/ (\E t \in Threads : Collect(t))
              \/ UNCHANGED vars
       PROVE  IInvIds'
  <2>1. UNCHANGED <<state, id, pc, call>>
    <3> HIDE DEF IInv, TypeOK, Stages, RegistryAgrees, IInvIds, Hit
    <3>1. QED
      BY <1>19 DEF Serve, Dispatch, DispatchFail, Finish, Answer, ThrowUnprintable, Collect, vars
  <2> HIDE DEF IInv, TypeOK, Stages, RegistryAgrees, Hit
  <2>2. QED
    BY <2>1
<1> HIDE DEF IInv, TypeOK, Stages, RegistryAgrees, IInvIds
<1>20. QED
  BY <1>1, <1>2, <1>3, <1>4, <1>5, <1>6, <1>7, <1>8, <1>9, <1>10, <1>11, <1>12, <1>13, <1>14, <1>15, <1>16,
     <1>17, <1>18, <1>19
  DEF Next, ProxyNext, ResetNext, CallNext, LookUp, LookUpMethod, Submit

LEMMA IdsInvariance ==
  ASSUME ReuseIds = FALSE
  PROVE  Spec => []IInvIds
<1>1. Init => IInvIds
  BY ThreadsAssumption DEF Init, IInvIds, IdsDistinct, LateIsDestroyed, LateCallsFail, Threads, CallerPcs
<1>2. IInv /\ IInvIds /\ [Next]_vars => IInvIds'
  BY IdsNext
<1>3. QED
  BY <1>1, <1>2, Invariance, PTL DEF Spec

\* A call made after the reset of its proxy has returned is turned away by
\* the lookup, although its thread may have seen the proxy as valid.
THEOREM LateCallsAreRejected ==
  ASSUME ReuseIds = FALSE
  PROVE  Spec => []LateCallsFail
<1>1. IInvIds => LateCallsFail
  BY DEF IInvIds
<1>2. QED
  BY <1>1, IdsInvariance, PTL

\* What the lookup finds is the proxy that was called.
LEMMA HitIsCalled ==
  IInv /\ IdsDistinct => \A t \in Threads : pc[t] \in {"found", "locked"} => Hit(t) = call[t].proxy
<1> SUFFICES ASSUME IInv, IdsDistinct, NEW t \in Threads, pc[t] \in {"found", "locked"}
             PROVE  Hit(t) = call[t].proxy
  OBVIOUS
<1>1. call[t].proxy \in Proxies /\ Hit(t) \in Proxies /\ Hit(t) # None
  BY ProxiesAssumption DEF IInv, TypeOK, Stages, CallerPcs, Calls
<1>2. id[call[t].proxy] \in Ids /\ id[call[t].proxy] # None
  BY IdsAssumption, <1>1 DEF IInv, Stages, CallerPcs
<1>3. id[Hit(t)] = id[call[t].proxy]
  BY <1>1, <1>2 DEF IInv, Stages, Hit
<1>4. QED
  BY <1>1, <1>2, <1>3 DEF IdsDistinct

\* Calls in a queue keep their target.
QueueMatches ==
    \A t \in Threads, p \in Proxies, m \in Methods :
        InQueue(t, p, m) => call[t].proxy = p /\ call[t].method = m

LEMMA QueueMatchesNext == IInv /\ CallsAccounted /\ IdsDistinct /\ QueueMatches /\ [Next]_vars => QueueMatches'
<1> SUFFICES ASSUME IInv, CallsAccounted, IdsDistinct, QueueMatches, [Next]_vars PROVE QueueMatches'
  OBVIOUS
<1> TypeOK
  BY DEF IInv
<1> USE ThreadsAssumption
<1>1. \A t \in Threads : Queued(t) => pc[t] = "waiting" /\ slot[t] = "pending"
  BY DEF CallsAccounted
<1>2. \A t \in Threads, p \in Proxies, m \in Methods : InQueue(t, p, m) => Queued(t)
  BY DEF Queued
<1>3. ASSUME UNCHANGED queue, \A t \in Threads : pc[t] # "waiting" \/ slot[t] # "pending" \/ call'[t] = call[t]
      PROVE  QueueMatches'
  BY <1>1, <1>2, <1>3 DEF QueueMatches, InQueue
<1>4. ASSUME NEW u \in Threads, Enqueue(u) PROVE QueueMatches'
  <2>1. /\ pc[u] = "locked"
        /\ queue' = [queue EXCEPT ![Hit(u)][call[u].method] = Append(@, u)]
        /\ UNCHANGED call
    BY <1>4 DEF Enqueue
  <2>2. Hit(u) = call[u].proxy /\ Hit(u) \in Proxies /\ call[u].method \in Methods
    BY <2>1, HitIsCalled DEF IInv, Stages, TypeOK, CallerPcs, Calls
  <2>3. ~Queued(u) /\ \A t \in Threads : QueuedOnce(t)
    BY <1>1, <2>1 DEF CallsAccounted
  <2>4. \A t \in Threads, p \in Proxies, m \in Methods :
          InQueue(t, p, m)' <=> InQueue(t, p, m) \/ (t = u /\ p = Hit(u) /\ m = call[u].method)
    BY <2>1, <2>2, <2>3, QueueJoined
  <2>5. QED
    BY <2>1, <2>2, <2>4 DEF QueueMatches
<1>5. ASSUME NEW a \in Proxies, NEW b \in Methods, Serve(a, b) PROVE QueueMatches'
  <2>1. /\ queue[a][b] # <<>>
        /\ queue' = [queue EXCEPT ![a][b] = Tail(@)]
        /\ UNCHANGED call
    BY <1>5 DEF Serve, Dispatch, DispatchFail, Take
  <2>2. \A t \in Threads : QueuedOnce(t)
    BY DEF CallsAccounted
  <2>3. \A t \in Threads, p \in Proxies, m \in Methods : InQueue(t, p, m)' => InQueue(t, p, m)
    BY <2>1, <2>2, QueueLeft
  <2>4. QED
    BY <2>1, <2>3 DEF QueueMatches
<1>6. ASSUME NEW u \in Threads,
             \/ \E p \in Proxies, m \in Methods : Invoke(u, p, m)
             \/ LookUp(u) \/ LookUpMethod(u) \/ EnqueueFail(u) \/ Receive(u) \/ Collect(u)
      PROVE  QueueMatches'
  <2>1. UNCHANGED queue
    BY <1>6 DEF Invoke, LookUp, LookupHit, LookupMiss, LookUpMethod, MethodHit, MethodMiss,
                EnqueueFail, Receive, Collect, Fail, calls
  <2>2. \A t \in Threads : t # u => call'[t] = call[t]
    BY <1>6 DEF Invoke, LookUp, LookupHit, LookupMiss, LookUpMethod, MethodHit, MethodMiss,
                EnqueueFail, Receive, Collect, Fail, calls, TypeOK
  <2>3. pc[u] # "waiting" \/ slot[u] # "pending" \/ call' = call
    BY <1>6 DEF Invoke, LookUp, LookupHit, LookupMiss, LookUpMethod, MethodHit, MethodMiss,
                EnqueueFail, Receive, Collect
  <2>4. QED
    BY <1>3, <2>1, <2>2, <2>3
<1>7. ASSUME \/ \E p \in Proxies : NewCall(p) \/ ResetCall(p)
             \/ ProxyNext \/ ResetNext \/ Finish \/ UNCHANGED vars
      PROVE  QueueMatches'
  <2>1. UNCHANGED <<queue, call>>
    BY <1>7 DEF NewCall, ResetCall, ProxyNext, ResetNext, Finish, NewLock, NewFinish, NewFail, ResetAgain,
       ResetLock, ResetFail, ResetDestruct, ResetFinish, Answer, ThrowUnprintable, calls, vars
  <2>2. QED
    BY <1>3, <2>1
<1>8. QED
  BY <1>4, <1>5, <1>6, <1>7 DEF Next, CallNext, Submit

\* A call is queued on the method of the proxy it was made on.
THEOREM NoCallIsMisdelivered ==
  ASSUME ReuseIds = FALSE
  PROVE  Spec => []NoMisdelivery
<1>1. Init => QueueMatches
  BY DEF Init, QueueMatches, InQueue
<1>2. IInvIds => IdsDistinct
  BY DEF IInvIds
<1>3. IInv /\ IdsDistinct /\ QueueMatches => NoMisdelivery
  BY HitIsCalled DEF NoMisdelivery, QueueMatches
<1>4. QED
  BY <1>1, <1>2, <1>3, QueueMatchesNext, IdsInvariance, Invariance, NoCallIsLost, PTL DEF Spec

-----------------------------------------------------------------------------
(***************************************************************************)
(* The refinement of ProxyContract: what it shows of a thread is a         *)
(* function of the program counter, the channel and the parking of that    *)
(* thread alone.                                                           *)
(***************************************************************************)
Shown == [t \in Threads |-> StatusOf(t)]
Aimed == [t \in Threads |-> IF pc[t] \in CallerPcs
                            THEN [proxy |-> call[t].proxy, method |-> call[t].method]
                            ELSE None]

Asking == {"entering", "found", "locked"}

\* The status of every thread, case by case.
Seeing(t, s) ==
    /\ pc[t] \notin CallerPcs => s = "idle"
    /\ pc[t] \in Asking => s = "asking"
    /\ pc[t] = "waiting" /\ parked[t] # "no" /\ slot[t] = "pending" => s = "abandoned"
    /\ pc[t] = "waiting" /\ parked[t] = "no" /\ slot[t] = "pending" => s = "accepted"
    /\ pc[t] = "waiting" /\ parked[t] = "no" /\ slot[t] \notin {"none", "pending"} => s = "answered"

LEMMA StatusIsSeen == \A t : Seeing(t, StatusOf(t))
<1> TAKE t
<1>1. CASE pc[t] \in Asking
  BY <1>1 DEF Seeing, StatusOf, Asking, CallerPcs
<1>2. CASE pc[t] = "waiting"
  BY <1>2 DEF Seeing, StatusOf, Asking, CallerPcs
<1>3. CASE pc[t] \notin CallerPcs
  BY <1>3 DEF Seeing, StatusOf, Asking, CallerPcs
<1>4. QED
  BY <1>1, <1>2, <1>3 DEF CallerPcs, Asking

LEMMA StatusIsSeenNext == \A t : Seeing(t, StatusOf(t))'
<1> TAKE t
<1>1. CASE pc'[t] \in Asking
  BY <1>1 DEF Seeing, StatusOf, Asking, CallerPcs
<1>2. CASE pc'[t] = "waiting"
  BY <1>2 DEF Seeing, StatusOf, Asking, CallerPcs
<1>3. CASE pc'[t] \notin CallerPcs
  BY <1>3 DEF Seeing, StatusOf, Asking, CallerPcs
<1>4. QED
  BY <1>1, <1>2, <1>3 DEF CallerPcs, Asking

\* A step of one thread changes at most what is shown of that thread.
LEMMA OneMoves ==
  ASSUME NEW u \in Threads,
         \A t \in Threads \ {u} :
            pc'[t] = pc[t] /\ slot'[t] = slot[t] /\ parked'[t] = parked[t] /\ call'[t] = call[t]
  PROVE  /\ Shown' = [Shown EXCEPT ![u] = StatusOf(u)']
         /\ Aimed' = [Aimed EXCEPT ![u] = Aimed'[u]]
<1>1. \A t \in Threads \ {u} : StatusOf(t)' = StatusOf(t)
  BY DEF StatusOf
<1>2. \A t \in Threads \ {u} : Aimed'[t] = Aimed[t]
  BY DEF Aimed
<1>3. Shown' = [t \in Threads |-> StatusOf(t)'] /\ Shown = [t \in Threads |-> StatusOf(t)]
  BY DEF Shown
<1>4. Aimed' = [t \in Threads |-> Aimed'[t]] /\ Aimed = [t \in Threads |-> Aimed[t]]
  BY DEF Aimed
<1>5. QED
  BY <1>1, <1>2, <1>3, <1>4

\* Nothing is seen of a step that leaves the thread outside a call, or in its lookup.
LEMMA NobodySees ==
  ASSUME TypeOK, NEW u \in Threads, NEW label, Goto(u, label), UNCHANGED <<call, slot, parked>>,
         \/ pc[u] \notin CallerPcs /\ label \notin CallerPcs
         \/ pc[u] \in Asking /\ label \in Asking
  PROVE  Shown' = Shown /\ Aimed' = Aimed
<1>1. pc'[u] = label /\ \A t \in Threads \ {u} : pc'[t] = pc[t]
  BY DEF Goto, TypeOK
<1>2. StatusOf(u)' = StatusOf(u)
  BY <1>1, StatusIsSeen, StatusIsSeenNext DEF Seeing
<1>3. Aimed'[u] = Aimed[u]
  BY <1>1 DEF Aimed, Asking, CallerPcs
<1>4. Shown[u] = StatusOf(u) /\ Shown = [t \in Threads |-> Shown[t]] /\ Aimed = [t \in Threads |-> Aimed[t]]
  BY DEF Shown, Aimed
<1>5. QED
  BY <1>1, <1>2, <1>3, <1>4, OneMoves

LEMMA ContractInit == Init => Contract!Init
<1> SUFFICES ASSUME Init PROVE Contract!Init
  OBVIOUS
<1>1. Shown = [t \in Threads |-> "idle"]
  BY StatusIsSeen DEF Init, Shown, Seeing, CallerPcs
<1>2. Aimed = [t \in Threads |-> None]
  BY DEF Init, Aimed, CallerPcs
<1>3. QED
  BY <1>1, <1>2 DEF Init, Contract!Init, Shown, Aimed

\* Locks, ids and the creation of a proxy are out of its users' sight.
LEMMA ProxyStepsMeetContract ==
  ASSUME IInv,
         (\E p \in Proxies : NewCall(p) \/ ResetCall(p)) \/ ProxyNext \/ ResetNext
  PROVE  [Contract!Next]_(Contract!vars)
<1> USE ThreadsAssumption
<1> TypeOK /\ Js \in Threads
  BY DEF IInv, Threads
<1>1. ASSUME UNCHANGED <<call, slot, parked, queue, handling>>,
             pc[Js] \notin CallerPcs, \E s \in JsPcs \union {"idle"} : Goto(Js, s)
      PROVE  Shown' = Shown /\ Aimed' = Aimed /\ UNCHANGED <<queue, handling>>
  BY <1>1, NobodySees DEF CallerPcs, JsPcs
<1>2. Shown' = Shown /\ Aimed' = Aimed /\ UNCHANGED <<queue, handling>>
  <2> USE <1>1 DEF CallerPcs, JsPcs, calls
  <2>1. ASSUME NEW p \in Proxies, NewCall(p) PROVE Shown' = Shown /\ Aimed' = Aimed /\ UNCHANGED <<queue, handling>>
    BY <2>1 DEF NewCall
  <2>2. ASSUME NEW p \in Proxies, ResetCall(p) PROVE Shown' = Shown /\ Aimed' = Aimed /\ UNCHANGED <<queue, handling>>
    BY <2>2 DEF ResetCall
  <2>3. CASE NewLock \/ NewFinish \/ NewFail
    BY <2>3 DEF NewLock, NewFinish, NewFail
  <2>4. CASE ResetAgain \/ ResetLock \/ ResetFail \/ ResetDestruct \/ ResetFinish
    BY <2>4 DEF ResetAgain, ResetLock, ResetFail, ResetDestruct, ResetFinish
  <2>5. QED
    BY <2>1, <2>2, <2>3, <2>4 DEF ProxyNext, ResetNext
<1>3. ASSUME UNCHANGED state PROVE UNCHANGED Contract!vars
  BY <1>2, <1>3 DEF Contract!vars, Shown, Aimed
<1>4. CASE NewFinish
  <2>1. subject \in Proxies /\ state[subject] = "absent" /\ state' = [state EXCEPT ![subject] = "live"]
    BY <1>4 DEF NewFinish, IInv, TypeOK, Stages, JsPcs
  <2>2. Contract!Create(subject)
    BY <1>2, <2>1 DEF Contract!Create, Shown, Aimed
  <2>3. QED
    BY <2>1, <2>2 DEF Contract!Next
<1>5. CASE ResetFinish
  <2>1. subject \in Proxies /\ state[subject] = "live" /\ state' = [state EXCEPT ![subject] = "destroyed"]
    BY <1>5 DEF ResetFinish, IInv, TypeOK, Stages, JsPcs
  <2>2. Contract!Destroy(subject)
    BY <1>2, <2>1 DEF Contract!Destroy, Shown, Aimed
  <2>3. QED
    BY <2>1, <2>2 DEF Contract!Next
<1>6. CASE ~(NewFinish \/ ResetFinish)
  <2>1. UNCHANGED state
    BY <1>6 DEF NewCall, ResetCall, ProxyNext, NewLock, NewFail, ResetNext, ResetAgain, ResetLock,
                ResetFail, ResetDestruct, tables
  <2>2. QED
    BY <1>3, <2>1
<1>7. QED
  BY <1>4, <1>5, <1>6

\* A calling thread asks, is turned away or accepted, and gets its answer.
LEMMA CallerStepsMeetContract ==
  ASSUME IInv, CallsAccounted, IdsDistinct, NEW u \in Threads,
         (\E p \in Proxies, m \in Methods : Invoke(u, p, m)) \/ CallNext(u)
  PROVE  [Contract!Next]_(Contract!vars)
<1> USE ThreadsAssumption
<1> TypeOK
  BY DEF IInv
<1>0. /\ Shown = [t \in Threads |-> Shown[t]]
      /\ Shown[u] = StatusOf(u)
      /\ Aimed[u] = IF pc[u] \in CallerPcs THEN [proxy |-> call[u].proxy, method |-> call[u].method] ELSE None
      /\ Aimed'[u] = IF pc'[u] \in CallerPcs THEN [proxy |-> call'[u].proxy, method |-> call'[u].method] ELSE None
  BY DEF Shown, Aimed
<1>1. ASSUME NEW p \in Proxies, NEW m \in Methods, Invoke(u, p, m)
      PROVE  Contract!Ask(u, p, m)
  <2>1. /\ pc[u] = "idle" /\ pc'[u] = "entering" /\ call'[u] = [proxy |-> p, method |-> m, late |-> state[p] = "destroyed"]
        /\ \A t \in Threads \ {u} : pc'[t] = pc[t] /\ slot'[t] = slot[t] /\ parked'[t] = parked[t] /\ call'[t] = call[t]
        /\ state[p] # "absent" /\ UNCHANGED <<state, queue, handling>>
    BY <1>1 DEF Invoke, Goto, TypeOK, tables
  <2>2. Shown[u] = "idle" /\ StatusOf(u)' = "asking"
    BY <1>0, <2>1, StatusIsSeen, StatusIsSeenNext DEF Seeing, CallerPcs, Asking
  <2>3. Aimed'[u] = [proxy |-> p, method |-> m]
    BY <1>0, <2>1 DEF CallerPcs
  <2>4. Shown' = [Shown EXCEPT ![u] = "asking"] /\ Aimed' = [Aimed EXCEPT ![u] = [proxy |-> p, method |-> m]]
    BY <2>1, <2>2, <2>3, OneMoves
  <2>5. QED
    BY <2>1, <2>2, <2>4 DEF Contract!Ask, Shown, Aimed
<1>2. CASE LookupHit(u) \/ MethodHit(u)
  <2>1. /\ \E s \in Asking : Goto(u, s)
        /\ pc[u] \in Asking
        /\ UNCHANGED <<call, slot, parked, state, queue, handling>>
    BY <1>2 DEF LookupHit, MethodHit, Asking, calls, tables
  <2>2. Shown' = Shown /\ Aimed' = Aimed
    BY <2>1, NobodySees
  <2>3. QED
    BY <2>1, <2>2 DEF Contract!vars, Shown, Aimed
<1>3. CASE LookupMiss(u) \/ MethodMiss(u) \/ EnqueueFail(u)
  <2>1. /\ pc[u] \in Asking /\ pc'[u] = "idle"
        /\ \A t \in Threads \ {u} : pc'[t] = pc[t] /\ slot'[t] = slot[t] /\ parked'[t] = parked[t] /\ call'[t] = call[t]
        /\ UNCHANGED <<state, queue, handling>>
    BY <1>3 DEF LookupMiss, MethodMiss, EnqueueFail, Fail, Goto, TypeOK, tables, Asking
  <2>2. Shown[u] = "asking" /\ StatusOf(u)' = "idle" /\ Aimed'[u] = None
    BY <1>0, <2>1, StatusIsSeen, StatusIsSeenNext DEF Seeing, CallerPcs
  <2>3. Shown' = [Shown EXCEPT ![u] = "idle"] /\ Aimed' = [Aimed EXCEPT ![u] = None]
    BY <2>1, <2>2, OneMoves
  <2>4. Contract!Reject(u)
    BY <2>1, <2>2, <2>3 DEF Contract!Reject, Shown, Aimed
  <2>5. QED
    BY <2>4 DEF Contract!Next
<1>4. CASE Enqueue(u)
  <2>1. /\ pc[u] = "locked" /\ pc'[u] = "waiting" /\ slot'[u] = "pending" /\ parked' = parked /\ call' = call
        /\ \A t \in Threads \ {u} : pc'[t] = pc[t] /\ slot'[t] = slot[t]
        /\ queue' = [queue EXCEPT ![Hit(u)][call[u].method] = Append(@, u)]
        /\ UNCHANGED <<state, handling>>
    BY <1>4 DEF Enqueue, Goto, TypeOK, tables
  <2>2. parked[u] = "no"
    BY <2>1 DEF CallsAccounted
  <2>3. Shown[u] = "asking" /\ StatusOf(u)' = "accepted"
    BY <1>0, <2>1, <2>2, StatusIsSeen, StatusIsSeenNext DEF Seeing, Asking
  <2>4. Aimed[u] = [proxy |-> call[u].proxy, method |-> call[u].method] /\ Aimed'[u] = Aimed[u]
    BY <1>0, <2>1 DEF CallerPcs
  <2>5. Aimed = [t \in Threads |-> Aimed[t]] /\ Aimed' = [Aimed EXCEPT ![u] = Aimed'[u]]
        /\ Shown' = [Shown EXCEPT ![u] = "accepted"]
    BY <2>1, <2>3, OneMoves DEF Aimed
  <2>6. Aimed' = Aimed
    BY <2>4, <2>5
  <2>7. Hit(u) = call[u].proxy /\ Hit(u) \in Proxies
    BY <2>1, HitIsCalled DEF IInv, Stages
  <2>8. state[Hit(u)] = "live"
    <3>1. id[call[u].proxy] \in Ids /\ registry[id[call[u].proxy]] = Hit(u)
      BY <2>1, <2>7 DEF IInv, Stages, CallerPcs, Hit
    <3>2. QED
      BY <2>7, <3>1 DEF IInv, RegistryAgrees
  <2>9. Contract!Accept(u)
    <3>1. Aimed[u].proxy = Hit(u) /\ Aimed[u].method = call[u].method
      BY <2>4, <2>7
    <3>2. /\ Shown[u] = "asking" /\ state[Aimed[u].proxy] = "live"
          /\ Shown' = [Shown EXCEPT ![u] = "accepted"]
          /\ queue' = [queue EXCEPT ![Aimed[u].proxy][Aimed[u].method] = Append(@, u)]
          /\ state' = state /\ handling' = handling /\ Aimed' = Aimed
      BY <2>1, <2>3, <2>5, <2>6, <2>8, <3>1
    <3>3. QED
      BY <3>2 DEF Contract!Accept, Shown, Aimed
  <2>10. QED
    BY <2>9 DEF Contract!Next
<1>5. CASE Receive(u)
  <2>1. /\ pc[u] = "waiting" /\ slot[u] \notin {"none", "pending"} /\ pc'[u] = "idle"
        /\ \A t \in Threads \ {u} : pc'[t] = pc[t] /\ slot'[t] = slot[t] /\ parked'[t] = parked[t] /\ call'[t] = call[t]
        /\ UNCHANGED <<state, queue, handling>>
    BY <1>5 DEF Receive, Goto, TypeOK, tables
  <2>2. parked[u] = "no"
    BY <2>1 DEF CallsAccounted
  <2>3. Shown[u] = "answered" /\ StatusOf(u)' = "idle" /\ Aimed'[u] = None
    BY <1>0, <2>1, <2>2, StatusIsSeen, StatusIsSeenNext DEF Seeing, CallerPcs
  <2>4. Shown' = [Shown EXCEPT ![u] = "idle"] /\ Aimed' = [Aimed EXCEPT ![u] = None]
    BY <2>1, <2>3, OneMoves
  <2>5. Contract!Return(u)
    BY <2>1, <2>3, <2>4 DEF Contract!Return, Shown, Aimed
  <2>6. QED
    BY <2>5 DEF Contract!Next
<1>6. QED
  BY <1>1, <1>2, <1>3, <1>4, <1>5 DEF CallNext, LookUp, LookUpMethod, Submit, Contract!Next

\* The event loop runs, gives up and answers accepted calls.
LEMMA LoopStepsMeetContract ==
  ASSUME IInv, CallsAccounted,
         \/ \E p \in Proxies, m \in Methods : Serve(p, m)
         \/ Finish
         \/ \E t \in Threads : Collect(t)
  PROVE  Contract!Next
<1> USE ThreadsAssumption
<1> TypeOK
  BY DEF IInv
<1>0. /\ Shown = [t \in Threads |-> StatusOf(t)] /\ Shown' = [t \in Threads |-> StatusOf(t)']
      /\ Aimed = [t \in Threads |-> Aimed[t]]
      /\ \A t : Seeing(t, StatusOf(t)) /\ Seeing(t, StatusOf(t))'
  BY StatusIsSeen, StatusIsSeenNext DEF Shown, Aimed
<1>1. ASSUME UNCHANGED <<pc, call>> PROVE Aimed' = Aimed
  BY <1>1 DEF Aimed
<1>2. ASSUME UNCHANGED <<pc, slot, parked>> PROVE Shown' = Shown
  BY <1>2 DEF Shown, StatusOf
<1>3. ASSUME NEW p \in Proxies, NEW m \in Methods, Dispatch(p, m)
      PROVE  Contract!Serve(p, m)
  BY <1>1, <1>2, <1>3 DEF Dispatch, Take, tables, Contract!Serve, Shown, Aimed
<1>4. ASSUME NEW p \in Proxies, NEW m \in Methods, DispatchFail(p, m)
      PROVE  Contract!Serve(p, m)
  <2>1. /\ handling = None /\ queue[p][m] # <<>> /\ queue' = [queue EXCEPT ![p][m] = Tail(@)]
        /\ parked' = [parked EXCEPT ![Head(queue[p][m])] = "badArgs"]
        /\ UNCHANGED <<pc, call, slot, state, handling>>
    BY <1>4 DEF DispatchFail, Take, tables
  <2>2. PICK h \in Threads : h = Head(queue[p][m]) /\ InQueue(h, p, m)
    BY <2>1, QueueLeft DEF CallsAccounted
  <2>3. pc[h] = "waiting" /\ slot[h] = "pending"
    BY <2>2 DEF CallsAccounted, Queued
  <2>4. /\ parked'[h] = "badArgs"
        /\ \A t \in Threads \ {h} : pc'[t] = pc[t] /\ slot'[t] = slot[t] /\ parked'[t] = parked[t] /\ call'[t] = call[t]
    BY <2>1, <2>2 DEF TypeOK
  <2>5. StatusOf(h)' = "abandoned"
    BY <1>0, <2>1, <2>3, <2>4 DEF Seeing
  <2>6. Shown' = [Shown EXCEPT ![h] = "abandoned"]
    BY <2>4, <2>5, OneMoves
  <2>7. Shown' = [Shown EXCEPT ![Head(queue[p][m])] = "abandoned"]
    BY <2>2, <2>6
  <2>8. QED
    BY <1>1, <2>1, <2>7 DEF Contract!Serve, Shown, Aimed
<1>5. ASSUME NEW u \in Threads, handling = u, handling' = None,
             \/ \E o \in {"value", "thrown", "convFailed"} : slot' = [slot EXCEPT ![u] = o] /\ UNCHANGED parked
             \/ parked' = [parked EXCEPT ![u] = "threw"] /\ UNCHANGED slot,
             UNCHANGED <<pc, call, queue, state>>
      PROVE  Contract!End(u)
  <2>1. pc[u] = "waiting" /\ slot[u] = "pending" /\ parked[u] = "no"
    BY <1>5 DEF CallsAccounted
  <2>2. \A t \in Threads \ {u} : pc'[t] = pc[t] /\ slot'[t] = slot[t] /\ parked'[t] = parked[t] /\ call'[t] = call[t]
    BY <1>5 DEF TypeOK
  <2>3. \/ slot'[u] \in {"value", "thrown", "convFailed"} /\ parked'[u] = "no"
        \/ slot'[u] = "pending" /\ parked'[u] = "threw"
    BY <1>5, <2>1 DEF TypeOK
  <2>4. StatusOf(u)' \in {"answered", "abandoned"}
    BY <1>0, <1>5, <2>1, <2>3 DEF Seeing
  <2>5. Shown' = [Shown EXCEPT ![u] = StatusOf(u)']
    BY <2>2, OneMoves
  <2>6. \E s \in {"answered", "abandoned"} : Shown' = [Shown EXCEPT ![u] = s]
    BY <2>4, <2>5
  <2>7. QED
    BY <1>1, <1>5, <2>6 DEF Contract!End, Shown, Aimed
<1>6. CASE Finish
  <2>1. handling \in Threads /\ handling # None
    BY <1>6 DEF Finish, Answer, ThrowUnprintable, TypeOK
  <2>2. Contract!End(handling)
    BY <1>5, <1>6, <2>1 DEF Finish, Answer, ThrowUnprintable, tables
  <2>3. QED
    BY <2>1, <2>2 DEF Contract!Next
<1>7. ASSUME NEW u \in Threads, Collect(u)
      PROVE  Contract!Cancel(u)
  <2>1. parked[u] # "no" /\ pc[u] = "waiting" /\ slot[u] = "pending"
    BY <1>7 DEF Collect, CallsAccounted
  <2>2. \A t \in Threads \ {u} : pc'[t] = pc[t] /\ slot'[t] = slot[t] /\ parked'[t] = parked[t] /\ call'[t] = call[t]
    BY <1>7 DEF Collect, TypeOK
  <2>3. slot'[u] = "canceled" /\ parked'[u] = "no" /\ UNCHANGED <<pc, call, queue, handling, state>>
    BY <1>7 DEF Collect, TypeOK, tables
  <2>4. StatusOf(u) = "abandoned" /\ StatusOf(u)' = "answered"
    BY <1>0, <2>1, <2>3 DEF Seeing
  <2>5. Shown[u] = "abandoned" /\ Shown' = [Shown EXCEPT ![u] = "answered"]
    BY <1>0, <2>2, <2>4, OneMoves
  <2>6. QED
    BY <1>1, <2>3, <2>5 DEF Contract!Cancel, Shown, Aimed
<1>8. QED
  BY <1>3, <1>4, <1>6, <1>7 DEF Serve, Contract!Next

LEMMA ContractNext ==
  IInv /\ CallsAccounted /\ IdsDistinct /\ [Next]_vars => [Contract!Next]_(Contract!vars)
<1> SUFFICES ASSUME IInv, CallsAccounted, IdsDistinct, [Next]_vars PROVE [Contract!Next]_(Contract!vars)
  OBVIOUS
<1>1. CASE UNCHANGED vars
  <2>1. Shown' = Shown /\ Aimed' = Aimed
    BY <1>1 DEF vars, Shown, Aimed, StatusOf
  <2>2. QED
    BY <1>1, <2>1 DEF vars, Contract!vars, Shown, Aimed
<1>2. QED
  BY <1>1, ProxyStepsMeetContract, CallerStepsMeetContract, LoopStepsMeetContract DEF Next

(***************************************************************************)
(* To its callers a proxy is what ProxyContract says: calls are accepted   *)
(* only while it lives, run one at a time in the order they were accepted, *)
(* answered at most once, and reset neither drops nor adds one.            *)
(***************************************************************************)
THEOREM ContractIsMet ==
  ASSUME ReuseIds = FALSE
  PROVE  Spec => MeetsContract
<1>1. IInvIds => IdsDistinct
  BY DEF IInvIds
<1>2. Init /\ [][Next]_vars => Contract!Init /\ [][Contract!Next]_(Contract!vars)
  BY <1>1, ContractInit, ContractNext, IdsInvariance, Invariance, NoCallIsLost, PTL DEF Spec
<1>3. QED
  BY <1>2 DEF Spec, MeetsContract, Contract!Spec


-----------------------------------------------------------------------------
(***************************************************************************)
(* Deadlock                                                                *)
(***************************************************************************)
\* Threads that wait for each other and have PROXIES among what they wait for: its
\* holder waits for the lock of a method table, which only a reset can have.
LEMMA RegistryDeadlock ==
    ASSUME IInv, NEW S \in SUBSET Threads, \A t \in S : \E u \in S : WaitsFor(t, u),
           NEW t \in S, pc[t] \in {"entering", "wantRegistry", "destructed", "found"}
    PROVE  Js \in S /\ LockCycle
<1> USE DEF IInv
<1>1. \A u \in S : pc[u] \in {"entering", "wantRegistry", "destructed", "found", "wantMethods", "waiting"}
  BY DEF WaitsFor
<1>2. \E u \in S : pc[u] = "found"
  <2>1. CASE pc[t] = "found"
    BY <2>1
  <2>2. CASE pc[t] # "found"
    <3>1. PICK u \in S : registryLock = u
      BY <2>2 DEF WaitsFor
    <3>2. HoldsRegistry(u)
      BY <3>1 DEF LocksHeld
    <3>3. QED
      BY <1>1, <3>2 DEF HoldsRegistry
  <2>3. QED
    BY <2>1, <2>2
<1>3. PICK u \in S : pc[u] = "found"
  BY <1>2
<1>4. Hit(u) \in Proxies /\ registryLock = u
  BY <1>3 DEF Stages, LocksHeld, HoldsRegistry
<1>5. PICK v \in S : methodsLock[Hit(u)] = v
  BY <1>3 DEF WaitsFor
<1>6. HoldsMethods(v, Hit(u))
  BY <1>4, <1>5 DEF LocksHeld
<1>7. v = Js /\ pc[Js] = "destructed" /\ subject = Hit(u)
  BY <1>1, <1>6 DEF HoldsMethods
<1>8. u \in JavaThreads
  BY <1>3, <1>7 DEF Threads
<1>9. QED
  BY <1>3, <1>5, <1>7, <1>8 DEF LockCycle

\* The JS thread never waits for a method table of its own, so that those that do
\* without PROXIES wait for the JS thread, which is in a call itself.
LEMMA OtherDeadlock ==
    ASSUME IInv, NEW S \in SUBSET Threads, S # {}, \A t \in S : \E u \in S : WaitsFor(t, u),
           \A t \in S : pc[t] \notin {"entering", "wantRegistry", "destructed", "found"}
    PROVE  Js \in S /\ JsBlocked
<1> USE DEF IInv
<1>1. \A t \in S : pc[t] \in {"wantMethods", "waiting"}
  BY DEF WaitsFor
<1>2. \A t \in S : pc[t] # "wantMethods"
  <2> SUFFICES ASSUME NEW t \in S, pc[t] = "wantMethods" PROVE FALSE
    OBVIOUS
  <2>1. t = Js /\ subject \in Proxies
    BY DEF TypeOK, Threads, JsPcs
  <2>2. PICK u \in S : methodsLock[subject] = u
    BY DEF WaitsFor
  <2>3. HoldsMethods(u, subject)
    BY <2>1, <2>2 DEF LocksHeld
  <2>4. QED
    BY <1>1, <2>1, <2>3 DEF HoldsMethods
<1>3. PICK t \in S : pc[t] = "waiting"
  BY <1>1, <1>2
<1>4. Js \in S
  BY <1>3 DEF WaitsFor
<1>5. QED
  BY <1>1, <1>2, <1>4 DEF JsBlocked

\* Java threads never wait for each other in a circle.  Those that go through the JS
\* thread are of a reset and a call of the same proxy that have a lock each, or JS
\* is inside a call of a proxy itself.
THEOREM NoOtherDeadlocks == Spec => []NoOtherDeadlock
<1>1. IInv => NoOtherDeadlock
  <2> SUFFICES ASSUME IInv, NEW S \in SUBSET Threads, S # {}, \A t \in S : \E u \in S : WaitsFor(t, u)
               PROVE  Js \in S /\ (LockCycle \/ JsBlocked)
    BY DEF NoOtherDeadlock
  <2>1. CASE \E t \in S : pc[t] \in {"entering", "wantRegistry", "destructed", "found"}
    BY <2>1, RegistryDeadlock
  <2>2. CASE \A t \in S : pc[t] \notin {"entering", "wantRegistry", "destructed", "found"}
    BY <2>2, OtherDeadlock
  <2>3. QED
    BY <2>1, <2>2
<1>2. QED
  BY <1>1, Invariance, PTL
==============================================================================
