-------------------------- MODULE AsyncCalls_proofs --------------------------
(***************************************************************************)
(* Proofs about AsyncCalls, for any calls and any number of workers.       *)
(***************************************************************************)
EXTENDS AsyncCalls, FiniteSetTheorems, TLAPS

USE CallsAssumption, BoundsAssumption, NoneAssumption

-----------------------------------------------------------------------------
(***************************************************************************)
(* Types                                                                   *)
(***************************************************************************)
Versions == 0 .. MaxChanges

LEMMA NoVersion == None \notin Versions
  BY DEF Versions

LEMMA TypeInit == Init => TypeOK
<1> SUFFICES ASSUME Init PROVE TypeOK
  OBVIOUS
<1>1. 0 \in 0 .. MaxWaits /\ 0 \in 0 .. MaxChanges
  OBVIOUS
<1>2. QED
  BY <1>1 DEF Init, TypeOK, Executing, Over

\* A call goes on without new arguments.
LEMMA MoveType ==
    ASSUME TypeOK, NEW c \in Calls, NEW s, Move(c, s),
           s \in {"queued", "returned"} \union Executing \union Over,
           status[c] \notin {"new", "queued", "refused"},
           s \notin {"new", "queued", "refused"},
           UNCHANGED <<arg, sees>>,
           needs' \in [Calls -> Calls \union {None}],
           \A d \in Calls \ {c} : needs'[d] = needs[d],
           s = "waiting" => needs'[c] \in Calls,
           waits' \in [Calls -> 0 .. MaxWaits], UNCHANGED data,
           loop' \in Calls \union {None}, sync' \subseteq Calls
    PROVE  TypeOK'
  BY DEF TypeOK, Move, Executing, Over

LEMMA TypeNext == TypeOK /\ [Next]_vars => TypeOK'
<1> SUFFICES ASSUME TypeOK, [Next]_vars PROVE TypeOK'
  OBVIOUS
<1> USE DEF Executing, Over
<1>1. CASE ChangeArgument
  BY <1>1 DEF ChangeArgument, TypeOK, waiting
<1>2. ASSUME NEW c \in Calls, CallSync(c) PROVE TypeOK'
  BY <1>2, NoVersion DEF CallSync, Move, TypeOK, waiting, Versions
<1>3. ASSUME NEW c \in Calls, CallAsync(c) PROVE TypeOK'
  BY <1>3, NoVersion DEF CallAsync, Move, TypeOK, waiting, Versions
<1>4. ASSUME NEW c \in Calls, Refuse(c) PROVE TypeOK'
  BY <1>4 DEF Refuse, Move, TypeOK, waiting
<1>5. ASSUME NEW c \in Calls, Start(c) PROVE TypeOK'
  BY <1>5 DEF Start, Move, TypeOK, waiting
<1>6. ASSUME NEW c \in Calls, Resume(c) PROVE TypeOK'
  BY <1>6, MoveType DEF Resume, TypeOK, waiting
<1>7. ASSUME NEW c \in Calls, Handle(c) \/ LeaveUnanswered(c) PROVE TypeOK'
  BY <1>7, MoveType DEF Handle, LeaveUnanswered, TypeOK, waiting
<1>8. ASSUME NEW c \in Calls, Collect(c) PROVE TypeOK'
  BY <1>8, MoveType DEF Collect, TypeOK, waiting
<1>9. ASSUME NEW c \in Calls, Return(c) PROVE TypeOK'
  BY <1>9, MoveType DEF Return, TypeOK, waiting
<1>10. ASSUME NEW c \in Calls, Settle(c) PROVE TypeOK'
  BY <1>10, MoveType DEF Settle, TypeOK, waiting
<1>11. ASSUME NEW c \in Calls, waits[c] < MaxWaits
       PROVE  [waits EXCEPT ![c] = @ + 1] \in [Calls -> 0 .. MaxWaits]
  BY <1>11 DEF TypeOK
<1>12. ASSUME NEW c \in Calls, CallProxy(c) PROVE TypeOK'
  BY <1>11, <1>12, MoveType DEF CallProxy, TypeOK
<1>13. ASSUME NEW c \in Calls, NEW d \in Calls, Await(c, d) PROVE TypeOK'
  BY <1>11, <1>13, MoveType DEF Await, TypeOK
<1>14. CASE UNCHANGED vars
  BY <1>14 DEF vars, TypeOK, waiting
<1>15. QED
  BY <1>1, <1>2, <1>3, <1>4, <1>5, <1>6, <1>7, <1>8, <1>9, <1>10, <1>12, <1>13, <1>14
     DEF Next, Advance

\* Every variable keeps its type, and a call has arguments exactly from the time
\* it was accepted.
THEOREM TypeCorrect == Spec => []TypeOK
<1>1. QED
  BY TypeInit, TypeNext, PTL DEF Spec

-----------------------------------------------------------------------------
(***************************************************************************)
(* The event loop and the pool                                             *)
(***************************************************************************)
\* A synchronous call executes at once and never waits for the event loop.
SyncSound == \A c \in sync : status[c] \in Executing \union {"settled"}
LoopSound == \A c \in Calls : loop = c <=> c \in sync /\ status[c] \in Executing
PoolSound == Cardinality(OnWorkers) <= Workers

IInv == TypeOK /\ SyncSound /\ LoopSound /\ PoolSound

LEMMA WorkersFinite == IsFiniteSet(OnWorkers) /\ Cardinality(OnWorkers) \in Nat
<1>1. OnWorkers \subseteq Calls
  BY DEF OnWorkers
<1>2. QED
  BY <1>1, FS_Subset, FS_CardinalityType

\* The pool is within its bound if only calls that ran before run after a step.
LEMMA PoolShrinks ==
    ASSUME PoolSound, OnWorkers' \subseteq OnWorkers
    PROVE  PoolSound'
<1>1. Cardinality(OnWorkers') <= Cardinality(OnWorkers) /\ Cardinality(OnWorkers') \in Nat
  BY WorkersFinite, FS_Subset, FS_CardinalityType
<1>2. QED
  BY <1>1, WorkersFinite DEF PoolSound

LEMMA InvInit == Init => IInv
<1> SUFFICES ASSUME Init PROVE IInv
  OBVIOUS
<1>1. OnWorkers = {} /\ SyncSound /\ LoopSound
  BY DEF Init, OnWorkers, SyncSound, LoopSound, Executing
<1>2. PoolSound
  BY <1>1, FS_EmptySet DEF PoolSound
<1>3. QED
  BY <1>1, <1>2, TypeInit DEF IInv

\* A call that goes on as it was, on its worker or in its synchronous call.
LEMMA MoveKeeps ==
    ASSUME IInv, NEW c \in Calls, status[c] \in Executing, NEW s \in Executing,
           Move(c, s), UNCHANGED <<loop, sync>>
    PROVE  SyncSound' /\ LoopSound' /\ PoolSound'
<1>1. \A d \in Calls : status'[d] \in Executing <=> status[d] \in Executing
  BY DEF IInv, TypeOK, Move
<1>2. OnWorkers' \subseteq OnWorkers
  BY <1>1 DEF OnWorkers
<1>3. SyncSound' /\ LoopSound'
  BY <1>1 DEF IInv, TypeOK, SyncSound, LoopSound, Move
<1>4. QED
  BY <1>2, <1>3, PoolShrinks DEF IInv

\* Asynchronous calls that are not on a worker neither before nor after a step.
LEMMA IdleKeeps ==
    ASSUME IInv, NEW c \in Calls \ sync, status[c] \notin Executing,
           NEW s, s \notin Executing,
           Move(c, s), UNCHANGED <<loop, sync>>
    PROVE  SyncSound' /\ LoopSound' /\ PoolSound'
<1>1. \A d \in Calls : status'[d] \in Executing <=> status[d] \in Executing
  BY DEF IInv, TypeOK, Move
<1>2. OnWorkers' \subseteq OnWorkers
  BY <1>1 DEF OnWorkers
<1>3. SyncSound' /\ LoopSound'
  BY <1>1 DEF IInv, TypeOK, SyncSound, LoopSound, Move
<1>4. QED
  BY <1>2, <1>3, PoolShrinks DEF IInv

LEMMA InvNext == IInv /\ [Next]_vars => IInv'
<1> SUFFICES ASSUME IInv, [Next]_vars PROVE SyncSound' /\ LoopSound' /\ PoolSound'
  BY TypeNext DEF IInv
<1> USE DEF waiting
<1>1. CASE UNCHANGED <<status, loop, sync>>
  <2>1. OnWorkers' \subseteq OnWorkers
    BY <1>1 DEF OnWorkers
  <2>2. QED
    BY <1>1, <2>1, PoolShrinks DEF IInv, SyncSound, LoopSound
<1>2. ASSUME NEW c \in Calls, CallSync(c) PROVE SyncSound' /\ LoopSound' /\ PoolSound'
  <2>1. \A d \in Calls \ {c} : status'[d] = status[d]
    BY <1>2 DEF CallSync, Move, IInv, TypeOK
  <2>2. status'[c] = "running" /\ sync' = sync \union {c} /\ loop' = c /\ loop = None
    BY <1>2 DEF CallSync, Move, IInv, TypeOK
  <2>3. OnWorkers' \subseteq OnWorkers
    BY <2>1, <2>2 DEF OnWorkers
  <2>4. SyncSound' /\ LoopSound'
    BY <2>1, <2>2 DEF IInv, TypeOK, SyncSound, LoopSound, Executing
  <2>5. QED
    BY <2>3, <2>4, PoolShrinks DEF IInv
<1>3. ASSUME NEW c \in Calls, CallAsync(c) \/ Refuse(c) PROVE SyncSound' /\ LoopSound' /\ PoolSound'
  <2>1. c \notin sync /\ status[c] \notin Executing
    BY <1>3 DEF CallAsync, Refuse, IInv, SyncSound, Executing
  <2>2. QED
    BY <1>3, <2>1, IdleKeeps DEF CallAsync, Refuse, Executing
<1>4. ASSUME NEW c \in Calls, Start(c) PROVE SyncSound' /\ LoopSound' /\ PoolSound'
  <2>1. c \notin sync
    BY <1>4 DEF Start, IInv, SyncSound, Executing
  <2>2. \A d \in Calls \ {c} : status'[d] = status[d]
    BY <1>4 DEF Start, Move, IInv, TypeOK
  <2>3. status'[c] = "running" /\ UNCHANGED <<loop, sync>>
    BY <1>4 DEF Start, Move, IInv, TypeOK
  <2>4. SyncSound' /\ LoopSound'
    BY <2>1, <2>2, <2>3, <1>4 DEF IInv, TypeOK, SyncSound, LoopSound, Executing, Start
  <2>5. c \notin OnWorkers /\ OnWorkers' = OnWorkers \union {c}
    BY <1>4, <2>1, <2>2, <2>3 DEF OnWorkers, Executing, Start
  <2>6. Cardinality(OnWorkers') = Cardinality(OnWorkers) + 1
    BY <2>5, WorkersFinite, FS_AddElement
  <2>7. PoolSound'
    BY <1>4, <2>6, WorkersFinite DEF Start, WorkerFree, PoolSound
  <2>8. QED
    BY <2>4, <2>7
<1>5. ASSUME NEW c \in Calls, Resume(c) \/ Handle(c) \/ LeaveUnanswered(c) \/ Collect(c) \/ CallProxy(c)
      PROVE  SyncSound' /\ LoopSound' /\ PoolSound'
  BY <1>5, MoveKeeps DEF Resume, Handle, LeaveUnanswered, Collect, CallProxy, Executing
<1>6. ASSUME NEW c \in Calls, NEW d \in Calls, Await(c, d)
      PROVE  SyncSound' /\ LoopSound' /\ PoolSound'
  BY <1>6, MoveKeeps DEF Await, Executing
<1>7. ASSUME NEW c \in Calls, Return(c) PROVE SyncSound' /\ LoopSound' /\ PoolSound'
  <2>1. \A d \in Calls \ {c} : status'[d] = status[d]
    BY <1>7 DEF Return, Move, IInv, TypeOK
  <2>2. status'[c] = (IF c \in sync THEN "settled" ELSE "returned") /\ sync' = sync
    BY <1>7 DEF Return, Move, IInv, TypeOK
  <2>3. OnWorkers' \subseteq OnWorkers
    BY <2>1, <2>2 DEF OnWorkers, Executing
  <2>4. SyncSound' /\ LoopSound'
    BY <1>7, <2>1, <2>2 DEF IInv, TypeOK, SyncSound, LoopSound, Executing, Return
  <2>5. QED
    BY <2>3, <2>4, PoolShrinks DEF IInv
<1>8. ASSUME NEW c \in Calls, Settle(c) PROVE SyncSound' /\ LoopSound' /\ PoolSound'
  <2>1. c \notin sync
    BY <1>8 DEF Settle, IInv, SyncSound, Executing
  <2>2. QED
    BY <1>8, <2>1, IdleKeeps DEF Settle, Executing
<1>9. QED
  BY <1>1, <1>2, <1>3, <1>4, <1>5, <1>6, <1>7, <1>8 DEF Next, Advance, ChangeArgument, vars

LEMMA Invariant == Spec => []IInv
<1>1. QED
  BY InvInit, InvNext, PTL DEF Spec

\* The event loop is blocked exactly while a synchronous call executes, and the
\* pool never runs more calls than it has workers.
THEOREM LoopAndPoolHold == Spec => []LoopAndPool
<1>1. IInv => LoopAndPool
  BY DEF IInv, LoopSound, PoolSound, LoopAndPool
<1>2. QED
  BY <1>1, Invariant, PTL

-----------------------------------------------------------------------------
(***************************************************************************)
(* The contract: what the program sees of a call                           *)
(***************************************************************************)
Seen(s) ==
    CASE s = "new" -> "new"
      [] s = "queued" -> "accepted"
      [] s \in Executing \union {"returned"} -> "executing"
      [] OTHER -> "finished"
Shown == [c \in Calls |->
            CASE status[c] = "new" -> "new"
              [] status[c] = "queued" -> "accepted"
              [] status[c] \in Executing \union {"returned"} -> "executing"
              [] OTHER -> "finished"]

LEMMA ShownIsSeen == Shown = [c \in Calls |-> Seen(status[c])]
  BY DEF Shown, Seen

LEMMA ShownIsSeenNext == Shown' = [c \in Calls |-> Seen(status'[c])]
  BY DEF Shown, Seen

LEMMA Seeing ==
    /\ Seen("new") = "new" /\ Seen("queued") = "accepted"
    /\ \A s \in Executing \union {"returned"} : Seen(s) = "executing"
    /\ \A s \in Over : Seen(s) = "finished"
  BY DEF Seen, Executing, Over

\* A step of one call changes what is shown of that call.
LEMMA ShownMoves ==
    ASSUME TypeOK, NEW c \in Calls, NEW s, Move(c, s)
    PROVE  Shown' = [Shown EXCEPT ![c] = Seen(s)]
  BY ShownIsSeen, ShownIsSeenNext DEF Move, TypeOK

\* or of none, if it stays in the same part of its course.
LEMMA ShownStays ==
    ASSUME TypeOK, NEW c \in Calls, NEW s, Move(c, s), Seen(status[c]) = Seen(s)
    PROVE  Shown' = Shown
  BY ShownIsSeen, ShownIsSeenNext DEF Move, TypeOK

\* The program goes on only outside of synchronous calls.
LEMMA LoopIsFree ==
    ASSUME IInv, loop = None
    PROVE  \A c \in sync : Shown[c] = "finished"
<1>1. \A c \in sync : c \in Calls /\ status[c] = "settled"
  BY DEF IInv, TypeOK, SyncSound, LoopSound
<1>2. QED
  BY <1>1, Seeing, ShownIsSeen DEF Over

LEMMA ContractInit == Init => Contract!Init
<1> SUFFICES ASSUME Init PROVE Contract!Init
  OBVIOUS
<1>1. Shown = [c \in Calls |-> "new"]
  BY Seeing, ShownIsSeen DEF Init
<1>2. QED
  BY <1>1 DEF Init, Contract!Init, Shown

LEMMA ContractNext == IInv /\ [Next]_vars => [Contract!Next]_(Contract!vars)
<1> SUFFICES ASSUME IInv, [Next]_vars PROVE Contract!Next \/ UNCHANGED Contract!vars
  OBVIOUS
<1> USE DEF waiting
<1>0. TypeOK
  BY DEF IInv
<1>1. ASSUME loop = None PROVE Contract!Free
  BY <1>1, LoopIsFree DEF Contract!Free, Shown
<1>2. CASE UNCHANGED vars
  <2>1. Shown' = Shown
    BY <1>2, ShownIsSeen, ShownIsSeenNext DEF vars
  <2>2. QED
    BY <1>2, <2>1 DEF Contract!vars, Shown, vars
<1>3. CASE ChangeArgument
  <2>1. Shown' = Shown
    BY <1>3, ShownIsSeen, ShownIsSeenNext DEF ChangeArgument
  <2>2. Contract!Change
    BY <1>1, <1>3, <2>1 DEF ChangeArgument, Contract!Change, Shown
  <2>3. QED
    BY <2>2 DEF Contract!Next
<1>4. ASSUME NEW c \in Calls, CallSync(c) PROVE Contract!Call(c)
  <2>1. Shown' = [Shown EXCEPT ![c] = "executing"]
    BY <1>0, <1>4, ShownMoves, Seeing DEF CallSync, Executing
  <2>2. Shown[c] = "new"
    BY <1>4, Seeing, ShownIsSeen DEF CallSync
  <2>3. QED
    BY <1>1, <1>4, <2>1, <2>2 DEF CallSync, Contract!Call, Shown
<1>5. ASSUME NEW c \in Calls, CallAsync(c) PROVE Contract!Accept(c)
  <2>1. Shown' = [Shown EXCEPT ![c] = "accepted"]
    BY <1>0, <1>5, ShownMoves, Seeing DEF CallAsync
  <2>2. Shown[c] = "new"
    BY <1>5, Seeing, ShownIsSeen DEF CallAsync
  <2>3. QED
    BY <1>1, <1>5, <2>1, <2>2 DEF CallAsync, Contract!Accept, Shown
<1>6. ASSUME NEW c \in Calls, Refuse(c) PROVE Contract!Finish(c)
  <2>1. Shown' = [Shown EXCEPT ![c] = "finished"]
    BY <1>0, <1>6, ShownMoves, Seeing DEF Refuse, Over
  <2>2. Shown[c] = "new"
    BY <1>6, Seeing, ShownIsSeen DEF Refuse
  <2>3. QED
    BY <1>1, <1>6, <2>1, <2>2 DEF Refuse, Contract!Finish, Shown
<1>7. ASSUME NEW c \in Calls, Start(c) PROVE Contract!Execute(c)
  <2>1. Shown' = [Shown EXCEPT ![c] = "executing"]
    BY <1>0, <1>7, ShownMoves, Seeing DEF Start, Executing
  <2>2. Shown[c] = "accepted"
    BY <1>7, Seeing, ShownIsSeen DEF Start
  <2>3. QED
    BY <1>7, <2>1, <2>2 DEF Start, Contract!Execute, Shown
<1>8. ASSUME NEW c \in Calls, Return(c), c \in sync PROVE Contract!Finish(c)
  <2>1. Shown' = [Shown EXCEPT ![c] = "finished"]
    BY <1>0, <1>8, ShownMoves, Seeing DEF Return, Over
  <2>2. Shown[c] = "executing"
    BY <1>8, Seeing, ShownIsSeen DEF Return, Executing
  <2>3. QED
    BY <1>8, <2>1, <2>2 DEF Return, Contract!Finish, Shown
<1>9. ASSUME NEW c \in Calls, Settle(c) PROVE Contract!Finish(c)
  <2>1. Shown' = [Shown EXCEPT ![c] = "finished"]
    BY <1>0, <1>9, ShownMoves, Seeing DEF Settle, Over
  <2>2. Shown[c] = "executing"
    BY <1>9, Seeing, ShownIsSeen DEF Settle
  <2>3. QED
    BY <1>1, <1>9, <2>1, <2>2 DEF Settle, Contract!Finish, Shown
<1>10. ASSUME NEW c \in Calls, NEW s \in Executing \union {"returned"},
              status[c] \in Executing, Move(c, s), UNCHANGED <<sync, data, arg, sees>>
       PROVE  UNCHANGED Contract!vars
  <2>1. Shown' = Shown
    BY <1>0, <1>10, ShownStays, Seeing
  <2>2. QED
    BY <1>10, <2>1 DEF Contract!vars, Shown
<1>11. ASSUME NEW c \in Calls, Return(c), c \notin sync PROVE UNCHANGED Contract!vars
  BY <1>10, <1>11 DEF Return, Executing
<1>12. ASSUME NEW c \in Calls, Resume(c) \/ Handle(c) \/ LeaveUnanswered(c) \/ Collect(c) \/ CallProxy(c)
       PROVE  UNCHANGED Contract!vars
  BY <1>10, <1>12 DEF Resume, Handle, LeaveUnanswered, Collect, CallProxy, Executing
<1>13. ASSUME NEW c \in Calls, NEW d \in Calls, Await(c, d) PROVE UNCHANGED Contract!vars
  BY <1>10, <1>13 DEF Await, Executing
<1>14. QED
  BY <1>2, <1>3, <1>4, <1>5, <1>6, <1>7, <1>8, <1>9, <1>11, <1>12, <1>13
     DEF Next, Advance, Contract!Next

\* Calls refine the contract: each works on its arguments as they were when it
\* was made, runs once, ends once, and never while the program is inside a
\* synchronous call.
THEOREM ContractIsMet == Spec => MeetsContract
<1>1. QED
  BY ContractInit, ContractNext, Invariant, PTL DEF Spec, MeetsContract

-----------------------------------------------------------------------------
(***************************************************************************)
(* Circles of waiting calls                                                *)
(***************************************************************************)
Circle(S) == S \subseteq Calls /\ \A d \in S : Stuck(d, S)

\* What a member of a circle is not.
LEMMA StuckStatus ==
    ASSUME NEW S, NEW d, Stuck(d, S)
    PROVE  status[d] \in {"waiting", "queued", "calling", "returned"}
  BY DEF Stuck

\* No member of a circle makes a step.
LEMMA NobodyMoves ==
    ASSUME IInv, [Next]_vars, NEW S, Circle(S)
    PROVE  \A d \in S : status'[d] = status[d] /\ needs'[d] = needs[d]
<1> USE DEF waiting
<1>1. \A d \in S : d \in Calls /\ status[d] \in {"waiting", "queued", "calling", "returned"}
  BY StuckStatus DEF Circle
<1>2. None \notin S
  BY DEF Circle
<1>3. ASSUME NEW c \in Calls, c \notin S, NEW s, Move(c, s),
             needs' = needs \/ \E d \in Calls : needs' = [needs EXCEPT ![c] = d]
      PROVE  \A d \in S : status'[d] = status[d] /\ needs'[d] = needs[d]
  BY <1>1, <1>3 DEF Move, IInv, TypeOK
<1>4. CASE UNCHANGED <<status, needs>>
  BY <1>4
<1>5. ASSUME NEW c \in Calls, CallSync(c) \/ CallAsync(c) \/ Refuse(c)
      PROVE  \A d \in S : status'[d] = status[d] /\ needs'[d] = needs[d]
  <2>1. c \notin S
    BY <1>1, <1>5 DEF CallSync, CallAsync, Refuse
  <2>2. QED
    BY <1>3, <1>5, <2>1 DEF CallSync, CallAsync, Refuse
<1>6. ASSUME NEW c \in Calls, Start(c)
      PROVE  \A d \in S : status'[d] = status[d] /\ needs'[d] = needs[d]
  <2>1. c \notin S
    BY <1>6 DEF Start, Circle, Stuck
  <2>2. QED
    BY <1>3, <1>6, <2>1 DEF Start
<1>7. ASSUME NEW c \in Calls, Resume(c)
      PROVE  \A d \in S : status'[d] = status[d] /\ needs'[d] = needs[d]
  <2>1. c \notin S
    <3>1. SUFFICES ASSUME c \in S PROVE FALSE
      OBVIOUS
    <3>2. needs[c] \in S /\ status[needs[c]] # "returned"
      BY <1>7, <3>1 DEF Resume, Circle, Stuck
    <3>3. QED
      BY <1>1, <1>7, <3>2 DEF Resume
  <2>2. QED
    BY <1>3, <1>7, <2>1 DEF Resume
<1>8. ASSUME NEW c \in Calls, Handle(c) \/ LeaveUnanswered(c) \/ Settle(c)
      PROVE  \A d \in S : status'[d] = status[d] /\ needs'[d] = needs[d]
  <2>1. c \notin S
    BY <1>2, <1>8 DEF Handle, LeaveUnanswered, Settle, Circle, Stuck
  <2>2. QED
    BY <1>3, <1>8, <2>1 DEF Handle, LeaveUnanswered, Settle
<1>9. ASSUME NEW c \in Calls, Collect(c)
      PROVE  \A d \in S : status'[d] = status[d] /\ needs'[d] = needs[d]
  <2>1. c \notin S
    BY <1>1, <1>9 DEF Collect
  <2>2. QED
    BY <1>3, <1>9, <2>1 DEF Collect
<1>10. ASSUME NEW c \in Calls, Return(c) \/ CallProxy(c)
       PROVE  \A d \in S : status'[d] = status[d] /\ needs'[d] = needs[d]
  <2>1. c \notin S
    BY <1>1, <1>10 DEF Return, CallProxy
  <2>2. QED
    BY <1>3, <1>10, <2>1 DEF Return, CallProxy
<1>11. ASSUME NEW c \in Calls, NEW d \in Calls, Await(c, d)
       PROVE  \A e \in S : status'[e] = status[e] /\ needs'[e] = needs[e]
  <2>1. c \notin S
    BY <1>1, <1>11 DEF Await
  <2>2. QED
    BY <1>3, <1>11, <2>1 DEF Await
<1>12. QED
  BY <1>4, <1>5, <1>6, <1>7, <1>8, <1>9, <1>10, <1>11 DEF Next, Advance, ChangeArgument, vars

\* A member that blocks the event loop goes on blocking it.
LEMMA LoopStays ==
    ASSUME IInv, [Next]_vars, NEW S, Circle(S), loop \in S
    PROVE  loop' = loop
<1>1. loop \in Calls /\ loop # None
  BY DEF Circle
<1>2. status[loop] \in {"waiting", "queued", "calling", "returned"}
  BY StuckStatus DEF Circle
<1>3. ASSUME NEW c \in Calls, Return(c) PROVE loop' = loop
  <2>1. c \in sync => loop = c
    BY <1>3 DEF IInv, LoopSound, Return, Executing
  <2>2. QED
    BY <1>2, <1>3, <2>1 DEF Return
<1>4. QED
  BY <1>1, <1>3 DEF Next, Advance, ChangeArgument, CallSync, CallAsync, Refuse, Start, Resume,
     Handle, LeaveUnanswered, Collect, Settle, CallProxy, Await, vars

\* Members that have all workers keep them.
LEMMA PoolStays ==
    ASSUME IInv, [Next]_vars, NEW S, Circle(S), ~WorkerFree, OnWorkers \subseteq S
    PROVE  OnWorkers' = OnWorkers
<1> USE DEF waiting
<1>1. \A d \in S : status'[d] = status[d]
  BY NobodyMoves
<1>2. \A d \in OnWorkers : d \in Calls \ sync /\ status'[d] \in Executing
  BY <1>1 DEF OnWorkers
<1>3. sync' = sync \/ \E c \in Calls : CallSync(c)
  BY DEF Next, Advance, ChangeArgument, CallAsync, Refuse, Start, Resume,
     Handle, LeaveUnanswered, Collect, Return, Settle, CallProxy, Await, vars
<1>4. ASSUME NEW c \in Calls, CallSync(c) PROVE OnWorkers' = OnWorkers
  <2>1. c \notin OnWorkers /\ sync' = sync \union {c}
    BY <1>4 DEF CallSync, OnWorkers, Executing
  <2>2. \A d \in Calls \ {c} : status'[d] = status[d]
    BY <1>4 DEF CallSync, Move, IInv, TypeOK
  <2>3. QED
    BY <2>1, <2>2 DEF OnWorkers
<1>5. ASSUME sync' = sync PROVE OnWorkers' = OnWorkers
  <2>1. \A c \in Calls : status'[c] \in Executing => status[c] \in Executing \/ CallSync(c)
    <3>1. ASSUME NEW c \in Calls, NEW s, Move(c, s), s \in Executing => status[c] \in Executing
          PROVE  \A d \in Calls : status'[d] \in Executing => status[d] \in Executing
      BY <3>1 DEF Move, IInv, TypeOK
    <3>2. CASE UNCHANGED status
      BY <3>2
    <3>3. ASSUME NEW c \in Calls, CallAsync(c) \/ Refuse(c) \/ Settle(c) \/ Return(c)
          PROVE  \A d \in Calls : status'[d] \in Executing => status[d] \in Executing
      BY <3>1, <3>3 DEF CallAsync, Refuse, Settle, Return, Executing
    <3>4. ASSUME NEW c \in Calls,
                 Resume(c) \/ Handle(c) \/ LeaveUnanswered(c) \/ Collect(c) \/ CallProxy(c)
          PROVE  \A d \in Calls : status'[d] \in Executing => status[d] \in Executing
      BY <3>1, <3>4 DEF Resume, Handle, LeaveUnanswered, Collect, CallProxy, Executing
    <3>5. ASSUME NEW c \in Calls, NEW d \in Calls, Await(c, d)
          PROVE  \A e \in Calls : status'[e] \in Executing => status[e] \in Executing
      BY <3>1, <3>5 DEF Await, Executing
    <3>6. ASSUME NEW c \in Calls, Start(c) PROVE FALSE
      BY <3>6 DEF Start
    <3>7. ASSUME NEW c \in Calls, CallSync(c)
          PROVE  \A d \in Calls : status'[d] \in Executing => status[d] \in Executing \/ CallSync(d)
      BY <3>7 DEF CallSync, Move, IInv, TypeOK
    <3>8. QED
      BY <3>2, <3>3, <3>4, <3>5, <3>6, <3>7 DEF Next, Advance, ChangeArgument, vars
  <2>2. \A c \in Calls \ sync : ~CallSync(c)
    BY <1>5 DEF CallSync
  <2>3. QED
    BY <1>2, <1>5, <2>1, <2>2 DEF OnWorkers
<1>6. QED
  BY <1>3, <1>4, <1>5

LEMMA CircleStays ==
    ASSUME IInv, [Next]_vars, NEW S, Circle(S)
    PROVE  Circle(S)'
<1>1. ASSUME NEW d \in S PROVE Stuck(d, S)'
  <2>1. Stuck(d, S) /\ status'[d] = status[d] /\ needs'[d] = needs[d]
    BY NobodyMoves DEF Circle
  <2>2. CASE status[d] = "waiting"
    <3>1. needs[d] \in S /\ status[needs[d]] # "returned"
      BY <2>1, <2>2 DEF Stuck
    <3>2. status'[needs'[d]] # "returned"
      BY <2>1, <3>1, NobodyMoves
    <3>3. QED
      BY <2>1, <2>2, <3>1, <3>2 DEF Stuck
  <2>3. CASE status[d] = "queued"
    <3>1. ~WorkerFree /\ OnWorkers \subseteq S
      BY <2>1, <2>3 DEF Stuck
    <3>2. OnWorkers' = OnWorkers
      BY <3>1, PoolStays
    <3>3. ~WorkerFree' /\ OnWorkers' \subseteq S
      BY <3>1, <3>2 DEF WorkerFree
    <3>4. QED
      BY <2>1, <2>3, <3>3 DEF Stuck
  <2>4. CASE status[d] \in {"calling", "returned"}
    <3>1. loop \in S
      BY <2>1, <2>4 DEF Stuck
    <3>2. QED
      BY <2>1, <2>4, <3>1, LoopStays DEF Stuck
  <2>5. QED
    BY <2>1, <2>2, <2>3, <2>4, StuckStatus
<1>2. QED
  BY <1>1 DEF Circle

\* A circle of calls that wait for each other is never opened: there is no
\* timeout, no cancellation, and the pool does not grow.
THEOREM CirclesRemain == Spec => CirclesStay
<1>1. IInv /\ [Next]_vars => [\A c \in Calls : Doomed(c) => Doomed(c)']_vars
  <2>1. SUFFICES ASSUME IInv, [Next]_vars, NEW c \in Calls, Doomed(c) PROVE Doomed(c)'
    OBVIOUS
  <2>2. PICK S \in SUBSET Calls : c \in S /\ Circle(S)
    BY <2>1 DEF Doomed, Circle
  <2>3. Circle(S)'
    BY <2>1, <2>2, CircleStays
  <2>4. QED
    BY <2>2, <2>3 DEF Doomed, Circle
<1>2. QED
  BY <1>1, Invariant, PTL DEF Spec, CirclesStay

-----------------------------------------------------------------------------
(***************************************************************************)
(* Nothing but circles and lost answers stops all calls                    *)
(***************************************************************************)
\* A call waits for calls that were accepted.
Accepted == {c \in Calls : status[c] \notin {"new", "refused"}}
NeedsSound == \A c \in Calls : status[c] = "waiting" => needs[c] \in Accepted

\* An action moves one call, which remains accepted if it was.
LEMMA AcceptedStay ==
    ASSUME TypeOK, NEW c \in Calls, NEW s, Move(c, s), s \notin {"new", "refused"} \/ status[c] = "new"
    PROVE  Accepted \subseteq Accepted'
  BY DEF TypeOK, Move, Accepted

LEMMA NeedsNext == TypeOK /\ NeedsSound /\ [Next]_vars => NeedsSound'
<1> SUFFICES ASSUME TypeOK, NeedsSound, [Next]_vars PROVE NeedsSound'
  OBVIOUS
<1> USE DEF waiting
<1>1. ASSUME UNCHANGED <<status, needs>> PROVE NeedsSound'
  BY <1>1 DEF NeedsSound, Accepted
\* A call that does not begin to wait.
<1>2. ASSUME NEW c \in Calls, NEW s, Move(c, s), UNCHANGED needs,
             s \notin {"new", "refused"} \/ status[c] = "new", s # "waiting"
      PROVE  NeedsSound'
  BY <1>2, AcceptedStay DEF NeedsSound, TypeOK, Move
\* One that does, for a call that was accepted.
<1>3. ASSUME NEW c \in Calls, Move(c, "waiting"),
             NEW d \in Accepted, needs' = [needs EXCEPT ![c] = d]
      PROVE  NeedsSound'
  BY <1>3, AcceptedStay DEF NeedsSound, TypeOK, Move
<1>4. CASE ChangeArgument
  BY <1>1, <1>4 DEF ChangeArgument
<1>5. ASSUME NEW c \in Calls, CallSync(c) \/ CallAsync(c) \/ Refuse(c) PROVE NeedsSound'
  BY <1>2, <1>5 DEF CallSync, CallAsync, Refuse
<1>6. ASSUME NEW c \in Calls, Start(c) \/ Resume(c) \/ Collect(c) \/ CallProxy(c) \/ Settle(c) PROVE NeedsSound'
  BY <1>2, <1>6 DEF Start, Resume, Collect, CallProxy, Settle
<1>7. ASSUME NEW c \in Calls, Return(c) PROVE NeedsSound'
  <2>1. (IF c \in sync THEN "settled" ELSE "returned") \notin {"new", "refused", "waiting"}
    OBVIOUS
  <2>2. QED
    BY <1>2, <1>7, <2>1 DEF Return
<1>8. ASSUME NEW c \in Calls, Handle(c) \/ LeaveUnanswered(c) PROVE NeedsSound'
  BY <1>2, <1>8 DEF Handle, LeaveUnanswered
<1>9. ASSUME NEW c \in Calls, NEW d \in Calls, Await(c, d) PROVE NeedsSound'
  <2>1. d \in Accepted
    BY <1>9 DEF Await, Accepted, Executing
  <2>2. QED
    BY <1>3, <1>9, <2>1 DEF Await
<1>10. CASE UNCHANGED vars
  BY <1>1, <1>10 DEF vars
<1>11. QED
  BY <1>4, <1>5, <1>6, <1>7, <1>8, <1>9, <1>10 DEF Next, Advance

LEMMA NeedsInvariant == Spec => []NeedsSound
<1>1. Init => NeedsSound
  BY DEF Init, NeedsSound
<1>2. QED
  BY <1>1, NeedsNext, TypeCorrect, PTL DEF Spec

\* If nothing can go on, the calls that were begun are stopped together: each has
\* lost its answer, or waits for others of them, their workers or the event loop.
THEOREM NothingElseStopsCalls == Spec => []NothingElseStops
<1>1. IInv /\ NeedsSound => NothingElseStops
  <2> SUFFICES ASSUME IInv, NeedsSound, \A c \in Unfinished : HeldUp(c), NEW c \in Unfinished
               PROVE  Stopped(c)
    BY DEF NothingElseStops
  <2>1. /\ \A d \in Calls : d \in Unfinished <=> status[d] \in {"queued", "returned"} \union Executing
        /\ Unfinished \subseteq Calls
    BY DEF Unfinished, IInv, TypeOK, Over, Executing
  <2>2. loop # None => loop \in Unfinished
    BY <2>1 DEF IInv, TypeOK, LoopSound
  <2>3. OnWorkers \subseteq Unfinished
    BY <2>1 DEF OnWorkers
  <2>4. ASSUME NEW d \in Unfinished, status[d] = "waiting"
        PROVE  needs[d] \in Unfinished \/ status[needs[d]] = "settled"
    BY <2>1, <2>4 DEF NeedsSound, Accepted, Unfinished, Over
  <2>5. ASSUME NEW d \in Unfinished PROVE status[d] = "unanswered" \/ Stuck(d, Unfinished)
    <3>1. HeldUp(d) /\ status[d] \in {"queued", "returned"} \union Executing
      BY <2>1
    <3>2. CASE status[d] = "queued"
      BY <2>3, <3>1, <3>2 DEF HeldUp, Stuck
    <3>3. CASE status[d] = "waiting"
      BY <2>4, <3>1, <3>3 DEF HeldUp, Stuck
    <3>4. CASE status[d] \in {"calling", "returned"}
      BY <2>2, <3>1, <3>4 DEF HeldUp, Stuck
    <3>5. CASE status[d] = "running"
      BY <3>1, <3>5 DEF HeldUp
    <3>6. QED
      BY <3>1, <3>2, <3>3, <3>4, <3>5 DEF Executing
  <2>6. QED
    BY <2>1, <2>5 DEF Stopped
<1>2. QED
  BY <1>1, Invariant, NeedsInvariant, PTL
==============================================================================
