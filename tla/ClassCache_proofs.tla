-------------------------- MODULE ClassCache_proofs --------------------------
(***************************************************************************)
(* Proofs about ClassCache, for any names, loaders, jars and tasks.        *)
(***************************************************************************)
EXTENDS ClassCache, TLAPS

-----------------------------------------------------------------------------
(***************************************************************************)
(* The inductive invariant.                                                *)
(***************************************************************************)
\* Only the holder of the mutex builds.
Locked == \A t \in Threads : pc[t] = "building" <=> lock = t

\* What a build has found so far, and that nobody published its name meanwhile.
BuildsSound ==
    \A t \in Threads : pc[t] = "building" =>
        /\ cache[job[t].name] = None
        /\ found[t] \subseteq known[job[t].name]
        /\ looked[t] # 0 => found[t] # {}
        /\ steady[t] => found[t] \subseteq {loader[job[t].name]}

\* Finished and idle threads hold no locals of a build.
NoLeftovers == \A t \in Threads : pc[t] # "building" => found[t] = {} /\ looked[t] = 0

LoaderKnown == \A n \in Names : loader[n] # None => loader[n] \in known[n]

\* Only setClassLoader takes a class away from an import that runs.
StillThere ==
    \A t \in Threads :
        pc[t] \in {"entering", "building"} /\ steady[t] /\ job[t].had # None
            => loader[job[t].name] = job[t].had

IInv == /\ TypeOK /\ Locked /\ BuildsSound /\ NoLeftovers /\ LoaderKnown /\ StillThere
        /\ ImportsShare /\ WholeProxies /\ ImportFindsClass

USE ThreadsAssumption, ViewsAssumption, OriginsAssumption, FailedAssumption, UnlinkedAssumption,
    LookupsAssumption

-----------------------------------------------------------------------------
LEMMA BuiltType ==
    ASSUME TypeOK, NEW t \in Threads
    PROVE  Built(t) \in Proxies
  BY DEF TypeOK, Built, Proxies

LEMMA TypeInit == Init => TypeOK
<1>1. Init => replaced \in BOOLEAN
  BY DEF Init
<1>2. QED
  BY <1>1 DEF Init, TypeOK, Views

LEMMA TypeNext == TypeOK /\ [Next]_vars => TypeOK'
<1> SUFFICES ASSUME TypeOK, [Next]_vars PROVE TypeOK'
  OBVIOUS
<1> USE DEF TypeOK, builds, loaders
<1>1. ASSUME NEW t \in Threads, NEW n \in Names, NEW o \in Origins \union {None},
             NEW d \in BOOLEAN, Begin(t, n, o, d)
      PROVE  TypeOK'
  <2>1. [name |-> n, had |-> loader[n], object |-> o, declared |-> d] \in Jobs
    BY DEF Jobs, Views
  <2>2. QED
    BY <1>1, <2>1 DEF Begin
<1>0. ASSUME NEW view \in Views, LoadWith(view)
      PROVE  loader' \in Views /\ known' \in [Names -> SUBSET Origins] /\ sees' \in [Origins -> Views]
  BY <1>0 DEF LoadWith, Views
<1>2. ASSUME NEW jar \in Jars, AppendClasspath(jar) PROVE TypeOK'
  <2>1. [n \in Names |-> IF loader[n] = None THEN jar[n] ELSE loader[n]] \in Views
    BY DEF Views
  <2>2. QED
    BY <1>0, <1>2, <2>1 DEF AppendClasspath
<1>3. ASSUME NEW view \in Custom, SetClassLoader(view) PROVE TypeOK'
  BY <1>0, <1>3 DEF SetClassLoader
<1>4. ASSUME NEW t \in Threads, NEW r \in Proxies \union {Failed}, Finish(t, r), pc[t] # "idle",
             UNCHANGED <<loaders, job, steady>>,
             cache' \in [Names -> Proxies \union {None}]
      PROVE  TypeOK'
  <2>1. looked' \in [Threads -> 0 .. Lookups]
    BY <1>4 DEF Finish
  <2>2. QED
    BY <1>4, <2>1 DEF Finish
<1>5. ASSUME NEW t \in Threads, Hit(t) PROVE TypeOK'
  <2>1. job[t].name \in Names /\ cache[job[t].name] \in Proxies
    BY <1>5 DEF Hit, Jobs
  <2>2. QED
    BY <1>4, <1>5, <2>1 DEF Hit
<1>6. ASSUME NEW t \in Threads, Miss(t) PROVE TypeOK'
  BY <1>6 DEF Miss
<1>7. ASSUME NEW t \in Threads, LookUp(t) PROVE TypeOK'
  <2>1. loader[job[t].name] \in Origins
    BY <1>7 DEF LookUp, Succeeds, Views, Jobs
  <2>2. looked[t] + 1 \in 0 .. Lookups
    BY <1>7 DEF LookUp
  <2>3. QED
    BY <1>7, <2>1, <2>2 DEF LookUp
<1>8. ASSUME NEW t \in Threads, LookUpFail(t) PROVE TypeOK'
  BY <1>4, <1>8 DEF LookUpFail
<1>9. ASSUME NEW t \in Threads, Insert(t) PROVE TypeOK'
  <2>1. Built(t) \in Proxies /\ job[t].name \in Names
    BY <1>9, BuiltType DEF Insert, Jobs
  <2>2. cache' \in [Names -> Proxies \union {None}]
    BY <1>9, <2>1 DEF Insert
  <2>3. QED
    BY <1>4, <1>9, <2>1, <2>2 DEF Insert
<1>10. ASSUME NEW t \in Threads, Return(t) PROVE TypeOK'
  BY <1>10 DEF Return
<1>11. CASE UNCHANGED vars
  BY <1>11 DEF vars
<1>12. CASE Start
  BY <1>1, <1>12 DEF Start, ImportClass, ImportClassAsync, WrapDeclared, WrapOwn, Threads
<1>13. QED
  BY <1>2, <1>3, <1>5, <1>6, <1>7, <1>8, <1>9, <1>10, <1>11, <1>12
     DEF Next, Replace, Enter, Build

\* Every variable keeps its type.
THEOREM TypeCorrect == Spec => []TypeOK
<1>1. QED
  BY TypeInit, TypeNext, PTL DEF Spec

-----------------------------------------------------------------------------
(***************************************************************************)
(* The invariant is inductive.                                             *)
(***************************************************************************)
LEMMA InvInit == Init => IInv
<1> SUFFICES ASSUME Init PROVE IInv
  OBVIOUS
<1> USE DEF Init
<1>1. TypeOK
  BY TypeInit
<1>2. Locked /\ BuildsSound /\ NoLeftovers /\ StillThere
  BY DEF Locked, BuildsSound, NoLeftovers, StillThere
<1>3. LoaderKnown /\ WholeProxies
  BY DEF LoaderKnown, WholeProxies
<1>4. ImportsShare /\ ImportFindsClass
  BY DEF ImportsShare, ImportFindsClass
<1>5. QED
  BY <1>1, <1>2, <1>3, <1>4 DEF IInv

\* A call that begins touches only its own thread, which was idle.
LEMMA BeginKeeps ==
    ASSUME IInv, TypeOK', NEW t \in Threads, NEW n \in Names,
           NEW o \in Origins \union {None}, NEW d \in BOOLEAN, Begin(t, n, o, d)
    PROVE  IInv'
<1> USE DEF IInv, TypeOK, builds, loaders
<1>1. /\ pc'[t] = "entering"
      /\ job'[t] = [name |-> n, had |-> loader[n], object |-> o, declared |-> d]
      /\ \A u \in Threads : u # t => pc'[u] = pc[u] /\ job'[u] = job[u]
      /\ pc[t] = "idle"
      /\ UNCHANGED <<loader, known, cache, lock, found, looked, steady, result>>
  BY DEF Begin
<1>2. Locked'
  BY <1>1 DEF Locked
<1>3. BuildsSound'
  BY <1>1 DEF BuildsSound
<1>4. NoLeftovers' /\ LoaderKnown'
  BY <1>1 DEF NoLeftovers, LoaderKnown
<1>5. StillThere'
  BY <1>1 DEF StillThere
<1>6. ImportsShare' /\ ImportFindsClass'
  BY <1>1 DEF ImportsShare, ImportFindsClass
<1>7. WholeProxies'
  BY <1>1 DEF WholeProxies
<1>8. QED
  BY <1>2, <1>3, <1>4, <1>5, <1>6, <1>7

\* appendClasspath gives names a meaning and takes none away.
LEMMA AppendKeeps ==
    ASSUME IInv, TypeOK', NEW jar \in Jars, AppendClasspath(jar)
    PROVE  IInv'
<1> USE DEF IInv, TypeOK, builds, loaders
<1>1. /\ \A n \in Names : loader[n] # None => loader'[n] = loader[n]
      /\ \A n \in Names : known[n] \subseteq known'[n]
      /\ \A n \in Names : loader'[n] # None => loader'[n] \in known'[n]
      /\ UNCHANGED <<cache, lock, pc, job, found, looked, steady, result>>
  BY DEF AppendClasspath, LoadWith
<1>2. \A u \in Threads : pc[u] # "idle" => job[u].name \in Names
  BY DEF Jobs
<1>3. BuildsSound'
  <2> SUFFICES ASSUME NEW u \in Threads, pc[u] = "building"
               PROVE  /\ cache[job[u].name] = None
                      /\ found[u] \subseteq known'[job[u].name]
                      /\ looked[u] # 0 => found[u] # {}
                      /\ steady[u] => found[u] \subseteq {loader'[job[u].name]}
    BY <1>1 DEF BuildsSound
  <2>1. found[u] \subseteq known'[job[u].name]
    BY <1>1, <1>2 DEF BuildsSound
  <2>2. steady[u] => found[u] \subseteq {loader'[job[u].name]}
    BY <1>1, <1>2 DEF BuildsSound
  <2>3. QED
    BY <2>1, <2>2 DEF BuildsSound
<1>4. Locked' /\ NoLeftovers' /\ LoaderKnown' /\ ImportsShare' /\ ImportFindsClass'
  BY <1>1 DEF Locked, NoLeftovers, LoaderKnown, ImportsShare, ImportFindsClass
<1>5. StillThere'
  BY <1>1, <1>2 DEF StillThere
<1>6. WholeProxies'
  BY <1>1 DEF WholeProxies
<1>7. QED
  BY <1>3, <1>4, <1>5, <1>6

\* setClassLoader leaves no running import steady.
LEMMA SetKeeps ==
    ASSUME IInv, TypeOK', NEW view \in Custom, SetClassLoader(view)
    PROVE  IInv'
<1> USE DEF IInv, TypeOK, builds, loaders
<1>1. /\ \A n \in Names : known[n] \subseteq known'[n]
      /\ \A n \in Names : loader'[n] # None => loader'[n] \in known'[n]
      /\ \A u \in Threads : steady'[u] => pc[u] = "idle"
      /\ UNCHANGED <<cache, lock, pc, job, found, looked, result>>
  BY DEF SetClassLoader, LoadWith
<1>2. \A u \in Threads : pc[u] # "idle" => job[u].name \in Names
  BY DEF Jobs
<1>3. BuildsSound'
  BY <1>1, <1>2 DEF BuildsSound
<1>4. Locked' /\ NoLeftovers' /\ LoaderKnown' /\ ImportsShare' /\ ImportFindsClass' /\ StillThere'
  BY <1>1 DEF Locked, NoLeftovers, LoaderKnown, ImportsShare, ImportFindsClass, StillThere
<1>5. WholeProxies'
  BY <1>1 DEF WholeProxies
<1>6. QED
  BY <1>3, <1>4, <1>5

\* A cache hit ends a call with the cached proxy; no one builds meanwhile.
LEMMA HitKeeps ==
    ASSUME IInv, TypeOK', NEW t \in Threads, Hit(t)
    PROVE  IInv'
<1> USE DEF IInv, TypeOK, builds, loaders
<1>1. /\ pc[t] = "entering" /\ pc'[t] = "done"
      /\ cache[job[t].name] # None /\ result'[t] = cache[job[t].name]
      /\ found'[t] = {} /\ looked'[t] = 0
      /\ \A u \in Threads : u # t => /\ pc'[u] = pc[u] /\ result'[u] = result[u]
                                     /\ found'[u] = found[u] /\ looked'[u] = looked[u]
      /\ lock = None /\ lock' = None
      /\ UNCHANGED <<loader, known, cache, job, steady>>
  BY DEF Hit, Finish
<1>2. cache[job[t].name] \in Proxies /\ cache[job[t].name] # Failed
  BY <1>1 DEF Jobs
<1>3. Locked' /\ NoLeftovers' /\ LoaderKnown'
  BY <1>1 DEF Locked, NoLeftovers, LoaderKnown
<1>4. BuildsSound' /\ StillThere'
  BY <1>1 DEF BuildsSound, StillThere
<1>5. ImportsShare' /\ ImportFindsClass'
  BY <1>1, <1>2 DEF ImportsShare, ImportFindsClass
<1>6. WholeProxies'
  BY <1>1 DEF WholeProxies
<1>7. QED
  BY <1>3, <1>4, <1>5, <1>6

LEMMA MissKeeps ==
    ASSUME IInv, TypeOK', NEW t \in Threads, Miss(t)
    PROVE  IInv'
<1> USE DEF IInv, TypeOK, builds, loaders
<1>1. /\ pc[t] = "entering" /\ pc'[t] = "building"
      /\ cache[job[t].name] = None
      /\ \A u \in Threads : u # t => pc'[u] = pc[u]
      /\ lock = None /\ lock' = t
      /\ UNCHANGED <<loader, known, cache, job, found, looked, steady, result>>
  BY DEF Miss
<1>2. found[t] = {} /\ looked[t] = 0
  BY <1>1 DEF NoLeftovers
<1>3. Locked' /\ NoLeftovers' /\ LoaderKnown'
  BY <1>1 DEF Locked, NoLeftovers, LoaderKnown
<1>4. BuildsSound'
  BY <1>1, <1>2 DEF BuildsSound
<1>5. StillThere' /\ ImportsShare' /\ ImportFindsClass' /\ WholeProxies'
  BY <1>1 DEF StillThere, ImportsShare, ImportFindsClass, WholeProxies
<1>6. QED
  BY <1>3, <1>4, <1>5

\* A lookup adds the class the loader has under the name now.
LEMMA LookUpKeeps ==
    ASSUME IInv, TypeOK', NEW t \in Threads, LookUp(t)
    PROVE  IInv'
<1> USE DEF IInv, TypeOK, builds, loaders
<1> DEFINE n == job[t].name
<1>1. /\ pc[t] = "building" /\ loader[n] # None
      /\ found'[t] = found[t] \union {loader[n]}
      /\ \A u \in Threads : u # t => found'[u] = found[u] /\ looked'[u] = looked[u]
      /\ UNCHANGED <<loader, known, cache, lock, pc, job, steady, result>>
  BY DEF LookUp, Succeeds
<1>2. n \in Names /\ loader[n] \in known[n]
  BY <1>1 DEF Jobs, LoaderKnown
<1>3. BuildsSound'
  <2> SUFFICES ASSUME NEW u \in Threads, pc[u] = "building"
               PROVE  /\ cache[job[u].name] = None
                      /\ found'[u] \subseteq known[job[u].name]
                      /\ looked'[u] # 0 => found'[u] # {}
                      /\ steady[u] => found'[u] \subseteq {loader[job[u].name]}
    BY <1>1 DEF BuildsSound
  <2>1. CASE u = t
    <3>1. cache[n] = None /\ found[t] \subseteq known[n] /\ (steady[t] => found[t] \subseteq {loader[n]})
      BY <1>1 DEF BuildsSound
    <3>2. QED
      BY <1>1, <1>2, <2>1, <3>1
  <2>2. CASE u # t
    BY <1>1, <2>2 DEF BuildsSound
  <2>3. QED
    BY <2>1, <2>2
<1>4. NoLeftovers'
  BY <1>1 DEF NoLeftovers
<1>5. Locked' /\ LoaderKnown' /\ StillThere' /\ ImportsShare' /\ ImportFindsClass' /\ WholeProxies'
  BY <1>1 DEF Locked, LoaderKnown, StillThere, ImportsShare, ImportFindsClass, WholeProxies
<1>6. QED
  BY <1>3, <1>4, <1>5

\* A failed build had a class at the start only if the loader was replaced, or if the
\* members of that class cannot be listed.
LEMMA LookUpFailKeeps ==
    ASSUME IInv, TypeOK', NEW t \in Threads, LookUpFail(t)
    PROVE  IInv'
<1> USE DEF IInv, TypeOK, builds, loaders
<1>1. /\ pc[t] = "building" /\ pc'[t] = "done"
      /\ loader[job[t].name] = None \/ <<job[t].name, loader[job[t].name]>> \in Unlinked
      /\ result'[t] = Failed
      /\ found'[t] = {} /\ looked'[t] = 0
      /\ \A u \in Threads : u # t => /\ pc'[u] = pc[u] /\ result'[u] = result[u]
                                     /\ found'[u] = found[u] /\ looked'[u] = looked[u]
      /\ lock' = None
      /\ UNCHANGED <<loader, known, cache, job, steady>>
  BY DEF LookUpFail, Succeeds, Finish
<1>2. lock = t
  BY <1>1 DEF Locked
<1>3. Locked' /\ NoLeftovers' /\ LoaderKnown'
  BY <1>1, <1>2 DEF Locked, NoLeftovers, LoaderKnown
<1>4. BuildsSound' /\ StillThere'
  BY <1>1 DEF BuildsSound, StillThere
<1>5. steady[t] => job[t].had = None \/ <<job[t].name, job[t].had>> \in Unlinked
  BY <1>1 DEF StillThere
<1>6. ImportsShare' /\ ImportFindsClass'
  <2>1. ImportsShare'
    BY <1>1 DEF ImportsShare
  <2>2. ASSUME NEW u \in Threads, pc'[u] = "done", steady[u], job[u].had # None,
               <<job[u].name, job[u].had>> \notin Unlinked
        PROVE  result'[u] # Failed
    <3>1. u # t
      BY <1>5, <2>2
    <3>2. QED
      BY <1>1, <2>2, <3>1 DEF ImportFindsClass
  <2>3. QED
    BY <1>1, <2>1, <2>2 DEF ImportFindsClass
<1>7. WholeProxies'
  BY <1>1 DEF WholeProxies
<1>8. QED
  BY <1>3, <1>4, <1>6, <1>7

\* The proxy published is of the class of its name, which nobody published
\* before.
LEMMA InsertKeeps ==
    ASSUME IInv, TypeOK', NEW t \in Threads, Insert(t)
    PROVE  IInv'
<1> USE DEF IInv, TypeOK, builds, loaders
<1> DEFINE n == job[t].name
<1>1. /\ pc[t] = "building" /\ pc'[t] = "done"
      /\ looked[t] = Lookups /\ result'[t] = Built(t)
      /\ found'[t] = {} /\ looked'[t] = 0
      /\ \A u \in Threads : u # t => /\ pc'[u] = pc[u] /\ result'[u] = result[u]
                                     /\ found'[u] = found[u] /\ looked'[u] = looked[u]
      /\ lock' = None
      /\ cache' = [cache EXCEPT ![n] = Built(t)]
      /\ UNCHANGED <<loader, known, job, steady>>
  BY DEF Insert, Finish
<1>2. n \in Names /\ lock = t /\ cache[n] = None
  BY <1>1 DEF Jobs, Locked, BuildsSound
<1>3. Built(t) \in Proxies /\ Built(t) # Failed /\ Built(t) # None
  BY BuiltType
<1>4. \A u \in Threads : u # t => pc[u] # "building"
  BY <1>2 DEF Locked
<1>5. Locked' /\ NoLeftovers' /\ LoaderKnown'
  BY <1>1, <1>2 DEF Locked, NoLeftovers, LoaderKnown
<1>6. BuildsSound'
  BY <1>1, <1>4 DEF BuildsSound
<1>7. StillThere'
  BY <1>1 DEF StillThere
<1>8. \A m \in Names : cache'[m] = IF m = n THEN Built(t) ELSE cache[m]
  BY <1>1
<1>9. ImportsShare'
  <2> SUFFICES ASSUME NEW u \in Threads, pc'[u] = "done", result'[u] # Failed
               PROVE  result'[u] \in Proxies /\ result'[u] = cache'[job[u].name]
    BY <1>1 DEF ImportsShare
  <2>1. CASE u = t
    BY <1>1, <1>2, <1>3, <1>8, <2>1
  <2>2. CASE u # t
    <3>1. pc[u] = "done" /\ result[u] # Failed /\ result'[u] = result[u] /\ job[u].name \in Names
      BY <1>1, <2>2 DEF Jobs
    <3>2. result[u] = cache[job[u].name] /\ result[u] \in Proxies
      BY <3>1 DEF ImportsShare
    <3>3. QED
      BY <1>2, <1>8, <3>1, <3>2
  <2>3. QED
    BY <2>1, <2>2
<1>10. ImportFindsClass'
  BY <1>1, <1>3 DEF ImportFindsClass
<1>11. /\ found[t] # {} /\ found[t] \subseteq known[n]
       /\ steady[t] => \E o \in Origins : found[t] = {o}
  <2>1. found[t] # {} /\ found[t] \subseteq known[n] /\ (steady[t] => found[t] \subseteq {loader[n]})
    BY <1>1 DEF BuildsSound
  <2>2. found[t] \subseteq Origins
    OBVIOUS
  <2>3. QED
    BY <2>1, <2>2
<1>12. WholeProxies'
  <2> SUFFICES ASSUME NEW m \in Names, cache'[m] # None
               PROVE  /\ cache'[m].origins # {}
                      /\ cache'[m].origins \subseteq known[m]
                      /\ cache'[m].steady => \E o \in Origins : cache'[m].origins = {o}
    BY <1>1 DEF WholeProxies
  <2>1. CASE m = n
    BY <1>8, <1>11, <2>1 DEF Built
  <2>2. CASE m # n
    BY <1>8, <2>2 DEF WholeProxies
  <2>3. QED
    BY <2>1, <2>2
<1>13. QED
  BY <1>5, <1>6, <1>7, <1>9, <1>10, <1>12

LEMMA ReturnKeeps ==
    ASSUME IInv, TypeOK', NEW t \in Threads, Return(t)
    PROVE  IInv'
<1> USE DEF IInv, TypeOK, builds, loaders
<1>1. /\ pc[t] = "done" /\ pc'[t] = "idle"
      /\ \A u \in Threads : u # t => /\ pc'[u] = pc[u] /\ result'[u] = result[u]
                                     /\ job'[u] = job[u] /\ steady'[u] = steady[u]
      /\ UNCHANGED <<loader, known, cache, lock, found, looked>>
  BY DEF Return
<1>2. Locked' /\ NoLeftovers' /\ LoaderKnown' /\ WholeProxies'
  BY <1>1 DEF Locked, NoLeftovers, LoaderKnown, WholeProxies
<1>3. BuildsSound' /\ StillThere'
  BY <1>1 DEF BuildsSound, StillThere
<1>4. ImportsShare' /\ ImportFindsClass'
  BY <1>1 DEF ImportsShare, ImportFindsClass
<1>5. QED
  BY <1>2, <1>3, <1>4

LEMMA InvNext == IInv /\ [Next]_vars => IInv'
<1> SUFFICES ASSUME IInv, [Next]_vars PROVE IInv'
  OBVIOUS
<1>1. TypeOK'
  BY TypeNext DEF IInv
<1>2. CASE Start
  BY <1>1, <1>2, BeginKeeps
     DEF Start, ImportClass, ImportClassAsync, WrapDeclared, WrapOwn, Threads
<1>3. CASE Replace
  BY <1>1, <1>3, AppendKeeps, SetKeeps DEF Replace
<1>4. ASSUME NEW t \in Threads, Enter(t) PROVE IInv'
  BY <1>1, <1>4, HitKeeps, MissKeeps DEF Enter
<1>5. ASSUME NEW t \in Threads, Build(t) PROVE IInv'
  BY <1>1, <1>5, LookUpKeeps, LookUpFailKeeps, InsertKeeps DEF Build
<1>6. ASSUME NEW t \in Threads, Return(t) PROVE IInv'
  BY <1>1, <1>6, ReturnKeeps
<1>7. CASE UNCHANGED vars
  BY <1>7 DEF vars, builds, loaders, IInv, TypeOK, Locked, BuildsSound, NoLeftovers, LoaderKnown, StillThere,
              ImportsShare, WholeProxies, ImportFindsClass
<1>8. QED
  BY <1>2, <1>3, <1>4, <1>5, <1>6, <1>7 DEF Next

LEMMA Invariance == Spec => []IInv
<1>1. QED
  BY InvInit, InvNext, PTL DEF Spec

-----------------------------------------------------------------------------
(***************************************************************************)
(* The theorems.                                                           *)
(***************************************************************************)
\* Imports of one name that run at the same time get the same proxy.
THEOREM ImportsAreShared == Spec => []ImportsShare
<1>1. IInv => ImportsShare
  BY DEF IInv
<1>2. QED
  BY <1>1, Invariance, PTL

\* A cached proxy is whole, and of one class if the loader was left alone.
THEOREM ProxiesAreWhole == Spec => []WholeProxies
<1>1. IInv => WholeProxies
  BY DEF IInv
<1>2. QED
  BY <1>1, Invariance, PTL

\* An import fails only if its class was not there or its members could not be listed,
\* or if setClassLoader was called.
THEOREM ClassesAreFound == Spec => []ImportFindsClass
<1>1. IInv => ImportFindsClass
  BY DEF IInv
<1>2. QED
  BY <1>1, Invariance, PTL

\* No step replaces or drops an entry: a build that ends finds its name free.
THEOREM EntriesNeverChange == Spec => EntriesStay
<1> DEFINE Stay == \A n \in Names : cache[n] # None => cache'[n] = cache[n]
<1>1. ASSUME IInv, Next PROVE Stay
  <2>1. ASSUME NEW t \in Threads, Insert(t) PROVE Stay
    <3>1. cache[job[t].name] = None /\ cache' = [cache EXCEPT ![job[t].name] = Built(t)]
      BY <1>1, <2>1 DEF Insert, IInv, BuildsSound
    <3>2. QED
      BY <1>1, <3>1 DEF IInv, TypeOK
  <2>2. CASE UNCHANGED cache
    BY <2>2
  <2>3. QED
    BY <1>1, <2>1, <2>2
       DEF Next, Start, Replace, Enter, Build, ImportClass, ImportClassAsync, WrapDeclared, WrapOwn, Begin,
           AppendClasspath, SetClassLoader, Hit, Miss, LookUp, LookUpFail, Return
<1>2. IInv /\ [Next]_vars => [Stay]_vars
  BY <1>1
<1>3. QED
  BY <1>2, Invariance, PTL DEF Spec, EntriesStay

-----------------------------------------------------------------------------
(***************************************************************************)
(* Until setClassLoader is called, a name means one class.                 *)
(***************************************************************************)
\* The loader offers all that was ever offered, under each name one class, and that is
\* the class which the code of other classes means by it, if it means one.
OneMeaning ==
    ~replaced =>
        /\ \A n \in Names : known[n] \subseteq {loader[n]}
        /\ \A o \in Origins, n \in Names : sees[o][n] # None => sees[o][n] = loader[n]

\* An object that is wrapped by its declared type is of the class that a build will find.
WrapsKnown ==
    ~replaced =>
        \A t \in Threads :
            /\ steady[t]
            /\ pc[t] # "idle" /\ job[t].declared /\ job[t].object # None =>
                 job[t].had = job[t].object /\ loader[job[t].name] = job[t].object

LEMMA OneMeaningNext == IInv /\ OneMeaning /\ [Next]_vars => OneMeaning'
<1> SUFFICES ASSUME IInv, OneMeaning, [Next]_vars, ~replaced' PROVE OneMeaning'
  BY DEF OneMeaning
<1> USE DEF builds, loaders
<1> TypeOK
  BY DEF IInv
<1>1. CASE UNCHANGED loaders
  BY <1>1 DEF OneMeaning
<1>2. ASSUME NEW jar \in Jars, AppendClasspath(jar) PROVE OneMeaning'
  <2>1. ~replaced
    BY <1>2 DEF AppendClasspath
  <2>2. \A n \in Names : loader'[n] = IF loader[n] = None THEN jar[n] ELSE loader[n]
    BY <1>2 DEF AppendClasspath, LoadWith
  <2>3. ASSUME NEW n \in Names PROVE known'[n] \subseteq {loader'[n]}
    <3>1. known[n] \subseteq {loader[n]} /\ None \notin known[n]
      BY <2>1 DEF OneMeaning, TypeOK
    <3>2. known'[n] = known[n] \union ({loader'[n]} \ {None})
      BY <1>2 DEF AppendClasspath, LoadWith
    <3>3. QED
      BY <2>2, <3>1, <3>2
  <2>4. ASSUME NEW o \in Origins, NEW n \in Names, sees'[o][n] # None
        PROVE  sees'[o][n] = loader'[n]
    <3>1. sees'[o] = sees[o] \/ sees'[o] = loader'
      BY <1>2 DEF AppendClasspath, LoadWith
    <3>2. sees[o][n] # None => sees[o][n] = loader[n]
      BY <2>1 DEF OneMeaning
    <3>3. QED
      BY <2>2, <2>4, <3>1, <3>2
  <2>5. QED
    BY <2>3, <2>4 DEF OneMeaning
<1>3. ASSUME NEW view \in Custom, SetClassLoader(view) PROVE FALSE
  BY <1>3 DEF SetClassLoader
<1>4. ASSUME NEW t \in Threads, NEW n, NEW o, NEW d, Begin(t, n, o, d) PROVE UNCHANGED loaders
  BY <1>4 DEF Begin
<1>5. CASE Start
  BY <1>1, <1>4, <1>5 DEF Start, ImportClass, ImportClassAsync, WrapDeclared, WrapOwn, Threads
<1>6. QED
  BY <1>1, <1>2, <1>3, <1>5
     DEF Next, Replace, Enter, Build, Hit, Miss, LookUp, LookUpFail, Insert, Return, vars

LEMMA WrapsKnownNext == IInv /\ OneMeaning /\ WrapsKnown /\ [Next]_vars => WrapsKnown'
<1> SUFFICES ASSUME IInv, OneMeaning, WrapsKnown, [Next]_vars, ~replaced' PROVE WrapsKnown'
  BY DEF WrapsKnown
<1> USE DEF builds, loaders
<1> TypeOK
  BY DEF IInv
<1>1. ASSUME NEW t \in Threads, NEW n \in Names, NEW o \in Origins \union {None},
             NEW d \in BOOLEAN, Begin(t, n, o, d), d /\ o # None => loader[n] = o
      PROVE  WrapsKnown'
  BY <1>1 DEF Begin, WrapsKnown, TypeOK
<1>2. ASSUME NEW m \in Names, NEW n \in Names, NEW c \in Origins, NEW o \in Origins,
             WrapDeclared(m, c, n, o)
      PROVE  WrapsKnown'
  <2>1. ~replaced /\ loader[n] = o
    BY <1>2 DEF WrapDeclared, Begin, OneMeaning
  <2>2. QED
    BY <1>1, <1>2, <2>1 DEF WrapDeclared, Threads
<1>3. CASE Start
  BY <1>1, <1>2, <1>3 DEF Start, ImportClass, ImportClassAsync, WrapOwn, Threads
<1>4. ASSUME NEW jar \in Jars, AppendClasspath(jar) PROVE WrapsKnown'
  <2>1. \A n \in Names : loader[n] # None => loader'[n] = loader[n]
    BY <1>4 DEF AppendClasspath, LoadWith
  <2>2. UNCHANGED <<replaced, pc, job, steady>>
    BY <1>4 DEF AppendClasspath
  <2>3. \A t \in Threads : pc[t] # "idle" => job[t].name \in Names
    BY DEF TypeOK, Jobs
  <2>4. QED
    BY <2>1, <2>2, <2>3 DEF WrapsKnown
<1>5. ASSUME NEW view \in Custom, SetClassLoader(view) PROVE FALSE
  BY <1>5 DEF SetClassLoader
<1>6. ASSUME NEW t \in Threads, Hit(t) \/ Miss(t) \/ LookUp(t) \/ LookUpFail(t) \/ Insert(t)
      PROVE  WrapsKnown'
  <2>1. pc[t] # "idle" /\ UNCHANGED <<loaders, job, steady>>
    BY <1>6 DEF Hit, Miss, LookUp, LookUpFail, Insert
  <2>2. \A u \in Threads : u # t => pc'[u] = pc[u]
    BY <1>6 DEF Hit, Miss, LookUp, LookUpFail, Insert, Finish, TypeOK
  <2>3. QED
    BY <2>1, <2>2 DEF WrapsKnown
<1>7. ASSUME NEW t \in Threads, Return(t) PROVE WrapsKnown'
  BY <1>7 DEF Return, WrapsKnown, TypeOK
<1>8. CASE UNCHANGED vars
  BY <1>8 DEF vars, WrapsKnown
<1>9. QED
  BY <1>3, <1>4, <1>5, <1>6, <1>7, <1>8 DEF Next, Replace, Enter, Build

LEMMA MeaningInvariance == Spec => [](IInv /\ OneMeaning /\ WrapsKnown)
<1>1. Init => OneMeaning /\ WrapsKnown
  BY DEF Init, OneMeaning, WrapsKnown, Views
<1>2. QED
  BY <1>1, InvInit, InvNext, OneMeaningNext, WrapsKnownNext, PTL DEF Spec

\* A finished call that did not fail has a proxy of what the name means now.
LEMMA ResultIsOfName ==
    ASSUME IInv, OneMeaning, ~replaced, NEW t \in Threads, pc[t] = "done", result[t] # Failed
    PROVE  result[t].origins = {loader[job[t].name]}
<1> DEFINE n == job[t].name
<1>1. n \in Names /\ result[t] \in Proxies /\ result[t] = cache[n]
  BY DEF IInv, TypeOK, Jobs, ImportsShare
<1>2. cache[n] # None
  BY <1>1
<1>3. cache[n].origins # {} /\ cache[n].origins \subseteq known[n]
  BY <1>1, <1>2 DEF IInv, WholeProxies
<1>4. known[n] \subseteq {loader[n]}
  BY <1>1 DEF OneMeaning
<1>5. QED
  BY <1>1, <1>3, <1>4

\* Until setClassLoader is called, a returned object is wrapped whenever its declared
\* type can be imported, in a proxy with the members of the class that the method which
\* returned it means by that type; or of its own class, if it was declared as Object
\* and its class is one of the program's loader.
THEOREM ObjectsAreWrapped == Spec => []WrapsItsClass
<1>1. IInv /\ OneMeaning /\ WrapsKnown => WrapsItsClass
  <2> SUFFICES ASSUME IInv, OneMeaning, WrapsKnown, ~replaced, NEW t \in Threads,
                      pc[t] = "done", job[t].object # None
               PROVE  /\ job[t].declared /\ <<job[t].name, job[t].object>> \notin Unlinked
                            => result[t] # Failed
                      /\ result[t] # Failed /\ (job[t].declared \/ job[t].object \in known[job[t].name])
                            => result[t].origins = {job[t].object}
    BY DEF WrapsItsClass
  <2>1. job[t].name \in Names /\ steady[t]
    BY DEF IInv, TypeOK, Jobs, WrapsKnown
  <2>2. job[t].declared =>
          job[t].had = job[t].object /\ loader[job[t].name] = job[t].object
    BY DEF WrapsKnown
  <2>3. job[t].object \in known[job[t].name] => loader[job[t].name] = job[t].object
    BY <2>1 DEF OneMeaning
  <2>4. ASSUME job[t].declared, <<job[t].name, job[t].object>> \notin Unlinked
        PROVE  result[t] # Failed
    BY <2>1, <2>2, <2>4 DEF IInv, ImportFindsClass
  <2>5. QED
    BY <2>2, <2>3, <2>4, ResultIsOfName
<1>2. QED
  BY <1>1, MeaningInvariance, PTL
=============================================================================
