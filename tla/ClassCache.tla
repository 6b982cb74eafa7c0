----------------------------- MODULE ClassCache -----------------------------
(***************************************************************************)
(* Import of classes: get_class_proxy and its cache in node/java.rs,       *)
(* JavaClassProxy::new in node/java_class_proxy.rs, and the class loader   *)
(* that appendClasspath and setClassLoader replace.                        *)
(*                                                                         *)
(* A proxy describes one class, but building it looks the class up by name *)
(* many times: for the class itself, for each list of members, for each    *)
(* method id.  The cache is keyed by the name alone and locked during the  *)
(* whole build.  Imports run on the JS thread and on tokio workers, the    *)
(* loader is replaced by the JS thread.  A returned object is wrapped in   *)
(* the proxy of a name as well: that of its declared type, or that of its  *)
(* own class if it is declared as java.lang.Object.                        *)
(***************************************************************************)
EXTENDS Naturals

CONSTANTS
    Js,             \* the JS thread
    Tasks,          \* importClassAsync calls on the tokio workers
    Names,          \* names of classes
    Origins,        \* class loaders that define classes
    Boot,           \* what each name means to the first loader
    Jars,           \* what each name means in a jar or directory
    Custom,         \* what each name means to a loader the program makes
    Unlinked,       \* the classes <<name, loader>> whose members cannot be listed,
                    \* because they mention a class that is missing
    Lookups,        \* how often a build looks the class up
    None,
    Failed          \* the result of a call that returned an error

Threads == {Js} \union Tasks

\* Two classes are the same if they have the same name and defining loader.
Views == [Names -> Origins \union {None}]

(***************************************************************************)
(* A proxy: who built it, the classes its parts are of, and whether the    *)
(* loader stayed the same meanwhile.                                       *)
(***************************************************************************)
Proxies == [by : Threads, origins : SUBSET Origins, steady : BOOLEAN]

ASSUME ThreadsAssumption == Js \notin Tasks /\ None \notin Threads
ASSUME ViewsAssumption   == Boot \in Views /\ Jars \subseteq Views /\ Custom \subseteq Views
ASSUME OriginsAssumption == None \notin Origins
ASSUME FailedAssumption  == Failed # None /\ {None, Failed} \intersect Proxies = {}
ASSUME UnlinkedAssumption == Unlinked \subseteq Names \X Origins
ASSUME LookupsAssumption == Lookups \in Nat \ {0, 1}

VARIABLES
    loader,     \* what each name means to the current class loader
    known,      \* name -> the classes of that name a loader has offered so far
    sees,       \* loader -> what each name means to the code of its classes
    replaced,   \* setClassLoader was called
    cache,      \* CACHED_CLASSES: name -> its proxy, None when not cached
    lock,       \* the holder of the mutex of CACHED_CLASSES, or None
    pc,         \* thread -> how far its call of get_class_proxy is
    job,        \* thread -> that call
    found,      \* thread -> the classes its build has met
    looked,     \* thread -> the lookups its build has done
    steady,     \* thread -> no setClassLoader since its call began
    result      \* thread -> what get_class_proxy returned

loaders == <<loader, known, sees, replaced>>
builds  == <<found, looked>>
vars    == <<loaders, cache, lock, pc, job, builds, steady, result>>

\* A call: the class named, what the name meant when the call began, and for
\* the wrapping of a returned object the class of that name it is an instance of,
\* and whether that is the type it was declared with.
Jobs == [name : Names, had : Origins \union {None},
         object : Origins \union {None}, declared : BOOLEAN]

TypeOK ==
    /\ loader \in Views
    /\ known \in [Names -> SUBSET Origins]
    /\ sees \in [Origins -> Views]
    /\ replaced \in BOOLEAN
    /\ cache \in [Names -> Proxies \union {None}]
    /\ lock \in Threads \union {None}
    /\ pc \in [Threads -> {"idle", "entering", "building", "done"}]
    /\ job \in [Threads -> Jobs \union {None}]
    /\ \A t \in Threads : pc[t] # "idle" => job[t] \in Jobs
    /\ found \in [Threads -> SUBSET Origins]
    /\ looked \in [Threads -> 0 .. Lookups]
    /\ steady \in [Threads -> BOOLEAN]
    /\ result \in [Threads -> Proxies \union {None, Failed}]

Init ==
    /\ loader = Boot
    /\ known = [n \in Names |-> {Boot[n]} \ {None}]
    /\ sees = [o \in Origins |-> Boot]
    /\ replaced = FALSE
    /\ cache = [n \in Names |-> None]
    /\ lock = None
    /\ pc = [t \in Threads |-> "idle"]
    /\ job = [t \in Threads |-> None]
    /\ found = [t \in Threads |-> {}]
    /\ looked = [t \in Threads |-> 0]
    /\ steady = [t \in Threads |-> TRUE]
    /\ result = [t \in Threads |-> None]

-----------------------------------------------------------------------------
(***************************************************************************)
(* The calls.  All begin on the JS thread while it is idle.                *)
(***************************************************************************)
Begin(t, n, o, declared) ==
    /\ pc[Js] = "idle"
    /\ pc[t] = "idle"
    /\ pc' = [pc EXCEPT ![t] = "entering"]
    /\ job' = [job EXCEPT ![t] =
                 [name |-> n, had |-> loader[n], object |-> o, declared |-> declared]]
    /\ UNCHANGED <<loaders, cache, lock, builds, steady, result>>

ImportClass(n) == Begin(Js, n, None, FALSE)

\* A task spawned by importClassAsync; it waits for a worker before "entering".
ImportClassAsync(t, n) == t # Js /\ Begin(t, n, None, FALSE)

\* A member of the class <<m, c>> returned an object.  Its declared type is n, which
\* to the code of that class means the class <<n, o>>.
WrapDeclared(m, c, n, o) ==
    /\ cache[m] # None
    /\ c \in cache[m].origins
    /\ o = sees[c][n]
    /\ o # None
    /\ Begin(Js, n, o, TRUE)

\* An object declared as java.lang.Object is wrapped by the name of its own class,
\* which may be from a loader that was never the one of the program.
WrapOwn(n, o) == Begin(Js, n, o, FALSE)

\* The program's loader is now one with this view.  The code of classes it is
\* the first to offer sees what it offers.
LoadWith(view) ==
    /\ loader' = view
    /\ known' = [n \in Names |-> known[n] \union ({view[n]} \ {None})]
    /\ sees' = [o \in Origins |->
                  IF \E n \in Names : view[n] = o /\ \A m \in Names : o \notin known[m]
                  THEN view ELSE sees[o]]

\* Mutant: the new loader does not delegate to the old one.
AppendClasspath_NoParent(jar) ==
    /\ pc[Js] = "idle"
    /\ LoadWith(jar)
    /\ UNCHANGED <<replaced, cache, lock, pc, job, builds, steady, result>>

\* Mutant: it asks the old one last.
AppendClasspath_JarFirst(jar) ==
    /\ pc[Js] = "idle"
    /\ LoadWith([n \in Names |-> IF jar[n] = None THEN loader[n] ELSE jar[n]])
    /\ UNCHANGED <<replaced, cache, lock, pc, job, builds, steady, result>>

\* appendClasspath: a new loader that asks the old one first.
AppendClasspath(jar) ==
    /\ pc[Js] = "idle"
    /\ LoadWith([n \in Names |-> IF loader[n] = None THEN jar[n] ELSE loader[n]])
    /\ UNCHANGED <<replaced, cache, lock, pc, job, builds, steady, result>>

\* setClassLoader: any loader, whose view may differ on known names.
SetClassLoader(view) ==
    /\ pc[Js] = "idle"
    /\ LoadWith(view)
    /\ replaced' = TRUE
    /\ steady' = [t \in Threads |-> pc[t] = "idle"]
    /\ UNCHANGED <<cache, lock, pc, job, builds, result>>

-----------------------------------------------------------------------------
(***************************************************************************)
(* get_class_proxy                                                         *)
(***************************************************************************)
Finish(t, r) ==
    /\ pc' = [pc EXCEPT ![t] = "done"]
    /\ result' = [result EXCEPT ![t] = r]
    /\ found' = [found EXCEPT ![t] = {}]
    /\ looked' = [looked EXCEPT ![t] = 0]
    /\ lock' = None

Hit(t) ==
    /\ pc[t] = "entering"
    /\ lock = None
    /\ cache[job[t].name] # None
    /\ Finish(t, cache[job[t].name])
    /\ UNCHANGED <<loaders, cache, job, steady>>

\* Mutant: the lock is given up for the time of the build.
Miss_Unlocked(t) ==
    /\ pc[t] = "entering"
    /\ lock = None
    /\ cache[job[t].name] = None
    /\ pc' = [pc EXCEPT ![t] = "building"]
    /\ UNCHANGED <<loaders, cache, lock, job, builds, steady, result>>

Miss(t) ==
    /\ pc[t] = "entering"
    /\ lock = None
    /\ cache[job[t].name] = None
    /\ lock' = t
    /\ pc' = [pc EXCEPT ![t] = "building"]
    /\ UNCHANGED <<loaders, cache, job, builds, steady, result>>

\* Whether the next lookup of a build succeeds: the loader has the class, and lists
\* its members, which is what all but the first lookup are for.
Succeeds(t) ==
    LET n == job[t].name IN
    /\ loader[n] # None
    /\ looked[t] = 0 \/ <<n, loader[n]>> \notin Unlinked

\* Mutant: one lookup too many.
LookUp_Beyond(t) ==
    /\ pc[t] = "building"
    /\ looked[t] <= Lookups
    /\ Succeeds(t)
    /\ found' = [found EXCEPT ![t] = @ \union {loader[job[t].name]}]
    /\ looked' = [looked EXCEPT ![t] = @ + 1]
    /\ UNCHANGED <<loaders, cache, lock, pc, job, steady, result>>

\* One of the lookups by name in JavaClassProxy::new.
LookUp(t) ==
    /\ pc[t] = "building"
    /\ looked[t] < Lookups
    /\ Succeeds(t)
    /\ found' = [found EXCEPT ![t] = @ \union {loader[job[t].name]}]
    /\ looked' = [looked EXCEPT ![t] = @ + 1]
    /\ UNCHANGED <<loaders, cache, lock, pc, job, steady, result>>

\* Mutant: a class that is not found is looked for again.
LookUpFail_Retries(t) ==
    /\ pc[t] = "building"
    /\ looked[t] < Lookups
    /\ ~Succeeds(t)
    /\ looked' = [looked EXCEPT ![t] = 0]
    /\ UNCHANGED <<loaders, cache, lock, pc, job, found, steady, result>>

LookUpFail(t) ==
    /\ pc[t] = "building"
    /\ looked[t] < Lookups
    /\ ~Succeeds(t)
    /\ Finish(t, Failed)
    /\ UNCHANGED <<loaders, cache, job, steady>>

Built(t) == [by |-> t, origins |-> found[t], steady |-> steady[t]]

\* Mutant: the proxy is published while its lookups are still to come.
Insert_Early(t) ==
    /\ pc[t] = "building"
    /\ cache' = [cache EXCEPT ![job[t].name] = Built(t)]
    /\ Finish(t, Built(t))
    /\ UNCHANGED <<loaders, job, steady>>

\* Mutant: the proxy built is not kept.
Insert_Forgets(t) ==
    /\ pc[t] = "building"
    /\ looked[t] = Lookups
    /\ Finish(t, Built(t))
    /\ UNCHANGED <<loaders, cache, job, steady>>

Insert(t) ==
    /\ pc[t] = "building"
    /\ looked[t] = Lookups
    /\ cache' = [cache EXCEPT ![job[t].name] = Built(t)]
    /\ Finish(t, Built(t))
    /\ UNCHANGED <<loaders, job, steady>>

\* The class object is made and a promise settled on the JS thread.
Return(t) ==
    /\ pc[t] = "done"
    /\ t = Js \/ pc[Js] = "idle"
    /\ pc' = [pc EXCEPT ![t] = "idle"]
    /\ job' = [job EXCEPT ![t] = None]
    /\ result' = [result EXCEPT ![t] = None]
    /\ steady' = [steady EXCEPT ![t] = TRUE]
    /\ UNCHANGED <<loaders, cache, lock, builds>>

-----------------------------------------------------------------------------
Start ==
    \/ \E n \in Names : ImportClass(n)
    \/ \E t \in Tasks, n \in Names : ImportClassAsync(t, n)
    \/ \E m, n \in Names, c, o \in Origins : WrapDeclared(m, c, n, o)
    \/ \E n \in Names, o \in Origins : WrapOwn(n, o)

Replace ==
    \/ \E jar \in Jars : AppendClasspath(jar)
    \/ \E view \in Custom : SetClassLoader(view)

Enter(t) == Hit(t) \/ Miss(t)
Build(t) == LookUp(t) \/ LookUpFail(t) \/ Insert(t)

Next == Start \/ Replace \/ \E t \in Threads : Enter(t) \/ Build(t) \/ Return(t)

\* Threads go on; a waiter gets a mutex that is free again and again, and the
\* event loop settles the promises of finished tasks.
Fairness == \A t \in Threads : SF_vars(Enter(t)) /\ WF_vars(Build(t)) /\ SF_vars(Return(t))

Spec     == Init /\ [][Next]_vars
LiveSpec == Spec /\ Fairness

-----------------------------------------------------------------------------
(***************************************************************************)
(* What a correct cache guarantees.                                        *)
(***************************************************************************)
\* Whoever imports a name gets a proxy, the one in the cache, also when two
\* imports of it run at once; get_class_proxy holds the lock for that.
ImportsShare ==
    \A t \in Threads :
        pc[t] = "done" /\ result[t] # Failed
            => result[t] \in Proxies /\ result[t] = cache[job[t].name]

\* An entry is never replaced or dropped, so classes imported at different
\* times are the same JavaClassProxy.
EntriesStay == [][\A n \in Names : cache[n] # None => cache'[n] = cache[n]]_vars

\* All the parts of a cached proxy were looked up, under its own name, and they
\* are of one class unless setClassLoader was called during a build on a worker.
WholeProxies ==
    \A n \in Names : cache[n] # None =>
        /\ cache[n].origins # {}
        /\ cache[n].origins \subseteq known[n]
        /\ cache[n].steady => \E o \in Origins : cache[n].origins = {o}

\* A class that could be found when its import began, and all of whose members can
\* be listed, is imported: failures are not cached, wherever in a build they happen,
\* and appendClasspath takes no class away.
ImportFindsClass ==
    \A t \in Threads :
        (/\ pc[t] = "done" /\ steady[t]
         /\ job[t].had # None /\ <<job[t].name, job[t].had>> \notin Unlinked)
            => result[t] # Failed

\* A returned object can be wrapped if its declared type can be imported, and gets
\* the members of that very class, as the class of the method it came from means it;
\* one declared as java.lang.Object gets those of its own class, if that is one of
\* the program's loader.  The lookup goes by name and by the loader of the moment,
\* so this holds until setClassLoader is called for the first time.
WrapsItsClass ==
    \A t \in Threads :
        LET j == job[t] IN
        ~replaced /\ pc[t] = "done" /\ j.object # None =>
            /\ j.declared /\ <<j.name, j.object>> \notin Unlinked => result[t] # Failed
            /\ result[t] # Failed /\ (j.declared \/ j.object \in known[j.name])
                  => result[t].origins = {j.object}

\* Every import ends and every promise is settled, under contention and after
\* failed imports.
ImportsEnd == \A t \in Threads : pc[t] # "idle" ~> pc[t] = "idle"

\* node/java.rs:107 "Will import the class and parse all of its methods and
\* fields": the members of a proxy are those of its class.
MembersOfClass ==
    \A n \in Names : cache[n] # None => \E o \in Origins : cache[n].origins = {o}
=============================================================================
