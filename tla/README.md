# A formal model of java-bridge

java-bridge lets a node program use classes of a JVM that runs in the same
process. This directory models the parts of it in which the order of events
matters, checks the models with TLC and proves properties of them with TLAPS.
Paths below are relative to the repository.

## The system

The program has one JS thread (the node event loop), any number of Java threads,
and a pool of tokio workers for asynchronous calls. Everything is in one process;
nothing is persisted, so there is no crash recovery. What the threads share:

| Component | State | Operations | What is hard | What makes it correct |
|---|---|---|---|---|
| Interface proxies (`src/node/java_interface_proxy.rs`, `JavaFunctionCaller.java`, `newProxy` in `ts-src/java.ts`) | global map `PROXIES` id -> method table, a lock per table, `valid` flag in Java, TSFN queues, oneshot channels | `newProxy`, `reset`, drop, `invoke` from any thread, the callback | two nested locks, non-volatile flag, ids instead of references, answers that never come | no deadlock; calls after `reset` fail; a call reaches its own method; every caller is answered |
| Stdout redirection (`src/node/stdout_redirect.rs`, `StdoutRedirect.java`) | owner, two handler cells, `System.out`/`err`, Java objects with the saved streams | `enableRedirect`, `on`, `reset`, drop, `writeLine` | several steps while Java threads print, failing steps, overlapping guards | streams are put back; no line lost; only the owner's handlers installed |
| Class import and cache (`src/node/java.rs`, `java_class_proxy.rs`) | `CACHED_CLASSES` by name, class loader of the JVM | `importClass`, `importClassAsync`, `setClassLoader`, `appendClasspath` | import on a worker, looked up once per part, stale entries | a proxy is of one class; failures are not cached |
| Asynchronous calls (`src/node/java_class_instance.rs`) | tokio pool, promises | sync and async calls of methods and constructors | bounded workers, calls that call back | arguments as they were when the call was made; every promise settles unless calls wait in or for a circle, or for a lost answer |
| Overload resolution (`class_ext.rs`, `find_matching_*`) | none | choice of the method for given arguments | two passes, a check that looks at first elements only | the specific overload first; the one chosen takes the arguments that are then converted |
| Value conversion (`java_type_ext.rs`, `java_call_result_ext.rs`) | none | JS -> Java, Java -> JS | widths, overflow, nulls, arrays | values a type has arrive; values come back as they were |
| Class objects, instances and members (`java_class_instance.rs`, `src/java/*.rs`, `java_class_field.rs`, `property_with_data.rs`) | properties of the JS object, fields | attaching members, calls, reading and writing fields | names that clash, final fields | every member is found under its name |
| Definition generator (`ts-src/Typescript*DefinitionGenerator.ts`) | `resolvedImports`, `declarations` | `generate`, `save` | cycles, failing imports, overlapping calls | each class once, dependencies first, imports are declared |
| JVM life cycle and class path (`java.rs`, `util.rs`, `ts-src/java.ts`) | the one JVM, `loaded_jars` | `ensureJvm`, `appendClasspath` | partial failure | not modelled |

Interactions: Java calls JS through a TSFN queue and waits on a channel; JS calls
Java directly (then the JS thread is inside the JVM) or on a worker; all JNI work
goes through the external crate java-rs, which is modelled only as "may fail".

The last section says what is not modelled.

## Modules

### InterfaceProxy

One module for the Rust, Java and TypeScript sides of a proxy, because the
properties are about the way a call takes through all three.

| In the model | In the code |
|---|---|
| `registry`, `registryLock` | `PROXIES` and its mutex (`java_interface_proxy.rs:32`) |
| `methods`, `methodsLock` | the `MethodsType` of a proxy and its mutex |
| `id` | the `id` of the struct, which is `ptr` in `JavaFunctionCaller` |
| `valid` | `JavaFunctionCaller.valid` |
| `state` | absent, live while `function_caller_instance` is set, destroyed |
| `queue` | the queue inside each thread safe function |
| `slot` | the oneshot channel of a call |
| `handling` | the call whose method is on the JS stack |
| `parked` | calls whose `callback` nobody will call; it waits for the collector |
| `pc`, `call`, `subject` | where each thread is, in which call, with which proxy |

`NewCall/NewLock/NewFinish/NewFail` are `JavaInterfaceProxy::new`; `ResetCall`,
`ResetAgain`, `ResetLock`, `ResetFail`, `ResetDestruct`, `ResetFinish` are `reset`
(`Drop` calls the same function; after a drop that failed nobody calls it again,
which the model covers because resets are never obliged to happen). `Invoke`,
`LookupHit/Miss`, `MethodHit/Miss`, `Enqueue/EnqueueFail`, `Receive` are the calling
thread, `Dispatch/DispatchFail`, `Answer`, `ThrowUnprintable` the event loop and
`Collect` the garbage collector.

`ThrowUnprintable` contradicts a comment: "Any errors thrown in the javascript process
will be rethrown in the java process" (`ts-src/java.ts:635`), but after `throw null` the
wrapper's own `e.toString()` throws (671), `callback` is never called, and the Java
caller waits until the callback is collected. `CallsEnd` names this situation.

Steps are cut where another thread can observe or block: taking each lock, the
write of `valid`, queueing, the channel. What happens under one lock without a
further wait is one step.

Outside the repository, and modelled as the code relies on them: a TSFN delivers
its items in order and also after it was released; a dropped sender cancels the
receiver; `Mutex` is not fair and not reentrant. A JS exception that leaves a TSFN
callback becomes an uncaught exception; the model follows the program that goes on
(a handler for `uncaughtException`), the other ends with it.

The race on `valid` is undefined in the sense of the Java memory model: a thread
other than JS may always read the old TRUE (`Invoke` allows it).

Constants: `ReuseIds` says whether a random id may come up again after its proxy was
destroyed (an id is drawn from 2^64, so it practically does not), `SyncCalls`
whether the program calls a proxied method through a synchronous call, which the
documentation of `newProxy` tells it not to.

`WaitsFor` says whom a thread waits for, the holder of a mutex or the JS thread that
is to run its call; `NoOtherDeadlock` says which sets of threads can wait for each
other: those of `LockCycle` and `JsBlocked`, and all of them contain the JS thread. It
is what remains of `CallsEnd` and `JsCallsReturn` without fairness, and says what they
cannot: that nothing else is stuck behind the exceptions they allow.

### ProxyContract

What a Java program may rely on, with neither locks nor ids nor channels: a call is
accepted only while its proxy lives, accepted calls of a method run in order and one
at a time, each ends once, and destroying a proxy leaves accepted calls alone.
`InterfaceProxy` instantiates it as `Contract` with a refinement mapping that reads
a caller's status off its program counter, its channel and `parked`.

### InterfaceProxy_proofs

The theorems; see below.

### StdoutRedirect

| In the model | In the code |
|---|---|
| `owner` | `STDOUT_OWNER.current_owner`; the guard stands for its number |
| `cb` | `STDOUT_CALLBACK`, `STDERR_CALLBACK`, as the guard that filled the cell |
| `sys` | `System.out`, `System.err`: the console or a guard's `CallbackOutputStream` |
| `saved` | `origStdout`, `origStderr` of the guard's current Java object |
| `job` | the operation of the JS thread and how far it is |
| `line` | a thread between reading `System.out` and the end of its line |

`EnableRedirect`, `On`, `Reset` and `Drop` begin an operation, `ClearCallbacks`,
`JavaReset`, `Install`, `Construct` are the steps all of them are made of. `Install`
to `Construct` holds the mutexes of both cells, so `writeLine` waits there.
`STDOUT_OWNER` is only ever taken by the JS thread and needs no variable. Operations
that return an error at once (not the owner, unknown event) change nothing.

The model excludes no use. The variable `lapses` records the four things after which
something no longer holds: a guard created while another is live (`overlap`), `on`
while the other stream has a handler (`onOther`), a reset or a construction of a Java
object that failed (`javaReset`, `construct`). It guards no action; each property
names the lapses it survives. Two of the limits are facts about the code that the
documentation does not mention:

- `overlap`: creating a second guard does not reset the Java object of the first
  (`java_class` is `None`, `stdout_redirect.rs:126`), so the second object saves the
  stream of the first as the original one. The first guard may no longer reset
  (194-199), and after the second is reset `System.out` stays on a stream without a
  handler. Admit `overlap` in `RedirectionStops` and TLC shows it in twelve steps.
- `onOther`: `redirect_on` below.

Lines are atomic: the buffer of a `CallbackOutputStream` and the TSFN behind a
handler are left out.

### StdoutRedirect_proofs

The theorems about it; see below.

### ClassCache

| In the model | In the code |
|---|---|
| `cache`, `lock` | `CACHED_CLASSES` and its mutex (`java.rs:24`) |
| `loader` | the class loader java-rs keeps, as the class each name means to it |
| `known` | the classes of each name that a loader of the program has offered so far |
| `sees` | what each name means to the code of the classes of a loader: what it meant to the loader that first offered them |
| `pc`, `job`, `result` | a call of `get_class_proxy` by the JS thread or by a task on a worker |
| `found`, `looked` | the half built `JavaClassProxy`: the classes its lookups met |
| `steady`, `replaced` | no `setClassLoader` during the call; one at any time (both only observe) |

`ImportClass`, `ImportClassAsync`, `WrapDeclared` and `WrapOwn` begin a call; `Hit`, `Miss`,
`LookUp`, `LookUpFail`, `Insert` are `get_class_proxy` with `JavaClassProxy::new`;
`Return` makes the JS class and, for a task, settles the promise on the event loop.
`AppendClasspath` and `SetClassLoader` replace the loader. Both run on the JS thread
and need no lock, so they fall between the lookups of a build on a worker.

A class is its name and the loader that defined it. `JavaClassProxy::new` looks it up
once itself and, in each of the five lists of members, once for the list and once for
every method or field id: `Lookups` times in all, depending on the members. A lookup
fails if the loader has no such class. A class that mentions a missing one (`Unlinked`)
is found by the first lookup, and the build fails half way, when members are to be
listed. The loader appended to the class path asks the
previous one first, as `ts-src/java.ts:120-126` describes; a loader of the program
(`Custom`) may mean anything by a name. `setClassLoader` leaves the cache as it is, so a
name imported before goes on meaning the old class, although
`ts-src/java.ts:136-138` says one imports from the new loader with `importClass`;
hence the condition in `WrapsItsClass`.

A returned object is wrapped in the proxy of its declared type, or, if that is
`java.lang.Object`, in that of the name of its own class
(`java_call_result_ext.rs:106-114`, `171-175`). The declared type (`WrapDeclared`) is a
name in the signature of a member, and means what it means to the code of the
member's class; the lookup asks the program's loader of the moment. The own class
(`WrapOwn`) may be of any loader, also one that was never the program's: then the proxy
is of another class or there is none, and `WrapsItsClass` promises nothing.

### ClassCache_proofs

The theorems about it; see below.

### AsyncCalls

| In the model | In the code |
|---|---|
| `status` | new, queued (the future is spawned), running on a worker or on the event loop, waiting for another call, calling (a proxy's method is queued), unanswered (the proxy's wrapper threw before it called back), returned, settled, refused |
| `loop`, `sync` | the synchronous call the event loop is inside; the calls that were made that way |
| `Workers`, `OnWorkers` | the threads of napi's tokio runtime and the calls that occupy them: `future::lazy` (`java_class_instance.rs:225`, `264`, `310`) blocks its worker until Java returns |
| `data`, `arg`, `sees` | a JS value the program may change, what was converted of it for a call, and what the method gets |

`CallSync`, `CallAsync`, `Refuse` are the part of a call on the event loop before Java
is entered, `Start` and `Return` the worker's part, `Settle` the resolver, for
`call_method(_async)`, `call_static_method(_async)`, `constructor` and `new_instance`
alike. `Await`, `Resume` and `CallProxy` are what methods do that the pool and the loop
depend on: they wait for each other and call proxies. A proxy call takes a turn of the
event loop. In `Handle` the wrapper of `newProxy` runs the JS method and answers in the
same turn (`ts-src/java.ts:664-672`): it does not await what the method returns, and a
promise is an error at once, as it has no Java value. In `LeaveUnanswered` the wrapper
throws before it calls back, at 661 for an argument that had no JS value or at 671
for something thrown that has no `toString`; the caller goes on when the callback is
collected (`Collect`), if it is. What happens inside such a call, locks and
channels, is InterfaceProxy's subject.

`HeldUp` says what a call in each status cannot go on without. `Doomed` says that it is in
or behind a circle of calls that wait for each other, for workers or for the event
loop; `Stopped`, that it is in or behind such a circle or a call that was left
unanswered, which keeps its worker, or the event loop, like one that waits.
`NothingElseStops`: when everything has come to a halt, every call is stopped in that
sense. `CirclesStay` is about circles only, since a collected callback frees its caller.

### CallContract

What the program may rely on, without workers: a call works on its arguments as they
were when it was made, runs once, ends once, and never while the program is inside a
synchronous call. AsyncCalls implements it; `executing` covers everything between the
start of the method and the promise.

### AsyncCalls_proofs

The theorems about it, the refinement included; see below.

### Conversion

`js_equals` (`Matches`), `convert_to_java_value` (`ToJava`) and `to_napi_value`
(`Returned`) as operators on pairs of a kind and its contents, for every Java type but
nested arrays. Integers wrap, saturate or are truncated as the code has them do;
floating point numbers are counted in halves and rounded to a number of significant
bits. One operator per branch of the Rust `match` would be a second copy of it; the
branches that differ only in the JNI function they call are one case.

`Size` is how many values each integral type has, `FloatSize` and `DoubleSize` how many
significands, `Powers` the powers of two that rounding may choose from. The
assumptions ask no more of them than holds of Java's: sizes are even and do not shrink
from byte to long (`SizesAssumption`), every magnitude up to that of a long can be
rounded to a double (`PowersAssumption`), and boxes and `String` are final
(`ClassesAssumption`). `JavaScalars` and `JsValues` are all values considered,
without bounds; TLC only asks whether something is one of them.

A `JsStringUtf16` that is taken as a slice includes the zero behind the string in
napi 2 (`Slice`). The conversion to `char` asks for a slice of length one, so it never
gets one from a string; that of the elements of a `char[]` allows for the zero.

### Conversion_proofs

What the conversions do for every type and every value; see below.

### JavaCalls

| In the model | In the code |
|---|---|
| `class` | the `JavaClassProxy`: methods with their signatures in the order of reflection, fields |
| `table`, `todo` | the properties of the JS object, and the methods that are not attached yet |
| `overloads`, `field`, `args` | the member that is used and the JS values passed |
| `chosen`, `java` | the signature taken and the arguments converted to it |
| `content` | what the Java field contains |
| `origin` | the Java value that the argument is, if it was returned by Java before |

`AttachMethod`, `AttachFields`, `AttachInstanceOf` are `add_class_methods`; methods come
in any order since they are kept in a `HashMap`. `FindMatching` and
`FindMatchingObjects` are the two passes of `find_matching_method` (and
`find_matching_constructor`), `ConvertArguments` is `call_context_to_java_args`,
`Invoke` and `InvokeFails` are `ClassMethod::call`, `SetField`, `SetFinalField` and
`GetField` the accessors. Methods return their argument, so that one type is both
converted to and from.

| Property | Says |
|---|---|
| `MembersFound` | every member is found under its names, unless two names clash |
| `SpecificFirst` | an overload that takes the arguments as they are is preferred to one that takes them as objects |
| `AcceptedConverts` | after an overload was chosen, a call fails before Java for the reasons in `Unconvertible` only |
| `ArgumentsArrive` | values that the type of the parameter has arrive as they were passed, but for those in `Corrupted` |
| `ResultsArrive` | so do values Java returns, but for longs of a `long[]` that no number has and nulls among `Byte`s; every long is a BigInt, but for those of a `long[]` |
| `ComesBack` | a returned value that is passed on as it is comes back, for the types in `Stable` |
| `ValuesAsDocumented` | two rules of `src/README.md`: a string of one character becomes a `char` (266-267), a long always a BigInt (277, 280); violated, each of them |

The operators that state them (`Same`, `Exact`, `Corrupted`, `Returnable`,
`LongsAreBigInts`, `Stable`) compare values and types only and use none of the
conversions from JS or back. Their exceptions are facts about the code:

- a string is accepted for `char` and then rejected by the conversion (see `Slice`;
  `java_type_ext.rs:209`, `378`), although `src/README.md:266-267` says that a string of
  one character is the way to pass a `char`;
- a number passed as an `Object` becomes an `Integer` if it is whole and a BigInt a
  `Long`, of whatever size it is (`java_type_ext.rs:247-262`): whole numbers beyond int
  and BigInts beyond long reach Java as other numbers, without an error, although
  `Object` has them as a `Long`, `Double` or `BigInteger` (`Spoilt`);
- no number is accepted for `short`, only an object is for `java.lang.Number`;
- only the first element of an array is looked at; `null` in an `Integer[]` or a
  `String[]` becomes 0 or "null" (`Corrupted`);
- the elements of a `long[]` are returned as numbers, which are rounded beyond 2^53
  (`java_call_result_ext.rs:206-211`), although `src/README.md:277` and `280` say that a
  `long` is always a BigInt, in arrays as well;
- which of several overloads that accept is taken is up to reflection: `f(int)` may
  get 1.5 truncated although `f(double)` is there;
- a value assigned to a field is converted without asking whether it matches;
- if a class has a field `instanceOf` that is not final, the setter of the field gets
  the function `instanceOf` when an object is wrapped (`java_class_instance.rs:163`):
  the field is overwritten, or the object cannot be wrapped.

### JavaCalls_proofs

The theorems about members, overloads and values, on top of Conversion_proofs; see
below.

### DefinitionGenerator

| In the model | In the code |
|---|---|
| `resolvedImports` | the list all generators of a bulk generator share |
| `classnames`, `stack` | a call of `generate`: what is left of its list, and the generators it awaits, innermost last |
| `blocks`, `follow`, `res` of a generator | the members it has not converted, `additionalImports`, the declarations it has |
| `declarations`, `numResolved` | what the bulk generator has collected, and how much of it each call has |
| `written`, `saving`, `files` | how far `save` is |

`Generate` begins a call, `Skip`, `Enter` and `ImportFails` are
`TypescriptDefinitionGenerator.generate` up to the import, `Convert` the methods,
constructors and fields of a class, one block of names between two awaits, `Finish`
its end and `Resolve` the end of the call. `Save` and `WriteFile` are `save`, which
reads the list as it grows; `WriteFails` is a directory that cannot be made or a file
that cannot be written: what is written stays, and the program may save again. Calls
of `generate` on one bulk generator may overlap, since the only lock is the program's
`await`. The variable `lapses` only observes: `failed`, `overlapping` and `early` (a
save while a call was running).

The text of a definition is abstracted to the classes it mentions. Two facts
about the code that the properties have to allow for: a call that fails loses what it
has found, but leaves it marked, so a later call passes over it and generates
dependents without it (`TypescriptBulkDefinitionGenerator.ts:10-11` promises
definitions of the classes and their dependencies); and overlapping calls may
declare a class before what it depends on, though both end up in the list.

### DefinitionGenerator_proofs

The theorems about it; see below.

## Runs

| Run | Question | Result |
|---|---|---|
| `proxy_safety` | late calls fail, calls reach their own method, InterfaceProxy implements ProxyContract; ids do not repeat | holds |
| `proxy_reuse` | locks, registry and whereabouts of calls when ids repeat; the known deadlocks are the only ones; reaches the "no method with this name" error | holds |
| `proxy_liveness` | calls, `newProxy` and `reset` end, except in named blocking situations | holds |
| `proxy_reset_returns` | "Call reset to instantly destroy this instance" | violated: lock cycle |
| `redirect` | streams restored, no clean line lost, only the owner's handlers installed, each up to the lapses it names | holds |
| `redirect_on` | `on` sets one handler and leaves the other | violated |
| `class_cache` | one whole proxy per name, never replaced, failures not remembered, wherever in a build they happen, while the loader changes; before `setClassLoader`, objects are wrapped in the class they were declared as, or are of; every import ends | holds |
| `class_mixed` | the members of a proxy are those of its class | violated: loader replaced during an async import |
| `async_calls` | calls work on their arguments as they were, AsyncCalls implements CallContract, calls end unless they wait in or for a circle or a lost answer, nothing else brings all to a halt, circles stay | holds |
| `java_calls` | the properties in the table of JavaCalls, every type against values at its limits | holds |
| `value_rules` | a string of one character is converted to a `char`, a long to a BigInt | violated: the string is refused, the longs of a `long[]` are numbers |
| `generator` | each class once, dependencies first, imports are declared, files are complete, `generate` ends, while saves fail and are repeated | holds |

Deadlock is not checked in the runs of InterfaceProxy: the lock cycle of
`proxy_reset_returns` really stops the system, and so does a synchronous call of a
proxy. `NoOtherDeadlock`, `CallsEnd` and `JsCallsReturn` say that these two are the
only ways. The runs
of StdoutRedirect and ClassCache check it. AsyncCalls, JavaCalls and
DefinitionGenerator do not: a finite number of calls comes to an end, and in
AsyncCalls a circle or a lost answer stops it; `NothingElseStops`, `CallsEnd` and
`GenerateEnds` say what the check of deadlock would.

Bounds. Two Java threads and the JS thread: the conflicts are between two lock
holders and one more contender, and the order of two calls in a queue. Two proxies:
one whose id is looked for and one that could be found instead. Two methods, of
which the second proxy has only one: the order within one TSFN against the order
between two, and the failing lookup of a name. Two ids, so that a third proxy is not
needed to exhaust them. The liveness runs use one proxy and one method, since the
lock cycle, the queue and the channel are all there with one. Threads never stop
calling; no counter had to be bounded. StdoutRedirect: two guards and two printing
threads (one in the violating run, where the printers play no part).

ClassCache: the JS thread and a task (two in the violating run), since contention and a
build that is cut in the middle need no more, and the theorems hold for any number; a
class that is always there, a jar with a copy of it, a jar with another class, a
jar with a version of that one which mentions a missing class, a
loader with other classes under both names; two lookups, so that a build fails at the
first, half way, or not at all.

AsyncCalls: three calls on two workers, so that the pool is exhausted with a call left
in the queue, and circles of up to three close through methods, workers and the event
loop. `MaxWaits` is one wait per method and `MaxChanges` one change of the argument: a
second one adds no other relation between a call and what it waits for.

JavaCalls: byte, short, int and long have 4, 8, 16 and 128 values, float 8 and double
32 significands (2, 3, 4 and 7 bits, 3 and 5 significant ones), in the order the real
widths are in, so that a long has values no number has and an int is still exact in a
double; every type, boxed and as an array, with numbers at, between and beyond the
limits of each; arrays of up to two elements of any two kinds, since what matters is
the first element and another one; overloads in pairs of ten types that compete. One
use per object: calls keep no state.

DefinitionGenerator: two classes that mention each other, one below both, one above
all that also mentions a class that cannot be imported; two calls with lists of one or
two of them.

Symmetry of the Java threads is used in `proxy_reuse` only, which checks no liveness.

Fairness (`Fairness` in InterfaceProxy): a thread that can go on does; a mutex that is
free infinitely often is eventually got by each waiting thread, which the futexes
behind `std::sync::Mutex` do not guarantee in theory and give in practice, hence
strong fairness; libuv comes back to every TSFN with queued items; methods written by
the user return. No fairness is assumed for the program's own calls and resets or for
garbage collection, so a parked call may stay parked. ClassCache assumes that a
waiting import eventually gets the mutex that is free again and again, that a build
goes on, and that the event loop settles the promises of finished tasks. AsyncCalls
assumes that workers and event loop take what is queued for them and that a method
that need not wait returns, each as weak fairness: nobody is overtaken for ever in a
finite set of calls. The event loop takes a proxy call that is queued, but need not
answer it, and nothing obliges the collector. DefinitionGenerator assumes that what is
awaited settles. Neither obliges the program to call anything.

## Proofs

`InterfaceProxy_proofs` proves, for any sets of threads, proxies, methods and ids and
from the named assumptions of the module (the sets are disjoint from `None`, `Js` is
not a Java thread, `Provides` maps proxies to sets of methods):

| Theorem | States |
|---|---|
| `TypeCorrect` | `Spec => []TypeOK` |
| `LocksAreHeld` | `Spec => []LocksHeld` |
| `RegistryIsRight` | `Spec => []RegistryAgrees` |
| `NoCallIsLost` | `Spec => []CallsAccounted` |
| `LateCallsAreRejected` | `Spec => []LateCallsFail`, if ids do not repeat |
| `NoCallIsMisdelivered` | `Spec => []NoMisdelivery`, if ids do not repeat |
| `ContractIsMet` | `Spec => MeetsContract`, if ids do not repeat: InterfaceProxy implements ProxyContract |
| `NoOtherDeadlocks` | `Spec => []NoOtherDeadlock` |

The inductive invariant `IInv` is `TypeOK`, `LocksHeld`, `RegistryAgrees` and `Stages`.
The last is what the others need to be inductive: which proxies have an id, what the
JS thread knows of its proxy at each stage, and that an entry of `PROXIES` leads to
the proxy with that id. Then a thread between lookup and unlock has found a proxy,
and nobody can change the entry, since changing it takes `PROXIES`, which the thread
holds. `CallsAccounted` is inductive on top of `IInv`; its steps rest on two lemmas on
what `Append` and `Tail` do to the places of calls in queues (`QueueJoined`,
`QueueLeft`). With ids that do not repeat, `IdsDistinct` makes the proxy found the
proxy called (`HitIsCalled`), from which `LateCallsFail` and `NoMisdelivery` follow.

The refinement shows each action to be the contract's step of the same call or a
stutter. What the contract sees of a thread is a function of that thread's own
program counter, channel and parking (`Seeing`), so that an action disturbs the
view of the threads it moves only; that the queues are the contract's, in order and
with each call once, is `CallsAccounted`, and that acceptance is on the right proxy,
while it lives, is `HitIsCalled`.

For deadlock, take a set of threads that each wait for another of it. If one of
them waits for `PROXIES`, its holder is in the set, and what can a holder wait for?
Only a method table, which is locked by a reset, that is by the JS thread, which
waits for `PROXIES`: the lock cycle (`RegistryDeadlock`). Otherwise they wait for
method tables or answers, in the end for the JS thread, and it waits only if it is in
a call itself (`OtherDeadlock`).

`ClassCache_proofs` does the same for any names, loaders, jars and numbers of lookups:

| Theorem | States |
|---|---|
| `TypeCorrect` | `Spec => []TypeOK` |
| `ImportsAreShared` | `Spec => []ImportsShare` |
| `ProxiesAreWhole` | `Spec => []WholeProxies` |
| `ClassesAreFound` | `Spec => []ImportFindsClass` |
| `EntriesNeverChange` | `Spec => EntriesStay` |
| `ObjectsAreWrapped` | `Spec => []WrapsItsClass` |

Its inductive invariant adds what a build knows: only the holder of the mutex builds,
its name is still free in the cache, and while nobody called `setClassLoader` all it
found is the class the loader has now (`BuildsSound`); an import whose class was there
finds it there still (`StillThere`). Until `setClassLoader` is called every name keeps
one meaning, which is also the only one the code of any class sees (`OneMeaning`), so
that a declared type is what the loader has under its name from the return of the
object to the end of the build (`WrapsKnown`), and a finished call has the proxy of
that class (`ResultIsOfName`).

`AsyncCalls_proofs`, for any finite set of calls and any number of workers:

| Theorem | States |
|---|---|
| `TypeCorrect` | `Spec => []TypeOK` |
| `LoopAndPoolHold` | `Spec => []LoopAndPool` |
| `ContractIsMet` | `Spec => MeetsContract`: AsyncCalls implements CallContract |
| `CirclesRemain` | `Spec => CirclesStay` |
| `NothingElseStopsCalls` | `Spec => []NothingElseStops` |

The inductive invariant is `TypeOK` with `SyncSound` (a synchronous call never waits to
be begun or settled), `LoopSound` and `PoolSound`. The refinement maps each
action to the contract's step on the same call or to a stutter; the point is that the
event loop being free (`loop = None`) is the contract's `Free`, which needs
`LoopSound` and `SyncSound`. For the circles, no action moves a call that is stuck
(`NobodyMoves`), and if every call on a worker is in the circle then no worker becomes
free (`PoolStays`) and the loop stays where it is (`LoopStays`). Conversely, if every
unfinished call is held up then each of those calls is left unanswered or waits for
others of them, which is what `Stopped` asks for: a worker or the loop that
is missing is kept by one of them (`PoolSound`, `LoopSound`), and a call that is
waited for was accepted (`NeedsSound`), hence is one of them as well.

`StdoutRedirect_proofs`, for any number of guards and printing threads:

| Theorem | States |
|---|---|
| `TypeCorrect` | `Spec => []TypeOK` |
| `HandlersAreTheOwners` | `Spec => []HandlersAreOwners` |
| `RedirectionEnds` | `Spec => []RedirectionStops` |
| `LinesArrive` | `Spec => []CleanLinesArrive` |

Its invariant has a part for each of them: whose handlers are in the cells at each
stage of an operation (`JobSound`, `CellsSound`, `HandlersSound`), what a guard that
is alone has saved (`Alone`), that redirected streams have a handler (`Attended`), and
that what a printer has read still holds while no operation ran (`CleanSound`). The
lapses appear as the hypotheses of the parts.

`Conversion_proofs`, for any sizes of the numbers, any classes and any values:

| Theorem | States |
|---|---|
| `ToJavaConverts` | converting a value that a parameter takes fails only as `Unconvertible` says, yields a value of the type, and the same value if the type has it and `Corrupted` does not name it |
| `ReturnedIsSame` | a Java value arrives in JS as it was, unless `Returnable` excepts it, and its longs as BigInts unless it is a `long[]` |
| `StableComesBack` | a returned value of a stable type is taken again and converted to what it was |

The lemmas go by the kinds of values, as the conversions do. Those about numbers say
when `Wrap`, `Int32`, `Int64` and `Rounded` change nothing, from the assumptions on
sizes; those about references, what a box or an object of a class may be passed as,
from the assumption on classes; each is then carried over to the elements of arrays,
lists and Buffers.

`JavaCalls_proofs`, for any declarations, types and values:

| Theorem | States |
|---|---|
| `MembersAreFound` | `Spec => []MembersFound` |
| `SpecificComesFirst` | `Spec => []SpecificFirst` |
| `TypesAreKept` | `Spec => []TypeOK`: what Java gets is of the types of the parameters |
| `AcceptedIsConverted` | `Spec => []AcceptedConverts` |
| `ArgumentsAreSame` | `Spec => []ArgumentsArrive` |
| `ResultsAreSame` | `Spec => []ResultsArrive` |
| `ValuesComeBack` | `Spec => []ComesBack` |

`ObjectSound` says what may be in the table at each stage: a name that was attached
is never without an entry of a member that has it. `ChoiceSound` carries from the
first pass to the second that no overload was taken without leave for objects.
`UseSound` follows the values from the use of a member on: the overload chosen takes
the arguments (`ChosenSound`), what Java has is their conversion (`ConvertedSound`),
what JS gets is that of the result (`ResultSound`), and an argument that came from
Java is what was returned of a value (`OriginSound`). Then the properties are the
theorems of Conversion_proofs at the stages they speak of. `ArgumentsAssumption` and
`JavaValuesAssumption` say that arguments and Java values are such values at all.

`DefinitionGenerator_proofs`, for any classes, whatever they mention, and any calls:

| Theorem | States |
|---|---|
| `TypeCorrect` | `Spec => []TypeOK` |
| `ClassesAreDeclaredOnce` | `Spec => []DeclaredOnce` |
| `DependenciesComeFirst` | `Spec => []DependenciesFirst` |
| `ImportsAreDeclared` | `Spec => []ImportsDeclared` |
| `FilesAreComplete` | `Spec => []SavedTogether` |

The inductive invariant follows a class from its mark to its declaration. A marked
class has an owner, a generator or the list, as long as no call has failed
(`Accounted`), and never two (`Apart`). Whatever the class of a generator mentions is
marked, about to be followed or in a block that is left (`StacksSound`), so all that
a declared class mentions is marked (`DeclarationsSound`), and when nobody is running
only the list is left to own it. `SaveSound` carries this over to the files while they
are written.

`DependenciesFirst` needs an order in which classes are done (`Ordered`): first what is
declared, then what the generators on the stack have, the outermost first. A class
comes after those it mentions unless they reach it. The case that matters is
a class which is marked but not done: its generator waits, and each generator on the
stack above is of a class that the one below mentions, so the class reaches the
innermost one (`WaitingReaches`).

`Unmarked` is a recursive function, so what it keeps is proved by a least
counterexample (`UnmarkedKept`), as are the positions that `First` chooses in
JavaCalls: theorems of induction take an operator as a parameter and cannot be cited.

## What is only model-checked

Every invariant, action property and refinement that holds in a run is a theorem.
What is left is liveness: `CallsEnd` of InterfaceProxy and of AsyncCalls,
`JsCallsReturn`, `ImportsEnd` and `GenerateEnds`. The prover has neither a rule for
fairness nor ENABLED here. What safety can say of the first three is proved:
`NoOtherDeadlock`, `NothingElseStops` and `CirclesStay`. `WaitsFor` and `HeldUp` stand
for the steps that are not enabled and repeat the guards of the actions.

The theorems hold for every value of the constants that satisfies the assumptions.
The refinement of ProxyContract, `LateCallsFail` and `NoMisdelivery` assume in addition
that ids do not repeat, and are false otherwise.

## Not modelled

- JVM life cycle and class path: `ensureJvm` creates the JVM on the JS thread and
  passes its options to java-rs; `loadedJars` is a list that grows. Nobody else takes a
  step in between. What a longer class path and another loader mean for imports
  is in ClassCache. That a class path of several entries may be added in part before
  an error is up to java-rs.
- java-rs, JNI and napi themselves: external; the modules say what they rely on.
- Nested arrays, dates, promises, typed arrays, and arrays that are returned as
  `Object` (their signature comes from java-rs).
- Static members whose names are those of properties a JS function has anyway (`name`,
  `length`).
- Partial lines in the buffer of a `CallbackOutputStream`.
- The command line interface, the lookup of the native library, the text of errors
  and of definitions: no state that two parties share.

## What could follow

A module for nested arrays and returned `Object[]`; the buffer of
`CallbackOutputStream` between printing threads; calls, imports and proxies on one
event loop in a single composed module.
