------------------------ MODULE StdoutRedirect_proofs ------------------------
(***************************************************************************)
(* Proofs about StdoutRedirect, for any guards and printing threads.       *)
(***************************************************************************)
EXTENDS StdoutRedirect, TLAPS

USE NoneAssumption, RecordsAssumption

-----------------------------------------------------------------------------
(***************************************************************************)
(* Types                                                                   *)
(***************************************************************************)
LEMMA OtherStream == \A s \in Streams : Other(s) \in Streams /\ \A o \in Streams : o = s \/ o = Other(s)
<1>1. \A s \in Streams : \E o \in Streams : o # s
  BY DEF Streams
<1>2. \A s \in Streams : Other(s) \in Streams /\ Other(s) # s
  BY <1>1 DEF Other
<1>3. QED
  BY <1>2 DEF Streams

LEMMA BeginType ==
    ASSUME TypeOK, NEW op \in {"new", "on", "reset"}, NEW g \in Guards,
           NEW handlers \in SUBSET Streams, NEW redirect \in SUBSET Streams,
           Begin(op, g, handlers, redirect)
    PROVE  job' \in Jobs /\ line' \in [Printers -> Lines \union {None}]
<1>1. job' \in Jobs
  BY DEF Begin, Jobs
<1>2. \A l \in Lines : [l EXCEPT !.clean = FALSE] \in Lines
  BY DEF Lines
<1>3. QED
  BY <1>1, <1>2 DEF Begin, TypeOK

LEMMA ProceedType ==
    ASSUME TypeOK, NEW step \in {"clear", "javaReset", "install", "construct"},
           job # None, Proceed(step)
    PROVE  job' \in Jobs
  BY DEF TypeOK, Jobs, Proceed

LEMMA TypeInit == Init => TypeOK
  BY DEF Init, TypeOK, Sinks, Lapses

LEMMA TypeNext == TypeOK /\ [Next]_vars => TypeOK'
<1> SUFFICES ASSUME TypeOK, [Next]_vars PROVE TypeOK'
  OBVIOUS
<1>1. ASSUME NEW g \in Guards, EnableRedirect(g) PROVE TypeOK'
  <2>1. PICK given \in SUBSET Streams : Begin("new", g, given, given)
    BY <1>1 DEF EnableRedirect
  <2>2. job' \in Jobs /\ line' \in [Printers -> Lines \union {None}]
    BY <2>1, BeginType
  <2>3. lapses' \subseteq Lapses
    BY <1>1 DEF EnableRedirect, TypeOK, Lapse, Lapses
  <2>4. QED
    BY <1>1, <2>2, <2>3 DEF EnableRedirect, TypeOK
<1>2. ASSUME NEW g \in Guards, NEW s \in Streams, NEW given \in BOOLEAN, On(g, s, given) PROVE TypeOK'
  <2>1. (IF given THEN {s} ELSE {}) \in SUBSET Streams
    OBVIOUS
  <2>2. ((IF given THEN {s} ELSE {}) \union {o \in {Other(s)} : cb[o] # None}) \in SUBSET Streams
    BY OtherStream
  <2>3. job' \in Jobs /\ line' \in [Printers -> Lines \union {None}]
    BY <1>2, <2>1, <2>2, BeginType DEF On
  <2>4. lapses' \subseteq Lapses
    BY <1>2 DEF On, TypeOK, Lapse, Lapses
  <2>5. QED
    BY <1>2, <2>3, <2>4 DEF On, TypeOK
<1>3. ASSUME NEW g \in Guards, Reset(g) PROVE TypeOK'
  <2>1. Begin("reset", g, {}, {}) /\ UNCHANGED <<status, owner, cb, sys, saved, lapses>>
    BY <1>3 DEF Reset
  <2>2. job' \in Jobs /\ line' \in [Printers -> Lines \union {None}]
    BY <2>1, BeginType
  <2>3. QED
    BY <2>1, <2>2 DEF TypeOK
<1>4. ASSUME NEW g \in Guards, Drop(g) PROVE TypeOK'
  BY <1>4 DEF Drop, TypeOK
<1>5. CASE ClearCallbacks
  <2>1. job' \in Jobs
    BY <1>5, ProceedType DEF ClearCallbacks, At
  <2>2. QED
    BY <1>5, <2>1 DEF ClearCallbacks, TypeOK
<1>6. CASE JavaReset
  <2>1. job \in Jobs /\ job.guard \in Guards
    BY <1>6 DEF JavaReset, At, TypeOK, Jobs
  <2>2. job' \in Jobs \union {None}
    BY <1>6, ProceedType DEF JavaReset, At
  <2>3. sys' \in [Streams -> Sinks]
    BY <1>6, <2>1 DEF JavaReset, TypeOK
  <2>4. owner' \in Guards \union {None} /\ status' \in [Guards -> {"absent", "live", "gone"}]
    BY <1>6, <2>1 DEF JavaReset, TypeOK
  <2>5. QED
    BY <1>6, <2>2, <2>3, <2>4 DEF JavaReset, TypeOK
<1>7. CASE JavaResetFail
  <2>1. lapses' \subseteq Lapses
    BY <1>7 DEF JavaResetFail, TypeOK, Lapse, Lapses
  <2>2. QED
    BY <1>7, <2>1 DEF JavaResetFail, TypeOK
<1>8. CASE Install
  <2>1. job' \in Jobs /\ job.guard \in Guards
    BY <1>8, ProceedType DEF Install, At, TypeOK, Jobs
  <2>2. QED
    BY <1>8, <2>1 DEF Install, TypeOK
<1>9. CASE Construct
  <2>1. job \in Jobs /\ job.guard \in Guards /\ job.guard \in Sinks
    BY <1>9 DEF Construct, At, TypeOK, Jobs, Sinks
  <2>2. saved' \in [Guards -> [Streams -> Sinks \union {None}]]
    BY <1>9, <2>1 DEF Construct, TypeOK
  <2>3. sys' \in [Streams -> Sinks]
    BY <1>9, <2>1 DEF Construct, TypeOK
  <2>4. QED
    BY <1>9, <2>1, <2>2, <2>3 DEF Construct, TypeOK
<1>10. CASE ConstructFail
  <2>1. lapses' \subseteq Lapses
    BY <1>10 DEF ConstructFail, TypeOK, Lapse, Lapses
  <2>2. QED
    BY <1>10, <2>1 DEF ConstructFail, TypeOK
<1>11. ASSUME NEW t \in Printers, NEW s \in Streams, BeginLine(t, s) PROVE TypeOK'
  <2>1. [stream |-> s, sink |-> sys[s], clean |-> job = None] \in Lines
    BY DEF TypeOK, Lines
  <2>2. QED
    BY <1>11, <2>1 DEF BeginLine, TypeOK
<1>12. ASSUME NEW t \in Printers, WriteLine(t) PROVE TypeOK'
  BY <1>12 DEF WriteLine, TypeOK
<1>13. CASE UNCHANGED vars
  BY <1>13 DEF vars, TypeOK
<1>14. QED
  BY <1>1, <1>2, <1>3, <1>4, <1>5, <1>6, <1>7, <1>8, <1>9, <1>10, <1>11, <1>12, <1>13
     DEF Next, Operate

\* Every variable keeps its type, for any number of guards and printers.
THEOREM TypeCorrect == Spec => []TypeOK
<1>1. QED
  BY TypeInit, TypeNext, PTL DEF Spec

-----------------------------------------------------------------------------
(***************************************************************************)
(* The inductive invariant                                                 *)
(***************************************************************************)
\* The guard an operation is about.
JobSound == job # None =>
    /\ job.op = "new" => status[job.guard] = "absent"
    /\ job.op # "new" => owner = job.guard /\ status[job.guard] = "live"
    /\ job.at = "javaReset" => job.op # "new"
    /\ job.at \in {"install", "construct"} => job.op # "reset"

\* The cells are emptied first, and hold what the operation installs in the end.
CellsSound ==
    /\ At("javaReset") \/ At("install") => \A s \in Streams : cb[s] = None
    /\ At("construct") => \A s \in Streams : cb[s] = IF s \in job.handlers THEN job.guard ELSE None

\* The handlers are the owner's until an operation takes them.
HandlersSound == "construct" \notin lapses /\ (job = None \/ At("clear")) =>
    \A s \in Streams : cb[s] # None => cb[s] = owner /\ status[owner] # "gone"

\* One guard at a time: its Java object knows which streams it replaced, and
\* between its reset and the next one nothing is redirected.
Alone == lapses \subseteq {"onOther", "construct"} =>
    /\ \A g \in Guards : status[g] = "live" => owner = g
    /\ job # None /\ job.op = "new" => \A g \in Guards : status[g] # "live"
    /\ \A g \in Guards, s \in Streams : status[g] = "live" =>
          saved[g][s] = "console" \/ (saved[g][s] = None /\ sys[s] = "console")
    /\ (\A g \in Guards : status[g] # "live") \/ At("install") \/ At("construct") =>
          \A s \in Streams : sys[s] = "console"

\* Redirected streams get a handler and keep it.
Attended == lapses \subseteq {"construct"} =>
    /\ job # None => job.redirect = job.handlers
    /\ job = None => \A s \in Streams : sys[s] # "console" => cb[s] # None

\* What a thread read is still true while no operation has run.
CleanSound ==
    \A t \in Printers : line[t] # None /\ line[t].clean =>
        job = None /\ line[t].sink = sys[line[t].stream]

IInv == TypeOK /\ JobSound /\ CellsSound /\ HandlersSound /\ Alone /\ Attended /\ CleanSound

Parts == JobSound /\ CellsSound /\ HandlersSound /\ Alone /\ Attended /\ CleanSound

LEMMA InvInit == Init => IInv
<1> SUFFICES ASSUME Init PROVE IInv
  OBVIOUS
<1>1. JobSound /\ CellsSound /\ HandlersSound /\ Alone /\ Attended
  BY DEF Init, JobSound, CellsSound, HandlersSound, Alone, Attended, At
<1>2. CleanSound
  BY DEF Init, CleanSound
<1>3. QED
  BY <1>1, <1>2, TypeInit DEF IInv

\* No line is clean once an operation has begun.
LEMMA BeginDirties ==
    ASSUME TypeOK, NEW op, NEW g, NEW handlers, NEW redirect, Begin(op, g, handlers, redirect)
    PROVE  CleanSound'
<1>1. \A t \in Printers : line'[t] # None => line'[t].clean = FALSE
  <2>1. SUFFICES ASSUME NEW t \in Printers, line'[t] # None PROVE line'[t].clean = FALSE
    OBVIOUS
  <2>2. line'[t] = [line[t] EXCEPT !.clean = FALSE] /\ line[t] \in Lines
    BY <2>1 DEF Begin, TypeOK
  <2>3. QED
    BY <2>2 DEF Lines
<1>2. QED
  BY <1>1 DEF CleanSound

\* The record of an operation that has begun.
LEMMA BeginJob ==
    ASSUME NEW op \in {"new", "on", "reset"}, NEW g \in Guards, NEW handlers \in SUBSET Streams,
           NEW redirect \in SUBSET Streams, Begin(op, g, handlers, redirect)
    PROVE  /\ job' # None /\ job'.op = op /\ job'.guard = g /\ job'.at = "clear"
           /\ job'.handlers = handlers /\ job'.redirect = redirect
<1>1. job' \in Jobs
  BY DEF Begin, Jobs
<1>2. QED
  BY <1>1 DEF Begin

\* and of one that goes on.
LEMMA ProceedJob ==
    ASSUME TypeOK, job # None, NEW step \in {"clear", "javaReset", "install", "construct"}, Proceed(step)
    PROVE  /\ job' # None /\ job'.op = job.op /\ job'.guard = job.guard /\ job'.at = step
           /\ job'.handlers = job.handlers /\ job'.redirect = job.redirect
<1>1. job' \in Jobs
  BY ProceedType
<1>2. QED
  BY <1>1 DEF Proceed, TypeOK, Jobs

LEMMA JobType ==
    ASSUME TypeOK, job # None
    PROVE  /\ job.op \in {"new", "on", "reset"} /\ job.guard \in Guards
           /\ job.at \in {"clear", "javaReset", "install", "construct"}
           /\ job.handlers \subseteq Streams /\ job.redirect \subseteq Streams
  BY DEF TypeOK, Jobs

-----------------------------------------------------------------------------
(***************************************************************************)
(* The invariant is inductive.                                             *)
(***************************************************************************)
LEMMA EnableRedirectKeeps ==
    ASSUME IInv, NEW g \in Guards, EnableRedirect(g)
    PROVE  Parts'
<1> USE DEF IInv, EnableRedirect
<1>1. PICK given \in SUBSET Streams : Begin("new", g, given, given)
  OBVIOUS
<1>2. /\ job' # None /\ job'.op = "new" /\ job'.guard = g /\ job'.at = "clear"
      /\ job'.handlers = given /\ job'.redirect = given
  BY <1>1, BeginJob
<1>3. lapses \subseteq lapses'
  BY DEF Lapse
<1>4. lapses' \subseteq {"onOther", "construct"} => \A h \in Guards : status[h] # "live"
  BY DEF Lapse
<1>5. JobSound' /\ CellsSound'
  BY <1>2 DEF JobSound, CellsSound, At
<1>6. HandlersSound'
  BY <1>2, <1>3 DEF HandlersSound, At
<1>7. Alone'
  BY <1>2, <1>3, <1>4 DEF Alone, At
<1>8. Attended'
  BY <1>2, <1>3 DEF Attended
<1>9. CleanSound'
  BY <1>1, BeginDirties
<1>10. QED
  BY <1>5, <1>6, <1>7, <1>8, <1>9 DEF Parts

LEMMA OnKeeps ==
    ASSUME IInv, NEW g \in Guards, NEW s \in Streams, NEW given \in BOOLEAN, On(g, s, given)
    PROVE  Parts'
<1> DEFINE handlers == IF given THEN {s} ELSE {}
           redirect == handlers \union {o \in {Other(s)} : cb[o] # None}
<1> USE DEF IInv
<1>1. handlers \in SUBSET Streams /\ redirect \in SUBSET Streams
  BY OtherStream
<1>2. Begin("on", g, handlers, redirect)
  BY DEF On
<1> HIDE DEF handlers
<1>3. /\ job' # None /\ job'.op = "on" /\ job'.guard = g /\ job'.at = "clear"
      /\ job'.handlers = handlers /\ job'.redirect = redirect
  BY <1>1, <1>2, BeginJob
<1>4. lapses \subseteq lapses' /\ UNCHANGED <<status, owner, cb, sys, saved>>
  BY DEF On, Lapse
<1>5. job = None /\ owner = g /\ status[g] = "live"
  BY DEF On
<1>6. lapses' \subseteq {"construct"} => redirect = handlers
  BY DEF On, Lapse
<1> HIDE DEF redirect
<1>7. JobSound' /\ CellsSound'
  BY <1>3, <1>4, <1>5 DEF JobSound, CellsSound, At
<1>8. HandlersSound'
  BY <1>3, <1>4, <1>5 DEF HandlersSound, At
<1>9. Alone'
  BY <1>3, <1>4, <1>5 DEF Alone, At
<1>10. Attended'
  BY <1>3, <1>6 DEF Attended
<1>11. CleanSound'
  BY <1>2, BeginDirties
<1>12. QED
  BY <1>7, <1>8, <1>9, <1>10, <1>11 DEF Parts

LEMMA ResetKeeps ==
    ASSUME IInv, NEW g \in Guards, Reset(g)
    PROVE  Parts'
<1> USE DEF IInv, Reset
<1>1. /\ job' # None /\ job'.op = "reset" /\ job'.guard = g /\ job'.at = "clear"
      /\ job'.handlers = {} /\ job'.redirect = {}
  BY BeginJob
<1>2. JobSound' /\ CellsSound'
  BY <1>1 DEF JobSound, CellsSound, At
<1>3. HandlersSound'
  BY <1>1 DEF HandlersSound, At
<1>4. Alone' /\ Attended'
  BY <1>1 DEF Alone, Attended, At
<1>5. CleanSound'
  BY BeginDirties
<1>6. QED
  BY <1>2, <1>3, <1>4, <1>5 DEF Parts

LEMMA DropKeeps ==
    ASSUME IInv, NEW g \in Guards, Drop(g)
    PROVE  Parts'
<1> USE DEF IInv, Drop
<1>1. \A h \in Guards \ {g} : status'[h] = status[h]
  BY DEF TypeOK
<1>2. JobSound' /\ CellsSound' /\ CleanSound' /\ Attended'
  BY DEF JobSound, CellsSound, CleanSound, Attended, At
<1>3. HandlersSound'
  <2>1. \A s \in Streams : cb[s] \in Guards \union {None}
    BY DEF TypeOK
  <2>2. QED
    BY <1>1, <2>1 DEF HandlersSound, At
<1>4. Alone'
  BY DEF Alone
<1>5. QED
  BY <1>2, <1>3, <1>4 DEF Parts

LEMMA ClearCallbacksKeeps ==
    ASSUME IInv, ClearCallbacks
    PROVE  Parts'
<1> USE DEF IInv
<1>1. job # None /\ job.at = "clear" /\ UNCHANGED <<status, owner, sys, saved, line, lapses>>
  BY DEF ClearCallbacks, At
<1>2. /\ job' # None /\ job'.op = job.op /\ job'.guard = job.guard
      /\ job'.at = (IF job.op = "new" THEN "install" ELSE "javaReset")
      /\ job'.handlers = job.handlers /\ job'.redirect = job.redirect
  BY <1>1, ProceedJob DEF ClearCallbacks
<1>3. \A s \in Streams : cb'[s] = None
  BY DEF ClearCallbacks
<1>4. JobSound' /\ CellsSound' /\ HandlersSound'
  BY <1>1, <1>2, <1>3 DEF JobSound, CellsSound, HandlersSound, At
<1>5. Alone'
  BY <1>1, <1>2 DEF Alone, At
<1>6. Attended' /\ CleanSound'
  BY <1>1, <1>2 DEF Attended, CleanSound
<1>7. QED
  BY <1>4, <1>5, <1>6 DEF Parts

LEMMA JavaResetKeeps ==
    ASSUME IInv, JavaReset
    PROVE  Parts'
<1> USE DEF IInv
<1>1. /\ job # None /\ job.at = "javaReset" /\ job.op # "new" /\ job.guard \in Guards
      /\ owner = job.guard /\ status[job.guard] = "live"
      /\ UNCHANGED <<cb, saved, line, lapses>>
  BY JobType DEF JavaReset, At, JobSound
<1>2. \A s \in Streams : cb'[s] = None
  BY <1>1 DEF CellsSound, At
<1>3. lapses \subseteq {"onOther", "construct"} => \A s \in Streams : sys'[s] = "console"
  <2>1. SUFFICES ASSUME lapses \subseteq {"onOther", "construct"}, NEW s \in Streams
                 PROVE  sys'[s] = "console"
    OBVIOUS
  <2>2. saved[job.guard][s] = "console" \/ (saved[job.guard][s] = None /\ sys[s] = "console")
    BY <1>1, <2>1 DEF Alone
  <2>3. QED
    BY <2>2 DEF JavaReset
<1>4. CleanSound'
  BY <1>1 DEF CleanSound
<1>5. CASE job.op = "reset"
  <2>1. job' = None /\ owner' = None /\ status' = [status EXCEPT ![job.guard] = "gone"]
    BY <1>5 DEF JavaReset
  <2>2. JobSound' /\ CellsSound' /\ HandlersSound'
    BY <1>2, <2>1 DEF JobSound, CellsSound, HandlersSound, At
  <2>3. lapses \subseteq {"onOther", "construct"} => \A g \in Guards : status'[g] # "live"
    BY <1>1, <2>1 DEF Alone, TypeOK
  <2>4. Alone'
    BY <1>1, <1>3, <2>1, <2>3 DEF Alone
  <2>5. Attended'
    BY <1>1, <1>3, <2>1 DEF Attended
  <2>6. QED
    BY <1>4, <2>2, <2>4, <2>5 DEF Parts
<1>6. CASE job.op # "reset"
  <2>1. UNCHANGED <<owner, status>> /\ Proceed("install")
    BY <1>6 DEF JavaReset
  <2>2. /\ job' # None /\ job'.op = job.op /\ job'.guard = job.guard /\ job'.at = "install"
        /\ job'.handlers = job.handlers /\ job'.redirect = job.redirect
    BY <1>1, <2>1, ProceedJob
  <2>3. JobSound' /\ CellsSound' /\ HandlersSound'
    BY <1>1, <1>2, <1>6, <2>1, <2>2 DEF JobSound, CellsSound, HandlersSound, At
  <2>4. Alone'
    BY <1>1, <1>3, <2>1, <2>2 DEF Alone
  <2>5. Attended'
    BY <1>1, <2>2 DEF Attended
  <2>6. QED
    BY <1>4, <2>3, <2>4, <2>5 DEF Parts
<1>7. QED
  BY <1>5, <1>6

LEMMA JavaResetFailKeeps ==
    ASSUME IInv, JavaResetFail
    PROVE  Parts'
<1> USE DEF IInv, JavaResetFail
<1>1. job # None /\ job.at = "javaReset" /\ job' = None /\ "javaReset" \in lapses'
  BY DEF At, Lapse
<1>2. \A s \in Streams : cb'[s] = None
  BY <1>1 DEF CellsSound, At
<1>3. JobSound' /\ CellsSound' /\ HandlersSound'
  BY <1>1, <1>2 DEF JobSound, CellsSound, HandlersSound, At
<1>4. Alone' /\ Attended'
  BY <1>1 DEF Alone, Attended
<1>5. CleanSound'
  BY <1>1 DEF CleanSound
<1>6. QED
  BY <1>3, <1>4, <1>5 DEF Parts

LEMMA InstallKeeps ==
    ASSUME IInv, Install
    PROVE  Parts'
<1> USE DEF IInv
<1>1. job # None /\ job.at = "install" /\ UNCHANGED <<status, owner, sys, saved, line, lapses>>
  BY DEF Install, At
<1>2. /\ job' # None /\ job'.op = job.op /\ job'.guard = job.guard /\ job'.at = "construct"
      /\ job'.handlers = job.handlers /\ job'.redirect = job.redirect
  BY <1>1, ProceedJob DEF Install
<1>3. \A s \in Streams : cb'[s] = IF s \in job.handlers THEN job.guard ELSE None
  BY DEF Install
<1>4. JobSound' /\ CellsSound' /\ HandlersSound'
  BY <1>1, <1>2, <1>3 DEF JobSound, CellsSound, HandlersSound, At
<1>5. Alone'
  BY <1>1, <1>2 DEF Alone, At
<1>6. Attended' /\ CleanSound'
  BY <1>1, <1>2 DEF Attended, CleanSound
<1>7. QED
  BY <1>4, <1>5, <1>6 DEF Parts

LEMMA ConstructKeeps ==
    ASSUME IInv, Construct
    PROVE  Parts'
<1> USE DEF IInv
<1>1. /\ job # None /\ job.at = "construct" /\ job.guard \in Guards /\ job.op # "reset"
      /\ job' = None /\ UNCHANGED <<cb, line, lapses>>
  BY JobType DEF Construct, At, JobSound
<1>2. owner' = job.guard
  BY <1>1 DEF Construct, JobSound
<1>3. status'[job.guard] = "live" /\ \A g \in Guards \ {job.guard} : status'[g] = status[g]
  BY <1>1 DEF Construct, TypeOK
<1>4. JobSound' /\ CellsSound'
  BY <1>1 DEF JobSound, CellsSound, At
<1>5. HandlersSound'
  BY <1>1, <1>2, <1>3 DEF HandlersSound, CellsSound, At
<1>6. ASSUME lapses \subseteq {"onOther", "construct"}
      PROVE  /\ \A g \in Guards : status'[g] = "live" => g = job.guard
             /\ \A s \in Streams : sys[s] = "console"
  <2>1. \A g \in Guards : status[g] = "live" => g = job.guard
    BY <1>1, <1>6 DEF Alone, JobSound
  <2>2. QED
    BY <1>1, <1>3, <1>6, <2>1 DEF Alone, At
<1>7. \A s \in Streams :
        /\ saved'[job.guard][s] = IF s \in job.redirect THEN sys[s] ELSE None
        /\ sys'[s] = IF s \in job.redirect THEN job.guard ELSE sys[s]
  BY <1>1 DEF Construct, TypeOK
<1>8. Alone'
  BY <1>1, <1>2, <1>3, <1>6, <1>7 DEF Alone, At
<1>9. Attended'
  <2>1. SUFFICES ASSUME lapses \subseteq {"construct"}, NEW s \in Streams, sys'[s] # "console"
                 PROVE  cb[s] # None
    BY <1>1 DEF Attended
  <2>2. sys[s] = "console" /\ job.redirect = job.handlers
    BY <1>1, <1>6, <2>1 DEF Attended
  <2>3. s \in job.handlers
    BY <1>7, <2>1, <2>2
  <2>4. QED
    BY <1>1, <2>3 DEF CellsSound, At
<1>10. CleanSound'
  BY <1>1 DEF CleanSound
<1>11. QED
  BY <1>4, <1>5, <1>8, <1>9, <1>10 DEF Parts

LEMMA ConstructFailKeeps ==
    ASSUME IInv, ConstructFail
    PROVE  Parts'
<1> USE DEF IInv, ConstructFail
<1>1. /\ job # None /\ job.at = "construct" /\ job' = None
      /\ lapses' = lapses \union {"construct"} /\ UNCHANGED <<status, owner, cb, sys, saved, line>>
  BY DEF At, Lapse
<1>2. JobSound' /\ CellsSound' /\ HandlersSound'
  BY <1>1 DEF JobSound, CellsSound, HandlersSound, At
<1>3. Alone'
  BY <1>1 DEF Alone, At
<1>4. Attended'
  BY <1>1 DEF Attended, Alone, At
<1>5. CleanSound'
  BY <1>1 DEF CleanSound
<1>6. QED
  BY <1>2, <1>3, <1>4, <1>5 DEF Parts

LEMMA PrintKeeps ==
    ASSUME IInv, UNCHANGED <<status, owner, cb, sys, saved, job, lapses>>, CleanSound'
    PROVE  Parts'
<1> USE DEF IInv
<1>1. JobSound' /\ CellsSound' /\ HandlersSound'
  BY DEF JobSound, CellsSound, HandlersSound, At
<1>2. Alone' /\ Attended'
  BY DEF Alone, Attended, At
<1>3. QED
  BY <1>1, <1>2 DEF Parts

LEMMA InvNext == IInv /\ [Next]_vars => IInv'
<1> SUFFICES ASSUME IInv, [Next]_vars PROVE Parts'
  BY TypeNext DEF IInv, Parts
<1>1. ASSUME NEW t \in Printers, NEW s \in Streams, BeginLine(t, s) PROVE Parts'
  <2>1. \A p \in Printers \ {t} : line'[p] = line[p]
    BY <1>1 DEF BeginLine, IInv, TypeOK
  <2>2. line'[t] = [stream |-> s, sink |-> sys[s], clean |-> job = None]
    BY <1>1 DEF BeginLine, IInv, TypeOK
  <2>3. line'[t].sink = sys[s] /\ line'[t].stream = s /\ (line'[t].clean => job = None)
    <3>1. CASE job = None
      BY <2>2, <3>1
    <3>2. CASE job # None
      <4>1. line'[t] = [stream |-> s, sink |-> sys[s], clean |-> FALSE]
        BY <2>2, <3>2
      <4>2. QED
        BY <4>1
    <3>3. QED
      BY <3>1, <3>2
  <2>4. CleanSound'
    <3>1. UNCHANGED <<job, sys>>
      BY <1>1 DEF BeginLine
    <3>2. SUFFICES ASSUME NEW p \in Printers, line'[p] # None, line'[p].clean
                   PROVE  job = None /\ line'[p].sink = sys[line'[p].stream]
      BY <3>1 DEF CleanSound
    <3>3. CASE p = t
      BY <2>3, <3>2, <3>3
    <3>4. CASE p # t
      BY <2>1, <3>2, <3>4 DEF CleanSound, IInv
    <3>5. QED
      BY <3>3, <3>4
  <2>5. QED
    BY <1>1, <2>4, PrintKeeps DEF BeginLine
<1>2. ASSUME NEW t \in Printers, WriteLine(t) PROVE Parts'
  <2>1. CleanSound'
    BY <1>2 DEF WriteLine, CleanSound, IInv, TypeOK
  <2>2. QED
    BY <1>2, <2>1, PrintKeeps DEF WriteLine
<1>3. CASE UNCHANGED vars
  <2>1. CleanSound'
    BY <1>3 DEF vars, CleanSound, IInv
  <2>2. QED
    BY <1>3, <2>1, PrintKeeps DEF vars
<1>4. QED
  BY <1>1, <1>2, <1>3, EnableRedirectKeeps, OnKeeps, ResetKeeps, DropKeeps, ClearCallbacksKeeps,
     JavaResetKeeps, JavaResetFailKeeps, InstallKeeps, ConstructKeeps, ConstructFailKeeps
     DEF Next, Operate

LEMMA Invariant == Spec => []IInv
<1>1. QED
  BY InvInit, InvNext, PTL DEF Spec

-----------------------------------------------------------------------------
(***************************************************************************)
(* The results                                                             *)
(***************************************************************************)
\* However guards overlap, are reset and collected: between operations only the
\* owner's handlers are installed.
THEOREM HandlersAreTheOwners == Spec => []HandlersAreOwners
<1>1. IInv => HandlersAreOwners
  BY DEF IInv, HandlersSound, HandlersAreOwners
<1>2. QED
  BY <1>1, Invariant, PTL

\* When the last guard is gone both streams are the console, if guards did not
\* overlap and every Java object could be reset.
THEOREM RedirectionEnds == Spec => []RedirectionStops
<1>1. IInv => RedirectionStops
  BY DEF IInv, Alone, RedirectionStops
<1>2. QED
  BY <1>1, Invariant, PTL

\* A line that is printed while no operation runs has a handler to go to,
\* whichever handlers on was given.
THEOREM LinesArrive == Spec => []CleanLinesArrive
<1>1. IInv => CleanLinesArrive
  <2>1. SUFFICES ASSUME IInv, NEW t \in Printers, line[t] # None, line[t].clean,
                        line[t].sink # "console", lapses \subseteq {"construct"}
                 PROVE  cb[line[t].stream] # None
    BY DEF CleanLinesArrive
  <2>2. line[t].stream \in Streams
    BY <2>1 DEF IInv, TypeOK, Lines
  <2>3. job = None /\ line[t].sink = sys[line[t].stream]
    BY <2>1 DEF IInv, CleanSound
  <2>4. QED
    BY <2>1, <2>2, <2>3 DEF IInv, Attended
<1>2. QED
  BY <1>1, Invariant, PTL
=============================================================================
