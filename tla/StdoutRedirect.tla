--------------------------- MODULE StdoutRedirect ---------------------------
(***************************************************************************)
(* Redirection of System.out and System.err to JavaScript handlers:        *)
(* node/stdout_redirect.rs and StdoutRedirect.java.                        *)
(*                                                                         *)
(* Every guard that enableRedirect returns has a Java object that          *)
(* replaced the streams and remembers what it replaced.  The handlers are  *)
(* two global cells, one per stream, which writeLine reads.  An operation  *)
(* of the JS thread clears the cells, lets the Java object put the old     *)
(* streams back, fills the cells and constructs a new Java object; Java    *)
(* threads print between these steps.                                      *)
(***************************************************************************)
CONSTANTS
    Printers,   \* Java threads that print
    Guards,     \* the guards the program creates, each at most once
    None

ASSUME NoneAssumption == None \notin Guards \union {"console"}

Streams == {"stdout", "stderr"}
Other(s) == CHOOSE o \in Streams : o # s

VARIABLES
    status,     \* guard -> absent, live or gone (reset or garbage collected)
    owner,      \* STDOUT_OWNER: the guard that may call on and reset
    cb,         \* stream -> the guard whose handler the callback cell holds
    sys,        \* stream -> what System.out / System.err writes to
    saved,      \* guard -> stream -> what its Java object has to put back
    job,        \* the operation the JS thread is in
    line,       \* printer -> the line it is printing
    lapses      \* what has gone wrong so far, or was used in a way that goes wrong

vars == <<status, owner, cb, sys, saved, job, line, lapses>>

\* A sink is the console or the CallbackOutputStream made for a guard.
Sinks == Guards \union {"console"}

(***************************************************************************)
(* An operation: for which guard, whether its Java object has to be reset, *)
(* the handlers to install and the streams the new Java object redirects.  *)
(***************************************************************************)
Jobs == [op : {"new", "on", "reset"}, guard : Guards, at : {"clear", "javaReset", "install", "construct"},
         handlers : SUBSET Streams, redirect : SUBSET Streams]

\* clean: no operation has run since the printer read System.out.
Lines == [stream : Streams, sink : Sinks, clean : BOOLEAN]

ASSUME RecordsAssumption == None \notin Jobs \union Lines

\* A guard created while another one is live, a handler changed while the other
\* stream has one, and the two kinds of calls into Java that may fail.  Only the
\* properties look at them.
Lapses == {"overlap", "onOther", "javaReset", "construct"}
Lapse(kind, happens) == lapses' = IF happens THEN lapses \union {kind} ELSE lapses

TypeOK ==
    /\ status \in [Guards -> {"absent", "live", "gone"}]
    /\ owner \in Guards \union {None}
    /\ cb \in [Streams -> Guards \union {None}]
    /\ sys \in [Streams -> Sinks]
    /\ saved \in [Guards -> [Streams -> Sinks \union {None}]]
    /\ job \in Jobs \union {None}
    /\ line \in [Printers -> Lines \union {None}]
    /\ lapses \subseteq Lapses

Init ==
    /\ status = [g \in Guards |-> "absent"]
    /\ owner = None
    /\ cb = [s \in Streams |-> None]
    /\ sys = [s \in Streams |-> "console"]
    /\ saved = [g \in Guards |-> [s \in Streams |-> None]]
    /\ job = None
    /\ line = [t \in Printers |-> None]
    /\ lapses = {}

-----------------------------------------------------------------------------
(***************************************************************************)
(* The operations of the JS thread begin.  on and reset of a guard that is *)
(* not the owner end with an error at once; so does on with an unknown     *)
(* event.                                                                  *)
(***************************************************************************)
Begin(op, g, handlers, redirect) ==
    /\ job' = [op |-> op, guard |-> g, at |-> "clear", handlers |-> handlers, redirect |-> redirect]
    /\ line' = [t \in Printers |-> IF line[t] = None THEN None ELSE [line[t] EXCEPT !.clean = FALSE]]

\* Mutant: Java is told to redirect both streams, whichever handlers there are.
EnableRedirect_Both(g) ==
    /\ job = None
    /\ status[g] = "absent"
    /\ Lapse("overlap", \E h \in Guards : status[h] = "live")
    /\ \E given \in SUBSET Streams : Begin("new", g, given, Streams)
    /\ UNCHANGED <<status, owner, cb, sys, saved>>

EnableRedirect(g) ==
    /\ job = None
    /\ status[g] = "absent"
    /\ Lapse("overlap", \E h \in Guards : status[h] = "live")
    /\ \E given \in SUBSET Streams : Begin("new", g, given, given)
    /\ UNCHANGED <<status, owner, cb, sys, saved>>

\* Mutant: any live guard may change the handlers.
On_NotOwner(g, s, given) ==
    /\ job = None
    /\ status[g] = "live"
    /\ Lapse("onOther", cb[Other(s)] # None)
    /\ Begin("on", g, IF given THEN {s} ELSE {},
             (IF given THEN {s} ELSE {}) \union {o \in {Other(s)} : cb[o] # None})
    /\ UNCHANGED <<status, owner, cb, sys, saved>>

\* The other stream stays redirected if it has a handler, which is not kept.
On(g, s, given) ==
    /\ job = None
    /\ owner = g
    /\ status[g] = "live"
    /\ Lapse("onOther", cb[Other(s)] # None)
    /\ Begin("on", g, IF given THEN {s} ELSE {},
             (IF given THEN {s} ELSE {}) \union {o \in {Other(s)} : cb[o] # None})
    /\ UNCHANGED <<status, owner, cb, sys, saved>>

Reset(g) ==
    /\ job = None
    /\ owner = g
    /\ status[g] = "live"
    /\ Begin("reset", g, {}, {})
    /\ UNCHANGED <<status, owner, cb, sys, saved, lapses>>

\* The garbage collector frees a guard that was superseded by another one.
Drop(g) ==
    /\ job = None
    /\ owner # g
    /\ status[g] = "live"
    /\ status' = [status EXCEPT ![g] = "gone"]
    /\ UNCHANGED <<owner, cb, sys, saved, job, line, lapses>>

-----------------------------------------------------------------------------
At(step)   == job # None /\ job.at = step
Proceed(step) == job' = [job EXCEPT !.at = step]

\* Mutant: on leaves the old Java object alone.
ClearCallbacks_KeepsJava ==
    /\ At("clear")
    /\ cb' = [s \in Streams |-> None]
    /\ Proceed(IF job.op = "reset" THEN "javaReset" ELSE "install")
    /\ UNCHANGED <<status, owner, sys, saved, line, lapses>>

\* Both handlers are taken out of their cells.
ClearCallbacks ==
    /\ At("clear")
    /\ cb' = [s \in Streams |-> None]
    /\ Proceed(IF job.op = "new" THEN "install" ELSE "javaReset")
    /\ UNCHANGED <<status, owner, sys, saved, line, lapses>>

\* Mutant: a stream that was not replaced is "put back" as well.
JavaReset_All ==
    /\ At("javaReset")
    /\ sys' = [s \in Streams |-> saved[job.guard][s]]
    /\ IF job.op = "reset"
       THEN /\ owner' = None
            /\ status' = [status EXCEPT ![job.guard] = "gone"]
            /\ job' = None
       ELSE Proceed("install") /\ UNCHANGED <<owner, status>>
    /\ UNCHANGED <<cb, saved, line, lapses>>

\* The Java object of the guard puts back the streams it replaced.  A reset
\* ends here and gives up the ownership.
JavaReset ==
    /\ At("javaReset")
    /\ sys' = [s \in Streams |-> IF saved[job.guard][s] = None THEN sys[s] ELSE saved[job.guard][s]]
    /\ IF job.op = "reset"
       THEN /\ owner' = None
            /\ status' = [status EXCEPT ![job.guard] = "gone"]
            /\ job' = None
       ELSE Proceed("install") /\ UNCHANGED <<owner, status>>
    /\ UNCHANGED <<cb, saved, line, lapses>>

\* The class or its method is not found: on and reset return an error.  Drop
\* ignores the error, and the guard is gone all the same.
JavaResetFail ==
    /\ At("javaReset")
    /\ Lapse("javaReset", TRUE)
    /\ job' = None
    /\ \/ UNCHANGED status
       \/ job.op = "reset" /\ status' = [status EXCEPT ![job.guard] = "gone"]
    /\ UNCHANGED <<owner, cb, sys, saved, line>>

\* The cells are locked from here to the end of the operation.
Install ==
    /\ At("install")
    /\ cb' = [s \in Streams |-> IF s \in job.handlers THEN job.guard ELSE None]
    /\ Proceed("construct")
    /\ UNCHANGED <<status, owner, sys, saved, line, lapses>>

Construct ==
    /\ At("construct")
    /\ saved' = [saved EXCEPT ![job.guard] = [s \in Streams |-> IF s \in job.redirect THEN sys[s] ELSE None]]
    /\ sys' = [s \in Streams |-> IF s \in job.redirect THEN job.guard ELSE sys[s]]
    /\ owner' = IF job.op = "new" THEN job.guard ELSE owner
    /\ status' = [status EXCEPT ![job.guard] = "live"]
    /\ job' = None
    /\ UNCHANGED <<cb, line, lapses>>

\* The handlers stay in their cells, the guard keeps its old Java object.
ConstructFail ==
    /\ At("construct")
    /\ job' = None
    /\ Lapse("construct", TRUE)
    /\ UNCHANGED <<status, owner, cb, sys, saved, line>>

-----------------------------------------------------------------------------
(***************************************************************************)
(* A Java thread reads System.out or System.err and later ends a line on   *)
(* it: writeLine hands it to the handler of the stream, or drops it if     *)
(* there is none.  It waits while the cells are locked.                    *)
(***************************************************************************)
BeginLine(t, s) ==
    /\ line[t] = None
    /\ line' = [line EXCEPT ![t] = [stream |-> s, sink |-> sys[s], clean |-> job = None]]
    /\ UNCHANGED <<status, owner, cb, sys, saved, job, lapses>>

WriteLine(t) ==
    /\ line[t] # None
    /\ line[t].sink # "console" => ~At("construct")
    /\ line' = [line EXCEPT ![t] = None]
    /\ UNCHANGED <<status, owner, cb, sys, saved, job, lapses>>

Operate == ClearCallbacks \/ JavaReset \/ JavaResetFail \/ Install \/ Construct \/ ConstructFail

Next ==
    \/ \E g \in Guards : EnableRedirect(g) \/ Reset(g) \/ Drop(g)
    \/ \E g \in Guards, s \in Streams, given \in BOOLEAN : On(g, s, given)
    \/ Operate
    \/ \E t \in Printers : WriteLine(t) \/ \E s \in Streams : BeginLine(t, s)

Spec == Init /\ [][Next]_vars

-----------------------------------------------------------------------------
(***************************************************************************)
(* The documentation of StdoutRedirectGuard: reset, or the collection of   *)
(* the guard, stops the redirection.  When no guard is left both streams   *)
(* are the console again, whatever on did to them before, if guards did    *)
(* not overlap and every reset of a Java object worked.                    *)
(***************************************************************************)
RedirectionStops ==
    job = None /\ (\A g \in Guards : status[g] # "live") /\ lapses \subseteq {"onOther", "construct"}
        => \A s \in Streams : sys[s] = "console"

(***************************************************************************)
(* A line that a thread prints while no operation runs is not lost: if it  *)
(* goes to a CallbackOutputStream, its stream has a handler.  A failed     *)
(* construction does not harm that; the other lapses lose handlers of      *)
(* streams that stay redirected.                                           *)
(***************************************************************************)
CleanLinesArrive ==
    \A t \in Printers :
        line[t] # None /\ line[t].clean /\ line[t].sink # "console" /\ lapses \subseteq {"construct"}
            => cb[line[t].stream] # None

(***************************************************************************)
(* Between operations the handlers are those that the current owner        *)
(* installed, and without an owner there are none: after reset nothing is  *)
(* passed to the specified methods, however guards overlap.  Only a failed *)
(* construction leaves handlers of a guard that does not exist.            *)
(***************************************************************************)
HandlersAreOwners ==
    job = None /\ "construct" \notin lapses =>
        \A s \in Streams : cb[s] # None => cb[s] = owner /\ status[owner] # "gone"

(***************************************************************************)
(* The documentation of on: it sets the handler of one stream, "Pass null  *)
(* to disable this specific handler".  A stream that the call goes on      *)
(* redirecting has a handler when the cells have been filled.              *)
(***************************************************************************)
OnKeepsOther == At("construct") /\ job.op = "on" => \A s \in job.redirect : cb[s] # None

=============================================================================
