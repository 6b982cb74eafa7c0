---------------------------- MODULE ProxyContract ----------------------------
(***************************************************************************)
(* What a Java program may rely on when it calls methods that a node       *)
(* program implements, without locks, ids and channels: a call is accepted *)
(* only while its proxy lives, accepted calls of a method are run in the   *)
(* order they were accepted, one at a time, each is answered at most once, *)
(* and destroying the proxy neither drops nor adds an accepted call.       *)
(***************************************************************************)
EXTENDS Sequences

CONSTANTS Proxies, Methods, Callers, None

VARIABLES
    phase,      \* proxy -> absent, live or destroyed
    inbox,      \* proxy -> method -> accepted calls that were not run yet
    serving,    \* the call being run
    status,     \* caller -> how far its call is
    target      \* caller -> the proxy and method it calls

vars == <<phase, inbox, serving, status, target>>

Init ==
    /\ phase = [p \in Proxies |-> "absent"]
    /\ inbox = [p \in Proxies |-> [m \in Methods |-> <<>>]]
    /\ serving = None
    /\ status = [c \in Callers |-> "idle"]
    /\ target = [c \in Callers |-> None]

Create(p) ==
    /\ phase[p] = "absent"
    /\ phase' = [phase EXCEPT ![p] = "live"]
    /\ UNCHANGED <<inbox, serving, status, target>>

Destroy(p) ==
    /\ phase[p] = "live"
    /\ phase' = [phase EXCEPT ![p] = "destroyed"]
    /\ UNCHANGED <<inbox, serving, status, target>>

Ask(c, p, m) ==
    /\ status[c] = "idle"
    /\ phase[p] # "absent"
    /\ status' = [status EXCEPT ![c] = "asking"]
    /\ target' = [target EXCEPT ![c] = [proxy |-> p, method |-> m]]
    /\ UNCHANGED <<phase, inbox, serving>>

\* The call ends with an exception and the node program never saw it.
Reject(c) ==
    /\ status[c] = "asking"
    /\ status' = [status EXCEPT ![c] = "idle"]
    /\ target' = [target EXCEPT ![c] = None]
    /\ UNCHANGED <<phase, inbox, serving>>

Accept(c) ==
    /\ status[c] = "asking"
    /\ phase[target[c].proxy] = "live"
    /\ status' = [status EXCEPT ![c] = "accepted"]
    /\ inbox' = [inbox EXCEPT ![target[c].proxy][target[c].method] = Append(@, c)]
    /\ UNCHANGED <<phase, serving, target>>

\* The first call of an inbox is run, or given up because of its arguments.
Serve(p, m) ==
    /\ serving = None
    /\ inbox[p][m] # <<>>
    /\ inbox' = [inbox EXCEPT ![p][m] = Tail(@)]
    /\ \/ serving' = Head(inbox[p][m]) /\ UNCHANGED status
       \/ status' = [status EXCEPT ![Head(inbox[p][m])] = "abandoned"] /\ UNCHANGED serving
    /\ UNCHANGED <<phase, target>>

\* The method ended; it may have ended without an answer for its caller.
End(c) ==
    /\ serving = c
    /\ serving' = None
    /\ \E s \in {"answered", "abandoned"} : status' = [status EXCEPT ![c] = s]
    /\ UNCHANGED <<phase, inbox, target>>

\* A call that was given up is answered with an exception.
Cancel(c) ==
    /\ status[c] = "abandoned"
    /\ status' = [status EXCEPT ![c] = "answered"]
    /\ UNCHANGED <<phase, inbox, serving, target>>

Return(c) ==
    /\ status[c] = "answered"
    /\ status' = [status EXCEPT ![c] = "idle"]
    /\ target' = [target EXCEPT ![c] = None]
    /\ UNCHANGED <<phase, inbox, serving>>

Next ==
    \/ \E p \in Proxies : Create(p) \/ Destroy(p)
    \/ \E c \in Callers, p \in Proxies, m \in Methods : Ask(c, p, m)
    \/ \E c \in Callers : Reject(c) \/ Accept(c) \/ End(c) \/ Cancel(c) \/ Return(c)
    \/ \E p \in Proxies, m \in Methods : Serve(p, m)

Spec == Init /\ [][Next]_vars
=============================================================================
