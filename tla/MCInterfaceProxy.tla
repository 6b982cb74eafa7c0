-------------------------- MODULE MCInterfaceProxy --------------------------
(***************************************************************************)
(* Small instances of InterfaceProxy for TLC: two proxies, the second of   *)
(* which implements only the second of the two methods.                    *)
(***************************************************************************)
EXTENDS InterfaceProxy, TLC

CONSTANTS t1, t2, p1, p2, m1, m2

TwoThreads == {t1, t2}
TwoProxies == {p1, p2}
TwoMethods == {m1, m2}
Both       == (p1 :> {m1, m2}) @@ (p2 :> {m2})
OneProxy   == {p1}
OneMethod  == {m1}
Single     == [p \in OneProxy |-> OneMethod]
ThreadSymmetry == Permutations(TwoThreads)
=============================================================================
