---------------------------- MODULE MCClassCache ----------------------------
(***************************************************************************)
(* Instances of ClassCache: class A is there from the start, one jar has a *)
(* copy of it, another brings class B, a third a class B that mentions a   *)
(* class which is missing, and a loader of the program has other classes   *)
(* under both names.                                                       *)
(***************************************************************************)
EXTENDS ClassCache, TLC

CONSTANTS A, B, first, copy, jar, broken, custom

MCBoot == A :> first @@ B :> None
MCJars == {A :> copy @@ B :> None, A :> None @@ B :> jar, A :> None @@ B :> broken}

MCCustom == {A :> custom @@ B :> custom}

MCUnlinked == {<<B, broken>>}

=============================================================================
