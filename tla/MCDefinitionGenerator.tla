----------------------- MODULE MCDefinitionGenerator -----------------------
(***************************************************************************)
(* Classes a and b mention each other, both and d need c, d also e, which  *)
(* cannot be imported.                                                     *)
(***************************************************************************)
EXTENDS DefinitionGenerator, TLC

CONSTANTS a, b, c, d, e

MCClasses  == {a, b, c, d, e}
MCMentions ==
    a :> << <<c>>, <<b, a, b>> >> @@ b :> << <<c>>, <<a>> >> @@ c :> << <<>> >> @@
    d :> << <<c, b>>, <<e>> >> @@ e :> << <<>> >>
MCRequests == {<<a>>, <<c, b>>, <<d, a>>}
=============================================================================
