---------------------------- MODULE MCJavaCalls -----------------------------
(***************************************************************************)
(* Small integers, every type, and values at the limits of each of them.   *)
(* Cat extends Animal; Number is what Integer and the like extend.         *)
(***************************************************************************)
EXTENDS JavaCalls

MCSize    == [byte |-> 4, short |-> 8, int |-> 16, long |-> 128]
MCPowers  == {2^k : k \in 0 .. 14}
MCClasses == {"Animal", "Cat", "Number"}

MCSupers ==
    [c \in Primitive \union {"String"} \union MCClasses |->
        CASE c = "Cat" -> {"Cat", "Animal"}
          [] c \in Primitive \ {"boolean", "char"} -> {c, "Number"}
          [] OTHER -> {c}]

cat    == <<"Cat", "tom">>
animal == <<"Animal", "ant">>

Numbers == {<<"number", h>> : h \in {NaN, 0, 1, 2, -3, 4, -4, 6, -6, 14, 16, -18, 62, 124, 128}}
Scalars ==
    {Null, <<"boolean", TRUE>>, <<"string", <<>>>>, <<"string", <<"x">>>>, <<"string", <<"x", "y">>>>,
     <<"bigint", 1>>, <<"bigint", -64>>, <<"bigint", 63>>, <<"bigint", 64>>}
Wrappers ==
    {<<"wrapper", w>> : w \in {<<"Cat", cat>>, <<"Animal", cat>>, <<"Animal", animal>>,
        <<"int", <<"int", 7>>>>, <<"long", <<"long", 63>>>>, <<"char", <<"char", "x">>>>}}
Others == {Undefined, <<"plain">>, <<"function">>, <<"buffer", <<0, 3>>>>}

Some == {<<"number", 2>>, <<"number", 16>>, <<"boolean", FALSE>>, <<"string", <<"x">>>>, <<"bigint", 63>>,
         <<"wrapper", <<"Cat", cat>>>>, Null}
Arrays == {<<"array", <<>>>>} \union {<<"array", <<v>>>> : v \in Some}
                             \union {<<"array", <<v, w>>>> : v, w \in Some}

MCArguments ==
    {<<>>} \union {<<v>> : v \in Numbers \union Scalars \union Wrappers \union Others \union Arrays}
           \union {<<v, w>> : v, w \in Some}

T(name) == [of |-> name, boxed |-> FALSE, array |-> FALSE]
B(name) == [of |-> name, boxed |-> TRUE, array |-> FALSE]
A(name) == [of |-> name, boxed |-> FALSE, array |-> TRUE]

\* One method for every type, and methods of two overloads that compete.
Rivals == {T("Object"), T("int"), B("int"), T("long"), T("String"), T("char"), T("Animal"), T("Cat"),
           A("Object"), A("int")}
Overloads ==
    {<< <<t>> >> : t \in Types}
    \union {<< <<t>>, <<u>> >> : t, u \in Rivals}
    \union {<< <<t, T("Object")>>, <<u, T("int")>>, <<>> >> : t, u \in {T("Object"), T("long"), T("Animal")}}

f     == <<"f">>
fSync == <<"f", "Sync">>
nothing == << <<>> >>
counter == [type |-> T("int"), final |-> TRUE]

\* One method each, one field each, and classes whose names clash.
MCDeclarations ==
    {[methods |-> f :> list, fields |-> <<>>] : list \in Overloads}
    \union {[methods |-> <<>>, fields |-> f :> g] : g \in [type : Types, final : BOOLEAN]}
    \union {[methods |-> f :> nothing @@ fSync :> nothing, fields |-> <<>>],
            [methods |-> f :> nothing @@ fSync :> nothing @@ Append(fSync, "Sync") :> nothing, fields |-> fSync :> counter],
            [methods |-> f :> nothing @@ InstanceOf :> nothing, fields |-> f :> counter]}
    \union {[methods |-> f :> nothing, fields |-> InstanceOf :> [counter EXCEPT !.type = t]] : t \in {T("int"), T("Cat")}}

ScalarsOf(of) ==
    CASE of \in Integral -> {<<of, n>> : n \in {Low(of), -1, 0, High(of)}}
      [] of = "float"   -> {<<of, h>> : h \in {NaN, 1, -14}}
      [] of = "double"  -> {<<of, h>> : h \in {NaN, 1, -14, 31}}
      [] of = "boolean" -> {<<of, TRUE>>, <<of, FALSE>>}
      [] of = "char"    -> {<<of, "x">>}
      [] of = "String"  -> {<<of, <<>>>>, <<of, <<"x", "y">>>>}
      [] of = "Animal"  -> {cat, animal}
      [] of = "Cat"     -> {cat}
      [] of = "Number"  -> {<<"int", 1>>, <<"long", 63>>}
      [] of = "Object"  -> {<<"int", 7>>, <<"long", 7>>, <<"byte", 1>>, <<"double", 3>>, <<"double", 4>>,
                            <<"String", <<"x">>>>, <<"boolean", TRUE>>, cat}
MCJavaValues(t) ==
    LET null     == IF t.boxed \/ t.of \notin Primitive THEN {Null} ELSE {}
        elements == ScalarsOf(t.of) \union null
    IN  IF ~t.array THEN elements
        ELSE {Null, <<"array", <<>>>>} \union {<<"array", <<i, j>>>> : i, j \in elements}
=============================================================================
