----------------------------- MODULE JavaCalls ------------------------------
(***************************************************************************)
(* A JS object for a Java object, and one use of it: add_class_methods     *)
(* attaches its members, then the program calls an overloaded method, from *)
(* the choice of the overload (find_matching_method) over the conversion   *)
(* of the arguments and the call to the conversion of the result, or it    *)
(* accesses a field (node/java_class_field.rs, java/class_field.rs).       *)
(*                                                                         *)
(* The methods considered return their argument, so that its type is also  *)
(* the type of the result.  Constructors are chosen and called likewise.   *)
(***************************************************************************)
EXTENDS Conversion

CONSTANTS
    None,
    Declarations,   \* classes: methods is a function from names to lists of
                    \* signatures, in the order Java lists them, fields one
                    \* from names to [type, final]
    Arguments,      \* lists of JS values
    JavaValues(_)   \* what a Java program has of a type

ASSUME DeclarationsAssumption ==
    \A d \in Declarations :
        /\ \A n \in DOMAIN d.methods : d.methods[n] \in Seq(Seq(Types))
        /\ \A n \in DOMAIN d.fields : d.fields[n].type \in Types /\ d.fields[n].final \in BOOLEAN

\* What a Java variable of a type may hold.
IsOf(T, j) ==
    CASE j = Null         -> ~IsPrimitive(T)
      [] j[1] = "array"   -> \/ T.of = "Object" /\ ~T.array
                             \/ T.array /\ \A i \in DOMAIN j[2] :
                                    IF j[2][i] = Null THEN ~IsPrimitive(Inner(T))
                                                      ELSE IsA(j[2][i][1], T)
      [] OTHER            -> ~T.array /\ IsA(j[1], T)

\* Left out: what becomes of an array that is returned as an Object.
Described(T, j) == j[1] = "array" => T.array

ASSUME ArgumentsAssumption == Arguments \subseteq Seq(JsValues)
ASSUME JavaValuesAssumption ==
    \A T \in Types : \A j \in JavaValues(T) : j \in JavaObjects /\ IsOf(T, j) /\ Described(T, j)

VARIABLES
    pc,         \* how far the object, and then its use, is
    class,      \* the declaration of the object's class
    todo,       \* the methods that are not attached yet
    table,      \* property of the object -> what it is
    overloads,  \* the signatures of the method used, or None
    field,      \* the field used, or None
    content,    \* what the field contains
    origin,     \* where the argument came from: a type and a Java value, or None
    args,       \* the JS values passed
    chosen,     \* the signature of the overload taken
    java,       \* the arguments, converted
    result      \* the JS value returned

chosens == <<chosen, java>>
object  == <<class, todo, table>>
member  == <<object, overloads, field, origin, args>>
vars    == <<pc, member, content, chosens, result>>

\* Whatever a parameter or a field is given is of its type.  A field is not
\* protected from values that no parameter of its type would accept.
TypeOK ==
    /\ pc \in {"attaching", "attached", "built", "called", "again", "chosen", "converted", "failed", "refused",
               "returned", "thrown", "stored", "read"}
    /\ pc \in {"converted", "returned", "thrown"} =>
          Len(java) = Len(chosen) /\ \A i \in DOMAIN chosen : IsOf(chosen[i], java[i])
    /\ field # None /\ Matches(field.type, args[1]) => IsOf(field.type, content)

-----------------------------------------------------------------------------
(***************************************************************************)
(* The object.  A name is a sequence, for the sake of its ending.          *)
(***************************************************************************)
Sync(n)    == Append(n, "Sync")
Names(n)   == {n, Sync(n)}
InstanceOf == <<"instanceOf">>

\* What is attached takes the place of what had the name before.
Attach(members) ==
    table' = [p \in DOMAIN table \union DOMAIN members |-> IF p \in DOMAIN members THEN members[p] ELSE table[p]]

Init ==
    /\ pc = "attaching"
    /\ class \in Declarations
    /\ todo = DOMAIN class.methods
    /\ table = <<>>
    /\ overloads = None /\ field = None /\ content = None
    /\ origin = None /\ args = None
    /\ chosen = None /\ java = None /\ result = None

use == <<overloads, field, content, origin, args, chosens, result>>

\* Both forms of a method; methods come in the order of a HashMap.
AttachMethod(n) ==
    /\ pc = "attaching"
    /\ n \in todo
    /\ todo' = todo \ {n}
    /\ Attach([p \in Names(n) |-> <<IF p = n THEN "async" ELSE "sync", n>>])
    /\ UNCHANGED <<pc, class, use>>

\* An accessor takes the place of a function of its name.
AttachFields ==
    /\ pc = "attaching"
    /\ todo = {}
    /\ pc' = "attached"
    /\ Attach([p \in DOMAIN class.fields |-> <<"field", p>>])
    /\ UNCHANGED <<class, todo, use>>

\* Mutant: whatever the class has of that name.
AttachInstanceOf_Always ==
    /\ pc = "attached"
    /\ pc' = "built"
    /\ Attach([p \in {InstanceOf} |-> <<"instanceOf">>])
    /\ UNCHANGED <<class, todo, use>>

\* A field of that name has an accessor by now, whose setter gets the function:
\* it writes to the field or throws, and then there is no object.
AttachInstanceOf ==
    /\ pc = "attached"
    /\ \/ /\ InstanceOf \notin DOMAIN table
          /\ pc' = "built"
          /\ Attach([p \in {InstanceOf} |-> <<"instanceOf">>])
       \/ /\ InstanceOf \in DOMAIN table
          /\ LET written == InstanceOf \in DOMAIN class.fields \ DOMAIN class.methods /\ ~class.fields[InstanceOf].final
             IN  pc' = IF written /\ ToJava(class.fields[InstanceOf].type, <<"function">>) = Error
                       THEN "failed" ELSE "built"
          /\ UNCHANGED table
    /\ UNCHANGED <<class, todo, use>>

-----------------------------------------------------------------------------
(***************************************************************************)
(* The program uses values of its own, or one it got from Java.            *)
(***************************************************************************)
Used(kinds) == IF pc = "built" THEN {p \in DOMAIN table : table[p][1] \in kinds} ELSE {}
Method(p)   == class.methods[table[p][2]]

Call(p, values) ==
    /\ p \in Used({"sync", "async"})
    /\ pc' = "called"
    /\ overloads' = Method(p)
    /\ args' = values
    /\ UNCHANGED <<object, field, content, origin, chosens, result>>

PassOn(p) ==
    /\ p \in Used({"sync", "async"})
    /\ Len(Method(p)) = 1 /\ Len(Method(p)[1]) = 1
    /\ pc' = "called"
    /\ overloads' = Method(p)
    /\ LET T == Method(p)[1][1] IN
        \E j \in JavaValues(T) : origin' = <<T, j>> /\ args' = <<Returned(T, j)>>
    /\ UNCHANGED <<object, field, content, chosens, result>>

UseField(p, values) ==
    /\ p \in Used({"field"})
    /\ Len(values) = 1
    /\ pc' = "called"
    /\ field' = class.fields[table[p][2]]
    /\ content' \in JavaValues(field'.type)
    /\ args' = values
    /\ UNCHANGED <<object, overloads, origin, chosens, result>>

-----------------------------------------------------------------------------
(***************************************************************************)
(* Calls                                                                   *)
(***************************************************************************)
\* arguments_match
Accepts(signature, allow) ==
    /\ Len(args) = Len(signature)
    /\ \A i \in DOMAIN signature :
          \/ Matches(signature[i], args[i])
          \/ allow /\ signature[i].of = "Object" /\ ~signature[i].array

Candidates(allow) == {i \in DOMAIN overloads : Accepts(overloads[i], allow)}
First(S) == CHOOSE i \in S : \A k \in S : i <= k

Choose(allow) ==
    /\ Candidates(allow) # {}
    /\ chosen' = overloads[First(Candidates(allow))]
    /\ pc' = "chosen"
    /\ UNCHANGED <<member, content, java, result>>

\* Mutant: objects are allowed at once.
FindMatching_ObjectsFirst ==
    /\ pc = "called"
    /\ overloads # None
    /\ Choose(TRUE)

\* The first pass; Object accepts null and Java objects only.
FindMatching ==
    /\ pc = "called"
    /\ overloads # None
    /\ \/ Choose(FALSE)
       \/ /\ Candidates(FALSE) = {}
          /\ pc' = "again"
          /\ UNCHANGED <<member, content, chosens, result>>

\* The second pass; Object accepts everything.
FindMatchingObjects ==
    /\ pc = "again"
    /\ \/ Choose(TRUE)
       \/ /\ Candidates(TRUE) = {}
          /\ pc' = "refused"
          /\ UNCHANGED <<member, content, chosens, result>>

\* call_context_to_java_args; one argument that cannot be converted fails the call.
ConvertArguments ==
    /\ pc = "chosen"
    /\ java' = [i \in DOMAIN chosen |-> ToJava(chosen[i], args[i])]
    /\ pc' = IF \E i \in DOMAIN chosen : java'[i] = Error THEN "failed" ELSE "converted"
    /\ UNCHANGED <<member, content, chosen, result>>

\* ClassMethod::call and call_static, and the conversion of what they return.
Invoke ==
    /\ pc = "converted"
    /\ java # <<>> => Described(chosen[1], java[1])
    /\ pc' = "returned"
    /\ result' = IF java = <<>> THEN Undefined ELSE Returned(chosen[1], java[1])
    /\ UNCHANGED <<member, content, chosens>>

\* The method throws; a void one returns nothing.
InvokeFails ==
    /\ pc = "converted"
    /\ pc' = "thrown"
    /\ UNCHANGED <<member, content, chosens, result>>

-----------------------------------------------------------------------------
(***************************************************************************)
(* Fields: the value is converted without asking whether it matches.       *)
(***************************************************************************)
\* ClassField::set and set_static.
Write(j) == ~field.final /\ content' = j

SetField ==
    /\ pc = "called"
    /\ field # None
    /\ ~field.final
    /\ LET j == ToJava(field.type, args[1]) IN
        \/ j = Error /\ pc' = "failed" /\ UNCHANGED content
        \/ j # Error /\ pc' = "stored" /\ Write(j)
    /\ UNCHANGED <<member, chosens, result>>

\* A final field has no setter.
SetFinalField ==
    /\ pc = "called"
    /\ field # None
    /\ field.final
    /\ pc' = "refused"
    /\ UNCHANGED <<member, content, chosens, result>>

GetField ==
    /\ pc \in {"called", "stored"}
    /\ field # None
    /\ Described(field.type, content)
    /\ pc' = "read"
    /\ result' = Returned(field.type, content)
    /\ UNCHANGED <<member, content, chosens>>

Next ==
    \/ \E n \in DOMAIN class.methods : AttachMethod(n)
    \/ AttachFields \/ AttachInstanceOf
    \/ \E p \in Used({"sync", "async"}) : PassOn(p) \/ \E values \in Arguments : Call(p, values)
    \/ \E p \in Used({"field"}), values \in Arguments : UseField(p, values)
    \/ FindMatching \/ FindMatchingObjects \/ ConvertArguments \/ Invoke \/ InvokeFails
    \/ SetField \/ SetFinalField \/ GetField

Spec == Init /\ [][Next]_vars

-----------------------------------------------------------------------------
(***************************************************************************)
(* What v and j have to do with each other, told from the values alone.    *)
(***************************************************************************)
SameScalar(v, j) ==
    IF IsWrapper(v) THEN v[2][2] = j
    ELSE CASE j = Null             -> v \in {Null, Undefined}
           [] j[1] = "long"        -> v \in {<<"number", 2 * j[2]>>, <<"bigint", j[2]>>}
           [] j[1] \in Integral \ {"long"} -> v = <<"number", 2 * j[2]>>
           [] j[1] \in {"float", "double"} -> v = <<"number", j[2]>>
           [] j[1] = "char"        -> v = <<"string", <<j[2]>>>>
           [] j[1] = "String"      -> v = <<"string", j[2]>>
           [] OTHER                -> v = j

Same(v, j) ==
    IF j[1] = "array"
    THEN /\ v[1] \in {"array", "buffer"}
         /\ Len(v[2]) = Len(j[2])
         /\ \A i \in DOMAIN j[2] :
               IF v[1] = "array" THEN SameScalar(v[2][i], j[2][i])
               ELSE v[2][i] >= 0 /\ Wrap(v[2][i], Size["byte"]) = j[2][i][2]
    ELSE SameScalar(v, j)

\* The values that a type has: whole numbers in range, and so on.  Object has
\* every one, as a Long, a Double, a BigInteger or whatever it takes.
ExactScalar(T, v) ==
    CASE v[1] = "number" /\ T.of \in Integral -> Whole(v[2]) /\ InRange(v[2] \div 2, T.of)
      [] v[1] = "number" /\ T.of = "float"    -> Rounded(v[2], FloatSize) = v[2]
      [] v[1] = "bigint" /\ T.of = "long"     -> InRange(v[2], "long")
      [] OTHER -> TRUE

\* An array has the values of one kind, but for an array of objects.
Exact(T, v) ==
    IF v[1] = "array"
    THEN \A i \in DOMAIN v[2] :
            /\ ExactScalar(Inner(T), v[2][i])
            /\ T.array /\ T.of # "Object" => MatchesScalar(Inner(T), v[2][i])
    ELSE ExactScalar(T, v)

\* A number that is passed as an Object and becomes a wrong Integer or Long,
\* without an error: whole numbers are made Integers and BigInts Longs, of
\* whatever size they are (java_type_ext.rs:247-262).
Spoilt(T, v) ==
    /\ T.of = "Object"
    /\ \/ v[1] = "number" /\ Whole(v[2]) /\ ~InRange(v[2] \div 2, "int")
       \/ v[1] = "bigint" /\ ~InRange(v[2], "long")

\* Values that the type has and that arrive as others: such numbers, and null
\* among Integers or Strings, which becomes 0 or "null".
Corrupted(T, v) ==
    IF v[1] = "array"
    THEN \E i \in DOMAIN v[2] :
            Spoilt(T, v[2][i]) \/ (v[2][i] \in {Null, Undefined} /\ T.of \in Primitive \union {"String"})
    ELSE Spoilt(T, v)

\* Whether all longs became BigInts, and the type for which they do not.
LongsAreBigInts(v, j) ==
    IF j[1] = "array" THEN \A i \in DOMAIN j[2] : j[2][i][1] = "long" => v[2][i][1] = "bigint"
                      ELSE j[1] = "long" => v[1] = "bigint"
PrimitiveLongs(T) == T.array /\ T.of = "long" /\ ~T.boxed

-----------------------------------------------------------------------------
(***************************************************************************)
(* Properties                                                              *)
(***************************************************************************)
\* Every member is found under its names, unless the names of two clash: fields
\* come before methods, and of a method fooSync and the other form of foo one does.
MembersFound ==
    pc \notin {"attaching", "attached"} =>
        /\ \A n \in DOMAIN class.fields : table[n] = <<"field", n>>
        /\ \A n \in DOMAIN class.methods : \A p \in Names(n) :
              /\ p \in DOMAIN table
              /\ \/ table[p] = <<IF p = n THEN "async" ELSE "sync", n>>
                 \/ p \in DOMAIN class.fields
                 \/ \E m \in DOMAIN class.methods \ {n} :
                       p \in Names(m) /\ table[p] = <<IF p = m THEN "async" ELSE "sync", m>>

\* An overload that needs no leave for objects is preferred, and a call is
\* refused only if no overload takes its arguments.
SpecificFirst ==
    /\ chosen # None /\ Candidates(FALSE) # {} =>
          \E i \in Candidates(FALSE) : chosen = overloads[i]
    /\ pc = "refused" /\ overloads # None => Candidates(TRUE) = {}

\* What a parameter accepts and cannot be converted to it: a string for a char,
\* although src/README.md:266-267 has it for the way to pass one (see
\* CharsAsDocumented), an array that is not of the kind of its first element,
\* BigInts for a long[], and for Object what is neither data nor a Java object.
Unconvertible(T, v) ==
    \/ T.of = "char" /\ ~T.array /\ v[1] = "string"
    \/ T.of = "char" /\ T.array /\ T.boxed
    \/ T.array /\ v[1] = "array" /\ \E i \in DOMAIN v[2] :
          \/ ~MatchesScalar(Inner(T), v[2][i])
          \/ IsPrimitive(Inner(T)) /\ v[2][i][1] \in {"bigint", "wrapper"}
    \/ T.of = "Object" /\ ~T.array /\
          \/ v[1] \in {"plain", "buffer", "function"}
          \/ v[1] = "array" /\ \E i \in DOMAIN v[2] : v[2][i][1] \in {"plain", "buffer", "function"}

\* A call for which an overload was found fails before it reaches Java for
\* these reasons only.
AcceptedConverts ==
    pc = "failed" /\ overloads # None => \E i \in DOMAIN chosen : Unconvertible(chosen[i], args[i])

\* Java gets the values it was passed, whichever overload was taken, if the
\* types of the parameters have them and they are not Corrupted: the code breaks
\* this for large numbers passed as an Object and for null in an Integer[] or a
\* String[].  Fields likewise.
ArgumentsArrive ==
    /\ pc \in {"converted", "returned", "thrown"} =>
          \A i \in DOMAIN chosen :
              Exact(chosen[i], args[i]) /\ ~Corrupted(chosen[i], args[i]) => Same(args[i], java[i])
    /\ pc = "stored" /\ Matches(field.type, args[1]) =>
          (Exact(field.type, args[1]) /\ ~Corrupted(field.type, args[1]) => Same(args[1], content))

\* Lost are the longs of a long[] that no JS number has, and null among Bytes,
\* which a Buffer cannot contain.
Returnable(T, j) ==
    j[1] = "array" => \A i \in DOMAIN j[2] :
        /\ PrimitiveLongs(T) => Rounded(2 * j[2][i][2], DoubleSize) = 2 * j[2][i][2]
        /\ T.of = "byte" => j[2][i] # Null

\* JS gets the values Java returns, and gets longs as BigInts but for a long[],
\* which src/README.md:277 does not except (see LongsAsDocumented).
Arrived(T, v, j) == Same(v, j) /\ (LongsAreBigInts(v, j) \/ PrimitiveLongs(T))

ResultsArrive ==
    /\ pc = "returned" /\ java # <<>> /\ Returnable(chosen[1], java[1]) => Arrived(chosen[1], result, java[1])
    /\ pc = "read" /\ Returnable(field.type, content) => Arrived(field.type, result, content)

\* A string of one character that is passed for a char or a Character is
\* converted to it (src/README.md:266-267), and a long that Java returns is
\* always a BigInt, in an array, too (src/README.md:277, 280).  The code
\* refuses the former (java_type_ext.rs:209, 378) and has plain numbers for the
\* latter in a long[] (java_call_result_ext.rs:206-211).
CharsAsDocumented ==
    java # None =>
        \A i \in DOMAIN chosen :
            chosen[i].of = "char" /\ ~chosen[i].array /\ args[i][1] = "string" /\ Len(args[i][2]) = 1 =>
                java[i] = <<"char", args[i][2][1]>>
LongsAsDocumented == pc = "returned" /\ java # <<>> => LongsAreBigInts(result, java[1])

ValuesAsDocumented == CharsAsDocumented /\ LongsAsDocumented

\* The types whose values come back when they are passed on as they were
\* returned.  The others are not accepted (short, Short, Byte[], Object[] of
\* data, Number), not converted (char) or come back as another type (a Byte
\* that was returned as an Object).
Stable(T, j) ==
    /\ T.of # "short"
    /\ T.of = "char" => T.array /\ ~T.boxed
    /\ T.of = "byte" /\ T.array => ~T.boxed
    /\ IF j[1] = "array"
       THEN /\ Returnable(T, j)
            /\ \A i \in DOMAIN j[2] : IF T.of \in Primitive \union {"String"}
                                      THEN j[2][i] # Null
                                      ELSE j[2][i] = Null \/ j[2][i][1] \in Classes
       ELSE /\ T.of = "Object" /\ j[1] = "double" => ~Whole(j[2])
            /\ T.of = "Object" => j[1] \notin {"byte", "short", "float", "char"}
            /\ T.of \in Classes => j = Null \/ j[1] \in Classes

\* Such a value comes back as it was.
ComesBack ==
    origin # None /\ Stable(origin[1], origin[2]) =>
        /\ pc \notin {"refused", "failed"}
        /\ java # None => java = <<origin[2]>>
=============================================================================
