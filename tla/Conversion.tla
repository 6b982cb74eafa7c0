----------------------------- MODULE Conversion -----------------------------
(***************************************************************************)
(* Values between JS and Java: the overload check js_equals, and the       *)
(* conversions convert_to_java_value, convert_to_java_object,              *)
(* array_to_java_value (node/extensions/java_type_ext.rs) and              *)
(* to_napi_value, object_to_napi_value, resolve_object_type,               *)
(* array_to_napi_value (node/extensions/java_call_result_ext.rs).          *)
(*                                                                         *)
(* A value, of JS or of Java, is a pair of its kind and its contents.      *)
(* Floating point numbers, which all JS numbers are, are counted in        *)
(* halves, so that 3 stands for 1.5; sizes are those of the constants.     *)
(***************************************************************************)
EXTENDS Integers, Sequences, TLC

CONSTANTS
    Size,           \* how many values byte, short, int and long have
    FloatSize,      \* how many significands float has
    DoubleSize,     \* and double and JS numbers
    Powers,         \* the powers of two
    NaN,
    Classes,        \* classes of the program
    Supers          \* class -> itself and the classes it extends

Integral  == {"byte", "short", "int", "long"}
Primitive == Integral \union {"float", "double", "boolean", "char"}
Kinds     == Primitive \union {"String"} \union Classes

ASSUME SizesAssumption ==
    /\ Size \in [Integral -> Nat \ {0}]
    /\ \A of \in Integral : Size[of] % 2 = 0
    /\ Size["byte"] <= Size["short"] /\ Size["short"] <= Size["int"] /\ Size["int"] <= Size["long"]
ASSUME NaNAssumption == NaN \notin Int

\* Boxes of primitives and String are final; Number is one of the classes.
ASSUME ClassesAssumption ==
    /\ Classes \intersect (Primitive \union {"String", "Object", "array", "null"}) = {}
    /\ Supers \in [Kinds -> SUBSET Kinds]
    /\ \A k \in Kinds : k \in Supers[k] /\ \A c \in Supers[k] \ {k} : c \in Classes /\ Supers[c] \subseteq Supers[k]

\* Java types: of is a primitive, String, Object or a class, boxed tells
\* java.lang.Integer from int, array is for arrays of it.
Types == [of : Primitive, boxed : BOOLEAN, array : BOOLEAN]
    \union [of : {"String", "Object"} \union Classes, boxed : {FALSE}, array : BOOLEAN]

Inner(T) == [T EXCEPT !.array = FALSE]
IsPrimitive(T) == T.of \in Primitive /\ ~T.boxed /\ ~T.array

Null      == <<"null">>
Undefined == <<"undefined">>
Error     == <<"error">>

\* JS values that stand for a Java object: contents are the class their
\* class.proxy is of, and the object.
IsWrapper(v) == v[1] = "wrapper"
IsObject(v)  == v[1] \in {"wrapper", "array", "buffer", "plain"}

-----------------------------------------------------------------------------
(***************************************************************************)
(* Numbers                                                                 *)
(***************************************************************************)
Wrap(n, size) == ((n + size \div 2) % size) - size \div 2

Low(of)  == -(Size[of] \div 2)
High(of) == Size[of] \div 2 - 1
InRange(n, of) == n \in Low(of) .. High(of)

Whole(h)     == h # NaN /\ h % 2 = 0
Truncated(h) == IF h >= 0 THEN h \div 2 ELSE -((-h) \div 2)

\* What numbers of that magnitude are multiples of.
Units(magnitude, significands) ==
    {u \in Powers : magnitude < u * significands /\ (u = 1 \/ magnitude >= (u \div 2) * significands)}
Unit(magnitude, significands) == CHOOSE u \in Units(magnitude, significands) : TRUE

\* A long is not beyond the range of the doubles.
ASSUME PowersAssumption ==
    /\ Powers \subseteq Nat \ {0}
    /\ \A magnitude \in 0 .. Size["long"] : Units(magnitude, DoubleSize) # {}

\* The nearest number with that many significands, ties to even.
Rounded(h, significands) ==
    IF h = NaN THEN NaN
    ELSE LET unit == Unit(IF h < 0 THEN -h ELSE h, significands)
             down == h \div unit
             rest == h % unit
             up   == 2 * rest > unit \/ (2 * rest = unit /\ down % 2 = 1)
         IN  unit * (IF up THEN down + 1 ELSE down)

\* get_int32, modulo 2^32 in the code, and get_int64, up to the bounds; NaN is zero.
Int32(h) == IF h = NaN THEN 0 ELSE Wrap(Truncated(h), Size["int"])
\* Mutant: a long is read as an int.
Int64_AsInt32(h) == Int32(h)

Int64(h) ==
    CASE h = NaN -> 0
      [] h # NaN /\ Truncated(h) < Low("long")  -> Low("long")
      [] h # NaN /\ Truncated(h) > High("long") -> High("long")
      [] OTHER -> Truncated(h)

\* coerce_to_number of a value that is neither an object nor a BigInt; the
\* strings considered are no numerals.
Number(v) ==
    CASE v[1] = "number"  -> v[2]
      [] v[1] = "boolean" -> IF v[2] THEN 2 ELSE 0
      [] v = Null \/ v = <<"string", <<>>>> -> 0
      [] OTHER            -> NaN

-----------------------------------------------------------------------------
(***************************************************************************)
(* The values considered.  An object is a class and an identity; an array  *)
(* has no arrays among its elements.                                       *)
(***************************************************************************)
JavaScalars ==
    (UNION {{of} \X (Low(of) .. High(of)) : of \in Integral})
    \union {"float"} \X {h \in Int \union {NaN} : Rounded(h, FloatSize) = h}
    \union {"double"} \X (Int \union {NaN})
    \union {"boolean"} \X BOOLEAN
    \union {"char"} \X STRING
    \union {"String"} \X Seq(STRING)
    \union Classes \X STRING

JavaObjects == {Null} \union JavaScalars \union {"array"} \X Seq(JavaScalars \union {Null})

JsScalars ==
    {Null, Undefined, <<"plain">>, <<"function">>}
    \union {"number"} \X (Int \union {NaN})
    \union {"bigint"} \X Int
    \union {"boolean"} \X BOOLEAN
    \union {"string"} \X Seq(STRING)
    \union {"buffer"} \X Seq(0 .. Size["byte"] - 1)
    \union {"wrapper"} \X {w \in Kinds \X JavaScalars : w[1] \in Supers[w[2][1]]}

JsValues == JsScalars \union {"array"} \X Seq(JsScalars)

-----------------------------------------------------------------------------
(***************************************************************************)
(* Overload check                                                          *)
(***************************************************************************)
IsA(cls, T) == T.of = "Object" \/ T.of \in Supers[cls]

\* Mutant: any Java object is accepted for a reference type.
MatchesScalar_AnyObject(T, v) ==
    CASE v[1] = "string"  -> T.of = "String" \/ (T.of = "char" /\ Len(v[2]) = 1)
      [] v[1] = "number"  -> T.of \in {"int", "long", "float", "double"}
      [] v[1] = "boolean" -> T.of = "boolean"
      [] v[1] = "bigint"  -> T.of = "long"
      [] OTHER -> v[1] \in {"null", "undefined", "wrapper"} /\ ~IsPrimitive(T)

\* Mutant: BigInts are not accepted.
MatchesScalar_NoBigInt(T, v) ==
    CASE v[1] = "string"  -> T.of = "String" \/ (T.of = "char" /\ Len(v[2]) = 1)
      [] v[1] = "number"  -> \/ T.of \in {"int", "long", "float", "double"}
                             \/ T.of = "byte" /\ Whole(v[2]) /\ InRange(v[2] \div 2, "byte")
      [] v[1] = "boolean" -> T.of = "boolean"
      [] v[1] \in {"null", "undefined"} -> ~IsPrimitive(T)
      [] v[1] = "wrapper" -> IsA(v[2][1], T)
      [] OTHER -> FALSE

\* A boxed class is asked for by a primitive type, too.
MatchesScalar(T, v) ==
    CASE v[1] = "string"  -> T.of = "String" \/ (T.of = "char" /\ Len(v[2]) = 1)
      [] v[1] = "number"  -> \/ T.of \in {"int", "long", "float", "double"}
                             \/ T.of = "byte" /\ Whole(v[2]) /\ InRange(v[2] \div 2, "byte")
      [] v[1] = "boolean" -> T.of = "boolean"
      [] v[1] = "bigint"  -> T.of = "long"
      [] v[1] \in {"null", "undefined"} -> ~IsPrimitive(T)
      [] v[1] = "wrapper" -> IsA(v[2][1], T)
      [] OTHER -> FALSE

\* Mutant: a Buffer is accepted for a Byte[].
Matches_AnyBytes(T, v) ==
    CASE ~T.array -> MatchesScalar(T, v)
      [] T.array /\ v[1] = "array"  -> v[2] = <<>> \/ MatchesScalar(Inner(T), v[2][1])
      [] T.array /\ v[1] = "buffer" -> T.of = "byte"
      [] OTHER -> v \in {Null, Undefined}

\* js_equals
Matches(T, v) ==
    CASE ~T.array -> MatchesScalar(T, v)
      [] T.array /\ v[1] = "array"  -> v[2] = <<>> \/ MatchesScalar(Inner(T), v[2][1])
      [] T.array /\ v[1] = "buffer" -> T.of = "byte" /\ ~T.boxed
      [] OTHER -> v \in {Null, Undefined}

-----------------------------------------------------------------------------
(***************************************************************************)
(* From JS to Java                                                         *)
(***************************************************************************)
\* The UTF-16 units of what coerce_to_string makes of a value; as a slice they
\* are followed by a zero.
Text(v) ==
    CASE v[1] = "string" -> v[2]
      [] v[1] = "number" /\ Whole(v[2]) /\ v[2] \div 2 \in 0 .. 9 -> <<ToString(v[2] \div 2)>>
      [] OTHER -> <<v[1], "...">>

Slice(v) == Append(Text(v), "0")

\* A primitive, or what is put into its box.
Basic(of, v) ==
    CASE of = "long" /\ v[1] = "bigint" -> <<of, Wrap(v[2], Size[of])>>
      [] of = "boolean" -> <<of, CASE v[1] = "boolean" -> v[2]
                                   [] v[1] = "string" -> v[2] # <<>>
                                   [] v[1] = "number" -> v[2] \notin {0, NaN}
                                   [] v[1] = "bigint" -> v[2] # 0
                                   [] OTHER -> v[1] = "function">>
      [] of = "char"    -> IF Len(Slice(v)) = 1 THEN <<of, Slice(v)[1]>> ELSE Error
      [] of = "String"  -> <<of, Text(v)>>
      [] v[1] = "bigint" /\ of \notin {"boolean", "char", "String", "long"} -> Error
      [] v[1] # "bigint" /\ of \in {"byte", "short", "int"} -> <<of, Wrap(Int32(Number(v)), Size[of])>>
      [] v[1] # "bigint" /\ of = "long" -> <<of, Int64(Number(v))>>
      [] v[1] # "bigint" /\ of = "float" -> <<of, Rounded(Number(v), FloatSize)>>
      [] v[1] # "bigint" /\ of = "double" -> <<of, Number(v)>>

\* convert_to_java_object for Object and for classes, without arrays.
Reference(T, v) ==
    CASE v[1] \in {"null", "undefined"} -> Null
      [] v[1] = "number"  -> Basic(IF Whole(v[2]) THEN "int" ELSE "double", v)
      [] v[1] = "bigint"  -> Basic("long", v)
      [] v[1] = "boolean" -> Basic("boolean", v)
      [] v[1] = "string"  -> Basic("String", v)
      [] v[1] = "wrapper" -> IF IsA(v[2][2][1], T) THEN v[2][2] ELSE Error
      [] OTHER -> Error

\* convert_to_java_object for what is not an array type.
ToObject(T, v) ==
    IF T.of \notin Primitive \union {"String"} THEN Reference(T, v)
    ELSE CASE IsWrapper(v)                  -> v[2][2]
           [] IsObject(v) /\ ~IsWrapper(v) -> Error
           [] ~IsObject(v)                  -> Basic(T.of, v)

AllOrError(values) ==
    IF \E i \in DOMAIN values : values[i] = Error THEN Error ELSE <<"array", values>>

\* Elements of primitive arrays are read as the JS type they should have.
Element(T, v) ==
    IF ~IsPrimitive(T) THEN ToObject(T, v)
    ELSE CASE T.of = "boolean" -> IF v[1] = "boolean" THEN v ELSE Error
           [] T.of = "char" -> IF v[1] = "string" /\ Len(Slice(v)) = 2 /\ Slice(v)[2] = "0"
                               THEN <<"char", Slice(v)[1]>> ELSE Error
           [] OTHER -> IF v[1] = "number" THEN Basic(T.of, v) ELSE Error

\* The JVM refuses to store what is not of the type of the elements.
Stored(T, j) ==
    IF j \in {Null, Error} \/ IsPrimitive(T) \/ T.of = j[1] \/ IsA(j[1], T) THEN j ELSE Error

\* array_to_java_value
ToArray(T, v) ==
    CASE v[1] = "buffer" /\ T.of = "byte" /\ ~T.boxed ->
            <<"array", [i \in DOMAIN v[2] |-> <<"byte", Wrap(v[2][i], Size["byte"])>>]>>
      [] v[1] = "array" ->
            AllOrError([i \in DOMAIN v[2] |-> Stored(Inner(T), Element(Inner(T), v[2][i]))])
      [] OTHER -> Error

\* An array for a parameter of type Object becomes an array of objects.
ToObjects(T, v) ==
    AllOrError([i \in DOMAIN v[2] |-> Reference(T, v[2][i])])

\* convert_to_java_value
ToJava(T, v) ==
    CASE IsPrimitive(T) /\ IsWrapper(v) -> IF v[2][2][1] = T.of THEN v[2][2] ELSE Error
      [] IsPrimitive(T) /\ ~IsWrapper(v) -> IF IsObject(v) THEN Error ELSE Basic(T.of, v)
      [] ~IsPrimitive(T) /\ v \in {Null, Undefined} -> Null
      [] T.array /\ v \notin {Null, Undefined} -> ToArray(T, v)
      [] v[1] = "array" /\ ~T.array /\ T.of \in {"Object"} \union Classes -> ToObjects(T, v)
      [] OTHER -> ToObject(T, v)

-----------------------------------------------------------------------------
(***************************************************************************)
(* From Java to JS                                                         *)
(***************************************************************************)
\* Mutant: a long becomes a number like any other.
Scalar_PlainLongs(j) ==
    CASE j[1] = "boolean" -> j
      [] j[1] = "char"    -> <<"string", <<j[2]>>>>
      [] j[1] = "String"  -> <<"string", j[2]>>
      [] j[1] \in {"float", "double"} -> <<"number", j[2]>>
      [] OTHER -> <<"number", 2 * j[2]>>

\* Boxed or not, and whatever type it was declared as.
Scalar(j) ==
    CASE j[1] = "boolean" -> j
      [] j[1] = "long"    -> <<"bigint", j[2]>>
      [] j[1] = "char"    -> <<"string", <<j[2]>>>>
      [] j[1] = "String"  -> <<"string", j[2]>>
      [] j[1] \in {"float", "double"} -> <<"number", j[2]>>
      [] OTHER -> <<"number", 2 * j[2]>>

\* Objects are seen as the class they were declared to be, or as their own.
Wrapped(T, j) == <<"wrapper", <<IF T.of = "Object" THEN j[1] ELSE T.of, j>>>>

ToJs(T, j) ==
    CASE j = Null -> Null
      [] j[1] \in Primitive \union {"String"} -> Scalar(j)
      [] OTHER -> Wrapped(T, j)

\* array_to_napi_value: bytes become a Buffer, longs become plain numbers.
ArrayToJs(T, elements) ==
    CASE T.of = "byte" ->
            <<"buffer", [i \in DOMAIN elements |->
                IF elements[i] = Null THEN 0 ELSE elements[i][2] % Size["byte"]]>>
      [] IsPrimitive(T) /\ T.of = "long" ->
            <<"array", [i \in DOMAIN elements |->
                <<"number", Rounded(2 * elements[i][2], DoubleSize)>>]>>
      [] OTHER -> <<"array", [i \in DOMAIN elements |-> ToJs(T, elements[i])]>>

\* to_napi_value
Returned(T, j) == IF j[1] = "array" /\ T.array THEN ArrayToJs(Inner(T), j[2]) ELSE ToJs(T, j)
=============================================================================
