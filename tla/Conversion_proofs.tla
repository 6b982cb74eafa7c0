-------------------------- MODULE Conversion_proofs --------------------------
(***************************************************************************)
(* What the conversions of Conversion do, for any sizes of the numbers,    *)
(* any classes and any values: which values are converted, to what, and    *)
(* that a value converted back and forth stays what it was.  Exact,        *)
(* Corrupted, Same, Returnable, Arrived, Stable and Unconvertible are      *)
(* those of JavaCalls.                                                     *)
(***************************************************************************)
EXTENDS JavaCalls, TLAPS

-----------------------------------------------------------------------------
(***************************************************************************)
(* Numbers                                                                 *)
(***************************************************************************)
LEMMA Remainder ==
    ASSUME NEW m \in Nat \ {0}, NEW r \in 0 .. m - 1
    PROVE  r % m = r /\ (r + m) % m = r
  OBVIOUS

\* A size is twice the number of its positive values and zero.
LEMMA Halves ==
    ASSUME NEW of \in Integral
    PROVE  \E half \in Nat \ {0} : /\ Size[of] = 2 * half /\ Size[of] \div 2 = half
                                   /\ Low(of) = -half /\ High(of) = half - 1
<1>1. Size[of] \in Nat \ {0} /\ Size[of] % 2 = 0
  BY SizesAssumption
<1>2. Size[of] \div 2 \in Nat \ {0} /\ Size[of] = 2 * (Size[of] \div 2)
  BY <1>1
<1>3. QED
  BY <1>2 DEF Low, High

LEMMA WrapInRange ==
    ASSUME NEW of \in Integral, NEW n \in Int
    PROVE  InRange(Wrap(n, Size[of]), of)
<1>1. PICK half \in Nat \ {0} : /\ Size[of] = 2 * half /\ Size[of] \div 2 = half
                                /\ Low(of) = -half /\ High(of) = half - 1
  BY Halves
<1>2. (n + half) % (2 * half) \in 0 .. 2 * half - 1
  OBVIOUS
<1>3. QED
  BY <1>1, <1>2 DEF Wrap, InRange

\* Numbers of a type are not changed by wrapping.
LEMMA WrapStays ==
    ASSUME NEW of \in Integral, NEW n, InRange(n, of)
    PROVE  n \in Int /\ Wrap(n, Size[of]) = n
<1>1. PICK half \in Nat \ {0} : /\ Size[of] = 2 * half /\ Size[of] \div 2 = half
                                /\ Low(of) = -half /\ High(of) = half - 1
  BY Halves
<1>2. n \in Int /\ n + half \in 0 .. 2 * half - 1
  BY <1>1 DEF InRange
<1>3. (n + half) % (2 * half) = n + half
  BY <1>2, Remainder
<1>4. QED
  BY <1>1, <1>2, <1>3 DEF Wrap

\* A byte that is made unsigned, and signed again, is the same.
LEMMA BytesReturn ==
    ASSUME NEW n, InRange(n, "byte")
    PROVE  /\ n % Size["byte"] \in 0 .. Size["byte"] - 1
           /\ Wrap(n % Size["byte"], Size["byte"]) = n
<1> "byte" \in Integral
  BY DEF Integral
<1>1. PICK half \in Nat \ {0} : /\ Size["byte"] = 2 * half /\ Size["byte"] \div 2 = half
                                /\ Low("byte") = -half /\ High("byte") = half - 1
  BY Halves
<1>2. n \in -half .. half - 1
  BY <1>1 DEF InRange
<1>3. CASE n >= 0
  <2>1. n % (2 * half) = n
    BY <1>2, <1>3
  <2>2. QED
    BY <1>1, <1>2, <1>3, <2>1, WrapStays
<1>4. CASE n < 0
  <2>1. n + 2 * half \in 0 .. 2 * half - 1 /\ n + half \in 0 .. 2 * half - 1
    BY <1>2, <1>4
  <2>2. n % (2 * half) = n + 2 * half
    BY <1>2, <2>1
  <2>3. (n + half + 2 * half) % (2 * half) = n + half
    BY <2>1, Remainder
  <2>4. n + 2 * half + half = n + half + 2 * half
    BY <1>2
  <2>5. QED
    BY <1>1, <1>2, <2>1, <2>2, <2>3, <2>4 DEF Wrap
<1>5. QED
  BY <1>2, <1>3, <1>4

\* A whole number of halves.
LEMMA WholeNumbers ==
    ASSUME NEW n \in Int
    PROVE  (2 * n) % 2 = 0 /\ (2 * n) \div 2 = n /\ Truncated(2 * n) = n
  BY DEF Truncated

LEMMA TruncatedIsInt ==
    ASSUME NEW h \in Int
    PROVE  Truncated(h) \in Int
  BY DEF Truncated

LEMMA WholeIsTwice ==
    ASSUME NEW h \in Int, h % 2 = 0
    PROVE  h \div 2 \in Int /\ h = 2 * (h \div 2)
  OBVIOUS

\* What is read of a JS number as int is the number, if the type has it.
LEMMA Int32Exact ==
    ASSUME NEW of \in {"byte", "int"}, NEW h \in Int, Whole(h), InRange(h \div 2, of)
    PROVE  Wrap(Int32(h), Size[of]) = h \div 2
<1>1. h # NaN /\ h % 2 = 0
  BY NaNAssumption DEF Whole
<1>2. PICK n \in Int : h = 2 * n /\ h \div 2 = n /\ Truncated(h) = n
  BY <1>1, WholeIsTwice, WholeNumbers
<1>3. InRange(n, of) /\ InRange(n, "int")
  <2>1. Size["byte"] <= Size["int"] /\ Size["byte"] \in Nat /\ Size["int"] \in Nat
    BY SizesAssumption DEF Integral
  <2>2. QED
    BY <1>2, <2>1 DEF InRange, Low, High
<1>4. Int32(h) = Wrap(n, Size["int"])
  BY <1>1, <1>2 DEF Int32
<1>5. QED
  BY <1>2, <1>3, <1>4, WrapStays DEF Integral

LEMMA Int64Exact ==
    ASSUME NEW h \in Int, Whole(h), InRange(h \div 2, "long")
    PROVE  Int64(h) = h \div 2
<1>1. h # NaN /\ h % 2 = 0
  BY NaNAssumption DEF Whole
<1>2. PICK n \in Int : h = 2 * n /\ h \div 2 = n /\ Truncated(h) = n
  BY <1>1, WholeIsTwice, WholeNumbers
<1>3. Size["long"] \in Nat /\ Low("long") \in Int /\ High("long") \in Int
  BY SizesAssumption DEF Integral, Low, High
<1>4. ~(n < Low("long")) /\ ~(n > High("long"))
  BY <1>2, <1>3 DEF InRange
<1>5. QED
  BY <1>1, <1>2, <1>4 DEF Int64

-----------------------------------------------------------------------------
(***************************************************************************)
(* Kinds of values                                                         *)
(***************************************************************************)
LEMMA Pairs ==
    ASSUME NEW K, NEW S, NEW v \in K \X S
    PROVE  v = <<v[1], v[2]>> /\ v[1] \in K /\ v[2] \in S
  OBVIOUS

LEMMA JsKinds ==
    ASSUME NEW v \in JsScalars
    PROVE  \/ v \in {Null, Undefined, <<"plain">>, <<"function">>}
           \/ \E h \in Int \union {NaN} : v = <<"number", h>>
           \/ \E n \in Int : v = <<"bigint", n>>
           \/ \E b \in BOOLEAN : v = <<"boolean", b>>
           \/ \E s \in Seq(STRING) : v = <<"string", s>>
           \/ \E bytes \in Seq(0 .. Size["byte"] - 1) : v = <<"buffer", bytes>>
           \/ \E k \in Kinds, j \in JavaScalars : v = <<"wrapper", <<k, j>>>> /\ k \in Supers[j[1]]
<1>1. CASE v \in {"wrapper"} \X {w \in Kinds \X JavaScalars : w[1] \in Supers[w[2][1]]}
  <2>1. v = <<"wrapper", v[2]>> /\ v[2] \in {w \in Kinds \X JavaScalars : w[1] \in Supers[w[2][1]]}
    BY <1>1, Pairs
  <2>2. v[2] \in Kinds \X JavaScalars /\ v[2][1] \in Supers[v[2][2][1]]
    BY <2>1
  <2>3. v[2] = <<v[2][1], v[2][2]>> /\ v[2][1] \in Kinds /\ v[2][2] \in JavaScalars
    BY <2>2, Pairs
  <2>4. QED
    BY <2>1, <2>2, <2>3
<1>2. CASE v \in {"number"} \X (Int \union {NaN})
  <2>1. v = <<v[1], v[2]>> /\ v[1] = "number" /\ v[2] \in Int \union {NaN}
    BY <1>2, Pairs
  <2>2. QED
    BY <2>1
<1>3. CASE v \in {"bigint"} \X Int
  BY <1>3, Pairs
<1>4. CASE v \in {"boolean"} \X BOOLEAN
  BY <1>4, Pairs
<1>5. CASE v \in {"string"} \X Seq(STRING)
  BY <1>5, Pairs
<1>6. CASE v \in {"buffer"} \X Seq(0 .. Size["byte"] - 1)
  BY <1>6, Pairs
<1>7. QED
  BY <1>1, <1>2, <1>3, <1>4, <1>5, <1>6 DEF JsScalars

LEMMA JavaKinds ==
    ASSUME NEW j \in JavaScalars
    PROVE  \/ \E of \in Integral : j = <<of, j[2]>> /\ InRange(j[2], of)
           \/ j = <<"float", j[2]>> /\ j[2] \in Int \union {NaN} /\ Rounded(j[2], FloatSize) = j[2]
           \/ j = <<"double", j[2]>> /\ j[2] \in Int \union {NaN}
           \/ j = <<"boolean", j[2]>> /\ j[2] \in BOOLEAN
           \/ j = <<"char", j[2]>> /\ j[2] \in STRING
           \/ j = <<"String", j[2]>> /\ j[2] \in Seq(STRING)
           \/ j = <<j[1], j[2]>> /\ j[1] \in Classes /\ j[2] \in STRING
<1>1. CASE j \in UNION {{of} \X (Low(of) .. High(of)) : of \in Integral}
  <2>1. PICK of \in Integral : j \in {of} \X (Low(of) .. High(of))
    BY <1>1
  <2>2. j = <<of, j[2]>> /\ j[2] \in Low(of) .. High(of)
    BY <2>1, Pairs
  <2>3. QED
    BY <2>2 DEF InRange
<1>2. CASE j \in {"float"} \X {h \in Int \union {NaN} : Rounded(h, FloatSize) = h}
  <2>1. j = <<"float", j[2]>> /\ j[2] \in {h \in Int \union {NaN} : Rounded(h, FloatSize) = h}
    BY <1>2, Pairs
  <2>2. QED
    BY <2>1
<1>3. CASE j \in {"double"} \X (Int \union {NaN})
  BY <1>3, Pairs
<1>4. CASE j \in {"boolean"} \X BOOLEAN
  BY <1>4, Pairs
<1>5. CASE j \in {"char"} \X STRING
  BY <1>5, Pairs
<1>6. CASE j \in {"String"} \X Seq(STRING)
  BY <1>6, Pairs
<1>7. CASE j \in Classes \X STRING
  BY <1>7, Pairs
<1>8. QED
  BY <1>1, <1>2, <1>3, <1>4, <1>5, <1>6, <1>7 DEF JavaScalars

LEMMA JavaScalarsHaveKinds ==
    ASSUME NEW j \in JavaScalars
    PROVE  /\ j = <<j[1], j[2]>> /\ j[1] \in Kinds
           /\ j \notin {Null, Undefined, Error} /\ j[1] \notin {"array", "Object"}
<1>1. j = <<j[1], j[2]>> /\ j[1] \in Primitive \union {"String"} \union Classes
  BY JavaKinds DEF Primitive, Integral
<1>2. QED
  BY <1>1, ClassesAssumption DEF Kinds, Primitive, Integral, Null, Undefined, Error

\* What a class extends, what it extends extends.
LEMMA SupersAreTransitive ==
    ASSUME NEW k \in Kinds, NEW c \in Supers[k]
    PROVE  c \in Kinds /\ Supers[c] \subseteq Supers[k]
  BY ClassesAssumption

\* Primitives and String are extended by nothing.
LEMMA FinalKinds ==
    ASSUME NEW k \in Kinds, NEW of \in Primitive \union {"String"}, of \in Supers[k]
    PROVE  k = of
  BY ClassesAssumption DEF Primitive, Integral

LEMMA InnerTypes ==
    ASSUME NEW T \in Types
    PROVE  /\ Inner(T) \in Types /\ Inner(T).of = T.of /\ Inner(T).boxed = T.boxed /\ ~Inner(T).array
           /\ T.of \in Primitive \union {"String", "Object"} \union Classes
           /\ T.of \notin Primitive => ~T.boxed
           /\ T.boxed \in BOOLEAN /\ T.array \in BOOLEAN
<1>1. CASE T \in [of : Primitive, boxed : BOOLEAN, array : BOOLEAN]
  BY <1>1 DEF Inner, Types
<1>2. CASE T \in [of : {"String", "Object"} \union Classes, boxed : {FALSE}, array : BOOLEAN]
  BY <1>2 DEF Inner, Types
<1>3. QED
  BY <1>1, <1>2 DEF Types

-----------------------------------------------------------------------------
(***************************************************************************)
(* To Java: primitives and boxes                                           *)
(***************************************************************************)
Nothing == {Null, Undefined}

LEMMA NumberConverts ==
    ASSUME NEW h \in Int \union {NaN}, NEW of \in Primitive \ {"boolean", "char"}
    PROVE  LET j == Basic(of, <<"number", h>>) IN
           /\ j = <<of, j[2]>>
           /\ of = "byte" => InRange(j[2], "byte")
           /\ of = "float" => j[2] = Rounded(h, FloatSize)
           /\ of = "double" => j[2] = h
           /\ of \in {"byte", "int", "long"} /\ Whole(h) /\ InRange(h \div 2, of) => j[2] = h \div 2
<1> DEFINE v == <<"number", h>>
<1>1. Number(v) = h
  BY DEF Number, Null
<1>2. CASE of \in {"byte", "short", "int"}
  <2>1. Basic(of, v) = <<of, Wrap(Int32(h), Size[of])>>
    BY <1>1, <1>2 DEF Basic
  <2>2. Int32(h) \in Int
    <3>1. h \in Int /\ h # NaN => Truncated(h) \in Int
      BY TruncatedIsInt
    <3>2. h \in Int /\ h # NaN => Wrap(Truncated(h), Size["int"]) \in Int
      BY <3>1, WrapInRange DEF Integral, InRange, Low, High
    <3>3. QED
      BY <3>2 DEF Int32
  <2>3. of = "byte" => InRange(Wrap(Int32(h), Size[of]), "byte")
    BY <2>2, WrapInRange DEF Integral
  <2>4. of \in {"byte", "int"} /\ Whole(h) /\ InRange(h \div 2, of) => Wrap(Int32(h), Size[of]) = h \div 2
    BY Int32Exact DEF Whole
  <2>5. QED
    BY <1>2, <2>1, <2>3, <2>4
<1>3. CASE of = "long"
  <2>1. Basic(of, v) = <<of, Int64(h)>>
    BY <1>1, <1>3 DEF Basic
  <2>2. Whole(h) /\ InRange(h \div 2, of) => Int64(h) = h \div 2
    BY <1>3, Int64Exact DEF Whole
  <2>3. QED
    BY <1>3, <2>1, <2>2
<1>4. CASE of = "float"
  <2>1. Basic(of, v) = <<of, Rounded(h, FloatSize)>>
    BY <1>1, <1>4 DEF Basic
  <2>2. QED
    BY <1>4, <2>1
<1>5. CASE of = "double"
  <2>1. Basic(of, v) = <<of, h>>
    BY <1>1, <1>5 DEF Basic
  <2>2. QED
    BY <1>5, <2>1
<1>6. QED
  BY <1>2, <1>3, <1>4, <1>5 DEF Primitive, Integral

LEMMA BigIntConverts ==
    ASSUME NEW n \in Int
    PROVE  LET j == Basic("long", <<"bigint", n>>) IN
           j = <<"long", j[2]>> /\ (InRange(n, "long") => j[2] = n)
<1>1. Basic("long", <<"bigint", n>>) = <<"long", Wrap(n, Size["long"])>>
  BY DEF Basic
<1>2. QED
  BY <1>1, WrapStays DEF Integral

LEMMA BooleanConverts ==
    ASSUME NEW b \in BOOLEAN
    PROVE  Basic("boolean", <<"boolean", b>>) = <<"boolean", b>>
  BY DEF Basic

\* Not even a single character, for the zero at the end of its slice.
LEMMA StringConverts ==
    ASSUME NEW s \in Seq(STRING)
    PROVE  /\ Basic("String", <<"string", s>>) = <<"String", s>>
           /\ Len(s) = 1 => /\ Basic("char", <<"string", s>>) = Error
                            /\ Len(Slice(<<"string", s>>)) = 2
                            /\ Slice(<<"string", s>>)[1] = s[1] /\ Slice(<<"string", s>>)[2] = "0"
<1>1. Text(<<"string", s>>) = s
  BY DEF Text
<1>2. Slice(<<"string", s>>) = Append(s, "0")
  BY <1>1 DEF Slice
<1>3. Basic("String", <<"string", s>>) = <<"String", s>>
  BY <1>1 DEF Basic
<1>4. ASSUME Len(s) = 1
      PROVE  /\ Len(Slice(<<"string", s>>)) = 2
             /\ Slice(<<"string", s>>)[1] = s[1] /\ Slice(<<"string", s>>)[2] = "0"
  <2>1. PICK c : s = <<c>>
    BY <1>4
  <2>2. /\ Len(Append(<<c>>, "0")) = 2
        /\ Append(<<c>>, "0")[1] = c /\ Append(<<c>>, "0")[2] = "0"
    OBVIOUS
  <2>3. QED
    BY <1>2, <2>1, <2>2
<1>5. Len(s) = 1 => Basic("char", <<"string", s>>) = Error
  BY <1>4 DEF Basic
<1>6. QED
  BY <1>3, <1>4, <1>5

LEMMA StringsMatch ==
    ASSUME NEW T, NEW s, MatchesScalar(T, <<"string", s>>)
    PROVE  T.of = "String" \/ (T.of = "char" /\ Len(s) = 1)
  BY DEF MatchesScalar

\* A value of a primitive, of its box or of String.
LEMMA BasicConverts ==
    ASSUME NEW T \in Types, T.of \in Primitive \union {"String"},
           NEW v \in JsScalars, ~IsObject(v), v \notin Nothing, MatchesScalar(T, v)
    PROVE  LET j == Basic(T.of, v) IN
           /\ j = Error => T.of = "char" /\ v[1] = "string"
           /\ j # Error => /\ j = <<T.of, j[2]>>
                           /\ T.of = "byte" => InRange(j[2], "byte")
                           /\ ExactScalar(T, v) => SameScalar(v, j)
<1> DEFINE j == Basic(T.of, v)
<1>1. ASSUME NEW h \in Int \union {NaN}, v = <<"number", h>> PROVE
           /\ j # Error /\ j = <<T.of, j[2]>> /\ (T.of = "byte" => InRange(j[2], "byte"))
           /\ ExactScalar(T, v) => SameScalar(v, j)
  <2>1. T.of \in {"byte", "int", "long", "float", "double"} /\ (T.of = "byte" => Whole(h) /\ InRange(h \div 2, "byte"))
    BY <1>1 DEF MatchesScalar
  <2>2. /\ j = <<T.of, j[2]>>
        /\ T.of = "byte" => InRange(j[2], "byte")
        /\ T.of = "float" => j[2] = Rounded(h, FloatSize)
        /\ T.of = "double" => j[2] = h
        /\ T.of \in {"byte", "int", "long"} /\ Whole(h) /\ InRange(h \div 2, T.of) => j[2] = h \div 2
    BY <1>1, <2>1, NumberConverts DEF Primitive, Integral
  <2>3. j # Error
    BY <2>2 DEF Error
  <2>4. ASSUME ExactScalar(T, v) PROVE SameScalar(v, j)
    <3>1. CASE T.of \in {"byte", "int", "long"}
      <4>1. Whole(h) /\ InRange(h \div 2, T.of)
        BY <1>1, <2>4, <3>1 DEF ExactScalar, Integral
      <4>2. h \in Int /\ h = 2 * (h \div 2)
        BY <4>1 DEF Whole
      <4>3. j = <<T.of, h \div 2>>
        BY <2>2, <3>1, <4>1
      <4>4. QED
        BY <1>1, <3>1, <4>2, <4>3 DEF SameScalar, IsWrapper, Integral, Null
    <3>2. CASE T.of \in {"float", "double"}
      <4>1. j = <<T.of, h>>
        BY <1>1, <2>2, <2>4, <3>2 DEF ExactScalar, Integral
      <4>2. QED
        BY <1>1, <3>2, <4>1 DEF SameScalar, IsWrapper, Integral, Null
    <3>3. QED
      BY <2>1, <3>1, <3>2
  <2>5. QED
    BY <2>2, <2>3, <2>4
<1>2. ASSUME NEW n \in Int, v = <<"bigint", n>> PROVE
           /\ j # Error /\ j = <<T.of, j[2]>> /\ T.of # "byte"
           /\ ExactScalar(T, v) => SameScalar(v, j)
  <2>1. T.of = "long"
    BY <1>2 DEF MatchesScalar
  <2>2. j = <<"long", j[2]>> /\ (InRange(n, "long") => j[2] = n)
    BY <1>2, <2>1, BigIntConverts
  <2>3. ExactScalar(T, v) => InRange(n, "long")
    BY <1>2, <2>1 DEF ExactScalar
  <2>4. j # Error /\ (j[2] = n => SameScalar(v, j))
    BY <1>2, <2>2 DEF Error, SameScalar, IsWrapper, Integral, Null
  <2>5. QED
    BY <2>1, <2>2, <2>3, <2>4
<1>3. ASSUME NEW b \in BOOLEAN, v = <<"boolean", b>> PROVE
           j = v /\ j # Error /\ j = <<T.of, j[2]>> /\ T.of # "byte" /\ SameScalar(v, j)
  <2>1. T.of = "boolean"
    BY <1>3 DEF MatchesScalar
  <2>2. j = <<"boolean", b>>
    BY <1>3, <2>1, BooleanConverts
  <2>3. QED
    BY <1>3, <2>1, <2>2 DEF Error, SameScalar, IsWrapper, Integral, Null
<1>4. ASSUME NEW s \in Seq(STRING), v = <<"string", s>> PROVE
           /\ j = Error => T.of = "char" /\ v[1] = "string"
           /\ j # Error => j = <<T.of, j[2]>> /\ T.of # "byte" /\ SameScalar(v, j)
  <2>1. T.of = "String" \/ (T.of = "char" /\ Len(s) = 1)
    BY <1>4, StringsMatch
  <2>2. CASE T.of = "String"
    <3>1. j = <<"String", s>>
      BY <1>4, <2>2, StringConverts
    <3>2. QED
      BY <1>4, <2>2, <3>1 DEF Error, SameScalar, IsWrapper, Integral, Null
  <2>3. CASE T.of = "char" /\ Len(s) = 1
    BY <1>4, <2>3, StringConverts
  <2>4. QED
    BY <2>1, <2>2, <2>3
<1>5. v \notin {<<"plain">>, <<"function">>}
  BY DEF MatchesScalar
<1>6. QED
  BY <1>1, <1>2, <1>3, <1>4, <1>5, JsKinds DEF IsObject, Nothing

-----------------------------------------------------------------------------
(***************************************************************************)
(* To Java: objects                                                        *)
(***************************************************************************)
\* A wrapper is seen as a class its object extends.
LEMMA WrappersHold ==
    ASSUME NEW T \in Types, NEW k \in Kinds, NEW j \in JavaScalars, k \in Supers[j[1]],
           MatchesScalar(T, <<"wrapper", <<k, j>>>>)
    PROVE  IsA(j[1], T)
<1>1. IsA(k, T)
  BY DEF MatchesScalar
<1>2. Supers[k] \subseteq Supers[j[1]]
  BY JavaScalarsHaveKinds, SupersAreTransitive
<1>3. QED
  BY <1>1, <1>2 DEF IsA

\* What is not data, and no Java object either.
Opaque == {"plain", "buffer", "function"}

\* A value for a parameter of a class, or of Object, which takes everything.
LEMMA ReferenceConverts ==
    ASSUME NEW T \in Types, T.of \notin Primitive \union {"String"},
           NEW v \in JsScalars, T.of = "Object" \/ MatchesScalar(T, v)
    PROVE  LET j == Reference(T, v) IN
           /\ j = Error => T.of = "Object" /\ v[1] \in Opaque
           /\ j = Null \/ j = Error \/ (j[1] \in Kinds /\ j \notin Nothing /\ IsA(j[1], T))
           /\ j # Error /\ ~Spoilt(T, v) => SameScalar(v, j)
<1> DEFINE j == Reference(T, v)
<1>0. T.of = "Object" \/ T.of \in Classes
  BY InnerTypes
<1>1. ASSUME v \in Nothing PROVE j = Null /\ j # Error /\ SameScalar(v, j)
  <2>1. v = <<"null">> \/ v = <<"undefined">>
    BY <1>1 DEF Nothing, Null, Undefined
  <2>2. v[1] \in {"null", "undefined"}
    BY <2>1
  <2>3. j = Null
    BY <2>2 DEF Reference
  <2>4. SameScalar(v, Null)
    BY <1>1, <2>2 DEF SameScalar, IsWrapper, Nothing, Null, Integral
  <2>5. QED
    BY <2>3, <2>4 DEF Null, Error
<1>2. ASSUME NEW h \in Int \union {NaN}, v = <<"number", h>> PROVE
           /\ j # Error /\ j \notin Nothing /\ j[1] \in Kinds /\ IsA(j[1], T)
           /\ ~Spoilt(T, v) => SameScalar(v, j)
  <2>1. T.of = "Object"
    BY <1>0, <1>2, ClassesAssumption DEF MatchesScalar, Primitive, Integral
  <2>2. CASE Whole(h)
    <3>1. j = Basic("int", v)
      BY <1>2, <2>2 DEF Reference
    <3>2. j = <<"int", j[2]>> /\ (InRange(h \div 2, "int") => j[2] = h \div 2)
      BY <1>2, <2>2, <3>1, NumberConverts DEF Primitive, Integral
    <3>3. j # Error /\ j \notin Nothing /\ j[1] \in Kinds /\ IsA(j[1], T)
      BY <2>1, <3>2 DEF Error, Nothing, Null, Undefined, Kinds, Primitive, Integral, IsA
    <3>4. ~Spoilt(T, v) => InRange(h \div 2, "int")
      BY <1>2, <2>1, <2>2 DEF Spoilt
    <3>5. h = 2 * (h \div 2)
      BY <2>2 DEF Whole
    <3>6. j = <<"int", h \div 2>> => SameScalar(v, j)
      BY <1>2, <3>5 DEF SameScalar, IsWrapper, Integral, Null
    <3>7. QED
      BY <3>2, <3>3, <3>4, <3>6
  <2>3. CASE ~Whole(h)
    <3>1. j = Basic("double", v)
      BY <1>2, <2>3 DEF Reference
    <3>2. j = <<"double", h>>
      BY <1>2, <3>1, NumberConverts DEF Primitive, Integral
    <3>3. QED
      BY <1>2, <2>1, <3>2 DEF Error, Nothing, Null, Undefined, Kinds, Primitive, Integral, IsA, SameScalar, IsWrapper
  <2>4. QED
    BY <2>2, <2>3
<1>3. ASSUME NEW n \in Int, v = <<"bigint", n>> PROVE
           /\ j # Error /\ j \notin Nothing /\ j[1] \in Kinds /\ IsA(j[1], T)
           /\ ~Spoilt(T, v) => SameScalar(v, j)
  <2>1. T.of = "Object"
    BY <1>0, <1>3, ClassesAssumption DEF MatchesScalar, Primitive, Integral
  <2>2. j = <<"long", j[2]>> /\ (InRange(n, "long") => j[2] = n)
    BY <1>3, BigIntConverts DEF Reference
  <2>3. j # Error /\ j \notin Nothing /\ j[1] \in Kinds /\ IsA(j[1], T)
    BY <2>1, <2>2 DEF Error, Nothing, Null, Undefined, Kinds, Primitive, Integral, IsA
  <2>4. ~Spoilt(T, v) => InRange(n, "long")
    BY <1>3, <2>1 DEF Spoilt
  <2>5. j[2] = n => SameScalar(v, j)
    BY <1>3, <2>2 DEF SameScalar, IsWrapper, Integral, Null
  <2>6. QED
    BY <2>2, <2>3, <2>4, <2>5
<1>4. ASSUME NEW b \in BOOLEAN, v = <<"boolean", b>> PROVE
           j = v /\ j # Error /\ j \notin Nothing /\ j[1] \in Kinds /\ IsA(j[1], T) /\ SameScalar(v, j)
  <2>1. T.of = "Object"
    BY <1>0, <1>4, ClassesAssumption DEF MatchesScalar, Primitive, Integral
  <2>2. j = v
    BY <1>4, BooleanConverts DEF Reference
  <2>3. QED
    BY <1>4, <2>1, <2>2 DEF Error, Nothing, Null, Undefined, Kinds, Primitive, Integral, IsA, SameScalar, IsWrapper
<1>5. ASSUME NEW s \in Seq(STRING), v = <<"string", s>> PROVE
           j # Error /\ j \notin Nothing /\ j[1] \in Kinds /\ IsA(j[1], T) /\ SameScalar(v, j)
  <2>1. T.of = "Object"
    BY <1>0, <1>5, StringsMatch, ClassesAssumption DEF Primitive
  <2>2. j = <<"String", s>>
    BY <1>5, StringConverts DEF Reference
  <2>3. QED
    BY <1>5, <2>1, <2>2 DEF Error, Nothing, Null, Undefined, Kinds, Primitive, Integral, IsA, SameScalar, IsWrapper
<1>6. ASSUME NEW k \in Kinds, NEW o \in JavaScalars, v = <<"wrapper", <<k, o>>>>, k \in Supers[o[1]] PROVE
           j = o /\ j # Error /\ j \notin Nothing /\ j[1] \in Kinds /\ IsA(j[1], T) /\ SameScalar(v, j)
  <2>1. IsA(o[1], T)
    BY <1>6, WrappersHold DEF IsA
  <2>2. j = o
    BY <1>6, <2>1 DEF Reference
  <2>3. QED
    BY <1>6, <2>1, <2>2, JavaScalarsHaveKinds DEF Nothing, SameScalar, IsWrapper
<1>7. ASSUME v[1] \in Opaque PROVE j = Error /\ T.of = "Object"
  <2>1. j = Error
    BY <1>7 DEF Reference, Opaque
  <2>2. ~MatchesScalar(T, v)
    BY <1>7 DEF MatchesScalar, Opaque
  <2>3. QED
    BY <2>1, <2>2
<1>8. v \in {<<"plain">>, <<"function">>} => v[1] \in Opaque
  BY DEF Opaque
<1>9. (\E bytes \in Seq(0 .. Size["byte"] - 1) : v = <<"buffer", bytes>>) => v[1] \in Opaque
  BY DEF Opaque
<1>10. QED
  BY <1>1, <1>2, <1>3, <1>4, <1>5, <1>6, <1>7, <1>8, <1>9, JsKinds DEF Nothing

\* What an array for parameters of type I may contain.
Fits(I, j) == IF j = Null THEN ~IsPrimitive(I)
              ELSE j[1] \in Kinds /\ IsA(j[1], I) /\ (j[1] = "byte" => InRange(j[2], "byte"))

LEMMA NumbersAreNumbers ==
    ASSUME NEW v \in JsScalars, v[1] # "wrapper"
    PROVE  Number(v) \in Int \union {NaN}
<1>1. CASE v[1] = "number"
  BY <1>1, JsKinds DEF Number, Null, Undefined
<1>2. CASE v[1] = "boolean"
  BY <1>2 DEF Number, Null
<1>3. CASE v[1] \notin {"number", "boolean"}
  BY <1>3 DEF Number
<1>4. QED
  BY <1>1, <1>2, <1>3

LEMMA WrapIsInt ==
    ASSUME NEW of \in Integral, NEW n \in Int
    PROVE  Wrap(n, Size[of]) \in Int
  BY WrapInRange DEF InRange, Low, High

LEMMA Int32IsInt ==
    ASSUME NEW h \in Int \union {NaN}
    PROVE  Int32(h) \in Int
<1>1. h # NaN => Truncated(h) \in Int
  BY TruncatedIsInt
<1>2. h # NaN => Wrap(Truncated(h), Size["int"]) \in Int
  BY <1>1, WrapIsInt DEF Integral
<1>3. QED
  BY <1>2 DEF Int32

\* Whatever a primitive is made of is one, and only what is no data is not.
LEMMA BasicKinds ==
    ASSUME NEW of \in Primitive \union {"String"}, NEW v \in JsScalars, ~IsObject(v)
    PROVE  LET j == Basic(of, v) IN
           /\ j = Error \/ j = <<of, j[2]>>
           /\ j # Error /\ of = "byte" => InRange(j[2], "byte")
           /\ j = Error => of = "char" \/ v[1] = "bigint"
<1> DEFINE j == Basic(of, v)
<1>1. CASE of = "byte" /\ v[1] # "bigint"
  <2>1. j = <<of, Wrap(Int32(Number(v)), Size[of])>>
    BY <1>1 DEF Basic
  <2>2. InRange(Wrap(Int32(Number(v)), Size[of]), "byte")
    BY <1>1, NumbersAreNumbers, Int32IsInt, WrapInRange DEF IsObject, Integral
  <2>3. QED
    BY <2>1, <2>2 DEF Error
<1>2. CASE of \in {"short", "int"} /\ v[1] # "bigint"
  BY <1>2 DEF Basic, Error
<1>3. CASE of = "long"
  <2>1. v[1] # "bigint" => j = <<of, Int64(Number(v))>>
    BY <1>3 DEF Basic
  <2>2. v[1] = "bigint" => j = <<of, Wrap(v[2], Size[of])>>
    BY <1>3 DEF Basic
  <2>3. QED
    BY <1>3, <2>1, <2>2 DEF Error
<1>4. CASE of = "float" /\ v[1] # "bigint"
  BY <1>4 DEF Basic, Error
<1>5. CASE of = "double" /\ v[1] # "bigint"
  BY <1>5 DEF Basic, Error
<1>6. CASE of \in {"byte", "short", "int", "float", "double"} /\ v[1] = "bigint"
  BY <1>6 DEF Basic
<1>7. CASE of = "boolean"
  <2>1. \E b : j = <<of, b>>
    BY <1>7 DEF Basic
  <2>2. QED
    BY <1>7, <2>1 DEF Error
<1>8. CASE of = "char"
  BY <1>8 DEF Basic
<1>9. CASE of = "String"
  BY <1>9 DEF Basic, Error
<1>10. QED
  BY <1>1, <1>2, <1>3, <1>4, <1>5, <1>6, <1>7, <1>8, <1>9 DEF Primitive, Integral

LEMMA ReferenceKinds ==
    ASSUME NEW T, NEW v \in JsScalars
    PROVE  LET j == Reference(T, v) IN
           j \in {Null, Error} \/ (j[1] \in Kinds /\ (j[1] = "byte" => InRange(j[2], "byte")))
<1> DEFINE j == Reference(T, v)
<1>1. CASE v[1] \in {"number", "bigint", "boolean", "string"}
  <2>1. ~IsObject(v)
    BY <1>1 DEF IsObject
  <2>2. \E of \in {"int", "double", "long", "boolean", "String"} : j = Basic(of, v)
    BY <1>1 DEF Reference
  <2>3. PICK of \in {"int", "double", "long", "boolean", "String"} : j = Basic(of, v)
    BY <2>2
  <2>4. j = Error \/ j = <<of, j[2]>>
    BY <2>1, <2>3, BasicKinds DEF Primitive, Integral
  <2>5. QED
    BY <2>4 DEF Kinds, Primitive, Integral
<1>2. CASE v[1] = "wrapper"
  <2>1. PICK k \in Kinds, o \in JavaScalars : v = <<"wrapper", <<k, o>>>>
    BY <1>2, JsKinds DEF Null, Undefined
  <2>2. j = o \/ j = Error
    BY <2>1 DEF Reference
  <2>3. o[1] = "byte" => InRange(o[2], "byte")
    BY JavaKinds, ClassesAssumption DEF Primitive, Integral
  <2>4. QED
    BY <2>2, <2>3, JavaScalarsHaveKinds
<1>3. CASE v[1] \notin {"number", "bigint", "boolean", "string", "wrapper"}
  <2>1. j = Null \/ j = Error
    BY <1>3 DEF Reference
  <2>2. QED
    BY <2>1
<1>4. QED
  BY <1>1, <1>2, <1>3

LEMMA IsAKind ==
    ASSUME NEW T, T.of \in Kinds
    PROVE  IsA(T.of, T)
  BY ClassesAssumption DEF IsA

\* What is accepted for a box, for String, for a class or for Object.
LEMMA ToObjectConverts ==
    ASSUME NEW T \in Types, NEW v \in JsScalars,
           MatchesScalar(T, v) \/ T.of = "Object"
    PROVE  LET j == ToObject(T, v) IN
           /\ j = Error => \/ T.of = "char" /\ (v \in Nothing \/ v[1] = "string")
                           \/ T.of = "Object" /\ v[1] \in Opaque
           /\ j \in {Null, Error} \/ (j[1] \in Kinds /\ IsA(j[1], T))
           /\ j # Error /\ ExactScalar(T, v) /\ ~Spoilt(T, v) /\ (v \in Nothing => T.of \notin Primitive \union {"String"}) =>
                 SameScalar(v, j)
<1> DEFINE j == ToObject(T, v)
<1>1. CASE T.of \notin Primitive \union {"String"}
  <2>1. j = Reference(T, v)
    BY <1>1 DEF ToObject
  <2>2. QED
    BY <1>1, <2>1, ReferenceConverts
<1>2. CASE T.of \in Primitive \union {"String"} /\ IsWrapper(v)
  <2>1. PICK k \in Kinds, o \in JavaScalars : v = <<"wrapper", <<k, o>>>> /\ k \in Supers[o[1]]
    BY <1>2, JsKinds DEF IsWrapper, Null, Undefined
  <2>2. j = o
    BY <1>2, <2>1 DEF ToObject, IsObject, IsWrapper
  <2>3. T.of # "Object"
    BY <1>2 DEF Primitive, Integral
  <2>4. IsA(o[1], T)
    BY <2>1, <2>3, WrappersHold
  <2>5. SameScalar(v, j)
    BY <1>2, <2>1, <2>2 DEF SameScalar
  <2>6. QED
    BY <2>2, <2>4, <2>5, JavaScalarsHaveKinds
<1>3. CASE T.of \in Primitive \union {"String"} /\ ~IsWrapper(v)
  <2>1. T.of # "Object" /\ MatchesScalar(T, v)
    BY <1>3 DEF Primitive, Integral
  <2>2. ~IsObject(v)
    BY <1>3, <2>1 DEF IsObject, IsWrapper, MatchesScalar
  <2>3. j = Basic(T.of, v)
    BY <1>3, <2>2 DEF ToObject
  <2>4. T.of \in Kinds /\ IsA(T.of, T)
    BY <1>3, IsAKind DEF Kinds
  <2>5. CASE v \in Nothing
    <3>1. v[1] # "bigint"
      BY <2>5 DEF Nothing, Null, Undefined
    <3>2. (j = Error => T.of = "char") /\ (j = Error \/ j = <<T.of, j[2]>>)
      BY <1>3, <2>2, <2>3, <3>1, BasicKinds
    <3>3. QED
      BY <1>3, <2>4, <2>5, <3>2
  <2>6. CASE v \notin Nothing
    BY <1>3, <2>1, <2>2, <2>3, <2>4, <2>6, BasicConverts
  <2>7. QED
    BY <2>5, <2>6
<1>4. QED
  BY <1>1, <1>2, <1>3

LEMMA ToObjectKinds ==
    ASSUME NEW T, NEW v \in JsScalars
    PROVE  LET j == ToObject(T, v) IN
           j \in {Null, Error} \/ (j[1] \in Kinds /\ (j[1] = "byte" => InRange(j[2], "byte")))
<1> DEFINE j == ToObject(T, v)
<1>1. CASE T.of \notin Primitive \union {"String"}
  <2>1. j = Reference(T, v)
    BY <1>1 DEF ToObject
  <2>2. QED
    BY <2>1, ReferenceKinds
<1>2. CASE T.of \in Primitive \union {"String"} /\ IsWrapper(v)
  <2>1. PICK k \in Kinds, o \in JavaScalars : v = <<"wrapper", <<k, o>>>> /\ k \in Supers[o[1]]
    BY <1>2, JsKinds DEF IsWrapper, Null, Undefined
  <2>2. j = o
    BY <1>2, <2>1 DEF ToObject, IsObject, IsWrapper
  <2>3. o[1] = "byte" => InRange(o[2], "byte")
    BY JavaKinds, ClassesAssumption DEF Primitive, Integral
  <2>4. QED
    BY <2>2, <2>3, JavaScalarsHaveKinds
<1>3. CASE T.of \in Primitive \union {"String"} /\ IsObject(v) /\ ~IsWrapper(v)
  BY <1>3 DEF ToObject
<1>4. CASE T.of \in Primitive \union {"String"} /\ ~IsObject(v)
  <2>1. ~IsWrapper(v)
    BY <1>4 DEF IsObject, IsWrapper
  <2>2. j = Basic(T.of, v)
    BY <1>4, <2>1 DEF ToObject
  <2>3. j = Error \/ j = <<T.of, j[2]>>
    BY <1>4, <2>2, BasicKinds
  <2>4. j # Error /\ T.of = "byte" => InRange(j[2], "byte")
    BY <1>4, <2>2, BasicKinds
  <2>5. QED
    BY <1>4, <2>3, <2>4 DEF Kinds
<1>5. QED
  BY <1>1, <1>2, <1>3, <1>4

-----------------------------------------------------------------------------
(***************************************************************************)
(* To Java: arrays                                                         *)
(***************************************************************************)
\* What the JVM is given to store in an array is of the type it is for.
LEMMA StoredFits ==
    ASSUME NEW I \in Types, ~I.array, NEW v \in JsScalars
    PROVE  LET e == Stored(I, Element(I, v)) IN e = Error \/ Fits(I, e)
<1> DEFINE j == Element(I, v)
           e == Stored(I, j)
<1>0. "array" \notin Kinds
  BY ClassesAssumption DEF Kinds, Primitive, Integral
<1>1. CASE IsPrimitive(I)
  <2>1. e = j /\ I.of \in Primitive
    BY <1>1 DEF Stored, IsPrimitive
  <2>2. j = Error \/ (j = <<I.of, j[2]>> /\ (I.of = "byte" => InRange(j[2], "byte")))
    <3>1. CASE I.of = "boolean"
      <4>1. CASE v[1] = "boolean"
        <5>1. PICK b \in BOOLEAN : v = <<"boolean", b>>
          BY <4>1, JsKinds DEF Null, Undefined
        <5>2. j = v
          BY <1>1, <3>1, <4>1 DEF Element
        <5>3. QED
          BY <3>1, <5>1, <5>2
      <4>2. CASE v[1] # "boolean"
        BY <1>1, <3>1, <4>2 DEF Element
      <4>3. QED
        BY <4>1, <4>2
    <3>2. CASE I.of = "char"
      BY <1>1, <3>2 DEF Element
    <3>3. CASE I.of \notin {"boolean", "char"}
      <4>1. CASE v[1] = "number"
        <5>1. j = Basic(I.of, v)
          BY <1>1, <3>3, <4>1 DEF Element
        <5>2. ~IsObject(v)
          BY <4>1 DEF IsObject
        <5>3. QED
          BY <2>1, <5>1, <5>2, BasicKinds
      <4>2. CASE v[1] # "number"
        BY <1>1, <3>3, <4>2 DEF Element
      <4>3. QED
        BY <4>1, <4>2
    <3>4. QED
      BY <3>1, <3>2, <3>3
  <2>3. I.of \in Kinds /\ IsA(I.of, I)
    BY <2>1, IsAKind DEF Kinds
  <2>4. QED
    BY <1>0, <2>1, <2>2, <2>3 DEF Fits, Null
<1>2. CASE ~IsPrimitive(I)
  <2>1. j = ToObject(I, v)
    BY <1>2 DEF Element
  <2>2. j \in {Null, Error} \/ (j[1] \in Kinds /\ (j[1] = "byte" => InRange(j[2], "byte")))
    BY <2>1, ToObjectKinds
  <2>3. e = Error \/ (e = j /\ (j = Null \/ I.of = j[1] \/ IsA(j[1], I)))
    BY <1>2 DEF Stored
  <2>4. I.of = j[1] /\ j[1] \in Kinds => IsA(j[1], I)
    BY IsAKind
  <2>5. QED
    BY <1>0, <1>2, <2>2, <2>3, <2>4 DEF Fits
<1>3. QED
  BY <1>1, <1>2

\* An element of an array that is of the kind of the elements, or an object.
LEMMA ElementConverts ==
    ASSUME NEW I \in Types, ~I.array, NEW v \in JsScalars, MatchesScalar(I, v) \/ I.of = "Object"
    PROVE  LET e == Stored(I, Element(I, v)) IN
           /\ e = Error /\ MatchesScalar(I, v) =>
                 (I.of = "char" /\ I.boxed) \/ (IsPrimitive(I) /\ v[1] \in {"bigint", "wrapper"})
           /\ e # Error /\ ExactScalar(I, v) /\ ~Spoilt(I, v) /\ (v \in Nothing => I.of \notin Primitive \union {"String"}) =>
                 SameScalar(v, e)
<1> DEFINE j == Element(I, v)
           e == Stored(I, j)
<1>1. CASE IsPrimitive(I)
  <2>1. e = j /\ I.of \in Primitive
    BY <1>1 DEF Stored, IsPrimitive
  <2>0. MatchesScalar(I, v)
    BY <2>1 DEF Primitive, Integral
  <2>2. v \notin Nothing /\ v[1] \notin Opaque
    BY <1>1, <2>0 DEF Nothing, Null, Undefined, Opaque, MatchesScalar
  <2>3. CASE v[1] \in {"bigint", "wrapper"}
    <3>1. j = Error
      BY <1>1, <2>3 DEF Element
    <3>2. QED
      BY <1>1, <2>1, <2>3, <3>1
  <2>4. CASE v[1] = "boolean"
    <3>1. PICK b \in BOOLEAN : v = <<"boolean", b>>
      BY <2>4, JsKinds DEF Null, Undefined
    <3>2. I.of = "boolean"
      BY <2>0, <3>1 DEF MatchesScalar
    <3>3. j = v
      BY <1>1, <3>1, <3>2 DEF Element
    <3>4. QED
      BY <2>1, <3>1, <3>3 DEF Error, SameScalar, IsWrapper, Integral, Null
  <2>5. CASE v[1] = "string"
    <3>1. PICK s \in Seq(STRING) : v = <<"string", s>>
      BY <2>5, JsKinds DEF Null, Undefined
    <3>2. I.of = "char" /\ Len(s) = 1
      BY <2>0, <2>1, <3>1, StringsMatch DEF Primitive, Integral
    <3>3. j = <<"char", s[1]>>
      BY <1>1, <3>1, <3>2, StringConverts DEF Element
    <3>4. s = <<s[1]>>
      BY <3>2
    <3>5. QED
      BY <2>1, <3>1, <3>3, <3>4 DEF Error, SameScalar, IsWrapper, Integral, Null
  <2>6. CASE v[1] = "number"
    <3>1. I.of \notin {"boolean", "char"}
      BY <2>0, <2>6 DEF MatchesScalar
    <3>2. j = Basic(I.of, v)
      BY <1>1, <2>6, <3>1 DEF Element
    <3>3. ~IsObject(v)
      BY <2>6 DEF IsObject
    <3>4. QED
      BY <2>0, <2>1, <2>2, <3>1, <3>2, <3>3, BasicConverts
  <2>7. v[1] \in {"number", "string", "boolean", "bigint", "wrapper"}
    BY <2>2, JsKinds DEF Nothing, Opaque
  <2>8. QED
    BY <2>3, <2>4, <2>5, <2>6, <2>7
<1>2. CASE ~IsPrimitive(I)
  <2>1. j = ToObject(I, v)
    BY <1>2 DEF Element
  <2>2. MatchesScalar(I, v) => v[1] \notin Opaque
    BY DEF MatchesScalar, Opaque
  <2>3. e = j
    BY <2>1, ToObjectConverts DEF Stored
  <2>4. I.of = "char" => I.boxed
    BY <1>2 DEF IsPrimitive, Primitive
  <2>5. QED
    BY <2>1, <2>2, <2>3, <2>4, ToObjectConverts
<1>3. QED
  BY <1>1, <1>2

LEMMA AllOrErrorIsAll ==
    ASSUME NEW values, AllOrError(values) # Error
    PROVE  AllOrError(values) = <<"array", values>> /\ \A i \in DOMAIN values : values[i] # Error
  BY DEF AllOrError

LEMMA AllOrErrorIsError ==
    ASSUME NEW values, AllOrError(values) = Error
    PROVE  \E i \in DOMAIN values : values[i] = Error
  BY DEF AllOrError, Error

LEMMA InnerMatches ==
    ASSUME NEW T \in Types, NEW v
    PROVE  /\ ExactScalar(Inner(T), v) = ExactScalar(T, v)
           /\ Spoilt(Inner(T), v) = Spoilt(T, v)
  BY InnerTypes DEF ExactScalar, Spoilt

\* An array for an array type.
LEMMA ArrayConverts ==
    ASSUME NEW T \in Types, T.array, NEW s \in Seq(JsScalars)
    PROVE  LET v == <<"array", s>>
               j == ToArray(T, v)
           IN  /\ j = Error => Unconvertible(T, v)
               /\ j # Error => /\ j = <<"array", j[2]>>
                               /\ DOMAIN j[2] = DOMAIN s /\ Len(j[2]) = Len(s)
                               /\ \A i \in DOMAIN s : Fits(Inner(T), j[2][i])
               /\ j # Error /\ Exact(T, v) /\ ~Corrupted(T, v) => \A i \in DOMAIN s : SameScalar(s[i], j[2][i])
<1> DEFINE v == <<"array", s>>
           j == ToArray(T, v)
           e == [i \in DOMAIN s |-> Stored(Inner(T), Element(Inner(T), s[i]))]
<1>1. j = AllOrError(e)
  BY DEF ToArray
<1>2. Len(e) = Len(s) /\ DOMAIN e = DOMAIN s
  OBVIOUS
<1>3. Inner(T) \in Types /\ ~Inner(T).array /\ Inner(T).of = T.of /\ Inner(T).boxed = T.boxed
  BY InnerTypes
<1>4. \A i \in DOMAIN s : s[i] \in JsScalars
  OBVIOUS
<1>5. ASSUME j = Error PROVE Unconvertible(T, v)
  <2>1. PICK i \in DOMAIN s : e[i] = Error
    BY <1>1, <1>2, <1>5, AllOrErrorIsError
  <2>2. Stored(Inner(T), Element(Inner(T), s[i])) = Error
    BY <2>1
  <2>3. CASE ~MatchesScalar(Inner(T), s[i])
    BY <2>3 DEF Unconvertible
  <2>4. CASE MatchesScalar(Inner(T), s[i])
    <3>1. \/ T.of = "char" /\ T.boxed
          \/ IsPrimitive(Inner(T)) /\ s[i][1] \in {"bigint", "wrapper"}
      BY <1>3, <1>4, <2>2, <2>4, ElementConverts
    <3>2. QED
      BY <3>1 DEF Unconvertible
  <2>5. QED
    BY <2>3, <2>4
<1>6. ASSUME j # Error PROVE j = <<"array", e>> /\ \A i \in DOMAIN s : e[i] # Error /\ Fits(Inner(T), e[i])
  <2>1. j = <<"array", e>> /\ \A i \in DOMAIN s : e[i] # Error
    BY <1>1, <1>2, <1>6, AllOrErrorIsAll
  <2>2. \A i \in DOMAIN s : e[i] = Error \/ Fits(Inner(T), e[i])
    BY <1>3, <1>4, StoredFits
  <2>3. QED
    BY <2>1, <2>2
<1>7. ASSUME j # Error, Exact(T, v), ~Corrupted(T, v), NEW i \in DOMAIN s PROVE SameScalar(s[i], e[i])
  <2>1. /\ ExactScalar(Inner(T), s[i]) /\ (MatchesScalar(Inner(T), s[i]) \/ T.of = "Object")
        /\ ~Spoilt(Inner(T), s[i])
        /\ s[i] \in Nothing => T.of \notin Primitive \union {"String"}
    BY <1>7, InnerMatches DEF Exact, Corrupted, Nothing
  <2>2. e[i] # Error
    BY <1>6, <1>7
  <2>3. e[i] = Stored(Inner(T), Element(Inner(T), s[i]))
    OBVIOUS
  <2>4. QED
    BY <1>3, <1>4, <2>1, <2>2, <2>3, ElementConverts
<1> HIDE DEF j, e, v
<1>8. QED
  BY <1>2, <1>5, <1>6, <1>7 DEF j, v

\* An array for a parameter of type Object.
LEMMA ObjectsConvert ==
    ASSUME NEW T \in Types, T.of \notin Primitive \union {"String"}, ~T.array, NEW s \in Seq(JsScalars)
    PROVE  LET v == <<"array", s>>
               j == ToObjects(T, v)
           IN  /\ j # Error => j = <<"array", j[2]>> /\ DOMAIN j[2] = DOMAIN s /\ Len(j[2]) = Len(s)
               /\ T.of = "Object" /\ j = Error => Unconvertible(T, v)
               /\ T.of = "Object" /\ j # Error /\ Exact(T, v) /\ ~Corrupted(T, v) => \A i \in DOMAIN s : SameScalar(s[i], j[2][i])
<1> DEFINE v == <<"array", s>>
           j == ToObjects(T, v)
           e == [i \in DOMAIN s |-> Reference(T, s[i])]
<1>1. j = AllOrError(e)
  BY DEF ToObjects
<1>2. Len(e) = Len(s) /\ DOMAIN e = DOMAIN s
  OBVIOUS
<1>3. \A i \in DOMAIN s : s[i] \in JsScalars
  OBVIOUS
<1>4. ASSUME T.of = "Object", j = Error PROVE Unconvertible(T, v)
  <2>1. PICK i \in DOMAIN s : e[i] = Error
    BY <1>1, <1>2, <1>4, AllOrErrorIsError
  <2>2. Reference(T, s[i]) = Error
    BY <2>1
  <2>3. s[i][1] \in Opaque
    BY <1>3, <1>4, <2>2, ReferenceConverts DEF Primitive
  <2>4. QED
    BY <1>4, <2>3 DEF Unconvertible, Opaque
<1>5. ASSUME j # Error PROVE j = <<"array", e>> /\ \A i \in DOMAIN s : e[i] # Error
  BY <1>1, <1>2, <1>5, AllOrErrorIsAll
<1>6. ASSUME T.of = "Object", j # Error, ~Corrupted(T, v), NEW i \in DOMAIN s PROVE SameScalar(s[i], e[i])
  <2>1. ~Spoilt(T, s[i])
    BY <1>6 DEF Corrupted
  <2>2. e[i] = Reference(T, s[i]) /\ e[i] # Error
    BY <1>5, <1>6
  <2>3. QED
    BY <1>3, <1>6, <2>1, <2>2, ReferenceConverts
<1> HIDE DEF j, e, v
<1>7. QED
  BY <1>2, <1>4, <1>5, <1>6 DEF j, v

LEMMA ElementOfSeq ==
    ASSUME NEW S, NEW s \in Seq(S), NEW i \in DOMAIN s
    PROVE  s[i] \in S
  OBVIOUS

\* The bytes of a Buffer for a byte[].
LEMMA BufferConverts ==
    ASSUME NEW T \in Types, T.array, T.of = "byte", ~T.boxed, NEW s \in Seq(0 .. Size["byte"] - 1)
    PROVE  LET j == ToArray(T, <<"buffer", s>>)
               e == [i \in DOMAIN s |-> <<"byte", Wrap(s[i], Size["byte"])>>]
           IN  /\ j = <<"array", e>> /\ j # Error
               /\ Len(e) = Len(s)
               /\ \A i \in DOMAIN s : Fits(Inner(T), e[i]) /\ s[i] >= 0
<1> DEFINE e == [i \in DOMAIN s |-> <<"byte", Wrap(s[i], Size["byte"])>>]
<1>1. ToArray(T, <<"buffer", s>>) = <<"array", e>>
  BY DEF ToArray
<1>2. Len(e) = Len(s)
  OBVIOUS
<1>3. Size["byte"] \in Nat
  BY SizesAssumption DEF Integral
<1>4. ASSUME NEW i \in DOMAIN s PROVE Fits(Inner(T), e[i]) /\ s[i] >= 0
  <2>1. s[i] \in 0 .. Size["byte"] - 1
    BY <1>4, ElementOfSeq
  <2>2. s[i] \in Int /\ s[i] >= 0
    BY <1>3, <2>1
  <2>3. InRange(Wrap(s[i], Size["byte"]), "byte")
    BY <2>2, WrapInRange DEF Integral
  <2>4. IsA("byte", Inner(T)) /\ "byte" \in Kinds
    BY InnerTypes, IsAKind DEF Kinds, Primitive, Integral
  <2>5. QED
    BY <2>2, <2>3, <2>4 DEF Fits, Null
<1> HIDE DEF e
<1>5. <<"array", e>> # Error
  BY DEF Error
<1>6. QED
  BY <1>1, <1>2, <1>4, <1>5 DEF e

-----------------------------------------------------------------------------
(***************************************************************************)
(* To Java: every type                                                     *)
(***************************************************************************)
LEMMA ArraysOrScalars ==
    ASSUME NEW v \in JsValues
    PROVE  (v \in JsScalars /\ v[1] # "array") \/ (\E s \in Seq(JsScalars) : v = <<"array", s>>)
<1>1. v \in JsScalars => v[1] # "array"
  <2>1. ASSUME v \in JsScalars PROVE v[1] \in {"null", "undefined", "plain", "function", "number", "bigint", "boolean",
                                               "string", "buffer", "wrapper"}
    BY <2>1, JsKinds DEF Null, Undefined
  <2>2. QED
    BY <2>1
<1>2. CASE v \in {"array"} \X Seq(JsScalars)
  BY <1>2, Pairs
<1>3. QED
  BY <1>1, <1>2 DEF JsValues

LEMMA NothingIsSame ==
    ASSUME NEW v \in Nothing
    PROVE  Same(v, Null)
<1>1. ~IsWrapper(v)
  BY DEF Nothing, IsWrapper, Null, Undefined
<1>2. SameScalar(v, Null)
  BY <1>1 DEF SameScalar, Nothing, Null, Integral
<1>3. QED
  BY <1>2 DEF Same, Null

LEMMA InnerIsA ==
    ASSUME NEW T \in Types, NEW k
    PROVE  IsA(k, Inner(T)) = IsA(k, T)
  BY InnerTypes DEF IsA

\* What a parameter takes: a value that matches its type, or anything for an
\* Object.
Takes(T, v) == Matches(T, v) \/ (T.of = "Object" /\ ~T.array)

LEMMA ToArrayTypes ==
    ASSUME NEW T \in Types, T.array, NEW v \in JsValues, Matches(T, v)
    PROVE  LET j == ToJava(T, v) IN
           /\ j = Error => Unconvertible(T, v)
           /\ j # Error => IsOf(T, j) /\ (Exact(T, v) /\ ~Corrupted(T, v) => Same(v, j))
<1> DEFINE j == ToJava(T, v)
<1>1. ~IsPrimitive(T)
  BY DEF IsPrimitive
<1>2. CASE v \in Nothing
  <2>1. j = Null
    BY <1>1, <1>2 DEF ToJava, Nothing
  <2>2. IsOf(T, Null)
    BY <1>1 DEF IsOf, Null
  <2>3. QED
    BY <1>2, <2>1, <2>2, NothingIsSame DEF Null, Error
<1>3. ASSUME NEW s \in Seq(JsScalars), v = <<"array", s>> PROVE
           /\ j = Error => Unconvertible(T, v)
           /\ j # Error => IsOf(T, j) /\ (Exact(T, v) /\ ~Corrupted(T, v) => Same(v, j))
  <2>1. v \notin Nothing
    BY <1>3 DEF Nothing, Null, Undefined
  <2>2. j = ToArray(T, v)
    BY <1>1, <1>3, <2>1 DEF ToJava, Nothing
  <2>3. j = Error => Unconvertible(T, v)
    BY <1>3, <2>2, ArrayConverts
  <2>4. ASSUME j # Error PROVE /\ j = <<"array", j[2]>>
                               /\ DOMAIN j[2] = DOMAIN s /\ Len(j[2]) = Len(s)
                               /\ \A i \in DOMAIN s : Fits(Inner(T), j[2][i])
                               /\ Exact(T, v) /\ ~Corrupted(T, v) => \A i \in DOMAIN s : SameScalar(s[i], j[2][i])
    BY <1>3, <2>2, <2>4, ArrayConverts
  <2>5. ASSUME j # Error PROVE IsOf(T, j)
    <3>1. \A i \in DOMAIN j[2] : IF j[2][i] = Null THEN ~IsPrimitive(Inner(T)) ELSE IsA(j[2][i][1], T)
      BY <2>4, <2>5, InnerIsA DEF Fits
    <3>2. j # Null /\ j[1] = "array"
      BY <2>4, <2>5 DEF Null
    <3>3. QED
      BY <3>1, <3>2 DEF IsOf
  <2>6. ASSUME j # Error, Exact(T, v), ~Corrupted(T, v) PROVE Same(v, j)
    <3>1. j[1] = "array" /\ v[1] = "array" /\ v[2] = s
      BY <1>3, <2>4, <2>6
    <3>2. Len(s) = Len(j[2]) /\ DOMAIN j[2] = DOMAIN s /\ \A i \in DOMAIN s : SameScalar(s[i], j[2][i])
      BY <2>4, <2>6
    <3>3. QED
      BY <3>1, <3>2 DEF Same
  <2>7. QED
    BY <2>3, <2>5, <2>6
<1>4. ASSUME NEW s \in Seq(0 .. Size["byte"] - 1), v = <<"buffer", s>> PROVE
           j # Error /\ IsOf(T, j) /\ Same(v, j)
  <2>1. T.of = "byte" /\ ~T.boxed
    BY <1>4 DEF Matches
  <2>2. v \notin Nothing
    BY <1>4 DEF Nothing, Null, Undefined
  <2>3. j = ToArray(T, v)
    BY <1>1, <1>4, <2>2 DEF ToJava, Nothing
  <2> DEFINE e == [i \in DOMAIN s |-> <<"byte", Wrap(s[i], Size["byte"])>>]
  <2>4. /\ j = <<"array", e>> /\ j # Error /\ Len(e) = Len(s)
        /\ \A i \in DOMAIN s : Fits(Inner(T), e[i]) /\ s[i] >= 0
    BY <1>4, <2>1, <2>3, BufferConverts
  <2>5. DOMAIN e = DOMAIN s /\ \A i \in DOMAIN s : e[i][2] = Wrap(s[i], Size["byte"])
    OBVIOUS
  <2> HIDE DEF e
  <2>6. j[1] = "array" /\ j[2] = e /\ j # Null /\ v[1] = "buffer" /\ v[2] = s
    BY <1>4, <2>4 DEF Null
  <2>7. \A i \in DOMAIN e : IF e[i] = Null THEN ~IsPrimitive(Inner(T)) ELSE IsA(e[i][1], T)
    BY <2>4, <2>5, InnerIsA DEF Fits
  <2>8. IsOf(T, j)
    BY <2>6, <2>7 DEF IsOf
  <2>9. Same(v, j)
    BY <2>4, <2>5, <2>6 DEF Same
  <2>10. QED
    BY <2>4, <2>8, <2>9
<1>5. v[1] \notin {"array", "buffer"} => v \in Nothing
  BY DEF Matches, Nothing
<1>6. v \in JsScalars /\ v[1] = "buffer" => \E s \in Seq(0 .. Size["byte"] - 1) : v = <<"buffer", s>>
  BY JsKinds DEF Null, Undefined
<1>7. QED
  BY <1>2, <1>3, <1>4, <1>5, <1>6, ArraysOrScalars

LEMMA ToPrimitiveTypes ==
    ASSUME NEW T \in Types, IsPrimitive(T), NEW v \in JsScalars, v[1] # "array", MatchesScalar(T, v)
    PROVE  LET j == ToJava(T, v) IN
           /\ j = Error => Unconvertible(T, v)
           /\ j # Error => IsOf(T, j) /\ (Exact(T, v) /\ ~Corrupted(T, v) => Same(v, j))
<1> DEFINE j == ToJava(T, v)
<1>1. T.of \in Primitive /\ ~T.array /\ T.of # "array" /\ T.of \in Kinds
  BY DEF IsPrimitive, Primitive, Integral, Kinds
<1>2. v \notin Nothing
  BY DEF MatchesScalar, Nothing, Null, Undefined
<1>3. ASSUME j # Error, j[1] = T.of PROVE IsOf(T, j) /\ j[1] # "array" /\ j # Null
  <2>1. j # Null /\ j[1] # "array"
    BY <1>1, <1>3 DEF Null, Primitive, Integral
  <2>2. IsA(j[1], T)
    BY <1>1, <1>3, IsAKind
  <2>3. QED
    BY <1>1, <2>1, <2>2 DEF IsOf
<1>4. ASSUME NEW k \in Kinds, NEW o \in JavaScalars, v = <<"wrapper", <<k, o>>>>, k \in Supers[o[1]] PROVE
           j # Error /\ IsOf(T, j) /\ Same(v, j)
  <2>1. IsA(o[1], T)
    BY <1>4, WrappersHold
  <2>2. o[1] \in Kinds /\ T.of \in Supers[o[1]]
    BY <1>1, <2>1, JavaScalarsHaveKinds DEF IsA, Primitive, Integral
  <2>3. o[1] = T.of
    BY <1>1, <2>2, FinalKinds
  <2>4. j = o
    BY <1>1, <1>4, <2>3 DEF ToJava, IsWrapper
  <2>5. j # Error
    BY <2>4, JavaScalarsHaveKinds
  <2>6. SameScalar(v, j)
    BY <1>4, <2>4 DEF SameScalar, IsWrapper
  <2>7. QED
    BY <1>3, <2>3, <2>4, <2>5, <2>6 DEF Same
<1>5. ASSUME v[1] # "wrapper" PROVE
           /\ j = Error => Unconvertible(T, v)
           /\ j # Error => IsOf(T, j) /\ (Exact(T, v) /\ ~Corrupted(T, v) => Same(v, j))
  <2>1. ~IsObject(v)
    BY <1>5 DEF IsObject, MatchesScalar
  <2>2. j = Basic(T.of, v)
    BY <1>1, <1>5, <2>1 DEF ToJava, IsWrapper
  <2>3. /\ j = Error => T.of = "char" /\ v[1] = "string"
        /\ j # Error => j = <<T.of, j[2]>> /\ (ExactScalar(T, v) => SameScalar(v, j))
    BY <1>1, <1>2, <2>1, <2>2, BasicConverts
  <2>4. Exact(T, v) => ExactScalar(T, v)
    BY DEF Exact
  <2>5. j # Error => j[1] = T.of
    BY <2>3
  <2>6. QED
    BY <1>1, <1>3, <2>3, <2>4, <2>5 DEF Unconvertible, Same
<1>6. v[1] = "wrapper" => \E k \in Kinds, o \in JavaScalars : v = <<"wrapper", <<k, o>>>> /\ k \in Supers[o[1]]
  BY JsKinds DEF Null, Undefined
<1>7. QED
  BY <1>4, <1>5, <1>6

LEMMA ToReferenceTypes ==
    ASSUME NEW T \in Types, ~IsPrimitive(T), ~T.array, NEW v \in JsScalars, v[1] # "array",
           MatchesScalar(T, v) \/ T.of = "Object"
    PROVE  LET j == ToJava(T, v) IN
           /\ j = Error => Unconvertible(T, v)
           /\ j # Error => IsOf(T, j) /\ (Exact(T, v) /\ ~Corrupted(T, v) => Same(v, j))
<1> DEFINE j == ToJava(T, v)
<1>1. CASE v \in Nothing
  <2>1. j = Null
    BY <1>1 DEF ToJava, Nothing
  <2>2. IsOf(T, Null)
    BY DEF IsOf, Null
  <2>3. QED
    BY <1>1, <2>1, <2>2, NothingIsSame DEF Null, Error
<1>2. CASE v \notin Nothing
  <2>1. j = ToObject(T, v)
    BY <1>2 DEF ToJava, Nothing
  <2>2. /\ j = Error => \/ T.of = "char" /\ v[1] = "string"
                        \/ T.of = "Object" /\ v[1] \in Opaque
        /\ j \in {Null, Error} \/ (j[1] \in Kinds /\ IsA(j[1], T))
        /\ j # Error /\ ExactScalar(T, v) /\ ~Spoilt(T, v) => SameScalar(v, j)
    BY <1>2, <2>1, ToObjectConverts
  <2>3. j = Error => Unconvertible(T, v)
    BY <2>2 DEF Unconvertible, Opaque
  <2>4. j # Error => IsOf(T, j) /\ j[1] # "array"
    <3>1. CASE j = Null
      BY <3>1 DEF IsOf, Null
    <3>2. CASE j # Null /\ j # Error
      <4>1. j[1] \in Kinds /\ IsA(j[1], T)
        BY <2>2, <3>2
      <4>2. j[1] # "array"
        BY <4>1, ClassesAssumption DEF Kinds, Primitive, Integral
      <4>3. QED
        BY <3>2, <4>1, <4>2 DEF IsOf
    <3>3. QED
      BY <3>1, <3>2
  <2>5. j # Error /\ Exact(T, v) /\ ~Corrupted(T, v) => Same(v, j)
    BY <2>2, <2>4 DEF Exact, Corrupted, Same
  <2>6. QED
    BY <2>3, <2>4, <2>5
<1>3. QED
  BY <1>1, <1>2

\* What is taken and converted is of the type, and the same value if the type
\* has it and it is not one of those the code corrupts: large numbers for an
\* Object, null in an Integer[] or a String[].  What is taken and not converted
\* is one of the values that cannot be.
THEOREM ToJavaConverts ==
    ASSUME NEW T \in Types, NEW v \in JsValues, Takes(T, v)
    PROVE  LET j == ToJava(T, v) IN
           /\ j = Error => Unconvertible(T, v)
           /\ j # Error => IsOf(T, j) /\ (Exact(T, v) /\ ~Corrupted(T, v) => Same(v, j))
<1> DEFINE j == ToJava(T, v)
<1>1. CASE T.array
  BY <1>1, ToArrayTypes DEF Takes
<1>2. CASE ~T.array /\ v \in JsScalars /\ v[1] # "array"
  <2>1. MatchesScalar(T, v) \/ T.of = "Object"
    BY <1>2 DEF Takes, Matches
  <2>2. IsPrimitive(T) => MatchesScalar(T, v)
    BY <2>1 DEF IsPrimitive, Primitive, Integral
  <2>3. QED
    BY <1>2, <2>1, <2>2, ToPrimitiveTypes, ToReferenceTypes
<1>3. ASSUME ~T.array, NEW s \in Seq(JsScalars), v = <<"array", s>> PROVE
           /\ j = Error => Unconvertible(T, v)
           /\ j # Error => IsOf(T, j) /\ (Exact(T, v) /\ ~Corrupted(T, v) => Same(v, j))
  <2>1. T.of = "Object"
    BY <1>3 DEF Takes, Matches, MatchesScalar
  <2>2. T.of \notin Primitive \union {"String"} /\ ~IsPrimitive(T)
    BY <2>1 DEF Primitive, Integral, IsPrimitive
  <2>3. v \notin Nothing
    BY <1>3 DEF Nothing, Null, Undefined
  <2>4. j = ToObjects(T, v)
    BY <1>3, <2>1, <2>2, <2>3 DEF ToJava, Nothing
  <2>5. /\ j # Error => j = <<"array", j[2]>> /\ DOMAIN j[2] = DOMAIN s /\ Len(j[2]) = Len(s)
        /\ j = Error => Unconvertible(T, v)
        /\ j # Error /\ Exact(T, v) /\ ~Corrupted(T, v) => \A i \in DOMAIN s : SameScalar(s[i], j[2][i])
    BY <1>3, <2>1, <2>2, <2>4, ObjectsConvert
  <2>6. ASSUME j # Error PROVE IsOf(T, j) /\ (Exact(T, v) /\ ~Corrupted(T, v) => Same(v, j))
    <3>1. j # Null /\ j[1] = "array" /\ v[1] = "array" /\ v[2] = s
      BY <1>3, <2>5, <2>6 DEF Null
    <3>2. IsOf(T, j)
      BY <1>3, <2>1, <3>1 DEF IsOf
    <3>3. Exact(T, v) /\ ~Corrupted(T, v) => Same(v, j)
      BY <2>5, <2>6, <3>1 DEF Same
    <3>4. QED
      BY <3>2, <3>3
  <2>7. QED
    BY <2>5, <2>6
<1>4. QED
  BY <1>1, <1>2, <1>3, ArraysOrScalars

-----------------------------------------------------------------------------
(***************************************************************************)
(* To JS                                                                   *)
(***************************************************************************)
IsList(s) == \E S : s \in Seq(S)

\* An array of an array type has elements of that type, whatever it was made of.
Sound(T, j) == T.array /\ j[1] = "array" => IsList(j[2]) /\ \A i \in DOMAIN j[2] : Fits(Inner(T), j[2][i])

LEMMA ToJavaIsSound ==
    ASSUME NEW T \in Types, NEW v \in JsValues, ToJava(T, v) # Error
    PROVE  Sound(T, ToJava(T, v))
<1> DEFINE j == ToJava(T, v)
<1> SUFFICES ASSUME T.array, j[1] = "array"
             PROVE  IsList(j[2]) /\ \A i \in DOMAIN j[2] : Fits(Inner(T), j[2][i])
  BY DEF Sound
<1>1. ~IsPrimitive(T)
  BY DEF IsPrimitive
<1>2. v \notin Nothing
  BY <1>1 DEF ToJava, Nothing, Null
<1>3. j = ToArray(T, v)
  BY <1>1, <1>2 DEF ToJava, Nothing
<1>4. ASSUME NEW s \in Seq(JsScalars), v = <<"array", s>>
      PROVE  IsList(j[2]) /\ \A i \in DOMAIN j[2] : Fits(Inner(T), j[2][i])
  <2>1. DOMAIN j[2] = DOMAIN s /\ \A i \in DOMAIN s : Fits(Inner(T), j[2][i])
    BY <1>3, <1>4, ArrayConverts
  <2> DEFINE e == [i \in DOMAIN s |-> Stored(Inner(T), Element(Inner(T), s[i]))]
  <2>2. j = AllOrError(e)
    BY <1>3, <1>4 DEF ToArray
  <2>3. j = <<"array", e>>
    BY <2>2, AllOrErrorIsAll
  <2>4. e \in Seq({e[i] : i \in DOMAIN s})
    OBVIOUS
  <2> HIDE DEF e
  <2>5. QED
    BY <2>1, <2>3, <2>4 DEF IsList
<1>5. ASSUME NEW s \in Seq(0 .. Size["byte"] - 1), v = <<"buffer", s>>
      PROVE  IsList(j[2]) /\ \A i \in DOMAIN j[2] : Fits(Inner(T), j[2][i])
  <2>1. T.of = "byte" /\ ~T.boxed
    BY <1>3, <1>5 DEF ToArray
  <2> DEFINE e == [i \in DOMAIN s |-> <<"byte", Wrap(s[i], Size["byte"])>>]
  <2>2. j = <<"array", e>> /\ \A i \in DOMAIN s : Fits(Inner(T), e[i])
    BY <1>3, <1>5, <2>1, BufferConverts
  <2>3. DOMAIN e = DOMAIN s /\ e \in Seq({e[i] : i \in DOMAIN s})
    OBVIOUS
  <2> HIDE DEF e
  <2>4. QED
    BY <2>2, <2>3 DEF IsList
<1>6. v[1] \in {"array", "buffer"}
  BY <1>3 DEF ToArray
<1>7. v \in JsScalars /\ v[1] = "buffer" => \E s \in Seq(0 .. Size["byte"] - 1) : v = <<"buffer", s>>
  BY JsKinds DEF Null, Undefined
<1>8. QED
  BY <1>4, <1>5, <1>6, <1>7, ArraysOrScalars

LEMMA JavaObjectsAreSound ==
    ASSUME NEW T \in Types, NEW j \in JavaObjects, IsOf(T, j)
    PROVE  Sound(T, j)
<1> SUFFICES ASSUME T.array, j[1] = "array"
             PROVE  IsList(j[2]) /\ \A i \in DOMAIN j[2] : Fits(Inner(T), j[2][i])
  BY DEF Sound
<1>1. j \notin JavaScalars /\ j # Null
  BY JavaScalarsHaveKinds DEF Null
<1>2. j[2] \in Seq(JavaScalars \union {Null})
  BY <1>1, Pairs DEF JavaObjects
<1>3. T.of # "Object" \/ T.array
  OBVIOUS
<1>4. ASSUME NEW i \in DOMAIN j[2] PROVE Fits(Inner(T), j[2][i])
  <2>1. IF j[2][i] = Null THEN ~IsPrimitive(Inner(T)) ELSE IsA(j[2][i][1], T)
    BY <1>1 DEF IsOf
  <2>2. j[2][i] \in JavaScalars \union {Null}
    BY <1>2, ElementOfSeq
  <2>3. CASE j[2][i] = Null
    BY <2>1, <2>3 DEF Fits
  <2>4. CASE j[2][i] # Null
    <3>1. PICK o \in JavaScalars : o = j[2][i]
      BY <2>2, <2>4
    <3>2. o[1] \in Kinds
      BY JavaScalarsHaveKinds
    <3>3. o[1] = "byte" => InRange(o[2], "byte")
      BY JavaKinds, ClassesAssumption DEF Primitive, Integral
    <3>4. IsA(o[1], Inner(T))
      BY <2>1, <2>4, <3>1, InnerIsA
    <3>5. QED
      BY <2>4, <3>1, <3>2, <3>3, <3>4 DEF Fits
  <2>5. QED
    BY <2>3, <2>4
<1>5. QED
  BY <1>2, <1>4 DEF IsList

\* Whatever a value was declared as, it is seen as what it is, a long as a BigInt.
LEMMA ScalarsReturn ==
    ASSUME NEW T, NEW j
    PROVE  SameScalar(ToJs(T, j), j) /\ (j[1] = "long" => ToJs(T, j)[1] = "bigint")
<1>1. CASE j = Null
  <2>1. ToJs(T, j) = Null
    BY <1>1 DEF ToJs, Null, Primitive, Integral
  <2>2. QED
    BY <1>1, <2>1 DEF SameScalar, IsWrapper, Null, Integral
<1>2. CASE j # Null /\ j[1] \in Primitive \union {"String"}
  <2>1. ToJs(T, j) = Scalar(j)
    BY <1>2 DEF ToJs
  <2>2. CASE j[1] = "boolean"
    <3>1. Scalar(j) = j /\ ~IsWrapper(j)
      BY <2>2 DEF Scalar, IsWrapper
    <3>2. QED
      BY <1>2, <2>1, <2>2, <3>1 DEF SameScalar, Integral
  <2>3. CASE j[1] = "long"
    BY <1>2, <2>1, <2>3 DEF Scalar, IsWrapper, SameScalar, Integral
  <2>4. CASE j[1] \in {"byte", "short", "int"}
    BY <1>2, <2>1, <2>4 DEF Scalar, IsWrapper, SameScalar, Integral
  <2>5. CASE j[1] \in {"float", "double"}
    BY <1>2, <2>1, <2>5 DEF Scalar, IsWrapper, SameScalar, Integral
  <2>6. CASE j[1] = "char"
    BY <1>2, <2>1, <2>6 DEF Scalar, IsWrapper, SameScalar, Integral
  <2>7. CASE j[1] = "String"
    BY <1>2, <2>1, <2>7 DEF Scalar, IsWrapper, SameScalar, Integral
  <2>8. QED
    BY <1>2, <2>2, <2>3, <2>4, <2>5, <2>6, <2>7 DEF Primitive, Integral
<1>3. CASE j # Null /\ j[1] \notin Primitive \union {"String"}
  <2>1. ToJs(T, j) = Wrapped(T, j)
    BY <1>3 DEF ToJs
  <2>2. QED
    BY <1>3, <2>1 DEF Wrapped, SameScalar, IsWrapper, Primitive, Integral
<1>4. QED
  BY <1>1, <1>2, <1>3

LEMMA MapLength ==
    ASSUME NEW s, IsList(s), NEW f, DOMAIN f = DOMAIN s, f = [i \in DOMAIN s |-> f[i]]
    PROVE  Len(f) = Len(s)
  BY DEF IsList

LEMMA ArraysReturn ==
    ASSUME NEW T \in Types, T.array, NEW j, j[1] = "array", Sound(T, j), Returnable(T, j)
    PROVE  Arrived(T, ArrayToJs(Inner(T), j[2]), j)
<1> DEFINE s == j[2]
           v == ArrayToJs(Inner(T), j[2])
<1>1. /\ IsList(s) /\ \A i \in DOMAIN s : Fits(Inner(T), s[i])
      /\ Inner(T).of = T.of /\ Inner(T).boxed = T.boxed /\ ~Inner(T).array
  BY InnerTypes DEF Sound
<1>2. CASE T.of = "byte"
  <2> DEFINE f == [i \in DOMAIN s |-> IF s[i] = Null THEN 0 ELSE s[i][2] % Size["byte"]]
  <2>1. v = <<"buffer", f>>
    BY <1>1, <1>2 DEF ArrayToJs
  <2>2. ASSUME NEW i \in DOMAIN s PROVE f[i] >= 0 /\ Wrap(f[i], Size["byte"]) = s[i][2] /\ s[i][1] = "byte"
    <3>1. s[i] # Null
      BY <1>2, <2>2 DEF Returnable
    <3>2. s[i][1] \in Kinds /\ "byte" \in Supers[s[i][1]] /\ (s[i][1] = "byte" => InRange(s[i][2], "byte"))
      BY <1>1, <1>2, <2>2, <3>1 DEF Fits, IsA
    <3>3. s[i][1] = "byte"
      BY <3>2, FinalKinds DEF Primitive, Integral
    <3>4. f[i] = s[i][2] % Size["byte"]
      BY <2>2, <3>1
    <3>5. f[i] \in 0 .. Size["byte"] - 1 /\ Wrap(f[i], Size["byte"]) = s[i][2]
      BY <3>2, <3>3, <3>4, BytesReturn
    <3>6. Size["byte"] \in Nat
      BY SizesAssumption DEF Integral
    <3>7. QED
      BY <3>3, <3>5, <3>6
  <2>3. Len(f) = Len(s)
    BY <1>1, MapLength
  <2> HIDE DEF f
  <2>4. v[1] = "buffer" /\ v[2] = f
    BY <2>1
  <2>5. QED
    BY <2>2, <2>3, <2>4 DEF Arrived, Same, LongsAreBigInts
<1>3. CASE IsPrimitive(Inner(T)) /\ T.of = "long"
  <2> DEFINE f == [i \in DOMAIN s |-> <<"number", Rounded(2 * s[i][2], DoubleSize)>>]
  <2>1. v = <<"array", f>>
    BY <1>1, <1>3 DEF ArrayToJs
  <2>2. ASSUME NEW i \in DOMAIN s PROVE SameScalar(f[i], s[i])
    <3>1. s[i] # Null
      BY <1>1, <1>3, <2>2 DEF Fits
    <3>2. s[i][1] \in Kinds /\ "long" \in Supers[s[i][1]]
      BY <1>1, <1>3, <2>2, <3>1 DEF Fits, IsA
    <3>3. s[i][1] = "long"
      BY <3>2, FinalKinds DEF Primitive, Integral
    <3>4. Rounded(2 * s[i][2], DoubleSize) = 2 * s[i][2]
      BY <1>1, <1>3, <2>2 DEF Returnable, PrimitiveLongs, IsPrimitive
    <3>5. f[i] = <<"number", 2 * s[i][2]>>
      BY <2>2, <3>4
    <3>6. QED
      BY <3>1, <3>3, <3>5 DEF SameScalar, IsWrapper, Integral
  <2>3. Len(f) = Len(s)
    BY <1>1, MapLength
  <2> HIDE DEF f
  <2>4. v[1] = "array" /\ v[2] = f
    BY <2>1
  <2>5. QED
    BY <1>1, <1>3, <2>2, <2>3, <2>4 DEF Arrived, Same, PrimitiveLongs, IsPrimitive
<1>4. CASE T.of # "byte" /\ ~(IsPrimitive(Inner(T)) /\ T.of = "long")
  <2> DEFINE f == [i \in DOMAIN s |-> ToJs(Inner(T), s[i])]
  <2>1. v = <<"array", f>>
    BY <1>1, <1>4 DEF ArrayToJs
  <2>2. \A i \in DOMAIN s : SameScalar(f[i], s[i]) /\ (s[i][1] = "long" => f[i][1] = "bigint")
    BY ScalarsReturn
  <2>3. Len(f) = Len(s)
    BY <1>1, MapLength
  <2> HIDE DEF f
  <2>4. v[1] = "array" /\ v[2] = f
    BY <2>1
  <2>5. QED
    BY <2>2, <2>3, <2>4 DEF Arrived, Same, LongsAreBigInts
<1>5. QED
  BY <1>2, <1>3, <1>4

\* What Java returns, or has in a field, arrives in JS, with its longs as BigInts
\* unless it is a long[].
THEOREM ReturnedIsSame ==
    ASSUME NEW T \in Types, NEW j, Sound(T, j), Described(T, j), Returnable(T, j)
    PROVE  Arrived(T, Returned(T, j), j)
<1>1. CASE j[1] = "array"
  <2>1. T.array
    BY <1>1 DEF Described
  <2>2. Returned(T, j) = ArrayToJs(Inner(T), j[2])
    BY <1>1, <2>1 DEF Returned
  <2>3. QED
    BY <1>1, <2>1, <2>2, ArraysReturn
<1>2. CASE j[1] # "array"
  BY <1>2, ScalarsReturn DEF Returned, Arrived, Same, LongsAreBigInts
<1>3. QED
  BY <1>1, <1>2

\* A number of a type is rounded to a number.
LEMMA RoundedIsInt ==
    ASSUME NEW h \in Int, -Size["long"] <= h, h <= Size["long"]
    PROVE  Rounded(h, DoubleSize) \in Int
<1> DEFINE magnitude == IF h < 0 THEN -h ELSE h
<1>1. h # NaN /\ Size["long"] \in Nat
  BY NaNAssumption, SizesAssumption DEF Integral
<1>2. magnitude \in 0 .. Size["long"]
  BY <1>1
<1>3. Units(magnitude, DoubleSize) # {} /\ Powers \subseteq Nat \ {0}
  BY <1>2, PowersAssumption
<1>4. Unit(magnitude, DoubleSize) \in Units(magnitude, DoubleSize)
  BY <1>3 DEF Unit
<1>5. Unit(magnitude, DoubleSize) \in Nat \ {0}
  BY <1>3, <1>4 DEF Units
<1>6. PICK unit \in Nat \ {0} : unit = Unit(magnitude, DoubleSize)
  BY <1>5
<1>7. h \div unit \in Int
  OBVIOUS
<1>8. \E d \in Int : Rounded(h, DoubleSize) = unit * d
  BY <1>1, <1>6, <1>7 DEF Rounded
<1>9. QED
  BY <1>8

LEMMA JsScalarsAre ==
    /\ Null \in JsScalars
    /\ \A h \in Int \union {NaN} : <<"number", h>> \in JsScalars
    /\ \A n \in Int : <<"bigint", n>> \in JsScalars
    /\ \A b \in BOOLEAN : <<"boolean", b>> \in JsScalars
    /\ \A s \in Seq(STRING) : <<"string", s>> \in JsScalars
    /\ \A s \in Seq(0 .. Size["byte"] - 1) : <<"buffer", s>> \in JsScalars
    /\ \A k \in Kinds, j \in JavaScalars : k \in Supers[j[1]] => <<"wrapper", <<k, j>>>> \in JsScalars
<1>1. Null \in JsScalars
  BY DEF JsScalars
<1>2. ASSUME NEW h \in Int \union {NaN} PROVE <<"number", h>> \in JsScalars
  <2>1. <<"number", h>> \in {"number"} \X (Int \union {NaN})
    OBVIOUS
  <2>2. QED
    BY <2>1 DEF JsScalars
<1>3. \A n \in Int : <<"bigint", n>> \in JsScalars
  BY DEF JsScalars
<1>4. \A b \in BOOLEAN : <<"boolean", b>> \in JsScalars
  BY DEF JsScalars
<1>5. \A s \in Seq(STRING) : <<"string", s>> \in JsScalars
  BY DEF JsScalars
<1>6. \A s \in Seq(0 .. Size["byte"] - 1) : <<"buffer", s>> \in JsScalars
  BY DEF JsScalars
<1>7. ASSUME NEW k \in Kinds, NEW j \in JavaScalars, k \in Supers[j[1]] PROVE <<"wrapper", <<k, j>>>> \in JsScalars
  <2>1. <<k, j>> \in {w \in Kinds \X JavaScalars : w[1] \in Supers[w[2][1]]}
    BY <1>7
  <2>2. <<"wrapper", <<k, j>>>> \in {"wrapper"} \X {w \in Kinds \X JavaScalars : w[1] \in Supers[w[2][1]]}
    BY <2>1
  <2>3. QED
    BY <2>2 DEF JsScalars
<1>8. QED
  BY <1>1, <1>2, <1>3, <1>4, <1>5, <1>6, <1>7

LEMMA IntegralsAreInts ==
    ASSUME NEW of \in Integral, NEW n, InRange(n, of)
    PROVE  n \in Int /\ -Size["long"] <= 2 * n /\ 2 * n <= Size["long"]
<1>1. PICK half \in Nat \ {0} : /\ Size[of] = 2 * half
                                /\ Low(of) = -half /\ High(of) = half - 1
  BY Halves
<1>2. n \in -half .. half - 1
  BY <1>1 DEF InRange
<1>3. 2 * half <= Size["long"]
  BY <1>1, SizesAssumption DEF Integral
<1>4. Size["long"] \in Nat
  BY SizesAssumption DEF Integral
<1>5. QED
  BY <1>2, <1>3, <1>4

LEMMA ToJsScalar ==
    ASSUME NEW T \in Types, NEW j \in JavaScalars, IsA(j[1], T)
    PROVE  ToJs(T, j) \in JsScalars
<1>0. j # Null
  BY JavaScalarsHaveKinds
<1>1. ASSUME NEW of \in Integral, j = <<of, j[2]>>, InRange(j[2], of) PROVE ToJs(T, j) \in JsScalars
  <2>1. j[2] \in Int /\ 2 * j[2] \in Int /\ j[1] = of
    BY <1>1, IntegralsAreInts
  <2>2. ToJs(T, j) = <<"bigint", j[2]>> \/ ToJs(T, j) = <<"number", 2 * j[2]>>
    BY <1>0, <2>1 DEF ToJs, Scalar, Integral, Primitive
  <2>3. QED
    BY <2>1, <2>2, JsScalarsAre
<1>2. ASSUME j[1] \in {"float", "double"}, j[2] \in Int \union {NaN} PROVE ToJs(T, j) \in JsScalars
  <2>1. ToJs(T, j) = <<"number", j[2]>>
    BY <1>0, <1>2 DEF ToJs, Scalar, Primitive
  <2>2. QED
    BY <1>2, <2>1, JsScalarsAre
<1>3. ASSUME j = <<"boolean", j[2]>>, j[2] \in BOOLEAN PROVE ToJs(T, j) \in JsScalars
  <2>1. ToJs(T, j) = j /\ <<"boolean", j[2]>> \in JsScalars
    BY <1>0, <1>3, JsScalarsAre DEF ToJs, Scalar, Primitive
  <2>2. QED
    BY <1>3, <2>1
<1>4. ASSUME j[1] = "char", j[2] \in STRING PROVE ToJs(T, j) \in JsScalars
  <2>1. ToJs(T, j) = <<"string", <<j[2]>>>>
    BY <1>0, <1>4 DEF ToJs, Scalar, Primitive
  <2>2. <<j[2]>> \in Seq(STRING)
    BY <1>4
  <2>3. QED
    BY <2>1, <2>2, JsScalarsAre
<1>5. ASSUME j[1] = "String", j[2] \in Seq(STRING) PROVE ToJs(T, j) \in JsScalars
  <2>1. ToJs(T, j) = <<"string", j[2]>>
    BY <1>0, <1>5 DEF ToJs, Scalar, Primitive
  <2>2. QED
    BY <1>5, <2>1, JsScalarsAre
<1>6. ASSUME j[1] \in Classes PROVE ToJs(T, j) \in JsScalars
  <2>1. ToJs(T, j) = Wrapped(T, j)
    BY <1>0, <1>6, ClassesAssumption DEF ToJs
  <2>2. \E k \in Kinds : k \in Supers[j[1]] /\ Wrapped(T, j) = <<"wrapper", <<k, j>>>>
    <3>1. CASE T.of = "Object"
      <4>1. j[1] \in Kinds /\ j[1] \in Supers[j[1]] /\ Wrapped(T, j) = <<"wrapper", <<j[1], j>>>>
        BY <3>1, JavaScalarsHaveKinds, ClassesAssumption DEF Wrapped
      <4>2. QED
        BY <4>1
    <3>2. CASE T.of # "Object"
      <4>1. T.of \in Kinds /\ T.of \in Supers[j[1]] /\ Wrapped(T, j) = <<"wrapper", <<T.of, j>>>>
        BY <3>2, InnerTypes DEF Wrapped, IsA, Kinds
      <4>2. QED
        BY <4>1
    <3>3. QED
      BY <3>1, <3>2
  <2>3. QED
    BY <2>1, <2>2, JsScalarsAre
<1>7. QED
  BY <1>1, <1>2, <1>3, <1>4, <1>5, <1>6, JavaKinds

LEMMA MapIsList ==
    ASSUME NEW S, NEW s \in Seq(S), NEW R, NEW f \in [DOMAIN s -> R]
    PROVE  f \in Seq(R)
  OBVIOUS

LEMMA NullToJs ==
    ASSUME NEW T
    PROVE  ToJs(T, Null) = Null
  BY DEF ToJs, Null, Primitive, Integral

\* What a Java program returns is seen as a JS value.
LEMMA ReturnedIsJs ==
    ASSUME NEW T \in Types, NEW j \in JavaObjects, IsOf(T, j), Described(T, j)
    PROVE  Returned(T, j) \in JsValues
<1>1. CASE j = Null
  <2>1. Returned(T, j) = Null
    BY <1>1, NullToJs DEF Returned, Null
  <2>2. QED
    BY <2>1, JsScalarsAre DEF JsValues
<1>2. CASE j \in JavaScalars
  <2>1. Returned(T, j) = ToJs(T, j) /\ j # Null /\ j[1] # "array"
    BY <1>2, JavaScalarsHaveKinds DEF Returned
  <2>2. IsA(j[1], T)
    BY <2>1 DEF IsOf
  <2>3. QED
    BY <1>2, <2>1, <2>2, ToJsScalar DEF JsValues
<1>3. ASSUME NEW s \in Seq(JavaScalars \union {Null}), j = <<"array", s>> PROVE Returned(T, j) \in JsValues
  <2>1. T.array /\ j[1] = "array" /\ j[2] = s /\ j # Null
    BY <1>3 DEF Described, Null
  <2>2. Returned(T, j) = ArrayToJs(Inner(T), s)
    BY <2>1 DEF Returned
  <2>3. Inner(T) \in Types /\ Inner(T).of = T.of /\ Size["byte"] \in Nat \ {0}
    BY InnerTypes, SizesAssumption DEF Integral
  <2>4. ASSUME NEW i \in DOMAIN s PROVE s[i] \in JavaScalars \union {Null} /\ Fits(Inner(T), s[i])
    <3>1. s[i] \in JavaScalars \union {Null}
      BY <2>4, ElementOfSeq
    <3>2. Sound(T, j)
      BY JavaObjectsAreSound
    <3>3. QED
      BY <2>1, <3>1, <3>2 DEF Sound
  <2>5. CASE T.of = "byte"
    <3> DEFINE f == [i \in DOMAIN s |-> IF s[i] = Null THEN 0 ELSE s[i][2] % Size["byte"]]
    <3>1. Returned(T, j) = <<"buffer", f>>
      BY <2>2, <2>3, <2>5 DEF ArrayToJs
    <3>2. ASSUME NEW i \in DOMAIN s PROVE f[i] \in 0 .. Size["byte"] - 1
      <4>1. CASE s[i] = Null
        BY <2>3, <3>2, <4>1
      <4>2. CASE s[i] # Null
        <5>1. s[i][1] \in Kinds /\ "byte" \in Supers[s[i][1]] /\ (s[i][1] = "byte" => InRange(s[i][2], "byte"))
          BY <2>3, <2>4, <2>5, <4>2 DEF Fits, IsA
        <5>2. s[i][1] = "byte"
          BY <5>1, FinalKinds DEF Primitive, Integral
        <5>3. f[i] = s[i][2] % Size["byte"]
          BY <3>2, <4>2
        <5>4. QED
          BY <5>1, <5>2, <5>3, BytesReturn
      <4>3. QED
        BY <4>1, <4>2
    <3>3. f \in [DOMAIN s -> 0 .. Size["byte"] - 1]
      BY <3>2
    <3> HIDE DEF f
    <3>4. f \in Seq(0 .. Size["byte"] - 1)
      BY <3>3, MapIsList
    <3>5. QED
      BY <3>1, <3>4, JsScalarsAre DEF JsValues
  <2>6. CASE IsPrimitive(Inner(T)) /\ T.of = "long"
    <3> DEFINE f == [i \in DOMAIN s |-> <<"number", Rounded(2 * s[i][2], DoubleSize)>>]
    <3>1. Returned(T, j) = <<"array", f>>
      BY <2>2, <2>3, <2>6 DEF ArrayToJs
    <3>2. ASSUME NEW i \in DOMAIN s PROVE f[i] \in JsScalars
      <4>1. s[i] # Null
        BY <2>4, <2>6 DEF Fits
      <4>2. s[i][1] \in Kinds /\ "long" \in Supers[s[i][1]] /\ s[i] \in JavaScalars
        BY <2>3, <2>4, <2>6, <4>1 DEF Fits, IsA
      <4>3. s[i][1] = "long"
        BY <4>2, FinalKinds DEF Primitive, Integral
      <4>4. InRange(s[i][2], "long")
        BY <4>2, <4>3, JavaKinds, ClassesAssumption DEF Integral, Primitive
      <4>5. Rounded(2 * s[i][2], DoubleSize) \in Int
        BY <4>4, IntegralsAreInts, RoundedIsInt DEF Integral
      <4>6. QED
        BY <3>2, <4>5, JsScalarsAre
    <3>3. f \in Seq(JsScalars)
      BY <3>2
    <3> HIDE DEF f
    <3>4. QED
      BY <3>1, <3>3 DEF JsValues
  <2>7. CASE T.of # "byte" /\ ~(IsPrimitive(Inner(T)) /\ T.of = "long")
    <3> DEFINE f == [i \in DOMAIN s |-> ToJs(Inner(T), s[i])]
    <3>1. Returned(T, j) = <<"array", f>>
      BY <2>2, <2>3, <2>7 DEF ArrayToJs
    <3>2. ASSUME NEW i \in DOMAIN s PROVE f[i] \in JsScalars
      <4>1. CASE s[i] = Null
        BY <3>2, <4>1, NullToJs, JsScalarsAre
      <4>2. CASE s[i] # Null
        BY <2>3, <2>4, <3>2, <4>2, ToJsScalar DEF Fits
      <4>3. QED
        BY <4>1, <4>2
    <3>3. f \in Seq(JsScalars)
      BY <3>2
    <3> HIDE DEF f
    <3>4. QED
      BY <3>1, <3>3 DEF JsValues
  <2>8. QED
    BY <2>5, <2>6, <2>7
<1>4. j \in {"array"} \X Seq(JavaScalars \union {Null}) => \E s \in Seq(JavaScalars \union {Null}) : j = <<"array", s>>
  BY Pairs
<1>5. QED
  BY <1>1, <1>2, <1>3, <1>4 DEF JavaObjects

-----------------------------------------------------------------------------
(***************************************************************************)
(* To JS and back                                                          *)
(***************************************************************************)
LEMMA TwiceIsWhole ==
    ASSUME NEW of \in Integral, NEW n, InRange(n, of)
    PROVE  n \in Int /\ 2 * n \in Int /\ Whole(2 * n) /\ (2 * n) \div 2 = n
<1>1. n \in Int
  BY IntegralsAreInts
<1>2. 2 * n \in Int /\ (2 * n) % 2 = 0 /\ (2 * n) \div 2 = n
  BY <1>1, WholeNumbers
<1>3. QED
  BY <1>1, <1>2, NaNAssumption DEF Whole

LEMMA ScalarComesBack ==
    ASSUME NEW T, NEW of \in {"byte", "int", "long", "float", "double", "boolean", "String"},
           NEW j \in JavaScalars, j[1] = of
    PROVE  LET v == ToJs(T, j) IN
           /\ v[1] \in {"number", "bigint", "boolean", "string"}
           /\ Basic(of, v) = j
           /\ T.of = of => MatchesScalar(T, v)
           /\ v[1] = CASE of \in {"byte", "int", "float", "double"} -> "number"
                       [] of = "long" -> "bigint"
                       [] of = "boolean" -> "boolean"
                       [] of = "String" -> "string"
           /\ of \in {"byte", "int"} => Whole(v[2])
           /\ of = "double" => v[2] = j[2]
<1> DEFINE v == ToJs(T, j)
<1>0. j # Null /\ j = <<of, j[2]>> /\ of \notin Classes
  BY JavaScalarsHaveKinds, ClassesAssumption DEF Primitive, Integral
<1>1. CASE of \in {"byte", "int"}
  <2>1. InRange(j[2], of)
    BY <1>0, <1>1, JavaKinds DEF Integral
  <2>2. /\ j[2] \in Int /\ 2 * j[2] \in Int /\ Whole(2 * j[2]) /\ (2 * j[2]) \div 2 = j[2]
    BY <1>1, <2>1, TwiceIsWhole DEF Integral
  <2>3. v = <<"number", 2 * j[2]>>
    BY <1>0, <1>1 DEF ToJs, Scalar, Primitive, Integral
  <2>4. Basic(of, v) = <<of, Basic(of, v)[2]>> /\ Basic(of, v)[2] = j[2]
    BY <1>1, <2>1, <2>2, <2>3, NumberConverts DEF Primitive, Integral
  <2>5. T.of = of => MatchesScalar(T, v)
    BY <1>1, <2>1, <2>2, <2>3 DEF MatchesScalar
  <2>6. QED
    BY <1>0, <1>1, <2>2, <2>3, <2>4, <2>5
<1>2. CASE of = "long"
  <2>1. InRange(j[2], of)
    BY <1>0, <1>2, JavaKinds DEF Integral
  <2>2. j[2] \in Int
    BY <1>2, <2>1, TwiceIsWhole DEF Integral
  <2>3. v = <<"bigint", j[2]>>
    BY <1>0, <1>2 DEF ToJs, Scalar, Primitive, Integral
  <2>4. Basic(of, v) = <<of, Basic(of, v)[2]>> /\ Basic(of, v)[2] = j[2]
    BY <1>2, <2>1, <2>2, <2>3, BigIntConverts
  <2>5. T.of = of => MatchesScalar(T, v)
    BY <1>2, <2>3 DEF MatchesScalar
  <2>6. QED
    BY <1>0, <1>2, <2>3, <2>4, <2>5
<1>3. CASE of \in {"float", "double"}
  <2>1. j[2] \in Int \union {NaN} /\ (of = "float" => Rounded(j[2], FloatSize) = j[2])
    BY <1>0, <1>3, JavaKinds DEF Integral
  <2>2. v = <<"number", j[2]>>
    BY <1>0, <1>3 DEF ToJs, Scalar, Primitive, Integral
  <2>3. Basic(of, v) = <<of, Basic(of, v)[2]>> /\ Basic(of, v)[2] = j[2]
    BY <1>3, <2>1, <2>2, NumberConverts DEF Primitive, Integral
  <2>4. T.of = of => MatchesScalar(T, v)
    BY <1>3, <2>2 DEF MatchesScalar
  <2>5. QED
    BY <1>0, <1>3, <2>2, <2>3, <2>4
<1>4. CASE of = "boolean"
  <2>1. j[2] \in BOOLEAN
    BY <1>0, <1>4, JavaKinds DEF Integral
  <2>2. v = j
    BY <1>0, <1>4 DEF ToJs, Scalar, Primitive, Integral
  <2>3. v = <<"boolean", j[2]>>
    BY <1>0, <1>4, <2>2
  <2>4. Basic(of, v) = j
    BY <1>0, <1>4, <2>1, <2>3, BooleanConverts
  <2>5. T.of = of => MatchesScalar(T, v)
    BY <1>4, <2>3 DEF MatchesScalar
  <2>6. v[1] = "boolean"
    BY <2>3
  <2>7. QED
    BY <1>4, <2>4, <2>5, <2>6
<1>5. CASE of = "String"
  <2>1. j[2] \in Seq(STRING)
    BY <1>0, <1>5, JavaKinds DEF Integral
  <2>2. v = <<"string", j[2]>>
    BY <1>0, <1>5 DEF ToJs, Scalar, Primitive, Integral
  <2>3. Basic(of, v) = j
    BY <1>0, <1>5, <2>1, <2>2, StringConverts
  <2>4. T.of = of => MatchesScalar(T, v)
    BY <1>5, <2>2 DEF MatchesScalar
  <2>5. QED
    BY <1>5, <2>2, <2>3, <2>4
<1>6. QED
  BY <1>1, <1>2, <1>3, <1>4, <1>5

LEMMA ObjectComesBack ==
    ASSUME NEW T \in Types, T.of \notin Primitive \union {"String"},
           NEW j \in JavaScalars, j[1] \in Classes, IsA(j[1], T)
    PROVE  LET v == ToJs(T, j) IN
           v[1] = "wrapper" /\ MatchesScalar(T, v) /\ Reference(T, v) = j
<1> DEFINE v == ToJs(T, j)
<1>1. v = <<"wrapper", <<IF T.of = "Object" THEN j[1] ELSE T.of, j>>>>
  BY JavaScalarsHaveKinds, ClassesAssumption DEF ToJs, Wrapped
<1>2. IsA(v[2][1], T)
  <2>1. T.of # "Object" => T.of \in Kinds
    BY InnerTypes DEF Kinds
  <2>2. QED
    BY <1>1, <2>1, IsAKind DEF IsA
<1>3. v[1] = "wrapper" /\ v[2][2] = j
  BY <1>1
<1>4. MatchesScalar(T, v)
  BY <1>2, <1>3 DEF MatchesScalar
<1>5. Reference(T, v) = j
  BY <1>3 DEF Reference
<1>6. QED
  BY <1>3, <1>4, <1>5

LEMMA NullComesBack ==
    ASSUME NEW T \in Types, ~IsPrimitive(T)
    PROVE  Returned(T, Null) = Null /\ Takes(T, Null) /\ ToJava(T, Null) = Null
<1>1. Returned(T, Null) = Null
  BY NullToJs DEF Returned, Null
<1>2. Matches(T, Null)
  BY DEF Matches, MatchesScalar, Null, Undefined
<1>3. ToJava(T, Null) = Null
  BY DEF ToJava, Null, Undefined
<1>4. QED
  BY <1>1, <1>2, <1>3 DEF Takes

LEMMA SingleComesBack ==
    ASSUME NEW T \in Types, NEW j \in JavaScalars, IsOf(T, j), Stable(T, j)
    PROVE  LET v == Returned(T, j) IN Takes(T, v) /\ ToJava(T, v) = j
<1> DEFINE v == Returned(T, j)
<1>1. j # Null /\ j[1] # "array" /\ j[1] \in Kinds
  BY JavaScalarsHaveKinds
<1>2. ~T.array /\ IsA(j[1], T) /\ v = ToJs(T, j)
  BY <1>1 DEF IsOf, Returned
<1>3. v[1] \in {"number", "bigint", "boolean", "string"} =>
         v \notin Nothing /\ ~IsObject(v) /\ ~IsWrapper(v) /\ v[1] # "array"
  BY DEF Nothing, Null, Undefined, IsObject, IsWrapper
<1>4. CASE T.of \in Primitive \union {"String"}
  <2>1. j[1] = T.of
    BY <1>1, <1>2, <1>4, FinalKinds DEF IsA, Primitive, Integral
  <2>2. T.of \in {"byte", "int", "long", "float", "double", "boolean", "String"}
    BY <1>2, <1>4 DEF Stable, Primitive, Integral
  <2>3. v[1] \in {"number", "bigint", "boolean", "string"} /\ Basic(T.of, v) = j /\ MatchesScalar(T, v)
    BY <1>2, <2>1, <2>2, ScalarComesBack
  <2>4. CASE IsPrimitive(T)
    <3>1. ToJava(T, v) = Basic(T.of, v)
      BY <1>2, <1>3, <2>3, <2>4 DEF ToJava
    <3>2. QED
      BY <1>2, <2>3, <3>1 DEF Takes, Matches
  <2>5. CASE ~IsPrimitive(T)
    <3>1. T.of \notin {"Object"} \union Classes
      BY <2>2, ClassesAssumption DEF Primitive, Integral
    <3>2. ToJava(T, v) = ToObject(T, v)
      BY <1>2, <1>3, <2>3, <2>5, <3>1 DEF ToJava, Nothing
    <3>3. ToObject(T, v) = Basic(T.of, v)
      BY <1>3, <1>4, <2>3 DEF ToObject
    <3>4. QED
      BY <1>2, <2>3, <3>2, <3>3 DEF Takes, Matches
  <2>6. QED
    BY <2>4, <2>5
<1>5. CASE T.of \notin Primitive \union {"String"}
  <2>1. ~IsPrimitive(T) /\ (T.of = "Object" \/ T.of \in Classes)
    BY <1>5, InnerTypes DEF IsPrimitive
  <2>2. v \notin Nothing /\ v[1] # "array" => ToJava(T, v) = Reference(T, v)
    BY <1>2, <1>5, <2>1 DEF ToJava, ToObject, Nothing
  <2>3. CASE j[1] \in Classes
    <3>1. v[1] = "wrapper" /\ MatchesScalar(T, v) /\ Reference(T, v) = j
      BY <1>2, <1>5, <2>3, ObjectComesBack
    <3>2. v \notin Nothing
      BY <3>1 DEF Nothing, Null, Undefined
    <3>3. QED
      BY <1>2, <2>2, <3>1, <3>2 DEF Takes, Matches
  <2>4. CASE j[1] \notin Classes
    <3>1. T.of = "Object"
      BY <1>1, <2>1, <2>4 DEF Stable
    <3>2. j[1] \in {"int", "long", "double", "boolean", "String"} /\ (j[1] = "double" => ~Whole(j[2]))
      BY <1>1, <2>4, <3>1 DEF Stable, Kinds, Primitive, Integral
    <3>3. /\ v[1] \in {"number", "bigint", "boolean", "string"}
          /\ Basic(j[1], v) = j
          /\ v[1] = CASE j[1] \in {"byte", "int", "float", "double"} -> "number"
                      [] j[1] = "long" -> "bigint"
                      [] j[1] = "boolean" -> "boolean"
                      [] j[1] = "String" -> "string"
          /\ j[1] \in {"byte", "int"} => Whole(v[2])
          /\ j[1] = "double" => v[2] = j[2]
      BY <1>2, <3>2, ScalarComesBack
    <3>4. Reference(T, v) = Basic(j[1], v)
      <4>1. CASE j[1] = "int"
        BY <3>3, <4>1 DEF Reference
      <4>2. CASE j[1] = "double"
        BY <3>2, <3>3, <4>2 DEF Reference
      <4>3. CASE j[1] = "long"
        BY <3>3, <4>3 DEF Reference
      <4>4. CASE j[1] = "boolean"
        BY <3>3, <4>4 DEF Reference
      <4>5. CASE j[1] = "String"
        BY <3>3, <4>5 DEF Reference
      <4>6. QED
        BY <3>2, <4>1, <4>2, <4>3, <4>4, <4>5
    <3>5. QED
      BY <1>2, <1>3, <2>2, <3>1, <3>3, <3>4 DEF Takes
  <2>5. QED
    BY <2>3, <2>4
<1>6. QED
  BY <1>4, <1>5

\* An element of an array whose elements are seen one by one.
LEMMA ElementComesBack ==
    ASSUME NEW I \in Types, ~I.array, NEW e \in JavaScalars \union {Null}, Fits(I, e),
           I.of \notin {"short", "byte"} \/ (I.of = "byte" /\ I.boxed),
           I.of = "char" => ~I.boxed,
           ~(IsPrimitive(I) /\ I.of = "long"),
           IF I.of \in Primitive \union {"String"} THEN e # Null ELSE e = Null \/ e[1] \in Classes
    PROVE  LET v == ToJs(I, e) IN
           MatchesScalar(I, v) /\ Stored(I, Element(I, v)) = e
<1> DEFINE v == ToJs(I, e)
<1>1. ASSUME Element(I, v) = e PROVE Stored(I, Element(I, v)) = e
  BY <1>1 DEF Stored, Fits
<1>2. CASE e = Null
  <2>1. v = Null /\ I.of \notin Primitive \union {"String"} /\ ~IsPrimitive(I)
    BY <1>2, NullToJs DEF IsPrimitive
  <2>2. MatchesScalar(I, v)
    BY <2>1 DEF MatchesScalar, Null
  <2>3. Element(I, v) = Null
    BY <2>1 DEF Element, ToObject, Reference, Null
  <2>4. QED
    BY <1>1, <1>2, <2>2, <2>3
<1>3. CASE e # Null /\ I.of \in Primitive \union {"String"}
  <2>1. e \in JavaScalars /\ e[1] \in Kinds /\ IsA(e[1], I) /\ e = <<e[1], e[2]>>
    BY <1>3, JavaScalarsHaveKinds DEF Fits
  <2>2. e[1] = I.of
    BY <1>3, <2>1, FinalKinds DEF IsA, Primitive, Integral
  <2>3. CASE I.of = "char"
    <3>1. e[2] \in STRING
      BY <2>1, <2>2, <2>3, JavaKinds, ClassesAssumption DEF Integral, Primitive
    <3>2. v = <<"string", <<e[2]>>>>
      BY <1>3, <2>2, <2>3 DEF ToJs, Scalar, Primitive, Integral
    <3>3. <<e[2]>> \in Seq(STRING) /\ Len(<<e[2]>>) = 1
      BY <3>1
    <3>4. MatchesScalar(I, v)
      BY <2>3, <3>2 DEF MatchesScalar
    <3>5. /\ Len(Slice(v)) = 2 /\ Slice(v)[1] = e[2] /\ Slice(v)[2] = "0"
      BY <3>2, <3>3, StringConverts
    <3>6. IsPrimitive(I)
      BY <2>3, InnerTypes DEF IsPrimitive, Primitive
    <3>7. Element(I, v) = e
      BY <2>1, <2>2, <2>3, <3>2, <3>5, <3>6 DEF Element
    <3>8. QED
      BY <1>1, <3>4, <3>7
  <2>4. CASE I.of # "char"
    <3>1. I.of \in {"byte", "int", "long", "float", "double", "boolean", "String"}
      BY <1>3, <2>4 DEF Primitive, Integral
    <3>2. /\ v[1] \in {"number", "bigint", "boolean", "string"} /\ Basic(I.of, v) = e /\ MatchesScalar(I, v)
          /\ v[1] = CASE I.of \in {"byte", "int", "float", "double"} -> "number"
                      [] I.of = "long" -> "bigint"
                      [] I.of = "boolean" -> "boolean"
                      [] I.of = "String" -> "string"
      BY <2>1, <2>2, <3>1, ScalarComesBack
    <3>3. CASE ~IsPrimitive(I)
      <4>1. Element(I, v) = ToObject(I, v) /\ ~IsObject(v) /\ ~IsWrapper(v)
        BY <3>2, <3>3 DEF Element, IsObject, IsWrapper
      <4>2. ToObject(I, v) = Basic(I.of, v)
        BY <1>3, <4>1 DEF ToObject
      <4>3. QED
        BY <1>1, <3>2, <4>1, <4>2
    <3>4. CASE IsPrimitive(I)
      <4>1. I.of \in {"int", "float", "double", "boolean"}
        BY <3>1, <3>4 DEF IsPrimitive, Primitive, Integral
      <4>2. CASE I.of = "boolean"
        <5>1. v = e
          BY <1>3, <2>2, <4>2 DEF ToJs, Scalar, Primitive, Integral
        <5>2. Element(I, v) = v
          BY <2>2, <3>4, <4>2, <5>1 DEF Element
        <5>3. QED
          BY <1>1, <3>2, <5>1, <5>2
      <4>3. CASE I.of # "boolean"
        <5>1. v[1] = "number"
          BY <3>2, <4>1, <4>3
        <5>2. Element(I, v) = Basic(I.of, v)
          BY <2>4, <3>4, <4>3, <5>1 DEF Element
        <5>3. QED
          BY <1>1, <3>2, <5>2
      <4>4. QED
        BY <4>2, <4>3
    <3>5. QED
      BY <3>3, <3>4
  <2>5. QED
    BY <2>3, <2>4
<1>4. CASE e # Null /\ I.of \notin Primitive \union {"String"}
  <2>1. e \in JavaScalars /\ e[1] \in Classes /\ IsA(e[1], I) /\ ~IsPrimitive(I)
    BY <1>4 DEF Fits, IsPrimitive
  <2>2. MatchesScalar(I, v) /\ Reference(I, v) = e
    BY <1>4, <2>1, ObjectComesBack
  <2>3. Element(I, v) = e
    BY <1>4, <2>1, <2>2 DEF Element, ToObject
  <2>4. QED
    BY <1>1, <2>2, <2>3
<1>5. QED
  BY <1>2, <1>3, <1>4

LEMMA AllOrErrorOfAll ==
    ASSUME NEW values, \A i \in DOMAIN values : values[i] # Error
    PROVE  AllOrError(values) = <<"array", values>>
  BY DEF AllOrError

\* An array whose elements are all read as they were.
LEMMA ElementsComeBack ==
    ASSUME NEW T \in Types, T.array, NEW s \in Seq(JavaScalars \union {Null}),
           NEW f, f = [i \in DOMAIN s |-> f[i]], DOMAIN f = DOMAIN s,
           \A i \in DOMAIN s : MatchesScalar(Inner(T), f[i]) /\ Stored(Inner(T), Element(Inner(T), f[i])) = s[i]
    PROVE  LET v == <<"array", f>> IN Takes(T, v) /\ ToJava(T, v) = <<"array", s>>
<1> DEFINE v == <<"array", f>>
           g == [i \in DOMAIN f |-> Stored(Inner(T), Element(Inner(T), f[i]))]
<1>1. g = s
  OBVIOUS
<1>2. \A i \in DOMAIN s : s[i] # Error
  <2>1. ASSUME NEW i \in DOMAIN s PROVE s[i] \in JavaScalars \union {Null}
    BY <2>1, ElementOfSeq
  <2>2. QED
    BY <2>1, JavaScalarsHaveKinds DEF Null, Error
<1>3. v \notin Nothing /\ ~IsPrimitive(T) /\ v[1] = "array" /\ v[2] = f
  BY DEF Nothing, Null, Undefined, IsPrimitive
<1>4. ToJava(T, v) = ToArray(T, v)
  BY <1>3 DEF ToJava, Nothing
<1>5. ToArray(T, v) = AllOrError(g)
  BY DEF ToArray
<1>6. AllOrError(s) = <<"array", s>>
  BY <1>2, AllOrErrorOfAll
<1>7. f = <<>> \/ 1 \in DOMAIN f
  <2>1. Len(s) \in Nat /\ DOMAIN s = 1 .. Len(s)
    OBVIOUS
  <2>2. CASE Len(s) = 0
    <3>1. DOMAIN f = {}
      BY <2>1, <2>2
    <3>2. QED
      BY <3>1
  <2>3. CASE Len(s) # 0
    BY <2>1, <2>3
  <2>4. QED
    BY <2>2, <2>3
<1> HIDE DEF v
<1>8. Matches(T, v)
  BY <1>3, <1>7 DEF Matches
<1> HIDE DEF g
<1>9. QED
  BY <1>1, <1>4, <1>5, <1>6, <1>8 DEF Takes, v

LEMMA ArrayComesBack ==
    ASSUME NEW T \in Types, T.array, NEW s \in Seq(JavaScalars \union {Null}),
           IsOf(T, <<"array", s>>), Stable(T, <<"array", s>>)
    PROVE  LET v == Returned(T, <<"array", s>>) IN Takes(T, v) /\ ToJava(T, v) = <<"array", s>>
<1> DEFINE j == <<"array", s>>
           v == Returned(T, j)
           I == Inner(T)
<1>1. I \in Types /\ ~I.array /\ I.of = T.of /\ I.boxed = T.boxed
  BY InnerTypes
<1>2. j \in JavaObjects /\ j[1] = "array" /\ j[2] = s
  BY DEF JavaObjects
<1>3. ASSUME NEW i \in DOMAIN s PROVE s[i] \in JavaScalars \union {Null} /\ Fits(I, s[i])
  <2>1. s[i] \in JavaScalars \union {Null}
    BY <1>3, ElementOfSeq
  <2>2. Sound(T, j)
    BY <1>2, JavaObjectsAreSound
  <2>3. QED
    BY <1>2, <1>3, <2>1, <2>2 DEF Sound
<1>4. /\ T.of # "short" /\ (T.of = "char" => ~T.boxed) /\ (T.of = "byte" => ~T.boxed)
      /\ Returnable(T, j)
      /\ \A i \in DOMAIN s : IF T.of \in Primitive \union {"String"} THEN s[i] # Null
                             ELSE s[i] = Null \/ s[i][1] \in Classes
  BY <1>2 DEF Stable
<1>5. v = ArrayToJs(I, s)
  BY <1>2 DEF Returned
<1>6. CASE T.of = "byte"
  <2> DEFINE f == [i \in DOMAIN s |-> IF s[i] = Null THEN 0 ELSE s[i][2] % Size["byte"]]
             e == [i \in DOMAIN f |-> <<"byte", Wrap(f[i], Size["byte"])>>]
  <2>1. v = <<"buffer", f>>
    BY <1>1, <1>5, <1>6 DEF ArrayToJs
  <2>2. ASSUME NEW i \in DOMAIN s PROVE f[i] \in 0 .. Size["byte"] - 1 /\ <<"byte", Wrap(f[i], Size["byte"])>> = s[i]
    <3>1. s[i] \in JavaScalars /\ s[i] # Null
      BY <1>3, <1>4, <1>6, <2>2 DEF Primitive, Integral
    <3>2. s[i][1] \in Kinds /\ "byte" \in Supers[s[i][1]] /\ (s[i][1] = "byte" => InRange(s[i][2], "byte"))
      BY <1>1, <1>3, <1>6, <2>2, <3>1 DEF Fits, IsA
    <3>3. s[i][1] = "byte"
      BY <3>2, FinalKinds DEF Primitive, Integral
    <3>4. f[i] = s[i][2] % Size["byte"] /\ s[i] = <<"byte", s[i][2]>>
      BY <2>2, <3>1, <3>3, JavaScalarsHaveKinds
    <3>5. QED
      BY <3>2, <3>3, <3>4, BytesReturn
  <2>3. f \in [DOMAIN s -> 0 .. Size["byte"] - 1]
    BY <2>2
  <2>4. f \in Seq(0 .. Size["byte"] - 1)
    BY <2>3, MapIsList
  <2>5. e = s
    <3>1. DOMAIN f = DOMAIN s
      OBVIOUS
    <3> HIDE DEF f
    <3>2. \A i \in DOMAIN s : e[i] = s[i]
      BY <2>2, <3>1
    <3>3. DOMAIN e = DOMAIN s
      BY <3>1
    <3>4. QED
      BY <3>2, <3>3
  <2> HIDE DEF f
  <2>6. ToArray(T, v) = <<"array", e>>
    BY <1>4, <1>6, <2>1, <2>4, BufferConverts
  <2> HIDE DEF e, v, j
  <2>7. v \notin Nothing /\ ~IsPrimitive(T)
    BY <2>1 DEF Nothing, Null, Undefined, IsPrimitive
  <2>8. ToJava(T, v) = ToArray(T, v)
    BY <2>1, <2>7 DEF ToJava, Nothing
  <2>9. Takes(T, v)
    BY <1>4, <1>6, <2>1 DEF Takes, Matches
  <2>10. QED
    BY <2>5, <2>6, <2>8, <2>9 DEF v, j
<1>7. CASE IsPrimitive(I) /\ T.of = "long"
  <2> DEFINE f == [i \in DOMAIN s |-> <<"number", Rounded(2 * s[i][2], DoubleSize)>>]
  <2>1. v = <<"array", f>>
    BY <1>1, <1>5, <1>7 DEF ArrayToJs
  <2>2. ASSUME NEW i \in DOMAIN s PROVE MatchesScalar(I, f[i]) /\ Stored(I, Element(I, f[i])) = s[i]
    <3>1. s[i] \in JavaScalars /\ s[i] # Null
      BY <1>3, <1>4, <1>7, <2>2 DEF Primitive, Integral
    <3>2. s[i][1] \in Kinds /\ "long" \in Supers[s[i][1]]
      BY <1>1, <1>3, <1>7, <2>2, <3>1 DEF Fits, IsA
    <3>3. s[i][1] = "long"
      BY <3>2, FinalKinds DEF Primitive, Integral
    <3>4. InRange(s[i][2], "long") /\ s[i] = <<"long", s[i][2]>>
      BY <3>1, <3>3, JavaKinds, JavaScalarsHaveKinds, ClassesAssumption DEF Integral, Primitive
    <3>5. /\ s[i][2] \in Int /\ 2 * s[i][2] \in Int
          /\ Whole(2 * s[i][2]) /\ (2 * s[i][2]) \div 2 = s[i][2]
      BY <3>4, TwiceIsWhole DEF Integral
    <3>6. Rounded(2 * s[i][2], DoubleSize) = 2 * s[i][2]
      BY <1>1, <1>2, <1>4, <1>7, <2>2 DEF Returnable, PrimitiveLongs, IsPrimitive
    <3>7. f[i] = <<"number", 2 * s[i][2]>>
      BY <2>2, <3>6
    <3> HIDE DEF f
    <3>8. Basic("long", f[i]) = <<"long", Basic("long", f[i])[2]>> /\ Basic("long", f[i])[2] = s[i][2]
      BY <3>4, <3>5, <3>7, NumberConverts DEF Primitive, Integral
    <3>9. Element(I, f[i]) = Basic("long", f[i])
      BY <1>1, <1>7, <3>7 DEF Element
    <3>10. MatchesScalar(I, f[i])
      BY <1>1, <1>7, <3>7 DEF MatchesScalar
    <3>11. QED
      BY <1>7, <3>4, <3>8, <3>9, <3>10 DEF Stored
  <2>3. DOMAIN f = DOMAIN s /\ f = [i \in DOMAIN s |-> f[i]]
    OBVIOUS
  <2> HIDE DEF f
  <2>4. QED
    BY <2>1, <2>2, <2>3, ElementsComeBack
<1>8. CASE T.of # "byte" /\ ~(IsPrimitive(I) /\ T.of = "long")
  <2> DEFINE f == [i \in DOMAIN s |-> ToJs(I, s[i])]
  <2>1. v = <<"array", f>>
    BY <1>1, <1>5, <1>8 DEF ArrayToJs
  <2>2. ASSUME NEW i \in DOMAIN s PROVE MatchesScalar(I, f[i]) /\ Stored(I, Element(I, f[i])) = s[i]
    <3>1. /\ s[i] \in JavaScalars \union {Null} /\ Fits(I, s[i])
          /\ IF I.of \in Primitive \union {"String"} THEN s[i] # Null ELSE s[i] = Null \/ s[i][1] \in Classes
      BY <1>1, <1>3, <1>4, <2>2
    <3>2. f[i] = ToJs(I, s[i])
      BY <2>2
    <3>3. I.of \notin {"short", "byte"} /\ (I.of = "char" => ~I.boxed) /\ ~(IsPrimitive(I) /\ I.of = "long")
      BY <1>1, <1>4, <1>8
    <3> HIDE DEF f, I
    <3>4. QED
      BY <1>1, <3>1, <3>2, <3>3, ElementComesBack
  <2>3. DOMAIN f = DOMAIN s /\ f = [i \in DOMAIN s |-> f[i]]
    OBVIOUS
  <2> HIDE DEF f
  <2>4. QED
    BY <2>1, <2>2, <2>3, ElementsComeBack
<1>9. QED
  BY <1>6, <1>7, <1>8

\* A value of a stable type is taken by a parameter of the type it was returned
\* as, and comes back as it was.
THEOREM StableComesBack ==
    ASSUME NEW T \in Types, NEW j \in JavaObjects, IsOf(T, j), Described(T, j), Stable(T, j)
    PROVE  LET v == Returned(T, j) IN Takes(T, v) /\ ToJava(T, v) = j
<1>1. CASE j = Null
  <2>1. ~IsPrimitive(T)
    BY <1>1 DEF IsOf, Null
  <2>2. QED
    BY <1>1, <2>1, NullComesBack
<1>2. CASE j \in JavaScalars
  BY <1>2, SingleComesBack
<1>3. ASSUME NEW s \in Seq(JavaScalars \union {Null}), j = <<"array", s>>
      PROVE  LET v == Returned(T, j) IN Takes(T, v) /\ ToJava(T, v) = j
  <2>1. T.array
    BY <1>3 DEF Described
  <2>2. QED
    BY <1>3, <2>1, ArrayComesBack
<1>4. j \in {"array"} \X Seq(JavaScalars \union {Null}) => \E s \in Seq(JavaScalars \union {Null}) : j = <<"array", s>>
  BY Pairs
<1>5. QED
  BY <1>1, <1>2, <1>3, <1>4 DEF JavaObjects
==============================================================================
