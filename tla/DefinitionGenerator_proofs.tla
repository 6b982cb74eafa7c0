---------------------- MODULE DefinitionGenerator_proofs ---------------------
(***************************************************************************)
(* Proofs about DefinitionGenerator, for any classes that mention each     *)
(* other in any way and any number of calls.                               *)
(***************************************************************************)
EXTENDS DefinitionGenerator, SequenceTheorems, WellFoundedInduction, TLAPS

-----------------------------------------------------------------------------
(***************************************************************************)
(* Sequences                                                               *)
(***************************************************************************)
\* A set of natural numbers that is not empty has a least one.
LEMMA FirstExists ==
    ASSUME NEW S, S \subseteq Nat, S # {}
    PROVE  \E i \in S : \A k \in S : i <= k
<1>1. PICK i \in S : \A k \in S : ~(<<k, i>> \in OpToRel(<, Nat))
  BY NatLessThanWellFounded, WFMin
<1>2. \A k \in S : ~(k < i)
  BY <1>1 DEF OpToRel
<1>3. QED
  BY <1>2

LEMMA ToSetAppend ==
    ASSUME NEW S, NEW s \in Seq(S), NEW e \in S
    PROVE  ToSet(Append(s, e)) = ToSet(s) \union {e}
<1>1. /\ Len(s) \in Nat /\ DOMAIN s = 1 .. Len(s)
      /\ DOMAIN Append(s, e) = 1 .. Len(s) + 1
  BY AppendProperties, LenProperties
<1>2. \A i \in 1 .. Len(s) + 1 : Append(s, e)[i] = IF i = Len(s) + 1 THEN e ELSE s[i]
  BY <1>1, AppendProperties
<1>3. QED
  BY <1>1, <1>2 DEF ToSet

\* The names that are not marked, all of them: the recursive function exists and
\* has the right value up to any k, or there is a least k for which it has not.
LEMMA UnmarkedKept ==
    ASSUME NEW S, NEW block \in Seq(S), NEW marked
    PROVE  /\ Unmarked(block, marked) \in Seq(S)
           /\ ToSet(Unmarked(block, marked)) = ToSet(block) \ marked
<1> DEFINE N == Len(block)
           Value(f, k) == IF k = 0 THEN <<>>
                         ELSE IF block[k] \in marked THEN f[k - 1] ELSE Append(f[k - 1], block[k])
           Upto(n) == \E f : f = [k \in 0 .. n |-> Value(f, k)]
           kept == CHOOSE f : f = [k \in 0 .. N |-> Value(f, k)]
           Bad == {n \in 0 .. N : ~Upto(n)}
           Right(k) == kept[k] \in Seq(S) /\ ToSet(kept[k]) = {block[i] : i \in 1 .. k} \ marked
           Wrong == {k \in 0 .. N : ~Right(k)}
<1>0. N \in Nat
  OBVIOUS
<1>1. Bad = {}
  <2> SUFFICES ASSUME Bad # {} PROVE FALSE
    OBVIOUS
  <2>1. PICK n \in Bad : \A k \in Bad : n <= k
    <3>1. Bad \subseteq Nat
      OBVIOUS
    <3> HIDE DEF Bad
    <3>2. QED
      BY <3>1, FirstExists
  <2>2. n # 0
    <3>1. Upto(0)
      <4> DEFINE f == [k \in 0 .. 0 |-> <<>>]
      <4>1. f = [k \in 0 .. 0 |-> Value(f, k)]
        OBVIOUS
      <4>2. QED
        BY <4>1
    <3>2. QED
      BY <3>1
  <2>3. n - 1 \in 0 .. N /\ n \in 0 .. N
    BY <2>2, <1>0
  <2>4. Upto(n - 1)
    <3>1. n - 1 \notin Bad
      <4> HIDE DEF Bad
      <4>1. QED
        BY <2>1, <2>3
    <3> HIDE DEF Upto
    <3>2. QED
      BY <3>1, <2>3
  <2>5. PICK g : g = [k \in 0 .. n - 1 |-> Value(g, k)]
    BY <2>4
  <2>6. Upto(n)
    <3> DEFINE h == [k \in 0 .. n |-> IF k = n THEN Value(g, n) ELSE g[k]]
    <3>1. h = [k \in 0 .. n |-> Value(h, k)]
      <4>1. ASSUME NEW k \in 0 .. n PROVE h[k] = Value(h, k)
        <5>1. CASE k = 0
          BY <5>1, <2>2, <2>3, <2>5
        <5>2. CASE k # 0
          <6>1. k - 1 \in 0 .. n - 1 /\ k - 1 # n /\ k - 1 \in 0 .. n
            BY <5>2, <2>3
          <6>2. h[k - 1] = g[k - 1]
            BY <6>1
          <6>3. Value(h, k) = Value(g, k)
            BY <6>2
          <6>4. h[k] = Value(g, k)
            <7>1. CASE k = n
              BY <7>1
            <7>2. CASE k # n
              <8>1. k \in 0 .. n - 1
                BY <7>2, <2>3
              <8>2. g[k] = Value(g, k)
                <9> HIDE DEF Value
                <9>1. QED
                  BY <8>1, <2>5
              <8> HIDE DEF Value
              <8>3. QED
                BY <7>2, <8>2
            <7>3. QED
              BY <7>1, <7>2
          <6>5. QED
            BY <6>3, <6>4
        <5>3. QED
          BY <5>1, <5>2
      <4>2. DOMAIN h = 0 .. n /\ h = [k \in DOMAIN h |-> h[k]]
        OBVIOUS
      <4> HIDE DEF h, Value
      <4>3. QED
        BY <4>1, <4>2
    <3> HIDE DEF h, Value
    <3>2. QED
      BY <3>1
  <2>7. QED
    BY <2>6
<1>2. kept = [k \in 0 .. N |-> Value(kept, k)]
  <2>1. Upto(N)
    <3>1. N \notin Bad
      <4> HIDE DEF Bad
      <4>1. QED
        BY <1>1
    <3> HIDE DEF Upto
    <3>2. QED
      BY <3>1, <1>0
  <2> HIDE DEF Value
  <2>2. QED
    BY <2>1
<1>3. Unmarked(block, marked) = kept[N]
  BY DEF Unmarked
<1> HIDE DEF kept
<1>4. Wrong = {}
  <2> SUFFICES ASSUME Wrong # {} PROVE FALSE
    OBVIOUS
  <2>1. PICK n \in Wrong : \A k \in Wrong : n <= k
    <3>1. Wrong \subseteq Nat
      OBVIOUS
    <3> HIDE DEF Wrong
    <3>2. QED
      BY <3>1, FirstExists
  <2>2. n # 0
    <3>1. kept[0] = <<>>
      BY <1>0, <1>2
    <3>2. Right(0)
      BY <3>1, EmptySeq DEF ToSet
    <3>3. QED
      BY <3>2
  <2>3. n - 1 \in 0 .. N /\ n \in 1 .. N
    BY <2>2, <1>0
  <2>4. Right(n - 1)
    <3>1. n - 1 \notin Wrong
      <4> HIDE DEF Wrong
      <4>1. QED
        BY <2>1, <2>3
    <3> HIDE DEF Right
    <3>2. QED
      BY <3>1, <2>3
  <2>5. kept[n] = IF block[n] \in marked THEN kept[n - 1] ELSE Append(kept[n - 1], block[n])
    <3>1. kept[n] = Value(kept, n)
      <4>1. n \in 0 .. N
        BY <2>3
      <4> HIDE DEF Value
      <4>2. QED
        BY <1>2, <4>1
    <3>2. QED
      BY <3>1, <2>2
  <2>6. {block[i] : i \in 1 .. n} = {block[i] : i \in 1 .. n - 1} \union {block[n]}
    BY <2>3
  <2>7. block[n] \in S
    BY <2>3
  <2>8. Right(n)
    <3>1. CASE block[n] \in marked
      <4>1. kept[n] = kept[n - 1]
        BY <3>1, <2>5
      <4> HIDE DEF Value
      <4>2. QED
        BY <3>1, <4>1, <2>4, <2>6
    <3>2. CASE block[n] \notin marked
      <4>1. ToSet(Append(kept[n - 1], block[n])) = ToSet(kept[n - 1]) \union {block[n]}
        BY <2>4, <2>7, ToSetAppend
      <4>2. Append(kept[n - 1], block[n]) \in Seq(S)
        BY <2>4, <2>7, AppendProperties
      <4>3. kept[n] = Append(kept[n - 1], block[n])
        BY <3>2, <2>5
      <4> HIDE DEF Value
      <4>4. QED
        BY <3>2, <4>1, <4>2, <4>3, <2>4, <2>6
    <3>3. QED
      BY <3>1, <3>2
  <2>9. QED
    BY <2>8
<1>5. Right(N)
  <2> HIDE DEF Right
  <2>1. QED
    BY <1>0, <1>4
<1>6. ToSet(block) = {block[i] : i \in 1 .. N}
  BY LenProperties DEF ToSet
<1>7. QED
  BY <1>3, <1>5, <1>6
LEMMA ToSetConcat ==
    ASSUME NEW S, NEW s \in Seq(S), NEW t \in Seq(S)
    PROVE  ToSet(s \o t) = ToSet(s) \union ToSet(t)
<1>1. /\ Len(s) \in Nat /\ DOMAIN s = 1 .. Len(s) /\ Len(t) \in Nat /\ DOMAIN t = 1 .. Len(t)
      /\ DOMAIN (s \o t) = 1 .. Len(s) + Len(t)
  BY ConcatProperties, LenProperties
<1>2. ASSUME NEW i \in 1 .. Len(s) + Len(t) PROVE (s \o t)[i] \in ToSet(s) \union ToSet(t)
  <2>1. CASE i <= Len(s)
    <3>1. i \in DOMAIN s /\ (s \o t)[i] = s[i]
      BY <1>1, <2>1, ConcatProperties
    <3>2. QED
      BY <3>1 DEF ToSet
  <2>2. CASE ~(i <= Len(s))
    <3>1. i - Len(s) \in DOMAIN t /\ (s \o t)[i] = t[i - Len(s)]
      BY <1>1, <2>2, ConcatProperties
    <3>2. QED
      BY <3>1 DEF ToSet
  <2>3. QED
    BY <2>1, <2>2
<1>3. ASSUME NEW i \in 1 .. Len(s) PROVE s[i] \in ToSet(s \o t)
  <2>1. i \in DOMAIN (s \o t) /\ (s \o t)[i] = s[i]
    BY <1>1, ConcatProperties
  <2>2. QED
    BY <2>1 DEF ToSet
<1>4. ASSUME NEW i \in 1 .. Len(t) PROVE t[i] \in ToSet(s \o t)
  <2>1. Len(s) + i \in DOMAIN (s \o t) /\ (s \o t)[Len(s) + i] = t[i]
    BY <1>1, ConcatProperties
  <2>2. QED
    BY <2>1 DEF ToSet
<1>5. ToSet(s \o t) \subseteq ToSet(s) \union ToSet(t)
  BY <1>1, <1>2 DEF ToSet
<1>6. ToSet(s) \subseteq ToSet(s \o t) /\ ToSet(t) \subseteq ToSet(s \o t)
  BY <1>1, <1>3, <1>4 DEF ToSet
<1>7. QED
  BY <1>5, <1>6

LEMMA ToSetTail ==
    ASSUME NEW S, NEW s \in Seq(S), s # <<>>
    PROVE  ToSet(s) = {Head(s)} \union ToSet(Tail(s))
<1>1. /\ Len(s) \in Nat \ {0} /\ DOMAIN s = 1 .. Len(s) /\ DOMAIN Tail(s) = 1 .. Len(s) - 1
      /\ Head(s) = s[1] /\ \A i \in 1 .. Len(s) - 1 : Tail(s)[i] = s[i + 1]
  BY HeadTailProperties, LenProperties, EmptySeq
<1>2. ASSUME NEW i \in 1 .. Len(s) PROVE s[i] \in {Head(s)} \union ToSet(Tail(s))
  <2>1. CASE i = 1
    BY <1>1, <2>1
  <2>2. CASE i # 1
    <3>1. i - 1 \in DOMAIN Tail(s) /\ Tail(s)[i - 1] = s[i]
      BY <1>1, <2>2
    <3>2. QED
      BY <3>1 DEF ToSet
  <2>3. QED
    BY <2>1, <2>2
<1>3. ASSUME NEW i \in 1 .. Len(s) - 1 PROVE Tail(s)[i] \in ToSet(s)
  <2>1. i + 1 \in DOMAIN s /\ Tail(s)[i] = s[i + 1]
    BY <1>1
  <2>2. QED
    BY <2>1 DEF ToSet
<1>4. Head(s) \in ToSet(s)
  BY <1>1 DEF ToSet
<1>5. QED
  BY <1>1, <1>2, <1>3, <1>4 DEF ToSet

LEMMA ToSetType ==
    ASSUME NEW S, NEW s \in Seq(S)
    PROVE  ToSet(s) \subseteq S /\ (s = <<>> => ToSet(s) = {})
  BY LenProperties, EmptySeq DEF ToSet

LEMMA InjectiveConcat ==
    ASSUME NEW S, NEW s \in Seq(S), NEW t \in Seq(S),
           IsInjective(s), IsInjective(t), ToSet(s) \intersect ToSet(t) = {}
    PROVE  IsInjective(s \o t)
<1>1. /\ Len(s) \in Nat /\ DOMAIN s = 1 .. Len(s) /\ Len(t) \in Nat /\ DOMAIN t = 1 .. Len(t)
      /\ DOMAIN (s \o t) = 1 .. Len(s) + Len(t)
  BY ConcatProperties, LenProperties
<1>2. SUFFICES ASSUME NEW i \in DOMAIN (s \o t), NEW j \in DOMAIN (s \o t), (s \o t)[i] = (s \o t)[j]
               PROVE  i = j
  BY DEF IsInjective
<1>3. ASSUME NEW k \in DOMAIN (s \o t), k <= Len(s)
      PROVE  k \in DOMAIN s /\ (s \o t)[k] = s[k] /\ s[k] \in ToSet(s)
  BY <1>1, <1>3, ConcatProperties DEF ToSet
<1>4. ASSUME NEW k \in DOMAIN (s \o t), ~(k <= Len(s))
      PROVE  k - Len(s) \in DOMAIN t /\ (s \o t)[k] = t[k - Len(s)] /\ t[k - Len(s)] \in ToSet(t)
  <2>1. k - Len(s) \in DOMAIN t
    BY <1>1, <1>4
  <2>2. QED
    BY <1>1, <1>4, <2>1, ConcatProperties DEF ToSet
<1>5. CASE i <= Len(s) /\ j <= Len(s)
  BY <1>2, <1>3, <1>5 DEF IsInjective
<1>6. CASE ~(i <= Len(s)) /\ ~(j <= Len(s))
  <2>1. i - Len(s) = j - Len(s)
    BY <1>2, <1>4, <1>6 DEF IsInjective
  <2>2. QED
    BY <1>1, <2>1
<1>7. QED
  BY <1>2, <1>3, <1>4, <1>5, <1>6

\* A stack whose innermost entry is replaced.
LEMMA ReplaceTop ==
    ASSUME NEW S, NEW s \in Seq(S), s # <<>>, NEW f \in S
    PROVE  /\ Append(Front(s), f) \in Seq(S)
           /\ Len(s) \in Nat \ {0}
           /\ Len(Append(Front(s), f)) = Len(s)
           /\ Append(Front(s), f)[Len(s)] = f
           /\ \A k \in 1 .. Len(s) - 1 : Append(Front(s), f)[k] = s[k]
           /\ Last(s) = s[Len(s)] /\ Last(s) \in S
           /\ Front(s) \in Seq(S) /\ Len(Front(s)) = Len(s) - 1
           /\ \A k \in 1 .. Len(s) - 1 : Front(s)[k] = s[k]
<1>1. Len(s) \in Nat \ {0} /\ DOMAIN s = 1 .. Len(s) /\ \A i \in 1 .. Len(s) : s[i] \in S
  BY LenProperties, EmptySeq, ElementOfSeq
<1>2. /\ Front(s) \in Seq(S) /\ Len(Front(s)) = Len(s) - 1
      /\ \A k \in 1 .. Len(s) - 1 : Front(s)[k] = s[k]
  <2>1. /\ SubSeq(s, 1, Len(s) - 1) \in Seq(S)
        /\ Len(SubSeq(s, 1, Len(s) - 1)) = IF 1 <= Len(s) - 1 THEN (Len(s) - 1) - 1 + 1 ELSE 0
        /\ \A i \in 1 .. (Len(s) - 1) - 1 + 1 : SubSeq(s, 1, Len(s) - 1)[i] = s[1 + i - 1]
    BY <1>1, SubSeqProperties
  <2>2. QED
    BY <1>1, <2>1 DEF Front
<1>3. /\ Append(Front(s), f) \in Seq(S)
      /\ Len(Append(Front(s), f)) = Len(Front(s)) + 1
      /\ \A i \in 1 .. Len(Front(s)) : Append(Front(s), f)[i] = Front(s)[i]
      /\ Append(Front(s), f)[Len(Front(s)) + 1] = f
  BY <1>2, AppendProperties
<1>4. QED
  BY <1>1, <1>2, <1>3 DEF Last

\* A stack whose innermost entry is removed and the one below replaced.
LEMMA ReplaceBelow ==
    ASSUME NEW S, NEW s \in Seq(S), s # <<>>, Len(s) # 1, NEW f \in S
    PROVE  /\ Append(Front(Front(s)), f) \in Seq(S)
           /\ Len(s) \in Nat /\ Len(s) > 1
           /\ Len(Append(Front(Front(s)), f)) = Len(s) - 1
           /\ Append(Front(Front(s)), f)[Len(s) - 1] = f
           /\ \A k \in 1 .. Len(s) - 2 : Append(Front(Front(s)), f)[k] = s[k]
           /\ Last(Front(s)) = s[Len(s) - 1] /\ Last(Front(s)) \in S
<1>1. /\ Front(s) \in Seq(S) /\ Len(s) \in Nat \ {0} /\ Len(Front(s)) = Len(s) - 1
      /\ \A k \in 1 .. Len(s) - 1 : Front(s)[k] = s[k]
  BY ReplaceTop
<1>2. Front(s) # <<>>
  BY <1>1, EmptySeq
<1>3. /\ Append(Front(Front(s)), f) \in Seq(S)
      /\ Len(Append(Front(Front(s)), f)) = Len(Front(s))
      /\ Append(Front(Front(s)), f)[Len(Front(s))] = f
      /\ \A k \in 1 .. Len(Front(s)) - 1 : Append(Front(Front(s)), f)[k] = Front(s)[k]
      /\ Last(Front(s)) = Front(s)[Len(Front(s))] /\ Last(Front(s)) \in S
  BY <1>1, <1>2, ReplaceTop
<1>4. QED
  BY <1>1, <1>3

-----------------------------------------------------------------------------
(***************************************************************************)
(* The inductive invariant                                                 *)
(***************************************************************************)
Frames == [class : Classes, blocks : Seq(Seq(Classes)), follow : Seq(Classes),
           ready : BOOLEAN, res : Seq(Classes)]

Shape ==
    /\ resolvedImports \subseteq Classes
    /\ status \in [Callers -> {"idle", "running", "done", "failed"}]
    /\ classnames \in [Callers -> Seq(Classes)]
    /\ stack \in [Callers -> Seq(Frames)]
    /\ declarations \in Seq(Classes)
    /\ \A g \in Callers : status[g] # "running" => stack[g] = <<>> /\ classnames[g] = <<>>
    /\ written \in Nat /\ written <= Len(declarations)
    /\ saving \in {"no", "yes", "failed", "done"}

\* What the blocks left to a generator mention, and what it is to declare.
Left(f)  == UNION {ToSet(f.blocks[k]) : k \in DOMAIN f.blocks}
Owned(f) == ToSet(f.res) \union {f.class}

\* Whatever the class of a generator mentions is marked, is to be followed or is
\* in a block that is left; what the classes it has mention is marked.
Sound(f, marked) ==
    /\ Owned(f) \subseteq marked
    /\ f.ready <=> f.blocks = <<>>
    /\ ToSet(f.follow) \union Left(f) \subseteq Named(f.class)
    /\ Named(f.class) \subseteq marked \union ToSet(f.follow) \union Left(f)
    /\ \A c \in ToSet(f.res) : Named(c) \subseteq marked

StacksSound ==
    \A g \in Callers : \A k \in DOMAIN stack[g] :
        /\ Sound(stack[g][k], resolvedImports)
        /\ k > 1 => stack[g][k].class \in Named(stack[g][k - 1].class)

DeclarationsSound ==
    /\ Declared \subseteq resolvedImports
    /\ \A c \in Declared : Named(c) \subseteq resolvedImports

\* No class has two owners.
Unique(f) == IsInjective(f.res) /\ f.class \notin ToSet(f.res)
Apart ==
    /\ IsInjective(declarations)
    /\ \A g \in Callers : \A k \in DOMAIN stack[g] :
        /\ Unique(stack[g][k])
        /\ Owned(stack[g][k]) \intersect Declared = {}
        /\ \A h \in Callers : \A l \in DOMAIN stack[h] :
               h # g \/ l # k => Owned(stack[g][k]) \intersect Owned(stack[h][l]) = {}

\* Every marked class has one, as long as no call has failed.
Accounted ==
    "failed" \notin lapses =>
        \A c \in resolvedImports :
            c \in Declared \/ \E g \in Callers : \E k \in DOMAIN stack[g] : c \in Owned(stack[g][k])

SaveSound ==
    /\ {declarations[k] : k \in 1 .. written} \subseteq files /\ files \subseteq Declared
    /\ saving = "yes" /\ "early" \notin lapses => Running = {}
    /\ SavedTogether

\* While calls neither overlap nor fail there is an order in which classes are done:
\* first what is declared, then what the generators have, the outermost first.  A
\* class comes after those it mentions, unless they reach it.
Quiet == lapses \intersect {"failed", "overlapping"} = {}
Before(g, j) == Declared \union (UNION {ToSet(stack[g][i].res) : i \in 1 .. j - 1})
Follows(s, before) ==
    \A k \in DOMAIN s : \A d \in Named(s[k]) :
        Reaches(d, s[k]) \/ d \in before \/ \E l \in 1 .. k - 1 : s[l] = d

Ordered ==
    Quiet =>
        /\ \A g, h \in Running : g = h
        /\ Follows(declarations, {})
        /\ \A g \in Callers : \A j \in DOMAIN stack[g] : Follows(stack[g][j].res, Before(g, j))

IInv == Shape /\ StacksSound /\ DeclarationsSound /\ Apart /\ Accounted /\ SaveSound /\ Ordered

-----------------------------------------------------------------------------
(***************************************************************************)
(* Generators                                                              *)
(***************************************************************************)
LEMMA NamedType == \A c \in Classes : Mentions[c] \in Seq(Seq(Classes)) \ {<<>>} /\ Named(c) \subseteq Classes
<1> SUFFICES ASSUME NEW c \in Classes PROVE Mentions[c] \in Seq(Seq(Classes)) \ {<<>>} /\ Named(c) \subseteq Classes
  OBVIOUS
<1>1. Mentions[c] \in Seq(Seq(Classes)) \ {<<>>}
  BY MentionsAssumption
<1>2. \A k \in DOMAIN Mentions[c] : ToSet(Mentions[c][k]) \subseteq Classes
  BY <1>1, ToSetType, LenProperties, ElementOfSeq
<1>3. QED
  BY <1>1, <1>2 DEF Named

\* A new one.
LEMMA GeneratorSound ==
    ASSUME NEW c \in Classes, NEW marked, c \in marked
    PROVE  /\ Generator(c) \in Frames
           /\ Generator(c).class = c
           /\ Owned(Generator(c)) = {c}
           /\ Unique(Generator(c))
           /\ Sound(Generator(c), marked)
<1>1. Mentions[c] \in Seq(Seq(Classes)) /\ Mentions[c] # <<>>
  BY NamedType
<1>2. ToSet(<<>>) = {} /\ <<>> \in Seq(Classes) /\ IsInjective(<<>>)
  <2>1. <<>> \in Seq(Classes) /\ Len(<<>>) = 0
    BY EmptySeq
  <2>2. DOMAIN <<>> = 1 .. 0
    BY <2>1, LenProperties
  <2>3. DOMAIN <<>> = {}
    BY <2>2
  <2>4. ToSet(<<>>) = {}
    BY <2>3 DEF ToSet
  <2>5. IsInjective(<<>>)
    BY <2>3 DEF IsInjective
  <2>6. QED
    BY <2>1, <2>4, <2>5
<1>3. Left(Generator(c)) = Named(c)
  BY DEF Left, Generator, Named
<1>4. QED
  BY <1>1, <1>2, <1>3 DEF Frames, Generator, Owned, Unique, Sound

LEMMA SoundGrows ==
    ASSUME NEW f, NEW marked, NEW more, Sound(f, marked), marked \subseteq more
    PROVE  Sound(f, more)
  BY DEF Sound

\* One that has taken the first of the names to follow, once that is marked.
LEMMA FollowSound ==
    ASSUME NEW f \in Frames, NEW marked, NEW more, Sound(f, marked), marked \subseteq more,
           f.follow # <<>>, Head(f.follow) \in more
    PROVE  /\ [f EXCEPT !.follow = Tail(@)] \in Frames
           /\ Sound([f EXCEPT !.follow = Tail(@)], more)
           /\ Head(f.follow) \in Named(f.class)
<1> DEFINE e == [f EXCEPT !.follow = Tail(@)]
<1>1. f.follow \in Seq(Classes) /\ Tail(f.follow) \in Seq(Classes)
  BY HeadTailProperties DEF Frames
<1>2. e \in Frames /\ e.follow = Tail(f.follow) /\ e.class = f.class /\ e.blocks = f.blocks
      /\ e.res = f.res /\ e.ready = f.ready
  BY <1>1 DEF Frames
<1>3. ToSet(f.follow) = {Head(f.follow)} \union ToSet(e.follow)
  BY <1>1, <1>2, ToSetTail
<1>4. Left(e) = Left(f) /\ Owned(e) = Owned(f)
  BY <1>2 DEF Left, Owned
<1> HIDE DEF e
<1>5. Sound(e, more) /\ Head(f.follow) \in Named(f.class)
  BY <1>2, <1>3, <1>4 DEF Sound
<1>6. QED
  BY <1>2, <1>5 DEF e

\* One that has converted a block.
Converted(f, marked) ==
    [f EXCEPT !.blocks = Tail(@), !.follow = @ \o Unmarked(Head(f.blocks), marked), !.ready = Len(f.blocks) = 1]

LEMMA ConvertedSound ==
    ASSUME NEW f \in Frames, NEW marked, Sound(f, marked), ~f.ready
    PROVE  /\ Converted(f, marked) \in Frames
           /\ Sound(Converted(f, marked), marked)
<1> DEFINE e == Converted(f, marked)
           b == Head(f.blocks)
<1>1. f.blocks \in Seq(Seq(Classes)) /\ f.blocks # <<>> /\ f.follow \in Seq(Classes)
  BY DEF Sound, Frames
<1>2. /\ b \in Seq(Classes) /\ Tail(f.blocks) \in Seq(Seq(Classes))
      /\ Len(Tail(f.blocks)) = Len(f.blocks) - 1 /\ Len(f.blocks) \in Nat
  BY <1>1, HeadTailProperties, LenProperties
<1>3. Unmarked(b, marked) \in Seq(Classes) /\ ToSet(Unmarked(b, marked)) = ToSet(b) \ marked
  BY <1>2, UnmarkedKept
<1>4. /\ f.follow \o Unmarked(b, marked) \in Seq(Classes)
      /\ ToSet(f.follow \o Unmarked(b, marked)) = ToSet(f.follow) \union (ToSet(b) \ marked)
  BY <1>1, <1>3, ConcatProperties, ToSetConcat
<1>5. /\ e \in Frames /\ e.follow = f.follow \o Unmarked(b, marked) /\ e.blocks = Tail(f.blocks)
      /\ e.class = f.class /\ e.res = f.res /\ e.ready = (Len(f.blocks) = 1)
  <2>1. e = [f EXCEPT !.blocks = Tail(f.blocks), !.follow = f.follow \o Unmarked(b, marked),
                      !.ready = (Len(f.blocks) = 1)]
    BY DEF Converted
  <2>2. f \in [class : Classes, blocks : Seq(Seq(Classes)), follow : Seq(Classes), ready : BOOLEAN, res : Seq(Classes)]
    BY DEF Frames
  <2>3. (Len(f.blocks) = 1) \in BOOLEAN
    OBVIOUS
  <2> HIDE DEF e, b
  <2>4. QED
    BY <1>2, <1>4, <2>1, <2>2, <2>3 DEF Frames
<1>6. e.ready <=> e.blocks = <<>>
  <2>1. \A t \in Seq(Seq(Classes)) : t = <<>> <=> Len(t) = 0
    BY EmptySeq
  <2> HIDE DEF e, b
  <2>2. e.blocks = <<>> <=> Len(f.blocks) = 1
    <3>1. Tail(f.blocks) = <<>> <=> Len(Tail(f.blocks)) = 0
      BY <1>2, <2>1
    <3>2. Len(Tail(f.blocks)) = 0 <=> Len(f.blocks) = 1
      BY <1>2
    <3>3. QED
      BY <1>5, <3>1, <3>2
  <2>3. e.ready <=> Len(f.blocks) = 1
    BY <1>5
  <2>4. QED
    BY <2>2, <2>3
<1>7. Left(f) = ToSet(b) \union Left(e)
  <2>1. ToSet(f.blocks) = {b} \union ToSet(e.blocks)
    BY <1>1, <1>5, ToSetTail
  <2>2. Left(f) = UNION {ToSet(x) : x \in ToSet(f.blocks)} /\ Left(e) = UNION {ToSet(x) : x \in ToSet(e.blocks)}
    BY DEF Left, ToSet
  <2> HIDE DEF e, b
  <2>3. QED
    BY <2>1, <2>2
<1>8. Owned(e) = Owned(f)
  BY <1>5 DEF Owned
<1> HIDE DEF e, b
<1>9. Sound(e, marked)
  BY <1>4, <1>5, <1>6, <1>7, <1>8 DEF Sound
<1>10. QED
  BY <1>5, <1>9 DEF e

\* What a generator is to declare, in the order in which it does.
LEMMA OwnedInOrder ==
    ASSUME NEW f \in Frames, Unique(f)
    PROVE  LET mine == Append(f.res, f.class) IN
           mine \in Seq(Classes) /\ ToSet(mine) = Owned(f) /\ IsInjective(mine)
<1> DEFINE mine == Append(f.res, f.class)
<1>1. f.res \in Seq(Classes) /\ f.class \in Classes
  BY DEF Frames
<1>2. mine \in Seq(Classes) /\ ToSet(mine) = Owned(f)
  BY <1>1, AppendProperties, ToSetAppend DEF Owned
<1>3. mine = f.res \o <<f.class>> /\ <<f.class>> \in Seq(Classes)
  BY <1>1, AppendIsConcat
<1>4. IsInjective(<<f.class>>) /\ ToSet(<<f.class>>) = {f.class}
  BY DEF IsInjective, ToSet
<1>5. IsInjective(mine)
  BY <1>1, <1>3, <1>4, InjectiveConcat DEF Unique
<1>6. QED
  BY <1>2, <1>5

\* It returns that when it is done.
LEMMA ResultSound ==
    ASSUME NEW f \in Frames, NEW marked, Sound(f, marked), Unique(f), f.ready, f.follow = <<>>
    PROVE  LET mine == Append(f.res, f.class) IN
           /\ mine \in Seq(Classes)
           /\ ToSet(mine) = Owned(f)
           /\ IsInjective(mine)
           /\ \A c \in ToSet(mine) : Named(c) \subseteq marked
<1> DEFINE mine == Append(f.res, f.class)
<1>1. mine \in Seq(Classes) /\ ToSet(mine) = Owned(f) /\ IsInjective(mine)
  BY OwnedInOrder
<1>2. Left(f) = {} /\ ToSet(f.follow) = {}
  BY ToSetType DEF Sound, Left, Frames
<1> HIDE DEF mine
<1>3. \A c \in ToSet(mine) : Named(c) \subseteq marked
  BY <1>1, <1>2 DEF Sound, Owned
<1>4. QED
  BY <1>1, <1>3 DEF mine

\* The one that waited for it, with what it was given.
LEMMA GivenSound ==
    ASSUME NEW f \in Frames, NEW marked, Sound(f, marked), Unique(f),
           NEW res \in Seq(Classes), IsInjective(res), ToSet(res) \subseteq marked,
           ToSet(res) \intersect Owned(f) = {}, \A c \in ToSet(res) : Named(c) \subseteq marked
    PROVE  LET e == [f EXCEPT !.res = @ \o res] IN
           /\ e \in Frames
           /\ e.class = f.class
           /\ Owned(e) = Owned(f) \union ToSet(res)
           /\ Unique(e)
           /\ Sound(e, marked)
<1> DEFINE e == [f EXCEPT !.res = @ \o res]
<1>1. f.res \in Seq(Classes)
  BY DEF Frames
<1>2. f.res \o res \in Seq(Classes) /\ ToSet(f.res \o res) = ToSet(f.res) \union ToSet(res)
  BY <1>1, ConcatProperties, ToSetConcat
<1>3. IsInjective(f.res \o res)
  BY <1>1, InjectiveConcat DEF Unique, Owned
<1>4. /\ e \in Frames /\ e.class = f.class /\ e.res = f.res \o res /\ e.follow = f.follow
      /\ e.blocks = f.blocks /\ e.ready = f.ready
  BY <1>2 DEF Frames
<1>5. Left(e) = Left(f)
  BY <1>4 DEF Left
<1> HIDE DEF e
<1>6. Owned(e) = Owned(f) \union ToSet(res) /\ Unique(e)
  BY <1>2, <1>3, <1>4 DEF Owned, Unique
<1>7. Sound(e, marked)
  BY <1>2, <1>4, <1>5, <1>6 DEF Sound
<1>8. QED
  BY <1>4, <1>6, <1>7 DEF e

-----------------------------------------------------------------------------
(***************************************************************************)
(* Initial state, and what a step may do to the stacks                     *)
(***************************************************************************)
LEMMA InitIInv == Init => IInv
<1> SUFFICES ASSUME Init PROVE IInv
  OBVIOUS
<1>1. \A S : <<>> \in Seq(S) /\ Len(<<>>) = 0 /\ DOMAIN <<>> = {}
  <2>1. \A S : <<>> \in Seq(S) /\ Len(<<>>) = 0
    BY EmptySeq
  <2>2. DOMAIN <<>> = 1 .. 0
    BY <2>1, LenProperties
  <2>3. QED
    BY <2>1, <2>2
<1>2. Shape
  BY <1>1 DEF Init, Shape
<1>3. \A g \in Callers : DOMAIN stack[g] = {}
  BY <1>1 DEF Init
<1>4. Declared = {}
  BY <1>1 DEF Init, Declared, ToSet
<1>5. StacksSound /\ DeclarationsSound /\ Accounted
  BY <1>3, <1>4 DEF Init, StacksSound, DeclarationsSound, Accounted
<1>6. Apart
  BY <1>1, <1>3 DEF Init, Apart, IsInjective
<1>7. SaveSound
  BY DEF Init, SaveSound, SavedTogether
<1>8. Ordered
  <2>1. Running = {}
    BY DEF Init, Running
  <2>2. DOMAIN declarations = {}
    BY <1>1 DEF Init
  <2>3. QED
    BY <1>3, <2>1, <2>2 DEF Ordered, Follows
<1>9. QED
  BY <1>2, <1>5, <1>6, <1>7, <1>8 DEF IInv

LEMMA StackTypes ==
    ASSUME Shape, NEW g \in Callers
    PROVE  /\ stack[g] \in Seq(Frames) /\ classnames[g] \in Seq(Classes)
           /\ Len(stack[g]) \in Nat /\ DOMAIN stack[g] = 1 .. Len(stack[g])
           /\ \A k \in DOMAIN stack[g] : stack[g][k] \in Frames
           /\ stack[g] = <<>> <=> Len(stack[g]) = 0
           /\ stack[g] # <<>> => Len(stack[g]) \in DOMAIN stack[g] /\ Top(g) = stack[g][Len(stack[g])]
<1>1. stack[g] \in Seq(Frames) /\ classnames[g] \in Seq(Classes)
  BY DEF Shape
<1>2. Len(stack[g]) \in Nat /\ DOMAIN stack[g] = 1 .. Len(stack[g])
  BY <1>1, LenProperties
<1>3. stack[g] = <<>> <=> Len(stack[g]) = 0
  BY <1>1, EmptySeq
<1>4. QED
  BY <1>1, <1>2, <1>3, ElementOfSeq DEF Top, Last

\* The innermost generator of g is e now.
Replaced(g, e) ==
    /\ stack' = [stack EXCEPT ![g] = Append(Front(stack[g]), e)]
    /\ stack[g] # <<>>

LEMMA ReplacedEffect ==
    ASSUME Shape, NEW g \in Callers, NEW e \in Frames, Replaced(g, e)
    PROVE  /\ stack' \in [Callers -> Seq(Frames)]
           /\ \A h \in Callers : DOMAIN stack'[h] = DOMAIN stack[h]
           /\ \A h \in Callers : \A k \in DOMAIN stack[h] :
                 stack'[h][k] = IF h = g /\ k = Len(stack[g]) THEN e ELSE stack[h][k]
<1>1. stack[g] \in Seq(Frames) /\ stack[g] # <<>> /\ stack \in [Callers -> Seq(Frames)]
  BY DEF Shape, Replaced
<1>2. /\ Append(Front(stack[g]), e) \in Seq(Frames)
      /\ Len(stack[g]) \in Nat \ {0}
      /\ Len(Append(Front(stack[g]), e)) = Len(stack[g])
      /\ Append(Front(stack[g]), e)[Len(stack[g])] = e
      /\ \A k \in 1 .. Len(stack[g]) - 1 : Append(Front(stack[g]), e)[k] = stack[g][k]
  <2> DEFINE s == stack[g]
  <2>1. s \in Seq(Frames) /\ s # <<>>
    BY <1>1
  <2> HIDE DEF s
  <2>2. /\ Append(Front(s), e) \in Seq(Frames)
        /\ Len(s) \in Nat \ {0}
        /\ Len(Append(Front(s), e)) = Len(s)
        /\ Append(Front(s), e)[Len(s)] = e
        /\ \A k \in 1 .. Len(s) - 1 : Append(Front(s), e)[k] = s[k]
    BY <2>1, ReplaceTop
  <2>3. QED
    BY <2>2 DEF s
<1>3. stack'[g] = Append(Front(stack[g]), e) /\ \A h \in Callers \ {g} : stack'[h] = stack[h]
  BY <1>1 DEF Replaced
<1>4. DOMAIN stack[g] = 1 .. Len(stack[g]) /\ DOMAIN stack'[g] = 1 .. Len(stack[g])
  BY <1>1, <1>2, <1>3, LenProperties
<1>5. stack' \in [Callers -> Seq(Frames)]
  BY <1>1, <1>2 DEF Replaced
<1>6. \A k \in DOMAIN stack[g] : stack'[g][k] = IF k = Len(stack[g]) THEN e ELSE stack[g][k]
  BY <1>2, <1>3, <1>4
<1>7. QED
  BY <1>3, <1>4, <1>5, <1>6

\* A step that leaves every generator at its class with what it has.
SameOwners ==
    /\ UNCHANGED declarations
    /\ \A h \in Callers : DOMAIN stack'[h] = DOMAIN stack[h]
    /\ \A h \in Callers : \A k \in DOMAIN stack[h] :
          stack'[h][k].class = stack[h][k].class /\ stack'[h][k].res = stack[h][k].res

LEMMA SameOwnersKeep ==
    ASSUME SameOwners
    PROVE  /\ Apart => Apart'
           /\ Accounted /\ resolvedImports' = resolvedImports /\ lapses \subseteq lapses' => Accounted'
           /\ DeclarationsSound /\ resolvedImports \subseteq resolvedImports' => DeclarationsSound'
<1>1. Declared' = Declared /\ declarations' = declarations
  BY DEF SameOwners, Declared
<1>2. \A h \in Callers : \A k \in DOMAIN stack[h] :
          Owned(stack'[h][k]) = Owned(stack[h][k]) /\ (Unique(stack[h][k]) => Unique(stack'[h][k]))
  BY DEF SameOwners, Owned, Unique
<1>3. \A h \in Callers : DOMAIN stack'[h] = DOMAIN stack[h]
  BY DEF SameOwners
<1>4. Apart => Apart'
  BY <1>1, <1>2, <1>3 DEF Apart
<1>5. Accounted /\ resolvedImports' = resolvedImports /\ lapses \subseteq lapses' => Accounted'
  BY <1>1, <1>2, <1>3 DEF Accounted
<1>6. DeclarationsSound /\ resolvedImports \subseteq resolvedImports' => DeclarationsSound'
  BY <1>1 DEF DeclarationsSound
<1>7. QED
  BY <1>4, <1>5, <1>6

LEMMA StacksKept ==
    ASSUME Shape, StacksSound, SameOwners,
           ASSUME NEW h \in Callers, NEW k \in DOMAIN stack[h] PROVE Sound(stack'[h][k], resolvedImports')
    PROVE  StacksSound'
<1> SUFFICES ASSUME NEW h \in Callers, NEW k \in DOMAIN stack'[h]
             PROVE  /\ Sound(stack'[h][k], resolvedImports')
                    /\ k > 1 => stack'[h][k].class \in Named(stack'[h][k - 1].class)
  BY DEF StacksSound
<1>1. k \in DOMAIN stack[h] /\ DOMAIN stack[h] = 1 .. Len(stack[h]) /\ Len(stack[h]) \in Nat
  BY StackTypes DEF SameOwners
<1>2. ASSUME k > 1 PROVE stack'[h][k].class \in Named(stack'[h][k - 1].class)
  <2>1. k - 1 \in DOMAIN stack[h]
    BY <1>1, <1>2
  <2>2. stack[h][k].class \in Named(stack[h][k - 1].class)
    BY <1>1, <1>2 DEF StacksSound
  <2>3. stack'[h][k].class = stack[h][k].class /\ stack'[h][k - 1].class = stack[h][k - 1].class
    BY <1>1, <2>1 DEF SameOwners
  <2>4. QED
    BY <2>2, <2>3
<1>3. QED
  BY <1>1, <1>2

\* A step that neither saves nor begins a call.
LEMMA SaveKept ==
    ASSUME SaveSound, Shape, UNCHANGED disk, lapses \subseteq lapses', Running' \subseteq Running,
           \A k \in 1 .. Len(declarations) : declarations'[k] = declarations[k],
           DOMAIN declarations \subseteq DOMAIN declarations'
    PROVE  SaveSound'
<1>1. files' = files /\ written' = written /\ saving' = saving /\ lapses \subseteq lapses'
  BY DEF disk
<1>2. \A k \in 1 .. written : declarations'[k] = declarations[k]
  <2>1. Len(declarations) \in Nat
    BY LenProperties DEF Shape
  <2>2. QED
    BY <2>1 DEF Shape
<1>3. Declared \subseteq Declared'
  <2>1. DOMAIN declarations = 1 .. Len(declarations)
    BY LenProperties DEF Shape
  <2>2. QED
    BY <2>1 DEF Declared, ToSet
<1>4. {declarations'[k] : k \in 1 .. written'} \subseteq files' /\ files' \subseteq Declared'
  BY <1>1, <1>2, <1>3 DEF SaveSound
<1>5. SavedTogether'
  BY <1>1 DEF SaveSound, SavedTogether
<1>6. QED
  BY <1>1, <1>4, <1>5 DEF SaveSound

-----------------------------------------------------------------------------
(***************************************************************************)
(* The order of declarations                                               *)
(***************************************************************************)
LEMMA FollowsMore ==
    ASSUME NEW s, NEW before, NEW more, Follows(s, before), before \subseteq more
    PROVE  Follows(s, more)
  BY DEF Follows

LEMMA FollowsConcat ==
    ASSUME NEW S, NEW s \in Seq(S), NEW t \in Seq(S), NEW before,
           Follows(s, before), Follows(t, before \union ToSet(s))
    PROVE  Follows(s \o t, before)
<1>1. /\ Len(s) \in Nat /\ DOMAIN s = 1 .. Len(s) /\ Len(t) \in Nat /\ DOMAIN t = 1 .. Len(t)
      /\ DOMAIN (s \o t) = 1 .. Len(s) + Len(t)
      /\ \A i \in 1 .. Len(s) : (s \o t)[i] = s[i]
      /\ \A i \in 1 .. Len(t) : (s \o t)[Len(s) + i] = t[i]
  BY ConcatProperties, LenProperties
<1> SUFFICES ASSUME NEW k \in DOMAIN (s \o t), NEW d \in Named((s \o t)[k]), d \notin before,
                    ~Reaches(d, (s \o t)[k])
             PROVE  \E l \in 1 .. k - 1 : (s \o t)[l] = d
  BY DEF Follows
<1>2. CASE k <= Len(s)
  <2>1. k \in DOMAIN s /\ (s \o t)[k] = s[k]
    BY <1>1, <1>2
  <2>2. PICK l \in 1 .. k - 1 : s[l] = d
    BY <2>1 DEF Follows
  <2>3. l \in 1 .. Len(s)
    BY <1>1, <1>2
  <2>4. QED
    BY <1>1, <2>2, <2>3
<1>3. CASE ~(k <= Len(s))
  <2> DEFINE j == k - Len(s)
  <2>1. j \in DOMAIN t /\ (s \o t)[k] = t[j] /\ j \in 1 .. Len(t) /\ k = Len(s) + j
    <3>1. j \in 1 .. Len(t) /\ k = Len(s) + j
      BY <1>1, <1>3
    <3> HIDE DEF j
    <3>2. QED
      BY <1>1, <3>1
  <2> HIDE DEF j
  <2>2. d \in ToSet(s) \/ \E l \in 1 .. j - 1 : t[l] = d
    BY <2>1 DEF Follows
  <2>3. CASE d \in ToSet(s)
    <3>1. PICK l \in 1 .. Len(s) : s[l] = d
      BY <1>1, <2>3 DEF ToSet
    <3>2. l \in 1 .. k - 1
      BY <1>1, <1>3
    <3>3. QED
      BY <1>1, <3>1, <3>2
  <2>4. CASE \E l \in 1 .. j - 1 : t[l] = d
    <3>1. PICK l \in 1 .. j - 1 : t[l] = d
      BY <2>4
    <3>2. l \in 1 .. Len(t) /\ Len(s) + l \in 1 .. k - 1
      BY <1>1, <2>1
    <3>3. QED
      BY <1>1, <3>1, <3>2
  <2>5. QED
    BY <2>2, <2>3, <2>4
<1>4. QED
  BY <1>2, <1>3

\* A generator is as it was as far as the order goes, and so are those around it.
Resumed(h, k) ==
    \/ stack'[h][k].res = <<>>
    \/ k \in DOMAIN stack[h] /\ \A i \in 1 .. k : stack'[h][i].res = stack[h][i].res

LEMMA OrderKept ==
    ASSUME Ordered, declarations' = declarations, lapses \subseteq lapses',
           Quiet' => \A g, h \in Running' : g = h,
           \A h \in Callers : \A k \in DOMAIN stack'[h] : Resumed(h, k), Shape
    PROVE  Ordered'
<1> SUFFICES ASSUME Quiet'
             PROVE  /\ Follows(declarations', {})
                    /\ \A g \in Callers : \A j \in DOMAIN stack'[g] : Follows(stack'[g][j].res, Before(g, j)')
  BY DEF Ordered
<1>1. Quiet /\ Declared' = Declared
  BY DEF Quiet, Declared
<1>2. Follows(declarations', {})
  BY <1>1 DEF Ordered
<1>3. ASSUME NEW g \in Callers, NEW j \in DOMAIN stack'[g]
      PROVE  Follows(stack'[g][j].res, Before(g, j)')
  <2>1. CASE stack'[g][j].res = <<>>
    <3>1. DOMAIN (<<>>) = {}
      OBVIOUS
    <3>2. QED
      BY <2>1, <3>1 DEF Follows
  <2>2. CASE j \in DOMAIN stack[g] /\ \A i \in 1 .. j : stack'[g][i].res = stack[g][i].res
    <3>1. j \in Nat /\ j >= 1
      BY <2>2, StackTypes
    <3>2. Before(g, j)' = Before(g, j)
      BY <1>1, <2>2, <3>1 DEF Before
    <3>3. stack'[g][j].res = stack[g][j].res
      BY <2>2, <3>1
    <3>4. QED
      BY <1>1, <2>2, <3>2, <3>3 DEF Ordered
  <2>3. QED
    BY <1>3, <2>1, <2>2 DEF Resumed
<1>4. QED
  BY <1>2, <1>3

LEMMA SameOwnersOrdered ==
    ASSUME Ordered, Shape, SameOwners, lapses' = lapses, Running' = Running
    PROVE  Ordered'
<1>1. \A h \in Callers : \A k \in DOMAIN stack'[h] : Resumed(h, k)
  <2> SUFFICES ASSUME NEW h \in Callers, NEW k \in DOMAIN stack'[h] PROVE Resumed(h, k)
    OBVIOUS
  <2>1. k \in DOMAIN stack[h] /\ DOMAIN stack[h] = 1 .. Len(stack[h]) /\ Len(stack[h]) \in Nat
    BY StackTypes DEF SameOwners
  <2>2. \A i \in 1 .. k : i \in DOMAIN stack[h]
    BY <2>1
  <2>3. QED
    BY <2>1, <2>2 DEF Resumed, SameOwners
<1>2. Quiet' => \A g, h \in Running' : g = h
  BY DEF Ordered, Quiet
<1>3. QED
  BY <1>1, <1>2, OrderKept DEF SameOwners

\* A generator waits for one of a class that its own mentions, so that its class
\* reaches that of the innermost generator.
LEMMA WaitingReaches ==
    ASSUME Shape, StacksSound, NEW g \in Callers, NEW i \in DOMAIN stack[g],
           stack[g][i].class \in Named(Top(g).class)
    PROVE  Reaches(stack[g][i].class, Top(g).class)
<1> DEFINE n == Len(stack[g])
           c(k) == stack[g][k].class
<1>1. /\ DOMAIN stack[g] = 1 .. n /\ n \in Nat /\ i \in 1 .. n /\ n \in DOMAIN stack[g]
      /\ Top(g) = stack[g][n]
  <2>1. stack[g] # <<>>
    BY StackTypes
  <2>2. QED
    BY <2>1, StackTypes
<1>2. \A k \in 1 .. n : k > 1 => c(k) \in Named(c(k - 1))
  BY <1>1 DEF StacksSound
<1>3. c(i) \in Named(c(n)) /\ Top(g).class = c(n)
  BY <1>1
<1> HIDE DEF c, n
<1> SUFFICES ASSUME NEW S \in SUBSET Classes, Named(c(i)) \subseteq S, \A e \in S : Named(e) \subseteq S
             PROVE  c(n) \in S
  BY <1>3 DEF Reaches, c
<1>4. CASE i = n
  BY <1>3, <1>4
<1>5. CASE i # n
  <2> DEFINE Outside == {k \in i + 1 .. n : c(k) \notin S}
  <2>1. SUFFICES ASSUME Outside # {} PROVE FALSE
    BY <1>1, <1>5
  <2>2. PICK k \in Outside : \A l \in Outside : k <= l
    <3>1. Outside \subseteq Nat
      BY <1>1
    <3> HIDE DEF Outside
    <3>2. QED
      BY <2>1, <3>1, FirstExists
  <2>3. k \in 1 .. n /\ k > 1 /\ c(k) \notin S /\ k - 1 \in i .. n
    BY <1>1, <2>2
  <2>4. c(k) \in Named(c(k - 1))
    BY <1>2, <2>3
  <2>5. CASE k - 1 = i
    BY <2>3, <2>4, <2>5
  <2>6. CASE k - 1 # i
    <3>1. k - 1 \in i + 1 .. n /\ ~(k <= k - 1)
      BY <1>1, <2>3, <2>6
    <3>2. k - 1 \notin Outside
      <4> HIDE DEF Outside
      <4>1. QED
        BY <2>2, <3>1
    <3>3. c(k - 1) \in S
      BY <3>1, <3>2
    <3>4. QED
      BY <2>3, <2>4, <3>3
  <2>7. QED
    BY <2>5, <2>6
<1>6. QED
  BY <1>4, <1>5

\* The class of a generator that is done follows what it mentions.
LEMMA DoneFollows ==
    ASSUME IInv, Quiet, NEW g \in Callers, stack[g] # <<>>, Top(g).ready, Top(g).follow = <<>>
    PROVE  Follows(Append(Top(g).res, Top(g).class), Before(g, Len(stack[g])))
<1> USE DEF IInv
<1> DEFINE f == Top(g)
           n == Len(stack[g])
<1>1. /\ f \in Frames /\ n \in DOMAIN stack[g] /\ f = stack[g][n] /\ DOMAIN stack[g] = 1 .. n /\ n \in Nat
  BY StackTypes
<1>2. f.res \in Seq(Classes) /\ f.class \in Classes
  BY <1>1 DEF Frames
<1>3. Named(f.class) \subseteq resolvedImports
  <2>1. Sound(f, resolvedImports)
    BY <1>1 DEF StacksSound
  <2>2. Left(f) = {} /\ ToSet(f.follow) = {}
    BY <1>1, <2>1, ToSetType DEF Sound, Left, Frames
  <2>3. QED
    BY <2>1, <2>2 DEF Sound
<1>4. ASSUME NEW d \in Named(f.class)
      PROVE  Reaches(d, f.class) \/ d \in Before(g, n) \union ToSet(f.res)
  <2>1. CASE d \in Declared
    BY <2>1 DEF Before
  <2>2. CASE d \notin Declared
    <3>1. "failed" \notin lapses
      BY DEF Quiet
    <3>2. PICK h \in Callers : \E k \in DOMAIN stack[h] : d \in Owned(stack[h][k])
      BY <1>3, <2>2, <3>1 DEF Accounted
    <3>3. h = g
      <4>1. stack[h] # <<>>
        BY <3>2, StackTypes
      <4>2. g \in Running /\ h \in Running
        BY <4>1 DEF Running, Shape
      <4>3. QED
        BY <4>2 DEF Ordered
    <3>4. PICK k \in DOMAIN stack[g] : d \in Owned(stack[g][k])
      BY <3>2, <3>3
    <3>5. CASE d = stack[g][k].class
      BY <3>5, WaitingReaches
    <3>6. CASE d \in ToSet(stack[g][k].res) /\ k = n
      BY <1>1, <3>6
    <3>7. CASE d \in ToSet(stack[g][k].res) /\ k # n
      <4>1. k \in 1 .. n - 1
        BY <1>1, <3>7
      <4>2. QED
        BY <3>7, <4>1 DEF Before
    <3>8. QED
      BY <3>4, <3>5, <3>6, <3>7 DEF Owned
  <2>3. QED
    BY <2>1, <2>2
<1> HIDE DEF f, n
<1>5. Follows(<<f.class>>, Before(g, n) \union ToSet(f.res))
  <2>1. DOMAIN <<f.class>> = {1} /\ <<f.class>>[1] = f.class
    OBVIOUS
  <2>2. QED
    BY <1>4, <2>1 DEF Follows
<1>6. Follows(f.res, Before(g, n))
  BY <1>1 DEF Ordered
<1>7. Append(f.res, f.class) = f.res \o <<f.class>> /\ <<f.class>> \in Seq(Classes)
  BY <1>2, AppendIsConcat
<1>8. Follows(f.res \o <<f.class>>, Before(g, n))
  BY <1>2, <1>5, <1>6, <1>7, FollowsConcat
<1>9. QED
  BY <1>7, <1>8 DEF f, n

-----------------------------------------------------------------------------
(***************************************************************************)
(* Steps                                                                   *)
(***************************************************************************)
\* The next class is taken from its list, being marked then.
LEMMA TakenSound ==
    ASSUME Shape, StacksSound, NEW g \in Callers, Next1(g) # <<>>,
           NEW more, resolvedImports \subseteq more, Head(Next1(g)) \in more
    PROVE  /\ Taken(g) \in Seq(Frames) /\ Len(Taken(g)) = Len(stack[g])
           /\ \A k \in DOMAIN stack[g] : /\ Taken(g)[k].class = stack[g][k].class
                                         /\ Taken(g)[k].res = stack[g][k].res
                                         /\ Sound(Taken(g)[k], more)
           /\ stack[g] # <<>> => Head(Next1(g)) \in Named(Top(g).class)
           /\ Head(Next1(g)) \in Classes
<1>1. CASE stack[g] = <<>>
  <2>1. Next1(g) = classnames[g] /\ Taken(g) = <<>> /\ classnames[g] \in Seq(Classes)
    BY <1>1 DEF Next1, Taken, Shape
  <2>2. Head(Next1(g)) \in Classes
    BY <2>1, HeadTailProperties
  <2>3. <<>> \in Seq(Frames) /\ DOMAIN stack[g] = {}
    BY <1>1, StackTypes, EmptySeq
  <2>4. QED
    BY <1>1, <2>1, <2>2, <2>3
<1>2. CASE stack[g] # <<>>
  <2> DEFINE f == stack[g][Len(stack[g])]
             e == [f EXCEPT !.follow = Tail(@)]
  <2>1. Top(g) = f /\ f \in Frames /\ Len(stack[g]) \in DOMAIN stack[g] /\ stack[g] \in Seq(Frames)
    BY <1>2, StackTypes
  <2>2. Next1(g) = f.follow /\ f.follow # <<>>
    BY <1>2, <2>1 DEF Next1
  <2>3. Sound(f, resolvedImports)
    BY <2>1 DEF StacksSound
  <2>4. e \in Frames /\ Sound(e, more) /\ Head(f.follow) \in Named(f.class)
    BY <2>1, <2>2, <2>3, FollowSound
  <2>5. e.class = f.class /\ e.res = f.res
    BY <2>1 DEF Frames
  <2>6. Taken(g) = Append(Front(stack[g]), e)
    BY <1>2, <2>1 DEF Taken
  <2>7. f.class \in Classes
    BY <2>1 DEF Frames
  <2>8. Head(Next1(g)) \in Classes /\ Head(Next1(g)) \in Named(Top(g).class)
    BY <2>1, <2>2, <2>4, <2>7, NamedType
  <2>9. /\ Taken(g) \in Seq(Frames) /\ Len(Taken(g)) = Len(stack[g])
        /\ \A k \in DOMAIN stack[g] : Taken(g)[k] = IF k = Len(stack[g]) THEN e ELSE stack[g][k]
    <3> HIDE DEF e, f
    <3> DEFINE s == stack[g]
    <3>1. s \in Seq(Frames) /\ s # <<>> /\ Taken(g) = Append(Front(s), e)
      BY <1>2, <2>1, <2>6
    <3>2. DOMAIN s = 1 .. Len(s)
      BY StackTypes
    <3> HIDE DEF s
    <3>3. /\ Append(Front(s), e) \in Seq(Frames)
          /\ Len(s) \in Nat \ {0}
          /\ Len(Append(Front(s), e)) = Len(s)
          /\ Append(Front(s), e)[Len(s)] = e
          /\ \A k \in 1 .. Len(s) - 1 : Append(Front(s), e)[k] = s[k]
      BY <2>4, <3>1, ReplaceTop
    <3>4. \A k \in DOMAIN s : Taken(g)[k] = IF k = Len(s) THEN e ELSE s[k]
      BY <3>1, <3>2, <3>3
    <3>5. QED
      BY <3>1, <3>3, <3>4 DEF s
  <2> HIDE DEF e, f
  <2>10. ASSUME NEW k \in DOMAIN stack[g]
         PROVE  /\ Taken(g)[k].class = stack[g][k].class /\ Taken(g)[k].res = stack[g][k].res
                /\ Sound(Taken(g)[k], more)
    <3>1. CASE k = Len(stack[g])
      BY <2>4, <2>5, <2>9, <3>1 DEF f
    <3>2. CASE k # Len(stack[g])
      <4>1. Taken(g)[k] = stack[g][k] /\ Sound(stack[g][k], resolvedImports)
        BY <2>9, <3>2 DEF StacksSound
      <4>2. QED
        BY <4>1, SoundGrows
    <3>3. QED
      BY <3>1, <3>2
  <2>11. QED
    BY <2>8, <2>9, <2>10
<1>3. QED
  BY <1>1, <1>2

LEMMA Advances ==
    ASSUME Shape, NEW g \in Callers, Next1(g) # <<>>, Advance(g)
    PROVE  /\ classnames' \in [Callers -> Seq(Classes)]
           /\ \A h \in Callers \ {g} : classnames'[h] = classnames[h]
           /\ status[g] = "running"
<1>1. classnames \in [Callers -> Seq(Classes)]
  BY DEF Shape
<1>2. CASE stack[g] = <<>>
  <2>1. classnames[g] # <<>> /\ classnames' = [classnames EXCEPT ![g] = Tail(classnames[g])]
    BY <1>2 DEF Next1, Advance
  <2>2. Tail(classnames[g]) \in Seq(Classes)
    BY <1>1, <2>1, HeadTailProperties
  <2>3. status[g] = "running"
    BY <2>1 DEF Shape
  <2>4. QED
    BY <1>1, <2>1, <2>2, <2>3
<1>3. CASE stack[g] # <<>>
  <2>1. classnames' = classnames
    BY <1>3 DEF Advance
  <2>2. status[g] = "running"
    BY <1>3 DEF Shape
  <2>3. QED
    BY <1>1, <2>1, <2>2
<1>4. QED
  BY <1>2, <1>3

LEMMA SkipKeeps ==
    ASSUME IInv, NEW g \in Callers, Skip(g)
    PROVE  IInv'
<1> USE DEF IInv
<1>1. /\ Next1(g) # <<>> /\ Head(Next1(g)) \in resolvedImports /\ Advance(g)
      /\ stack' = [stack EXCEPT ![g] = Taken(g)]
      /\ resolvedImports' = resolvedImports /\ status' = status /\ declarations' = declarations
      /\ UNCHANGED <<disk, lapses>>
  BY DEF Skip, found
<1>2. /\ Taken(g) \in Seq(Frames) /\ Len(Taken(g)) = Len(stack[g])
      /\ \A k \in DOMAIN stack[g] : /\ Taken(g)[k].class = stack[g][k].class
                                    /\ Taken(g)[k].res = stack[g][k].res
                                    /\ Sound(Taken(g)[k], resolvedImports)
  BY <1>1, TakenSound
<1>3. stack \in [Callers -> Seq(Frames)]
  BY DEF Shape
<1>4. stack'[g] = Taken(g) /\ \A h \in Callers \ {g} : stack'[h] = stack[h]
  BY <1>1, <1>3
<1>5. DOMAIN stack'[g] = DOMAIN stack[g]
  BY <1>2, <1>4, StackTypes, LenProperties
<1>6. stack' \in [Callers -> Seq(Frames)]
  BY <1>1, <1>2, <1>3
<1>7. Shape'
  BY <1>1, <1>4, <1>6, Advances DEF Shape, disk
<1>8. SameOwners
  BY <1>1, <1>2, <1>4, <1>5 DEF SameOwners
<1>9. StacksSound'
  <2>1. ASSUME NEW h \in Callers, NEW k \in DOMAIN stack[h] PROVE Sound(stack'[h][k], resolvedImports')
    BY <1>1, <1>2, <1>4 DEF StacksSound
  <2>2. QED
    BY <1>8, <2>1, StacksKept
<1>10. Apart' /\ Accounted' /\ DeclarationsSound'
  BY <1>1, <1>8, SameOwnersKeep
<1>11. Running' = Running
  BY <1>1 DEF Running
<1>12. SaveSound'
  BY <1>1, <1>11, SaveKept
<1>13. Ordered'
  BY <1>1, <1>8, <1>11, SameOwnersOrdered
<1>14. QED
  BY <1>7, <1>9, <1>10, <1>12, <1>13

LEMMA ConvertKeeps ==
    ASSUME IInv, NEW g \in Callers, Convert(g)
    PROVE  IInv'
<1> USE DEF IInv
<1> DEFINE e == Converted(Top(g), resolvedImports)
<1>1. /\ stack[g] # <<>> /\ ~Top(g).ready
      /\ resolvedImports' = resolvedImports /\ status' = status /\ declarations' = declarations
      /\ classnames' = classnames /\ UNCHANGED <<disk, lapses>>
  BY DEF Convert, found
<1>2. stack' = [stack EXCEPT ![g] = Append(Front(stack[g]), e)]
  BY DEF Convert, Converted, Additional
<1>3. Top(g) \in Frames /\ Sound(Top(g), resolvedImports) /\ Top(g) = stack[g][Len(stack[g])]
  BY <1>1, StackTypes DEF StacksSound
<1>4. e \in Frames /\ Sound(e, resolvedImports)
  BY <1>1, <1>3, ConvertedSound
<1>5. e.class = Top(g).class /\ e.res = Top(g).res
  BY <1>3 DEF Frames, Converted
<1> HIDE DEF e
<1>6. /\ stack' \in [Callers -> Seq(Frames)]
      /\ \A h \in Callers : DOMAIN stack'[h] = DOMAIN stack[h]
      /\ \A h \in Callers : \A k \in DOMAIN stack[h] :
            stack'[h][k] = IF h = g /\ k = Len(stack[g]) THEN e ELSE stack[h][k]
  <2>1. Replaced(g, e)
    BY <1>1, <1>2 DEF Replaced
  <2>2. QED
    BY <1>4, <2>1, ReplacedEffect
<1>7. \A h \in Callers \ {g} : stack'[h] = stack[h]
  BY <1>2 DEF Shape
<1>8. status[g] = "running"
  BY <1>1 DEF Shape
<1>9. Shape'
  BY <1>1, <1>6, <1>7, <1>8 DEF Shape, disk
<1>10. SameOwners
  BY <1>1, <1>3, <1>5, <1>6 DEF SameOwners
<1>11. StacksSound'
  <2>1. ASSUME NEW h \in Callers, NEW k \in DOMAIN stack[h] PROVE Sound(stack'[h][k], resolvedImports')
    BY <1>1, <1>4, <1>6 DEF StacksSound
  <2>2. QED
    BY <1>10, <2>1, StacksKept
<1>12. Apart' /\ Accounted' /\ DeclarationsSound'
  BY <1>1, <1>10, SameOwnersKeep
<1>13. Running' = Running
  BY <1>1 DEF Running
<1>14. SaveSound'
  BY <1>1, <1>13, SaveKept
<1>15. Ordered'
  BY <1>1, <1>10, <1>13, SameOwnersOrdered
<1>16. QED
  BY <1>9, <1>11, <1>12, <1>14, <1>15

LEMMA EnterKeeps ==
    ASSUME IInv, NEW g \in Callers, Enter(g)
    PROVE  IInv'
<1> USE DEF IInv
<1> DEFINE c == Head(Next1(g))
           more == resolvedImports \union {c}
           n == Len(stack[g])
<1>1. /\ Next1(g) # <<>> /\ c \notin resolvedImports /\ Advance(g)
      /\ stack' = [stack EXCEPT ![g] = Append(Taken(g), Generator(c))]
      /\ resolvedImports' = more /\ status' = status /\ declarations' = declarations
      /\ UNCHANGED <<disk, lapses>>
  BY DEF Enter, found
<1>2. /\ Taken(g) \in Seq(Frames) /\ Len(Taken(g)) = n
      /\ \A k \in DOMAIN stack[g] : /\ Taken(g)[k].class = stack[g][k].class
                                    /\ Taken(g)[k].res = stack[g][k].res
                                    /\ Sound(Taken(g)[k], more)
      /\ stack[g] # <<>> => c \in Named(Top(g).class)
      /\ c \in Classes
  <2>1. /\ Shape /\ StacksSound /\ Next1(g) # <<>>
        /\ resolvedImports \subseteq more /\ Head(Next1(g)) \in more
    BY <1>1
  <2> HIDE DEF more, IInv
  <2>2. QED
    BY <2>1, TakenSound
<1>3. /\ Generator(c) \in Frames /\ Generator(c).class = c /\ Owned(Generator(c)) = {c}
      /\ Unique(Generator(c)) /\ Sound(Generator(c), more)
  BY <1>2, GeneratorSound
<1>4. stack \in [Callers -> Seq(Frames)] /\ n \in Nat /\ DOMAIN stack[g] = 1 .. n
  BY StackTypes DEF Shape
<1> HIDE DEF c, more, n
<1>5. /\ Append(Taken(g), Generator(c)) \in Seq(Frames)
      /\ Len(Append(Taken(g), Generator(c))) = n + 1
      /\ \A k \in 1 .. n : Append(Taken(g), Generator(c))[k] = Taken(g)[k]
      /\ Append(Taken(g), Generator(c))[n + 1] = Generator(c)
  BY <1>2, <1>3, AppendProperties
<1>6. /\ stack' \in [Callers -> Seq(Frames)]
      /\ \A h \in Callers \ {g} : stack'[h] = stack[h]
      /\ stack'[g] = Append(Taken(g), Generator(c))
  BY <1>1, <1>4, <1>5
<1>7. /\ DOMAIN stack'[g] = 1 .. n + 1
      /\ stack'[g][n + 1] = Generator(c)
      /\ \A k \in 1 .. n : stack'[g][k] = Taken(g)[k]
  BY <1>5, <1>6, LenProperties
<1>8. Shape'
  BY <1>1, <1>2, <1>6, Advances DEF Shape, disk, more
\* Every generator but the new one owns what it owned.
<1>9. \A h \in Callers : \A k \in DOMAIN stack'[h] :
         \/ h = g /\ k = n + 1
         \/ /\ k \in DOMAIN stack[h] /\ Owned(stack'[h][k]) = Owned(stack[h][k])
            /\ stack'[h][k].class = stack[h][k].class
            /\ Unique(stack[h][k]) => Unique(stack'[h][k])
            /\ Sound(stack'[h][k], more)
  <2> SUFFICES ASSUME NEW h \in Callers, NEW k \in DOMAIN stack'[h], ~(h = g /\ k = n + 1)
               PROVE  /\ k \in DOMAIN stack[h] /\ Owned(stack'[h][k]) = Owned(stack[h][k])
                      /\ stack'[h][k].class = stack[h][k].class
                      /\ Unique(stack[h][k]) => Unique(stack'[h][k])
                      /\ Sound(stack'[h][k], more)
    OBVIOUS
  <2>1. CASE h # g
    <3>1. stack'[h] = stack[h] /\ Sound(stack[h][k], resolvedImports)
      BY <1>6, <2>1 DEF StacksSound
    <3>2. Sound(stack[h][k], more)
      BY <3>1, SoundGrows DEF more
    <3>3. QED
      BY <3>1, <3>2
  <2>2. CASE h = g
    <3>1. k \in 1 .. n
      BY <1>4, <1>7, <2>2
    <3>2. stack'[h][k].class = stack[h][k].class /\ stack'[h][k].res = stack[h][k].res /\ Sound(stack'[h][k], more)
      BY <1>2, <1>4, <1>7, <2>2, <3>1
    <3>3. QED
      BY <1>4, <2>2, <3>1, <3>2 DEF Owned, Unique
  <2>3. QED
    BY <2>1, <2>2
<1>10. StacksSound'
  <2> SUFFICES ASSUME NEW h \in Callers, NEW k \in DOMAIN stack'[h]
               PROVE  /\ Sound(stack'[h][k], more)
                      /\ k > 1 => stack'[h][k].class \in Named(stack'[h][k - 1].class)
    BY <1>1 DEF StacksSound
  <2>1. Sound(stack'[h][k], more)
    BY <1>3, <1>7, <1>9
  <2>2. ASSUME k > 1, h = g, k = n + 1 PROVE stack'[h][k].class \in Named(stack'[h][k - 1].class)
    <3>1. n \in 1 .. n /\ k - 1 = n
      BY <1>4, <2>2
    <3>2. stack[g] # <<>> /\ Top(g) = stack[g][n]
      BY <3>1, <1>4, StackTypes DEF n
    <3>3. stack'[h][k - 1].class = Top(g).class
      BY <1>2, <1>4, <1>7, <2>2, <3>1, <3>2
    <3>4. QED
      BY <1>2, <1>3, <1>7, <2>2, <3>2, <3>3
  <2>3. ASSUME k > 1, ~(h = g /\ k = n + 1) PROVE stack'[h][k].class \in Named(stack'[h][k - 1].class)
    <3>1. k \in DOMAIN stack[h] /\ stack'[h][k].class = stack[h][k].class
      BY <1>9, <2>3
    <3>2. k - 1 \in DOMAIN stack[h] /\ k - 1 \in DOMAIN stack'[h] /\ ~(h = g /\ k - 1 = n + 1)
      <4>1. DOMAIN stack[h] = 1 .. Len(stack[h]) /\ Len(stack[h]) \in Nat
        BY StackTypes
      <4>2. k - 1 \in DOMAIN stack[h]
        BY <2>3, <3>1, <4>1
      <4>3. CASE h = g
        BY <1>4, <1>7, <2>3, <4>2, <4>3
      <4>4. CASE h # g
        BY <1>6, <4>2, <4>4
      <4>5. QED
        BY <4>2, <4>3, <4>4
    <3>3. stack'[h][k - 1].class = stack[h][k - 1].class
      BY <1>9, <3>2
    <3>4. stack[h][k].class \in Named(stack[h][k - 1].class)
      BY <2>3, <3>1 DEF StacksSound
    <3>5. QED
      BY <3>1, <3>3, <3>4
  <2>4. QED
    BY <2>1, <2>2, <2>3
<1>11. Declared' = Declared
  BY <1>1 DEF Declared
<1>12. DeclarationsSound'
  BY <1>1, <1>11 DEF DeclarationsSound, more
<1>13. \A h \in Callers : \A k \in DOMAIN stack[h] : c \notin Owned(stack[h][k])
  BY <1>1 DEF StacksSound, Sound
<1>14. c \notin Declared
  BY <1>1 DEF DeclarationsSound
<1>15. Apart'
  <2>1. IsInjective(declarations')
    BY <1>1 DEF Apart
  <2> SUFFICES ASSUME NEW h \in Callers, NEW k \in DOMAIN stack'[h]
               PROVE  /\ Unique(stack'[h][k])
                      /\ Owned(stack'[h][k]) \intersect Declared = {}
                      /\ \A i \in Callers : \A l \in DOMAIN stack'[i] :
                            i # h \/ l # k => Owned(stack'[h][k]) \intersect Owned(stack'[i][l]) = {}
    BY <1>11, <2>1 DEF Apart
  <2>2. CASE h = g /\ k = n + 1
    BY <1>3, <1>7, <1>9, <1>13, <1>14, <2>2
  <2>3. CASE ~(h = g /\ k = n + 1)
    <3>1. k \in DOMAIN stack[h] /\ Owned(stack'[h][k]) = Owned(stack[h][k]) /\ Unique(stack'[h][k])
      BY <1>9, <2>3 DEF Apart
    <3>2. Owned(stack'[h][k]) \intersect Declared = {}
      BY <3>1 DEF Apart
    <3>3. ASSUME NEW i \in Callers, NEW l \in DOMAIN stack'[i], i # h \/ l # k
          PROVE  Owned(stack'[h][k]) \intersect Owned(stack'[i][l]) = {}
      <4>1. CASE i = g /\ l = n + 1
        BY <1>3, <1>7, <1>13, <3>1, <4>1
      <4>2. CASE ~(i = g /\ l = n + 1)
        <5>1. l \in DOMAIN stack[i] /\ Owned(stack'[i][l]) = Owned(stack[i][l])
          BY <1>9, <4>2
        <5>2. QED
          BY <3>1, <3>3, <5>1 DEF Apart
      <4>3. QED
        BY <4>1, <4>2
    <3>4. QED
      BY <3>1, <3>2, <3>3
  <2>4. QED
    BY <2>2, <2>3
<1>16. Accounted'
  <2> SUFFICES ASSUME "failed" \notin lapses, NEW d \in more, d \notin Declared
               PROVE  \E h \in Callers : \E k \in DOMAIN stack'[h] : d \in Owned(stack'[h][k])
    BY <1>1, <1>11 DEF Accounted
  <2>1. CASE d = c
    <3>1. n + 1 \in DOMAIN stack'[g]
      BY <1>4, <1>7
    <3>2. d \in Owned(stack'[g][n + 1])
      BY <1>3, <1>7, <2>1
    <3>3. QED
      BY <3>1, <3>2
  <2>2. CASE d # c
    <3>0. PICK h \in Callers : \E k \in DOMAIN stack[h] : d \in Owned(stack[h][k])
      BY <2>2 DEF Accounted, more
    <3>1. PICK k \in DOMAIN stack[h] : d \in Owned(stack[h][k])
      BY <3>0
    <3>2. k \in DOMAIN stack'[h] /\ ~(h = g /\ k = n + 1)
      BY <1>4, <1>6, <1>7
    <3>3. d \in Owned(stack'[h][k])
      BY <1>9, <3>1, <3>2
    <3>4. QED
      BY <3>2, <3>3
  <2>3. QED
    BY <2>1, <2>2
<1>17. Running' = Running
  BY <1>1 DEF Running
<1>18. SaveSound'
  BY <1>1, <1>17, SaveKept
<1>19. Ordered'
  <2>1. ASSUME NEW h \in Callers, NEW k \in DOMAIN stack'[h] PROVE Resumed(h, k)
    <3>1. CASE h # g
      BY <1>6, <3>1 DEF Resumed
    <3>2. CASE h = g /\ k = n + 1
      BY <1>7, <3>2 DEF Resumed, Generator
    <3>3. CASE h = g /\ k # n + 1
      <4>1. k \in 1 .. n
        BY <1>4, <1>7, <3>3
      <4>2. \A i \in 1 .. k : stack'[h][i].res = stack[h][i].res
        BY <1>2, <1>4, <1>7, <3>3, <4>1
      <4>3. QED
        BY <1>4, <3>3, <4>1, <4>2 DEF Resumed
    <3>4. QED
      BY <3>1, <3>2, <3>3
  <2>2. QED
    BY <1>1, <1>17, <2>1, OrderKept DEF Ordered, Quiet
<1>20. QED
  BY <1>8, <1>10, <1>12, <1>15, <1>16, <1>18, <1>19

LEMMA ImportFailsKeeps ==
    ASSUME IInv, NEW g \in Callers, ImportFails(g)
    PROVE  IInv'
<1> USE DEF IInv
<1>1. /\ status' = [status EXCEPT ![g] = "failed"] /\ stack' = [stack EXCEPT ![g] = <<>>]
      /\ classnames' = [classnames EXCEPT ![g] = <<>>] /\ lapses' = lapses \union {"failed"}
      /\ resolvedImports' = resolvedImports /\ declarations' = declarations /\ UNCHANGED disk
  BY DEF ImportFails, found
<1>2. <<>> \in Seq(Frames) /\ <<>> \in Seq(Classes) /\ Len(<<>>) = 0
  BY EmptySeq
<1>3. stack \in [Callers -> Seq(Frames)]
  BY DEF Shape
<1>4. Shape'
  BY <1>1, <1>2 DEF Shape, disk
<1>5. DOMAIN stack'[g] = {}
  <2>1. stack'[g] = <<>> /\ DOMAIN stack'[g] = 1 .. Len(stack'[g])
    BY <1>1, <1>2, <1>3, LenProperties
  <2>2. QED
    BY <1>2, <2>1
<1>6. \A h \in Callers : \A k \in DOMAIN stack'[h] : h # g /\ stack'[h] = stack[h]
  BY <1>1, <1>3, <1>5
<1>7. Declared' = Declared
  BY <1>1 DEF Declared
<1>8. StacksSound'
  BY <1>1, <1>6 DEF StacksSound
<1>9. DeclarationsSound'
  BY <1>1, <1>7 DEF DeclarationsSound
<1>10. Apart'
  <2>1. IsInjective(declarations')
    BY <1>1 DEF Apart
  <2>2. ASSUME NEW h \in Callers, NEW k \in DOMAIN stack'[h]
        PROVE  /\ Unique(stack'[h][k])
               /\ Owned(stack'[h][k]) \intersect Declared = {}
               /\ \A i \in Callers : \A l \in DOMAIN stack'[i] :
                     i # h \/ l # k => Owned(stack'[h][k]) \intersect Owned(stack'[i][l]) = {}
    <3>1. stack'[h] = stack[h] /\ \A i \in Callers : \A l \in DOMAIN stack'[i] : stack'[i] = stack[i]
      BY <1>6
    <3>2. QED
      BY <3>1 DEF Apart
  <2>3. QED
    BY <1>7, <2>1, <2>2 DEF Apart
<1>11. Accounted'
  BY <1>1 DEF Accounted
<1>12. Running' \subseteq Running
  BY <1>1 DEF Running, Shape
<1>13. SaveSound'
  BY <1>1, <1>12, SaveKept
<1>14. Ordered'
  BY <1>1 DEF Ordered, Quiet
<1>15. QED
  BY <1>4, <1>8, <1>9, <1>10, <1>11, <1>13, <1>14

\* Steps that concern no generator.
LEMMA StacksSame ==
    ASSUME Shape, StacksSound, DeclarationsSound, Apart, Accounted,
           UNCHANGED <<stack, declarations, resolvedImports>>, lapses \subseteq lapses'
    PROVE  StacksSound' /\ DeclarationsSound' /\ Apart' /\ Accounted'
<1>1. SameOwners
  BY DEF SameOwners
<1>2. StacksSound'
  BY <1>1, StacksKept DEF StacksSound
<1>3. QED
  BY <1>1, <1>2, SameOwnersKeep

LEMMA StacksSameOrdered ==
    ASSUME Ordered, Shape, UNCHANGED <<stack, declarations>>, lapses \subseteq lapses', Running' \subseteq Running
    PROVE  Ordered'
<1>1. \A h \in Callers : \A k \in DOMAIN stack'[h] : Resumed(h, k)
  BY DEF Resumed
<1>2. Quiet' => \A g, h \in Running' : g = h
  BY DEF Ordered, Quiet
<1>3. QED
  BY <1>1, <1>2, OrderKept

LEMMA GenerateKeeps ==
    ASSUME IInv, NEW g \in Callers, NEW list \in Requests, Generate(g, list)
    PROVE  IInv'
<1> USE DEF IInv
<1>1. /\ UNCHANGED <<stack, declarations, resolvedImports>> /\ lapses \subseteq lapses' /\ UNCHANGED disk
      /\ status' = [status EXCEPT ![g] = "running"] /\ classnames' = [classnames EXCEPT ![g] = list]
      /\ saving = "yes" => "early" \in lapses'
  BY DEF Generate, found
<1>2. list \in Seq(Classes)
  BY RequestsAssumption
<1>3. Shape'
  BY <1>1, <1>2 DEF Shape, disk
<1>4. SaveSound'
  BY <1>1 DEF SaveSound, SavedTogether, disk, Declared
<1>5. Ordered'
  <2>1. lapses' = lapses \union (IF Running # {} THEN {"overlapping"} ELSE {})
                        \union (IF saving = "yes" THEN {"early"} ELSE {})
    BY DEF Generate
  <2>2. Running' \subseteq Running \union {g}
    BY <1>1 DEF Running, Shape
  <2>3. Quiet' => Running = {}
    BY <2>1 DEF Quiet
  <2>4. Quiet' => \A h, i \in Running' : h = i
    BY <2>2, <2>3
  <2>5. \A h \in Callers : \A k \in DOMAIN stack'[h] : Resumed(h, k)
    BY <1>1 DEF Resumed
  <2>6. QED
    BY <1>1, <2>4, <2>5, OrderKept
<1>6. QED
  BY <1>1, <1>3, <1>4, <1>5, StacksSame

LEMMA ResolveKeeps ==
    ASSUME IInv, NEW g \in Callers, Resolve(g)
    PROVE  IInv'
<1> USE DEF IInv
<1>1. /\ UNCHANGED <<stack, declarations, resolvedImports, classnames>> /\ UNCHANGED <<disk, lapses>>
      /\ status' = [status EXCEPT ![g] = "done"] /\ stack[g] = <<>> /\ classnames[g] = <<>>
  BY DEF Resolve, found
<1>2. Shape'
  BY <1>1 DEF Shape, disk
<1>3. Running' \subseteq Running
  BY <1>1 DEF Running, Shape
<1>4. SaveSound'
  BY <1>1, <1>3, SaveKept
<1>5. QED
  BY <1>1, <1>2, <1>3, <1>4, StacksSame, StacksSameOrdered

\* What a step of save needs to know: when no call is running nothing is missing.
LEMMA Complete ==
    ASSUME IInv
    PROVE  ImportsDeclared
<1> SUFFICES ASSUME Running = {}, "failed" \notin lapses, NEW c \in Declared
             PROVE  Named(c) \subseteq Declared
  BY DEF ImportsDeclared
<1>1. \A g \in Callers : DOMAIN stack[g] = {}
  <2> SUFFICES ASSUME NEW g \in Callers PROVE DOMAIN stack[g] = {}
    OBVIOUS
  <2>1. stack[g] = <<>>
    BY DEF Running, IInv, Shape
  <2>2. DOMAIN stack[g] = 1 .. 0
    BY <2>1, StackTypes DEF IInv
  <2>3. QED
    BY <2>2
<1>2. resolvedImports \subseteq Declared
  BY <1>1 DEF IInv, Accounted
<1>3. QED
  BY <1>2 DEF IInv, DeclarationsSound

LEMMA SaveKeeps ==
    ASSUME IInv, Save
    PROVE  IInv'
<1> USE DEF IInv
<1>1. /\ UNCHANGED <<stack, declarations, resolvedImports, classnames, status>>
      /\ written' = 0 /\ UNCHANGED files /\ lapses \subseteq lapses'
      /\ saving' = "yes" /\ (Running # {} => "early" \in lapses')
  BY DEF Save, walk, found
<1>2. Shape'
  BY <1>1 DEF Shape
<1>3. Running' = Running /\ Declared' = Declared
  BY <1>1 DEF Running, Declared
<1>4. {declarations[k] : k \in 1 .. 0} = {}
  OBVIOUS
<1>5. SaveSound'
  BY <1>1, <1>3, <1>4 DEF SaveSound, SavedTogether
<1>6. QED
  BY <1>1, <1>2, <1>3, <1>5, StacksSame, StacksSameOrdered

LEMMA WriteFailsKeeps ==
    ASSUME IInv, WriteFails
    PROVE  IInv'
<1> USE DEF IInv
<1>1. /\ UNCHANGED <<stack, declarations, resolvedImports, classnames, status, lapses>>
      /\ UNCHANGED <<written, files>> /\ saving' = "failed"
  BY DEF WriteFails, walk, found
<1>2. Shape'
  BY <1>1 DEF Shape
<1>3. Running' = Running /\ Declared' = Declared
  BY <1>1 DEF Running, Declared
<1>4. SaveSound'
  BY <1>1, <1>3 DEF SaveSound, SavedTogether
<1>5. QED
  BY <1>1, <1>2, <1>3, <1>4, StacksSame, StacksSameOrdered

LEMMA WriteFileKeeps ==
    ASSUME IInv, WriteFile
    PROVE  IInv'
<1> USE DEF IInv
<1>1. /\ UNCHANGED <<stack, declarations, resolvedImports, classnames, status, lapses>> /\ saving = "yes"
  BY DEF WriteFile, walk, found
<1>2. Running' = Running /\ Declared' = Declared
  BY <1>1 DEF Running, Declared
<1>3. declarations \in Seq(Classes) /\ Len(declarations) \in Nat /\ DOMAIN declarations = 1 .. Len(declarations)
  BY LenProperties DEF Shape
<1>4. CASE written = Len(declarations) /\ saving' = "done" /\ UNCHANGED <<written, files>>
  <2>1. Shape'
    BY <1>1, <1>4 DEF Shape
  <2>2. files = Declared
    BY <1>3, <1>4 DEF SaveSound, Declared, ToSet
  <2>3. SavedTogether'
    BY <1>1, <1>4, <2>2, Complete DEF SavedTogether, SaveSound, ImportsDeclared
  <2>4. SaveSound'
    BY <1>1, <1>2, <1>4, <2>3 DEF SaveSound
  <2>5. QED
    BY <1>1, <1>2, <2>1, <2>4, StacksSame, StacksSameOrdered
<1>5. CASE /\ written # Len(declarations)
           /\ written' = written + 1 /\ files' = files \union {declarations[written + 1]} /\ UNCHANGED saving
  <2>1. written + 1 <= Len(declarations) /\ written + 1 \in Nat
    <3>1. written \in Nat /\ written <= Len(declarations)
      BY DEF Shape
    <3>2. written # Len(declarations)
      BY <1>5
    <3>3. Len(declarations) \in Nat
      BY <1>3
    <3>4. QED
      BY <3>1, <3>2, <3>3
  <2>2. Shape'
    BY <1>1, <1>5, <2>1 DEF Shape
  <2>3. {declarations[k] : k \in 1 .. written + 1} \subseteq files' /\ files' \subseteq Declared
    <3>1. 1 .. written + 1 = (1 .. written) \union {written + 1}
      BY DEF Shape
    <3>2. declarations[written + 1] \in Declared
      <4>0. 1 <= written + 1
        BY DEF Shape
      <4>1. written + 1 \in DOMAIN declarations
        BY <1>3, <2>1, <4>0
      <4>2. QED
        BY <4>1 DEF Declared, ToSet
    <3>3. QED
      BY <1>5, <3>1, <3>2 DEF SaveSound
  <2>4. SavedTogether'
    BY <1>1, <1>5 DEF SavedTogether
  <2>5. SaveSound'
    BY <1>1, <1>2, <1>5, <2>3, <2>4 DEF SaveSound
  <2>6. QED
    BY <1>1, <1>2, <2>2, <2>5, StacksSame, StacksSameOrdered
<1>6. QED
  BY <1>4, <1>5 DEF WriteFile

\* What a generator that is done returns becomes a declaration.
LEMMA DeclareKeeps ==
    ASSUME IInv, NEW g \in Callers, Finish(g), Len(stack[g]) = 1
    PROVE  IInv'
<1> USE DEF IInv
<1> DEFINE f == Top(g)
           mine == Append(f.res, f.class)
<1>1. /\ stack[g] # <<>> /\ f.ready /\ f.follow = <<>>
      /\ stack' = [stack EXCEPT ![g] = <<>>] /\ declarations' = declarations \o mine
      /\ resolvedImports' = resolvedImports /\ status' = status /\ classnames' = classnames
      /\ UNCHANGED <<disk, lapses>>
  BY DEF Finish, Return
<1>2. /\ f \in Frames /\ 1 \in DOMAIN stack[g] /\ f = stack[g][1]
      /\ \A k \in DOMAIN stack[g] : k = 1
  BY <1>1, StackTypes
<1>3. Sound(f, resolvedImports) /\ Unique(f)
  BY <1>2 DEF StacksSound, Apart
<1>4. /\ mine \in Seq(Classes) /\ ToSet(mine) = Owned(f) /\ IsInjective(mine)
      /\ \A c \in ToSet(mine) : Named(c) \subseteq resolvedImports
  BY <1>1, <1>2, <1>3, ResultSound
<1> HIDE DEF f, mine
<1>5. stack \in [Callers -> Seq(Frames)] /\ declarations \in Seq(Classes)
  BY DEF Shape
<1>6. <<>> \in Seq(Frames) /\ Len(<<>>) = 0
  BY EmptySeq
<1>7. DOMAIN stack'[g] = {}
  <2>1. stack'[g] = <<>> /\ DOMAIN stack'[g] = 1 .. Len(stack'[g])
    BY <1>1, <1>5, <1>6, LenProperties
  <2>2. QED
    BY <1>6, <2>1
<1>8. \A h \in Callers : \A k \in DOMAIN stack'[h] : h # g /\ stack'[h] = stack[h]
  BY <1>1, <1>5, <1>7
<1>9. /\ declarations' \in Seq(Classes) /\ Len(declarations') >= Len(declarations)
      /\ \A k \in 1 .. Len(declarations) : declarations'[k] = declarations[k]
  BY <1>1, <1>4, <1>5, ConcatProperties, LenProperties
<1>10. Declared' = Declared \union Owned(f)
  BY <1>1, <1>4, <1>5, ToSetConcat DEF Declared
<1>11. Shape'
  <2>1. status[g] = "running"
    BY <1>1 DEF Shape
  <2>2. written' \in Nat /\ written' <= Len(declarations')
    <3>1. written \in Nat /\ written <= Len(declarations) /\ written' = written
      BY <1>1 DEF Shape, disk
    <3>2. Len(declarations) \in Nat /\ Len(declarations') \in Nat
      BY <1>5, <1>9, LenProperties
    <3>3. QED
      BY <1>9, <3>1, <3>2
  <2>3. stack' \in [Callers -> Seq(Frames)]
    BY <1>1, <1>5, <1>6
  <2>4. \A h \in Callers \ {g} : stack'[h] = stack[h]
    BY <1>1, <1>5
  <2>5. QED
    BY <1>1, <1>9, <2>1, <2>2, <2>3, <2>4 DEF Shape, disk
<1>12. StacksSound'
  BY <1>1, <1>8 DEF StacksSound
<1>13. DeclarationsSound'
  BY <1>1, <1>3, <1>4, <1>10 DEF DeclarationsSound, Sound
<1>14. Apart'
  <2>1. IsInjective(declarations')
    <3>1. Owned(f) \intersect Declared = {}
      BY <1>2 DEF Apart
    <3>2. QED
      BY <1>1, <1>4, <1>5, <3>1, InjectiveConcat DEF Apart, Declared
  <2>2. ASSUME NEW h \in Callers, NEW k \in DOMAIN stack'[h]
        PROVE  /\ Unique(stack'[h][k])
               /\ Owned(stack'[h][k]) \intersect Declared' = {}
               /\ \A i \in Callers : \A l \in DOMAIN stack'[i] :
                     i # h \/ l # k => Owned(stack'[h][k]) \intersect Owned(stack'[i][l]) = {}
    <3>1. h # g /\ stack'[h] = stack[h] /\ \A i \in Callers : \A l \in DOMAIN stack'[i] : stack'[i] = stack[i]
      BY <1>8
    <3>2. Owned(stack[h][k]) \intersect Declared = {} /\ Owned(stack[h][k]) \intersect Owned(f) = {}
      BY <1>2, <3>1 DEF Apart
    <3>3. QED
      BY <1>10, <3>1, <3>2 DEF Apart
  <2>3. QED
    BY <2>1, <2>2 DEF Apart
<1>15. Accounted'
  <2> SUFFICES ASSUME "failed" \notin lapses, NEW d \in resolvedImports, d \notin Declared, d \notin Owned(f)
               PROVE  \E h \in Callers : \E k \in DOMAIN stack'[h] : d \in Owned(stack'[h][k])
    BY <1>1, <1>10 DEF Accounted
  <2>1. PICK h \in Callers : \E k \in DOMAIN stack[h] : d \in Owned(stack[h][k])
    BY DEF Accounted
  <2>2. h # g
    BY <1>2, <2>1
  <2>3. stack'[h] = stack[h]
    BY <1>1, <1>5, <2>2
  <2>4. QED
    BY <2>1, <2>3
<1>16. Running' = Running
  BY <1>1 DEF Running
<1>17. SaveSound'
  BY <1>1, <1>9, <1>16, SaveKept
<1>18. Ordered'
  <2> SUFFICES ASSUME Quiet
               PROVE  /\ Follows(declarations', {})
                      /\ \A h \in Callers : \A j \in DOMAIN stack'[h] : Follows(stack'[h][j].res, Before(h, j)')
    BY <1>1, <1>16 DEF Ordered, Quiet
  <2>1. Before(g, 1) = Declared
    BY DEF Before
  <2>2. Follows(mine, Before(g, 1))
    BY <1>1, DoneFollows DEF f, mine, Finish
  <2>3. Follows(declarations', {})
    <3>1. Follows(mine, {} \union ToSet(declarations)) /\ Follows(declarations, {})
      BY <2>1, <2>2 DEF Declared, Ordered
    <3>2. QED
      BY <1>1, <1>4, <1>5, <3>1, FollowsConcat
  <2>4. ASSUME NEW h \in Callers, NEW j \in DOMAIN stack'[h]
        PROVE  Follows(stack'[h][j].res, Before(h, j)')
    <3>1. stack'[h] = stack[h]
      BY <1>8
    <3>2. Before(h, j) \subseteq Before(h, j)'
      BY <1>10, <3>1 DEF Before
    <3>3. Follows(stack[h][j].res, Before(h, j))
      BY <3>1 DEF Ordered
    <3>4. QED
      BY <3>1, <3>2, <3>3, FollowsMore
  <2>5. QED
    BY <2>3, <2>4
<1>19. QED
  BY <1>11, <1>12, <1>13, <1>14, <1>15, <1>17, <1>18

\* It is given to the generator that waits for it.
LEMMA GiveKeeps ==
    ASSUME IInv, NEW g \in Callers, Finish(g), Len(stack[g]) # 1
    PROVE  IInv'
<1> USE DEF IInv
<1> DEFINE f == Top(g)
           mine == Append(f.res, f.class)
           n == Len(stack[g])
           below == Last(Front(stack[g]))
           e == [below EXCEPT !.res = @ \o mine]
<1>1. /\ stack[g] # <<>> /\ f.ready /\ f.follow = <<>>
      /\ stack' = [stack EXCEPT ![g] = Append(Front(Front(stack[g])), e)] /\ declarations' = declarations
      /\ resolvedImports' = resolvedImports /\ status' = status /\ classnames' = classnames
      /\ UNCHANGED <<disk, lapses>>
  BY DEF Finish, Return, found
<1>2. /\ f \in Frames /\ n \in DOMAIN stack[g] /\ f = stack[g][n] /\ DOMAIN stack[g] = 1 .. n
      /\ n \in Nat /\ n > 1 /\ stack[g] \in Seq(Frames)
  <2>1. /\ stack[g] \in Seq(Frames) /\ n \in Nat /\ DOMAIN stack[g] = 1 .. n /\ n # 0
        /\ n \in DOMAIN stack[g] /\ f = stack[g][n] /\ stack[g][n] \in Frames
    BY <1>1, StackTypes
  <2> HIDE DEF f, n
  <2>2. n # 1
    BY DEF n
  <2>3. n > 1
    BY <2>1, <2>2
  <2>4. QED
    BY <2>1, <2>3
<1>3. /\ below = stack[g][n - 1] /\ below \in Frames /\ n - 1 \in DOMAIN stack[g]
  <2> DEFINE s == stack[g]
  <2>1. s \in Seq(Frames) /\ s # <<>> /\ Len(s) # 1
    BY <1>1, <1>2
  <2> HIDE DEF s
  <2>2. Last(Front(s)) = s[Len(s) - 1] /\ Last(Front(s)) \in Frames
    BY <1>2, <2>1, ReplaceBelow
  <2>3. QED
    BY <1>2, <2>2 DEF s
<1>4. /\ Sound(f, resolvedImports) /\ Unique(f) /\ Sound(below, resolvedImports) /\ Unique(below)
      /\ Owned(f) \intersect Owned(below) = {}
  <2>1. n - 1 # n
    BY <1>2
  <2>2. QED
    BY <1>2, <1>3, <2>1 DEF StacksSound, Apart
<1>5. /\ mine \in Seq(Classes) /\ ToSet(mine) = Owned(f) /\ IsInjective(mine)
      /\ \A c \in ToSet(mine) : Named(c) \subseteq resolvedImports
  BY <1>1, <1>2, <1>4, ResultSound
<1> HIDE DEF f, mine, n
<1>6. ToSet(mine) \subseteq resolvedImports
  BY <1>4, <1>5 DEF Sound
<1>7. /\ e \in Frames /\ e.class = below.class /\ Owned(e) = Owned(below) \union Owned(f)
      /\ Unique(e) /\ Sound(e, resolvedImports)
  <2> HIDE DEF below
  <2>1. ToSet(mine) \intersect Owned(below) = {}
    BY <1>4, <1>5
  <2>2. /\ below \in Frames /\ Sound(below, resolvedImports) /\ Unique(below)
        /\ mine \in Seq(Classes) /\ IsInjective(mine) /\ ToSet(mine) \subseteq resolvedImports
        /\ ToSet(mine) \intersect Owned(below) = {} /\ \A c \in ToSet(mine) : Named(c) \subseteq resolvedImports
    BY <1>3, <1>4, <1>5, <1>6, <2>1
  <2>3. /\ e \in Frames /\ e.class = below.class /\ Owned(e) = Owned(below) \union ToSet(mine)
        /\ Unique(e) /\ Sound(e, resolvedImports)
    BY <2>2, GivenSound
  <2> HIDE DEF e
  <2>4. QED
    BY <1>5, <2>3
<1> HIDE DEF e, below
<1>8. /\ Append(Front(Front(stack[g])), e) \in Seq(Frames)
      /\ Len(Append(Front(Front(stack[g])), e)) = n - 1
      /\ Append(Front(Front(stack[g])), e)[n - 1] = e
      /\ \A k \in 1 .. n - 2 : Append(Front(Front(stack[g])), e)[k] = stack[g][k]
  <2> DEFINE s == stack[g]
  <2>1. s \in Seq(Frames) /\ s # <<>> /\ Len(s) # 1 /\ n = Len(s)
    BY <1>1, <1>2 DEF n
  <2> HIDE DEF s
  <2>2. /\ Append(Front(Front(s)), e) \in Seq(Frames)
        /\ Len(Append(Front(Front(s)), e)) = Len(s) - 1
        /\ Append(Front(Front(s)), e)[Len(s) - 1] = e
        /\ \A k \in 1 .. Len(s) - 2 : Append(Front(Front(s)), e)[k] = s[k]
    <3>1. e \in Frames
      BY <1>7
    <3>2. ASSUME NEW x \in Frames, NEW t \in Seq(Frames), t # <<>>, Len(t) # 1
          PROVE  /\ Append(Front(Front(t)), x) \in Seq(Frames)
                 /\ Len(Append(Front(Front(t)), x)) = Len(t) - 1
                 /\ Append(Front(Front(t)), x)[Len(t) - 1] = x
                 /\ \A k \in 1 .. Len(t) - 2 : Append(Front(Front(t)), x)[k] = t[k]
      BY <3>2, ReplaceBelow
    <3>3. QED
      BY <2>1, <3>1, <3>2
  <2>3. QED
    BY <2>1, <2>2 DEF s
<1>9. /\ stack' \in [Callers -> Seq(Frames)]
      /\ \A h \in Callers \ {g} : stack'[h] = stack[h]
      /\ DOMAIN stack'[g] = 1 .. n - 1
      /\ stack'[g][n - 1] = e
      /\ \A k \in 1 .. n - 2 : stack'[g][k] = stack[g][k]
  <2>1. stack \in [Callers -> Seq(Frames)]
    BY DEF Shape
  <2>2. stack'[g] = Append(Front(Front(stack[g])), e)
    BY <1>1, <2>1
  <2>3. QED
    BY <1>1, <1>8, <2>1, <2>2, LenProperties
<1>10. \A h \in Callers : \A k \in DOMAIN stack'[h] :
          /\ k \in DOMAIN stack[h]
          /\ IF h = g /\ k = n - 1 THEN stack'[h][k] = e ELSE stack'[h][k] = stack[h][k]
          /\ ~(h = g /\ k = n)
  BY <1>2, <1>9
<1>11. \A h \in Callers : \A k \in DOMAIN stack'[h] : stack'[h][k].class = stack[h][k].class
  BY <1>3, <1>7, <1>10
<1>12. Shape'
  <2>1. status[g] = "running"
    BY <1>1 DEF Shape
  <2>2. QED
    BY <1>1, <1>9, <2>1 DEF Shape, disk
<1>13. StacksSound'
  <2> SUFFICES ASSUME NEW h \in Callers, NEW k \in DOMAIN stack'[h]
               PROVE  /\ Sound(stack'[h][k], resolvedImports)
                      /\ k > 1 => stack'[h][k].class \in Named(stack'[h][k - 1].class)
    BY <1>1 DEF StacksSound
  <2>1. Sound(stack'[h][k], resolvedImports)
    BY <1>7, <1>10 DEF StacksSound
  <2>2. ASSUME k > 1 PROVE stack'[h][k].class \in Named(stack'[h][k - 1].class)
    <3>1. k - 1 \in DOMAIN stack'[h]
      <4>1. DOMAIN stack[h] = 1 .. Len(stack[h]) /\ Len(stack[h]) \in Nat
        BY StackTypes
      <4>2. CASE h = g
        BY <1>2, <1>9, <2>2, <4>2
      <4>3. CASE h # g
        BY <1>9, <2>2, <4>1, <4>3
      <4>4. QED
        BY <4>2, <4>3
    <3>2. stack[h][k].class \in Named(stack[h][k - 1].class)
      BY <1>10, <2>2 DEF StacksSound
    <3>3. QED
      BY <1>11, <3>1, <3>2
  <2>3. QED
    BY <2>1, <2>2
<1>14. Declared' = Declared
  BY <1>1 DEF Declared
<1>15. DeclarationsSound'
  BY <1>1, <1>14 DEF DeclarationsSound
\* The classes the two had are the classes one has.
<1>16. \A h \in Callers : \A k \in DOMAIN stack'[h] :
          /\ Unique(stack'[h][k])
          /\ Owned(stack'[h][k]) = Owned(stack[h][k]) \union (IF h = g /\ k = n - 1 THEN Owned(stack[g][n]) ELSE {})
  BY <1>2, <1>3, <1>7, <1>10 DEF Apart
<1>17. Apart'
  <2>1. IsInjective(declarations')
    BY <1>1 DEF Apart
  <2>2. ASSUME NEW h \in Callers, NEW k \in DOMAIN stack'[h]
        PROVE  Owned(stack'[h][k]) \intersect Declared = {}
    <3>1. Owned(stack[h][k]) \intersect Declared = {} /\ Owned(stack[g][n]) \intersect Declared = {}
      BY <1>2, <1>10 DEF Apart
    <3>2. QED
      BY <1>16, <3>1
  <2>3. ASSUME NEW h \in Callers, NEW k \in DOMAIN stack'[h],
               NEW i \in Callers, NEW l \in DOMAIN stack'[i], i # h \/ l # k
        PROVE  Owned(stack'[h][k]) \intersect Owned(stack'[i][l]) = {}
    <3>1. k \in DOMAIN stack[h] /\ l \in DOMAIN stack[i] /\ ~(h = g /\ k = n) /\ ~(i = g /\ l = n)
      BY <1>10
    <3>2. /\ Owned(stack[h][k]) \intersect Owned(stack[i][l]) = {}
          /\ Owned(stack[h][k]) \intersect Owned(stack[g][n]) = {}
          /\ Owned(stack[i][l]) \intersect Owned(stack[g][n]) = {}
      BY <1>2, <2>3, <3>1 DEF Apart
    <3>3. Owned(stack'[h][k]) =
             Owned(stack[h][k]) \union (IF h = g /\ k = n - 1 THEN Owned(stack[g][n]) ELSE {})
      BY <1>16, <2>3
    <3>4. Owned(stack'[i][l]) =
             Owned(stack[i][l]) \union (IF i = g /\ l = n - 1 THEN Owned(stack[g][n]) ELSE {})
      BY <1>16, <2>3
    <3>5. ~(h = g /\ k = n - 1) \/ ~(i = g /\ l = n - 1)
      BY <2>3
    <3>6. QED
      BY <3>2, <3>3, <3>4, <3>5
  <2>4. QED
    BY <1>14, <1>16, <2>1, <2>2, <2>3 DEF Apart
<1>18. Accounted'
  <2> SUFFICES ASSUME "failed" \notin lapses, NEW d \in resolvedImports, d \notin Declared
               PROVE  \E h \in Callers : \E k \in DOMAIN stack'[h] : d \in Owned(stack'[h][k])
    BY <1>1, <1>14 DEF Accounted
  <2>1. PICK h \in Callers : \E k \in DOMAIN stack[h] : d \in Owned(stack[h][k])
    BY DEF Accounted
  <2>2. PICK k \in DOMAIN stack[h] : d \in Owned(stack[h][k])
    BY <2>1
  <2>3. CASE h = g /\ k = n
    <3>1. n - 1 \in DOMAIN stack'[g]
      BY <1>2, <1>9
    <3>2. QED
      BY <1>16, <2>2, <2>3, <3>1
  <2>4. CASE ~(h = g /\ k = n)
    <3>1. k \in DOMAIN stack'[h]
      BY <1>2, <1>9, <2>4
    <3>2. QED
      BY <1>16, <2>2, <3>1
  <2>5. QED
    BY <2>3, <2>4
<1>19. Running' = Running
  BY <1>1 DEF Running
<1>20. SaveSound'
  BY <1>1, <1>19, SaveKept
<1>21. Ordered'
  <2> SUFFICES ASSUME Quiet, NEW h \in Callers, NEW j \in DOMAIN stack'[h]
               PROVE  Follows(stack'[h][j].res, Before(h, j)')
    BY <1>1, <1>19 DEF Ordered, Quiet
  <2>1. j \in DOMAIN stack[h] /\ j \in Nat /\ j >= 1 /\ Follows(stack[h][j].res, Before(h, j))
    BY <1>10, StackTypes DEF Ordered
  <2>2. Before(h, j)' = Before(h, j)
    <3>1. \A i \in 1 .. j - 1 : stack'[h][i] = stack[h][i]
      BY <1>2, <1>9, <2>1
    <3>2. QED
      BY <1>14, <3>1 DEF Before
  <2>3. CASE ~(h = g /\ j = n - 1)
    BY <1>10, <2>1, <2>2, <2>3
  <2>4. CASE h = g /\ j = n - 1
    <3>1. e.res = below.res \o mine /\ below.res \in Seq(Classes)
      BY <1>3 DEF e, Frames
    <3>2. Follows(mine, Before(g, n))
      BY <1>1, DoneFollows DEF f, mine, n, Finish
    <3>3. Before(g, n) = Before(g, n - 1) \union ToSet(below.res)
      <4>1. 1 .. n - 1 = (1 .. (n - 1) - 1) \union {n - 1}
        BY <1>2
      <4>2. QED
        BY <1>3, <4>1 DEF Before
    <3>4. Follows(below.res, Before(g, n - 1))
      BY <1>3, <2>1, <2>4
    <3>5. Follows(e.res, Before(g, n - 1))
      BY <1>5, <3>1, <3>2, <3>3, <3>4, FollowsConcat
    <3>6. QED
      BY <1>9, <2>2, <2>4, <3>5
  <2>5. QED
    BY <2>3, <2>4
<1>22. QED
  BY <1>12, <1>13, <1>15, <1>17, <1>18, <1>20, <1>21

LEMMA NextIInv == IInv /\ [Next]_vars => IInv'
<1> SUFFICES ASSUME IInv, [Next]_vars PROVE IInv'
  OBVIOUS
<1>1. ASSUME NEW g \in Callers, Step(g) PROVE IInv'
  <2>1. CASE Skip(g)
    BY <2>1, SkipKeeps
  <2>2. CASE Enter(g)
    BY <2>2, EnterKeeps
  <2>3. CASE ImportFails(g)
    BY <2>3, ImportFailsKeeps
  <2>4. CASE Convert(g)
    BY <2>4, ConvertKeeps
  <2>5. CASE Finish(g)
    BY <2>5, DeclareKeeps, GiveKeeps
  <2>6. CASE Resolve(g)
    BY <2>6, ResolveKeeps
  <2>7. QED
    BY <1>1, <2>1, <2>2, <2>3, <2>4, <2>5, <2>6 DEF Step
<1>2. ASSUME NEW g \in Callers, NEW list \in Requests, Generate(g, list) PROVE IInv'
  BY <1>2, GenerateKeeps
<1>3. CASE Save
  BY <1>3, SaveKeeps
<1>4. CASE WriteFile
  BY <1>4, WriteFileKeeps
<1>5. CASE WriteFails
  BY <1>5, WriteFailsKeeps
<1>6. CASE UNCHANGED vars
  <2>1. /\ UNCHANGED <<stack, declarations, resolvedImports, classnames, status>>
        /\ UNCHANGED <<disk, lapses>>
    BY <1>6 DEF vars, walk, found
  <2>2. Shape'
    BY <2>1 DEF IInv, Shape, disk
  <2>3. Running' = Running
    BY <2>1 DEF Running
  <2>4. SaveSound'
    BY <2>1, <2>3, SaveKept DEF IInv
  <2>5. QED
    BY <2>1, <2>2, <2>3, <2>4, StacksSame, StacksSameOrdered DEF IInv
<1>7. QED
  BY <1>1, <1>2, <1>3, <1>4, <1>5, <1>6 DEF Next

LEMMA Invariance == Spec => []IInv
  BY InitIInv, NextIInv, PTL DEF Spec

-----------------------------------------------------------------------------
(***************************************************************************)
(* Theorems                                                                *)
(***************************************************************************)
\* Every variable keeps its type; generators wait for generators of classes that
\* theirs mention.
THEOREM TypeCorrect == Spec => []TypeOK
<1>1. IInv => TypeOK
  <2> SUFFICES ASSUME IInv PROVE TypeOK
    OBVIOUS
  <2>1. \A g \in Callers : \A k \in DOMAIN stack[g] : stack[g][k].class \in resolvedImports
    BY DEF IInv, StacksSound, Sound, Owned
  <2>2. written \in 0 .. Len(declarations)
    <3>1. Len(declarations) \in Nat
      BY LenProperties DEF IInv, Shape
    <3>2. QED
      BY <3>1 DEF IInv, Shape
  <2>3. QED
    BY <2>1, <2>2 DEF IInv, Shape, StacksSound, TypeOK
<1>2. QED
  BY <1>1, Invariance, PTL

\* However calls of generate overlap, a class is declared once.
THEOREM ClassesAreDeclaredOnce == Spec => []DeclaredOnce
<1>1. IInv => DeclaredOnce
  <2> SUFFICES ASSUME IInv PROVE DeclaredOnce
    OBVIOUS
  <2>1. ASSUME NEW g \in Callers, NEW k \in DOMAIN stack[g]
        PROVE  /\ IsInjective(Append(Results(g)[k], stack[g][k].class))
               /\ ToSet(Append(Results(g)[k], stack[g][k].class)) = Owned(stack[g][k])
    <3>1. Results(g)[k] = stack[g][k].res
      BY DEF Results
    <3>2. stack[g][k] \in Frames /\ Unique(stack[g][k])
      BY StackTypes DEF IInv, Apart
    <3>3. QED
      BY <3>1, <3>2, OwnedInOrder
  <2>2. ASSUME NEW g \in Callers, NEW k \in DOMAIN stack[g], NEW h \in Callers, NEW l \in DOMAIN stack[h],
               <<h, l>> # <<g, k>>
        PROVE  Owned(stack[g][k]) \intersect Owned(stack[h][l]) = {}
    BY <2>2 DEF IInv, Apart
  <2>3. IsInjective(declarations)
        /\ \A g \in Callers : \A k \in DOMAIN stack[g] : Owned(stack[g][k]) \intersect Declared = {}
    BY DEF IInv, Apart
  <2>4. ASSUME NEW g \in Callers, NEW k \in DOMAIN stack[g]
        PROVE  LET mine == Append(Results(g)[k], stack[g][k].class) IN
               /\ IsInjective(mine)
               /\ ToSet(mine) \intersect Declared = {}
               /\ \A h \in Callers : \A l \in DOMAIN stack[h] :
                     <<h, l>> # <<g, k>> =>
                         ToSet(mine) \intersect ToSet(Append(Results(h)[l], stack[h][l].class)) = {}
    <3> DEFINE own(h, l) == ToSet(Append(Results(h)[l], stack[h][l].class))
    <3>1. own(g, k) = Owned(stack[g][k]) /\ IsInjective(Append(Results(g)[k], stack[g][k].class))
      BY <2>1
    <3>2. Owned(stack[g][k]) \intersect Declared = {}
      BY <2>3
    <3>3. ASSUME NEW h \in Callers, NEW l \in DOMAIN stack[h], <<h, l>> # <<g, k>>
          PROVE  own(g, k) \intersect own(h, l) = {}
      <4>1. own(h, l) = Owned(stack[h][l])
        BY <2>1
      <4>2. Owned(stack[g][k]) \intersect Owned(stack[h][l]) = {}
        BY <2>2, <3>3
      <4> HIDE DEF own
      <4>3. QED
        BY <3>1, <4>1, <4>2
    <3>4. QED
      BY <3>1, <3>2, <3>3
  <2>5. QED
    BY <2>3, <2>4 DEF DeclaredOnce
<1>2. QED
  BY <1>1, Invariance, PTL

\* As long as calls neither overlap nor fail, a class is declared after the classes
\* it mentions, except for those that reach it.
THEOREM DependenciesComeFirst == Spec => []DependenciesFirst
<1>1. IInv => DependenciesFirst
  <2> SUFFICES ASSUME IInv, Quiet, NEW k \in DOMAIN declarations, NEW d \in Named(declarations[k]),
                      ~Reaches(d, declarations[k])
               PROVE  \E l \in 1 .. k - 1 : declarations[l] = d
    BY DEF DependenciesFirst, Quiet
  <2>1. QED
    BY DEF IInv, Ordered, Follows
<1>2. QED
  BY <1>1, Invariance, PTL

\* Once the calls have ended, and none has failed, every class that a definition
\* imports has a definition.
THEOREM ImportsAreDeclared == Spec => []ImportsDeclared
  BY Complete, Invariance, PTL

\* Files that were saved while no call was running and after none had failed
\* import only files that were saved.
THEOREM FilesAreComplete == Spec => []SavedTogether
<1>1. IInv => SavedTogether
  BY DEF IInv, SaveSound
<1>2. QED
  BY <1>1, Invariance, PTL
=============================================================================
