--------------------------- MODULE JavaCalls_proofs --------------------------
(***************************************************************************)
(* Proofs about JavaCalls, for any classes, types and values.              *)
(***************************************************************************)
EXTENDS Conversion_proofs, WellFoundedInduction

-----------------------------------------------------------------------------
(***************************************************************************)
(* Members                                                                 *)
(***************************************************************************)
\* The function of the name p that a method n has.
Form(p, n) == <<IF p = n THEN "async" ELSE "sync", n>>

\* What an object has of the name p: the form of a method, a field, or the
\* function instanceOf when the class has no member of that name.
Entry(p) ==
    \/ \E n \in DOMAIN class.methods : p \in Names(n) /\ table[p] = Form(p, n)
    \/ p \in DOMAIN class.fields /\ table[p] = <<"field", p>>
    \/ /\ table[p] = <<"instanceOf">>
       /\ p \notin DOMAIN class.fields
       /\ \A n \in DOMAIN class.methods : p \notin Names(n)

\* The inductive invariant of the object: what is attached stays reachable.
ObjectSound ==
    /\ class \in Declarations
    /\ pc # "attaching" => todo = {}
    /\ \A p \in DOMAIN table : Entry(p)
    /\ \A n \in DOMAIN class.methods \ todo : Names(n) \subseteq DOMAIN table
    /\ pc # "attaching" => \A n \in DOMAIN class.fields : n \in DOMAIN table /\ table[n] = <<"field", n>>

LEMMA ObjectInit == Init => ObjectSound
  BY DEF Init, ObjectSound

\* The object does not change once it is built.
LEMMA ObjectKept ==
    ASSUME ObjectSound, UNCHANGED object, pc' # "attaching", pc # "attaching"
    PROVE  ObjectSound'
  BY DEF ObjectSound, object, Entry, Form, Names, Sync

LEMMA AttachMethodKeeps ==
    ASSUME ObjectSound, NEW n \in DOMAIN class.methods, AttachMethod(n)
    PROVE  ObjectSound'
<1>1. /\ pc = "attaching" /\ pc' = pc /\ class' = class /\ todo' = todo \ {n}
      /\ table' = [p \in DOMAIN table \union Names(n) |-> IF p \in Names(n) THEN Form(p, n) ELSE table[p]]
  BY DEF AttachMethod, Attach, Form
<1>2. ASSUME NEW p \in DOMAIN table' PROVE Entry(p)'
  <2>1. CASE p \in Names(n)
    <3>1. table'[p] = Form(p, n)
      BY <1>1, <2>1
    <3>2. QED
      BY <1>1, <2>1, <3>1 DEF Entry, Names, Sync, Form
  <2>2. CASE p \notin Names(n)
    <3>1. p \in DOMAIN table /\ table'[p] = table[p]
      BY <1>1, <2>2
    <3>2. QED
      BY <1>1, <3>1 DEF ObjectSound, Entry, Names, Sync, Form
  <2>3. QED
    BY <2>1, <2>2
<1>3. ASSUME NEW m \in DOMAIN class'.methods \ todo' PROVE Names(m)' \subseteq DOMAIN table'
  BY <1>1, <1>3 DEF ObjectSound, Names, Sync
<1>4. QED
  BY <1>1, <1>2, <1>3 DEF ObjectSound

LEMMA AttachFieldsKeeps ==
    ASSUME ObjectSound, AttachFields
    PROVE  ObjectSound'
<1>1. /\ class' = class /\ todo = {} /\ todo' = {}
      /\ table' = [p \in DOMAIN table \union DOMAIN class.fields |->
                       IF p \in DOMAIN class.fields THEN <<"field", p>> ELSE table[p]]
  BY DEF AttachFields, Attach
<1>2. ASSUME NEW p \in DOMAIN table' PROVE Entry(p)'
  <2>1. CASE p \in DOMAIN class.fields
    BY <1>1, <2>1 DEF Entry
  <2>2. CASE p \notin DOMAIN class.fields
    <3>1. p \in DOMAIN table /\ table'[p] = table[p]
      BY <1>1, <2>2
    <3>2. QED
      BY <1>1, <3>1 DEF ObjectSound, Entry, Names, Sync, Form
  <2>3. QED
    BY <2>1, <2>2
<1>3. QED
  BY <1>1, <1>2 DEF ObjectSound, Names, Sync

LEMMA AttachInstanceOfKeeps ==
    ASSUME ObjectSound, AttachInstanceOf
    PROVE  ObjectSound'
<1>1. pc = "attached" /\ pc' # "attaching" /\ class' = class /\ todo' = todo /\ todo = {}
  BY DEF AttachInstanceOf, ObjectSound
<1>2. CASE table' = table
  BY <1>1, <1>2, ObjectKept DEF object
<1>3. CASE /\ InstanceOf \notin DOMAIN table
           /\ table' = [p \in DOMAIN table \union {InstanceOf} |->
                            IF p \in {InstanceOf} THEN <<"instanceOf">> ELSE table[p]]
  <2>1. ASSUME NEW p \in DOMAIN table' PROVE Entry(p)'
    <3>1. CASE p = InstanceOf
      <4>1. p \notin DOMAIN class.fields /\ \A n \in DOMAIN class.methods : p \notin Names(n)
        BY <1>1, <1>3, <3>1 DEF ObjectSound
      <4>2. table'[p] = <<"instanceOf">>
        BY <1>3, <3>1
      <4>3. QED
        BY <1>1, <4>1, <4>2 DEF Entry, Names, Sync
    <3>2. CASE p # InstanceOf
      <4>1. p \in DOMAIN table /\ table'[p] = table[p]
        BY <1>3, <3>2
      <4>2. QED
        BY <1>1, <4>1 DEF ObjectSound, Entry, Names, Sync, Form
    <3>3. QED
      BY <3>1, <3>2
  <2>2. \A n \in DOMAIN class.fields : n \in DOMAIN table' /\ table'[n] = <<"field", n>>
    BY <1>1, <1>3 DEF ObjectSound
  <2>3. QED
    BY <1>1, <1>3, <2>1, <2>2 DEF ObjectSound, Names, Sync
<1>4. QED
  BY <1>2, <1>3 DEF AttachInstanceOf, Attach

LEMMA ObjectNext == ObjectSound /\ [Next]_vars => ObjectSound'
<1> SUFFICES ASSUME ObjectSound, [Next]_vars PROVE ObjectSound'
  OBVIOUS
<1>1. CASE \E n \in DOMAIN class.methods : AttachMethod(n)
  BY <1>1, AttachMethodKeeps
<1>2. CASE AttachFields
  BY <1>2, AttachFieldsKeeps
<1>3. CASE AttachInstanceOf
  BY <1>3, AttachInstanceOfKeeps
<1>4. ASSUME NEW p \in Used({"sync", "async"}), PassOn(p) \/ \E values \in Arguments : Call(p, values)
      PROVE  ObjectSound'
  BY <1>4, ObjectKept DEF PassOn, Call, Used
<1>5. ASSUME NEW p \in Used({"field"}), NEW values \in Arguments, UseField(p, values)
      PROVE  ObjectSound'
  BY <1>5, ObjectKept DEF UseField, Used
<1>6. CASE FindMatching \/ FindMatchingObjects
  BY <1>6, ObjectKept DEF FindMatching, FindMatchingObjects, Choose, member, object
<1>7. CASE ConvertArguments \/ Invoke \/ InvokeFails
  BY <1>7, ObjectKept DEF ConvertArguments, Invoke, InvokeFails, member, object
<1>8. CASE SetField \/ SetFinalField \/ GetField
  BY <1>8, ObjectKept DEF SetField, SetFinalField, GetField, member, object
<1>9. CASE UNCHANGED vars
  BY <1>9 DEF ObjectSound, vars, member, object, Entry, Form, Names, Sync
<1>10. QED
  BY <1>1, <1>2, <1>3, <1>4, <1>5, <1>6, <1>7, <1>8, <1>9 DEF Next

LEMMA ObjectStays == Spec => []ObjectSound
  BY ObjectInit, ObjectNext, PTL DEF Spec

\* The method whose form was found is one of the class.
LEMMA FormsAreMethods ==
    ASSUME ObjectSound, NEW p \in DOMAIN table, table[p][1] \in {"sync", "async"}
    PROVE  table[p][2] \in DOMAIN class.methods
  BY DEF ObjectSound, Entry, Form

\* Every field is found under its name, and every method under both of its
\* names unless a field or another method has that one.
THEOREM MembersAreFound == Spec => []MembersFound
<1>1. ObjectSound => MembersFound
  <2> SUFFICES ASSUME ObjectSound, pc # "attaching", NEW n \in DOMAIN class.methods, NEW p \in Names(n)
               PROVE  /\ p \in DOMAIN table
                      /\ \/ table[p] = Form(p, n)
                         \/ p \in DOMAIN class.fields
                         \/ \E m \in DOMAIN class.methods \ {n} : p \in Names(m) /\ table[p] = Form(p, m)
    BY DEF ObjectSound, MembersFound, Form
  <2>1. p \in DOMAIN table
    BY DEF ObjectSound
  <2>2. QED
    BY <2>1 DEF ObjectSound, Entry
<1>2. QED
  BY <1>1, ObjectStays, PTL

-----------------------------------------------------------------------------
(***************************************************************************)
(* Overloads                                                               *)
(***************************************************************************)
\* A set of positions that is not empty has a first one.
LEMMA FirstIsElement ==
    ASSUME NEW S, S \subseteq Nat, S # {}
    PROVE  First(S) \in S /\ \A k \in S : First(S) <= k
<1>1. PICK i \in S : \A k \in S : ~(<<k, i>> \in OpToRel(<, Nat))
  BY NatLessThanWellFounded, WFMin
<1>2. \A k \in S : ~(k < i)
  BY <1>1 DEF OpToRel
<1>3. \A k \in S : i <= k
  BY <1>2
<1>4. QED
  BY <1>3 DEF First

\* The inductive invariant of the choice: what is known before it is made,
\* between its two passes and afterwards.
Unused    == {"attaching", "attached", "built"}
Undecided == Unused \union {"called", "again"}
ChoiceSound ==
    /\ pc \in Undecided => chosen = None
    /\ pc \in Unused => overloads = None /\ field = None
    /\ overloads # None => field = None /\ DOMAIN overloads \subseteq Nat
    /\ pc = "again" => overloads # None /\ Candidates(FALSE) = {}
    /\ SpecificFirst

LEMMA ChoiceInit == Init => ChoiceSound
  BY DEF Init, ChoiceSound, Undecided, Unused, SpecificFirst

LEMMA CandidatesStay ==
    ASSUME UNCHANGED <<overloads, args>>, NEW allow
    PROVE  Candidates(allow)' = Candidates(allow)
  BY DEF Candidates, Accepts

\* A step that neither makes nor gives up a choice.
LEMMA ChoiceKept ==
    ASSUME ChoiceSound, UNCHANGED <<overloads, field, args, chosen>>,
           pc' # "again", pc' = "refused" => overloads = None,
           pc' \in Undecided => pc \in Undecided, pc' \in Unused => pc \in Unused
    PROVE  ChoiceSound'
<1>1. Candidates(FALSE)' = Candidates(FALSE)
  BY CandidatesStay
<1>2. SpecificFirst'
  BY <1>1 DEF ChoiceSound, SpecificFirst
<1>3. QED
  BY <1>2 DEF ChoiceSound

\* A step that begins a use.
LEMMA ChoiceBegins ==
    ASSUME ChoiceSound, pc = "built", pc' = "called", chosen' = chosen,
           \/ field' = field /\ DOMAIN overloads' \subseteq Nat
           \/ overloads' = overloads
    PROVE  ChoiceSound'
<1>1. chosen' = None
  BY DEF ChoiceSound, Undecided, Unused
<1>2. SpecificFirst'
  BY <1>1 DEF SpecificFirst
<1>3. overloads' # None => field' = None /\ DOMAIN overloads' \subseteq Nat
  BY DEF ChoiceSound, Unused
<1>4. QED
  BY <1>1, <1>2, <1>3 DEF ChoiceSound, Unused

LEMMA MethodsAreLists ==
    ASSUME ObjectSound, NEW p \in Used({"sync", "async"})
    PROVE  DOMAIN Method(p) \subseteq Nat
<1>1. table[p][2] \in DOMAIN class.methods
  BY FormsAreMethods DEF Used
<1>2. class.methods[table[p][2]] \in Seq(Seq(Types))
  BY <1>1, DeclarationsAssumption DEF ObjectSound
<1>3. QED
  BY <1>2 DEF Method

LEMMA FindMatchingKeeps ==
    ASSUME ChoiceSound, FindMatching
    PROVE  ChoiceSound'
<1>1. /\ pc = "called" /\ overloads # None /\ chosen = None /\ DOMAIN overloads \subseteq Nat
      /\ UNCHANGED <<overloads, field, args>>
  BY DEF FindMatching, Choose, ChoiceSound, Undecided, Unused, member
<1>2. Candidates(FALSE)' = Candidates(FALSE)
  BY <1>1, CandidatesStay
<1>3. CASE Choose(FALSE)
  <2>1. Candidates(FALSE) \subseteq Nat
    BY <1>1 DEF Candidates
  <2>2. chosen' = overloads[First(Candidates(FALSE))] /\ First(Candidates(FALSE)) \in Candidates(FALSE)
    BY <1>3, <2>1, FirstIsElement DEF Choose
  <2>3. pc' = "chosen"
    BY <1>3 DEF Choose
  <2>4. SpecificFirst'
    BY <1>1, <1>2, <2>2, <2>3 DEF SpecificFirst
  <2>5. QED
    BY <1>1, <2>3, <2>4 DEF ChoiceSound, Undecided, Unused
<1>4. CASE Candidates(FALSE) = {} /\ pc' = "again" /\ UNCHANGED chosen
  <2>1. SpecificFirst'
    BY <1>1, <1>4 DEF SpecificFirst
  <2>2. QED
    BY <1>1, <1>2, <1>4, <2>1 DEF ChoiceSound, Undecided, Unused
<1>5. QED
  BY <1>3, <1>4 DEF FindMatching, chosens

LEMMA FindMatchingObjectsKeeps ==
    ASSUME ChoiceSound, FindMatchingObjects
    PROVE  ChoiceSound'
<1>1. /\ pc = "again" /\ overloads # None /\ chosen = None /\ DOMAIN overloads \subseteq Nat
      /\ Candidates(FALSE) = {} /\ field = None /\ UNCHANGED <<overloads, field, args>>
  BY DEF FindMatchingObjects, Choose, ChoiceSound, Undecided, Unused, member
<1>2. Candidates(FALSE)' = Candidates(FALSE) /\ Candidates(TRUE)' = Candidates(TRUE)
  BY <1>1, CandidatesStay
<1>3. CASE Choose(TRUE)
  <2>1. pc' = "chosen"
    BY <1>3 DEF Choose
  <2>2. SpecificFirst'
    BY <1>1, <1>2, <2>1 DEF SpecificFirst
  <2>3. QED
    BY <1>1, <2>1, <2>2 DEF ChoiceSound, Undecided, Unused
<1>4. CASE Candidates(TRUE) = {} /\ pc' = "refused" /\ UNCHANGED chosen
  <2>1. SpecificFirst'
    BY <1>1, <1>2, <1>4 DEF SpecificFirst
  <2>2. QED
    BY <1>1, <1>4, <2>1 DEF ChoiceSound, Undecided, Unused
<1>5. QED
  BY <1>3, <1>4 DEF FindMatchingObjects, chosens

LEMMA ChoiceNext == ObjectSound /\ ChoiceSound /\ [Next]_vars => ChoiceSound'
<1> SUFFICES ASSUME ObjectSound, ChoiceSound, [Next]_vars PROVE ChoiceSound'
  OBVIOUS
<1>1. CASE \E n \in DOMAIN class.methods : AttachMethod(n)
  <2>1. pc' = "attaching" /\ pc = "attaching" /\ UNCHANGED use
    BY <1>1 DEF AttachMethod
  <2>2. QED
    BY <2>1, ChoiceKept DEF use, chosens, Unused, Undecided
<1>2. CASE AttachFields \/ AttachInstanceOf
  <2>1. pc' \in {"attached", "built", "failed"} /\ pc \in {"attaching", "attached"} /\ UNCHANGED use
    BY <1>2 DEF AttachFields, AttachInstanceOf
  <2>2. QED
    BY <2>1, ChoiceKept DEF use, chosens, Unused, Undecided
<1>3. ASSUME NEW p \in Used({"sync", "async"}), PassOn(p) \/ \E values \in Arguments : Call(p, values)
      PROVE  ChoiceSound'
  <2>1. pc = "built" /\ pc' = "called" /\ UNCHANGED <<chosen, field>> /\ overloads' = Method(p)
    BY <1>3 DEF PassOn, Call, Used, chosens
  <2>2. QED
    BY <2>1, MethodsAreLists, ChoiceBegins
<1>4. ASSUME NEW p \in Used({"field"}), NEW values \in Arguments, UseField(p, values)
      PROVE  ChoiceSound'
  <2>1. pc = "built" /\ pc' = "called" /\ UNCHANGED <<chosen, overloads>>
    BY <1>4 DEF UseField, Used, chosens
  <2>2. QED
    BY <2>1, ChoiceBegins
<1>5. CASE FindMatching
  BY <1>5, FindMatchingKeeps
<1>6. CASE FindMatchingObjects
  BY <1>6, FindMatchingObjectsKeeps
<1>7. CASE ConvertArguments \/ Invoke \/ InvokeFails
  <2>1. pc' \in {"failed", "converted", "returned", "thrown"} /\ UNCHANGED <<member, chosen>>
    BY <1>7 DEF ConvertArguments, Invoke, InvokeFails, chosens
  <2>2. QED
    BY <2>1, ChoiceKept DEF member, Unused, Undecided
<1>8. CASE SetField \/ SetFinalField \/ GetField
  <2>1. pc' \in {"failed", "stored", "refused", "read"} /\ field # None /\ UNCHANGED <<member, chosen>>
    BY <1>8 DEF SetField, SetFinalField, GetField, chosens
  <2>2. overloads = None
    BY <2>1 DEF ChoiceSound
  <2>3. QED
    BY <2>1, <2>2, ChoiceKept DEF member, Unused, Undecided
<1>9. CASE UNCHANGED vars
  <2>1. UNCHANGED <<pc, overloads, field, args, chosen>>
    BY <1>9 DEF vars, member, chosens
  <2>2. Candidates(FALSE)' = Candidates(FALSE) /\ Candidates(TRUE)' = Candidates(TRUE)
    BY <2>1, CandidatesStay
  <2>3. SpecificFirst'
    BY <2>1, <2>2 DEF ChoiceSound, SpecificFirst
  <2>4. QED
    BY <2>1, <2>2, <2>3 DEF ChoiceSound
<1>10. QED
  BY <1>1, <1>2, <1>3, <1>4, <1>5, <1>6, <1>7, <1>8, <1>9 DEF Next

\* An overload that takes the arguments as they are is preferred to one that
\* takes them as objects, and a call is refused only when none takes them.
THEOREM SpecificComesFirst == Spec => []SpecificFirst
<1>1. ChoiceSound => SpecificFirst
  BY DEF ChoiceSound
<1>2. QED
  BY <1>1, ChoiceInit, ChoiceNext, ObjectStays, PTL DEF Spec

-----------------------------------------------------------------------------
(***************************************************************************)
(* Values                                                                  *)
(***************************************************************************)
Ended == {"converted", "returned", "thrown"}

\* An overload has been chosen.
Decided == pc \in {"chosen"} \union Ended \/ (pc = "failed" /\ overloads # None)

Converted == [i \in DOMAIN chosen |-> ToJava(chosen[i], args[i])]

\* What is used, and with which values.
InputsSound ==
    /\ overloads # None => overloads \in Seq(Seq(Types)) /\ args \in Seq(JsValues)
    /\ field # None => /\ field.type \in Types /\ args \in Seq(JsValues) /\ Len(args) = 1
                       /\ Sound(field.type, content)
                       /\ Matches(field.type, args[1]) => IsOf(field.type, content)
    /\ pc = "stored" => field # None /\ content = ToJava(field.type, args[1]) /\ content # Error

\* The overload chosen takes the arguments.
ChosenSound ==
    Decided => /\ \E i \in DOMAIN overloads : chosen = overloads[i]
               /\ chosen \in Seq(Types) /\ Len(chosen) = Len(args) /\ overloads # None
               /\ \A i \in DOMAIN chosen : Takes(chosen[i], args[i])

\* What becomes of the arguments.
ConvertedSound ==
    /\ pc \in Ended => java = Converted /\ \A i \in DOMAIN chosen : java[i] # Error
    /\ pc = "failed" /\ overloads # None => \E i \in DOMAIN chosen : ToJava(chosen[i], args[i]) = Error
    /\ java # None => Decided /\ java = Converted

\* What becomes of the result.
ResultSound ==
    /\ pc = "returned" /\ java # <<>> =>
          Described(chosen[1], java[1]) /\ result = Returned(chosen[1], java[1])
    /\ pc = "read" => field # None /\ Described(field.type, content) /\ result = Returned(field.type, content)

\* Where the argument came from.
OriginSound ==
    /\ pc \in Unused => origin = None
    /\ pc = "refused" => overloads # None \/ field # None
    /\ pc = "failed" => overloads # None \/ field # None \/ origin = None
    /\ origin # None => /\ field = None
                        /\ \E T \in Types : \E j \in JavaValues(T) :
                              origin = <<T, j>> /\ overloads = <<<<T>>>> /\ args = <<Returned(T, j)>>

Stages == {"attaching", "attached", "built", "called", "again", "chosen", "converted", "failed", "refused",
           "returned", "thrown", "stored", "read"}

\* The inductive invariant of the values.
UseSound ==
    /\ pc \in Stages
    /\ pc \in Undecided => java = None
    /\ InputsSound
    /\ ChosenSound
    /\ ConvertedSound
    /\ ResultSound
    /\ OriginSound

LEMMA UseInit == Init => UseSound
  BY DEF Init, UseSound, Stages, Undecided, Unused, InputsSound, ChosenSound, Decided, Ended, ConvertedSound,
         ResultSound, OriginSound

\* While no overload is chosen and nothing has been used.
LEMMA UnusedKeeps ==
    ASSUME ChoiceSound, UseSound, pc \in Unused, pc' \in Unused \union {"failed"}, UNCHANGED use
    PROVE  UseSound'
<1>1. /\ overloads = None /\ field = None /\ origin = None /\ java = None
      /\ UNCHANGED <<overloads, field, origin, java, chosen, args, content, result>>
  BY DEF ChoiceSound, UseSound, OriginSound, use, chosens, Undecided
<1>2. ~Decided'
  BY <1>1 DEF Decided, Ended, Unused
<1>3. pc' \notin Ended \union {"stored", "read", "refused"}
  BY DEF Ended, Unused
<1>4. InputsSound' /\ ChosenSound' /\ ConvertedSound' /\ ResultSound' /\ OriginSound'
  BY <1>1, <1>2, <1>3 DEF InputsSound, ChosenSound, ConvertedSound, ResultSound, OriginSound, Ended
<1>5. QED
  BY <1>1, <1>4 DEF UseSound, Stages, Unused

LEMMA MethodsAreTyped ==
    ASSUME ObjectSound, NEW p \in Used({"sync", "async"})
    PROVE  Method(p) \in Seq(Seq(Types))
<1>1. table[p][2] \in DOMAIN class.methods
  BY FormsAreMethods DEF Used
<1>2. QED
  BY <1>1, DeclarationsAssumption DEF ObjectSound, Method

LEMMA FieldsAreTyped ==
    ASSUME ObjectSound, NEW p \in Used({"field"})
    PROVE  class.fields[table[p][2]].type \in Types
<1>1. p \in DOMAIN table /\ table[p][1] = "field"
  BY DEF Used
<1>2. p \in DOMAIN class.fields /\ table[p] = <<"field", p>>
  BY <1>1 DEF ObjectSound, Entry, Form
<1>3. QED
  BY <1>2, DeclarationsAssumption DEF ObjectSound

\* A step that begins a use leaves what it does not set as it was.
LEMMA Begins ==
    ASSUME ChoiceSound, UseSound, pc = "built", pc' = "called", UNCHANGED java,
           InputsSound', OriginSound'
    PROVE  UseSound'
<1>1. ~Decided' /\ java' = None
  BY DEF Decided, Ended, UseSound, Undecided, Unused
<1>2. ChosenSound' /\ ConvertedSound' /\ ResultSound'
  BY <1>1 DEF ChosenSound, ConvertedSound, ResultSound, Ended
<1>3. QED
  BY <1>1, <1>2 DEF UseSound, Stages, Undecided, Unused

LEMMA CallKeeps ==
    ASSUME ObjectSound, ChoiceSound, UseSound, NEW p \in Used({"sync", "async"}), NEW values \in Arguments, Call(p, values)
    PROVE  UseSound'
<1>1. /\ pc = "built" /\ pc' = "called" /\ overloads' = Method(p) /\ args' = values
      /\ UNCHANGED <<field, origin, java>>
  BY DEF Call, Used, chosens
<1>2. field = None /\ origin = None
  BY <1>1 DEF ChoiceSound, UseSound, OriginSound, Unused
<1>3. overloads' \in Seq(Seq(Types)) /\ args' \in Seq(JsValues)
  BY <1>1, MethodsAreTyped, ArgumentsAssumption
<1>4. InputsSound' /\ OriginSound'
  BY <1>1, <1>2, <1>3 DEF InputsSound, OriginSound, Unused
<1>5. QED
  BY <1>1, <1>4, Begins

LEMMA PassOnKeeps ==
    ASSUME ObjectSound, ChoiceSound, UseSound, NEW p \in Used({"sync", "async"}), PassOn(p)
    PROVE  UseSound'
<1>1. /\ pc = "built" /\ pc' = "called" /\ overloads' = Method(p)
      /\ Len(Method(p)) = 1 /\ Len(Method(p)[1]) = 1
      /\ UNCHANGED <<field, java>>
  BY DEF PassOn, Used, chosens
<1>2. field = None
  BY <1>1 DEF ChoiceSound, Unused
<1>3. Method(p) \in Seq(Seq(Types))
  BY MethodsAreTyped
<1>4. PICK signature \in Seq(Types) : Method(p) = <<signature>> /\ Len(signature) = 1
  <2>1. Method(p)[1] \in Seq(Types) /\ Method(p) = <<Method(p)[1]>>
    BY <1>1, <1>3
  <2>2. QED
    BY <1>1, <2>1
<1>5. PICK T \in Types : signature = <<T>>
  <2>1. signature[1] \in Types /\ signature = <<signature[1]>>
    BY <1>4
  <2>2. QED
    BY <2>1
<1>6. Method(p)[1][1] = T
  BY <1>4, <1>5
<1>7. PICK j \in JavaValues(T) : origin' = <<T, j>> /\ args' = <<Returned(T, j)>>
  BY <1>6 DEF PassOn
<1>8. j \in JavaObjects /\ IsOf(T, j) /\ Described(T, j)
  BY JavaValuesAssumption
<1>9. Returned(T, j) \in JsValues
  BY <1>8, ReturnedIsJs
<1>10. args' \in Seq(JsValues)
  BY <1>7, <1>9
<1>11. overloads' = <<<<T>>>>
  BY <1>1, <1>4, <1>5
<1>12. InputsSound' /\ OriginSound'
  BY <1>1, <1>2, <1>3, <1>7, <1>10, <1>11 DEF InputsSound, OriginSound, Unused
<1>13. QED
  BY <1>1, <1>12, Begins

LEMMA UseFieldKeeps ==
    ASSUME ObjectSound, ChoiceSound, UseSound, NEW p \in Used({"field"}), NEW values \in Arguments, UseField(p, values)
    PROVE  UseSound'
<1>1. /\ pc = "built" /\ pc' = "called" /\ field' = class.fields[table[p][2]] /\ args' = values /\ Len(values) = 1
      /\ content' \in JavaValues(field'.type)
      /\ UNCHANGED <<overloads, origin, java>>
  BY DEF UseField, Used, chosens
<1>2. overloads = None /\ origin = None
  BY <1>1 DEF ChoiceSound, UseSound, OriginSound, Unused
<1>3. field'.type \in Types
  BY <1>1, FieldsAreTyped
<1>4. content' \in JavaObjects /\ IsOf(field'.type, content')
  BY <1>1, <1>3, JavaValuesAssumption
<1>5. Sound(field'.type, content')
  BY <1>3, <1>4, JavaObjectsAreSound
<1>6. args' \in Seq(JsValues)
  BY <1>1, ArgumentsAssumption
<1>7. InputsSound' /\ OriginSound'
  BY <1>1, <1>2, <1>3, <1>4, <1>5, <1>6 DEF InputsSound, OriginSound, Unused
<1>8. QED
  BY <1>1, <1>7, Begins

\* A candidate takes the arguments.
LEMMA CandidatesTake ==
    ASSUME NEW allow \in BOOLEAN, overloads \in Seq(Seq(Types)), NEW i \in Candidates(allow)
    PROVE  /\ i \in DOMAIN overloads /\ overloads[i] \in Seq(Types) /\ Len(overloads[i]) = Len(args)
           /\ \A k \in DOMAIN overloads[i] : Takes(overloads[i][k], args[k])
<1>1. i \in DOMAIN overloads /\ Accepts(overloads[i], allow)
  BY DEF Candidates
<1>2. overloads[i] \in Seq(Types)
  BY <1>1
<1>3. QED
  BY <1>1, <1>2 DEF Accepts, Takes

LEMMA ChooseKeeps ==
    ASSUME ChoiceSound, UseSound, NEW allow \in BOOLEAN, Choose(allow), pc \in {"called", "again"}, overloads # None
    PROVE  UseSound'
<1>1. /\ pc' = "chosen" /\ chosen' = overloads[First(Candidates(allow))] /\ Candidates(allow) # {}
      /\ UNCHANGED <<overloads, field, origin, args, content, java, result>>
  BY DEF Choose, member
<1>2. overloads \in Seq(Seq(Types)) /\ java = None
  BY DEF UseSound, InputsSound, Undecided
<1>3. Candidates(allow) \subseteq Nat
  BY <1>2 DEF Candidates
<1>4. PICK i \in Candidates(allow) : chosen' = overloads[i]
  BY <1>1, <1>3, FirstIsElement
<1>5. /\ i \in DOMAIN overloads /\ overloads[i] \in Seq(Types) /\ Len(overloads[i]) = Len(args)
      /\ \A k \in DOMAIN overloads[i] : Takes(overloads[i][k], args[k])
  BY <1>2, CandidatesTake
<1>6. ChosenSound'
  BY <1>1, <1>4, <1>5 DEF ChosenSound
<1>7. InputsSound' /\ ConvertedSound' /\ ResultSound' /\ OriginSound'
  BY <1>1, <1>2 DEF UseSound, InputsSound, ConvertedSound, ResultSound, OriginSound, Ended, Unused
<1>8. QED
  BY <1>1, <1>2, <1>6, <1>7 DEF UseSound, Stages

LEMMA MatchingKeeps ==
    ASSUME ChoiceSound, UseSound, FindMatching \/ FindMatchingObjects
    PROVE  UseSound'
<1>1. pc \in {"called", "again"} /\ overloads # None
  BY DEF FindMatching, FindMatchingObjects, ChoiceSound
<1>2. CASE Choose(FALSE) \/ Choose(TRUE)
  BY <1>1, <1>2, ChooseKeeps
<1>3. CASE pc' \in {"again", "refused"} /\ UNCHANGED <<member, content, chosens, result>>
  <2>1. UNCHANGED <<overloads, field, origin, args, content, chosen, java, result>>
    BY <1>3 DEF member, chosens
  <2>2. ~Decided' /\ java = None
    BY <1>1, <1>3 DEF Decided, Ended, UseSound, Undecided
  <2>3. InputsSound' /\ ChosenSound' /\ ConvertedSound' /\ ResultSound' /\ OriginSound'
    BY <1>1, <1>3, <2>1, <2>2
    DEF UseSound, InputsSound, ChosenSound, ConvertedSound, ResultSound, OriginSound, Ended, Unused
  <2>4. QED
    BY <1>3, <2>1, <2>2, <2>3 DEF UseSound, Stages
<1>4. QED
  BY <1>2, <1>3 DEF FindMatching, FindMatchingObjects

LEMMA ConvertKeeps ==
    ASSUME ChoiceSound, UseSound, ConvertArguments
    PROVE  UseSound'
<1>1. /\ pc = "chosen" /\ pc' \in {"failed", "converted"} /\ java' = Converted
      /\ pc' = IF \E i \in DOMAIN chosen : java'[i] = Error THEN "failed" ELSE "converted"
      /\ UNCHANGED <<overloads, field, origin, args, content, chosen, result>>
  BY DEF ConvertArguments, member, Converted
<1>2. Decided /\ ChosenSound
  BY <1>1 DEF Decided, UseSound
<1>3. overloads # None
  BY <1>2 DEF ChosenSound
<1>4. Decided' /\ ChosenSound'
  BY <1>1, <1>2, <1>3 DEF Decided, Ended, ChosenSound
<1>5. Converted' = Converted
  BY <1>1 DEF Converted
<1>6. \A i \in DOMAIN chosen : java'[i] = ToJava(chosen[i], args[i])
  BY <1>1 DEF Converted
<1>7. ConvertedSound'
  BY <1>1, <1>4, <1>5, <1>6 DEF ConvertedSound, Ended
<1>8. InputsSound' /\ ResultSound' /\ OriginSound'
  BY <1>1, <1>3 DEF UseSound, InputsSound, ResultSound, OriginSound, Unused
<1>9. QED
  BY <1>1, <1>4, <1>7, <1>8 DEF UseSound, Stages, Undecided, Unused

LEMMA InvokeKeeps ==
    ASSUME ChoiceSound, UseSound, Invoke \/ InvokeFails
    PROVE  UseSound'
<1>1. /\ pc = "converted" /\ pc' \in {"returned", "thrown"}
      /\ UNCHANGED <<overloads, field, origin, args, content, chosen, java>>
  BY DEF Invoke, InvokeFails, member, chosens
<1>2. Decided /\ ChosenSound
  BY <1>1 DEF Decided, Ended, UseSound
<1>3. Decided' /\ ChosenSound'
  BY <1>1, <1>2 DEF Decided, Ended, ChosenSound
<1>4. Converted' = Converted
  BY <1>1 DEF Converted
<1>5. ConvertedSound'
  BY <1>1, <1>3, <1>4 DEF UseSound, ConvertedSound, Ended
<1>6. ResultSound'
  BY <1>1 DEF Invoke, InvokeFails, ResultSound
<1>7. InputsSound' /\ OriginSound'
  BY <1>1 DEF UseSound, InputsSound, OriginSound, Unused
<1>8. QED
  BY <1>1, <1>3, <1>5, <1>6, <1>7 DEF UseSound, Stages, Undecided, Unused

\* A step of a field is none of a method.
LEMMA FieldStep ==
    ASSUME ChoiceSound, UseSound, field # None, pc \in {"called", "stored"},
           pc' \in {"failed", "stored", "refused", "read"},
           UNCHANGED <<member, chosens>>, InputsSound', ResultSound'
    PROVE  UseSound'
<1>1. UNCHANGED <<overloads, field, origin, args, chosen, java>> /\ overloads = None
  BY DEF member, chosens, ChoiceSound
<1>2. ~Decided /\ ~Decided'
  BY <1>1 DEF Decided, Ended
<1>3. ChosenSound' /\ ConvertedSound'
  BY <1>1, <1>2 DEF UseSound, ChosenSound, ConvertedSound, Ended
<1>4. OriginSound'
  BY <1>1 DEF UseSound, OriginSound, Unused
<1>5. QED
  BY <1>1, <1>2, <1>3, <1>4 DEF UseSound, Stages, Undecided, Unused

LEMMA SetFieldKeeps ==
    ASSUME ChoiceSound, UseSound, SetField
    PROVE  UseSound'
<1>1. field # None /\ pc = "called" /\ UNCHANGED <<member, chosens>> /\ pc' \in {"failed", "stored"}
  BY DEF SetField
<1>2. UNCHANGED <<overloads, field, args>> /\ overloads = None
  BY <1>1 DEF member, ChoiceSound
<1>3. /\ field.type \in Types /\ args \in Seq(JsValues) /\ Len(args) = 1 /\ args[1] \in JsValues
      /\ Sound(field.type, content) /\ (Matches(field.type, args[1]) => IsOf(field.type, content))
  <2>1. /\ field.type \in Types /\ args \in Seq(JsValues) /\ Len(args) = 1
        /\ Sound(field.type, content) /\ (Matches(field.type, args[1]) => IsOf(field.type, content))
    BY <1>1 DEF UseSound, InputsSound
  <2>2. args[1] \in JsValues
    BY <2>1
  <2>3. QED
    BY <2>1, <2>2
<1>4. CASE pc' = "failed" /\ UNCHANGED content
  <2>1. InputsSound' /\ ResultSound'
    BY <1>2, <1>3, <1>4 DEF InputsSound, ResultSound
  <2>2. QED
    BY <1>1, <2>1, FieldStep
<1>5. CASE pc' = "stored" /\ content' = ToJava(field.type, args[1]) /\ ToJava(field.type, args[1]) # Error
  <2>1. Sound(field.type, content')
    BY <1>3, <1>5, ToJavaIsSound
  <2>2. Matches(field.type, args[1]) => IsOf(field.type, content')
    BY <1>3, <1>5, ToJavaConverts DEF Takes
  <2>3. InputsSound' /\ ResultSound'
    BY <1>1, <1>2, <1>3, <1>5, <2>1, <2>2 DEF InputsSound, ResultSound
  <2>4. QED
    BY <1>1, <2>3, FieldStep
<1>6. QED
  BY <1>4, <1>5 DEF SetField, Write

LEMMA OtherFieldStepsKeep ==
    ASSUME ChoiceSound, UseSound, SetFinalField \/ GetField
    PROVE  UseSound'
<1>1. /\ field # None /\ pc \in {"called", "stored"} /\ UNCHANGED <<member, content, chosens>>
      /\ pc' \in {"refused", "read"}
  BY DEF SetFinalField, GetField
<1>2. UNCHANGED <<overloads, field, args>> /\ overloads = None
  BY <1>1 DEF member, ChoiceSound
<1>3. InputsSound'
  BY <1>1, <1>2 DEF UseSound, InputsSound
<1>4. ResultSound'
  BY <1>1, <1>2 DEF SetFinalField, GetField, ResultSound
<1>5. QED
  BY <1>1, <1>3, <1>4, FieldStep

LEMMA UseNext == ObjectSound /\ ChoiceSound /\ UseSound /\ [Next]_vars => UseSound'
<1> SUFFICES ASSUME ObjectSound, ChoiceSound, UseSound, [Next]_vars PROVE UseSound'
  OBVIOUS
<1>1. CASE (\E n \in DOMAIN class.methods : AttachMethod(n)) \/ AttachFields \/ AttachInstanceOf
  <2>1. pc \in Unused /\ pc' \in Unused \union {"failed"} /\ UNCHANGED use
    BY <1>1 DEF AttachMethod, AttachFields, AttachInstanceOf, Unused
  <2>2. QED
    BY <2>1, UnusedKeeps
<1>2. ASSUME NEW p \in Used({"sync", "async"}), PassOn(p) \/ \E values \in Arguments : Call(p, values)
      PROVE  UseSound'
  BY <1>2, PassOnKeeps, CallKeeps
<1>3. ASSUME NEW p \in Used({"field"}), NEW values \in Arguments, UseField(p, values)
      PROVE  UseSound'
  BY <1>3, UseFieldKeeps
<1>4. CASE FindMatching \/ FindMatchingObjects
  BY <1>4, MatchingKeeps
<1>5. CASE ConvertArguments
  BY <1>5, ConvertKeeps
<1>6. CASE Invoke \/ InvokeFails
  BY <1>6, InvokeKeeps
<1>7. CASE SetField
  BY <1>7, SetFieldKeeps
<1>8. CASE SetFinalField \/ GetField
  BY <1>8, OtherFieldStepsKeep
<1>9. CASE UNCHANGED vars
  <2>1. UNCHANGED <<pc, overloads, field, origin, args, content, chosen, java, result>>
    BY <1>9 DEF vars, member, chosens
  <2>2. InputsSound' /\ ChosenSound' /\ ConvertedSound' /\ ResultSound' /\ OriginSound'
    BY <2>1 DEF UseSound, InputsSound, ChosenSound, Decided, ConvertedSound, Converted, ResultSound, OriginSound
  <2>3. QED
    BY <2>1, <2>2 DEF UseSound
<1>10. QED
  BY <1>1, <1>2, <1>3, <1>4, <1>5, <1>6, <1>7, <1>8, <1>9 DEF Next

LEMMA UseStays == Spec => [](ChoiceSound /\ UseSound)
<1>1. Init => ChoiceSound /\ UseSound
  BY ChoiceInit, UseInit
<1>2. ObjectSound /\ ChoiceSound /\ UseSound /\ [Next]_vars => ChoiceSound' /\ UseSound'
  BY ChoiceNext, UseNext
<1>3. QED
  BY <1>1, <1>2, ObjectStays, PTL DEF Spec

LEMMA EndedIsConverted ==
    ASSUME UseSound, pc \in Ended
    PROVE  /\ chosen \in Seq(Types) /\ Len(chosen) = Len(args) /\ args \in Seq(JsValues)
           /\ Len(java) = Len(chosen) /\ DOMAIN java = DOMAIN chosen
           /\ \A i \in DOMAIN chosen :
                 /\ chosen[i] \in Types /\ args[i] \in JsValues /\ Takes(chosen[i], args[i])
                 /\ java[i] = ToJava(chosen[i], args[i]) /\ java[i] # Error
<1>1. Decided
  BY DEF Decided
<1>2. /\ chosen \in Seq(Types) /\ Len(chosen) = Len(args) /\ args \in Seq(JsValues)
      /\ \A i \in DOMAIN chosen : Takes(chosen[i], args[i])
  BY <1>1 DEF UseSound, ChosenSound, InputsSound
<1>3. java = [i \in DOMAIN chosen |-> ToJava(chosen[i], args[i])] /\ \A i \in DOMAIN chosen : java[i] # Error
  BY DEF UseSound, ConvertedSound, Converted
<1>4. Len(java) = Len(chosen) /\ DOMAIN java = DOMAIN chosen
  BY <1>2, <1>3
<1>5. \A i \in DOMAIN chosen : chosen[i] \in Types /\ args[i] \in JsValues
  BY <1>2
<1>6. \A i \in DOMAIN chosen : java[i] = ToJava(chosen[i], args[i])
  BY <1>3
<1>7. QED
  BY <1>2, <1>3, <1>4, <1>5, <1>6

\* Java is called with values of the types of the parameters, and a field that
\* is given a value that a parameter of its type would accept has one of its type.
THEOREM TypesAreKept == Spec => []TypeOK
<1>1. UseSound => TypeOK
  <2> SUFFICES ASSUME UseSound PROVE TypeOK
    OBVIOUS
  <2>1. ASSUME pc \in Ended PROVE Len(java) = Len(chosen) /\ \A i \in DOMAIN chosen : IsOf(chosen[i], java[i])
    <3>1. ASSUME NEW i \in DOMAIN chosen PROVE IsOf(chosen[i], java[i])
      <4>1. /\ chosen[i] \in Types /\ args[i] \in JsValues /\ Takes(chosen[i], args[i])
            /\ java[i] = ToJava(chosen[i], args[i]) /\ java[i] # Error
        BY <2>1, <3>1, EndedIsConverted
      <4>2. QED
        BY <4>1, ToJavaConverts
    <3>2. QED
      BY <2>1, <3>1, EndedIsConverted
  <2>2. QED
    BY <2>1 DEF TypeOK, UseSound, InputsSound, Stages, Ended
<1>2. QED
  BY <1>1, UseStays, PTL

\* A call for which an overload was found reaches Java unless one of its
\* arguments is among those a parameter accepts that cannot be converted to it.
THEOREM AcceptedIsConverted == Spec => []AcceptedConverts
<1>1. UseSound => AcceptedConverts
  <2> SUFFICES ASSUME UseSound, pc = "failed", overloads # None
               PROVE  \E i \in DOMAIN chosen : Unconvertible(chosen[i], args[i])
    BY DEF AcceptedConverts
  <2>1. /\ chosen \in Seq(Types) /\ Len(chosen) = Len(args) /\ args \in Seq(JsValues)
        /\ \A i \in DOMAIN chosen : Takes(chosen[i], args[i])
    BY DEF UseSound, ChosenSound, Decided, InputsSound
  <2>2. PICK i \in DOMAIN chosen : ToJava(chosen[i], args[i]) = Error
    BY DEF UseSound, ConvertedSound
  <2>3. chosen[i] \in Types /\ args[i] \in JsValues
    BY <2>1, <2>2
  <2>4. QED
    BY <2>1, <2>2, <2>3, ToJavaConverts
<1>2. QED
  BY <1>1, UseStays, PTL

\* The values of the arguments are the values Java gets, whichever overload was
\* taken, if the types of the parameters have them and they are none of those
\* the code corrupts: numbers beyond int, and BigInts beyond long, for an Object,
\* and null in an Integer[] or a String[].  Fields likewise.
THEOREM ArgumentsAreSame == Spec => []ArgumentsArrive
<1>1. UseSound => ArgumentsArrive
  <2> SUFFICES ASSUME UseSound PROVE ArgumentsArrive
    OBVIOUS
  <2>1. ASSUME pc \in Ended, NEW i \in DOMAIN chosen,
               Exact(chosen[i], args[i]), ~Corrupted(chosen[i], args[i])
        PROVE  Same(args[i], java[i])
    <3>1. /\ chosen[i] \in Types /\ args[i] \in JsValues /\ Takes(chosen[i], args[i])
          /\ java[i] = ToJava(chosen[i], args[i]) /\ java[i] # Error
      BY <2>1, EndedIsConverted
    <3>2. QED
      BY <2>1, <3>1, ToJavaConverts
  <2>2. ASSUME pc = "stored", Matches(field.type, args[1]),
               Exact(field.type, args[1]), ~Corrupted(field.type, args[1])
        PROVE  Same(args[1], content)
    <3>1. /\ field.type \in Types /\ args \in Seq(JsValues) /\ Len(args) = 1
          /\ content = ToJava(field.type, args[1]) /\ content # Error
      BY <2>2 DEF UseSound, InputsSound
    <3>2. args[1] \in JsValues
      BY <3>1
    <3>3. QED
      BY <2>2, <3>1, <3>2, ToJavaConverts DEF Takes
  <2>3. QED
    BY <2>1, <2>2 DEF ArgumentsArrive, Ended
<1>2. QED
  BY <1>1, UseStays, PTL

\* The value Java returns, or has in a field, is the value JS gets, but for the
\* two losses that Returnable names, and its longs are BigInts, but for a long[].
THEOREM ResultsAreSame == Spec => []ResultsArrive
<1>1. UseSound => ResultsArrive
  <2> SUFFICES ASSUME UseSound PROVE ResultsArrive
    OBVIOUS
  <2>1. ASSUME pc = "returned", java # <<>>, Returnable(chosen[1], java[1])
        PROVE  Arrived(chosen[1], result, java[1])
    <3>1. 1 \in DOMAIN chosen
      <4>1. java = [i \in DOMAIN chosen |-> ToJava(chosen[i], args[i])] /\ chosen \in Seq(Types)
        BY <2>1, EndedIsConverted DEF UseSound, ConvertedSound, Converted, Ended
      <4>2. DOMAIN chosen = {} => java = <<>>
        BY <4>1
      <4>3. QED
        BY <2>1, <4>1, <4>2
    <3>2. /\ chosen[1] \in Types /\ args[1] \in JsValues
          /\ java[1] = ToJava(chosen[1], args[1]) /\ java[1] # Error
      BY <2>1, <3>1, EndedIsConverted DEF Ended
    <3>3. Sound(chosen[1], java[1])
      BY <3>2, ToJavaIsSound
    <3>4. Described(chosen[1], java[1]) /\ result = Returned(chosen[1], java[1])
      BY <2>1 DEF UseSound, ResultSound
    <3>5. QED
      BY <2>1, <3>2, <3>3, <3>4, ReturnedIsSame
  <2>2. ASSUME pc = "read", Returnable(field.type, content)
        PROVE  Arrived(field.type, result, content)
    <3>1. /\ field # None /\ Described(field.type, content) /\ result = Returned(field.type, content)
      BY <2>2 DEF UseSound, ResultSound
    <3>2. field.type \in Types /\ Sound(field.type, content)
      BY <3>1 DEF UseSound, InputsSound
    <3>3. QED
      BY <2>2, <3>1, <3>2, ReturnedIsSame
  <2>3. QED
    BY <2>1, <2>2 DEF ResultsArrive
<1>2. QED
  BY <1>1, UseStays, PTL

\* A value of a stable type that Java returned and JS passes on finds the
\* overload, is converted, and arrives as the value Java had.
THEOREM ValuesComeBack == Spec => []ComesBack
<1>1. ChoiceSound /\ UseSound => ComesBack
  <2> SUFFICES ASSUME ChoiceSound, UseSound, origin # None, Stable(origin[1], origin[2])
               PROVE  pc \notin {"refused", "failed"} /\ (java # None => java = <<origin[2]>>)
    BY DEF ComesBack
  <2>0. PICK T \in Types :
            \E j \in JavaValues(T) : origin = <<T, j>> /\ overloads = <<<<T>>>> /\ args = <<Returned(T, j)>>
    BY DEF UseSound, OriginSound
  <2>1. PICK j \in JavaValues(T) :
            origin = <<T, j>> /\ overloads = <<<<T>>>> /\ args = <<Returned(T, j)>> /\ field = None
    BY <2>0 DEF UseSound, OriginSound
  <2>2. j \in JavaObjects /\ IsOf(T, j) /\ Described(T, j) /\ Stable(T, j)
    BY <2>1, JavaValuesAssumption
  <2>3. Takes(T, args[1]) /\ ToJava(T, args[1]) = j
    BY <2>1, <2>2, StableComesBack
  <2>4. ASSUME Decided PROVE chosen = <<T>> /\ Converted = <<j>>
    <3>1. PICK i \in DOMAIN overloads : chosen = overloads[i]
      BY <2>4 DEF UseSound, ChosenSound
    <3>2. chosen = <<T>>
      BY <2>1, <3>1
    <3>3. QED
      BY <2>3, <3>2 DEF Converted
  <2>5. pc # "refused"
    <3> SUFFICES ASSUME pc = "refused" PROVE FALSE
      OBVIOUS
    <3>1. overloads # None /\ Candidates(TRUE) = {}
      BY <2>1 DEF UseSound, OriginSound, ChoiceSound, SpecificFirst
    <3>2. Accepts(<<T>>, TRUE)
      BY <2>1, <2>3 DEF Accepts, Takes
    <3>3. 1 \in Candidates(TRUE)
      <4>1. 1 \in DOMAIN overloads /\ overloads[1] = <<T>>
        BY <2>1
      <4>2. QED
        BY <3>2, <4>1 DEF Candidates
    <3>4. QED
      BY <3>1, <3>3
  <2>6. pc # "failed"
    <3> SUFFICES ASSUME pc = "failed" PROVE FALSE
      OBVIOUS
    <3>1. overloads # None
      BY <2>1 DEF UseSound, OriginSound
    <3>2. PICK i \in DOMAIN chosen : ToJava(chosen[i], args[i]) = Error
      BY <3>1 DEF UseSound, ConvertedSound
    <3>3. chosen = <<T>>
      BY <2>4, <3>1 DEF Decided
    <3>4. j = Error
      BY <2>3, <3>2, <3>3
    <3>5. j # Error
      <4>1. Error \notin JavaScalars
        BY JavaScalarsHaveKinds
      <4>2. Error # Null /\ Error[1] # "array"
        BY DEF Error, Null
      <4>3. Error \notin {"array"} \X Seq(JavaScalars \union {Null})
        BY <4>2, Pairs
      <4>4. QED
        BY <2>2, <4>1, <4>2, <4>3 DEF JavaObjects
    <3>6. QED
      BY <3>4, <3>5
  <2>7. java # None => java = <<j>>
    BY <2>4 DEF UseSound, ConvertedSound
  <2>8. QED
    BY <2>1, <2>5, <2>6, <2>7
<1>2. QED
  BY <1>1, UseStays, PTL
==============================================================================
