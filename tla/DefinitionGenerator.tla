------------------------ MODULE DefinitionGenerator ------------------------
(***************************************************************************)
(* TypescriptBulkDefinitionGenerator and TypescriptDefinitionGenerator:    *)
(* the definitions of classes and of the classes they mention, found by a  *)
(* depth-first walk that generators of single classes do together.  What   *)
(* they share is resolvedImports.                                          *)
(*                                                                         *)
(* Every generator awaits the import of its class and reflection calls, so *)
(* that two calls of generate on one bulk generator interleave; save may   *)
(* run at the same time.                                                   *)
(***************************************************************************)
EXTENDS Naturals, Sequences, SequencesExt

CONSTANTS
    Classes,
    Mentions,   \* class -> what its members mention: a block of names for every
                \* field, one for the methods and one for the constructors
    Missing,    \* classes that cannot be imported
    Callers,    \* calls of the bulk generator's generate
    Requests    \* the lists of classes they may be made with

ASSUME MentionsAssumption == Mentions \in [Classes -> Seq(Seq(Classes)) \ {<<>>}]
ASSUME RequestsAssumption == Requests \subseteq Seq(Classes)
ASSUME MissingAssumption  == Missing \subseteq Classes

VARIABLES
    resolvedImports,
    status,         \* caller -> "idle", "running", "done" or "failed"
    classnames,     \* caller -> the classes it has yet to begin
    stack,          \* caller -> the generators it is in, innermost last
    declarations,   \* what the bulk generator has collected
    numResolved,    \* caller -> how many of those are its own
    written,        \* how many declarations save has written
    saving,         \* "no", "yes", "failed" or "done"
    files,          \* classes there is a file of
    lapses          \* what happened: "failed", "overlapping", "early"

walk  == <<resolvedImports, status, classnames, stack>>
found == <<declarations, numResolved>>
disk  == <<written, saving, files>>
vars  == <<walk, found, disk, lapses>>

\* A generator: the blocks to convert, additionalImports left to follow once it is
\* ready for that, and the declarations it has.
Generator(c) == [class |-> c, blocks |-> Mentions[c], follow |-> <<>>, ready |-> FALSE, res |-> <<>>]

Top(g)   == Last(stack[g])
Running  == {g \in Callers : status[g] = "running"}
Named(c) == UNION {ToSet(Mentions[c][k]) : k \in DOMAIN Mentions[c]}

TypeOK ==
    /\ resolvedImports \subseteq Classes
    /\ \A g \in Callers :
        /\ status[g] \in {"idle", "running", "done", "failed"}
        /\ status[g] # "running" => stack[g] = <<>> /\ classnames[g] = <<>>
        /\ \A k \in DOMAIN stack[g] :
            /\ stack[g][k].class \in resolvedImports
            /\ k > 1 => stack[g][k].class \in Named(stack[g][k - 1].class)
    /\ written \in 0 .. Len(declarations)

Init ==
    /\ resolvedImports = {}
    /\ status = [g \in Callers |-> "idle"]
    /\ classnames = [g \in Callers |-> <<>>]
    /\ stack = [g \in Callers |-> <<>>]
    /\ declarations = <<>>
    /\ numResolved = [g \in Callers |-> 0]
    /\ written = 0
    /\ saving = "no"
    /\ files = {}
    /\ lapses = {}

-----------------------------------------------------------------------------
(***************************************************************************)
(* generate                                                                *)
(***************************************************************************)
Generate(g, list) ==
    /\ status[g] = "idle"
    /\ status' = [status EXCEPT ![g] = "running"]
    /\ classnames' = [classnames EXCEPT ![g] = list]
    /\ lapses' = lapses \union (IF Running # {} THEN {"overlapping"} ELSE {})
                        \union (IF saving = "yes" THEN {"early"} ELSE {})
    /\ UNCHANGED <<resolvedImports, stack, found, disk>>

\* The next class, for the bulk generator or the innermost generator of g.
Next1(g) ==
    IF stack[g] = <<>> THEN classnames[g] ELSE IF Top(g).ready THEN Top(g).follow ELSE <<>>

\* It is taken from the list.
Taken(g) ==
    IF stack[g] = <<>> THEN <<>>
    ELSE Append(Front(stack[g]), [Top(g) EXCEPT !.follow = Tail(@)])

Advance(g) ==
    classnames' = IF stack[g] = <<>> THEN [classnames EXCEPT ![g] = Tail(@)] ELSE classnames

\* A class that is resolved, or will be, has nothing to add.
Skip(g) ==
    /\ Next1(g) # <<>>
    /\ Head(Next1(g)) \in resolvedImports
    /\ stack' = [stack EXCEPT ![g] = Taken(g)]
    /\ Advance(g)
    /\ UNCHANGED <<resolvedImports, status, found, disk, lapses>>

\* Mutant: classes are not marked.
Enter_Unmarked(g) ==
    /\ Next1(g) # <<>>
    /\ Head(Next1(g)) \notin resolvedImports
    /\ stack' = [stack EXCEPT ![g] = Append(Taken(g), Generator(Head(Next1(g))))]
    /\ Advance(g)
    /\ UNCHANGED <<resolvedImports, status, found, disk, lapses>>

\* Up to importClassAsync: the class is marked before anything is known of it.
Enter(g) ==
    /\ Next1(g) # <<>>
    /\ Head(Next1(g)) \notin resolvedImports
    /\ resolvedImports' = resolvedImports \union {Head(Next1(g))}
    /\ stack' = [stack EXCEPT ![g] = Append(Taken(g), Generator(Head(Next1(g))))]
    /\ Advance(g)
    /\ UNCHANGED <<status, found, disk, lapses>>

\* Mutant: the generators that wait for the failed one are not ended.
ImportFails_Innermost(g) ==
    /\ stack[g] # <<>>
    /\ Top(g).class \in Missing
    /\ status' = [status EXCEPT ![g] = "failed"]
    /\ stack' = [stack EXCEPT ![g] = Front(@)]
    /\ classnames' = [classnames EXCEPT ![g] = <<>>]
    /\ lapses' = lapses \union {"failed"}
    /\ UNCHANGED <<resolvedImports, found, disk>>

\* The import is rejected: every generator of the call is, and so is the call.
\* What they have found is lost, and marked.
ImportFails(g) ==
    /\ stack[g] # <<>>
    /\ Top(g).class \in Missing
    /\ status' = [status EXCEPT ![g] = "failed"]
    /\ stack' = [stack EXCEPT ![g] = <<>>]
    /\ classnames' = [classnames EXCEPT ![g] = <<>>]
    /\ lapses' = lapses \union {"failed"}
    /\ UNCHANGED <<resolvedImports, found, disk>>

\* The names of a block that are not marked, in their order.
Unmarked(block, marked) ==
    LET kept[k \in 0 .. Len(block)] ==
            IF k = 0 THEN <<>>
            ELSE IF block[k] \in marked THEN kept[k - 1] ELSE Append(kept[k - 1], block[k])
    IN  kept[Len(block)]

\* What a block adds to additionalImports: the names nobody is at.
Additional(block) == Unmarked(block, resolvedImports)

\* Mutant: only what the last block mentions is followed.
Convert_Last(g) ==
    /\ stack[g] # <<>> /\ Top(g).class \notin Missing /\ ~Top(g).ready
    /\ stack' = [stack EXCEPT ![g] = Append(Front(stack[g]),
                    [Top(g) EXCEPT !.blocks = Tail(@), !.follow = Additional(Head(Top(g).blocks)),
                                   !.ready = Len(Top(g).blocks) = 1])]
    /\ UNCHANGED <<resolvedImports, status, classnames, found, disk, lapses>>

\* Mutant: what is mentioned has to be declared first if it is marked.
Convert_Waits(g) ==
    /\ stack[g] # <<>> /\ Top(g).class \notin Missing /\ ~Top(g).ready
    /\ ToSet(Head(Top(g).blocks)) \intersect resolvedImports \subseteq ToSet(declarations)
    /\ stack' = [stack EXCEPT ![g] = Append(Front(stack[g]),
                    [Top(g) EXCEPT !.blocks = Tail(@), !.follow = @ \o Additional(Head(Top(g).blocks)),
                                   !.ready = Len(Top(g).blocks) = 1])]
    /\ UNCHANGED <<resolvedImports, status, classnames, found, disk, lapses>>

\* The next block of members.
Convert(g) ==
    /\ stack[g] # <<>> /\ Top(g).class \notin Missing /\ ~Top(g).ready
    /\ stack' = [stack EXCEPT ![g] = Append(Front(stack[g]),
                    [Top(g) EXCEPT !.blocks = Tail(@), !.follow = @ \o Additional(Head(Top(g).blocks)),
                                   !.ready = Len(Top(g).blocks) = 1])]
    /\ UNCHANGED <<resolvedImports, status, classnames, found, disk, lapses>>

\* A generator is done.  Its declarations go to the one that waits for it, or to
\* the bulk generator.
Return(g, res) ==
    IF Len(stack[g]) = 1
    THEN /\ stack' = [stack EXCEPT ![g] = <<>>]
         /\ declarations' = declarations \o res
         /\ numResolved' = [numResolved EXCEPT ![g] = @ + Len(res)]
    ELSE /\ stack' = [stack EXCEPT ![g] =
                Append(Front(Front(stack[g])), [Last(Front(stack[g])) EXCEPT !.res = @ \o res])]
         /\ UNCHANGED found

\* Mutant: a class is declared before what it mentions.
Finish_First(g) ==
    /\ stack[g] # <<>> /\ Top(g).ready /\ Top(g).follow = <<>>
    /\ Return(g, <<Top(g).class>> \o Top(g).res)
    /\ UNCHANGED <<resolvedImports, status, classnames, disk, lapses>>

Finish(g) ==
    /\ stack[g] # <<>> /\ Top(g).ready /\ Top(g).follow = <<>>
    /\ Return(g, Append(Top(g).res, Top(g).class))
    /\ UNCHANGED <<resolvedImports, status, classnames, disk, lapses>>

Resolve(g) ==
    /\ status[g] = "running"
    /\ stack[g] = <<>> /\ classnames[g] = <<>>
    /\ status' = [status EXCEPT ![g] = "done"]
    /\ UNCHANGED <<resolvedImports, classnames, stack, found, disk, lapses>>

-----------------------------------------------------------------------------
(***************************************************************************)
(* save: one file after the other, of the list as it grows.                *)
(***************************************************************************)
Save ==
    /\ saving \in {"no", "failed"}
    /\ saving' = "yes"
    /\ written' = 0
    /\ lapses' = lapses \union (IF Running # {} THEN {"early"} ELSE {})
    /\ UNCHANGED <<walk, found, files>>

\* Mutant: the list as it was when the first file was written.
WriteFile_Once ==
    /\ saving = "yes"
    /\ IF written = 1 \/ declarations = <<>>
       THEN saving' = "done" /\ UNCHANGED <<written, files>>
       ELSE /\ written' = written + 1
            /\ files' = files \union {declarations[written + 1]}
            /\ UNCHANGED saving
    /\ UNCHANGED <<walk, found, lapses>>

WriteFile ==
    /\ saving = "yes"
    /\ IF written = Len(declarations)
       THEN saving' = "done" /\ UNCHANGED <<written, files>>
       ELSE /\ written' = written + 1
            /\ files' = files \union {declarations[written + 1]}
            /\ UNCHANGED saving
    /\ UNCHANGED <<walk, found, lapses>>

\* A directory cannot be made or a file not be written: save is given up, what was
\* written stays, and the program may save again.
WriteFails ==
    /\ saving = "yes"
    /\ written < Len(declarations)
    /\ saving' = "failed"
    /\ UNCHANGED <<walk, found, written, files, lapses>>

-----------------------------------------------------------------------------
Step(g) == Skip(g) \/ Enter(g) \/ ImportFails(g) \/ Convert(g) \/ Finish(g) \/ Resolve(g)

Next ==
    \/ \E g \in Callers : Step(g) \/ \E list \in Requests : Generate(g, list)
    \/ Save
    \/ WriteFile
    \/ WriteFails

\* What is awaited settles.  Nobody has to call generate or save.
Spec == Init /\ [][Next]_vars /\ \A g \in Callers : WF_vars(Step(g))

-----------------------------------------------------------------------------
(***************************************************************************)
(* Properties                                                              *)
(***************************************************************************)
Declared == ToSet(declarations)

\* A class is declared once, however many calls meet it at the same time.
Results(g) == [k \in DOMAIN stack[g] |-> stack[g][k].res]
DeclaredOnce ==
    /\ IsInjective(declarations)
    /\ \A g \in Callers : \A k \in DOMAIN stack[g] :
        LET mine == Append(Results(g)[k], stack[g][k].class)
        IN  /\ IsInjective(mine)
            /\ ToSet(mine) \intersect Declared = {}
            /\ \A h \in Callers : \A l \in DOMAIN stack[h] :
                <<h, l>> # <<g, k>> =>
                    ToSet(mine) \intersect ToSet(Append(Results(h)[l], stack[h][l].class)) = {}

\* d is mentioned by c, or by what c mentions, and so on.
Reaches(c, d) ==
    \A S \in SUBSET Classes :
        Named(c) \subseteq S /\ (\A e \in S : Named(e) \subseteq S) => d \in S

\* Dependencies come before the classes that depend on them, unless they depend
\* on these, too, or calls overlapped or failed.
DependenciesFirst ==
    lapses \intersect {"failed", "overlapping"} = {} =>
      \A k \in DOMAIN declarations : \A d \in Named(declarations[k]) :
          Reaches(d, declarations[k]) \/ \E l \in 1 .. k - 1 : declarations[l] = d

\* Once all calls have ended, what a definition imports is defined, whether the
\* calls overlapped or not; only failed calls leave gaps.
ImportsDeclared ==
    Running = {} /\ "failed" \notin lapses =>
        \A c \in Declared : Named(c) \subseteq Declared

\* The files that were saved import only files that were saved, unless a call
\* failed or save was called while one was running.
SavedTogether ==
    saving = "done" /\ lapses \intersect {"failed", "early"} = {} =>
        \A c \in files : Named(c) \subseteq files

\* generate ends, also for classes that mention each other.
GenerateEnds == \A g \in Callers : status[g] = "running" ~> status[g] \in {"done", "failed"}
=============================================================================
