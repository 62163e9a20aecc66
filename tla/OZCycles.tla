-------------------------------- MODULE OZCycles --------------------------------
(***************************************************************************)
(* objz_check_cycles: a build step that reads the interfaces of all files  *)
(* that the sources import, and fails if the classes may form a retain     *)
(* cycle, that is, if the graph of their strong references has one.        *)
(***************************************************************************)
EXTENDS Naturals, Sequences, FiniteSets, SequencesExt

CONSTANTS
  Sources,     \* the programs, each a record of files, classes, sources, imports,
               \* interfaces, and whether fields hold exactly their class (exact)
  Foundation,  \* FOUNDATION_CLASSES
  Nobody

\* What a class of the Foundation and the classes above it have in their fields is nothing
\* that the program gives them: they inherit from each other or from the root class.
ASSUME SourcesAssumption ==
  \A s \in Sources :
    LET interfaces == UNION {Range(s.interfaces[f]) : f \in s.files}
    IN /\ s.sources \subseteq s.files
       /\ \A f \in s.files : s.interfaces[f] \in Seq(interfaces)
       /\ \A i \in interfaces : i.name \in s.classes
       /\ \A i \in {j \in interfaces : j.name \in Foundation} :
            /\ \A field \in i.fields : field.kind = "unretained"
            /\ \A j \in {k \in interfaces : k.name = i.super} :
                 j.name \in Foundation \/ (j.fields = {} /\ j.super \notin s.classes)

VARIABLES
  code,        \* the program that is checked
  pass,        \* "files", "read", "dfs", "done", and "idle" if there is no check
  queue,       \* the files whose imports, and then whose interfaces, are still to be read
  allFiles,
  unread,      \* the interfaces of a file that are still to be read
  superOf, strong,
  graph, color, path,
  left,        \* the neighbours of a node that the search has not looked at
  cycles

cyclesVars == <<code, pass, queue, allFiles, unread, superOf, strong, graph, color, path, left, cycles>>

\* The least subset of a universe that has start and is closed under next.
Closure(universe, start, next) ==
  LET closed == {S \in SUBSET universe : start \subseteq S /\ \A x \in S : next[x] \subseteq S}
  IN {x \in universe : \A S \in closed : x \in S}

Interfaces(files) == UNION {Range(code.interfaces[f]) : f \in files}

(***************************************************************************)
(* What a program can do when it runs                                      *)
(***************************************************************************)
Imports(f) == {i.to : i \in code.imports[f]} \cap code.files
Imported == Closure(code.files, code.sources, [f \in code.files |-> Imports(f)])
Declared == Interfaces(Imported)
Superclasses(c) == {i.super : i \in {j \in Declared : j.name = c}} \cap code.classes
Ancestors(c) == Closure(code.classes, {c}, [x \in code.classes |-> Superclasses(x)])

\* The objects that a field holds are of its class or of a subclass.
Held(f) ==
  IF f.kind = "unretained" THEN {}
  ELSE IF f.kind = "any" THEN code.classes
  ELSE {d \in code.classes : d = f.target \/ (~code.exact /\ f.target \in Ancestors(d))}

\* A collection holds anything but, since it never changes, itself.
Holds(c) ==
  IF c \in Foundation THEN code.classes \ Foundation
  ELSE UNION {Held(f) : f \in UNION {i.fields : i \in {j \in Declared : j.name \in Ancestors(c)}}}

Cyclic(S) == S # {} /\ \A c \in S : Holds(c) \cap S # {}
MayLeak == \E S \in SUBSET code.classes : Cyclic(S)

\* Programs whose cycles the check can see.
Visible ==
  /\ code.exact
  /\ \A f \in UNION {i.fields : i \in Declared} :
       f.kind \in {"strong", "unretained"} /\ f.target \notin Foundation
  /\ \A f \in code.files : \A i \in code.imports[f] : i.quoted
  /\ \A i, j \in Declared : i.name = j.name => i.super = j.super

(***************************************************************************)
(* _collect_all_files                                                      *)
(***************************************************************************)
CyclesInit ==
  /\ code \in Sources /\ pass = "files"
  /\ queue = code.sources /\ allFiles = {}
  /\ unread = <<>>
  /\ superOf = <<>> /\ strong = [c \in code.classes |-> {}]
  /\ graph = <<>> /\ color = <<>> /\ path = <<>> /\ left = <<>> /\ cycles = {}

Resolved(f) == {i.to : i \in {j \in code.imports[f] : j.quoted}} \cap code.files

Skip == UNCHANGED <<code, superOf, strong, graph, color, path, left, cycles>>

\* Mutant: a file that was read is read again when it is imported.
PopFileAgain ==
  /\ pass = "files"
  /\ \E f \in queue :
       /\ allFiles' = allFiles \cup {f}
       /\ queue' = (queue \ {f}) \cup Resolved(f)
  /\ Skip /\ UNCHANGED <<pass, unread>>

PopFile ==
  /\ pass = "files"
  /\ \E f \in queue :
       /\ allFiles' = allFiles \cup {f}
       /\ queue' = (queue \ {f}) \cup (Resolved(f) \ (allFiles \cup {f}))
  /\ Skip /\ UNCHANGED <<pass, unread>>

FilesFound ==
  /\ pass = "files" /\ queue = {}
  /\ pass' = "read" /\ queue' = allFiles
  /\ Skip /\ UNCHANGED <<allFiles, unread>>

(***************************************************************************)
(* collect_class_info                                                      *)
(***************************************************************************)
Known == {i.name : i \in Interfaces(allFiles)}

\* A field or property of a class that is known; an attribute that has "assign"
\* in it makes a property weak, be it only in the name of its getter.
StrongRefs(i) ==
  {f.target : f \in {g \in i.fields : g.kind = "strong"}} \cap (Known \ Foundation)

\* The set of files is read in any order.
ReadFile ==
  /\ pass = "read" /\ unread = <<>>
  /\ \E f \in queue : queue' = queue \ {f} /\ unread' = code.interfaces[f]
  /\ Skip /\ UNCHANGED <<pass, allFiles>>

CollectInterface ==
  /\ pass = "read" /\ unread # <<>>
  /\ unread' = Tail(unread)
  /\ LET i == Head(unread)
     IN IF i.name \in Foundation THEN UNCHANGED <<superOf, strong>>
        ELSE /\ superOf' = [c \in DOMAIN superOf \cup {i.name} |->
                              IF c \in DOMAIN superOf THEN superOf[c] ELSE i.super]
             /\ strong' = [strong EXCEPT ![i.name] = @ \cup StrongRefs(i)]
  /\ UNCHANGED <<code, pass, queue, allFiles, graph, color, path, left, cycles>>

(***************************************************************************)
(* resolve_inheritance and build_graph                                     *)
(***************************************************************************)
\* Mutant: only the superclass's references are inherited.
InheritedParent(c) ==
  IF c \in DOMAIN superOf /\ superOf[c] \in code.classes THEN strong[superOf[c]] ELSE {}

Inherited(c) ==
  LET up == [x \in code.classes |->
               IF x \in DOMAIN superOf THEN {superOf[x]} \cap code.classes ELSE {}]
  IN UNION {strong[a] : a \in Closure(code.classes, up[c], up)}

References(c) == strong[c] \cup Inherited(c)

White == "white"
Gray  == "gray"
Black == "black"

BuildGraph ==
  /\ pass = "read" /\ queue = {} /\ unread = <<>>
  /\ LET refs == [c \in code.classes |-> References(c)]
     IN IF \A c \in code.classes : strong[c] = {}
        THEN pass' = "done" /\ UNCHANGED <<graph, color, left>>
        ELSE /\ pass' = "dfs"
             /\ graph' = refs /\ left' = refs
             /\ color' = [c \in code.classes |-> White]
  /\ UNCHANGED <<code, queue, allFiles, unread, superOf, strong, path, cycles>>

(***************************************************************************)
(* detect_cycles                                                           *)
(***************************************************************************)
Search == pass = "dfs" /\ UNCHANGED <<code, pass, queue, allFiles, unread, superOf, strong, graph>>

Enter(n) == color' = [color EXCEPT ![n] = Gray] /\ path' = Append(path, n)

DfsRoot ==
  /\ Search /\ path = <<>>
  /\ \E n \in {c \in code.classes : graph[c] # {} /\ color[c] = White} : Enter(n)
  /\ UNCHANGED <<left, cycles>>

CycleTo(n) == SubSeq(path, CHOOSE i \in DOMAIN path : path[i] = n, Len(path))

DfsNeighbour ==
  /\ Search /\ path # <<>>
  /\ \E n \in left[Last(path)] :
       /\ left' = [left EXCEPT ![Last(path)] = @ \ {n}]
       /\ \/ color[n] = Gray /\ cycles' = cycles \cup {CycleTo(n)} /\ UNCHANGED <<color, path>>
          \/ color[n] = White /\ Enter(n) /\ UNCHANGED cycles
          \/ color[n] = Black /\ UNCHANGED <<color, path, cycles>>

DfsLeave ==
  /\ Search /\ path # <<>> /\ left[Last(path)] = {}
  /\ color' = [color EXCEPT ![Last(path)] = Black]
  /\ path' = Front(path)
  /\ UNCHANGED <<left, cycles>>

Report ==
  /\ pass = "dfs" /\ path = <<>> /\ \A c \in code.classes : graph[c] = {} \/ color[c] # White
  /\ pass' = "done"
  /\ UNCHANGED <<code, queue, allFiles, unread, superOf, strong, graph, color, path, left, cycles>>

CyclesNext ==
  \/ PopFile \/ FilesFound \/ ReadFile \/ CollectInterface \/ BuildGraph
  \/ DfsRoot \/ DfsNeighbour \/ DfsLeave \/ Report

(***************************************************************************)
(* Properties                                                              *)
(***************************************************************************)
Failed == pass = "done" /\ cycles # {}

\* If objects of the program may hold each other in a circle, the check fails,
\* in whatever order it reads the files and follows the references; it need
\* only see the fields that hold them (main).
CyclesFound == pass = "done" /\ MayLeak /\ Visible => Failed

\* The check fails for no program without cycles, and every cycle that it
\* reports is one (detect_cycles, report_cycles).
CyclesReal ==
  pass = "done" => \A cycle \in cycles :
    /\ IsInjective(cycle)
    /\ \A i \in DOMAIN cycle : cycle[(i % Len(cycle)) + 1] \in Holds(cycle[i])

\* The check fails exactly for what it should fail for, and the search keeps to
\* its colours: the grey nodes are those of the path.
CyclesExact ==
  /\ CyclesFound /\ CyclesReal
  /\ pass = "dfs" => {c \in code.classes : color[c] = Gray} = Range(path)

\* The check ends, although files may import each other in circles.
CheckEnds == pass = "files" ~> pass = "done"
=============================================================================
