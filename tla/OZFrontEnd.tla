------------------------------ MODULE OZFrontEnd ------------------------------
(***************************************************************************)
(* One run of the transpiler over the sources of a program: the sources    *)
(* are read declaration by declaration, merged, resolved and emitted, one  *)
(* action per declaration and per pass (main() of __main__.py, resolve()   *)
(* of resolve.py, emit() of emit.py).                                      *)
(*                                                                         *)
(* The programs are those of the constant Programs that follow Rules: what *)
(* the transpiler relies on and does not check.  The rules about single    *)
(* statements are in OZExpr.                                               *)
(***************************************************************************)
EXTENDS OZEmit

CONSTANTS
  Programs,   \* sequences of sources
  Rules

\* The rules about what a statement evaluates (OZExpr), and all rules.
StatementRules == {"typed loops", "typed operands", "typed else if"}
AllRules == {"implementation first", "one sign", "one block", "statics first",
             "orphan statics unset", "code at home", "no class extension",
             "protocols in full", "generic names agree", "exact types",
             "virtual ids", "super implements", "own class methods"} \cup StatementRules

ASSUME FrontEndAssumption == Rules \subseteq AllRules

\* What the JSON of Clang's AST gives for a program.
HeadKinds == {"interface", "implementation"}
CategoryKinds == {"category", "category implementation"}
MethodKinds == {"implementation"} \cup CategoryKinds
OtherKinds == {"protocol", "function", "static"}
IsSeq(s) == s \in Seq(ToSet(s))
IsMethod(x) == {"sel", "plus"} \subseteq DOMAIN x /\ x.plus \in BOOLEAN

IsDecl(d) ==
  /\ d.kind \in HeadKinds \cup MethodKinds \cup OtherKinds
  /\ d.kind \notin OtherKinds => d.name \in ToSet(Alphabet)
  /\ d.kind \in MethodKinds => IsSeq(d.methods) /\ \A x \in ToSet(d.methods) : IsMethod(x)
  /\ d.kind = "interface" => IsSeq(d.properties)
  /\ d.kind = "implementation" => IsSeq(d.synthesize)

ASSUME ProgramAssumption ==
  \A p \in Programs : IsSeq(p) /\ \A s \in ToSet(p) :
    IsSeq(s.decls) /\ \A d \in ToSet(s.decls) : IsDecl(d)

ASSUME NameAssumption ==
  /\ IsSeq(Alphabet) /\ None \notin ToSet(Alphabet) /\ None # 0
  /\ "OZSpinLock" \notin {Root, None} /\ "initialize" \notin Unsupported

VARIABLES
  sources,  \* the program
  pc,       \* the next pass
  at,       \* the source and the declaration that are read next
  modules,  \* the modules of the sources that have been read
  module,   \* the one that is being built
  files,    \* the definitions of each generated file
  exit      \* the exit code

vars == <<sources, pc, at, modules, module, files, exit>>

(***************************************************************************)
(* What the sources say.  This part does not use the transpiler's passes.  *)
(***************************************************************************)
Decls(kinds) == UNION {{d \in ToSet(sources[i].decls) : d.kind \in kinds} :
                       i \in DOMAIN sources}
Blocks == {"implementation", "category implementation"}
DeclaredClasses == {d.name : d \in Decls(HeadKinds)}
OwnDecls(s, kinds) == {d \in ToSet(s.decls) : d.main /\ d.kind \in kinds}
InSource(c, s) == \E d \in OwnDecls(s, Blocks) : d.name = c
Superclass(c) ==
  LET known == {d.superclass : d \in {e \in Decls({"interface"}) : e.name = c}} \ {None}
  IN IF known = {} THEN None ELSE CHOOSE x \in known : TRUE

\* The methods, ivars and properties of a class, wherever they stand.
MethodsOf(c) == UNION {ToSet(d.methods) : d \in {e \in Decls(Blocks) : e.name = c}}
IvarsOf(c) ==
  UNION {ToSet(d.ivars) :
           d \in {e \in Decls({"interface", "implementation"}) : e.name = c}}
PropertiesOf(c) ==
  UNION {ToSet(d.properties) : d \in {e \in Decls({"interface"}) : e.name = c}}
LinksOf(c) ==
  UNION {ToSet(d.synthesize) : d \in {e \in Decls({"implementation"}) : e.name = c}}
AdoptedBy(c) ==
  UNION {ToSet(d.protocols) : d \in {e \in Decls({"interface"}) : e.name = c}}
Required(p) == UNION {d.sels : d \in {e \in Decls({"protocol"}) : e.name = p}}

\* A class and everything above it; the whole circle if there is one.
AncestorsOf(c) ==
  LET up[i \in 0..Cardinality(DeclaredClasses)] ==
        IF i = 0 THEN {c}
        ELSE up[i - 1] \cup ({Superclass(a) : a \in up[i - 1]} \cap DeclaredClasses)
  IN up[Cardinality(DeclaredClasses)]
InCircle(c) == \E a \in AncestorsOf(c) : Superclass(a) = c
Accessors(c) ==
  {GetterSel(p) : p \in PropertiesOf(c)}
    \cup {SetterSel(p) : p \in {q \in PropertiesOf(c) : ~q.readonly}}
InstanceSels(c) == {x.sel : x \in {y \in MethodsOf(c) : ~y.plus}} \cup Accessors(c)

\* The class whose method an object of class c runs; None if none does.
\* Every class but the root has a dealloc, written or generated.
RunsIn(c, sel) ==
  LET has == {a \in AncestorsOf(c) : sel \in InstanceSels(a)
                \/ (sel = "dealloc" /\ Superclass(a) \in DeclaredClasses)}
  IN IF has = {} THEN None
     ELSE CHOOSE a \in has : \A b \in has : b \in AncestorsOf(a)

BodiesOf(s) ==
  UNION {{x.body : x \in ToSet(d.methods)} : d \in OwnDecls(s, Blocks)}
    \cup {d.body : d \in OwnDecls(s, {"function"})}
Statements(s) == UNION {ToSet(b) : b \in BodiesOf(s) \ {None}}
AllStatements == UNION {Statements(sources[i]) : i \in DOMAIN sources}

(***************************************************************************)
(* The rules                                                               *)
(***************************************************************************)
\* What a class has in its @implementation only survives if that source is
\* read before any other that imports the class.
ImplementationFirst ==
  \A i \in DOMAIN sources : \A d \in OwnDecls(sources[i], {"implementation"}) :
    LET head == IvarsOf(d.name) \ ToSet(d.ivars)
        guess(n) == IF \E v \in head : v.name = n THEN n ELSE IvarName([name |-> n])
    IN \/ \E l \in ToSet(d.synthesize) : l.ivar # guess(l.property)
       \/ d.ivars # <<>> /\ head # {}
       => \A j \in 1..(i - 1) : \A e \in ToSet(sources[j].decls) :
            e.kind # "interface" \/ e.name # d.name

OneSign ==
  \A x, y \in UNION {MethodsOf(c) : c \in DeclaredClasses} :
    /\ x.sel = y.sel => x.plus = y.plus
    /\ x.plus => \A d \in Decls({"protocol"}) : x.sel \notin d.sels

OneBlock ==
  \A i \in DOMAIN sources : \A d, e \in OwnDecls(sources[i], Blocks) :
    d.name = e.name => d = e

StaticsFirst ==
  \A i \in DOMAIN sources : \A j, k \in DOMAIN sources[i].decls :
    LET ds == sources[i].decls
    IN (j < k /\ ds[j].kind \in Blocks /\ ds[k].kind = "static")
       => ds[k].init # "simple"

OrphanStaticsUnset ==
  \A i \in DOMAIN sources : OwnDecls(sources[i], Blocks) = {} =>
    \A d \in OwnDecls(sources[i], {"static"}) : d.init # "simple"

CodeAtHome ==
  \A c \in DeclaredClasses : \A i, j \in DOMAIN sources :
    (i # j /\ InSource(c, sources[i]) /\ InSource(c, sources[j])) =>
      /\ OwnDecls(sources[i], {"function"}) = {}
      /\ \A x \in MethodsOf(c) : x.sel # "dealloc"
      /\ \A d \in OwnDecls(sources[i], {"static"}) : d.init # "complex"

NoClassExtension ==
  \A d \in Decls({"category"}) : \A e \in Decls({"implementation"}) :
    d.name = e.name => {x.sel : x \in ToSet(d.methods)}
                         \cap {x.sel : x \in ToSet(e.methods)} = {}

ProtocolsInFull ==
  \A d, e \in Decls({"protocol"}) : d.name = e.name => d.sels = e.sels

Declarations == {st \in AllStatements : st.kind = "declare"}
GenericNamesAgree ==
  \A s, t \in Declarations : s.name = t.name => s.params = t.params

Messages(kind) == {st \in AllStatements : st.kind = "send" /\ st.recv = kind}

\* What Clang makes sure of: a class has the superclass of its @interface
\* wherever it is declared, a category extends a declared class, and what it
\* declares is implemented (or the generated C does not link); a message is
\* understood by the class of its receiver, by the superclass or by the class
\* it is sent to.
Declared ==
  /\ \A d \in Decls(HeadKinds) :
       /\ d.superclass \in {None, Superclass(d.name)}
       /\ d.superclass = "OZSpinLock" => d.superclass \in DeclaredClasses
  /\ \A d \in Decls(CategoryKinds) : d.name \in DeclaredClasses
  /\ \A d \in Decls({"category"}) : \A x \in ToSet(d.methods) :
       \E y \in MethodsOf(d.name) : y.sel = x.sel /\ y.plus = x.plus

Compiles ==
  /\ Declared
  /\ \A st \in Messages("typed") : RunsIn(st.type, st.sel) # None
  /\ \A c \in DeclaredClasses : \A x \in MethodsOf(c) : \A st \in Sends(x.body) :
       st.recv = "super" => Superclass(c) \in DeclaredClasses
                            /\ RunsIn(Superclass(c), st.sel) # None
  /\ \A st \in Messages("class") : \E a \in AncestorsOf(st.type) :
       \E x \in MethodsOf(a) : x.plus /\ x.sel = st.sel

\* A receiver of a declared class is an object of that class as far as the
\* selector is concerned.
ExactTypes ==
  \A st \in Messages("typed") : \A c \in DeclaredClasses :
    st.type \in AncestorsOf(c) => RunsIn(c, st.sel) = RunsIn(st.type, st.sel)

\* What is sent to an id is in a vtable: declared in a protocol or
\* implemented by two classes.
VirtualIds ==
  \A st \in Messages("id") :
    \/ \E d \in Decls({"protocol"}) : st.sel \in d.sels
    \/ Cardinality({c \in DeclaredClasses : st.sel \in InstanceSels(c)}) > 1

SuperImplements ==
  \A c \in DeclaredClasses : \A x \in MethodsOf(c) : \A st \in Sends(x.body) :
    st.recv = "super" => st.sel \in InstanceSels(Superclass(c))

OwnClassMethods ==
  \A st \in Messages("class") :
    \E x \in MethodsOf(st.type) : x.plus /\ x.sel = st.sel

Follows ==
  /\ "implementation first" \in Rules => ImplementationFirst
  /\ "one sign" \in Rules => OneSign
  /\ "one block" \in Rules => OneBlock
  /\ "statics first" \in Rules => StaticsFirst
  /\ "orphan statics unset" \in Rules => OrphanStaticsUnset
  /\ "code at home" \in Rules => CodeAtHome
  /\ "no class extension" \in Rules => NoClassExtension
  /\ "protocols in full" \in Rules => ProtocolsInFull
  /\ "generic names agree" \in Rules => GenericNamesAgree
  /\ "exact types" \in Rules => ExactTypes
  /\ "virtual ids" \in Rules => VirtualIds
  /\ "super implements" \in Rules => SuperImplements
  /\ "own class methods" \in Rules => OwnClassMethods

(***************************************************************************)
(* The run                                                                 *)
(***************************************************************************)
Init ==
  /\ sources \in Programs /\ Compiles /\ Follows
  /\ pc = "collect" /\ at = <<1, 1>>
  /\ modules = <<>> /\ module = OZModule
  /\ files = <<>> /\ exit = None

Source == sources[at[1]]

CollectDecl ==
  /\ pc = "collect" /\ at[1] <= Len(sources) /\ at[2] <= Len(Source.decls)
  /\ module' = Collect(module, Source.decls[at[2]])
  /\ at' = [at EXCEPT ![2] = @ + 1]
  /\ UNCHANGED <<sources, pc, modules, files, exit>>

EndSource ==
  /\ pc = "collect" /\ at[1] <= Len(sources) /\ at[2] > Len(Source.decls)
  /\ modules' = Append(modules, TagSource(module, Source))
  /\ module' = OZModule
  /\ at' = <<at[1] + 1, 1>>
  /\ pc' = IF at[1] = Len(sources) THEN "associate" ELSE pc
  /\ UNCHANGED <<sources, files, exit>>

Associate ==
  /\ pc = "associate"
  /\ modules' = [i \in DOMAIN modules |-> AssociateModuleItems(modules[i], sources[i])]
  /\ pc' = "merge"
  /\ UNCHANGED <<sources, at, module, files, exit>>

Pass(from, to, result) ==
  /\ pc = from /\ pc' = to
  /\ module' = result
  /\ UNCHANGED <<sources, at, modules, files, exit>>

Finish(code) ==
  /\ pc' = "done" /\ exit' = code
  /\ UNCHANGED <<sources, at, modules, module, files>>

Merge == Pass("merge", "generics", MergeModules(modules))
Generics == Pass("generics", "hierarchy", ExtractSourceGenerics(module, sources))
ValidateHierarchy ==
  /\ ~HasCycle(module.classes)
  /\ Pass("hierarchy", "synthesize", module)

InheritanceCycle ==
  /\ pc = "hierarchy" /\ HasCycle(module.classes)
  /\ Finish(1)
Synthesize == Pass("synthesize", "duplicates", SynthesizeProperties(module))
CheckDuplicates == Pass("duplicates", "ids", CheckDuplicateMethods(module))
AssignIds == Pass("ids", "depths", AssignClassIds(module))
ComputeDepths == Pass("depths", "dispatch", ComputeBaseDepths(module))
Classify == Pass("dispatch", "conformance", ClassifyDispatch(module))
CheckConformance ==
  Pass("conformance", "types", CheckProtocolConformance(module))
ValidateTypes == Pass("types", "initialize", ValidateGenericTypes(module))
CollectInitialize ==
  Pass("initialize", "check", CollectInitializeClasses(module))

Reject ==
  /\ pc \in {"check", "emitted"} /\ module.errors # {}
  /\ Finish(1)

EmitFiles ==
  /\ pc = "check" /\ module.errors = {}
  /\ LET m == EnsureFoundationTags(InjectSpinLock(module))
     IN /\ files' = Emit(m, sources)
        /\ module' = [m EXCEPT !.errors = @ \cup
             {Error("initialize", st.type, st.sel) : st \in ExplicitInitialize(m)}]
  /\ pc' = "emitted"
  /\ UNCHANGED <<sources, at, modules, exit>>

Accept ==
  /\ pc = "emitted" /\ module.errors = {}
  /\ Finish(0)

Next ==
  \/ CollectDecl \/ EndSource \/ Associate \/ Merge \/ Generics
  \/ ValidateHierarchy \/ InheritanceCycle \/ Synthesize \/ CheckDuplicates
  \/ AssignIds \/ ComputeDepths \/ Classify \/ CheckConformance
  \/ ValidateTypes \/ CollectInitialize \/ Reject \/ EmitFiles \/ Accept

Spec == Init /\ [][Next]_vars

(***************************************************************************)
(* Properties                                                              *)
(***************************************************************************)
Resolved == pc = "check" /\ module.errors = {}

\* After all passes a class has the superclass, the protocols, the ivars and
\* the method bodies its sources give it, each once, whatever the order of
\* the sources (merge_modules, collect.py).
NothingLost ==
  Resolved => \A c \in DeclaredClasses :
    LET k == At(module.classes, c)
    IN /\ k.superclass = Superclass(c)
       /\ ToSet(k.protocols) = AdoptedBy(c)
       /\ ToSet(k.ivars) = IvarsOf(c)
       /\ Len(k.ivars) = Cardinality(IvarsOf(c))
       /\ \A x \in MethodsOf(c) :
            Cardinality(Places(k.methods, LAMBDA y :
              y.sel = x.sel /\ y.plus = x.plus /\ y.body = x.body)) = 1

\* A property is read and written through one method each, the user's if he
\* wrote one, and a generated one accesses the ivar that @synthesize names or
\* the default one, which the struct has (_synthesize_properties).
SynthesizedIvar(c, p) ==
  LET links == {l \in LinksOf(c) : l.property = p.name}
  IN IF links = {} THEN IvarName(p) ELSE (CHOOSE l \in links : TRUE).ivar

AccessorsExact ==
  Resolved => \A c \in DeclaredClasses : \A p \in PropertiesOf(c) :
    \A sel \in {GetterSel(p)} \cup (IF p.readonly THEN {} ELSE {SetterSel(p)}) :
      LET k == At(module.classes, c)
          ms == {x \in ToSet(k.methods) : x.sel = sel}
      IN \E x \in ms :
           /\ ms = {x}
           /\ IF \E y \in MethodsOf(c) : y.sel = sel
              THEN HasBody(x)
              ELSE /\ x.property.ivar = SynthesizedIvar(c, p)
                   /\ \E v \in ToSet(k.ivars) : v.name = x.property.ivar

\* A program is refused exactly if the language or the documented subset
\* does not have it: a circle of superclasses, a weak property, a selector
\* that is not supported, a missing method of a protocol, an element of the
\* wrong type in a collection, or a message that calls +initialize.
FitsType(t, k) ==
  \/ t.kind = "id" \/ k.kind = "id"
  \/ k.kind = "class" /\ t.kind = "proto"
  \/ k.kind = "class" /\ t.kind = "class" /\ k.name \in AncestorsOf(t.name)
  \/ k.kind = "proto" /\ t.kind = "proto" /\ k.name = t.name
  \/ /\ k.kind = "proto" /\ t.kind = "class"
     /\ \E a \in AncestorsOf(t.name) : k.name \in AdoptedBy(a)

IllTyped(st) ==
  /\ st.kind \in {"declare", "assign"} /\ st.literal # None
  /\ \E i \in DOMAIN st.literal.elems :
       ~FitsType(st.literal.elems[i], ParamFor(st.literal.kind, st.params, i))

IllFormed ==
  \/ \E c \in DeclaredClasses :
       \/ InCircle(c)
       \/ \E p \in PropertiesOf(c) : p.weak
       \/ \E x \in MethodsOf(c) : x.sel \in Unsupported
       \/ \E p \in AdoptedBy(c) :
            ~(Required(p) \subseteq UNION {InstanceSels(a) : a \in AncestorsOf(c)})
  \/ \E st \in AllStatements : IllTyped(st)
  \/ \E st \in Messages("class") : st.sel = "initialize"

RejectsExactly == pc = "done" => (exit = 1 <=> IllFormed)

\* Class numbers are 0, 1, ... with every superclass before its subclasses,
\* also when OZSpinLock is added at the end, and the +initialize methods run
\* once per class and in that order (_assign_class_ids, oz_isKindOfClass).
SuperFirst ==
  exit = 0 =>
    LET cs == module.classes
        starts == module.initialize
    IN /\ {cs[i].id : i \in DOMAIN cs} = 0..(Len(cs) - 1)
       /\ \A i \in DOMAIN cs : Known(cs, cs[i].superclass) =>
            At(cs, cs[i].superclass).id < cs[i].id
       /\ ToSet(starts) = {c \in DeclaredClasses :
                             \E x \in MethodsOf(c) : x.plus /\ x.sel = "initialize"}
       /\ \A i, j \in DOMAIN starts :
            i # j => starts[i] # starts[j]
                     /\ (starts[i] \in AncestorsOf(starts[j]) => i < j)

\* Every message reaches the method that Objective-C runs, for every class
\* its receiver can have, and every vtable has exactly the entries of the
\* classes that respond (_classify_dispatch, _emit_msg_expr,
\* _find_implementing_class).
Meant(c, sel) ==
  IF RunsIn(c, sel) = None THEN None ELSE MethodFn(RunsIn(c, sel), FALSE, sel)

Reached(callee, c) ==
  IF callee.kind = "vtable" THEN VtableEntry(module, c, callee.name) ELSE callee

Reaches(n, st) ==
  LET callee == EmitMsgExpr(module, n, st)
  IN CASE st.recv = "typed" -> \A c \in DeclaredClasses : st.type \in AncestorsOf(c)
                                 => Reached(callee, c) = Meant(c, st.sel)
       [] st.recv = "id"    -> \A c \in DeclaredClasses : RunsIn(c, st.sel) # None
                                 => Reached(callee, c) = Meant(c, st.sel)
       [] st.recv = "super" -> callee = Meant(Superclass(n), st.sel)
       [] st.recv = "class" -> callee = MethodFn(st.type, TRUE, st.sel)

DispatchExact ==
  exit = 0 =>
    /\ \A c \in DeclaredClasses : \A x \in MethodsOf(c) :
         \A st \in Sends(x.body) : Reaches(c, st)
    /\ \A d \in Decls({"function"}) : \A st \in Sends(d.body) :
         Reaches("__patched__", st)
    /\ \A sel \in VtableSelectors(module) : \A c \in DeclaredClasses :
         VtableEntry(module, c, sel) = Meant(c, sel)

\* Every method, accessor and function of the program is defined once in all
\* generated files, and a dealloc is generated only for a class without one
\* (emit, build_source_context).
Copies(def) ==
  Cardinality(UNION {{<<f, i>> : i \in {j \in DOMAIN files[f] : files[f][j] = def}} :
                     f \in DOMAIN files})

EmittedOnce ==
  exit = 0 =>
    /\ \A c \in DeclaredClasses :
         /\ \A x \in MethodsOf(c) : Copies(MethodFn(c, x.plus, x.sel)) = 1
         /\ \A sel \in Accessors(c) : Copies(MethodFn(c, FALSE, sel)) = 1
         /\ RunsIn(c, "dealloc") = c =>
              Copies(MethodFn(c, FALSE, "dealloc")) + Copies(AutoDealloc(c)) = 1
    /\ \A d \in Decls({"function"}) : HasBody(d) => Copies(FunctionFn(d.name)) = 1

\* A static variable of a source is defined in one file only, where all of
\* the source's methods and functions are, and once unless C takes the
\* second definition for a tentative one (_emit_patched_source).
UsersOf(s) ==
  UNION {{MethodFn(d.name, x.plus, x.sel) : x \in ToSet(d.methods)} :
         d \in OwnDecls(s, Blocks)}
    \cup {FunctionFn(d.name) : d \in {e \in OwnDecls(s, {"function"}) : HasBody(e)}}

StaticsInScope ==
  exit = 0 => \A i \in DOMAIN sources :
    \A d \in OwnDecls(sources[i], {"static"}) :
      \E f \in DOMAIN files :
        /\ Contains(files[f], StaticVar(d.name))
        /\ UsersOf(sources[i]) \subseteq ToSet(files[f])
        /\ \A g \in DOMAIN files \ {f} : ~Contains(files[g], StaticVar(d.name))
        /\ d.init = "none" \/ Copies(StaticVar(d.name)) = 1

\* A static variable of a source without classes is written once: what the
\* preamble defines is blanked in the text (_emit_patched_orphan_source).
OrphanStaticsOnce ==
  exit = 0 => \A i \in DOMAIN module.orphans :
    \A v \in ToSet(module.orphans[i].statics) :
      v.init = "simple" => Copies(StaticVar(v.name)) = 1
=============================================================================
