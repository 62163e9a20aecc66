------------------------------- MODULE OZResolve -------------------------------
(***************************************************************************)
(* The passes of resolve.py over the merged module, in the order in which  *)
(* resolve() calls them.  The body of a method or function is a sequence   *)
(* of statements: a message ("send"), a variable that is declared with or  *)
(* assigned a collection literal ("declare", "assign"), or an entry of     *)
(* @synchronized ("sync").                                                 *)
(***************************************************************************)
EXTENDS OZCollect

Known(cs, n) == n \in Keys(cs)
SuperOf(cs, n) == At(cs, n).superclass

\* The classes from n to its root, n first: as many of them as there are
\* classes, and one more if the superclasses of n go round in a circle.
WithSuper(cs, below) ==
  LET super == SuperOf(cs, Last(below))
  IN IF Known(cs, super) THEN Append(below, super) ELSE below
Chain(cs, n) ==
  LET up[i \in 0..Len(cs)] == IF i = 0 THEN <<n>> ELSE WithSuper(cs, up[i - 1])
  IN up[Len(cs)]

Selectors(c) == {c.methods[i].sel : i \in DOMAIN c.methods}
AllMethods(m) == UNION {ToSet(m.classes[i].methods) : i \in DOMAIN m.classes}
Sorted(names) == Keep(Alphabet, names)

(***************************************************************************)
(* _validate_hierarchy                                                     *)
(***************************************************************************)
HasCycle(cs) == \E n \in Keys(cs) : Len(Chain(cs, n)) > Len(cs)

(***************************************************************************)
(* _synthesize_properties                                                  *)
(***************************************************************************)
IvarName(p) == "_" \o p.name
GetterSel(p) == IF p.getter # None THEN p.getter ELSE p.name
SetterSel(p) == IF p.setter # None THEN p.setter ELSE "set" \o p.name \o ":"

AddAccessor(methods, sel, p) ==
  IF \E i \in DOMAIN methods : methods[i].sel = sel THEN methods
  ELSE Append(methods, OZMethod(sel, FALSE, None, p))

BareIvar(c, p) == p.ivar = None /\ \E i \in DOMAIN c.ivars : c.ivars[i].name = p.name

\* Mutant: an ivar with the property's own name is not looked for.
NameIvarDefault(c, p) ==
  IF p.ivar # None THEN p ELSE [p EXCEPT !.ivar = IvarName(p)]

NameIvar(c, p) ==
  IF p.ivar # None THEN p
  ELSE [p EXCEPT !.ivar = IF BareIvar(c, p) THEN p.name ELSE IvarName(p)]

AddAccessors(methods, p) ==
  LET getter == AddAccessor(methods, GetterSel(p), p)
  IN IF p.readonly THEN getter ELSE AddAccessor(getter, SetterSel(p), p)

SynthesizeClass(c) ==
  LET ps == [i \in DOMAIN c.properties |-> NameIvar(c, c.properties[i])]
  IN [c EXCEPT !.properties = ps, !.methods = FoldLeft(AddAccessors, @, ps)]

SynthesizeProperties(m) ==
  [m EXCEPT !.classes = [i \in DOMAIN @ |-> SynthesizeClass(@[i])]]

(***************************************************************************)
(* _check_duplicate_methods                                                *)
(***************************************************************************)
Duplicates(c) ==
  {c.methods[i].sel : i \in {j \in DOMAIN c.methods : \E k \in 1..(j - 1) :
     /\ c.methods[k].sel = c.methods[j].sel
     /\ c.methods[k].plus = c.methods[j].plus}}

CheckDuplicateMethods(m) ==
  [m EXCEPT !.errors = @ \cup
     UNION {{Error("duplicate", c.name, s) : s \in Duplicates(c)} :
            c \in ToSet(m.classes)}]

(***************************************************************************)
(* _assign_class_ids and _compute_base_depths                              *)
(***************************************************************************)
\* Mutant: alphabetical numbers.
ClassOrderSorted(cs) == Sorted(Keys(cs))

\* The recursion gives a class its number after its superclass has one.
ClassOrder(cs) ==
  FoldLeft(LAMBDA done, n : Union(done, Reverse(Chain(cs, n))),
           <<>>, Sorted(Keys(cs)))

AssignClassIds(m) ==
  LET order == ClassOrder(m.classes)
      place(n) == CHOOSE i \in DOMAIN order : order[i] = n
  IN [m EXCEPT !.classes =
        [i \in DOMAIN @ |-> [@[i] EXCEPT !.id = place(m.classes[i].name) - 1]]]

ComputeBaseDepths(m) ==
  [m EXCEPT !.classes = [i \in DOMAIN @ |->
     [@[i] EXCEPT !.depth = Len(Chain(m.classes, m.classes[i].name)) - 1]]]

(***************************************************************************)
(* _classify_dispatch                                                      *)
(***************************************************************************)
AlwaysProtocol == {"dealloc", "init", "isEqual:", "cDescription:maxLength:"}
ProtocolSelectors(m) == UNION {m.protocols[i].sels : i \in DOMAIN m.protocols}
Implementors(m, sel) ==
  {n \in Keys(m.classes) : \E x \in ToSet(At(m.classes, n).methods) :
                             x.sel = sel /\ ~x.plus}

\* Mutant: a method that is overridden stays static.
ByProtocolDeclared(m, x) ==
  ~x.plus /\ (x.sel \in ProtocolSelectors(m) \/ x.sel \in AlwaysProtocol)

ByProtocol(m, x) ==
  /\ ~x.plus
  /\ \/ x.sel \in ProtocolSelectors(m)
     \/ x.sel \in AlwaysProtocol
     \/ Cardinality(Implementors(m, x.sel)) > 1

Classified(m, x) == IF ByProtocol(m, x) THEN [x EXCEPT !.dispatch = "protocol"] ELSE x

ClassifyMethods(m, c) ==
  [c EXCEPT !.methods = [j \in DOMAIN @ |-> Classified(m, @[j])]]

ClassifyDispatch(m) ==
  [m EXCEPT !.classes = [i \in DOMAIN @ |-> ClassifyMethods(m, @[i])]]

(***************************************************************************)
(* _check_protocol_conformance                                             *)
(***************************************************************************)
\* Mutant: inherited methods do not count.
RespondsAlone(m, n) == Selectors(At(m.classes, n))

Responds(m, n) ==
  UNION {Selectors(At(m.classes, a)) : a \in ToSet(Chain(m.classes, n))}

MissingMethods(m, c) ==
  UNION {At(m.protocols, p).sels :
           p \in {q \in ToSet(c.protocols) : q \in Keys(m.protocols)}}
  \ Responds(m, c.name)

CheckProtocolConformance(m) ==
  [m EXCEPT !.errors = @ \cup
     UNION {{Error("conformance", c.name, s) : s \in MissingMethods(m, c)} :
            c \in ToSet(m.classes)}]

(***************************************************************************)
(* _validate_generic_types.  A type is [id], [proto, name] or [class,      *)
(* name]; a collection type is the sequence of its parameters.             *)
(***************************************************************************)
ConformsTo(m, n, p) ==
  \E a \in ToSet(Chain(m.classes, n)) : Contains(At(m.classes, a).protocols, p)

Satisfies(m, elem, constraint) ==
  \/ elem.kind = "id" \/ constraint.kind = "id"
  \/ /\ constraint.kind = "proto" /\ elem.kind = "proto"
     /\ elem.name = constraint.name
  \/ /\ constraint.kind = "proto" /\ elem.kind = "class"
     /\ Known(m.classes, elem.name)
     /\ ConformsTo(m, elem.name, constraint.name)
  \/ constraint.kind = "class" /\ elem.kind = "proto"
  \/ /\ constraint.kind = "class" /\ elem.kind = "class"
     /\ \/ elem.name = constraint.name
        \/ /\ Known(m.classes, elem.name)
           /\ \E a \in ToSet(Chain(m.classes, elem.name)) :
                SuperOf(m.classes, a) = constraint.name

\* The elements of an array have the one parameter of its type; those of a
\* dictionary are keys and values in turn.
ParamFor(kind, params, i) ==
  IF kind = "array" THEN params[1] ELSE params[IF i % 2 = 1 THEN 1 ELSE 2]

Mismatches(m, params, literal) ==
  IF literal = None \/ params = <<>> THEN {}
  ELSE IF literal.kind = "dict" /\ Len(params) < 2 THEN {}
  ELSE {literal.elems[i] : i \in {j \in DOMAIN literal.elems :
          ~Satisfies(m, literal.elems[j], ParamFor(literal.kind, params, j))}}

\* One statement of the walk, with the variables declared so far.
WalkGeneric(m, walk, st) ==
  CASE st.kind = "declare" ->
         LET params == IF st.name \in Keys(m.generics)
                       THEN At(m.generics, st.name).params ELSE <<>>
         IN IF params = <<>> THEN walk
            ELSE [vars |-> Put(walk.vars, [name |-> st.name, params |-> params]),
                  bad |-> walk.bad \cup Mismatches(m, params, st.literal)]
    [] st.kind = "assign" ->
         IF st.name \in Keys(walk.vars)
         THEN [walk EXCEPT !.bad = @ \cup
                 Mismatches(m, At(walk.vars, st.name).params, st.literal)]
         ELSE walk
    [] OTHER -> walk

BodyMismatches(m, body) ==
  IF body = None THEN {}
  ELSE FoldLeft(LAMBDA w, st : WalkGeneric(m, w, st),
                [vars |-> <<>>, bad |-> {}], body).bad

Functions(m) ==
  ToSet(m.functions)
    \cup UNION {ToSet(m.classes[i].functions) : i \in DOMAIN m.classes}
    \cup UNION {ToSet(m.orphans[i].functions) : i \in DOMAIN m.orphans}
Bodies(m) == {x.body : x \in AllMethods(m)} \cup {f.body : f \in Functions(m)}

ValidateGenericTypes(m) ==
  [m EXCEPT !.errors = @ \cup
     {Error("generic", t.kind, t.name) : t \in UNION {BodyMismatches(m, b) : b \in Bodies(m)}}]

(***************************************************************************)
(* _collect_initialize_classes                                             *)
(***************************************************************************)
Initializes(c) == \E x \in ToSet(c.methods) : x.plus /\ x.sel = "initialize"

ById(cs) ==
  LET place == CHOOSE p \in Bijection(DOMAIN cs, DOMAIN cs) :
                 \A i, j \in DOMAIN cs : i < j => cs[p[i]].id <= cs[p[j]].id
  IN [i \in DOMAIN cs |-> cs[place[i]]]

CollectInitializeClasses(m) ==
  LET own == Keep(ById(m.classes), {c \in ToSet(m.classes) : Initializes(c)})
  IN [m EXCEPT !.initialize = [i \in DOMAIN own |-> own[i].name]]
=============================================================================
