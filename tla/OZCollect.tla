------------------------------- MODULE OZCollect -------------------------------
(***************************************************************************)
(* From the declarations of each source to one module: collect.py and the  *)
(* first half of __main__.py.                                              *)
(*                                                                         *)
(* A source is [stem, stub, decls, generics].  A declaration is a record   *)
(* with a kind, what Clang says of it, and whether it stands in the source *)
(* itself (main) or came in with a header.  Python's dicts keep the order  *)
(* of insertion and that order matters, so a dict is a sequence of records *)
(* with distinct names.                                                    *)
(***************************************************************************)
EXTENDS Naturals, Sequences, FiniteSets, SequencesExt

CONSTANTS
  Root,         \* the root class
  Foundation,   \* the names of _FOUNDATION_NAMES
  Unsupported,  \* the selectors of _UNSUPPORTED_METHOD_SELECTORS
  Alphabet,     \* the class names in alphabetical order
  None

Least(S) == CHOOSE i \in S : \A j \in S : i <= j
Places(seq, P(_)) == {i \in DOMAIN seq : P(seq[i])}
FirstOr(seq, P(_), else) ==
  IF Places(seq, P) = {} THEN else ELSE seq[Least(Places(seq, P))]

Keys(d) == {d[i].name : i \in DOMAIN d}
At(d, n) == d[CHOOSE i \in DOMAIN d : d[i].name = n]
Put(d, r) == IF r.name \in Keys(d)
             THEN [i \in DOMAIN d |-> IF d[i].name = r.name THEN r ELSE d[i]]
             ELSE Append(d, r)
Given(new, old) == IF new = <<>> THEN old ELSE new
\* The elements of seq that are in S, in their order.
Keep(seq, S) ==
  FoldLeft(LAMBDA kept, x : IF x \in S THEN Append(kept, x) ELSE kept, <<>>, seq)
Union(s, t) == s \o Keep(t, ToSet(t) \ ToSet(s))

(***************************************************************************)
(* Modules and classes                                                     *)
(***************************************************************************)
OZModule == [classes |-> <<>>, protocols |-> <<>>, functions |-> <<>>,
             statics |-> <<>>, orphans |-> <<>>, errors |-> {},
             initialize |-> <<>>, generics |-> <<>>, paths |-> {}]

OZClass(n) == [name |-> n, superclass |-> None, ivars |-> <<>>,
               protocols |-> <<>>, properties |-> <<>>, methods |-> <<>>,
               functions |-> <<>>, statics |-> <<>>, stem |-> None,
               foundation |-> FALSE, id |-> None, depth |-> 0]

OZMethod(sel, plus, body, property) ==
  [sel |-> sel, plus |-> plus, body |-> body, property |-> property,
   dispatch |-> "static"]

HasBody(method) == method.body # None
Implemented(c) == \E i \in DOMAIN c.methods : HasBody(c.methods[i])
Error(kind, class, item) == [kind |-> kind, class |-> class, item |-> item]

ClassOr(m, n) == IF n \in Keys(m.classes) THEN At(m.classes, n) ELSE OZClass(n)

(***************************************************************************)
(* One declaration                                                         *)
(***************************************************************************)
\* A weak property is an error and is dropped.
CollectProperties(ps) ==
  LET kept == Keep(ps, {p \in ToSet(ps) : ~p.weak})
  IN [i \in DOMAIN kept |->
        [name |-> kept[i].name, readonly |-> kept[i].readonly,
         getter |-> kept[i].getter, setter |-> kept[i].setter,
         obj |-> kept[i].obj, ivar |-> None]]

CollectInterface(m, d) ==
  LET c == ClassOr(m, d.name)
  IN [m EXCEPT
        !.classes = Put(@, [c EXCEPT
           !.superclass = IF @ = None THEN d.superclass ELSE @,
           !.ivars = Given(d.ivars, @),
           !.protocols = Given(d.protocols, @),
           !.properties = Given(CollectProperties(d.properties), @)]),
        !.errors = @ \cup {Error("weak", d.name, p.name) :
                             p \in {q \in ToSet(d.properties) : q.weak}}]

\* @synthesize p = i
LinkProperty(ps, link) ==
  [i \in DOMAIN ps |-> IF ps[i].name = link.property
                       THEN [ps[i] EXCEPT !.ivar = link.ivar] ELSE ps[i]]

CollectImplementation(m, d) ==
  LET c == ClassOr(m, d.name)
      bad == {x \in ToSet(d.methods) : x.sel \in Unsupported}
  IN [m EXCEPT
        !.classes = Put(@, [c EXCEPT
           !.superclass = IF @ = None THEN d.superclass ELSE @,
           !.ivars = @ \o d.ivars,
           !.methods = @ \o Keep(d.methods, ToSet(d.methods) \ bad),
           !.properties = FoldLeft(LinkProperty, @, d.synthesize)]),
        !.errors = @ \cup {Error("unsupported", d.name, x.sel) : x \in bad}]

\* Mutant: a declaration without a body also takes the method's place.
OverrideAlways(methods, new) ==
  LET same == Places(methods, LAMBDA x : x.sel = new.sel)
  IN IF same = {} THEN Append(methods, new)
     ELSE [methods EXCEPT ![Least(same)] = new]

\* A method of a category, or of a class that is merged, takes the place of
\* the first one with its selector unless it would lose a body.
Override(methods, new) ==
  LET same == Places(methods, LAMBDA x : x.sel = new.sel)
  IN IF same = {} THEN Append(methods, new)
     ELSE IF HasBody(new) \/ ~HasBody(methods[Least(same)])
     THEN [methods EXCEPT ![Least(same)] = new]
     ELSE methods

CollectCategory(m, d) ==
  LET c == ClassOr(m, d.name)
  IN [m EXCEPT !.classes = Put(@, [c EXCEPT
        !.methods = FoldLeft(Override, @, d.methods)])]

CollectProtocol(m, d) ==
  [m EXCEPT !.protocols = Put(@, [name |-> d.name, sels |-> d.sels])]

CollectFunction(m, d) ==
  IF d.main /\ HasBody(d)
  THEN [m EXCEPT !.functions = Append(@, [name |-> d.name, body |-> d.body])]
  ELSE m

\* A variable whose initializer cannot be repeated stays in the source text.
CollectStaticVar(m, d) ==
  IF d.main /\ d.init # "complex"
  THEN [m EXCEPT !.statics = Append(@, [name |-> d.name, init |-> d.init])]
  ELSE m

Collect(m, d) ==
  CASE d.kind = "interface"      -> CollectInterface(m, d)
    [] d.kind = "implementation" -> CollectImplementation(m, d)
    [] d.kind \in {"category", "category implementation"} -> CollectCategory(m, d)
    [] d.kind = "protocol"       -> CollectProtocol(m, d)
    [] d.kind = "function"       -> CollectFunction(m, d)
    [] d.kind = "static"         -> CollectStaticVar(m, d)

(***************************************************************************)
(* One source                                                              *)
(***************************************************************************)
\* What main does with the module of a source: SDK classes are marked, and a
\* class with code in a file of another name belongs to that file.
TagClass(c, s) ==
  [c EXCEPT !.foundation = @ \/ s.stub,
            !.stem = IF Implemented(c) /\ c.name # s.stem THEN s.stem ELSE @]

TagSource(m, s) ==
  [m EXCEPT !.paths = {s.stem},
            !.classes = [i \in DOMAIN @ |-> TagClass(@[i], s)]]

\* The first class with code, one of the user's if there is one; 0 if none.
Primary(cs) ==
  LET code == Places(cs, Implemented)
      user == {i \in code : cs[i].name \notin Foundation}
  IN IF user # {} THEN Least(user) ELSE IF code # {} THEN Least(code) ELSE 0

\* The functions and variables of a source go to its primary class, or stay
\* together as an orphan source.
AssociateModuleItems(m, s) ==
  LET cleared == [m EXCEPT !.functions = <<>>, !.statics = <<>>]
      p == Primary(m.classes)
  IN IF m.functions = <<>> /\ m.statics = <<>> THEN m
     ELSE IF p = 0
     THEN [cleared EXCEPT !.orphans = Append(@, [stem |-> s.stem,
             functions |-> m.functions, statics |-> m.statics])]
     ELSE [cleared EXCEPT !.classes[p].functions = @ \o m.functions,
                          !.classes[p].statics = @ \o m.statics]

(***************************************************************************)
(* All sources                                                             *)
(***************************************************************************)
MergeClass(old, c) ==
  [old EXCEPT !.superclass = IF @ = None THEN c.superclass ELSE @,
              !.ivars = Given(@, c.ivars),
              !.protocols = Union(@, c.protocols),
              !.properties = Given(@, c.properties),
              !.methods = FoldLeft(Override, @, c.methods),
              !.functions = @ \o c.functions,
              !.statics = @ \o c.statics,
              !.stem = IF @ = None THEN c.stem ELSE @]

MergeClasses(cs, c) ==
  Put(cs, IF c.name \in Keys(cs) THEN MergeClass(At(cs, c.name), c) ELSE c)

MergeModule(merged, m) ==
  [merged EXCEPT !.classes = FoldLeft(MergeClasses, @, m.classes),
                 !.protocols = FoldLeft(Put, @, m.protocols),
                 !.functions = @ \o m.functions,
                 !.statics = @ \o m.statics,
                 !.errors = @ \cup m.errors,
                 !.orphans = @ \o m.orphans,
                 !.paths = @ \cup m.paths]

MergeModules(ms) ==
  IF Len(ms) > 1 THEN FoldLeft(MergeModule, OZModule, ms) ELSE ms[1]

\* Types that Clang drops are read from the source text again and kept by
\* the bare name of what they are the type of.
ExtractSourceGenerics(m, sources) ==
  [m EXCEPT !.generics =
     FoldLeft(LAMBDA g, s : FoldLeft(Put, g, s.generics), @, sources)]
=============================================================================
