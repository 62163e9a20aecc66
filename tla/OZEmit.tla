-------------------------------- MODULE OZEmit --------------------------------
(***************************************************************************)
(* What emit.py, context.py and extract.py write of a resolved module: the *)
(* C function each message calls, the vtables, and which definitions go    *)
(* into which file.  A C function of a method is named by its class, its   *)
(* sign (class methods are X_cls_sel) and its selector.                    *)
(***************************************************************************)
EXTENDS OZResolve

MethodFn(class, plus, sel) ==
  [kind |-> "method", class |-> class, plus |-> plus, name |-> sel]
FunctionFn(n) == [kind |-> "function", class |-> None, plus |-> FALSE, name |-> n]
StaticVar(n)  == [kind |-> "static", class |-> None, plus |-> FALSE, name |-> n]

(***************************************************************************)
(* Classes                                                                 *)
(***************************************************************************)
\* @synchronized needs OZSpinLock, with a number after all others.
UsesSync(m) ==
  \E b \in Bodies(m) : b # None /\ \E i \in DOMAIN b : b[i].kind = "sync"

InjectSpinLock(m) ==
  IF ~UsesSync(m) \/ Known(m.classes, "OZSpinLock") THEN m
  ELSE [m EXCEPT !.classes = Append(@,
          [OZClass("OZSpinLock") EXCEPT
             !.superclass = Root, !.id = Len(m.classes), !.depth = 1,
             !.foundation = TRUE])]

TagFoundation(c) == [c EXCEPT !.foundation = @ \/ c.name \in Foundation \cup {Root}]

EnsureFoundationTags(m) ==
  [m EXCEPT !.classes = [i \in DOMAIN @ |-> TagFoundation(@[i])]]

IsRoot(m, c) == ~Known(m.classes, c.superclass)
HasAutoDealloc(m, c) ==
  ~IsRoot(m, c) \/ \E i \in DOMAIN c.ivars : c.ivars[i].obj

(***************************************************************************)
(* Calls                                                                   *)
(***************************************************************************)
NearestWith(m, n, sel) ==
  FirstOr(Chain(m.classes, n),
          LAMBDA a : sel \in Selectors(At(m.classes, a)), None)

\* The entry of class n in the vtable of sel; None if it stays empty.
VtableEntry(m, n, sel) ==
  LET impl == IF sel = "dealloc" /\ HasAutoDealloc(m, At(m.classes, n))
              THEN n ELSE NearestWith(m, n, sel)
  IN IF impl = None THEN None ELSE MethodFn(impl, FALSE, sel)

VtableSelectors(m) ==
  {x.sel : x \in {y \in AllMethods(m) : y.dispatch = "protocol" /\ ~y.plus}}

DispatchKind(m, sel) ==
  LET owner == FirstOr(m.classes, LAMBDA c : sel \in Selectors(c), None)
  IN IF owner = None THEN "static"
     ELSE FirstOr(owner.methods, LAMBDA x : x.sel = sel, None).dispatch

\* What a class without a superclass has in any case.
RootSels == <<"retain", "release", "retainCount", "isEqual:", "cDescription:maxLength:">>

\* The class a direct call names: the nearest one with the selector, or the
\* starting point if there is none.
DefiningClass(m, n, sel) ==
  IF ~Known(m.classes, n) THEN n
  ELSE FirstOr(Chain(m.classes, n),
               LAMBDA a : \/ sel \in Selectors(At(m.classes, a))
                          \/ sel \in ToSet(RootSels) /\ At(m.classes, a).superclass = None,
               n)

OwnClassMethod(m, n, sel) ==
  Known(m.classes, n) /\ \E x \in ToSet(At(m.classes, n).methods) :
                           x.sel = sel /\ x.plus

Virtual(sel) == [kind |-> "vtable", class |-> None, plus |-> FALSE, name |-> sel]

\* The callee of a message in a method of class n.  An id receiver has no
\* static type.
EmitMsgExpr(m, n, send) ==
  CASE send.recv = "super" ->
         LET super == SuperOf(m.classes, n)
         IN MethodFn(IF super = None THEN Root ELSE super, FALSE, send.sel)
    [] send.recv = "class" ->
         MethodFn(send.type, OwnClassMethod(m, send.type, send.sel), send.sel)
    [] send.recv \in {"typed", "id"} ->
         LET typed == send.recv = "typed"
         IN IF DispatchKind(m, send.sel) = "protocol"
            THEN IF typed /\ Known(m.classes, send.type)
                 THEN MethodFn(DefiningClass(m, send.type, send.sel), FALSE, send.sel)
                 ELSE Virtual(send.sel)
            ELSE MethodFn(DefiningClass(m, IF typed THEN send.type ELSE n, send.sel),
                          FALSE, send.sel)

Sends(body) ==
  IF body = None THEN {} ELSE {st \in ToSet(body) : st.kind = "send"}
ExplicitInitialize(m) ==
  {st \in UNION {Sends(b) : b \in Bodies(m)} :
     st.recv = "class" /\ st.sel = "initialize"}

(***************************************************************************)
(* Files                                                                   *)
(***************************************************************************)
HeaderStem(c) == IF c.stem = None THEN c.name ELSE c.stem
Group(m, stem) == SelectSeq(m.classes, LAMBDA c : HeaderStem(c) = stem)
Stems(m) == {HeaderStem(c) : c \in ToSet(m.classes)}

Emitted(c, x) == MethodFn(c.name, x.plus, x.sel)
AutoDealloc(n) == [kind |-> "auto", class |-> n, plus |-> FALSE, name |-> "dealloc"]
Deallocs(m, c) ==
  IF HasAutoDealloc(m, c) /\ c.name # "OZSpinLock" THEN <<AutoDealloc(c.name)>> ELSE <<>>

Apply(seq, Op(_)) == [i \in DOMAIN seq |-> Op(seq[i])]
StaticNames(statics) == {v.name : v \in ToSet(statics)}
StaticDefs(statics) == Apply(statics, LAMBDA v : StaticVar(v.name))

\* The root class's are generated, whatever its source has of them.
RootDefs(c) ==
  IF c.name = Root THEN Apply(RootSels, LAMBDA sel : MethodFn(Root, FALSE, sel)) ELSE <<>>
MethodDefs(c, methods) ==
  Apply(SelectSeq(methods, LAMBDA x : c.name # Root \/ x.sel \notin ToSet(RootSels)),
        LAMBDA x : Emitted(c, x))

\* _class_source_ctx and class_source.c.j2: the whole class, from the model.
ClassSource(m, c) ==
  LET own == \E x \in ToSet(c.methods) : x.sel = "dealloc"
  IN StaticDefs(c.statics) \o RootDefs(c)
     \o Apply(c.functions, LAMBDA f : FunctionFn(f.name))
     \o MethodDefs(c, c.methods)
     \o IF own THEN <<>> ELSE Deallocs(m, c)

\* Mutant: the generated dealloc is written beside the user's.
ImplBlockDealloc(m, c, d, left) ==
  StaticDefs(SelectSeq(c.statics, LAMBDA v : v.name \in left))
    \o RootDefs(c) \o MethodDefs(c, c.methods) \o Deallocs(m, c)

\* _build_impl_context: one @implementation block of a source, of a class or
\* of a category.  left: the static variables not met in the text yet.
ImplBlock(m, c, d, left) ==
  LET here(x) == \E i \in DOMAIN d.methods :
                   d.methods[i].sel = x.sel /\ d.methods[i].plus = x.plus
      written == SelectSeq(d.methods, LAMBDA x :
                   \E y \in ToSet(c.methods) : y.sel = x.sel /\ y.plus = x.plus)
      others == SelectSeq(c.methods, LAMBDA x :
                  ~here(x) /\ x.sel # "dealloc" /\ (HasBody(x) \/ x.property # None))
      own == \E x \in ToSet(written) : x.sel = "dealloc"
  IN StaticDefs(SelectSeq(c.statics, LAMBDA v : v.name \in left))
     \o RootDefs(c) \o MethodDefs(c, others \o written)
     \o IF own THEN <<>> ELSE Deallocs(m, c)

\* Mutant: the variable is written again before the next class.
PatchStaticAgain(classes, file, d) ==
  [file EXCEPT !.defs = Append(@, StaticVar(d.name))]

\* A variable of a class stays where the text has it.
PatchStatic(classes, file, d) ==
  [file EXCEPT !.defs = Append(@, StaticVar(d.name)),
               !.left = IF \E c \in ToSet(classes) : d.name \in StaticNames(c.statics)
                        THEN @ \ {d.name} ELSE @]

\* One declaration of the source text, in order.
PatchDecl(m, classes, file, d) ==
  CASE d.kind \in {"implementation", "category implementation"} ->
         IF d.name \in Keys(classes)
         THEN [file EXCEPT !.defs = @ \o ImplBlock(m, At(classes, d.name), d, file.left)]
         ELSE file
    [] d.kind = "function" /\ HasBody(d) ->
         [file EXCEPT !.defs = Append(@, FunctionFn(d.name))]
    [] d.kind = "static" -> PatchStatic(classes, file, d)
    [] OTHER -> file

\* _emit_patched_source: the text of a source with its classes filled in.
PatchSource(m, classes, left, source) ==
  FoldLeft(LAMBDA f, d : PatchDecl(m, classes, f, d), [defs |-> <<>>, left |-> left],
           SelectSeq(source.decls, LAMBDA d : d.main)).defs

SourceOf(sources, stem) ==
  sources[CHOOSE i \in DOMAIN sources : sources[i].stem = stem]

ClassFile(m, sources, stem) ==
  LET classes == Group(m, stem)
      patched == stem \in m.paths /\ \E c \in ToSet(classes) : ~c.foundation
  IN IF patched
     THEN PatchSource(m, classes, UNION {StaticNames(c.statics) : c \in ToSet(classes)},
                      SourceOf(sources, stem))
     ELSE FoldLeft(LAMBDA defs, c : defs \o ClassSource(m, c), <<>>, classes)

\* The variables of an orphan source are written before its text.
OrphanFile(m, sources, orphan) ==
  StaticDefs(orphan.statics)
    \o PatchSource(m, <<>>, StaticNames(orphan.statics), SourceOf(sources, orphan.stem))

\* The definitions of each file.  An orphan source is written after the
\* classes, over a file of the same name.
Emit(m, sources) ==
  LET orphans == {o.stem : o \in ToSet(m.orphans)}
      orphan(stem) == FirstOr(m.orphans, LAMBDA o : o.stem = stem, None)
  IN [stem \in Stems(m) \cup orphans |->
        IF stem \in orphans THEN OrphanFile(m, sources, orphan(stem))
        ELSE ClassFile(m, sources, stem)]
=============================================================================
