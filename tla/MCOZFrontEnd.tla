----------------------------- MODULE MCOZFrontEnd -----------------------------
(***************************************************************************)
(* The programs that the front end is checked with: families of small      *)
(* programs over a root class and two more, one family for each group of   *)
(* passes.                                                                 *)
(***************************************************************************)
EXTENDS OZExpr

MCAlphabet == <<"A", "B", "OZObject", "OZSpinLock">>

Interface(n, super, ivars, protocols, properties) ==
  [kind |-> "interface", main |-> FALSE, name |-> n, superclass |-> super,
   ivars |-> ivars, protocols |-> protocols, properties |-> properties]
Implementation(n, ivars, methods, synthesize) ==
  [kind |-> "implementation", main |-> TRUE, name |-> n, superclass |-> None,
   ivars |-> ivars, methods |-> methods, synthesize |-> synthesize]
Category(n, methods) ==
  [kind |-> "category", main |-> FALSE, name |-> n, methods |-> methods]
CategoryBlock(n, methods) ==
  [kind |-> "category implementation", main |-> TRUE, name |-> n, methods |-> methods]
Protocol(n, sels) ==
  [kind |-> "protocol", main |-> FALSE, name |-> n, sels |-> sels]
Function(n, body) ==
  [kind |-> "function", main |-> TRUE, name |-> n, body |-> body]
Static(n, init) == [kind |-> "static", main |-> TRUE, name |-> n, init |-> init]
File(stem, decls) ==
  [stem |-> stem, stub |-> stem = Root, decls |-> decls, generics |-> <<>>]

Minus(sel, body) == OZMethod(sel, FALSE, body, None)
Plus(sel, body) == OZMethod(sel, TRUE, body, None)
Ivar(n) == [name |-> n, obj |-> FALSE]
Send(recv, type, sel) ==
  [kind |-> "send", recv |-> recv, type |-> type, sel |-> sel]

RootInterface == Interface(Root, None, <<>>, <<>>, <<>>)
RootFile(methods) ==
  File(Root, <<RootInterface,
               Implementation(Root, <<>>,
                 <<Minus("dealloc", <<>>), Minus("isEqual:", <<>>)>> \o methods, <<>>)>>)

(***************************************************************************)
(* Who implements f, and who sends it                                      *)
(***************************************************************************)
Variants == {<<>>, <<Minus("f", <<>>)>>, <<Plus("f", <<>>)>>}
Receivers == {Send("typed", "A", "f"), Send("typed", "B", "f"), Send("id", None, "f"),
              Send("super", None, "f"), Send("class", "B", "f")}

DispatchPrograms ==
  {<<RootFile(IF rf THEN <<Minus("f", <<>>)>> ELSE <<>>),
     File("B", <<RootInterface>>
        \o (IF pf THEN <<Protocol("P", {"f"})>> ELSE <<>>)
        \o <<Interface("A", sa, <<>>, IF pf /\ ad THEN <<"P">> ELSE <<>>, <<>>),
             Interface("B", sb, <<>>, <<>>, <<>>),
             Implementation("B", <<>>, <<Minus("g", <<st>>)>> \o fb, <<>>),
             Implementation("A", <<>>, fa \o <<Plus("initialize", <<>>)>>, <<>>)>>)>> :
   rf, pf, ad \in BOOLEAN, sa \in {Root, "B", "Gone"}, sb \in {Root, "A"},
   fa, fb \in Variants, st \in Receivers}

(***************************************************************************)
(* Who has a +initialize                                                   *)
(***************************************************************************)
Permutations3(a, b, c) ==
  {<<a, b, c>>, <<a, c, b>>, <<b, a, c>>, <<b, c, a>>, <<c, a, b>>, <<c, b, a>>}

InitializePrograms ==
  UNION {
    LET starts(n) == IF n \in own THEN <<Plus("initialize", <<>>)>> ELSE <<>>
        a == Interface("A", sa, <<>>, <<>>, <<>>)
        b == Interface("B", sb, <<>>, <<>>, <<>>)
        source(n, d, e, super) ==
          File(n, <<RootInterface>> \o (IF super = Root THEN <<>> ELSE <<e>>)
                    \o <<d, Implementation(n, <<>>, starts(n), <<>>)>>)
    IN Permutations3(RootFile(starts(Root)), source("A", a, b, sa), source("B", b, a, sb)) :
    sa \in {Root, "B"}, sb \in {Root, "A"}, own \in SUBSET {Root, "A", "B"}}

(***************************************************************************)
(* Where the parts of a class stand                                        *)
(***************************************************************************)
Property(n) == [name |-> n, weak |-> FALSE, readonly |-> FALSE, obj |-> FALSE,
                getter |-> None, setter |-> None]
Link(p, i) == [property |-> p, ivar |-> i]

Orders(a, b) == {<<a, b>>, <<b, a>>}

DataPrograms ==
  UNION {
    LET inImpl == own \o (IF prop = "auto" THEN <<Ivar("_x")>>
                          ELSE IF prop = "bare" THEN <<Ivar("x")>> ELSE <<>>)
        header == Interface("A", Root, head
                              \o (CASE prop = "link" -> <<Ivar("y")>>
                                    [] prop = "same" -> <<Ivar("x")>> [] OTHER -> <<>>),
                            <<>>, IF prop = "none" THEN <<>> ELSE <<Property("x")>>)
        links == IF prop = "none" THEN <<>>
                 ELSE <<Link("x", CASE prop = "auto" -> "_x" [] prop = "link" -> "y"
                                    [] prop \in {"bare", "same"} -> "x")>>
        extension == IF ext THEN <<Category("A", <<Minus("f", None)>>)>> ELSE <<>>
        a == File("A", <<RootInterface, header>> \o extension
                         \o <<Implementation("A", inImpl, <<Minus("f", <<>>)>>, links)>>)
        user == File("main", <<RootInterface, header, Function("main", <<>>)>>)
    IN {<<RootFile(<<>>)>> \o o : o \in Orders(a, user)}
      \cup {o \o <<RootFile(<<>>)>> : o \in Orders(a, user)} :
    head \in {<<>>, <<Ivar("h")>>}, own \in {<<>>, <<Ivar("i")>>},
    prop \in {"none", "auto", "bare", "same", "link"}, ext \in BOOLEAN}

(***************************************************************************)
(* Where code stands: categories, functions and static variables           *)
(***************************************************************************)
HeaderA == <<RootInterface, Interface("A", Root, <<>>, <<>>, <<>>)>>

CodePrograms ==
  UNION {
    LET block == Implementation("A", <<>>, <<Minus("f", <<>>)>> \o
                   IF own THEN <<Minus("dealloc", <<Send("super", None, "dealloc")>>)>>
                   ELSE <<>>, <<>>)
        extra == CategoryBlock("A", <<Minus("c", <<[kind |-> "sync"]>>)>>)
        declared == IF cat = "no" THEN <<>> ELSE <<Category("A", <<Minus("c", None)>>)>>
        function(n) == IF fn = n THEN <<Function("helper", <<>>)>> ELSE <<>>
        a == File("A", HeaderA
               \o (IF cat = "here" THEN declared ELSE <<>>)
               \o (IF where = "before" THEN <<Static("s", init)>> ELSE <<>>)
               \o <<block>> \o (IF cat = "here" THEN <<extra>> ELSE <<>>)
               \o (IF where = "after" THEN <<Static("s", init)>> ELSE <<>>)
               \o function("A"))
        c == File("A+C", HeaderA \o declared
               \o (IF cat = "apart" THEN <<extra>> ELSE <<>>) \o function("A+C"))
        user == File("main", HeaderA \o declared
               \o (IF main = "class"
                   THEN <<Interface("B", "A", <<>>, <<>>, <<>>),
                          Implementation("B", <<>>, <<Minus("f", <<>>)>>, <<>>)>>
                   ELSE <<Static("m", main)>>)
               \o <<Function("main", <<Send("typed", "A", "f")>>)>>)
    IN {<<RootFile(<<>>)>> \o o : o \in Permutations3(a, c, user)} :
    own \in BOOLEAN, cat \in {"no", "here", "apart"}, where \in {"no", "before", "after"},
    init \in {"none", "simple", "complex"},
    fn \in {"no", "A", "A+C"}, main \in {"class", "none", "simple"}}

(***************************************************************************)
(* Types of collections, protocols, and what is refused                    *)
(***************************************************************************)
AnyId == [kind |-> "id", name |-> "id"]
Proto(p) == [kind |-> "proto", name |-> p]
Class(c) == [kind |-> "class", name |-> c]
Literal(kind, elems) == [kind |-> kind, elems |-> elems]
Assigns(kind, n, params, literal) ==
  [kind |-> kind, name |-> n, params |-> params, literal |-> literal]

TypePrograms ==
  {<<[File("A",
       <<RootInterface, Protocol("P", {"f"}), Protocol("Q", ps),
         Interface("A", Root, <<>>, <<"P">>, <<>>),
         Interface("B", "A", <<>>, <<>>, <<>>),
         Implementation("A", <<>>, <<Minus("f",
           <<Assigns("declare", "arr", p, Literal(shape, <<t, Class("B")>>))>>)>>, <<>>),
         Function("g", <<Assigns("declare", n, q, None),
                         Assigns("assign", n, q, Literal("array", <<t>>))>>)>>)
     EXCEPT !.generics = <<[name |-> "arr", params |-> p], [name |-> n, params |-> q]>>]>> :
   p \in {<<Proto("P"), Class("A")>>, <<Class("B"), Proto("P")>>, <<AnyId, Proto("Q")>>},
   q \in {<<Proto("P")>>, <<Class("A")>>, <<Class("B"), Proto("P")>>},
   t \in {Class("A"), Class("B"), Proto("P"), Proto("Q"), AnyId},
   n \in {"arr", "brr"}, shape \in {"array", "dict"}, ps \in {{}, {"f", "q"}}}

RefusedPrograms ==
  {<<File("A",
       (IF fwd = "first" THEN <<Protocol("P", {})>> ELSE <<>>)
       \o <<RootInterface, Protocol("P", {"f", "x"})>>
       \o (IF fwd = "last" THEN <<Protocol("P", {})>> ELSE <<>>)
       \o <<Interface("A", Root, <<Ivar("_x")>>, <<>>,
              <<[Property("x") EXCEPT !.weak = weak, !.readonly = ro,
                                      !.getter = IF g THEN "isX" ELSE None]>>),
            Interface("B", "A", <<>>, <<"P">>, <<>>),
            Implementation("A", <<>>, ms, <<Link("x", "_x")>>),
            Implementation("B", <<>>, <<Plus("initialize", <<>>)>> \o fs, <<>>)>>)>> :
   weak, ro, g \in BOOLEAN, fwd \in {"no", "first", "last"},
   ms \in {<<>>, <<Minus("x", <<>>)>>, <<Minus("forwardInvocation:", <<>>)>>},
   fs \in {<<Minus("f", <<Send("class", "B", "initialize")>>)>>,
           <<Minus("f", <<>>)>>, <<Plus("f", <<>>)>>, <<>>}}

(***************************************************************************)
(* Statements                                                              *)
(***************************************************************************)
Message(recv, type, e, sel) ==
  [op |-> "message", recv |-> e, send |-> Send(recv, type, sel)]
Plain(e, sel) == Message("typed", "A", e, sel)
Polymorphic(e, sel) == Message("id", None, e, sel)
Either(e, sel) == {Plain(e, sel), Polymorphic(e, sel)}
Array(e) == [op |-> "array", of |-> e]

Simple == Either(Var, "f") \cup {Plain(Array(Var), "f")}
Chained == UNION {Either(e, "g") : e \in Simple}
Operands == Either(Var, "g") \cup {Polymorphic(Plain(Var, "g"), "h")}
Joined ==
  {[op |-> op, left |-> l, right |-> r] : op \in {"&&", "||"}, l \in Simple, r \in Operands}
  \cup {[op |-> "?:", test |-> t, left |-> l, right |-> Var] : t \in Simple, l \in Operands}
Tests == Simple \cup Chained \cup UNION {Either(e, "h") : e \in Chained} \cup Joined

Control(form, init, test, inc) ==
  [kind |-> "control", form |-> form, pre |-> <<>>, init |-> init, test |-> test, inc |-> inc]
MCStatements ==
  {Control(form, Var, test, Var) : form \in Forms \ {"for"}, test \in Tests}
  \cup {Control("for", i, test, c) : i \in {Var} \cup Chained, test \in {Var} \cup Tests,
                                    c \in {Var} \cup Either(Var, "h")}

\* Each in a function of a program whose two classes have all methods.
StatementPrograms ==
  {<<RootFile(<<>>),
     File("main",
       <<RootInterface, Interface("A", Root, <<>>, <<>>, <<>>),
         Interface("B", Root, <<>>, <<>>, <<>>),
         Implementation("A", <<>>, all, <<>>), Implementation("B", <<>>, all, <<>>),
         Function("main", <<st>>)>>)>> :
   st \in MCStatements, all \in {<<Minus("f", <<>>), Minus("g", <<>>), Minus("h", <<>>)>>}}

MCPrograms ==
  DispatchPrograms \cup InitializePrograms \cup DataPrograms \cup CodePrograms \cup TypePrograms
    \cup RefusedPrograms \cup StatementPrograms

\* Sources without classes may give their static variables a value.
OrphanRules == AllRules \ {"orphan statics unset"}
=============================================================================
