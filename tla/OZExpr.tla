--------------------------------- MODULE OZExpr ---------------------------------
(***************************************************************************)
(* Expressions of a statement, as the source has them and as the emitter   *)
(* writes them.  The receiver of a message that goes through a vtable and  *)
(* the elements of a literal become temporary variables, which are written *)
(* before the statement.                                                   *)
(*                                                                         *)
(* An expression is a record whose op is "var", "message" (recv, send),    *)
(* "&&" or "||" (left, right), "?:" (test, left, right) or "array" (of),   *)
(* and, in what is written, "tmp" (at), "buffer" (of) and "filled" (of).   *)
(***************************************************************************)
EXTENDS OZFrontEnd

Var == [op |-> "var"]
Tmp(i) == [op |-> "tmp", at |-> i]

(***************************************************************************)
(* _emit_expr: the text of an expression, after the temporaries in pre     *)
(***************************************************************************)
\* Mutant: the counter of the temporaries stands still.
HoistSameName(pre, e) == [pre |-> Append(pre, e), text |-> Tmp(1)]

Hoist(pre, e) == [pre |-> Append(pre, e), text |-> Tmp(Len(pre) + 1)]

RECURSIVE EmitExpr(_, _, _, _)
EmitExpr(m, n, e, pre) ==
  CASE e.op = "var" -> [pre |-> pre, text |-> e]
    [] e.op = "message" ->
         LET inner == EmitExpr(m, n, e.recv, pre)
             recv  == IF EmitMsgExpr(m, n, e.send).kind = "vtable"
                      THEN Hoist(inner.pre, inner.text) ELSE inner
         IN [recv EXCEPT !.text = [e EXCEPT !.recv = recv.text]]
    [] e.op \in {"&&", "||"} ->
         LET left  == EmitExpr(m, n, e.left, pre)
             right == EmitExpr(m, n, e.right, left.pre)
         IN [right EXCEPT !.text = [e EXCEPT !.left = left.text, !.right = right.text]]
    [] e.op = "?:" ->
         LET test  == EmitExpr(m, n, e.test, pre)
             left  == EmitExpr(m, n, e.left, test.pre)
             right == EmitExpr(m, n, e.right, left.pre)
         IN [right EXCEPT !.text = [e EXCEPT !.test = test.text, !.left = left.text,
                                             !.right = right.text]]
    [] e.op = "array" ->
         LET inner == EmitExpr(m, n, e.of, pre)
             buffer == Hoist(inner.pre, [op |-> "buffer", of |-> inner.text])
         IN [buffer EXCEPT !.text = [op |-> "filled", of |-> buffer.text]]

(***************************************************************************)
(* _emit_stmt                                                              *)
(***************************************************************************)
\* A statement is one of the Forms with a test; a for loop has an init and an inc.
\* plain is what is evaluated once: an expression, a declaration, an assignment,
\* return and switch.
Forms == {"plain", "if", "else if", "while", "do", "for"}

\* The temporaries of all parts come before the statement.  After "else" they
\* are no statement, and do does not write them at all.
EmitStmt(m, n, st) ==
  LET init == EmitExpr(m, n, st.init, <<>>)
      test == EmitExpr(m, n, st.test, init.pre)
      inc  == EmitExpr(m, n, st.inc, test.pre)
  IN [form |-> st.form, pre |-> inc.pre,
      init |-> init.text, test |-> test.text, inc |-> inc.text,
      compiles |-> inc.pre = <<>> \/ st.form \notin {"else if", "do"}]

(***************************************************************************)
(* What a statement does when it runs, in either language                  *)
(***************************************************************************)
\* Pass i of a loop leaves other values behind than pass i + 1.
ValueIn(name, pass) == <<name, pass>>

\* The value of an expression and the calls it makes, each with its receiver.
RECURSIVE Eval(_, _, _, _)
Eval(e, pass, tmps, true) ==
  LET eval(x) == Eval(x, pass, tmps, true)
      then(x, y) == [y EXCEPT !.calls = x.calls \o @]
      call(name, x) == [val |-> ValueIn(name, pass),
                        calls |-> Append(x.calls, <<name, x.val>>)]
  IN CASE e.op = "var" -> [val |-> ValueIn("x", pass), calls |-> <<>>]
       [] e.op = "tmp" -> [val |-> tmps[e.at], calls |-> <<>>]
       [] e.op = "message" -> call(e.send.sel, eval(e.recv))
       [] e.op = "&&" -> IF eval(e.left).val \in true
                         THEN then(eval(e.left), eval(e.right)) ELSE eval(e.left)
       [] e.op = "||" -> IF eval(e.left).val \in true
                         THEN eval(e.left) ELSE then(eval(e.left), eval(e.right))
       [] e.op = "?:" -> then(eval(e.test),
                              eval(IF eval(e.test).val \in true THEN e.left ELSE e.right))
       [] e.op = "array"  -> call("array", call("retain", eval(e.of)))
       [] e.op = "buffer" -> call("retain", eval(e.of))
       [] e.op = "filled" -> call("array", eval(e.of))

\* The temporaries, one after the other.
Prepare(pre, pass, true) ==
  FoldLeft(LAMBDA done, e :
             LET r == Eval(e, pass, done.tmps, true)
             IN [tmps |-> Append(done.tmps, r.val), calls |-> done.calls \o r.calls],
           [tmps |-> <<>>, calls |-> <<>>], pre)

\* The calls of a statement whose tests have the values in true.  The variable of
\* a for loop is set by its init, and a loop is left after two passes.
Run(st, true) ==
  LET before == IF st.form = "for" THEN 0 ELSE 1
      ready == Prepare(st.pre, before, true)
      calls(e, pass) == Eval(e, pass, ready.tmps, true).calls
      holds(pass) == Eval(st.test, pass, ready.tmps, true).val \in true
      body(pass) == <<<<"body", ValueIn("x", pass)>>>>
      again == calls(st.inc, 1) \o calls(st.test, 2)
               \o IF holds(2) THEN body(2) ELSE <<>>
  IN ready.calls
     \o CASE st.form = "plain" -> calls(st.test, 1)
          [] st.form \in {"if", "else if"} ->
               calls(st.test, 1) \o IF holds(1) THEN body(1) ELSE <<>>
          [] st.form \in {"while", "for"} ->
               calls(st.init, 0) \o calls(st.test, 1)
               \o IF holds(1) THEN body(1) \o again ELSE <<>>
          [] st.form = "do" ->
               body(1) \o calls(st.test, 1)
               \o IF holds(1) THEN body(2) \o calls(st.test, 2) ELSE <<>>

(***************************************************************************)
(* The rules about statements, and what they are written for               *)
(***************************************************************************)
\* A loop and the test of an else if have no polymorphic messages and no literals.
\* What is evaluated under a condition may send polymorphic messages to variables.
RECURSIVE Parts(_)
Parts(e) ==
  {e} \cup UNION {Parts(x) :
    x \in CASE e.op = "message" -> {e.recv}
           [] e.op \in {"&&", "||"} -> {e.left, e.right}
           [] e.op = "?:" -> {e.test, e.left, e.right}
           [] e.op = "array" -> {e.of}
           [] OTHER -> {}}
Typed(e) ==
  \A x \in Parts(e) : x.op # "array" /\ (x.op = "message" => x.send.recv = "typed")
TypedReceivers(e) ==
  \A x \in Parts(e) : x.op # "array" /\ (x.op = "message" => x.send.recv = "typed" \/ x.recv = Var)

TypedLoop(st) == st.form \in {"while", "do", "for"} => Typed(st.test) /\ Typed(st.inc)
TypedElseIf(st) == st.form = "else if" => Typed(st.test)
TypedOperands(st) ==
  \A e \in Parts(st.test) :
    /\ e.op \in {"&&", "||"} => TypedReceivers(e.right)
    /\ e.op = "?:" => TypedReceivers(e.left) /\ TypedReceivers(e.right)

KeepsRules(st) ==
  /\ "typed loops" \in Rules => TypedLoop(st)
  /\ "typed operands" \in Rules => TypedOperands(st)
  /\ "typed else if" \in Rules => TypedElseIf(st)
Controls == {st \in AllStatements : st.kind = "control" /\ KeepsRules(st)}

\* Every statement that keeps the rules makes the calls that its source means,
\* on the receivers and in the order that it means, whatever they return
\* (_emit_stmt, _flush_pre_stmts).
CallsOf(st) == {x.send.sel : x \in {y \in Parts(st.test) : y.op = "message"}}
EvaluatedInOrder ==
  exit = 0 => \A st \in Controls :
    LET written == EmitStmt(module, "__patched__", st)
    IN /\ written.compiles
       /\ \A true \in SUBSET (CallsOf(st) \X {1, 2}) :
            Run(written, true) = Run(st, true)
=============================================================================
