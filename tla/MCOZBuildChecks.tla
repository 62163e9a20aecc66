----------------------------- MODULE MCOZBuildChecks -----------------------------
EXTENDS OZBuildChecks

CONSTANTS A, B, C, K, fa, fb, fc, main, thread, f, g

(***************************************************************************)
(* Sources for the cycle check                                             *)
(***************************************************************************)
Import(file, quoted) == [to |-> file, quoted |-> quoted]
Field(class, kind) == [target |-> class, kind |-> kind]
Strong(classes) == {Field(c, "strong") : c \in classes}
Interface(class, super, fields) == [name |-> class, super |-> super, fields |-> fields]
NoImports == [file \in {fa, fb, fc} |-> {}]
Source(imports, interfaces) ==
  [files |-> DOMAIN interfaces, classes |-> {A, B, C}, sources |-> {fa},
   imports |-> imports, interfaces |-> interfaces, exact |-> TRUE]
OneFile(a, b, c) == Source(NoImports, fa :> <<a, b, c>>)

\* Every hierarchy of three classes with every choice of strong references.
Plain ==
  {OneFile(Interface(A, Nobody, Strong(refs[A])), Interface(B, sup[B], Strong(refs[B])),
           Interface(C, sup[C], Strong(refs[C]))) :
     sup \in {s \in [{B, C} -> {Nobody, A, B}] : s[B] # B},
     refs \in [{A, B, C} -> SUBSET {A, B, C}]}

\* Files that import each other, one of which does not exist, with a class that
\* is extended in another file; <...> imports are not followed.
Files(quoted, superOfB) ==
  Source(fa :> {Import(fb, quoted)} @@ fb :> {Import(fa, TRUE), Import(fc, TRUE)},
         fa :> <<Interface(A, Nobody, Strong({C})), Interface(B, superOfB, {})>>
         @@ fb :> <<Interface(B, A, {}), Interface(C, Nobody, Strong({B}))>>)

\* A back reference that does not retain, that may be anything, that has "assign"
\* in the name of its getter, or goes through a collection.
Back(kind) == OneFile(Interface(A, Nobody, Strong({B})), Interface(B, Nobody, {Field(A, kind)}),
                      Interface(C, C, {}))
Collection == [Back("unretained") EXCEPT !.classes = {A, B, C, K},
  !.interfaces = fa :> <<Interface(A, Nobody, Strong({K})), Interface(K, Nobody, {})>>]

\* The field of C may hold a B, which holds a C.
Inexact == [OneFile(Interface(A, Nobody, {}), Interface(B, A, Strong({C})),
                    Interface(C, Nobody, Strong({A}))) EXCEPT !.exact = FALSE]

MCSources == Plain
  \cup {Files(q, s) : q \in BOOLEAN, s \in {A, Nobody}}
  \cup {Back(k) : k \in {"unretained", "any", "named assign"}} \cup {Collection, Inexact}

(***************************************************************************)
(* Programs for the pools                                                  *)
(***************************************************************************)
New(class) == [kind |-> "alloc", class |-> class, seen |-> Unseen, runs |-> Unseen, times |-> 1]
Do(seen, runs, times) == [kind |-> "call", class |-> Unseen, seen |-> seen, runs |-> runs, times |-> times]
Bodies(nodes, n) == UNION {[1..k -> nodes] : k \in 0..n}

\* main and f of up to two nodes, a thread, a program without either, and programs
\* with a loop, recursion, and a call whose receiver is of another class.
MCPrograms ==
  {main :> m @@ f :> b @@ g :> <<New(A)>> @@ thread :> t :
     m \in Bodies({New(A), New(B), Do(f, f, 1), Do(g, g, 1)}, 2),
     b \in Bodies({New(B), Do(g, g, 1)}, 2), t \in Bodies({New(A), Do(f, f, 1)}, 1)}
  \cup {f :> b @@ g :> <<New(A), New(A)>> : b \in Bodies({New(B), Do(g, g, 1)}, 2)}
  \cup {main :> <<Do(f, f, 2)>> @@ f :> <<New(A)>>,
        main :> <<New(A), Do(main, main, 1)>>,
        main :> <<New(A), Do(Unseen, f, 1)>> @@ f :> <<New(A)>>}
=============================================================================
