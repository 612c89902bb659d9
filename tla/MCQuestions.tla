----------------------------- MODULE MCQuestions -----------------------------
(***************************************************************************)
(* GraphAnswers as MCGraphAnswers has it, and Comparison over two source    *)
(* files, a test file and a file of a structural language. A baseline has   *)
(* two classes with a field each, or functions with callers in a test, in a *)
(* source file and in their own, or functions that read like one another,   *)
(* or a class and a function that mentions it.                              *)
(***************************************************************************)
EXTENDS MCGraphAnswers, Questions

src == 1
lib == 2
test == 3
script == 4

MCLanguageOf == (0 :> "none") @@ (src :> "rust") @@ (lib :> "rust") @@ (test :> "rust")
                @@ (script :> "lua")

Decl(file, name, kind, signature, line, end) ==
  [file |-> file, name |-> name, kind |-> kind, signature |-> signature, line |-> line, end |-> end]
Id(s) == <<s.file, s.name, s.kind>>
Call(s, t) == [from |-> Id(s), to |-> Id(t), kind |-> "Calls", line |-> 1]
Import(s, t) == [from |-> Id(s), to |-> t, kind |-> "Imports", line |-> 1]

(* Signatures are a symbol's name and a word, 8 or 9.                       *)
f1 == Decl(src, 1, "function", <<1, 8>>, 1, 2)
f2 == Decl(src, 2, "function", <<2, 8>>, 3, 4)
g1 == Decl(lib, 1, "function", <<1, 8>>, 1, 2)
t1 == Decl(test, 1, "function", <<1, 9>>, 1, 2)
x1 == Decl(script, 1, "function", <<1, 8>>, 1, 2)
x2 == Decl(script, 2, "function", << >>, 3, 3)
c1 == Decl(src, 1, "class", <<1, 8>>, 1, 1)
p1 == Decl(src, 1, "property", << >>, 2, 2)
c2 == Decl(src, 2, "class", <<2, 8>>, 3, 5)
p2 == Decl(src, 2, "property", << >>, 4, 4)
package == <<0, 9, "package">>

(* Were b1 moved and b3 renamed to 2, b1 could be taken for the one renamed. *)
b1 == Decl(src, 1, "function", <<1, 2>>, 1, 2)
b3 == Decl(src, 3, "function", <<3, 3>>, 3, 4)

(* m2 mentions m1 in its signature, and calls it back.                      *)
m1 == Decl(src, 1, "class", <<1, 8>>, 1, 2)
m2 == Decl(src, 2, "function", <<2, 1>>, 3, 4)

MCBaselines ==
  {[symbols |-> {f1, g1, t1}, refs |-> {Call(g1, f1), Call(t1, f1)}],
   [symbols |-> {f1, f2, x1, x2}, refs |-> {Call(f1, f2), Call(x1, x2)}],
   [symbols |-> {c1, p1, c2, p2}, refs |-> {Call(c2, p1), Import(c1, package)}],
   [symbols |-> {b1, b3}, refs |-> {Call(b1, b3)}],
   [symbols |-> {m1, m2}, refs |-> {Call(m1, m2), Call(m2, m1)}]}
MCSpare == {f2}
MCGlobs == {{src}, {src, lib, test}, {script}}
=============================================================================
