-------------------------------- MODULE Desugar --------------------------------
(***************************************************************************)
(* The lowering of classes and decorators: syntax/classes.go.  It runs at  *)
(* the end of Parse when the file's options enable classes; the parser     *)
(* entry of the REPL, ParseCompoundStmt, does not call it.                 *)
(*                                                                         *)
(* Nodes that were written keep their position.  The new ones get theirs   *)
(* below that of the class, or the decorated def, that they are made for:  *)
(* in the file they all stand where it stands (Origin).                    *)
(***************************************************************************)
EXTENDS Syntax, FiniteSetsExt

(* The new nodes of n, whose parts that were written are left as they are. *)
RECURSIVE Stamp(_, _)
Stamp(n, at) ==
  IF "at" \in DOMAIN n THEN n
  ELSE ("at" :> at) @@
       [f \in DOMAIN n |->
          IF IsList(n.k, f) THEN [j \in DOMAIN n[f] |-> Stamp(n[f][j], at \o <<f, j>>)]
          ELSE IF IsNode(f) /\ n[f] # None THEN Stamp(n[f], at \o <<f, 0>>) ELSE n[f]]
Stamped(ns, at) == [j \in DOMAIN ns |-> Stamp(ns[j], at \o <<"lowered", j>>)]
(* The node among those at written that the node at stands for.            *)
Origin(at, written) == SubSeq(at, 1, Max({k \in 0..Len(at) : SubSeq(at, 1, k) \in written}))

Make == Ident("$make_class")
BuilderName(n) == "$class" \o ToString(n)

(* applyDecorators: the first decorator is applied last.                   *)
RECURSIVE Decorate(_, _)
Decorate(decs, x) ==
  IF decs = <<>> THEN x ELSE CallExpr(Head(decs), <<Decorate(Tail(decs), x)>>)

(* The names a class body binds, in source order and once each.            *)
Bound(s) == IF s.k \in {"Def", "Class"} THEN <<s.name>>
            ELSE IF s.k = "Assign" /\ s.lhs.k = "Ident" THEN <<s.lhs.name>> ELSE <<>>
Once(names) ==
  LeftFold(LAMBDA acc, x : IF x \in ToSet(acc) THEN acc ELSE Append(acc, x), <<>>, names)
Members(body) == Once(Concat([j \in DOMAIN body |-> Bound(body[j])]))
NamespaceDict(members) ==
  DictExpr([j \in DOMAIN members |-> DictEntry(Literal("STRING", members[j]), Ident(members[j]))])

RECURSIVE Lower(_, _), LowerStmt(_, _)
(* The lowered statements, and the number of the last builder.             *)
Lower(stmts, n) ==
  LET s == LowerStmt(Head(stmts), n)
      rest == Lower(Tail(stmts), s[2])
  IN IF stmts = <<>> THEN <<<<>>, n>> ELSE <<s[1] \o rest[1], rest[2]>>

LowerClass(c, n) ==
  LET body == Lower(c.body, n + 1)
      builder == Def(BuilderName(n + 1), <<>>,
                     Append(body[1], Return(NamespaceDict(Members(c.body)))), <<>>)
      made == CallExpr(Make, <<Literal("STRING", c.name), TupleExpr(c.bases),
                               CallExpr(Ident(BuilderName(n + 1)), <<>>)>>)
  IN <<Stamped(<<builder, Assign("=", Ident(c.name), Decorate(c.decs, made))>>, c.at), body[2]>>

LowerDef(s, n) ==
  LET body == Lower(s.body, n)
      def == [s EXCEPT !.body = body[1], !.decs = <<>>]
      assign == Assign("=", Ident(s.name), Decorate(s.decs, Ident(s.name)))
  IN <<<<def>> \o (IF s.decs = <<>> THEN <<>> ELSE Stamped(<<assign>>, s.at)), body[2]>>

LowerStmt(s, n) ==
  LET t == Lower(s.t, n)
      f == Lower(s.f, t[2])
      body == Lower(s.body, n)
  IN CASE s.k = "Class" -> LowerClass(s, n)
       [] s.k = "Def" -> LowerDef(s, n)
       [] s.k = "If" -> <<<<[s EXCEPT !.t = t[1], !.f = f[1]]>>, f[2]>>
       [] s.k \in {"For", "While"} -> <<<<[s EXCEPT !.body = body[1]]>>, body[2]>>
       [] OTHER -> <<<<s>>, n>>

DesugarClasses(stmts) == Lower(stmts, 0)[1]
=============================================================================
