------------------------------- MODULE Toolchain -------------------------------
(***************************************************************************)
(* From source to result: starlark.ExecFileOptions, by way of              *)
(* syntax.Parse, resolve.REPLChunk, compile.File, Program.Write and        *)
(* CompiledProgram, and Program.Init.  One action per stage, then one per  *)
(* instruction of the Machine.                                             *)
(*                                                                         *)
(* A source is a syntax tree as somebody means it, ss, how it is laid out  *)
(* (noisy, inline), the file options opts, whether the environment refuses *)
(* operations (fails) and whether the positions of its nodes are spread    *)
(* over the file (spread).                                                 *)
(***************************************************************************)
EXTENDS Machine

CONSTANTS Sources,
          ArgLimit   (* the limit of 255 arguments of each kind, scaled    *)

P == INSTANCE Parser
Sc == INSTANCE Scanner
W == INSTANCE Source
D == INSTANCE Desugar
R == INSTANCE Resolver
G == INSTANCE CodeGen
V == INSTANCE Serial
M == INSTANCE Meaning
U == INSTANCE Rules

VARIABLES source,    (* what is compiled                                   *)
          phase,     (* how far it has come                                *)
          parsed,    (* the syntax tree, as it was written                 *)
          tree,      (* and as it is lowered                               *)
          product    (* what the last stage has made: tokens, bindings...  *)
vars == <<source, phase, parsed, tree, product, program, refusing, machine>>

(* The tree of a file with its positions, and the lines and columns of what *)
(* was written: close together, or spread so that the differences do not   *)
(* fit in the line table.  What is lowered stands where it was written.    *)
Located(ss) == [j \in DOMAIN ss |-> G!Locate(ss[j], <<"body", j>>)]
Place(k) == IF source.spread THEN <<1 + ((k * 23) % 61), 1 + ((k * 29) % 97)>>
            ELSE <<1 + (k \div 3), 2 + 4 * (k % 3)>>
Where(ss) ==
  LET ats == SelectSeq(G!Nodes(ss), LAMBDA n : "at" \in DOMAIN n)
  IN [p \in {ats[k].at : k \in DOMAIN ats} |-> Place(CHOOSE k \in DOMAIN ats : ats[k].at = p)] @@ (<<>> :> <<1, 1>>)
WhereLowered ==
  LET written == Where(parsed)
      nodes == G!Nodes(tree)
  IN [p \in {nodes[k].at : k \in {i \in DOMAIN nodes : "at" \in DOMAIN nodes[i]}} |->
        written[D!Origin(p, DOMAIN written)]] @@ written
Tokens == W!ShowStmts(source.ss, source.inline)
EOF == <<W!Tok("EOF")>>

Init ==
  /\ source \in Sources
  /\ phase = "meant"
  /\ parsed = <<>> /\ tree = <<>> /\ program = <<>>
  /\ product = Tokens
  /\ refusing = source.fails
  /\ frames = <<>> /\ heap = <<>> /\ globals = <<>>
  /\ facts = NoFacts
  /\ events = <<>>
  /\ outcome = Running

Stage(from, to) ==
  /\ phase = from
  /\ phase' = to
  /\ UNCHANGED <<source, refusing>>

(* Somebody writes the file.                                               *)
Write ==
  /\ Stage("meant", "written")
  /\ product' = [text |-> W!Text(product, source.noisy), scanner |-> Sc!NewScanner, tokens |-> <<>>]
  /\ UNCHANGED <<parsed, tree, program, machine>>

(* One token at a time.                                                    *)
Scanned(r) ==
  /\ product' = [product EXCEPT !.scanner = r[2], !.tokens = Append(@, r[1])]
  /\ phase' = IF r[1].t \in {"EOF", "ILLEGAL"} THEN "scanned" ELSE "written"
Scan ==
  /\ phase = "written"
  /\ Scanned(Sc!NextToken(product.text, FALSE, product.scanner))
  /\ UNCHANGED <<source, refusing, parsed, tree, program, machine>>

Parsed(r) == parsed' = Located(r[1]) /\ product' = r[2]
Parse ==
  /\ Stage("scanned", "parsed")
  /\ Parsed(P!ParseFile(product.tokens))
  /\ UNCHANGED <<tree, program, machine>>

(* The lowering is part of Parse.                                          *)
Lower ==
  /\ Stage("parsed", "lowered")
  /\ tree' = IF source.opts.classes THEN D!DesugarClasses(parsed) ELSE parsed
  /\ UNCHANGED <<parsed, product, program, machine>>

Resolve ==
  /\ phase = "lowered"
  /\ product' = R!Resolve(tree, source.opts)
  /\ phase' = IF product'.errors = {} THEN "resolved" ELSE "rejected"
  /\ UNCHANGED <<source, refusing, parsed, tree, program, machine>>

Generated(c) == program' = c.program /\ product' = c.panics
Compile ==
  /\ Stage("resolved", "compiled")
  /\ Generated(G!CompileFile(tree, product, WhereLowered, source.opts.recursion))
  /\ UNCHANGED <<parsed, tree, machine>>

(* Program.Write and CompiledProgram: the program goes on as it is read.   *)
Loaded(d) == program' = d.program /\ product' = ~d.ok
SaveAndLoad ==
  /\ Stage("compiled", "loaded")
  /\ Loaded(V!Decode(V!Encode(program)))
  /\ UNCHANGED <<parsed, tree, machine>>

Run ==
  /\ Stage("loaded", "running")
  /\ Start(program, source.opts.prior)
  /\ UNCHANGED <<parsed, tree, product, program>>

Execute == phase = "running" /\ Instruction /\ UNCHANGED <<source, phase, parsed, tree, product>>

Next == Write \/ Scan \/ Parse \/ Lower \/ Resolve \/ Compile \/ SaveAndLoad \/ Run \/ Execute
Spec == Init /\ [][Next]_vars
-----------------------------------------------------------------------------
(* What the scanner and the parser read is what was written: the tokens,   *)
(* whatever the layout, and the tree, up to parentheses.  A dedent that    *)
(* closes several blocks, a comment or a blank line between two lines, a   *)
(* line that goes on inside brackets, an operator's precedence or          *)
(* associativity: each goes wrong in a nesting that few tests write.       *)
ReadsBackWritten ==
  /\ phase = "scanned" => product.tokens = Tokens \o EOF
  /\ phase = "parsed" =>
       /\ product = EOF
       /\ [j \in DOMAIN parsed |-> W!Strip(parsed[j])] = source.ss

(* The programs that are rejected are those that break a rule that the     *)
(* resolver applies, whatever the order in which names are met, captured   *)
(* and shadowed; and for every such rule they break there is an error.  It *)
(* does not apply all the rules of doc/spec.md: those of Unenforced are    *)
(* broken without an error.                                                *)
RejectsExactly ==
  phase \in {"resolved", "rejected"} =>
    product.errors = U!StaticErrors(tree, source.opts) \ U!Unenforced

(* The operand stack is as deep as the compiler has said, the code as long *)
(* as it was laid out, and a function leaves with its result alone.        *)
StackAsComputed ==
  /\ phase = "compiled" => product = FALSE
  /\ \A j \in DOMAIN frames : Len(frames[j].stack) <= Called(frames[j].code).maxstack
  /\ At({"RETURN"}) => Len(S) = 1

(* The compiled program does what the source means: it ends in the same    *)
(* way, having called, loaded and stored the same in the same order, with  *)
(* the same global variables; and an error is blamed on the same line and  *)
(* column, in every function that was active, the body of a class being    *)
(* one.  A name that is both a global and bound by a load has no meaning   *)
(* by doc/spec.md:1149, and programs with one are left out.                *)
GlobalsNow ==
  [x \in ToSet(program.globals) |->
     LET v == globals[CHOOSE j \in DOMAIN globals : program.globals[j] = x]
     IN IF v = Unset THEN Unset ELSE Show(heap, v)]
EndedAs(m) ==
  /\ outcome = m.outcome
  /\ events = m.events
  /\ \A x \in DOMAIN GlobalsNow \cap DOMAIN m.globals : GlobalsNow[x] = m.globals[x]
CompiledMeansSource ==
  /\ phase = "running" /\ outcome # Running
  /\ "load of a global" \notin U!StaticErrors(tree, source.opts)
  =>
    EndedAs(M!Meaning(parsed, facts, source.opts, Where(parsed)))

(* A program that is saved and loaded is the program that was compiled.    *)
SavingChangesNothing == [][phase = "compiled" => program' = program /\ ~product']_vars
(* A file is not rejected for its decorators: options.go:35 says of the    *)
(* option, "allow Python-style `class` definitions and `@decorator`        *)
(* syntax", and PATCHES.md:5, "enabling `FileOptions.Classes` is all a     *)
(* consumer does".                                                         *)
Undecorated ==
  [j \in DOMAIN parsed |->
     IF parsed[j].k = "Def" THEN [parsed[j] EXCEPT !.decs = <<>>] ELSE parsed[j]]
DecoratorsAccepted ==
  phase = "rejected" => R!Resolve(D!DesugarClasses(Undecorated), source.opts).errors # {}
=============================================================================
