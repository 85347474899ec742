----------------------------- MODULE SyntaxWalks -----------------------------
(***************************************************************************)
(* The walks over a file's syntax tree that fill the indexes: symbols,     *)
(* calls, base classes, uses of types and includes (src/Core/src/Index).   *)
(* Each walk parses the file again and visits the nodes in the order of    *)
(* the text, carrying down what encloses them.                             *)
(*                                                                         *)
(* The parser is external: a tree is what its grammar makes of C++.  Every *)
(* token stands on a line of its own, so that places and lines are one.    *)
(***************************************************************************)
EXTENDS Integers, FiniteSets, Sequences, SequencesExt

CONSTANT Trees    \* the files: [kind, field, text, children]

VARIABLES tree, indexed    \* a file, and what the walks found, <<>> before them

syntaxVars == <<tree, indexed>>

Node(kind, field, children) == [kind |-> kind, field |-> field, text |-> "", children |-> children]
Leaf(kind, field, text) == [kind |-> kind, field |-> field, text |-> text, children |-> <<>>]
-----------------------------------------------------------------------------
(* The nodes of a tree in the order of the text: nodes[i] is of the tokens *)
(* start..end and below nodes[parent].                                     *)

RECURSIVE Visit(_, _, _, _)
Visit(node, start, index, parent) ==
  LET step(acc, child) ==
        LET below == Visit(child, acc.end + 1, index + Len(acc.nodes) + 1, index)
        IN  [nodes |-> acc.nodes \o below, end |-> below[1].end]
      all == FoldLeft(step, [nodes |-> <<>>, end |-> start - 1], node.children)
  IN  <<[kind |-> node.kind, field |-> node.field, text |-> node.text, parent |-> parent,
         start |-> start, end |-> IF node.children = <<>> THEN start ELSE all.end]>> \o all.nodes

Visited(t) == Visit(t, 1, 1, 0)

\* ts_node_child_by_field_name(), 0 for none.
Child(nodes, i, field) ==
  LET named == {j \in DOMAIN nodes : nodes[j].parent = i /\ nodes[j].field = field}
  IN  IF named = {} THEN 0 ELSE CHOOSE j \in named : \A k \in named : j <= k

\* The tokens of a node.
NodeText(nodes, i) ==
  LET leaves == SelectSeq([j \in DOMAIN nodes |-> j],
                  LAMBDA j : /\ nodes[j].text # ""
                             /\ nodes[i].start <= nodes[j].start /\ nodes[j].end <= nodes[i].end)
  IN  [k \in DOMAIN leaves |-> nodes[leaves[k]].text]

IsReservedKeyword(name) == name = <<"if">>

RECURSIVE FindNameNode(_, _)
FindNameNode(nodes, i) ==
  IF i = 0 \/ nodes[i].kind \in {"identifier", "field_identifier", "qualified_identifier", "destructor_name",
                                 "operator_name", "template_function"} THEN i
  ELSE FindNameNode(nodes, Child(nodes, i, "declarator"))

RECURSIVE FindVariableNameNode(_, _)
FindVariableNameNode(nodes, i) ==
  IF i = 0 \/ nodes[i].kind = "function_declarator" THEN 0
  ELSE IF nodes[i].kind \in {"identifier", "field_identifier", "qualified_identifier"} THEN i
  ELSE FindVariableNameNode(nodes, Child(nodes, i, "declarator"))
-----------------------------------------------------------------------------
(* Definitions: the name of one, <<>> for none. *)

IsClass(nodes, i) == nodes[i].kind \in {"class_specifier", "struct_specifier"}

\* A name with a body, and no keyword.
DefinedName(nodes, i, name) ==
  IF name = 0 \/ Child(nodes, i, "body") = 0 \/ IsReservedKeyword(NodeText(nodes, name)) THEN <<>> ELSE NodeText(nodes, name)

FunctionName(nodes, i) == DefinedName(nodes, i, FindNameNode(nodes, Child(nodes, i, "declarator")))

\* As if a function without a body were a definition.
DeclaredFunctionName(nodes, i) ==
  LET name == FindNameNode(nodes, Child(nodes, i, "declarator"))
  IN  IF name = 0 THEN <<>> ELSE NodeText(nodes, name)

\* CallExtractor's own version of it.
FunctionDefinitionName(nodes, i) == DefinedName(nodes, i, FindNameNode(nodes, Child(nodes, i, "declarator")))

ClassName(nodes, i) == DefinedName(nodes, i, Child(nodes, i, "name"))

\* What WalkNode() carries down to the children of a node: the class, the function.
RECURSIVE ClassForChildren(_, _)
ClassForChildren(nodes, i) ==
  IF i = 0 THEN <<>>
  ELSE IF IsClass(nodes, i) /\ ClassName(nodes, i) # <<>> THEN ClassName(nodes, i)
  ELSE ClassForChildren(nodes, nodes[i].parent)

RECURSIVE CallerForChildren(_, _)
CallerForChildren(nodes, i) ==
  IF i = 0 THEN <<>>
  ELSE IF nodes[i].kind = "function_definition" /\ FunctionDefinitionName(nodes, i) # <<>> THEN FunctionDefinitionName(nodes, i)
  ELSE CallerForChildren(nodes, nodes[i].parent)
-----------------------------------------------------------------------------
(* The extractors. *)

IsNamespaceOrGlobalScopeDeclaration(nodes, i) ==
  nodes[i].parent # 0 /\ nodes[nodes[i].parent].kind \in {"translation_unit", "declaration_list"}

VariableName(nodes, i) ==
  LET name == FindVariableNameNode(nodes, Child(nodes, i, "declarator"))
  IN  IF name = 0 \/ IsReservedKeyword(NodeText(nodes, name)) THEN <<>> ELSE NodeText(nodes, name)

\* Only a bare type_identifier is trusted.
DeclaredTypeName(nodes, i) ==
  LET type == Child(nodes, i, "type")
  IN  IF type = 0 \/ nodes[type].kind # "type_identifier" THEN <<>> ELSE NodeText(nodes, type)

\* The symbol a node defines: its kind and name, the name <<>> for none.
Defines(nodes, i) ==
  CASE nodes[i].kind = "namespace_definition" -> [kind |-> "Namespace", name |-> ClassName(nodes, i)]
    [] IsClass(nodes, i) -> [kind |-> "Class", name |-> ClassName(nodes, i)]
    [] nodes[i].kind = "function_definition" -> [kind |-> "Function", name |-> FunctionName(nodes, i)]
    [] nodes[i].kind = "field_declaration" ->
         [kind |-> "Variable",
          name |-> IF VariableName(nodes, i) = <<>> THEN <<>>
                   ELSE ClassForChildren(nodes, nodes[i].parent) \o <<"::">> \o VariableName(nodes, i)]
    [] nodes[i].kind = "declaration" /\ IsNamespaceOrGlobalScopeDeclaration(nodes, i) ->
         [kind |-> "Variable", name |-> VariableName(nodes, i)]
    [] OTHER -> [kind |-> "None", name |-> <<>>]

ExtractSymbols(nodes) ==
  {[kind |-> Defines(nodes, i).kind, name |-> Defines(nodes, i).name, line |-> nodes[i].start, end_line |-> nodes[i].end,
    type_name |-> DeclaredTypeName(nodes, i)] : i \in {j \in DOMAIN nodes : Defines(nodes, j).name # <<>>}}

\* A call outside every function has no caller and is left out.
ExtractCalls(nodes) ==
  {[caller_name |-> CallerForChildren(nodes, nodes[i].parent), callee_text |-> NodeText(nodes, Child(nodes, i, "function")),
    line |-> nodes[i].start] :
     i \in {j \in DOMAIN nodes : /\ nodes[j].kind = "call_expression" /\ Child(nodes, j, "function") # 0
                                 /\ CallerForChildren(nodes, nodes[j].parent) # <<>>}}

\* The bases in a clause: names, and of a template its name.
CollectBaseNames(nodes, clause) ==
  {IF nodes[b].kind = "template_type" THEN Child(nodes, b, "name") ELSE b :
     b \in {j \in DOMAIN nodes : /\ nodes[j].parent = clause
                                 /\ nodes[j].kind \in {"type_identifier", "qualified_identifier", "template_type"}}}

ExtractInheritance(nodes) ==
  UNION {{[derived_name |-> NodeText(nodes, Child(nodes, i, "name")), base_name |-> NodeText(nodes, b), line |-> nodes[i].start] :
            b \in UNION {CollectBaseNames(nodes, c) :
                           c \in {j \in DOMAIN nodes : nodes[j].parent = i /\ nodes[j].kind = "base_class_clause"}}} :
           i \in {j \in DOMAIN nodes : IsClass(nodes, j) /\ Child(nodes, j, "name") # 0 /\ Child(nodes, j, "body") # 0}}

\* Names of classes where they are defined or declared are no uses of them.
ExtractReferences(nodes) ==
  LET own(i) == \E j \in 1..(i - 1) : /\ IsClass(nodes, j) /\ Child(nodes, j, "name") # 0
                                      /\ nodes[Child(nodes, j, "name")].start = nodes[i].start
  IN  {[type_name |-> NodeText(nodes, i), line |-> nodes[i].start] :
         i \in {j \in DOMAIN nodes : nodes[j].kind = "type_identifier" /\ ~own(j)}}

ExtractIncludes(nodes) ==
  {[include_text |-> NodeText(nodes, Child(nodes, i, "path")), line |-> nodes[i].start,
    is_system |-> nodes[Child(nodes, i, "path")].kind = "system_lib_string"] :
     i \in {j \in DOMAIN nodes : /\ nodes[j].kind = "preproc_include" /\ Child(nodes, j, "path") # 0
                                 /\ nodes[Child(nodes, j, "path")].kind \in {"string_literal", "system_lib_string"}}}
-----------------------------------------------------------------------------
InitSyntax == tree \in Trees /\ indexed = <<>>

IndexFile ==
  /\ indexed = <<>>
  /\ LET nodes == Visited(tree)
     IN  indexed' = <<[symbols |-> ExtractSymbols(nodes), calls |-> ExtractCalls(nodes), bases |-> ExtractInheritance(nodes),
                       uses |-> ExtractReferences(nodes), includes |-> ExtractIncludes(nodes)]>>
  /\ UNCHANGED tree

NextSyntax == IndexFile

SpecSyntax == InitSyntax /\ [][NextSyntax]_syntaxVars

\* The walks, which know nothing of each other, tell one story: who calls is a
\* function in the index of symbols, the innermost around the call; who derives
\* is a class there, and each base is a type used within; its own name, the
\* token after "class", is no use of it.
IndexesAgree ==
  indexed # <<>> =>
    LET found == indexed[1]
        around(call) == {s \in found.symbols : s.kind = "Function" /\ call.line \in s.line..s.end_line}
        last(name) == <<name[Len(name)]>>
    IN  /\ \A call \in found.calls :
             \E s \in around(call) : s.name = call.caller_name /\ \A t \in around(call) : t.line <= s.line
        /\ \A edge \in found.bases :
             \E s \in found.symbols : /\ s.kind = "Class" /\ s.name = edge.derived_name /\ s.line = edge.line
                                      /\ \E use \in found.uses : /\ use.line \in s.line..s.end_line
                                                                 /\ use.type_name = last(edge.base_name)
        /\ \A s \in found.symbols, use \in found.uses :
             s.kind = "Class" /\ use.type_name = s.name => use.line # s.line + 1

\* The member variables of a file are named with a class (SymbolExtractor.cpp:
\* a field only appears in the body of one, "so `current_class` is always set").
MembersHaveAClass ==
  indexed # <<>> => \A s \in indexed[1].symbols : s.name[1] # "::"
=============================================================================
