---------------------------- MODULE MCSyntaxWalks ----------------------------
(* Small files: what the grammar makes of functions, classes, unions,       *)
(* fields, prototypes, calls, lambdas and includes, alone, in a namespace   *)
(* and in pairs.                                                            *)
EXTENDS SyntaxWalks

Token(text) == Leaf(text, "", text)
Body(kind, items) == Node(kind, "body", <<Token("{")>> \o items \o <<Token("}")>>)
Name(field, name) == Leaf("identifier", field, name)
Qualified(kind, field, scope, name) ==
  Node("qualified_identifier", field, <<Leaf("namespace_identifier", "scope", scope), Token("::"), Leaf(kind, "name", name)>>)
Prototype(field, name) == Node("function_declarator", field, <<name, Leaf("parameter_list", "parameters", "()")>>)
OneOf(kind, type, declarator) == Node(kind, "", <<Leaf("type_identifier", "type", type), declarator, Token(";")>>)

Call == Node("call_expression", "", <<Name("function", "g"), Leaf("argument_list", "arguments", "()")>>)
Lambda == Node("lambda_expression", "", <<Token("[]"), Body("compound_statement", <<Call>>)>>)
Function(name, items) ==
  Node("function_definition", "", <<Leaf("type_identifier", "type", "B"), Node("pointer_declarator", "declarator",
    <<Token("*"), Prototype("declarator", name)>>), Body("compound_statement", items)>>)
Defaulted == Node("function_definition", "", <<Prototype("declarator", Name("declarator", "d")),
               Node("default_method_clause", "", <<Token("="), Call>>)>>)
ClassNode(name, bases, members) ==
  Node("class_specifier", "", <<Token("class"), name>>
    \o (IF bases = <<>> THEN <<>> ELSE <<Node("base_class_clause", "", <<Token(":")>> \o bases)>>)
    \o <<Body("field_declaration_list", members)>>)
Union(name, members) == Node("union_specifier", "", <<Token("union"), name, Body("field_declaration_list", members)>>)
Field == OneOf("field_declaration", "B", Leaf("field_identifier", "declarator", "x"))

FunctionNames == {Name("declarator", "f"), Name("declarator", "if"), Qualified("identifier", "declarator", "A", "f")}
LocalClass == ClassNode(Leaf("type_identifier", "name", "L"), <<>>, <<Function(Leaf("field_identifier", "declarator", "m"), <<Call>>), Field>>)
Statements == {Call, Lambda, OneOf("declaration", "B", Name("declarator", "v")), LocalClass}
Template(name) == Node("template_type", "name", <<Leaf("type_identifier", "name", name), Token("<"), Leaf("type_identifier", "", "A"), Token(">")>>)
Bases == {Leaf("type_identifier", "", "B"), Qualified("type_identifier", "", "N", "B"), Template("T")}
Members == {Field, OneOf("field_declaration", "B", Prototype("declarator", Leaf("field_identifier", "declarator", "p"))),
            Function(Leaf("field_identifier", "declarator", "m"), <<Call>>), Defaulted,
            Union(Leaf("type_identifier", "name", "U"), <<Field>>)}

Sequences2(S) == {<<>>} \cup {<<a>> : a \in S} \cup {<<a, b>> : a, b \in S}
Functions0 == {Function(name, items) : name \in FunctionNames, items \in Sequences2(Statements)}
Classes == {ClassNode(name, bases, members) : name \in {Leaf("type_identifier", "name", "A"), Template("A")},
              bases \in {<<>>} \cup {<<b>> : b \in Bases} \cup {<<Leaf("type_identifier", "", "B"), Token(","), Template("T")>>},
              members \in Sequences2(Members)}
OtherItems == {Defaulted, OneOf("declaration", "B", Name("declarator", "v")), OneOf("declaration", "B", Prototype("declarator", Name("declarator", "p"))),
           Node("class_specifier", "", <<Token("class"), Leaf("type_identifier", "name", "A")>>),
           OneOf("declaration", "B", Node("init_declarator", "declarator", <<Name("declarator", "w"), Token("="), Call>>)),
           Union(Leaf("type_identifier", "name", "U"), <<>>),
           Node("preproc_include", "", <<Token("#include"), Leaf("string_literal", "path", "h.hpp")>>),
           Node("preproc_include", "", <<Token("#include"), Leaf("identifier", "path", "MACRO")>>)}
Items == Functions0 \cup Classes \cup OtherItems
Namespace(items) == Node("namespace_definition", "", <<Token("namespace"), Leaf("namespace_identifier", "name", "N"), Body("declaration_list", items)>>)
File(items) == Node("translation_unit", "", items)

SmallFiles == {File(<<a>>) : a \in Items} \cup {File(<<Namespace(<<a>>)>>) : a \in Items}
           \cup {File(<<a, b>>) : a \in OtherItems \cup {Function(Name("declarator", "f"), <<Call>>)}, b \in Items}

FilesWithUnions == SmallFiles \cup {File(<<Union(Leaf("type_identifier", "name", "U"), <<Field>>)>>)}
=============================================================================
