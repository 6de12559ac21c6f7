------------------------------ MODULE MCSetup ------------------------------
(* Instances of Setup for TLC.                                             *)
EXTENDS Setup, Sequences, FiniteSetsExt

CONSTANTS h1, s1, p1, p2

MCNumbers == -1 .. 1

MCEncodingOf == [o \in Prepared |-> IF o = p1 THEN "JSON" ELSE "Protobuf"]

\* One serializer is made with the defaults, as by WithJSONSerializer, the other
\* with limits of its own.
MCMadeWith ==
  [o \in Prepared |-> IF o = p1 THEN DefaultSerializerConfig ELSE [DefaultSerializerConfig EXCEPT !.MaxDepth = 3]]

\* Box is a struct with a field of type any and one that is not exported, Node
\* refers to itself, the name of Merchant contains "chan".
MCType == {"any", "int", "[]any", "map", "[]byte", "Box", "Node", "*Node", "Merchant", "func"}
MCTypeKind == [t \in MCType |-> IF t = "func" THEN "func" ELSE "other"]
MCElems ==
  [t \in MCType |->
     CASE t \in {"[]any", "map"} -> {"any"} [] t = "[]byte" -> {"int"} [] t = "Box" -> {"any", "int"}
       [] t = "Node" -> {"*Node"} [] t = "*Node" -> {"Node"} [] OTHER -> {}]
MCWords == [t \in MCType |-> IF t = "Merchant" THEN {"chan"} ELSE IF t = "func" THEN {"func"} ELSE {}]

\* A value as a tree: its kind, its size and the trees it is made of.
Node(kind, size, parts) == [kind |-> kind, size |-> size, parts |-> parts]
Number == Node("number", 0, {})
Text(n) == Node("string", n, {})
Nil == Node("nil", 0, {})
Boxed[n \in 0 .. 3] == IF n = 0 THEN Number ELSE Node("struct", 1, {Boxed[n - 1]})

\* At, above and below the default limits and those that are set.
Example ==
  {<<NoType, Nil>>, <<"Node", Node("struct", 1, {Node("pointer", 0, {})})>>, <<"Merchant", Node("struct", 0, {})>>,
   <<"func", Node("func", 0, {})>>, <<"any", Text(1024 * 1024 + 1)>>, <<"Box", Node("struct", 2, {Number, Text(1)})>>,
   <<"Box", Node("struct", 1, {Node("pointer", 0, {Node("pointer", 0, {Number})})})>>,
   <<"Box", Boxed[2]>>, <<"Box", Boxed[3]>>, <<"map", Node("map", 2, {Text(1), Number})>>, <<"map", Node("map", 101, {Number})>>,
   <<"[]any", Node("slice", 1, {Number})>>, <<"[]any", Node("slice", 1001, {Number, Text(1)})>>}

RECURSIVE Tree(_)
Tree(v) == {v} \cup UNION {Tree(p) : p \in v.parts}

\* The values are the places of the trees in a sequence of them.
Trees == FoldSet(LAMBDA v, s : Append(s, v), <<>>, UNION {Tree(x[2]) : x \in Example})
MCValue == DOMAIN Trees
PlaceOf(v) == CHOOSE i \in MCValue : Trees[i] = v

MCValueKind == [i \in MCValue |-> Trees[i].kind]
MCSize == [i \in MCValue |-> Trees[i].size]
MCParts == [i \in MCValue |-> {PlaceOf(v) : v \in Trees[i].parts}]
MCDatumOf == [x \in Example |-> [type |-> x[1], value |-> PlaceOf(x[2]), encodable |-> x[1] # "func"]]
MCDatum == {MCDatumOf[x] : x \in Example}
=============================================================================
