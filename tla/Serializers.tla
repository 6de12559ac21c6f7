---------------------------- MODULE Serializers ----------------------------
(***************************************************************************)
(* What the serializers accept.  A value is a tree: its kind, its size     *)
(* (keys, elements or bytes) and the values it is made of, for a struct    *)
(* those of its exported fields.  A type refers to the types it is made of *)
(* by name, so it may refer to itself.  z is a SerializationConfig.        *)
(***************************************************************************)
EXTENDS Integers

CONSTANTS
  Value,                  \* the values, those that others are made of included
  ValueKind, Size, Parts, \* of each: its kind, its keys, elements or bytes, and what it is made of
  Type, NoType,           \* the types; NoType is the one of nil
  TypeKind,               \* "func", "chan", "unsafe.Pointer", or another kind
  Elems,                  \* the types a type is made of: element, key, fields
  Words                   \* the disallowed words its name contains

Composite == {"map", "slice", "pointer", "struct"}

\* Only values of these kinds are made of others.
ASSUME ValuesAssumption ==
  /\ Size \in [Value -> Nat] /\ Parts \in [Value -> SUBSET Value]
  /\ \A v \in Value : ValueKind[v] \notin Composite => Parts[v] = {}

ASSUME TypesAssumption == NoType \notin Type /\ Elems \in [Type -> SUBSET Type]

\* mutant: fields at the depth of their struct
DeeperButStruct(kind, depth) == IF kind = "struct" THEN depth ELSE depth + 1
Deeper(kind, depth) == depth + 1

\* For each depth, whether ValidateValue accepts a value there.
ValidAtDepth(z) ==
  LET valid[depth \in Nat] ==
        [v \in Value |->
           /\ depth <= z.MaxDepth
           /\ ValueKind[v] = "map" => Size[v] <= z.MaxKeys
           /\ ValueKind[v] = "slice" => Size[v] <= z.MaxElements
           /\ ValueKind[v] = "string" => Size[v] <= z.MaxStringLength
           /\ ValueKind[v] \in Composite =>
                \A p \in Parts[v] : valid[Deeper(ValueKind[v], depth)][p]]
  IN valid

ValidateValue(z, v, depth) == ValidAtDepth(z)[depth][v]

\* The same for types, ValidateType.
AllowedAtDepth(z) ==
  LET allowed[depth \in Nat] ==
        [t \in Type \cup {NoType} |->
           /\ depth <= z.MaxDepth
           /\ t # NoType =>
                /\ Words[t] \cap z.DisallowedTypes = {}
                /\ TypeKind[t] \notin {"func", "chan", "unsafe.Pointer"}
                /\ \A u \in Elems[t] : allowed[depth + 1][u]]
  IN allowed

ValidateType(z, t, depth) == AllowedAtDepth(z)[depth][t]

\* CreateSerializer: the kind of serializer made for an encoding.
KindOf(encoding) == IF encoding \in {"Protobuf", "Raw"} THEN encoding ELSE "JSON"

\* A datum is a value with its type; json.Marshal refuses some more.
Marshal(kind, z, d) ==
  IF kind = "Raw" THEN ValueKind[d.value] = "slice" /\ d.type = "[]byte" /\ Size[d.value] <= z.MaxBinarySize
  ELSE /\ ValidateType(z, d.type, 0)
       /\ ValidateValue(z, d.value, 0)
       /\ kind = "JSON" => d.encodable

-----------------------------------------------------------------------------
(* A reference: level by level instead of value by value                   *)

\* What is n levels below x, and all that is above that level, where children says
\* what is one level below.
Levels(children, x) ==
  LET level[n \in Nat] ==
        IF n = 0 THEN [at |-> {x}, above |-> {}]
        ELSE LET l == level[n - 1] IN
               [at |-> UNION {children[y] : y \in l.at}, above |-> l.above \cup l.at]
  IN level

\* The levels end at most max below x, and all that is on them is fine.
Within(children, Fine(_), max, x) ==
  LET end == Levels(children, x)[max + 1] IN end.at = {} /\ \A y \in end.above : Fine(y)

SizeWithin(z, v) ==
  Size[v] <= CASE ValueKind[v] = "map" -> z.MaxKeys [] ValueKind[v] = "slice" -> z.MaxElements
               [] ValueKind[v] = "string" -> z.MaxStringLength [] OTHER -> Size[v]

ValueWithin(z, v) == Within(Parts, LAMBDA w : SizeWithin(z, w), z.MaxDepth, v)

\* Of types: none of a forbidden kind or name, and none that refers to itself,
\* whose levels do not end.
Components == [t \in Type \cup {NoType} |-> IF t = NoType THEN {} ELSE Elems[t]]

TypeAllowed(z, t) ==
  t # NoType => TypeKind[t] \notin {"func", "chan", "unsafe.Pointer"} /\ Words[t] \cap z.DisallowedTypes = {}

TypeWithin(z, t) == Within(Components, LAMBDA u : TypeAllowed(z, u), z.MaxDepth, t)
=============================================================================
