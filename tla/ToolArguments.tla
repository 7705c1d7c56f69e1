---------------------------- MODULE ToolArguments ----------------------------
(***************************************************************************)
(* The schema of a tool (tools/registry.py) and the arguments of a call    *)
(* checked against it (core/loop.py), next to a reference definition of    *)
(* what it means that arguments conform to a schema.                       *)
(*                                                                         *)
(* A JSON value is [kind, v, items, fields]: v tells scalars of one kind   *)
(* apart (booleans: 0 and 1), items are those of an array and fields those *)
(* of an object.  A schema node is [types, enum, props, required, extra,   *)
(* items]; what a schema may leave out is a sequence of at most one        *)
(* element.  Several types are a list of them, one type is a string; the   *)
(* descriptions are left out.                                              *)
(***************************************************************************)
EXTENDS Naturals, Sequences

CONSTANTS
    Values,   \* JSON values that occur, with the values in them
    Nodes,    \* schema nodes that occur, with the nodes in them
    MaxNesting   \* how deep values are nested

\* The values directly in a value, the nodes directly in a node.
ValuesIn(value) == {value.items[i] : i \in DOMAIN value.items}
                   \union {value.fields[name] : name \in DOMAIN value.fields}
NodesIn(node) ==
    IF node.props = <<>> THEN {} ELSE {node.props[1][name] : name \in DOMAIN node.props[1]}

\* The values that are nested at most n deep.
Within[n \in 0..MaxNesting] ==
    {value \in Values : ValuesIn(value) \subseteq IF n = 0 THEN {} ELSE Within[n - 1]}

ASSUME ArgumentsAssumption ==
    /\ MaxNesting \in Nat
    /\ \A value \in Values :
         /\ ValuesIn(value) \subseteq Values
         /\ value.kind # "array" => DOMAIN value.items = {}
         /\ value.kind # "object" => DOMAIN value.fields = {}
    /\ Values \subseteq Within[MaxNesting]
    /\ \A node \in Nodes :
         /\ node = [types |-> node.types, enum |-> node.enum, props |-> node.props,
                    required |-> node.required, extra |-> node.extra, items |-> node.items]
         /\ NodesIn(node) \subseteq Nodes
         /\ node.enum # <<>> => node.enum[1] \subseteq Values
         /\ node.items # <<>> => node.items[1] \in Nodes

Kinds == {"array", "boolean", "integer", "null", "number", "object", "string"}
Numbers == {"integer", "number"}

Scalar(kind, n) == [kind |-> kind, v |-> n, items |-> <<>>, fields |-> <<>>]
List(values) == [kind |-> "array", v |-> 0, items |-> values, fields |-> <<>>]
Object(fields) == [kind |-> "object", v |-> 0, items |-> <<>>, fields |-> fields]

\* A value of kind "number" is one that is no integer.
MatchesType(value, type) ==
    value.kind = type \/ (type = "number" /\ value.kind \in Numbers)

\* == of Python, where True is 1, also inside of lists and dicts: what the enum
\* of a schema is searched with.
PyEqual[a \in Values] == [b \in Values |->
    IF {a.kind, b.kind} \subseteq Numbers \union {"boolean"}
    THEN a.v = b.v
    ELSE /\ a.kind = b.kind /\ a.v = b.v
         /\ DOMAIN a.items = DOMAIN b.items /\ DOMAIN a.fields = DOMAIN b.fields
         /\ \A i \in DOMAIN a.items : PyEqual[a.items[i]][b.items[i]]
         /\ \A name \in DOMAIN a.fields : PyEqual[a.fields[name]][b.fields[name]]]

InEnum(value, enum) == \E allowed \in enum : PyEqual[value][allowed]

(***************************************************************************)
(* _validate_schema_node.                                                  *)
(***************************************************************************)
Includes(node, type) == node.types # <<>> /\ type \in node.types[1]

EnumFits(node) ==
    node.enum # <<>> =>
        /\ node.enum[1] # {}
        /\ node.types # <<>> =>
             \A value \in node.enum[1] : \E type \in node.types[1] : MatchesType(value, type)

NodeValid[node \in Nodes] ==
    /\ node.types # <<>> => node.types[1] \subseteq Kinds
    /\ EnumFits(node)
    /\ node.props # <<>> => /\ Includes(node, "object")
                            /\ \A name \in DOMAIN node.props[1] : NodeValid[node.props[1][name]]
    /\ node.required # <<>> =>
         /\ Includes(node, "object")
         /\ node.props # <<>>
         /\ node.required[1] \subseteq DOMAIN node.props[1]
    /\ node.extra # <<>> => Includes(node, "object")
    /\ node.items # <<>> => Includes(node, "array") /\ NodeValid[node.items[1]]

\* _validate_args_schema: what is taken into the registry.
SchemaValid(schema) == schema.types = <<{"object"}>> /\ NodeValid[schema]

(***************************************************************************)
(* _validate_tool_arguments, as whether it reports no error.  A value of   *)
(* the wrong type is not looked into; at the top no enum is looked at.     *)
(***************************************************************************)
Properties(node) == IF node.props = <<>> THEN {} ELSE DOMAIN node.props[1]

TypeAccepts(value, node) ==
    node.types \notin {<<>>, <<{}>>} => \E type \in node.types[1] : MatchesType(value, type)

EnumAccepts(value, node) == node.enum # <<>> => InEnum(value, node.enum[1])

RequiredGiven(value, node) == node.required # <<>> => node.required[1] \subseteq DOMAIN value.fields

\* Seeded fault: a schema without properties is taken to describe nothing.
FaultNoneUnexpected(value, node) ==
    node.extra = <<FALSE>> /\ node.props # <<>> => DOMAIN value.fields \subseteq Properties(node)

NoneUnexpected(value, node) ==
    node.extra = <<FALSE>> => DOMAIN value.fields \subseteq Properties(node)

\* _validate_schema_value, with _validate_array_items and _validate_nested_object.
Accepts[value \in Values] == [node \in Nodes |->
    /\ TypeAccepts(value, node)
    /\ EnumAccepts(value, node)
    /\ value.kind = "array" /\ node.items # <<>> =>
         \A i \in DOMAIN value.items : Accepts[value.items[i]][node.items[1]]
    /\ value.kind = "object" =>
         /\ RequiredGiven(value, node)
         /\ NoneUnexpected(value, node)
         /\ \A name \in DOMAIN value.fields \intersect Properties(node) :
              Accepts[value.fields[name]][node.props[1][name]]]

ArgumentsAccepted(arguments, schema) ==
    /\ arguments.kind = "object"
    /\ RequiredGiven(arguments, schema)
    /\ NoneUnexpected(arguments, schema)
    /\ \A name \in DOMAIN arguments.fields \intersect Properties(schema) :
         Accepts[arguments.fields[name]][schema.props[1][name]]

(***************************************************************************)
(* Reference definition: a value conforms to a schema when no value in it  *)
(* breaks the part of the schema it meets.                                 *)
(***************************************************************************)
\* The values directly in a value, each with the schema it meets.
ItemsBelow(value, node) ==
    IF node.items = <<>> THEN {}
    ELSE {<<value.items[i], node.items[1]>> : i \in DOMAIN value.items}

FieldsBelow(value, node) ==
    {<<value.fields[name], node.props[1][name]>> :
        name \in DOMAIN value.fields \intersect Properties(node)}

Below(meetings) ==
    UNION {ItemsBelow(m[1], m[2]) \union FieldsBelow(m[1], m[2]) : m \in meetings}

Meetings(value, schema) ==
    LET level[n \in 0..MaxNesting] == IF n = 0 THEN {<<value, schema>>} ELSE Below(level[n - 1])
    IN  UNION {level[n] : n \in 0..MaxNesting}

Breaks(value, node) ==
    \/ node.types \notin {<<>>, <<{}>>} /\ ~\E type \in node.types[1] : MatchesType(value, type)
    \/ node.enum # <<>> /\ ~\E allowed \in node.enum[1] : PyEqual[value][allowed]
    \/ value.kind = "object" /\ node.required # <<>> /\ node.required[1] \ DOMAIN value.fields # {}
    \/ value.kind = "object" /\ node.extra = <<FALSE>> /\ DOMAIN value.fields \ Properties(node) # {}

Conforms(value, schema) == \A m \in Meetings(value, schema) : ~Breaks(m[1], m[2])
==============================================================================
