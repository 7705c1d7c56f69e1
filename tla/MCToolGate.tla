------------------------------ MODULE MCToolGate ------------------------------
(***************************************************************************)
(* A package kit with tool modules a and b that import its module lib, and *)
(* a module util outside of it; only the shell is built in.                *)
(***************************************************************************)
EXTENDS ToolGate

Kit == <<"kit">>
A == <<"kit", "a">>
B == <<"kit", "b">>
Lib == <<"kit", "lib">>
Util == <<"util">>

MCFiles == {Kit, A, B, Lib, Util}
MCEditable == {A, Lib}
MCImports == [m \in MCFiles |-> CASE m = A -> {Lib, Util} [] m = B -> {Lib} [] OTHER -> {}]

\* Values.
s1 == Scalar("string", 1)
i1 == Scalar("integer", 1)
t1 == Scalar("boolean", 1)
n0 == Scalar("null", 0)
f2 == Scalar("number", 2)
strings == List(<<s1, s1>>)
mixed == List(<<s1, i1>>)
empty == Object(<<>>)
withP(value) == Object([p |-> value])
withQ(value) == Object([q |-> value])
withBoth(value, other) == Object([p |-> value, q |-> other])

MCArguments == {empty, withQ(i1), s1}
    \union {withP(v) : v \in {s1, i1, f2, n0, strings, mixed, empty, withP(s1), withQ(s1),
                              withBoth(s1, i1)}}
    \union {withBoth(strings, v) : v \in {i1, t1, f2, s1, List(<<s1, t1>>)}}

MCValues == MCArguments \union UNION {{a.fields[name] : name \in DOMAIN a.fields} : a \in MCArguments}

\* Schemas.
Node(types, enum, props, required, extra, items) ==
    [types |-> types, enum |-> enum, props |-> props, required |-> required,
     extra |-> extra, items |-> items]
Of(type) == Node(<<{type}>>, <<>>, <<>>, <<>>, <<>>, <<>>)
AnObject(props, required, extra) == Node(<<{"object"}>>, <<>>, <<props>>, <<required>>, extra, <<>>)

OneOf == Node(<<>>, <<{i1, s1, mixed}>>, <<>>, <<>>, <<>>, <<>>)
Strings == Node(<<{"array"}>>, <<>>, <<>>, <<>>, <<>>, <<Of("string")>>)
NumberOrNull == Node(<<{"number", "null"}>>, <<>>, <<>>, <<>>, <<>>, <<>>)
Closed == AnObject([p |-> Of("string")], {"p"}, <<FALSE>>)
NoArguments == Node(<<{"object"}>>, <<>>, <<>>, <<>>, <<FALSE>>, <<>>)
ListAndChoice == AnObject([p |-> Strings, q |-> OneOf], {"p"}, <<FALSE>>)
Nested == AnObject([p |-> Closed], {"p"}, <<>>)
Optional == AnObject([p |-> NumberOrNull], {}, <<TRUE>>)
AnyCommand == AnObject([p |-> Of("string")], {"p"}, <<>>)

OnlyEmpty == Node(<<{"object"}>>, <<{empty}>>, <<>>, <<>>, <<>>, <<>>)   \* not enforced

NotAnObject == Strings
RequiresOther == AnObject([p |-> Of("string")], {"q"}, <<>>)
BadInside == AnObject([p |-> Node(<<{"string"}>>, <<{i1}>>, <<>>, <<>>, <<>>, <<>>)], {}, <<>>)

Schemas == {NoArguments, OnlyEmpty, ListAndChoice, Nested, Optional, AnyCommand,
            NotAnObject, RequiresOther, BadInside}
MCNodes == Schemas \union UNION {{s.props[1][name] : name \in Properties(s)} : s \in Schemas}
           \union {Of("string")}
MCChanged == {NoArguments}

\* Tools.
ToolWith(name, risk, schema) == [name |-> name, risk |-> risk, schema |-> schema]
MCBuiltIn == <<ToolWith("shell", "shell", AnyCommand)>>
MCOffers ==
    [m \in MCFiles |->
        CASE m = A -> {<<ToolWith("x", "write", ListAndChoice)>>,
                       <<ToolWith("x", "read", Nested), ToolWith("y", "server", NoArguments)>>,
                       <<ToolWith("x", "interactive", OnlyEmpty)>>,
                       <<ToolWith("x", "shell", Optional)>>, <<ToolWith("x", "read", BadInside)>>}
          [] m = B -> {<<ToolWith("y", "server", NoArguments)>>}
          [] OTHER -> {NoTools}]

Configuration(names, enabled) == [modules |-> names, enabled |-> enabled]
MCConfigurations == {Configuration(<<A, B>>, NoSelection),
                     Configuration(<<A, A, B>>, NoSelection),
                     Configuration(<<A>>, <<"x", "shell">>),
                     Configuration(<<B>>, <<"missing">>), Configuration(<<Lib>>, NoSelection)}

Free == {<<"curl">>, <<"sudo", "python", "exec(">>, <<"secret", "git", "push">>,
         <<"X=1", "python", "import requests">>, <<"rm", "-r">>}
MCParts == [segment : Free, glued : {{}}]
           \union [segment : {<<"word">>}, glued : {{"last"}}]
           \union [segment : {<<"rm", "-r">>}, glued : {{"first"}, {"last"}}]
==============================================================================
