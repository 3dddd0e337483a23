----------------------------- MODULE MCActions -----------------------------
(***************************************************************************)
(* Instances of Actions.  A store has two entries, each of any kind: two   *)
(* modules and a provider that declare the action "a" in different ways,   *)
(* with a schema file of the same name and different texts, there may be a *)
(* third such file in the working directory; a module that gives an action *)
(* the name of a core action; and whatever fails to load.                  *)
(* Two goroutines call "a" at once, with input, credential or output that  *)
(* not every schema accepts, or "b" and "a", or a core action beside one   *)
(* that nobody declares.                                                   *)
(***************************************************************************)
EXTENDS Actions

Two == {1, 2}
Names == {"", "a", "b", "core.stdout"}
Texts == {"strict", "lax"}
Judge(text, value) == value = "good" \/ text = "lax"

Absent == [text |-> "absent", actions |-> <<>>]
None == <<"none">>
File == <<"relative", "s.json">>
Inline == <<"inline", "strict">>
Misspelt == <<"inline", "broken">>
Here == {[f \in {"s.json"} |-> "lax"]}

Spec_(name, input, output, credentialType) ==
    [name |-> name, timeout |-> "", input |-> input, output |-> output,
     credentialType |-> credentialType]
ModuleYaml(actions) ==
    [text |-> "yaml", actions |-> actions, actionsFile |-> Absent, entrypoint |-> TRUE,
     connectionTypes |-> [token |-> Inline]]
NoModule == [ModuleYaml(<<>>) EXCEPT !.text = "absent"]

Plain == [isDir |-> TRUE, module |-> NoModule, provider |-> Absent,
          files |-> {"s.json"}, text |-> "strict"]
WithModule(m) == [Plain EXCEPT !.module = m]
A == Spec_("a", File, None, "")

Sound ==
    {WithModule(ModuleYaml(<<A>>)),
     [WithModule([ModuleYaml(<<>>) EXCEPT
         !.connectionTypes = [token |-> File],
         !.actionsFile = [text |-> "yaml", actions |-> <<A, Spec_("a", File, File, "token"), Spec_("b", File, Misspelt, "")>>]])
      EXCEPT !.text = "lax", !.provider.text = "broken"],
     WithModule(ModuleYaml(<<Spec_("core.stdout", None, None, "other")>>)),
     [Plain EXCEPT !.provider = [text |-> "yaml", actions |-> <<Spec_("a", None, Inline, "token")>>]],
     Plain, [Plain EXCEPT !.isDir = FALSE, !.module.text = "broken"]}

Unsound ==
    {WithModule([ModuleYaml(<<A>>) EXCEPT !.text = "broken"]),
     WithModule([ModuleYaml(<<A>>) EXCEPT !.entrypoint = FALSE]),
     WithModule(ModuleYaml(<<>>)),
     WithModule(ModuleYaml(<<A, [A EXCEPT !.name = ""]>>)),
     WithModule(ModuleYaml(<<[A EXCEPT !.timeout = "invalid"]>>)),
     [WithModule(ModuleYaml(<<A>>)) EXCEPT !.files = {}],
     [Plain EXCEPT !.provider.text = "broken"]}

AllStores == [Two -> Sound \cup Unsound]

Binary(name, input, credential, output) ==
    [action |-> name, input |-> input, credential |-> credential, output |-> output]
BadOutput == Binary("a", "good", "good", "bad")
BadInput == Binary("a", "bad", "good", "good")
BadCredential == Binary("a", "good", "bad", "none")
Other == Binary("b", "good", "good", "good")
Undeclared == Binary("", "good", "good", "good")

Core(name, inputs) == {[action |-> name, fields |-> i] : i \in inputs}
Fields == {<<"absent">>, <<"bad">>, <<"nan">>, <<"number", -1>>, <<"number", 2>>}
CoreCalls ==
    Core("core.if", [condition : {"absent", "throws", "true", "false", "other"}])
    \cup Core("core.js", [script : {"absent", "text"}, scriptFile : {"none", "missing", "text"},
                          asScript : {"value"}, asBody : {"throws"}])
    \cup Core("core.js", [script : {"text"}, scriptFile : {"none"},
                          asScript : {"throws"}, asBody : {"value", "throws"}])
    \cup Core("core.sleep", [duration : Fields \cup {<<"text", 3>>},
                             seconds : {<<"absent">>, <<"number", 2>>}, milliseconds : {<<"number", 7>>}])
    \cup Core("core.sleep", [duration : {<<"absent">>}, seconds : Fields, milliseconds : {<<"bad">>}])
    \cup Core("core.stdout", [format : {"pretty", "json", "xml"}, encodable : BOOLEAN])

Pairs == {<<BadOutput, BadOutput>>, <<BadOutput, BadInput>>, <<BadCredential, BadOutput>>,
          <<BadInput, Other>>} \cup {<<c, Undeclared>> : c \in CoreCalls}
=============================================================================
