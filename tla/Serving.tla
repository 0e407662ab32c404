------------------------------- MODULE Serving --------------------------------
(***************************************************************************)
(* The chat endpoint of serve/fgserve.py with serve/tools.py, and a client *)
(* that keeps the conversation: a request carries all of it, becomes the   *)
(* prompt, and what the model writes is taken apart into reasoning,        *)
(* content and calls, which the next request puts together again.          *)
(*                                                                         *)
(* What the model writes is a sequence of segments: texts, calls of a tool *)
(* with a body, and the end of its thinking.  What JSON, strip() and the   *)
(* tokenizer do to a body is left out.                                     *)
(***************************************************************************)
EXTENDS Integers, Sequences, FiniteSets, SequencesExt

CONSTANTS
  ToolSets,     \* sequences of Definitions a request may carry
  Outputs,      \* what the model may write: [segs, stops]
  Words,        \* names of tools that \w+ matches
  MaxTurns,     \* answers of the model in a conversation
  MaxChoices    \* n of a request

(* the words of this module are strings, which the provers need to be told *)
Strings == STRING \cup {"", "bash", "edit", "create", "one block",
                        "system", "user", "result", "tools"}
Definitions == [api : Strings, params : SUBSET Strings, schema : BOOLEAN]
Segments == [kind : {"text", "call", "thought"}, tool : Strings, body : Strings]
Texts == [kind : {"text"}, tool : Strings, body : Strings]
Calls == [kind : {"call"}, tool : Strings, body : Strings]

ASSUME ServingAssumption ==
  /\ MaxTurns \in Nat /\ MaxChoices \in Nat \ {0}
  /\ Words \subseteq Strings /\ ToolSets \subseteq Seq(Definitions)
  /\ \A o \in Outputs : o.segs \in Seq(Segments)

VARIABLES
  history,      \* the messages of the client: [role, content, calls, tool]
  written,      \* per answer in it, what the model wrote and was asked for
  sv,           \* "client", "generate", "answered" or "failed"
  offered,      \* the tools of the request
  thinking,     \* reasoning
  prompt,       \* the dialogue the model is shown: [header, body]
  missing,      \* completions that are still to be generated
  completions

svvars == <<history, written, sv, offered, thinking, prompt, missing, completions>>

(* the elements of s that are in A, in their order *)
Only(s, A) == FlattenSeq([i \in DOMAIN s |-> IF s[i] \in A THEN <<s[i]>> ELSE <<>>])

-----------------------------------------------------------------------------
(* prepare_tools: the tools the model was trained with, else any function.  *)

Trained ==
  [api \in {"Bash", "Edit", "Write"} |->
     CASE api = "Bash"  -> [name |-> "bash", params |-> {"command"}]
       [] api = "Edit"  -> [name |-> "edit", params |-> {"file_path", "old_string", "new_string"}]
       [] api = "Write" -> [name |-> "create", params |-> {"file_path", "content"}]]
IsTrained(fd) == fd.api \in DOMAIN Trained /\ Trained[fd.api].params \subseteq fd.params
FromFd(fd) ==
  IF IsTrained(fd) THEN [name |-> Trained[fd.api].name, api |-> fd.api]
                   ELSE [name |-> fd.api, api |-> fd.api]
PrepareTools(fds) ==
  LET valid == Only(fds, {fd \in ToSet(fds) : fd.schema})
  IN [i \in DOMAIN valid |-> FromFd(valid[i])]

(* the last tool of a name is the one in a tool_map *)
ByName(tools, name) == {i \in DOMAIN tools : tools[i].name = name}
ByApi(tools, api) == {i \in DOMAIN tools : tools[i].api = api}
LastOf(tools, places) == tools[Max(places)]

Text(t) == [kind |-> "text", tool |-> "", body |-> t]
ToolCall(name, body) == [kind |-> "call", tool |-> name, body |-> body]
EndOfThought == [kind |-> "thought", tool |-> "", body |-> ""]

(* parse_calls: every call of a form that TOOL_RE matches leaves the text;  *)
(* one of a tool that is not there, or that does not parse, is lost.        *)
Callable == [kind : {"call"}, tool : Words, body : Strings]
Arguments(tool, body) ==
  IF tool.name = "edit" /\ tool.api = "Edit"
  THEN CASE body = "malformed" -> <<>> [] body = "two blocks" -> <<"one block">>
         [] body \notin {"malformed", "two blocks"} -> <<body>>
  ELSE <<body>>
ParseCall(seg, tools) ==
  IF ByName(tools, seg.tool) = {} THEN <<>>
  ELSE LET tool == LastOf(tools, ByName(tools, seg.tool))
           args == Arguments(tool, seg.body)
       IN [i \in DOMAIN args |-> [api |-> tool.api, args |-> args[i]]]
ParseCalls(segs, tools) ==
  LET found == Only(segs, Callable)
  IN [content |-> Only(segs, Segments \ Callable),
      calls   |-> FlattenSeq([i \in DOMAIN found |-> ParseCall(found[i], tools)])]

(* format_calls: by the name in the API; a call of another tool is left out *)
FormatCallByName(c, tools) ==
  IF ByName(tools, c.api) = {} THEN <<>>
  ELSE <<ToolCall(LastOf(tools, ByName(tools, c.api)).name, c.args)>>
FormatCall(c, tools) ==
  IF ByApi(tools, c.api) = {} THEN <<>>
  ELSE <<ToolCall(LastOf(tools, ByApi(tools, c.api)).name, c.args)>>
FormatCalls(calls, tools) == FlattenSeq([i \in DOMAIN calls |-> FormatCall(calls[i], tools)])

-----------------------------------------------------------------------------
Message(role, content) == [role |-> role, content |-> content, calls |-> <<>>, tool |-> ""]

(* convert_to_cwm_message: the reasoning of a message is not part of it.    *)
(* tool_from_call_id gives the name in the API.                             *)
Convert(m, tools) ==
  [header |-> IF m.role = "tool" THEN <<"tool", m.tool>> ELSE <<m.role>>,
   body   |-> m.content \o FormatCalls(m.calls, tools)]
LastSystem(msgs) ==
  LET systems == {i \in DOMAIN msgs : msgs[i].role = "system"}
  IN IF systems = {} THEN 0 ELSE Max(systems)
WithTools(msgs, tools) ==
  IF tools = <<>> THEN msgs
  ELSE InsertAt(msgs, LastSystem(msgs) + 1, Message("system", <<Text("tools")>>))
EncodeDialog(msgs, tools) ==
  LET told == WithTools(msgs, tools) IN [i \in DOMAIN told |-> Convert(told[i], tools)]

(* handle_completions.  encode_prompt_dialog asserts that nobody thinks in  *)
(* an answer that is begun already.                                         *)
Request(fds, think, n) ==
  /\ sv = "client" /\ Len(written) < MaxTurns
  /\ offered' = PrepareTools(fds) /\ thinking' = think
  /\ IF think /\ Last(history).role = "assistant"
     THEN sv' = "failed" /\ UNCHANGED prompt
     ELSE sv' = "generate" /\ prompt' = EncodeDialog(history, offered')
  /\ missing' = n /\ completions' = <<>>
  /\ UNCHANGED <<history, written>>

(* g.generate: one call after another *)
Generate(o) ==
  /\ sv = "generate" /\ missing > 0
  /\ completions' = Append(completions, o) /\ missing' = missing - 1
  /\ UNCHANGED <<history, written, sv, offered, thinking, prompt>>

(* tokens[-1] of a completion without tokens *)
HasTokens(o) == o.segs # <<>> \/ o.stops
RespondFails ==
  /\ sv = "generate" /\ missing = 0
  /\ \E i \in DOMAIN completions : ~HasTokens(completions[i])
  /\ sv' = "failed"
  /\ UNCHANGED <<history, written, offered, thinking, prompt, missing, completions>>

(* the content starts after the end of the thinking, if there is one *)
ContentOf(segs) ==
  LET ends == {i \in DOMAIN segs : segs[i] = EndOfThought}
  IN IF ~thinking \/ ends = {} THEN segs ELSE SubSeq(segs, Min(ends) + 1, Len(segs))
Choice(o) ==
  LET answer == ParseCalls(ContentOf(o.segs), offered)
  IN [Message("assistant", answer.content) EXCEPT !.calls = answer.calls]
Respond ==
  /\ sv = "generate" /\ missing = 0
  /\ \A i \in DOMAIN completions : HasTokens(completions[i])
  /\ sv' = "answered"
  /\ \E i \in DOMAIN completions :    \* the client takes one of the choices
       /\ history' = Append(history, Choice(completions[i]))
       /\ written' = Append(written, [segs  |-> ContentOf(completions[i].segs),
                                      tools |-> offered])
  /\ UNCHANGED <<offered, thinking, prompt, missing, completions>>

(* The client: it runs the calls, speaks, or sends the answer as it is. *)
Told(msgs) ==
  /\ sv = "answered" /\ sv' = "client"
  /\ history' = history \o msgs
  /\ UNCHANGED <<written, offered, thinking, prompt, missing, completions>>
ResultOf(c) == [Message("tool", <<Text("result")>>) EXCEPT !.tool = c.api]
RunCalls ==
  LET calls == Last(history).calls
  IN calls # <<>> /\ Told([i \in DOMAIN calls |-> ResultOf(calls[i])])
Speak == Last(history).calls = <<>> /\ Told(<<Message("user", <<Text("user")>>)>>)
SendAsIs == Last(history).calls = <<>> /\ Told(<<>>)

ServingInit ==
  /\ history = <<Message("system", <<Text("system")>>), Message("user", <<Text("user")>>)>>
  /\ written = <<>> /\ sv = "client" /\ offered = <<>> /\ thinking = FALSE
  /\ prompt = <<>> /\ missing = 0 /\ completions = <<>>
ServingNext ==
  \/ \E fds \in ToolSets, think \in BOOLEAN, n \in 1..MaxChoices : Request(fds, think, n)
  \/ \E o \in Outputs : Generate(o)
  \/ RespondFails \/ Respond \/ RunCalls \/ Speak \/ SendAsIs
ServingSpec == ServingInit /\ [][ServingNext]_svvars

-----------------------------------------------------------------------------
Positions(header) == {i \in DOMAIN prompt : prompt[i].header = header}
(* the place of the k-th answer of the model in the prompt *)
AnswerAt(k) == CHOOSE i \in Positions(<<"assistant">>) :
                 Cardinality({j \in Positions(<<"assistant">>) : j <= i}) = k
Known(seg, tools) ==
  /\ seg \in Callable /\ ByName(tools, seg.tool) # {}
  /\ seg.tool = "edit" => seg.body \notin {"malformed", "two blocks"}

(***************************************************************************)
(* The model is shown what it did: each of its answers, in order, with the *)
(* texts it wrote after its thinking, and with the calls of tools that     *)
(* were, and are, there, in the order in which it wrote them; and behind   *)
(* it a result for each call that was run, in that order.                  *)
(***************************************************************************)
ShownWhatItDid ==
  sv = "generate" =>
    /\ Cardinality(Positions(<<"assistant">>)) = Len(written)
    /\ \A k \in DOMAIN written :
         LET at    == AnswerAt(k)
             wrote == written[k]
             calls == Only(wrote.segs, Calls)
             api(call) == LastOf(wrote.tools, ByName(wrote.tools, call.tool)).api
         IN /\ Only(prompt[at].body, Texts) = Only(wrote.segs, Texts)
            /\ (\A i \in DOMAIN calls : Known(calls[i], wrote.tools)) =>
                 /\ Only(prompt[at].body, Calls)
                      = Only(calls, {s \in ToSet(calls) : Known(s, offered)})
                 /\ \A i \in DOMAIN calls :
                      at + i \in DOMAIN prompt /\ prompt[at + i].header = <<"tool", api(calls[i])>>
=============================================================================
