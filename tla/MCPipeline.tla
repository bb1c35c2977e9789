----------------------------- MODULE MCPipeline -----------------------------
(***************************************************************************)
(* What executes scenarios, each in behaviours of its own: three calls of  *)
(* a pipeline with two components, in a native process or in a WASM        *)
(* instance; one virtual user and its walk; and the rendering of a text    *)
(* for a user.                                                             *)
(***************************************************************************)
EXTENDS Pipeline, UserExecutor, Template

CONSTANTS
  r1, r2, r3, c1, c2,
  start, a, end, act, other, yes, cond, answer,
  env, user, id, ip, x

VARIABLE part  \* what a behaviour is about: "pipeline", "user" or "render"

MCRun == {r1, r2, r3}
MCComponent == {c1, c2}

-----------------------------------------------------------------------------
(* The user: every workflow of "start" (up to two edges), "a" (up to one)  *)
(* and "end", with one condition that may hold or not; those that ask for  *)
(* the result of an action first; and some that validate must refuse or    *)
(* that only fail when they are walked.                                    *)
MCNodeId == {start, a, end}
MCActionId == {act, other}
MCCondition == {yes, cond, answer}
MCOnOutput == {answer}

EdgeInput == [to : {start, a, end}, trigger : {yes, cond, NoTrigger, NoCondition}]
Edges(n) == UNION {[1 .. k -> EdgeInput] : k \in 0 .. n}

ActionNode(i, edges) == [id |-> i, type |-> "action", action |-> act, edges |-> edges]
EndNode == [id |-> end, type |-> "end", action |-> NoAction, edges |-> <<>>]
Direct == <<[to |-> end, trigger |-> NoTrigger]>>

MCGraphs ==
  {<<ActionNode(start, es), ActionNode(a, fs), EndNode>> : es \in Edges(2), fs \in Edges(1)}

AskFirst(edges) == <<[to |-> a, trigger |-> answer]>> \o edges

MCAskingGraphs ==
  {<<ActionNode(start, AskFirst(es)), ActionNode(a, fs), EndNode>> : es, fs \in Edges(1)}
  \cup {<<ActionNode(start, Direct), ActionNode(a, AskFirst(es)), EndNode>> : es \in Edges(1)}

(* The workflow of the documents: go on if the first action has succeeded. *)
MCProbe == {[nodes |-> <<ActionNode(start, AskFirst(<<[to |-> end, trigger |-> yes]>>)),
                         ActionNode(a, Direct), EndNode>>,
             actions |-> {act}]}

(* The only edge leads to no node. *)
NoEnd == <<ActionNode(start, Direct)>>

(* A second node "a" that is never found, no action, an action that is not *)
(* defined, no "start", no end, and nothing but an end.                    *)
Oddities ==
  LET first == ActionNode(start, <<[to |-> a, trigger |-> cond], [to |-> end, trigger |-> yes]>>)
  IN  {<<first, ActionNode(a, Direct), [EndNode EXCEPT !.id = a], EndNode>>,
       <<first, [ActionNode(a, Direct) EXCEPT !.action = NoAction], EndNode>>,
       <<first, [ActionNode(a, Direct) EXCEPT !.action = other], EndNode>>,
       <<ActionNode(a, Direct), EndNode>>,
       NoEnd,
       <<[EndNode EXCEPT !.id = start]>>}

MCScenarioInput == [nodes : MCGraphs \cup MCAskingGraphs \cup Oddities, actions : {{act}}]

Once == [mode |-> "once", iterations |-> 1]
MCLifetimeInput == {Once, [mode |-> "loop", iterations |-> 2], [mode |-> "loop", iterations |-> 0]}

-----------------------------------------------------------------------------
(* The text: a resource "env" with up to two properties, which may be      *)
(* given twice, and a user with one or two variables, one of which is also *)
(* a property.  Every value is a token or two, or null.                    *)
MCResourceId == {env, user}
MCProperty == {id, ip}
MCLiteral == {x}

Keys == {<<env, id>>, <<env, ip>>, <<user, id>>}
Values == {<<x>>} \cup {<<k>> : k \in Keys} \cup {<< <<env, ip>>, x>>}

Entry(k, v) == [key |-> k, value |-> v]

MCResourceInput ==
  {<<[id |-> env, properties |-> <<Entry(id, v), Entry(ip, w)>>]>> : v \in Values, w \in Values \cup {Null}}
  \cup
  {<<[id |-> env, properties |-> <<Entry(ip, v)>>], [id |-> user, properties |-> <<Entry(id, w)>>],
     [id |-> env, properties |-> <<Entry(id, w)>>]>> : v, w \in Values}

MCOverrideInput ==
  {<<Entry(<<user, id>>, v)>> : v \in Values}
  \cup {<<Entry(<<env, ip>>, v), Entry(<<user, id>>, <<x>>)>> : v \in Values}

MCTextInput == {<<k, l>> : k, l \in Keys \cup {<<user, ip>>, x}}

-----------------------------------------------------------------------------
partVars == <<part, pipelineVars, userVars, templateVars>>

(* The parts that a behaviour is not about stay in one state: a user whose *)
(* scenario was rejected, and no text.                                     *)
NoUser ==
  /\ scenario = [nodes |-> NoEnd, actions |-> {act}] /\ lifetime = Once
  /\ holds = {yes} /\ outcome = "Rejected" /\ iteration = 0 /\ current = start
  /\ outputs = {} /\ traces = <<>> /\ all_traces = <<>>

NoText ==
  resources = <<>> /\ overrides = <<>> /\ text = <<>> /\ context = <<>> /\ done = 0 /\ rendered = <<>>

PartInit ==
  /\ PipelineInit
  /\ \/ part = "pipeline" /\ NoUser /\ NoText
     \/ part = "user" /\ native /\ UserInit /\ NoText
     \/ part = "render" /\ native /\ NoUser /\ TemplateInit

PartNext ==
  \/ part = "pipeline" /\ PipelineNext /\ UNCHANGED <<part, userVars, templateVars>>
  \/ part = "user" /\ UserNext /\ UNCHANGED <<part, pipelineVars, templateVars>>
  \/ part = "render" /\ RenderNext /\ UNCHANGED <<part, pipelineVars, userVars>>

(* The fairness of each part, as its module states it. *)
PartSpec ==
  /\ PartInit /\ [][PartNext]_partVars
  /\ \A r \in Run : WF_partVars(part = "pipeline" /\ Step(r) /\ UNCHANGED <<part, userVars, templateVars>>)
  /\ WF_partVars(part = "user" /\ Walk /\ UNCHANGED <<part, pipelineVars, templateVars>>)
=============================================================================
