------------------------------ MODULE Template ------------------------------
(***************************************************************************)
(* TemplateContext (scheduler/src/template.rs): the variables of a         *)
(* workbook, overridden by those of a user, and the replacement of their   *)
(* placeholders in a text, one variable after the other.  A text is a      *)
(* sequence of tokens: a key stands for its placeholder {{key}}, which is  *)
(* never put together from pieces of several texts here.                   *)
(***************************************************************************)
EXTENDS Integers, Sequences, SequencesExt

CONSTANTS
  ResourceId, Property,
  Literal,          \* tokens that are not placeholders
  ResourceInput,    \* the lists of resources a scenario may have
  OverrideInput,    \* the user's variables: sequences of [key, value]
  TextInput,        \* the texts to be rendered
  Null              \* the YAML value null

Key == ResourceId \X Property
Token == Key \cup Literal
Text == Seq(Token)

(* An IndexMap is the sequence of its entries. *)
OneEntryPerKey(map) == \A i, j \in DOMAIN map : map[i].key = map[j].key => i = j
IndexMap(K, V) == {map \in Seq([key : K, value : V]) : OneEntryPerKey(map)}

Resource == [id : ResourceId, properties : IndexMap(Property, Text \cup {Null})]
Variable == [key : Key, value : Text]

ASSUME TemplateAssumption ==
  /\ ResourceInput \subseteq Seq(Resource) /\ OverrideInput \subseteq IndexMap(Key, Text)
  /\ TextInput \subseteq Text
  /\ Literal \cap Key = {} /\ Null \notin Text

VARIABLES
  resources,  \* workbook.resources of the scenario
  overrides,  \* the user's variables
  text,       \* the text to be rendered
  context,    \* TemplateContext.vars of the merged context
  done,       \* how many variables have been replaced
  rendered

templateVars == <<resources, overrides, text, context, done, rendered>>

-----------------------------------------------------------------------------
(* IndexMap::insert: a new key goes last, a known one keeps its place.     *)
(* Mistakes: it keeps its value too, or has two entries.                   *)
InsertNew(map, entry) ==
  IF \E i \in DOMAIN map : map[i].key = entry.key THEN map ELSE Append(map, entry)

InsertTwice(map, entry) == Append(map, entry)

Insert(map, entry) ==
  IF \E i \in DOMAIN map : map[i].key = entry.key
  THEN [i \in DOMAIN map |-> IF map[i].key = entry.key THEN entry ELSE map[i]]
  ELSE Append(map, entry)

(* Workbook::from_scenario: of two resources with one id the second takes  *)
(* the first one's place.  from_workbook: a variable for each property     *)
(* that is not null.                                                       *)
WorkbookOf(list) ==
  FoldLeft(Insert, <<>>, [i \in DOMAIN list |-> [key |-> list[i].id, value |-> list[i].properties]])

VariablesOf(entry) ==
  FlattenSeq([i \in DOMAIN entry.value |->
    LET given == entry.value[i]
    IN  IF given.value = Null THEN <<>>
        ELSE <<[key |-> <<entry.key, given.key>>, value |-> given.value]>>])

FromWorkbook(workbook) ==
  FoldLeft(Insert, <<>>, FlattenSeq([i \in DOMAIN workbook |-> VariablesOf(workbook[i])]))

Merged(base, extra) == FoldLeft(Insert, base, extra)

(* str::replace does not look again at what it has put in.  Mistake: it    *)
(* replaces the first occurrence only.                                     *)
ReplaceFirst(s, entry) ==
  FlattenSeq([i \in DOMAIN s |->
    IF s[i] = entry.key /\ \A j \in 1 .. i-1 : s[j] # entry.key THEN entry.value ELSE <<s[i]>>])

Replace(s, entry) ==
  FlattenSeq([i \in DOMAIN s |-> IF s[i] = entry.key THEN entry.value ELSE <<s[i]>>])

-----------------------------------------------------------------------------
TemplateInit ==
  /\ resources \in ResourceInput
  /\ overrides \in OverrideInput
  /\ text \in TextInput
  /\ context = Merged(FromWorkbook(WorkbookOf(resources)), overrides)
  /\ done = 0
  /\ rendered = text

(* One turn of the loop of render_str. *)
RenderNext ==
  /\ done < Len(context)
  /\ rendered' = Replace(rendered, context[done + 1])
  /\ done' = done + 1
  /\ UNCHANGED <<resources, overrides, text, context>>

TemplateSpec == TemplateInit /\ [][RenderNext]_templateVars

-----------------------------------------------------------------------------
TemplateTypeOK ==
  /\ context \in IndexMap(Key, Text)
  /\ done \in 0 .. Len(context)
  /\ rendered \in Text

Mentions(s, key) == \E i \in DOMAIN s : s[i] = key

(* What a key stands for, without any regard to order: the user's value,   *)
(* or that of the property of the last resource with the id, or nothing.   *)
UserGives(key, value) == \E i \in DOMAIN overrides : overrides[i] = [key |-> key, value |-> value]

WorkbookGives(key, value) ==
  \E r \in DOMAIN resources :
    /\ resources[r].id = key[1]
    /\ \A later \in r+1 .. Len(resources) : resources[later].id # key[1]
    /\ \E p \in DOMAIN resources[r].properties :
         resources[r].properties[p] = [key |-> key[2], value |-> value]

StandsFor(token, value) ==
  \/ token \in Key /\ UserGives(token, value)
  \/ token \in Key /\ ~(\E v \in {overrides[i].value : i \in DOMAIN overrides} : UserGives(token, v))
       /\ WorkbookGives(token, value)

(* As long as no value mentions a variable, rendering puts for every       *)
(* placeholder what its key stands for and leaves the others as they are:  *)
(* a user's variable wins over a property of the same name, and neither    *)
(* the order of the variables nor that of the resources matters.           *)
Flat == \A i, j \in DOMAIN context : ~Mentions(context[i].value, context[j].key)

ValuesOf(token) == {v \in {context[i].value : i \in DOMAIN context} : StandsFor(token, v)}

FlatIsSubstitution ==
  Flat /\ done = Len(context) =>
    rendered = FlattenSeq([i \in DOMAIN text |->
                 IF ValuesOf(text[i]) = {} THEN <<text[i]>> ELSE CHOOSE v \in ValuesOf(text[i]) : TRUE])

(* A placeholder of a known variable survives only if its own value or     *)
(* that of a later variable mentions it: values may refer to variables     *)
(* that come after, never to ones before.                                  *)
LeftoversComeLater ==
  \A i \in 1 .. done :
    Mentions(rendered, context[i].key) =>
      \E j \in i .. done : Mentions(context[j].value, context[i].key)

(* What rendering makes of a text, whichever values mention variables. *)
RenderingSound == TemplateTypeOK /\ FlatIsSubstitution /\ LeftoversComeLater
=============================================================================
