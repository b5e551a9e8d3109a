-------------------------- MODULE DocumentEntities --------------------------
(***************************************************************************)
(* What the document worker loads from the JSON of a document context: the *)
(* entities of the knowledge model and the replies of the project, as far  *)
(* as resolve_links and the ReplyVisitor can tell them apart.              *)
(***************************************************************************)
EXTENDS Sequences

CONSTANT None       \* an absent uuid or object

(* children are the uuids of what is listed under an entity, refs those of *)
(* its tags, experts and references, phase the one that requires it, link  *)
(* the one other entity it points to, key its annotation json.key.         *)
EntityRecord ==
    [type: STRING, children: Seq(STRING), refs: Seq(STRING),
     phase: STRING \union {None}, link: STRING \union {None}, key: STRING \union {None}]
Bare(type) ==
    [type |-> type, children |-> <<>>, refs |-> <<>>, phase |-> None, link |-> None,
     key |-> None]
Over(type, children) == [Bare(type) EXCEPT !.children = children]
To(type, link) == [Bare(type) EXCEPT !.link = link]

-----------------------------------------------------------------------------
(* Around the questions *)

Tag == Bare("Tag")
Expert == Bare("Expert")
Phase == Bare("Phase")
Choice == Bare("Choice")
Chapter(questions) == Over("Chapter", questions)
Answer(followups) == Over("Answer", followups)
ResourcePage == Bare("ResourcePage")
ResourceCollection(pages) == Over("ResourceCollection", pages)
ApiIntegration == Bare("ApiIntegration")
PluginIntegration == Bare("PluginIntegration")
CrossReference == Bare("CrossReference")
URLReference == Bare("URLReference")
ResourcePageReference(page) == To("ResourcePageReference", page)

-----------------------------------------------------------------------------
(* Questions *)

(* Any question may be required from a phase on, and have references.      *)
Asked(question, phase, refs) == [question EXCEPT !.phase = phase, !.refs = refs]

ValueQuestion == Bare("ValueQuestion")
FileQuestion == Bare("FileQuestion")
OptionsQuestion(answers) == Over("OptionsQuestion", answers)
MultiChoiceQuestion(choices) == Over("MultiChoiceQuestion", choices)
ListQuestion(followups) == Over("ListQuestion", followups)
IntegrationQuestion(integration) == To("IntegrationQuestion", integration)
ItemSelectQuestion(list) == To("ItemSelectQuestion", list)

-----------------------------------------------------------------------------
(* Replies: a path, and as value the uuids, or the text, of the reply *)

ReplyRecord == [path: Seq(STRING), type: STRING, value: Seq(STRING)]
Reply(path, type, value) == [path |-> path, type |-> type, value |-> value]

AnswerReply(path, answer) == Reply(path, "AnswerReply", <<answer>>)
StringReply(path, text) == Reply(path, "StringReply", <<text>>)
ItemListReply(path, items) == Reply(path, "ItemListReply", items)
MultiChoiceReply(path, choices) == Reply(path, "MultiChoiceReply", choices)
IntegrationReply(path, text) == Reply(path, "IntegrationReply", <<text>>)
FileReply(path, file) == Reply(path, "FileReply", <<file>>)

(* Nothing may be selected.                                                *)
ItemSelectReply(path, item) ==
    Reply(path, "ItemSelectReply", IF item = "" THEN <<>> ELSE <<item>>)

-----------------------------------------------------------------------------
(* The types that a class is registered for *)

QuestionTypes ==
    {"ValueQuestion", "OptionsQuestion", "MultiChoiceQuestion", "ListQuestion",
     "IntegrationQuestion", "ItemSelectQuestion", "FileQuestion"}
IntegrationTypes == {"ApiIntegration", "PluginIntegration"}
ReferenceTypes == {"URLReference", "ResourcePageReference", "CrossReference"}
AttachedTypes == {"Tag", "Expert"} \union ReferenceTypes
EntityTypes ==
    QuestionTypes \union IntegrationTypes \union AttachedTypes
      \union {"Chapter", "Answer", "Choice", "Phase", "ResourceCollection", "ResourcePage"}
ReplyTypes ==
    {"AnswerReply", "StringReply", "ItemListReply", "MultiChoiceReply",
     "IntegrationReply", "ItemSelectReply", "FileReply"}
SingleTypes == {"AnswerReply", "StringReply", "IntegrationReply", "FileReply"}
=============================================================================
