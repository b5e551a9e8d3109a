------------------------- MODULE DocumentExtraction --------------------------
(***************************************************************************)
(* The filter extract_replies: from the objects of a context it makes a    *)
(* tree of plain values, with the replies of the questions that have the   *)
(* annotation json.key. Chapters, answers and items become objects of      *)
(* their own; what is not annotated is transparent, except for lists.      *)
(*                                                                         *)
(* A field is what its value is made from: the path of a reply, choices,   *)
(* or the paths of objects; <<>> is None or an empty list. A configuration *)
(* changes nothing: extract_replies merges the defaults over it. As in     *)
(* DocumentContext the recursion is the stack todo.                        *)
(***************************************************************************)
EXTENDS DocumentContext

VARIABLE
    extracted       \* SimpleExtractor._objects: path -> name -> value

objectVars == <<contextVars, extracted>>

Root == <<>>

(* The annotation json.key, or None.                                       *)
KeyOf(e) == Entity[e].key

-----------------------------------------------------------------------------
Extract(es, path, at) ==
    [k \in DOMAIN es |-> [entity |-> es[k], path |-> Append(path, es[k]), at |-> at]]

(* extract: a new extractor begins with an empty root.                     *)
StartExtraction ==
    /\ stage = "built"
    /\ stage' = "extract"
    /\ extracted' = [root \in {Root} |-> <<>>]
    /\ todo' = Extract(Existing(ctx.chapters, {"Chapter"}), <<>>, Root)
    /\ UNCHANGED <<ctx, modelVars, replyVars, titleVars>>

Extracting(types) ==
    /\ stage = "extract"
    /\ todo # <<>>
    /\ TypeOf(Current.entity) \in types
    /\ UNCHANGED <<ctx, stage, modelVars, replyVars, titleVars>>

IsKeyed == KeyOf(Current.entity) # None

(* The objects at paths are new and empty; if what is visited has a key,   *)
(* the object it belongs to gets a field.                                  *)
Record(value, paths) ==
    extracted' =
        IF ~IsKeyed THEN extracted
        ELSE [o \in DOMAIN extracted \union paths |->
                IF o \in paths THEN <<>>
                ELSE IF o = Current.at THEN Put(extracted[o], KeyOf(Current.entity), value)
                ELSE extracted[o]]

(* As below, with the object around it. (mutant)                           *)
ObjectAround(path) == Current.at

(* The object that the questions below path belong to.                     *)
ObjectOf(path) == IF IsKeyed THEN path ELSE Current.at

ExtractChapter ==
    /\ Extracting({"Chapter"})
    /\ LET path == Current.path
       IN  /\ todo' = Extract(Children(Current.entity), path, ObjectOf(path)) \o Tail(todo)
           /\ Record(<<path>>, {path})

(* The type of reply that a question without follow-ups is extracted from. *)
ReplyTypeOf(q) ==
    CASE TypeOf(q) = "ValueQuestion" -> "StringReply"
      [] TypeOf(q) = "IntegrationQuestion" -> "IntegrationReply"
      [] TypeOf(q) = "ItemSelectQuestion" -> "ItemSelectReply"
      [] TypeOf(q) = "FileQuestion" -> "FileReply"

ExtractReply ==
    /\ Extracting({"ValueQuestion", "IntegrationQuestion", "ItemSelectQuestion", "FileQuestion"})
    /\ LET path  == Current.path
           reply == HasReply(path, ReplyTypeOf(Current.entity))
           gone  == HasReply(path, "FileReply") /\ chosen[path] = <<>>
       IN  Record(IF reply /\ ~gone THEN <<path>> ELSE <<>>, {})
    /\ todo' = Tail(todo)

ExtractChoices ==
    /\ Extracting({"MultiChoiceQuestion"})
    /\ LET path == Current.path
       IN  Record(IF HasReply(path, "MultiChoiceReply") THEN chosen[path] ELSE <<>>, {})
    /\ todo' = Tail(todo)

(* With a key or without, the chosen answer is followed.                   *)
ExtractAnswer ==
    /\ Extracting({"OptionsQuestion"})
    /\ LET path     == Current.path
           answers  == IF HasReply(path, "AnswerReply") THEN chosen[path] ELSE <<>>
           followed == Followed(path)
           place(a) == Append(path, a)
       IN  /\ Record([k \in DOMAIN answers |-> place(answers[k])],
                     {place(a) : a \in ToSet(answers)})
           /\ todo' = FlattenSeq([k \in DOMAIN followed |->
                          Extract(Children(followed[k]), place(followed[k]),
                                  ObjectOf(place(followed[k])))])
                      \o Tail(todo)

(* A list without a key is not looked into.                                *)
ExtractItems ==
    /\ Extracting({"ListQuestion"})
    /\ LET path   == Current.path
           items  == IF HasReply(path, "ItemListReply") /\ IsKeyed
                     THEN ReplyAt(path).value ELSE <<>>
           places == [k \in DOMAIN items |-> Append(path, items[k])]
       IN  /\ Record(places, ToSet(places))
           /\ todo' = FlattenSeq([k \in DOMAIN items |->
                          Extract(Children(Current.entity), places[k], places[k])])
                      \o Tail(todo)

FinishExtraction ==
    /\ stage = "extract"
    /\ todo = <<>>
    /\ stage' = "extracted"
    /\ UNCHANGED <<ctx, todo, modelVars, replyVars, titleVars, extracted>>

ExtractionNext ==
    \/ StartExtraction \/ ExtractChapter \/ ExtractReply \/ ExtractChoices
    \/ ExtractAnswer \/ ExtractItems \/ FinishExtraction
=============================================================================
