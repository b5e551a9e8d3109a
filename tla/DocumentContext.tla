--------------------------- MODULE DocumentContext ---------------------------
(***************************************************************************)
(* What the filter to_context_obj makes of the document context: the       *)
(* objects are loaded, resolve_links ties them together (knowledge model,  *)
(* report, project), and a ReplyVisitor walks the replies to give every    *)
(* list item a title.                                                      *)
(*                                                                         *)
(* The recursive calls of the source are frames on the stack todo: the     *)
(* frames that a call adds run before those that were there, which is the  *)
(* order of the recursion, and the recursion ends when todo is empty.      *)
(***************************************************************************)
EXTENDS DocumentEntities, Integers, Sequences, FiniteSets, SequencesExt, Functions

CONSTANTS
    Entities,   \* uuids of knowledge model entities, of every kind
    Items,      \* uuids of items of list questions
    Files       \* uuids of project files

(* A context: its knowledge model (entity, the entities by uuid, and the   *)
(* uuids that the model itself lists), the phase and the files of the      *)
(* project, its replies in the order of the JSON object, the chapters of   *)
(* its chapter reports, and whether its metamodel version is supported.    *)
ContextFields ==
    {"supported", "entity", "chapters", "phases", "collections",
     "phase", "files", "replies", "reports"}

ASSUME ContextAssumption ==
    /\ Entities \union Items \union Files \subseteq STRING
    /\ None \notin STRING
    /\ Entities \intersect Items = {}
    /\ IsFiniteSet(Entities) /\ IsFiniteSet(Items)

(* The order of PHASE_NEVER. *)
PhaseNeverOrder == 10000000

(* The server keeps one reply at a path, lists every phase, and lists it   *)
(* once.                                                                   *)
IsContext(c) ==
    /\ DOMAIN c = ContextFields
    /\ c.supported \in BOOLEAN
    /\ DOMAIN c.entity \subseteq Entities
    /\ \A e \in DOMAIN c.entity : c.entity[e] \in EntityRecord
    /\ {c.chapters, c.phases, c.collections, c.reports} \subseteq Seq(STRING)
    /\ c.phase \in STRING \union {None}
    /\ c.files \subseteq Files
    /\ c.replies \in Seq(ReplyRecord)
    /\ \A k \in DOMAIN c.replies :
          /\ c.replies[k].path # <<>>
          /\ c.replies[k].type = "ItemListReply" => c.replies[k].value \in Seq(Items)
          /\ c.replies[k].type \in SingleTypes => Len(c.replies[k].value) = 1
    /\ IsInjective([k \in DOMAIN c.replies |-> c.replies[k].path])
    /\ IsInjective(c.phases) /\ Len(c.phases) < PhaseNeverOrder
    /\ \A e \in DOMAIN c.entity : c.entity[e].type = "Phase" => e \in ToSet(c.phases)

VARIABLES
    ctx,            \* the context, as given
    stage,          \* how far to_context_obj is
    todo,           \* the stack of calls that are still to be made
    order,          \* Phase.order
    parent,         \* the parent (or collection) of an entity
    required,       \* Question.is_required: "unset", "yes" or "no"
    attached,       \* tags, experts and references of a question
    target,         \* integration, list_question or resource_page
    reports,        \* Chapter.reports
    question,       \* reply path -> its question
    chosen,         \* reply path -> what the reply is linked to
    fileReply,      \* ProjectFile.reply
    titles,         \* ReplyVisitor.item_titles
    sameAs,         \* ReplyVisitor.item_same_as
    pending,        \* the keys of item_same_as that are to be processed
    hop,            \* the item whose chain is followed, how far, what it met
    shown           \* reply path -> item_title of an item select reply

modelVars == <<order, parent, required, attached, target, reports>>
replyVars == <<question, chosen, fileReply>>
titleVars == <<titles, sameAs, pending, hop, shown>>
contextVars == <<ctx, stage, todo, modelVars, replyVars, titleVars>>

-----------------------------------------------------------------------------
(* Lookups *)

Entity == ctx.entity
TypeOf(e) == Entity[e].type
IsA(e, types) == e \in DOMAIN Entity /\ TypeOf(e) \in types
Of(types) == {e \in DOMAIN Entity : TypeOf(e) \in types}

(* A list comprehension with a condition: the elements of s that are in S. *)
Kept(s, S) ==
    LET upTo[n \in 0..Len(s)] ==
            IF n = 0 THEN <<>>
            ELSE IF s[n] \in S THEN Append(upTo[n - 1], s[n]) ELSE upTo[n - 1]
    IN  upTo[Len(s)]

(* The uuids that name an entity of the right kind; others are skipped. *)
Existing(uuids, types) == Kept(uuids, Of(types))

(* dict.get: the entity, or None. *)
Lookup(e, types) == IF IsA(e, types) THEN e ELSE None

(* What is listed under an entity of some type. *)
ChildTypes(type) ==
    CASE type \in {"Chapter", "Answer", "ListQuestion"} -> QuestionTypes
      [] type = "OptionsQuestion" -> {"Answer"}
      [] type = "MultiChoiceQuestion" -> {"Choice"}
      [] type = "ResourceCollection" -> {"ResourcePage"}
      [] OTHER -> {}
Children(e) == Existing(Entity[e].children, ChildTypes(TypeOf(e)))

(* A title: the number of an item, or the text that a reply gives. *)
Numbered(n) == [n |-> n, text |-> <<>>]
DirectTitle(path) == [n |-> 0, text |-> chosen[path]]
PlainTitle == [n |-> 0, text |-> <<"Item">>]

Paths == {ctx.replies[k].path : k \in DOMAIN ctx.replies}
ReplyAt(path) == ctx.replies[CHOOSE k \in DOMAIN ctx.replies : ctx.replies[k].path = path]
HasReply(path, type) == path \in Paths /\ ReplyAt(path).type = type

(* The project's phase; None stands for PHASE_NEVER, which comes last. *)
CurrentPhase == Lookup(ctx.phase, {"Phase"})
OrderOf(phase) == IF phase = None THEN PhaseNeverOrder ELSE order[phase]

-----------------------------------------------------------------------------
(* Loading *)

Nowhere == [item |-> None, at |-> None, met |-> {}]

ContextInit ==
    /\ stage = "new"
    /\ todo = <<>>
    /\ order = <<>> /\ parent = <<>> /\ required = <<>>
    /\ attached = <<>> /\ target = <<>> /\ reports = <<>>
    /\ question = <<>> /\ chosen = <<>> /\ fileReply = <<>>
    /\ titles = <<>> /\ sameAs = <<>> /\ pending = <<>> /\ shown = <<>>
    /\ hop = Nowhere

(* The metamodel is checked first; then a type that no class is registered *)
(* for is a ValueError.                                                    *)
Loads ==
    /\ ctx.supported
    /\ \A e \in DOMAIN Entity : TypeOf(e) \in EntityTypes
    /\ \A k \in DOMAIN ctx.replies : ctx.replies[k].type \in ReplyTypes

Load ==
    /\ stage = "new"
    /\ stage' = IF Loads THEN "loaded" ELSE "invalid"
    /\ order' = [p \in Of({"Phase"}) |-> 0]
    /\ parent' = [e \in DOMAIN Entity |-> None]
    /\ required' = [q \in Of(QuestionTypes) |-> "unset"]
    /\ attached' = [q \in Of(QuestionTypes) |-> <<>>]
    /\ target' = [e \in DOMAIN Entity |-> None]
    /\ reports' = [c \in Of({"Chapter"}) |-> <<>>]
    /\ question' = [p \in Paths |-> None]
    /\ chosen' = [p \in Paths |-> <<>>]
    /\ fileReply' = [f \in ctx.files |-> None]
    /\ shown' = [p \in {x \in Paths : HasReply(x, "ItemSelectReply")} |-> PlainTitle]
    /\ titles' = <<>> /\ sameAs' = <<>> /\ pending' = <<>> /\ hop' = Nowhere
    /\ UNCHANGED <<ctx, todo>>

-----------------------------------------------------------------------------
(* Resolving the knowledge model *)

Frame(e, owner) == [entity |-> e, owner |-> owner]
Frames(es, owner) == [k \in DOMAIN es |-> Frame(es[k], owner)]

(* The phases are numbered before any question asks for their order. *)
NumberPhases ==
    LET phases == Existing(ctx.phases, {"Phase"})
    IN  [p \in DOMAIN order |->
            IF \E k \in DOMAIN phases : phases[k] = p
            THEN CHOOSE k \in DOMAIN phases : phases[k] = p
            ELSE order[p]]

(* As below, with the phases numbered too late. (mutant) *)
ResolveUnnumbered ==
    /\ stage = "loaded"
    /\ stage' = "model"
    /\ todo' = Frames(Existing(ctx.chapters, {"Chapter"}), None)
    /\ UNCHANGED <<ctx, order, parent, required, attached, target, reports, replyVars, titleVars>>

ResolveModel ==
    /\ stage = "loaded"
    /\ stage' = "model"
    /\ order' = NumberPhases
    /\ todo' = Frames(Existing(ctx.chapters, {"Chapter"}), None)
               \o Frames(Existing(ctx.collections, {"ResourceCollection"}), None)
    /\ UNCHANGED <<ctx, parent, required, attached, target, reports, replyVars, titleVars>>

(* The owner of an entity makes itself the parent, then resolves it. *)
Enter(types) ==
    /\ stage = "model"
    /\ todo # <<>>
    /\ TypeOf(Head(todo).entity) \in types
    /\ parent' = [parent EXCEPT ![Head(todo).entity] = Head(todo).owner]
    /\ todo' = Frames(Children(Head(todo).entity), Head(todo).entity) \o Tail(todo)
    /\ UNCHANGED <<ctx, stage, order, reports, replyVars, titleVars>>

(* Chapters, answers, collections, choices and pages. *)
ResolveEntity ==
    /\ Enter({"Chapter", "Answer", "ResourceCollection", "Choice", "ResourcePage"})
    /\ UNCHANGED <<required, attached, target>>

(* Whether the project has reached the phase that requires the question. *)
IsRequired(q) ==
    /\ Entity[q].phase # None
    /\ OrderOf(CurrentPhase) >= OrderOf(Lookup(Entity[q].phase, {"Phase"}))

(* A question's own link, and those of the page references it lists. *)
LinkTypes(e) ==
    CASE TypeOf(e) = "IntegrationQuestion" -> IntegrationTypes
      [] TypeOf(e) = "ItemSelectQuestion" -> QuestionTypes
      [] TypeOf(e) = "ResourcePageReference" -> {"ResourcePage"}
      [] OTHER -> {}
LinkOf(e) == Lookup(Entity[e].link, LinkTypes(e))

ResolveQuestion ==
    /\ Enter(QuestionTypes \ {"FileQuestion"})
    /\ LET q    == Head(todo).entity
           refs == Existing(Entity[q].refs, AttachedTypes)
       IN  /\ required' = [required EXCEPT ![q] = IF IsRequired(q) THEN "yes" ELSE "no"]
           /\ attached' = [attached EXCEPT ![q] = refs]
           /\ target' = [e \in DOMAIN target |->
                            IF e \in {q} \union ToSet(refs) THEN LinkOf(e) ELSE target[e]]

(* FileQuestion.resolve_links is a pass: only the parent is set. *)
ResolveFileQuestion ==
    /\ Enter({"FileQuestion"})
    /\ UNCHANGED <<required, attached, target>>

-----------------------------------------------------------------------------
(* Resolving the report and the project *)

ResolveReport ==
    /\ stage = "model"
    /\ todo = <<>>
    /\ stage' = "project"
    /\ reports' = [c \in DOMAIN reports |->
                      Kept([k \in DOMAIN ctx.reports |-> k],
                           {k \in DOMAIN ctx.reports : ctx.reports[k] = c})]
    /\ todo' = [k \in DOMAIN ctx.replies |-> ctx.replies[k].path]
    /\ UNCHANGED <<ctx, order, parent, required, attached, target, replyVars, titleVars>>

(* What a reply is linked to: its answer, choices or file, if they exist;  *)
(* the value of any other reply is taken as it is.                         *)
Linked(r) ==
    CASE r.type = "AnswerReply" -> Existing(r.value, {"Answer"})
      [] r.type = "MultiChoiceReply" -> Existing(r.value, {"Choice"})
      [] r.type = "FileReply" -> Kept(r.value, ctx.files)
      [] OTHER -> r.value

(* A reply is tied to the question its path ends with, whether or not the  *)
(* path still leads there, and a file to the last reply that names it.     *)
ResolveReply ==
    /\ stage = "project"
    /\ todo # <<>>
    /\ LET p == Head(todo)
           r == ReplyAt(p)
       IN  /\ question' = [question EXCEPT ![p] = Lookup(Last(p), QuestionTypes)]
           /\ chosen' = [chosen EXCEPT ![p] = Linked(r)]
           /\ fileReply' = [f \in DOMAIN fileReply |->
                               IF r.type = "FileReply" /\ Linked(r) = <<f>>
                               THEN p ELSE fileReply[f]]
    /\ todo' = Tail(todo)
    /\ UNCHANGED <<ctx, stage, modelVars, titleVars>>

-----------------------------------------------------------------------------
(* Visiting the replies *)

Visit(q, path) == [entity |-> q, path |-> Append(path, q), item |-> None, n |-> 0]
Visits(qs, path) == [k \in DOMAIN qs |-> Visit(qs[k], path)]
VisitOfItem(q, path, items, k) ==
    [entity |-> q, path |-> Append(path, items[k]), item |-> items[k], n |-> k]

StartVisit ==
    /\ stage = "project"
    /\ todo = <<>>
    /\ stage' = "visit"
    /\ todo' = FlattenSeq([k \in DOMAIN Existing(ctx.chapters, {"Chapter"}) |->
                  LET c == Existing(ctx.chapters, {"Chapter"})[k]
                  IN  Visits(Children(c), <<c>>)])
    /\ UNCHANGED <<ctx, modelVars, replyVars, titleVars>>

Current == Head(todo)

(* The next call of _visit_question, or the next item of a list. *)
Visiting(isItem) ==
    /\ stage = "visit"
    /\ todo # <<>>
    /\ isItem = (Current.item # None)
    /\ UNCHANGED <<ctx, stage, modelVars, replyVars, hop, shown>>

(* A list question is followed into its items, if its reply is a list. *)
VisitListQuestion ==
    /\ Visiting(FALSE)
    /\ TypeOf(Current.entity) = "ListQuestion"
    /\ LET path  == Current.path
           items == IF HasReply(path, "ItemListReply") THEN ReplyAt(path).value ELSE <<>>
       IN  todo' = [k \in DOMAIN items |-> VisitOfItem(Current.entity, path, items, k)]
                   \o Tail(todo)
    /\ UNCHANGED <<titles, sameAs, pending>>

(* As below, whatever the answer. (mutant) *)
FollowedUnderAll(path) == Children(Last(path))

(* The answers that an options question is followed under: the chosen one, *)
(* which has follow-ups if resolve_links came by it (it has a parent then). *)
Followed(path) ==
    IF HasReply(path, "AnswerReply")
    THEN Kept(chosen[path], {a \in DOMAIN Entity : parent[a] # None}) ELSE <<>>

VisitOptionsQuestion ==
    /\ Visiting(FALSE)
    /\ TypeOf(Current.entity) = "OptionsQuestion"
    /\ LET path    == Current.path
           answers == Followed(path)
       IN  todo' = FlattenSeq([k \in DOMAIN answers |->
                       Visits(Children(answers[k]), Append(path, answers[k]))])
                   \o Tail(todo)
    /\ UNCHANGED <<titles, sameAs, pending>>

VisitOtherQuestion ==
    /\ Visiting(FALSE)
    /\ TypeOf(Current.entity) \notin {"ListQuestion", "OptionsQuestion"}
    /\ todo' = Tail(todo)
    /\ UNCHANGED <<titles, sameAs, pending>>

Put(f, key, value) == [x \in DOMAIN f \union {key} |-> IF x = key THEN value ELSE f[x]]

(* The item that the reply to an item's first question names, if any: the  *)
(* first of a list of items, or the one that is selected.                  *)
Named(r) ==
    IF r.type \in {"ItemListReply", "ItemSelectReply"} /\ r.value # <<>>
    THEN r.value[1] ELSE None
HasDirectTitle(r) == r.type \notin {"ItemListReply", "ItemSelectReply"}

(* An item is numbered; the reply to its first question may give the title *)
(* or name the item that does. Then its questions are visited.             *)
VisitItem ==
    /\ Visiting(TRUE)
    /\ LET item      == Current.item
           followups == Children(Current.entity)
           first     == Append(Current.path, IF followups = <<>> THEN None ELSE followups[1])
           named     == IF first \in Paths THEN Named(ReplyAt(first)) ELSE None
       IN  /\ titles' = Put(titles, item,
                            IF first \in Paths /\ HasDirectTitle(ReplyAt(first))
                            THEN DirectTitle(first) ELSE Numbered(Current.n))
           /\ sameAs' = IF named # None THEN Put(sameAs, item, named) ELSE sameAs
           /\ pending' = IF named # None /\ item \notin DOMAIN sameAs
                         THEN Append(pending, item) ELSE pending
           /\ todo' = Visits(followups, Current.path) \o Tail(todo)

-----------------------------------------------------------------------------
(* Titles that come from other items *)

StartTitles ==
    /\ stage = "visit"
    /\ todo = <<>>
    /\ stage' = "titles"
    /\ UNCHANGED <<ctx, todo, modelVars, replyVars, titleVars>>

(* The keys of item_same_as are popped from the end. *)
PopItem ==
    /\ stage = "titles"
    /\ hop.item = None
    /\ pending # <<>>
    /\ hop' = [item |-> Last(pending), at |-> Last(pending), met |-> {Last(pending)}]
    /\ pending' = Front(pending)
    /\ UNCHANGED <<ctx, stage, todo, modelVars, replyVars, titles, sameAs, shown>>

(* As below, for one step only. (mutant) *)
OneStepOnly == hop.at = hop.item /\ sameAs[hop.at] \notin hop.met

(* As below, without a look at what was met. (mutant) *)
GoesRoundInCircles == hop.at \in DOMAIN sameAs

(* The chain goes on, and does not come back to an item it has met. *)
ChainGoesOn == hop.at \in DOMAIN sameAs /\ sameAs[hop.at] \notin hop.met

FollowSameAs ==
    /\ stage = "titles"
    /\ hop.item # None
    /\ ChainGoesOn
    /\ hop' = [hop EXCEPT !.at = sameAs[hop.at], !.met = @ \union {sameAs[hop.at]}]
    /\ UNCHANGED <<ctx, stage, todo, modelVars, replyVars, titles, sameAs, pending, shown>>

CopyTitle ==
    /\ stage = "titles"
    /\ hop.item # None
    /\ ~ChainGoesOn
    /\ titles' = IF hop.at \in DOMAIN titles
                 THEN Put(titles, hop.item, titles[hop.at]) ELSE titles
    /\ hop' = Nowhere
    /\ UNCHANGED <<ctx, stage, todo, modelVars, replyVars, sameAs, pending, shown>>

(* Every item select reply shows the title of its item, or "Item". *)
ShowTitles ==
    /\ stage = "titles"
    /\ hop.item = None
    /\ pending = <<>>
    /\ stage' = "built"
    /\ shown' = [p \in DOMAIN shown |->
                    LET item == Named(ReplyAt(p))
                    IN  IF item \in DOMAIN titles THEN titles[item] ELSE PlainTitle]
    /\ UNCHANGED <<ctx, todo, modelVars, replyVars, titles, sameAs, pending, hop>>

ContextNext ==
    \/ Load
    \/ ResolveModel \/ ResolveEntity \/ ResolveQuestion \/ ResolveFileQuestion
    \/ ResolveReport \/ ResolveReply
    \/ StartVisit \/ VisitListQuestion \/ VisitOptionsQuestion
    \/ VisitOtherQuestion \/ VisitItem
    \/ StartTitles \/ PopItem \/ FollowSameAs \/ CopyTitle \/ ShowTitles
=============================================================================
