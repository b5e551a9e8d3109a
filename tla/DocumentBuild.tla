---------------------------- MODULE DocumentBuild ----------------------------
(***************************************************************************)
(* Rendering one document: the format of the template is created step by   *)
(* step (prepare_format), then executed (Template.render). The first step  *)
(* makes a file from the context, every other one from the file before it. *)
(* A jinja template may ask for the objects of the context, and for what   *)
(* can be extracted from them: then the machines of DocumentContext and    *)
(* DocumentExtraction run inside the step. Pandoc is a process of its own, *)
(* external to the source.                                                 *)
(***************************************************************************)
EXTENDS DocumentExtraction

CONSTANTS
    Documents   \* the documents to render: the context and the format of each

VARIABLES
    steps,      \* the steps of the format
    at,         \* the step that is created or executed
    phase,      \* "create", "execute", "convert", or how the build ended
    file,       \* the format (name) of the last file, None before the first
    pandoc      \* the pandoc process: "none", "running", "expired" (still
                \* running, but past its timeout), or its exit

buildVars == <<steps, at, phase, file, pandoc>>
vars == <<objectVars, buildVars>>

(* A step, with the options that matter: from and to (of an archive its    *)
(* compression and type), the file extension of a jinja step, whether its  *)
(* templates, filters and numbers can be loaded, whether it has the fields *)
(* every step must have, and whether it uses to_context_obj.               *)
StepRecord ==
    [name: STRING, from: STRING, to: STRING, extension: STRING,
     loads: BOOLEAN, complete: BOOLEAN, objects: BOOLEAN]

ASSUME DocumentAssumption ==
    \A d \in Documents :
        /\ IsContext(d.context)
        /\ d.format \in Seq(StepRecord)

StepNames ==
    {"json", "jinja", "pandoc", "rdflib-convert", "weasyprint", "excel",
     "enrich-docx", "archive"}

(* FileFormats.get: the name of the format that an option names, or None.  *)
FormatAliases ==
    [x \in {"rdf/xml", "turtle", "ntriples", "n-triples", "json-ld"} |->
        CASE x = "rdf/xml" -> "rdf"
          [] x = "turtle" -> "ttl"
          [] x \in {"ntriples", "n-triples"} -> "nt"
          [] x = "json-ld" -> "jsonld"]
FormatNames ==
    {"html", "pdf", "docx", "markdown", "odt", "rst", "latex", "json", "epub",
     "docbook4", "docbook5", "pptx", "rtf", "asciidoc", "rdf", "ttl", "n3",
     "trig", "jsonld", "zip", "tar", "gzip", "bzip2", "lzma", "xlsx", "xlsm"}
FormatOf(name) ==
    CASE name \in FormatNames -> name
      [] name \in DOMAIN FormatAliases -> FormatAliases[name]
      [] OTHER -> None

PandocInputs == {"docx", "epub", "html", "latex", "markdown", "odt", "rst"}
PandocOutputs ==
    (PandocInputs \union {"asciidoc", "docbook4", "docbook5", "rtf"})
RdfFormats == {"rdf", "n3", "nt", "ttl", "trig", "jsonld"}

(* Absence is no format (which the provers do not conclude from STRING). *)
ASSUME NoneAssumption == None \notin FormatNames \union RdfFormats

-----------------------------------------------------------------------------
(* Creating the format *)

(* Jinja environments read translations, and jinja steps a root template;  *)
(* weasyprint reads numbers, pandoc looks for filters and a template. The  *)
(* other constructors only take their options over.                        *)
TemplatesLoad(s) == s.name \in {"jinja", "enrich-docx"} => s.loads
NumbersLoad(s) == s.name = "weasyprint" => s.loads
FiltersExist(s) == s.name = "pandoc" => s.loads

PandocConverts(s) ==
    s.name = "pandoc" => FormatOf(s.from) \in PandocInputs /\ FormatOf(s.to) \in PandocOutputs
RdfLibConverts(s) ==
    s.name = "rdflib-convert" => {FormatOf(s.from), FormatOf(s.to)} \subseteq RdfFormats

(* What the constructor of a step accepts; anything it raises becomes a    *)
(* template error.                                                         *)
Creates(s) ==
    /\ s.name \in StepNames
    /\ TemplatesLoad(s) /\ NumbersLoad(s) /\ FiltersExist(s)
    /\ PandocConverts(s) /\ RdfLibConverts(s)

BuildInit ==
    /\ ContextInit
    /\ extracted = <<>>
    /\ \E d \in Documents : ctx = d.context /\ steps = d.format
    /\ at = 1
    /\ phase = "create"
    /\ file = None
    /\ pandoc = "none"

CreateStep ==
    /\ phase = "create"
    /\ at <= Len(steps)
    /\ IF (\A k \in DOMAIN steps : steps[k].complete) /\ Creates(steps[at])
       THEN at' = at + 1 /\ phase' = phase
       ELSE at' = at /\ phase' = "template_error"
    /\ UNCHANGED <<objectVars, steps, file, pandoc>>

(* A format without steps is an error too. *)
FormatCreated ==
    /\ phase = "create"
    /\ at > Len(steps)
    /\ phase' = IF steps = <<>> THEN "template_error" ELSE "execute"
    /\ at' = 1
    /\ UNCHANGED <<objectVars, steps, file, pandoc>>

-----------------------------------------------------------------------------
(* Executing it *)

(* With macros or without: the instructions it is built from decide. *)
Workbooks == {"xlsx", "xlsm"}

ArchiveOf(s) ==
    IF s.to # "tar" THEN "zip" ELSE IF s.from = "none" THEN "tar" ELSE s.from

(* The formats that the file a step produces can have. *)
Outputs(s) ==
    CASE s.name = "json" -> {"json"}
      [] s.name = "jinja" -> {s.extension}
      [] s.name \in {"pandoc", "rdflib-convert"} -> {FormatOf(s.to)}
      [] s.name = "weasyprint" -> {"pdf"}
      [] s.name = "enrich-docx" -> {"docx"}
      [] s.name = "excel" -> Workbooks
      [] s.name = "archive" -> {ArchiveOf(s)}

(* As below, without a look at the format of the file. (mutant) *)
AcceptsAnyFile(s, f) ==
    IF f = None THEN s.name \in {"json", "jinja"} ELSE s.name # "json"

(* Only these can be first, and json only that (execute_first). *)
IsFirst(s) == s.name \in {"json", "jinja"}

(* The compressions of an archive. *)
ArchiveModes == {"none", "gzip", "bzip2", "lzma"}

(* What execute_first (no file yet) or execute_follow of a step accepts. *)
Accepts(s, f) ==
    IF f = None THEN IsFirst(s)
    ELSE CASE s.name \in {"pandoc", "rdflib-convert"} -> f = FormatOf(s.from)
           [] s.name = "weasyprint" -> f = "html"
           [] s.name = "enrich-docx" -> f = "docx"
           [] s.name = "excel" -> f = "json"
           [] s.name = "archive" -> s.from \in ArchiveModes
           [] OTHER -> s.name = "jinja"

Step == steps[at]
UsesObjects == Step.name = "jinja" /\ Step.objects
Executing == phase = "execute" /\ at <= Len(steps)

(* The next step gets the file, or the file is the document. *)
Produce(f) ==
    /\ file' = f
    /\ at' = at + 1
    /\ phase' = IF at = Len(steps) THEN "done" ELSE "execute"

Refuse ==
    /\ Executing
    /\ ~Accepts(Step, file)
    /\ phase' = "step_error"
    /\ UNCHANGED <<objectVars, steps, at, file, pandoc>>

(* to_context_obj, called by the template of a jinja step, and then, if    *)
(* the template asks for it, extract_replies.                              *)
BuildObjects ==
    /\ Executing
    /\ UsesObjects
    /\ Accepts(Step, file)
    /\ \/ ContextNext /\ UNCHANGED extracted
       \/ ExtractionNext
    /\ UNCHANGED buildVars

ObjectsReady == UsesObjects => stage \in {"built", "extracted"}

(* The next call of to_context_obj loads objects of its own. *)
ForgetObjects ==
    /\ stage' = "new"
    /\ extracted' = <<>>
    /\ UNCHANGED <<ctx, todo, modelVars, replyVars, titleVars>>

ExecuteStep ==
    /\ Executing
    /\ Accepts(Step, file)
    /\ Step.name # "pandoc"
    /\ ObjectsReady
    /\ \E format \in Outputs(Step) : Produce(format)
    /\ IF UsesObjects THEN ForgetObjects ELSE UNCHANGED objectVars
    /\ UNCHANGED <<steps, pandoc>>

(* A template, a parser or a writer raises; or to_context_obj did. *)
StepFails ==
    /\ Executing
    /\ Accepts(Step, file)
    /\ Step.name # "pandoc"
    /\ ObjectsReady \/ stage = "invalid"
    /\ phase' = "render_error"
    /\ UNCHANGED <<objectVars, steps, at, file, pandoc>>

-----------------------------------------------------------------------------
(* Pandoc *)

StartPandoc ==
    /\ Executing
    /\ Accepts(Step, file)
    /\ Step.name = "pandoc"
    /\ phase' = "convert"
    /\ pandoc' = "running"
    /\ UNCHANGED <<objectVars, steps, at, file>>

(* The process ends by itself, with a document or with an exit code. *)
PandocExits ==
    /\ pandoc \in {"running", "expired"}
    /\ \/ pandoc' = "failed"
       \/ pandoc = "running" /\ pandoc' = "converted"
       \/ pandoc = "expired" /\ pandoc' = "too_late"
    /\ UNCHANGED <<objectVars, steps, at, phase, file>>

(* As below, but the exception does not wait for the process. (mutant) *)
ExpireAtOnce ==
    /\ phase = "convert"
    /\ pandoc = "running"
    /\ phase' = "conversion_error"
    /\ UNCHANGED <<objectVars, steps, at, file, pandoc>>

(* communicate() raises after the timeout, but leaving the Popen block     *)
(* waits for the process before the exception goes on.                     *)
PandocExpires ==
    /\ phase = "convert"
    /\ pandoc = "running"
    /\ pandoc' = "expired"
    /\ UNCHANGED <<objectVars, steps, at, phase, file>>

Collect ==
    /\ phase = "convert"
    /\ pandoc \in {"converted", "failed", "too_late"}
    /\ IF pandoc = "converted"
       THEN \E format \in Outputs(Step) : Produce(format)
       ELSE phase' = "conversion_error" /\ UNCHANGED <<at, file>>
    /\ pandoc' = "none"
    /\ UNCHANGED <<objectVars, steps>>

-----------------------------------------------------------------------------
Ended ==
    phase \in {"done", "template_error", "step_error", "render_error", "conversion_error"}

Worker ==
    \/ CreateStep \/ FormatCreated \/ Refuse
    \/ BuildObjects \/ ExecuteStep \/ StepFails
    \/ StartPandoc \/ Collect
Next == Worker \/ PandocExits \/ PandocExpires

Spec == BuildInit /\ [][Next]_vars

(* The worker goes on, and pandoc ends sooner or later. *)
FairSpec == Spec /\ WF_vars(Worker) /\ WF_vars(PandocExits)

-----------------------------------------------------------------------------
(* Safety *)

(* The loaded objects are typed; a call that is still to be made is about  *)
(* an entity that exists, no title is given before the replies are         *)
(* visited, and a conversion runs only while the build waits for it: none  *)
(* is left behind, whatever ends the build.                                *)
TypeOK ==
    /\ stage \in {"new", "loaded", "model", "project", "visit", "titles", "built",
                  "extract", "extracted", "invalid"}
    /\ phase \in {"create", "execute", "convert", "done", "template_error",
                  "step_error", "render_error", "conversion_error"}
    /\ pandoc \in {"none", "running", "expired", "converted", "failed", "too_late"}
    /\ pandoc # "none" <=> phase = "convert"
    /\ at \in 1..Len(steps) + 1
    /\ stage \in {"model", "visit", "extract"} =>
          \A k \in DOMAIN todo : todo[k].entity \in DOMAIN Entity
    /\ stage \notin {"new", "invalid"} =>
          /\ required \in [Of(QuestionTypes) -> {"unset", "yes", "no"}]
          /\ parent \in [DOMAIN Entity -> DOMAIN Entity \union {None}]
          /\ target \in [DOMAIN Entity -> DOMAIN Entity \union {None}]
          /\ fileReply \in [ctx.files -> Paths \union {None}]
          /\ DOMAIN sameAs \subseteq DOMAIN titles /\ DOMAIN titles \subseteq Items
    /\ stage \in {"loaded", "model", "project"} => titles = <<>>

(* The entities that the knowledge model leads to, from its chapters down. *)
InModel ==
    LET under[n \in 0..Cardinality(Entities)] ==
            IF n = 0 THEN ToSet(Existing(ctx.chapters, {"Chapter"}))
            ELSE LET above == under[n - 1]
                 IN  above \union UNION {ToSet(Children(e)) : e \in above}
    IN  under[Cardinality(Entities)]

(* Whether the project is in the phase that a question wants, or a later   *)
(* one; a project without a phase is past every one of them.               *)
WantedByNow(q) ==
    LET listed == Existing(ctx.phases, {"Phase"})
        wanted == Entity[q].phase
    IN  /\ wanted # None
        /\ \/ CurrentPhase = None
           \/ \E i, j \in DOMAIN listed :
                  i <= j /\ listed[i] = wanted /\ listed[j] = CurrentPhase
RequiredIs(q) == required[q] = IF WantedByNow(q) THEN "yes" ELSE "no"

(* However deep a question is, and wherever its phase is listed,           *)
(* resolve_links has compared its phase with the project's by the time the *)
(* objects are used; what the model does not lead to is left alone. File   *)
(* questions are the exception (see RequiredIsKnown).                      *)
RequiredFollowsPhases ==
    stage = "built" =>
        \A q \in Of(QuestionTypes \ {"FileQuestion"}) :
            IF q \in InModel THEN RequiredIs(q) ELSE required[q] = "unset"

(* DocumentContext.md says of every question that is_required is whether   *)
(* it is required in the current phase.                                    *)
RequiredIsKnown ==
    stage = "built" => \A q \in InModel \intersect Of(QuestionTypes) : RequiredIs(q)

(* What may follow on a path: a question of the last chapter, answer or    *)
(* item, the chosen answer of an options question, an item of a list.      *)
LeadsOn(path, next) ==
    LET last == Last(path)
    IN  \/ IsA(last, {"Chapter", "Answer"}) /\ next \in ToSet(Children(last))
        \/ last \in Items /\ next \in ToSet(Children(path[Len(path) - 1]))
        \/ /\ IsA(last, {"OptionsQuestion"}) /\ HasReply(path, "AnswerReply")
           /\ ReplyAt(path).value = <<next>> /\ IsA(next, {"Answer"}) /\ next \in InModel
        \/ /\ IsA(last, {"ListQuestion"}) /\ HasReply(path, "ItemListReply")
           /\ next \in ToSet(ReplyAt(path).value)

(* The path of a reply still leads through the model, from a chapter down. *)
Live(path) ==
    /\ path[1] \in ToSet(Existing(ctx.chapters, {"Chapter"}))
    /\ \A k \in 2..Len(path) : LeadsOn(SubSeq(path, 1, k - 1), path[k])

LiveLists ==
    {p \in Paths : /\ HasReply(p, "ItemListReply")
                   /\ IsA(Last(p), {"ListQuestion"})
                   /\ Live(p)}

(* Items get a title if they can be reached, through lists and chosen      *)
(* answers at any depth, and only then: replies that were left behind      *)
(* under another answer, or at a question that was replaced, add none.     *)
LiveItemsAreTitled ==
    stage \in {"titles", "built"} =>
        DOMAIN titles = UNION {ToSet(ReplyAt(p).value) : p \in LiveLists}

(* Where the chain of items that name one another ends, if it does.        *)
ChainEnd(item) ==
    LET after[n \in 0..Cardinality(Items)] ==
            IF n = 0 THEN item
            ELSE LET last == after[n - 1]
                 IN  IF last \in DOMAIN sameAs THEN sameAs[last] ELSE last
    IN  after[Cardinality(Items)]
Cyclic(item) == ChainEnd(item) \in DOMAIN sameAs

FirstReply(p, item) ==
    LET followups == Children(Last(p))
    IN  p \o <<item, IF followups = <<>> THEN None ELSE followups[1]>>
Names(path) == IF path \in Paths THEN Named(ReplyAt(path)) ELSE None

(* An item is titled by the reply to its first question; if that names     *)
(* another item, both have one title, and the item select reply shows it,  *)
(* in whatever order lists and references occur. An item keeps its number  *)
(* if it names nothing, or if the chain it starts ends with an item that   *)
(* is gone. Cycles of items are the exception.                             *)
TitlesAgree ==
    stage = "built" =>
        \A p \in LiveLists : \A k \in DOMAIN ReplyAt(p).value :
            LET item  == ReplyAt(p).value[k]
                first == FirstReply(p, item)
            IN  \/ Cyclic(item)
                \/ /\ Names(first) # None
                   /\ ChainEnd(item) \in DOMAIN titles
                   /\ titles[item] = titles[Names(first)]
                   /\ first \in DOMAIN shown => shown[first] = titles[item]
                \/ /\ Names(first) # None => ChainEnd(item) \notin DOMAIN titles
                   /\ titles[item] =
                         IF first \in Paths /\ HasDirectTitle(ReplyAt(first))
                         THEN DirectTitle(first) ELSE Numbered(k)

(* The object that what is at path belongs to: the longest prefix that is  *)
(* an item, an annotated chapter, or an answer to an annotated question.   *)
MakesObject(path) ==
    LET last == Last(path)
        owner == path[Len(path) - 1]
    IN  \/ last \in Items
        \/ IsA(last, {"Chapter"}) /\ KeyOf(last) # None
        \/ IsA(last, {"Answer"}) /\ KeyOf(owner) # None
HomeOf(path) ==
    LET lengths == {n \in 1..Len(path) - 1 : MakesObject(SubSeq(path, 1, n))}
    IN  IF lengths = {} THEN Root ELSE SubSeq(path, 1, Max(lengths))

(* Extraction comes by: no list without annotation is on the way.          *)
Reachable(path) ==
    /\ IsA(Last(path), QuestionTypes) /\ Live(path)
    /\ \A n \in 2..Len(path) : path[n] \in Items => KeyOf(path[n - 1]) # None

(* What the reply at path is worth: <<>> if it is not of the question's    *)
(* type, or what it names is gone.                                         *)
Worth(path) ==
    LET value == ReplyAt(path).value
        type  == ReplyAt(path).type
    IN  CASE type = "AnswerReply" -> [k \in DOMAIN Existing(value, {"Answer"}) |-> path \o value]
          [] type = "ItemListReply" -> [k \in DOMAIN value |-> Append(path, value[k])]
          [] type = "MultiChoiceReply" -> Existing(value, {"Choice"})
          [] type = "FileReply" -> IF value[1] \in ctx.files THEN <<path>> ELSE <<>>
          [] OTHER -> <<path>>
Answers(path) ==
    <<TypeOf(Last(path)), ReplyAt(path).type>> \in
        {<<"OptionsQuestion", "AnswerReply">>, <<"ListQuestion", "ItemListReply">>,
         <<"MultiChoiceQuestion", "MultiChoiceReply">>, <<"FileQuestion", "FileReply">>,
         <<"ValueQuestion", "StringReply">>, <<"IntegrationQuestion", "IntegrationReply">>,
         <<"ItemSelectQuestion", "ItemSelectReply">>}

Extractable ==
    {p \in Paths : IsA(Last(p), QuestionTypes) /\ KeyOf(Last(p)) # None /\ Answers(p) /\ Reachable(p)}
IsOnlyOne(q) == \A e \in DOMAIN Entity : KeyOf(e) = KeyOf(q) => e = q

(* Every reply that can be reached is extracted into the object it belongs *)
(* to, at any depth and through answers with and without annotation, and   *)
(* nothing else is: no reply that was left behind, none of another item.   *)
(* (Questions of one name and one object take the place of one another.)   *)
RepliesAreExtracted ==
    stage = "extracted" =>
        /\ \A p \in Extractable :
              /\ HomeOf(p) \in DOMAIN extracted
              /\ IsOnlyOne(Last(p)) =>
                    /\ KeyOf(Last(p)) \in DOMAIN extracted[HomeOf(p)]
                    /\ extracted[HomeOf(p)][KeyOf(Last(p))] = Worth(p)
        /\ \A o \in DOMAIN extracted : \A name \in DOMAIN extracted[o] :
              \/ extracted[o][name] = <<>>
              \/ o = Root /\ extracted[o][name] \in {<<<<c>>>> : c \in Of({"Chapter"})}
              \/ \E p \in Extractable :
                    HomeOf(p) = o /\ KeyOf(Last(p)) = name /\ Worth(p) = extracted[o][name]

(* What a step can be given, and by what it can be preceded.               *)
Wants(s) ==
    CASE s.name \in {"pandoc", "rdflib-convert"} -> {FormatOf(s.from)}
      [] s.name = "weasyprint" -> {"html"}
      [] s.name = "enrich-docx" -> {"docx"}
      [] s.name = "excel" -> {"json"}
      [] s.name \in {"jinja", "archive"} -> UNION {Outputs(steps[k]) : k \in DOMAIN steps}
      [] OTHER -> {}
Feeds(s, next) == Outputs(s) \cap Wants(next) # {}

ChainFits ==
    /\ steps[1].name \in {"json", "jinja"}
    /\ \A k \in 2..Len(steps) : Feeds(steps[k - 1], steps[k])

(* A document is what the last step of its format declares, and every step *)
(* was given a file it can read: a chain of steps that does not fit never  *)
(* yields a document, however far its first steps get.                     *)
DocumentFitsItsFormat ==
    phase = "done" => ChainFits /\ file \in Outputs(steps[Len(steps)])

(* Liveness *)

(* Every build ends: chains of titles that go round in circles do not keep *)
(* the visitor, and an expired conversion is over when pandoc is.          *)
BuildEnds == <>Ended
=============================================================================
