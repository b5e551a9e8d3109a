--------------------------- MODULE MCDocumentBuild ---------------------------
EXTENDS DocumentBuild

\* Uuids: a chapter, questions, answers, a choice, phases, a tag, a page.
E == {"c", "ql", "qs", "qt", "qi", "qo", "qf", "qm", "a1", "a2", "a3", "m1", "p1", "p2",
      "t1", "x1", "n1", "n2", "r1", "r2", "r3", "rc", "rp"}
I == {"i1", "i2", "i3"}
F == {"f1"}

\* The annotation json.key of some of the entities.
Keyed(entity, keys) ==
    [e \in DOMAIN entity |->
        [entity[e] EXCEPT !.key = IF e \in DOMAIN keys THEN keys[e] ELSE None]]

Some(present, reply) == IF present THEN <<reply>> ELSE <<>>

Context(entity, replies) ==
    [supported |-> TRUE, entity |-> entity, chapters |-> <<"c", "gone">>,
     phases |-> <<"p1", "p2">>, collections |-> <<>>, phase |-> None, files |-> F,
     replies |-> replies, reports |-> <<"c", "gone", "c">>]

\* A list whose items select one another; "gone" is an item of no list.
Chains ==
    LET entity == [c  |-> Chapter(<<"ql", "qt", "gone">>),
                   ql |-> ListQuestion(<<"qs">>),
                   qs |-> ItemSelectQuestion("ql"),
                   qt |-> ItemSelectQuestion("gone")]
        keys == [ql |-> "list", qs |-> "same", qt |-> "one"]
        select(i, x) == Some(x # None, ItemSelectReply(<<"c", "ql", i, "qs">>, x))
        named == I \union {"gone", None}
    IN  {Context(Keyed(entity, keys), select("i3", x3)
            \o <<ItemSelectReply(<<"c", "qt">>, "i1"), ItemListReply(<<"c", "ql">>, list)>>
            \o select("i1", x1) \o select("i2", x2)) :
            list \in {<<"i1", "i2", "i3">>, <<"i3", "i1">>},
            x1 \in named \union {""}, x2 \in named, x3 \in named}

\* A list in a list: the title of the inner item goes to the outer one.
Nested ==
    LET entity == [c  |-> Chapter(<<"ql", "qs">>),
                   ql |-> ListQuestion(<<"qi", "qo">>),
                   qi |-> ListQuestion(<<"qt">>),
                   qo |-> ItemSelectQuestion(None),
                   qt |-> ValueQuestion,
                   qs |-> ItemSelectQuestion("qi"),
                   qm |-> MultiChoiceQuestion(<<"m1", "gone">>),
                   m1 |-> Choice]
        inner == <<"c", "ql", "i1", "qi">>
        keys == {[c |-> "chapter", ql |-> "outer", qi |-> "inner", qt |-> "text", qm |-> "many"],
                 [ql |-> "outer", qt |-> "text", qs |-> "one"]}
    IN  {Context(Keyed([entity EXCEPT !["qi"] = ListQuestion(fs)], ks),
            <<ItemListReply(<<"c", "ql">>, <<"i1", "i2">>), ItemSelectReply(<<"c", "qs">>, s)>>
            \o Some(list # None, ItemListReply(inner, IF list = "" THEN <<>> ELSE <<list>>))
            \o Some(text, StringReply(inner \o <<"i3", "qt">>, "text"))
            \o Some(text, MultiChoiceReply(inner \o <<"i3", "qm">>, <<"gone", "m1">>))
            \o <<StringReply(<<"c", "ql", "i2", "qi">>, "old")>>) :
            fs \in {<<>>, <<"qt">>, <<"qm", "qt">>}, s \in {"i1", "i3", "gone"},
            list \in {None, "", "i3"}, text \in BOOLEAN, ks \in keys}

\* Answers, phases, files and resources; some replies are under another answer,
\* or under one that no question lists (a3).
Options ==
    LET entity == [c  |-> Chapter(<<"qo", "qf", "qt">>),
                   qo |-> Asked(OptionsQuestion(<<"a1", "a2", "gone">>), "p1",
                                <<"t1", "r1", "r2", "r3", "gone">>),
                   a1 |-> Answer(<<"ql">>),
                   a2 |-> Answer(<<"qm">>),
                   a3 |-> Answer(<<"ql">>),
                   ql |-> Asked(ListQuestion(<<"qs">>), "p2", <<"x1">>),
                   qs |-> Asked(IntegrationQuestion("n1"), "gone", <<>>),
                   qi |-> IntegrationQuestion("n2"),
                   qm |-> MultiChoiceQuestion(<<"m1">>),
                   m1 |-> Choice,
                   qf |-> Asked(FileQuestion, "p1", <<"t1">>),
                   qt |-> Asked(ValueQuestion, "p2", <<>>),
                   t1 |-> Tag, x1 |-> Expert, n1 |-> ApiIntegration, n2 |-> PluginIntegration,
                   r1 |-> ResourcePageReference("rp"), r2 |-> URLReference, r3 |-> CrossReference,
                   rp |-> ResourcePage, rc |-> ResourceCollection(<<"rp", "gone">>),
                   p1 |-> Phase, p2 |-> Phase]
        \* Without a key of qo, qm and qt are of one object.
        all == [qo |-> "choice", ql |-> "list", qs |-> "api", qm |-> "value", qf |-> "file",
                qt |-> "value"]
        keys(ph) == IF ph = "p2" THEN [e \in DOMAIN all \ {"qo"} |-> all[e]] ELSE all
        list(x) == <<"c", "qo", IF x = "a3" THEN x ELSE "a1", "ql">>
        chosen1(x, text) ==
            IF text THEN StringReply(<<"c", "qo">>, x) ELSE AnswerReply(<<"c", "qo">>, x)
    IN  {[Context(Keyed(entity, keys(ph)),
            <<FileReply(<<"c", "qf">>, f)>> \o Some(x # None, chosen1(x, text))
            \o <<ItemListReply(list(x), <<"i1", "i2">>),
                 IntegrationReply(list(x) \o <<"i1", "qs">>, "text"),
                 MultiChoiceReply(<<"c", "qo", "a2", "qm">>, <<"m1">>),
                 FileReply(<<"c", "gone">>, "f1")>>)
            EXCEPT !.phase = ph, !.collections = <<"rc">>] :
            ph \in {None, "p1", "p2", "gone"}, f \in {"f1", "gone"},
            x \in {None, "a1", "a2", "a3", "gone"}, text \in BOOLEAN}

\* Contexts that are not loaded.
Unloadable ==
    LET small == Context([c |-> Chapter(<<"qt">>), qt |-> ValueQuestion], <<>>)
    IN  {[small EXCEPT !.supported = FALSE],
         [small EXCEPT !.entity["qt"].type = "DrawingQuestion"],
         [small EXCEPT !.replies = <<Reply(<<"c", "qt">>, "DrawingReply", <<>>)>>]}

\* Steps.
Simple(name) ==
    [name |-> name, from |-> "none", to |-> "none", extension |-> "html",
     loads |-> TRUE, complete |-> TRUE, objects |-> FALSE]
Jinja(extension) == [Simple("jinja") EXCEPT !.extension = extension]
Objects == [Simple("jinja") EXCEPT !.objects = TRUE]
Convert(name, from, to) == [Simple(name) EXCEPT !.from = from, !.to = to]

FirstSteps == {Simple("json"), Jinja("html"), Jinja("md"), Jinja("ttl"), Objects,
               [Jinja("html") EXCEPT !.loads = FALSE], Simple("archive"), Simple("drawing")}
NextSteps == {Convert("pandoc", "html", "docx"), Convert("pandoc", "markdown", "odt"),
              Convert("pandoc", "pdf", "docx"), [Convert("pandoc", "html", "docx") EXCEPT !.loads = FALSE],
              Convert("rdflib-convert", "turtle", "rdf"), Convert("rdflib-convert", "ttl", "nt"),
              Simple("excel"), Simple("weasyprint"), Simple("json"), Jinja("html"),
              [Simple("enrich-docx") EXCEPT !.complete = FALSE]}
LastSteps == {Simple("enrich-docx"), Convert("archive", "gzip", "tar"), Convert("archive", "none", "tar"),
              Convert("archive", "xz", "zip"), Objects}

AllFormats ==
    {<<>>} \union {<<a>> : a \in FirstSteps} \union {<<a, b>> : a \in FirstSteps, b \in NextSteps}
      \union {<<a, b, z>> : a \in FirstSteps, b \in NextSteps, z \in LastSteps}

SmallContext == CHOOSE c \in Options : c.phase = "p1" /\ \E k \in DOMAIN c.replies :
                    c.replies[k] = AnswerReply(<<"c", "qo">>, "a1")

D == {[context |-> c, format |-> <<Objects>>] :
        c \in Chains \union Nested \union Options \union Unloadable}
     \union {[context |-> SmallContext, format |-> f] : f \in AllFormats}
=============================================================================
