----------------------------- MODULE MC_Grammar -----------------------------
(* The command strings given to Instruction::new in the runs of Grammar. *)
EXTENDS Grammar

\* Fields: up to two characters of letters and whitespace, and a few
\* longer ones with whitespace inside and around a letter.
MC_F  == BoundedSeq({"u", " ", "w"}, 2)
MC_F1 == {<<"u">>, <<"u", " ">>, <<" ", "u">>, <<"w", "u">>, <<"u", " ", "u">>}

Dot(a, b)   == a \o <<".">> \o b
Colon(a, b) == a \o <<":">> \o b
Space(a, b) == a \o <<" ">> \o b

\* User identifiers: three fields, two fields, four fields.
MC_Users ==
    {Dot(Dot(a, b), c) : a \in MC_F, b \in MC_F1, c \in MC_F1} \cup
    {Dot(a, b) : a, b \in MC_F1} \cup
    {Dot(Dot(Dot(<<"u">>, <<"u">>), <<"u">>), <<"u">>)}

MC_SmallUsers ==
    {Dot(Dot(a, <<"u">>), <<"u">>) : a \in MC_F1} \cup {Dot(<<"u">>, <<"u">>)}

\* User mappings: two or three ':'-separated fields.
MC_Mappings ==
    {Colon(Colon(u, g), h) : u \in MC_SmallUsers, g \in MC_F, h \in MC_F1} \cup
    {Colon(u, g) : u \in MC_SmallUsers, g \in MC_F1}

\* update_homedir arguments: a user and one or two more words.
MC_Homes ==
    {Space(u, h) : u \in MC_SmallUsers \cup {<<>>}, h \in MC_F} \cup
    {Space(Space(u, h), k) : u \in MC_SmallUsers, h, k \in MC_F1}

MC_Inputs ==
    {Space(<<v>>, b) : v \in Verbs, b \in MC_Users \cup MC_Mappings \cup MC_Homes} \cup
    {<<v>> : v \in Verbs}

=============================================================================
