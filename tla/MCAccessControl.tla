-------------------------- MODULE MCAccessControl --------------------------
(***************************************************************************)
(* Instances of AccessControl for TLC.  The files differ in who has rules, *)
(* in what order the users' lines stand, in the passwords, and in their    *)
(* errors: a bad line, a file that cannot be read, an undecodable hash.    *)
(***************************************************************************)
EXTENDS AccessControl

File(lines) == [named |-> TRUE, readable |-> TRUE, lines |-> lines]
Missing == [named |-> TRUE, readable |-> FALSE, lines |-> <<>>]

Option(name, value) == [option |-> name, value |-> value]
User(u) == [kind |-> "user", user |-> u, topic |-> <<>>, access |-> {}]
Topic(t, a) == [kind |-> "topic", user |-> NULL, topic |-> t, access |-> a]
Pattern(t, a) == [kind |-> "pattern", user |-> NULL, topic |-> t, access |-> a]
BadLine == [kind |-> "bad", user |-> NULL, topic |-> <<>>, access |-> {}]
Pw(u, p) == [user |-> u, password |-> p, valid |-> TRUE]
BadHash(u) == [user |-> u, password |-> "hash", valid |-> FALSE]

AclFiles == {
    File(<<Topic(<<"a">>, {Read}), User("u"), Topic(<<"#">>, Access)>>),
    File(<<User("v"), Topic(<<"a">>, Access), User("u"),
           Topic(<<"a">>, {Write}), User("v"), Topic(<<"b">>, {Read}),
           Pattern(<<"%u", "/", "%c">>, {Write})>>),
    File(<<Pattern(<<"+", "/", "%c">>, {Read})>>),
    File(<<Topic(<<"a">>, {Read}), BadLine, User("u"), Topic(<<"a">>, Access)>>),
    Missing}

PwFiles == {
    File(<<Pw("u", "p"), Pw("v", NULL)>>),
    File(<<Pw("v", "p"), Pw("u", "q"), Pw("v", "q")>>),
    File(<<BadHash("u"), Pw("v", "p")>>),
    Missing}

MCConfigs ==
    {<<>>, << Option("allow_anonymous", FALSE), Option("bad", 0) >>}
    \cup {<<Option("acl_file", a)>> : a \in AclFiles}
    \cup {<<Option("password_file", f), Option("allow_anonymous", FALSE),
            Option("acl_file", a)>>
          : f \in PwFiles,
            a \in {File(<<User("v"), Topic(<<"a">>, Access)>>),
                   File(<<Topic(<<"a">>, {Read}), User("u"), Topic(<<"#">>, Access)>>)}}
    \cup {<<Option("password_file", File(<<Pw("u", "p")>>))>>}

MCTopicNames == {<<"a">>, <<"u", "/", "v">>, <<"u", "/", "u">>, <<"$", "a">>}

\* The hypothesis of AccessAlwaysAsWritten.
ASSUME MatcherHolds == MatcherExact
=============================================================================
