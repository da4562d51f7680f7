------------------------------- MODULE MCCopilot -------------------------------
(* Every answer of up to two nodes and two edges of every shape, and some of   *)
(* three and four nodes.                                                       *)
EXTENDS Copilot

Text(name)   == [given |-> TRUE, text |-> TRUE, name |-> <<name, 1>>]
Number(name) == [given |-> TRUE, text |-> FALSE, name |-> <<name, 1>>]
Nothing      == [given |-> FALSE, text |-> FALSE, name |-> <<"none", 0>>]
Stamped(t, n) == [given |-> TRUE, text |-> TRUE, name |-> <<t, n>>]

Item(id, type, kind) == [shape |-> "dict", id |-> id, type |-> type, kind |-> kind]
Link(s, t)     == [shape |-> "dict", source |-> s, target |-> t]
Junk           == [shape |-> "junk"]
OddItem        == [shape |-> "odd"]

\* Ids that collide with each other, with the one a trigger is given and with
\* those made of type and position.
Items ==
    {Item(id, type, "cron") :
        id \in {Text("a"), Number("b"), Nothing, Stamped("trigger", 0), Stamped("action", 1)},
        type \in {"trigger", "action"}}
    \cup {Item(Text("b"), "other", "none"), Item(Number("a"), "merge", "none"), Junk, OddItem}

Links ==
    {Link(source, target) :
        source, target \in {Text("a"), Number("b"), Stamped("trigger", 0), Stamped("action", 1)}}
    \cup {Junk, OddItem}

Lists(S, n) == UNION {[1 .. k -> S] : k \in 0 .. n}

A == Item(Text("a"), "trigger", "schedule")
B == Item(Text("b"), "action", "none")
C == Item(Text("c"), "merge", "none")
D == Item(Text("d"), "delay", "none")

LongAnswers ==
    [json : {"object"},
     nodes : {<<A, B, C>>, <<B, C, A>>, <<B, A, C, D>>, <<A, Junk, B, C>>, <<A, B, B>>,
              <<B, C, D>>, <<C, A, Item(Text("d"), "trigger", "webhook")>>},
     edges : UNION {[1 .. k -> {Link(Text("a"), Text("b")), Link(Text("b"), Text("c")),
                                Link(Text("a"), Text("c")), Link(Text("c"), Text("b"))}] : k \in 0 .. 3}]

SomeAnswers ==
    [json : {"object"}, nodes : Lists(Items, 2), edges : Lists(Links, 1)]
    \cup [json : {"object"},
          nodes : {<<A, B>>, <<B, A>>, <<B, Item(Number("b"), "other", "none")>>},
          edges : Lists(Links, 2)]
    \cup [json : {"object"}, nodes : Lists(Items, 3), edges : {<< >>}]
    \cup LongAnswers
    \cup [json : {"list"}, nodes : {<< >>}, edges : {<< >>}]

AllKinds == {"generate", "build", "chat", "explain"}
=============================================================================
