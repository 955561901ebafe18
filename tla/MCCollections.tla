---------------------------- MODULE MCCollections ----------------------------
(***************************************************************************)
(* A small instance of Collections: the requests of MCRules, and three     *)
(* calls on the schema, one that updates, one that creates and deletes,    *)
(* and one that renames, creates or deletes.  Collection a has a field x;  *)
(* b has a relation to a.                                                  *)
(***************************************************************************)
EXTENDS MCRules, Collections, TLC

QuietAsk == [rule |-> AdminOnly, auth |-> nobody, query |-> [q |-> Text("")], body |-> NoBody,
             row |-> plain, others |-> NoOthers, filter |-> none]

MCAsks == AskedAll \cup {QuietAsk}

-----------------------------------------------------------------------------

GivenRows ==
    "p" :> [name |-> "a", fields |-> [x |-> [data |-> <<"p", "x">>, to |-> None, aim |-> None]]]
    @@ "q" :> [name |-> "b", fields |-> [r |-> [data |-> <<"q", "r">>, to |-> "a", aim |-> "p"]]]

\* Fields, as a call lists them.
kept(name) == [name |-> name, from |-> None, to |-> None]
was(name, old) == [name |-> name, from |-> old, to |-> None]
relation(name, to) == [name |-> name, from |-> None, to |-> to]

create(name, fields) == [op |-> "create", name |-> name, fields |-> fields]
update(of, name, fields) == [op |-> "update", of |-> of, name |-> name, fields |-> fields]
delete(of) == [op |-> "delete", of |-> of]

\* Renames of collections and of fields, together and apart; a field in the
\* place of a renamed one; a relation that is replaced, or loses its type.
Updates ==
    {update("p", "c", None),
     update("p", None, <<was("y", "x")>>),
     update("p", "c", <<kept("y"), was("x", "y")>>),
     update("q", None, <<relation("r", "a"), kept("x")>>),
     update("q", None, <<relation("s", "a")>>),
     update("q", "c", None),
     update("q", "c", <<was("x", "r")>>)}

\* A rename of each collection, one of them with its field.
Renames == {update("p", "c", None), update("q", "c", <<was("x", "r")>>)}

\* Two names to create at once, a name taken or to be taken again, and drops
\* by id and by name.
makeOf(name) == create(name, <<kept("x")>>)
Makes == {create("a", <<relation("x", "b")>>), delete("a")}

AllEditors == {"u", "v", "w"}
AllWishes == [c \in AllEditors |-> CASE c = "u" -> Updates
                                     [] c = "v" -> Renames \cup Makes \cup {makeOf("c")}
                                     [] c = "w" -> Makes \cup {makeOf("d"), delete("q")}]

=============================================================================
