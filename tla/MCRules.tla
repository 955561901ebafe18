------------------------------ MODULE MCRules ------------------------------
(***************************************************************************)
(* A small instance of Rules: a few texts, records of two fields of each   *)
(* type with every kind of value, and the comparisons of each type.        *)
(***************************************************************************)
EXTENDS Rules

CONSTANTS nobody, none

-----------------------------------------------------------------------------
(* Texts, in their order, those that stand for lists of texts included.    *)

Texts == <<"", "A", "[]", "[_b]", "[a]", "[ab]", "[true]", "_b", "a", "ab", "u1", "u2", "user", "É", "é">>

Place(t) == CHOOSE i \in DOMAIN Texts : Texts[i] = t
TextBefore(a, b) == Place(a) < Place(b)
LowerText(t) == IF t = "A" THEN "a" ELSE t
LowerAny(t) == IF t = "É" THEN "é" ELSE LowerText(t)
SizeOf(t) == CASE t = "" -> 0 [] t \in {"A", "a", "É", "é"} -> 1 [] t = "user" -> 4 [] OTHER -> 2

\* The texts that t contains, whatever the case.
Parts(t) ==
    CASE t \in {"A", "a", "[a]"} -> {"A", "a"}
      [] t \in {"ab", "[ab]"} -> {"A", "a", "ab"}
      [] t = "[_b]" -> {"A", "a", "_b"}
      [] OTHER -> {t}

Holds(t, part) == part \in Parts(t)

\* Only "_b" has a wildcard.
HasWildcard(t) == t = "_b"
LikeText(t, p) == IF p = "_b" THEN {"ab", "_b"} \cap Parts(t) # {} ELSE Holds(t, p)

JsonOf(v) ==
    LET texts == {x[2] : x \in {y \in Elements(v) : y[1] = "text"}}
    IN  IF \E x \in Elements(v) : x[1] # "text" /\ x # Null THEN "[true]"
        ELSE IF "ab" \in texts THEN "[ab]" ELSE IF "_b" \in texts THEN "[_b]"
        ELSE IF texts # {} THEN "[a]" ELSE "[]"

-----------------------------------------------------------------------------
(* Expressions. *)

literal(v) == [kind |-> "literal", value |-> v]
auth(prop) == [kind |-> "auth", prop |-> prop]
query(key, m) == [kind |-> "requestMap", map |-> "query", key |-> key, modifier |-> m]
body(key, m) == [kind |-> "requestMap", map |-> "body", key |-> key, modifier |-> m]
field(name, m) == [kind |-> "field", name |-> name, path |-> <<>>, modifier |-> m]
inside(name, key, m) == [kind |-> "field", name |-> name, path |-> <<key>>, modifier |-> m]
other(alias, name, m) == [kind |-> "collection", alias |-> alias, name |-> name, modifier |-> m]
via(name, m) == [kind |-> "viaRelation", refField |-> "ref", name |-> name, modifier |-> m]

Is_(l, op, r) == {{[kind |-> "cmp", op |-> op, any |-> FALSE, left |-> l, right |-> r]}}
Some_(l, op, r) == {{[kind |-> "cmp", op |-> op, any |-> TRUE, left |-> l, right |-> r]}}
And_(e, f) == {a \cup b : a \in e, b \in f}
Or_(e, f) == e \cup f
Any_(target, where) == {{[kind |-> "any", target |-> target, where |-> where]}}

Orders == {"=", "!=", "<", "<=", ">", ">="}
AllOps == Orders \cup Likes

-----------------------------------------------------------------------------
(* Who asks what. *)

user(email) == [id |-> Text("u1"), type |-> Text("user"), email |-> email]
admin == [id |-> Text("u2"), type |-> Text("admin"), email |-> Text("ab")]

Callers == {nobody, user(Null), user(Text("ab")), admin}

NoOthers == [view |-> AdminOnly, list |-> AdminOnly, create |-> AdminOnly, rows |-> {}]

plain == [id |-> Text("a"), owner |-> Null, title |-> Null, qty |-> Null, flag |-> Null,
          tags |-> Null, info |-> Null]

Asking(rules, callers, queries, bodies, rows, others, filters) ==
    [rule : rules, auth : callers, query : queries, body : bodies, row : rows,
     others : others, filter : filters]

Queries == {<<>>, [q |-> Text("")], [q |-> Text("A")], [q |-> Text("_b")], [q |-> Text("É")]}

\* Texts.
TextRules ==
    {Is_(field("title", m), op, r) : m \in {"none", "lower"}, op \in AllOps,
        r \in {literal(Text("a")), literal(Text("_b")), literal(Text("")), auth("email"),
               query("q", "none"), query("q", "lower"), field("owner", "none")}}
    \cup {Is_(literal(Text("ab")), op, field("title", "none")) : op \in AllOps}
    \cup {Is_(field("title", "none"), op, literal(Null)) : op \in {"=", "!="}}
    \cup {Is_(literal(Null), op, x) : op \in {"=", "!="}, x \in {auth("id"), query("q", "none")}}
    \cup {Is_(field("title", "length"), op, literal(Num(1))) : op \in Orders}
    \cup {Is_(query("q", "isset"), "=", literal(Truth(b))) : b \in BOOLEAN}
    \cup {Is_(query("q", m), op, literal(Null)) : m \in {"isset", "length"}, op \in {"=", "!="}}
    \cup {Is_(query("q", "length"), op, literal(Num(1))) : op \in Orders}

TextRows == {[plain EXCEPT !.title = t, !.owner = o] :
                t \in {Null, Text(""), Text("A"), Text("ab"), Text("_b"), Text("é")}, o \in {Null, Text("a")}}

TextAsks == Asking(TextRules, Callers, Queries, {NoBody}, TextRows, {NoOthers}, {none})

\* Numbers and truth values.
NumberRules ==
    {Is_(field("qty", "none"), op, r) : op \in Orders,
        r \in {literal(Num(0)), literal(Num(1)), field("flag", "none")}}
    \cup {Or_(Is_(field("qty", "none"), op, literal(Num(1))),
              And_(Is_(field("flag", "none"), "=", literal(Truth(TRUE))),
                   Is_(field("qty", "none"), "!=", literal(Num(0))))) : op \in Orders}
    \cup {Is_(field("qty", "length"), op, literal(Num(0))) : op \in {"=", "<"}}
    \cup {Public, AdminOnly}

NumberRows == {[plain EXCEPT !.qty = q, !.flag = f] :
                  q \in {Null, Num(0), Num(2)}, f \in {Null, Truth(TRUE), Truth(FALSE)}}

NumberBodies == {NoBody} \cup [{"qty"} -> {Null, Num(0), Num(2)}] \cup [{"flag"} -> {Truth(FALSE)}]

NumberAsks ==
    Asking(NumberRules, {nobody, user(Null), admin}, {<<>>}, NumberBodies, NumberRows, {NoOthers}, {none})

\* Changes: who owns it, and what the body says.
ChangeRules ==
    {Is_(field("owner", "none"), "=", auth("id")),
     Is_(field("owner", "none"), "!=", auth("id")),
     Or_(Is_(field("owner", "none"), "=", auth("id")), Is_(field("title", "none"), "~", literal(Text("a")))),
     And_(Is_(field("owner", "none"), "=", auth("id")), Is_(body("title", "changed"), "=", literal(Truth(FALSE)))),
     And_(Is_(field("owner", "none"), "=", auth("id")), Is_(body("title", "isset"), "=", literal(Truth(FALSE)))),
     Is_(field("owner", "none"), "=", body("owner", "none"))}

Owners == {Null, Text("u1"), Text("u2")}
ChangeRows == {[plain EXCEPT !.owner = o, !.title = t] : o \in Owners, t \in {Null, Text("A"), Text("_b")}}
ChangeBodies == {NoBody} \cup [{"owner"} -> Owners] \cup [{"title"} -> {Null, Text("A"), Text("_b")}]
                    \cup [{"owner", "title"} -> {Text("u1"), Text("u2")}]

\* What is asked of the request, next to what is never a plain comparison.
ListedFlags == {Null, ListOf(<<>>), ListOf(<<Truth(TRUE)>>), ListOf(<<Truth(FALSE), Truth(TRUE)>>)}
isset == query("q", "isset")
title == body("title", "changed")

AskedRules ==
    {Is_(field("tags", "each"), op, r) : op \in Orders, r \in {isset, title}}
    \cup {Is_(isset, op, field("tags", "each")) : op \in {"=", "!=", "<"}}
    \cup {Some_(field("tags", "none"), op, isset) : op \in Orders}
    \cup {Is_(field("owner", "none"), op, isset) : op \in Likes}
    \cup {Or_(Some_(field("tags", "none"), "=", title), Is_(field("flag", "none"), "=", isset))}
    \cup {Is_(field("flag", "none"), op, r) : op \in Orders, r \in {isset, title, body("title", "isset")}}
    \cup {Is_(isset, op, r) : op \in Orders, r \in {title, body("title", "isset")}}
    \cup {Is_(title, op, query("q", "changed")) : op \in {"=", "!="}}
    \cup {Any_(field("info", "none"), Is_(field("n", "none"), op, r)) : op \in Orders, r \in {isset, title}}

AskedRows ==
    {[plain EXCEPT !.tags = t, !.flag = f] : t \in ListedFlags, f \in {Null, Truth(TRUE), Truth(FALSE)}}
    \cup {[plain EXCEPT !.info = ListOf(<<Item([n |-> n]), Item([k |-> Text("a")])>>)] :
              n \in {Num(0), Truth(TRUE), Null, Text("a")}}

AskedAsks ==
    Asking(AskedRules, {nobody}, {<<>>, [q |-> Text("A")]}, {NoBody, [title |-> Null], [title |-> Text("A")]},
           AskedRows, {NoOthers}, {none})

ChangeAsks == Asking(ChangeRules, {nobody, user(Null), admin}, {<<>>}, ChangeBodies, ChangeRows, {NoOthers}, {none})

\* Lists.
ListRules ==
    {Some_(field("tags", "none"), op, r) : op \in AllOps,
        r \in {literal(Text("a")), auth("email"), query("q", "none")}}
    \cup {Is_(field("tags", "each"), op, r) : op \in AllOps,
            r \in {literal(Text("a")), literal(Text("_b")), auth("email"), query("q", "none")}}
    \cup {Is_(field("tags", "length"), op, literal(Num(1))) : op \in Orders}
    \cup {Some_(field("tags", "lower"), op, literal(Text("A"))) : op \in {"=", "~"}}
    \cup {Is_(field("tags", "none"), op, literal(Text("a"))) : op \in Likes}
    \cup {Is_(field("tags", "none"), op, literal(Null)) : op \in {"=", "!="}}

Lists == {Null, ListOf(<<>>), ListOf(<<Text("a")>>), ListOf(<<Text("A"), Text("ab")>>),
          ListOf(<<Text("_b"), Text("a")>>), ListOf(<<Text("ab"), Null>>)}
ListRows == {[plain EXCEPT !.tags = t] : t \in Lists}
ListBodies == {NoBody} \cup [{"tags"} -> {ListOf(<<>>), ListOf(<<Text("a"), Text("A")>>)}]

ListAsks == Asking(ListRules, Callers, {<<>>, [q |-> Text("A")]}, ListBodies, ListRows, {NoOthers}, {none})

\* Objects, and lists of them.
ItemRules(ops) ==
    {Some_(inside("info", "k", "none"), op, r) : op \in ops, r \in {literal(Text("a")), query("q", "none")}}
    \cup {Is_(inside("info", "k", "each"), op, r) : op \in ops, r \in {literal(Text("a")), query("q", "none")}}
    \cup {Any_(field("info", "none"), And_(Is_(field("k", "none"), op, literal(Text("a"))),
                                           Is_(field("n", "none"), "<", literal(Num(2))))) : op \in ops}

ItemNumberRules ==
    {Some_(inside("info", "n", "none"), op, literal(Num(1))) : op \in Orders}
    \cup {Is_(inside("info", "n", "each"), op, literal(Num(1))) : op \in Orders}
    \cup {Any_(field("info", "none"), Or_(Is_(field("n", "none"), op, literal(Num(1))),
                                          Is_(field("k", "none"), "=", literal(Null)))) : op \in Orders}
    \cup {Any_(field("info", "none"), Some_(field("k", "none"), op, literal(Text("a")))) : op \in Orders}
    \cup {Any_(field("info", "none"), Is_(field("k", "each"), op, literal(Text("a")))) : op \in Orders}
    \cup {Any_(field("info", "none"), Is_(field("k", "none"), op, field("n", "none"))) : op \in Orders}

item(k, n) == Item([k |-> k, n |-> n])
Infos == {Null, Text("a"), ListOf(<<>>), ListOf(<<item(Text("a"), Num(1))>>),
          ListOf(<<item(Text("A"), Num(0)), item(Null, Num(2))>>),
          ListOf(<<item(Text("a"), Truth(TRUE)), Text("a")>>),
          ListOf(<<Item([n |-> Num(1)]), item(Text("_b"), Null)>>)}
MixedInfos == {ListOf(<<item(Num(1), Num(1)), item(Text("ab"), Text("a"))>>),
               ListOf(<<item(ListOf(<<Text("a")>>), Num(0))>>),
               ListOf(<<item(ListOf(<<ListOf(<<Text("a")>>)>>), Null)>>)}
ItemRows(infos) == {[plain EXCEPT !.info = i] : i \in infos}
ItemBodies == {NoBody} \cup [{"info"} -> {ListOf(<<item(Text("a"), Num(0)), item(Text("a"), Num(1))>>)}]

ItemAsks ==
    Asking(ItemRules(AllOps), {nobody, admin}, {<<>>, [q |-> Text("A")]}, ItemBodies, ItemRows(Infos), {NoOthers}, {none})
    \cup Asking(ItemRules(Orders) \cup ItemNumberRules, {nobody, admin}, {<<>>, [q |-> Text("A")]}, ItemBodies,
                ItemRows(Infos \cup MixedInfos), {NoOthers}, {none})

\* Other collections.
me == auth("id")
OtherRules ==
    {Is_(other("x", "user", "none"), op, me) : op \in {"=", "!=", "~", "!~"}}
    \cup {Is_(me, op, other("x", "user", "none")) : op \in {"=", "!=", "~", "!~"}}
    \cup {Is_(other("x", "user", "lower"), "!=", literal(Text("u2"))),
          Is_(other("x", "user", "none"), "!=", field("owner", "none")),
          And_(Is_(other("x", "user", "none"), "=", me),
               Is_(other("x", "ref", "none"), "=", field("id", "none"))),
          And_(Is_(other("x", "user", "none"), "=", me),
               Is_(other("y", "ref", "none"), "=", field("id", "none"))),
          Or_(Is_(field("owner", "none"), "=", me), Is_(other("x", "user", "none"), "=", me)),
          And_(Is_(field("owner", "none"), "=", me), Is_(other("x", "user", "none"), "!=", me)),
          Is_(other("x", "user", "none"), "=", literal(Null)),
          Some_(via("user", "none"), "=", me),
          Some_(via("user", "none"), "!=", me),
          Is_(via("user", "each"), "=", me),
          Is_(via("user", "each"), "!=", me),
          Is_(via("id", "length"), ">", literal(Num(0))),
          Is_(via("id", "length"), "=", literal(Num(0)))}

\* What is asked of the request, next to other collections.
AskedElsewhere ==
    {Is_(other("x", "active", "none"), op, isset) : op \in Orders}
    \cup {Is_(isset, "!=", other("x", "active", "none")), Is_(other("x", "active", "each"), "!=", isset),
          Is_(via("active", "each"), "=", isset), Some_(via("active", "none"), "=", isset),
          Is_(via("active", "length"), "<=", isset), Is_(via("active", "none"), "=", isset),
          And_(Is_(field("owner", "none"), "=", me), Is_(other("x", "active", "none"), "!=", isset))}

\* What a caller's own filter may ask: one reference, or none.
OtherFilters == {e \in OtherRules : Cardinality(Comparisons(e)) = 1} \cup {Is_(field("owner", "none"), "=", me)}

\* References in the rule and in the caller's filter of one list.
Both == {Is_(other("x", "user", "none"), "=", me), Is_(other("x", "user", "none"), "!=", me),
         Or_(And_(Is_(field("owner", "none"), "!=", me), Is_(other("x", "user", "none"), "!=", me)),
             Is_(other("y", "ref", "none"), "=", field("id", "none")))}

SeesOwn == Is_(field("user", "none"), "=", me)
Guards == {Public, AdminOnly, SeesOwn}

entry(id, u, r, a) == [id |-> Text(id), user |-> u, ref |-> r, active |-> a]
Entries == {entry("a", Text("u1"), Text("a"), Truth(TRUE)), entry("ab", Text("u2"), Text("a"), Truth(FALSE)),
            entry("A", Null, Text("A"), Null)}

\* Who may create a row matters where nobody may see one.
OtherSets ==
    {o \in [view : Guards, list : Guards, create : {AdminOnly, Public}, rows : SUBSET Entries] :
        o.create = Public => o.view = AdminOnly /\ o.list = AdminOnly}
OtherRows == {[plain EXCEPT !.owner = o] : o \in {Text("u1"), Text("u2")}}

OtherAsks ==
    Asking(OtherRules, {nobody, user(Null), admin}, {<<>>}, {NoBody}, OtherRows,
           {o \in OtherSets : o.list = Public}, {none})
    \cup Asking(AskedElsewhere, {nobody, user(Null)}, {<<>>, [q |-> Text("A")]}, {NoBody}, OtherRows,
                {o \in OtherSets : o.list = Public}, {none})
    \cup Asking({Public}, {nobody, user(Null), admin}, {<<>>}, {NoBody}, OtherRows, OtherSets, OtherFilters)
    \cup Asking(Both, {nobody, user(Null)}, {<<>>}, {NoBody}, OtherRows, OtherSets, Both)

AskedAll == TextAsks \cup NumberAsks \cup ChangeAsks \cup ListAsks \cup ItemAsks \cup OtherAsks \cup AskedAsks

=============================================================================
