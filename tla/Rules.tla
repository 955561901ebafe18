------------------------------- MODULE Rules -------------------------------
(***************************************************************************)
(* Access rules.  One expression is decided twice: a list compiles it to   *)
(* SQL and lets the database choose the rows (filter.ts), and everything   *)
(* that has one record at hand evaluates it in the process (rules.ts).     *)
(* Both are written down here as they are, on SQLite, from the same parsed *)
(* expression.                                                             *)
(*                                                                         *)
(* An expression is a set of alternatives, each a set of conditions: all   *)
(* that && and || can say, and there is no negation.  A condition is a     *)
(* comparison, or x:any(...) over comparisons (filter.ts nests no :any).   *)
(*                                                                         *)
(* Values are tagged: <<"null">>, <<"num", n>>, <<"bool", 0 or 1>>,        *)
(* <<"text", t>>, <<"list", s>>, <<"obj", f>>.  A text is known by what    *)
(* the operators tell apart: its place in the order, its lower case, its   *)
(* length, and what it holds; no text field holds the text of a list.      *)
(* Operands that are compared are of one type, except where the code       *)
(* checks the types; a path is at most one key long.                       *)
(***************************************************************************)
EXTENDS Integers, Sequences, FiniteSets

CONSTANTS Asks,           \* who asks what: rule, auth, query, body, row, others
          NoUser,         \* no signed-in user
          NoFilter,       \* a list without a filter of the caller's
          Public,         \* the rule null
          AdminOnly,      \* the rule ""
          Before(_, _),   \* the order of texts
          asciiLower(_),
          toLowerCase(_), \* every letter's lower case
          TextLength(_),
          Contains(_, _), \* a text and another it contains, in any case
          Matches(_, _),  \* a text and a pattern, where that has wildcards
          Wild(_),        \* has a wildcard in it
          JsonText(_)     \* what isn't text, as the text that is stored

VARIABLES ask,            \* the caller, and what other collections hold
          row,            \* the record the caller asks about
          listed,         \* what a list answered, since the record changed
          got,            \* what a read by id answered
          patched         \* the caller has changed it

ruleVars == <<ask, row, listed, got, patched>>

-----------------------------------------------------------------------------
(* Values. *)

Null == <<"null">>
Num(n) == <<"num", n>>
Text(t) == <<"text", t>>
Truth(b) == <<"bool", IF b THEN 1 ELSE 0>>
ListOf(s) == <<"list", s>>
Item(f) == <<"obj", f>>

\* A request without a body, and a collection without a row.
NoBody == <<>>
NoRow == <<>>

Is(type, v) == v[1] = type
Compound(v) == Is("list", v) \/ Is("obj", v)
Stored(v) == IF Compound(v) THEN Text(JsonText(v)) ELSE v
Number(v) == IF Is("bool", v) THEN Num(v[2]) ELSE v
Elements(v) == IF Is("list", v) THEN {v[2][i] : i \in DOMAIN v[2]} ELSE {}

\* A key of an object; through anything else a path reads nothing.
Key(v, k) == IF Is("obj", v) THEN (IF k \in DOMAIN v[2] THEN v[2][k] ELSE Null) ELSE Null

walkPath(v, path) == IF path = <<>> THEN v ELSE Key(v, path[1])

\* Numbers come before texts.
Less(a, b) == IF Is("num", a) THEN (IF Is("num", b) THEN a[2] < b[2] ELSE TRUE)
              ELSE Is("text", b) /\ Before(a[2], b[2])

Compare(a, op, b) ==
    CASE op = "="  -> a = b
      [] op = "!=" -> a # b
      [] op = "<"  -> Less(a, b)
      [] op = "<=" -> Less(a, b) \/ a = b
      [] op = ">"  -> Less(b, a)
      [] op = ">=" -> Less(b, a) \/ a = b

Likes == {"~", "!~"}

\* Numbers and truth values are of one type, and so are texts.
SameType(a, b) == \E type \in {"num", "text"} : Is(type, Number(a)) /\ Is(type, Number(b))

\* LIKE '%p%': a text that contains the pattern as it is matches it.
Pattern(v) == Is("text", Stored(v)) /\ Wild(Stored(v)[2])
Like(t, p) == Contains(t, p[2]) \/ (Pattern(p) /\ Matches(t, p[2]))

-----------------------------------------------------------------------------
(* Expressions, as the parser leaves them. *)

\* All its comparisons, those about items included, and what they compare.
Comparisons(e) ==
    LET conditions == UNION e
    IN  {c \in conditions : c.kind # "any"}
            \cup UNION {UNION c.where : c \in {d \in conditions : d.kind = "any"}}

Operands(e) ==
    (UNION {{c.left, c.right} : c \in Comparisons(e)}) \cup {c.target : c \in {d \in UNION e : d.kind = "any"}}

Each(o) == o.kind \in {"field", "collection"} /\ o.modifier = "each"
ListSide(c) == IF c.left.kind \in {"field", "collection"} THEN c.left ELSE c.right
EachSide(c) == IF Each(c.left) THEN c.left ELSE c.right
OtherSide(c, o) == IF o = c.left THEN c.right ELSE c.left
NullLiteral(o) == o.kind = "literal" /\ o.value = Null

\* Asked of the request itself: is it set, does it change the record.
Asked(o) == o.kind = "requestMap" /\ (o.modifier = "isset" \/ (o.modifier = "changed" /\ o.map = "body"))

\* What is in another collection.
Elsewhere(o) == o.kind \in {"collection", "viaRelation"}

\* x.f may be the f of every item of x.
itemPath(o) == o.kind = "field" /\ o.path # <<>>

-----------------------------------------------------------------------------
(* What both programs decide from: the caller, the request, the record, and *)
(* the item of a list whose keys the expression reads (or Null).           *)

Context(a, record, body, existing) ==
    [auth |-> a.auth, query |-> a.query, body |-> body, existing |-> existing,
     record |-> record, item |-> Null]

InItem(ctx, i) == [ctx EXCEPT !.item = i]

IsAdmin(auth) == auth # NoUser /\ auth.type = Text("admin")

authValue(auth, prop) == IF auth = NoUser THEN Null ELSE auth[prop]

\* The headers are read as the query is.
RequestMap(o, ctx) == IF o.map = "body" THEN ctx.body ELSE ctx.query

requestMapValue(map, k) == IF k \in DOMAIN map THEN map[k] ELSE Null

\* Whether the body says something else than the record; a body that doesn't
\* name the field does.
bodyChanged(o, ctx) ==
    /\ ctx.body # NoBody
    /\ IF o.key \in DOMAIN ctx.body \cap DOMAIN ctx.existing THEN ctx.body[o.key] # ctx.existing[o.key]
       ELSE o.key \in DOMAIN ctx.body \cup DOMAIN ctx.existing

requestAnswer(o, ctx) ==
    IF o.modifier = "isset" THEN Truth(o.key \in DOMAIN RequestMap(o, ctx)) ELSE Truth(bodyChanged(o, ctx))

fieldValue(ctx, name) == IF ctx.item = Null THEN ctx.record[name] ELSE Key(ctx.item, name)

readField(o, ctx) == walkPath(fieldValue(ctx, o.name), o.path)

Items(o, ctx) == Elements(fieldValue(ctx, o.name))

-----------------------------------------------------------------------------
(* One record, in the process (rules.ts). *)

applyModifierValue(v, modifier) ==
    CASE modifier = "lower" /\ Is("text", v) -> Text(asciiLower(v[2]))
      [] modifier = "length" ->
            IF Is("list", v) THEN Num(Len(v[2]))
            ELSE IF Is("text", v) THEN Num(TextLength(v[2]))
            ELSE IF v = Null THEN Null ELSE Num(0)
      [] OTHER -> v

\* No usable value here (UNAUTH_SENTINEL): no comparison with it holds, but
\* being null.
Unauth(o, ctx) ==
    \/ o.kind = "auth" /\ (ctx.auth = NoUser \/ (o.prop = "email" /\ ctx.auth[o.prop] = Null))
    \/ Elsewhere(o)      \* other collections are not read here

resolveOperand(o, ctx) ==
    CASE o.kind = "literal" -> o.value
      [] o.kind = "auth"    -> authValue(ctx.auth, o.prop)
      [] o.kind = "requestMap" ->
            IF Asked(o) THEN requestAnswer(o, ctx)
            ELSE applyModifierValue(requestMapValue(RequestMap(o, ctx), o.key), o.modifier)
      [] o.kind = "field"   -> applyModifierValue(readField(o, ctx), o.modifier)
      [] OTHER -> Null

looseEq(a, b) == Number(a) = Number(b)

\* The order of two values; a missing one is 0 among numbers and "" among texts.
cmp(a, op, b) ==
    LET zero == IF Is("text", a) \/ Is("text", b) THEN Text("") ELSE Num(0)
        val(v) == IF v = Null THEN zero ELSE Number(v)
    IN  Compare(val(a), op, val(b))

contains(haystack, needle) ==
    /\ needle \notin {Null, Text("")}
    /\ haystack # Null
    /\ Contains(haystack[2], needle[2])

likeMatch(haystack, pattern) ==
    haystack # Null /\ pattern # Text("") /\ Like(haystack[2], pattern)

\* An element of a list against a value.
compareElement(v, op, target) ==
    CASE op = "="  -> looseEq(v, target)
      [] op = "!=" -> ~looseEq(v, target)
      [] op = "~"  -> contains(v, target)
      [] op = "!~" -> ~contains(v, target)
      [] OTHER     -> cmp(v, op, target)

\* Mutant: != holds of a missing value.
CompareLoosely(l, op, r, item) ==
    LET a == Number(Stored(l))
        b == Number(Stored(r))
    IN  IF op \in Likes THEN contains(a, b) <=> op = "~"
        ELSE IF op = "!=" THEN a # b
        ELSE a # Null /\ b # Null /\ (item => SameType(a, b)) /\ Compare(a, op, b)

\* Missing values match nothing but !~; an item's values only their own type.
compareScalar(l, op, r, item) ==
    LET a == Number(Stored(l))
        b == Number(Stored(r))
    IN  IF op \in Likes THEN contains(a, b) <=> op = "~"
        ELSE a # Null /\ b # Null /\ (item => SameType(a, b)) /\ Compare(a, op, b)

compareIn(ctx, v, op, target) ==
    IF ctx.item = Null THEN compareElement(v, op, target) ELSE compareScalar(v, op, target, TRUE)

compareItem(i, c, o, target) ==
    Is("obj", i) /\ compareScalar(walkPath(i, o.path), c.op, target, TRUE)

\* Some element, or the path in some item, compares true.
evaluateArrayCmp(c, ctx) ==
    LET o      == ListSide(c)
        target == resolveOperand(OtherSide(c, o), ctx)
    IN  /\ ~Unauth(OtherSide(c, o), ctx)
        /\ \/ /\ itemPath(o)
              /\ \E i \in Items(o, ctx) : compareItem(i, c, o, target)
           \/ \E v \in Elements(resolveOperand(o, ctx)) : compareIn(ctx, v, c.op, target)

\* There are some, and every one does.
evaluateEach(c, ctx) ==
    LET o      == EachSide(c)
        target == resolveOperand(OtherSide(c, o), ctx)
        values == Elements(readField(o, ctx))
    IN  /\ o.kind = "field"
        /\ ~Unauth(OtherSide(c, o), ctx)
        /\ \/ itemPath(o) /\ Items(o, ctx) # {} /\ \A i \in Items(o, ctx) : compareItem(i, c, o, target)
           \/ values # {} /\ \A v \in values : compareIn(ctx, v, c.op, target)

evaluatePlain(c, ctx) ==
    LET l == resolveOperand(c.left, ctx)
        r == resolveOperand(c.right, ctx)
    IN  IF c.op \in {"=", "!="} /\ (NullLiteral(c.left) \/ NullLiteral(c.right))
        THEN (IF NullLiteral(c.left) THEN r ELSE l) = Null <=> c.op = "="
        ELSE /\ ~Unauth(c.left, ctx) /\ ~Unauth(c.right, ctx)
             /\ IF c.op \in Likes /\ c.right.kind = "literal" /\ Pattern(r)
                THEN likeMatch(Stored(l), Stored(r)) <=> c.op = "~"
                ELSE compareScalar(l, c.op, r, ctx.item # Null)

evaluateCmp(c, ctx) ==
    IF c.any THEN evaluateArrayCmp(c, ctx)
    ELSE IF Each(c.left) \/ Each(c.right) THEN evaluateEach(c, ctx)
    ELSE evaluatePlain(c, ctx)

evaluateAny(c, ctx) ==
    \E i \in Elements(resolveOperand(c.target, ctx)) :
        /\ Is("obj", i)
        /\ \E alternative \in c.where : \A d \in alternative : evaluateCmp(d, InItem(ctx, i))

evaluateCondition(c, ctx) == IF c.kind = "any" THEN evaluateAny(c, ctx) ELSE evaluateCmp(c, ctx)

evaluateExpr(e, ctx) == \E alternative \in e : \A c \in alternative : evaluateCondition(c, ctx)

evaluateRule(rule, ctx) ==
    \/ rule = Public
    \/ IsAdmin(ctx.auth)
    \/ rule \notin {Public, AdminOnly} /\ evaluateExpr(rule, ctx)

-----------------------------------------------------------------------------
(* Many records, in the database (filter.ts on SQLite).  An operator is true *)
(* when the SQL is: nothing above a comparison tells false from NULL.      *)
(* refs is what references to the other collection read: the rows of it    *)
(* this caller may see, its view rule, and the row each alias stands for.  *)

\* A value read out of JSON.
JsonPath(o, ctx) == o.kind = "field" /\ (ctx.item # Null \/ o.path # <<>>)

LowerIn(v) == IF Is("text", v) THEN Text(asciiLower(v[2])) ELSE v

\* LOWER() and length() of what the column holds: a list there is its text.
applyModifierToSql(v, o, ctx) ==
    CASE o.modifier = "lower" ->
            IF Is("list", v) THEN ListOf([i \in DOMAIN v[2] |-> LowerIn(v[2][i])]) ELSE LowerIn(v)
      [] o.modifier = "length" /\ v # Null ->
            IF Is("list", v) THEN Num(Len(v[2]))
            ELSE IF Is("text", v) THEN Num(TextLength(v[2]))
            ELSE IF JsonPath(o, ctx) THEN Num(0) ELSE Num(TextLength(JsonText(v)))
      [] OTHER -> v

\* A value that is bound: lowered in the process, and the length of nothing is 0.
applyModifierToValue(v, modifier) ==
    CASE modifier = "lower" /\ Is("text", v) -> Text(toLowerCase(v[2]))
      [] modifier = "length" /\ v = Null -> Num(0)
      [] OTHER -> applyModifierValue(v, modifier)

compileFieldRef(o, ctx) == applyModifierToSql(readField(o, ctx), o, ctx)

\* The rows that refer to this one; a back-relation reads how many there are,
\* or the list of their values as text.
viaSource(o, ctx, refs) == {x \in refs.seen : x[o.refField] = ctx.record["id"]}

compileViaRelationRef(o, ctx, refs) ==
    LET rows == viaSource(o, ctx, refs)
    IN  IF o.modifier = "length" THEN Num(Cardinality(rows))
        ELSE applyModifierToSql(Text(JsonText(<<"rows", [x \in rows |-> x[o.name]]>>)), o, ctx)

compileRequestMap(o, ctx) == applyModifierToValue(requestMapValue(RequestMap(o, ctx), o.key), o.modifier)

Joined(refs, o) == IF refs.joined[o.alias] = NoRow THEN Null ELSE refs.joined[o.alias][o.name]

compileOperand(o, ctx, refs) ==
    CASE o.kind = "literal"     -> o.value
      [] o.kind = "auth"        -> authValue(ctx.auth, o.prop)
      [] o.kind = "requestMap"  -> compileRequestMap(o, ctx)
      [] o.kind = "field"       -> compileFieldRef(o, ctx)
      [] o.kind = "collection"  -> applyModifierToSql(Joined(refs, o), o, ctx)
      [] o.kind = "viaRelation" -> compileViaRelationRef(o, ctx, refs)
      [] OTHER -> Null

SqlValue(v) == Number(Stored(v))

\* Nothing is like nothing.
sqlLike(a, pattern, wildcards) ==
    /\ a # Null
    /\ pattern \notin {Null, Text("")}
    /\ IF wildcards THEN Like(a[2], pattern) ELSE Contains(a[2], pattern[2])

\* A pattern the author wrote keeps its wildcards.
likeSql(left, op, o, ctx, refs) ==
    sqlLike(SqlValue(left), SqlValue(compileOperand(o, ctx, refs)), o.kind = "literal") <=> op = "~"

\* SQL's comparison: with a NULL it is neither true nor false.  typed: a JSON
\* value that has not the type of the other side reads as NULL.
Known(a, b) == a # Null /\ b # Null

sqlCmp(left, op, right, typed) ==
    /\ Known(SqlValue(left), SqlValue(right))
    /\ typed => SameType(left, right)
    /\ Compare(SqlValue(left), op, SqlValue(right))

typedCmp(left, op, o, ctx, refs, typed) ==
    IF op \in Likes THEN likeSql(left, op, o, ctx, refs)
    ELSE sqlCmp(left, op, compileOperand(o, ctx, refs), typed)

\* What gives a JSON value its type, and what can be given one.
isBound(o) == o.kind \in {"literal", "auth", "requestMap"}
lineUp(o, ctx) == isBound(o) \/ (JsonPath(o, ctx) /\ o.modifier = "none")

elementCmp(v, op, o, ctx, refs) == typedCmp(v, op, o, ctx, refs, ctx.item # Null /\ isBound(o))

\* The element makes "every element compares" false.
Refutes(v, op, o, ctx, refs) ==
    IF op \in Likes \/ ctx.item # Null THEN ~elementCmp(v, op, o, ctx, refs)
    ELSE /\ Known(SqlValue(v), SqlValue(compileOperand(o, ctx, refs)))
         /\ ~Compare(SqlValue(v), op, SqlValue(compileOperand(o, ctx, refs)))

itemCmp(i, c, o, ctx, refs) ==
    Is("obj", i) /\ typedCmp(walkPath(i, o.path), c.op, OtherSide(c, o), ctx, refs, lineUp(OtherSide(c, o), ctx))

compileArrayCmp(c, ctx, refs) ==
    LET o == ListSide(c)
    IN  /\ o.kind \in {"field", "collection"}
        /\ \/ \E v \in Elements(compileOperand(o, ctx, refs)) : elementCmp(v, c.op, OtherSide(c, o), ctx, refs)
           \/ itemPath(o) /\ \E i \in Items(o, ctx) : itemCmp(i, c, o, ctx, refs)

compileEach(c, ctx, refs) ==
    LET o      == EachSide(c)
        values == Elements(IF o.kind = "collection" THEN Joined(refs, o) ELSE readField(o, ctx))
    IN  \/ values # {} /\ ~\E v \in values : Refutes(v, c.op, OtherSide(c, o), ctx, refs)
        \/ /\ itemPath(o)
           /\ Items(o, ctx) # {} /\ \A i \in Items(o, ctx) : itemCmp(i, c, o, ctx, refs)

\* A back-relation matched row by row.
ViaSide(c) == IF c.left.kind = "viaRelation" THEN c.left ELSE c.right
MatchesRows(c) == ViaSide(c).kind = "viaRelation" /\ (c.any \/ ViaSide(c).modifier = "each")

\* Something is asked of the request.
AsksRequest(c) == Asked(c.left) \/ Asked(c.right)

OneSided(c) == (c.left.kind = "collection") # (c.right.kind = "collection")
CollectionSide(c) == IF c.left.kind = "collection" THEN c.left ELSE c.right

\* "No row the caller may view matches" instead of "a row differs".
Negated(c) ==
    /\ c.op \in {"!=", "!~"} /\ ~c.any /\ OneSided(c)
    /\ ~NullLiteral(c.left) /\ ~NullLiteral(c.right)
    /\ ~AsksRequest(c) /\ ~MatchesRows(c)
    /\ ~Each(c.left) /\ ~Each(c.right)

\* A row of the other collection is the one that a negated reference means.
MatchesRow(c, x, ctx, refs) ==
    LET o     == CollectionSide(c)
        other == OtherSide(c, o)
        inner == applyModifierToSql(x[o.name], o, ctx)
        value == compileOperand(other, ctx, refs)
    IN  IF c.op = "!~" /\ o = c.right
        THEN inner \notin {Null, Text("")} /\ value # Null /\ Contains(SqlValue(value)[2], inner[2])
        ELSE typedCmp(inner, IF c.op = "!~" THEN "~" ELSE "=", other, ctx, refs, FALSE)

\* Mutant: "no row matches" is decided over the rows the caller may see.
DenySeen(c, ctx, refs) == ~\E x \in refs.seen : MatchesRow(c, x, ctx, refs)

\* Whether some row matches can only be denied when no row may be hidden.
compileCollectionRef(c, ctx, refs) ==
    /\ IsAdmin(ctx.auth) \/ refs.view = Public
    /\ ~\E x \in refs.seen : MatchesRow(c, x, ctx, refs)

compileViaMatch(c, ctx, refs) ==
    LET via       == ViaSide(c)
        rows      == viaSource(via, ctx, refs)
        admits(x) == typedCmp(x[via.name], c.op, OtherSide(c, via), ctx, refs, FALSE)
    IN  IF c.any THEN \E x \in rows : admits(x) ELSE rows # {} /\ \A x \in rows : admits(x)

\* What is asked of the request is answered before the query runs and compared
\* as it is: here no type is checked, no element is looked at, and a row of
\* another collection is the joined one.
compileAsked(c, ctx, refs) ==
    LET isset == \E o \in {c.left, c.right} : o.kind = "requestMap" /\ o.modifier = "isset"
        asked == IF isset THEN "isset" ELSE "changed"
        side(o) == IF o.kind = "requestMap" /\ o.modifier = asked THEN requestAnswer(o, ctx)
                   ELSE compileOperand(o, ctx, refs)
    IN  sqlCmp(side(c.left), c.op, side(c.right), FALSE)

compileCmp(c, ctx, refs) ==
    IF ~c.any /\ c.op \in {"=", "!="} /\ (NullLiteral(c.left) \/ NullLiteral(c.right))
    THEN compileOperand(IF NullLiteral(c.right) THEN c.left ELSE c.right, ctx, refs) = Null <=> c.op = "="
    ELSE IF AsksRequest(c) THEN compileAsked(c, ctx, refs)
    ELSE IF MatchesRows(c) THEN compileViaMatch(c, ctx, refs)
    ELSE IF c.any THEN compileArrayCmp(c, ctx, refs)
    ELSE IF Each(c.left) \/ Each(c.right) THEN compileEach(c, ctx, refs)
    ELSE IF Negated(c) THEN compileCollectionRef(c, ctx, refs)
    ELSE typedCmp(compileOperand(c.left, ctx, refs), c.op, c.right, ctx, refs,
                  ctx.item # Null /\ lineUp(c.left, ctx) /\ lineUp(c.right, ctx))

compileAny(c, ctx, refs) ==
    \E i \in Elements(compileOperand(c.target, ctx, refs)) :
        /\ Is("obj", i)
        /\ \E alternative \in c.where : \A d \in alternative : compileCmp(d, InItem(ctx, i), refs)

compileNode(e, ctx, refs) ==
    \E alternative \in e :
        \A c \in alternative : IF c.kind = "any" THEN compileAny(c, ctx, refs) ELSE compileCmp(c, ctx, refs)

\* Comparisons that make the whole query fail: ? without a column, a
\* back-relation that is compared as if it were one value, or in a way
\* compileViaMatch refuses; and what is asked of the request under ?, ~ and !~,
\* which is no SQL.
Refused(c) ==
    LET sides == {c.left, c.right}
        plain == ~c.any /\ c.op \notin Likes
    IN  \/ c.any /\ \A o \in sides : o.kind # "field" /\ ~Elsewhere(o)
        \/ plain /\ \E o \in sides : o.kind = "viaRelation" /\ o.modifier \notin {"length", "each"}
        \/ AsksRequest(c) /\ ~plain
        \/ /\ MatchesRows(c) /\ ~AsksRequest(c)
           /\ \/ OtherSide(c, ViaSide(c)).kind = "viaRelation"
              \/ c.any /\ ViaSide(c).modifier # "none"
              \/ c.left.kind # "viaRelation" /\ c.op \notin {"=", "!="}

\* @collection references of an expression.
Aliases(e) ==
    {o.alias : o \in {o \in UNION {{c.left, c.right} : c \in {c \in Comparisons(e) : ~Negated(c)}} :
                          o.kind = "collection"}}

\* Each alias stands for one row the caller may see, the same one throughout
\* the expression; for a row of NULLs where there is none (LEFT JOIN).
compileScoped(e, ctx, view, seen) ==
    /\ \A c \in Comparisons(e) : ~Refused(c)
    /\ \E joined \in [Aliases(e) -> IF seen = {} THEN {NoRow} ELSE seen] :
          compileNode(e, ctx, [joined |-> joined, seen |-> seen, view |-> view])

\* The rows of the other collection that this caller may see: its view rule,
\* and its list rule as well in a filter of the caller's own.  Neither reads
\* another collection, or is refused.
joinedCollectionGuard(a, rows, client) ==
    LET rules == {a.others.view} \cup (IF client THEN {a.others.list} ELSE {})
        passes(x, rule) ==
            \/ rule = Public
            \/ rule = AdminOnly /\ IsAdmin(a.auth)
            \/ rule \notin {Public, AdminOnly} /\ compileScoped(rule, Context(a, x, NoBody, x), AdminOnly, {})
    IN  {x \in rows : \A rule \in rules : passes(x, rule)}

-----------------------------------------------------------------------------
(* Requests.  One rule is the list, the view and the update rule.          *)

Shows(e, a, record, rows, client) ==
    compileScoped(e, Context(a, record, NoBody, record), a.others.view, joinedCollectionGuard(a, rows, client))

\* The rule as a WHERE clause, over the other collection's rows.
RuleShows(a, record, rows) ==
    \/ a.rule = Public
    \/ IsAdmin(a.auth)
    \/ a.rule \notin {Public, AdminOnly} /\ Shows(a.rule, a, record, rows, FALSE)

\* A collection where nobody may list, view or create doesn't exist for a
\* caller's filter.
refTarget(a) == IsAdmin(a.auth) \/ \E rule \in {a.others.list, a.others.view, a.others.create} : rule # AdminOnly

FilterShows(a, record, rows) ==
    \/ a.filter = NoFilter
    \/ /\ (\E o \in Operands(a.filter) : Elsewhere(o)) => refTarget(a)
       /\ Shows(a.filter, a, record, rows, ~IsAdmin(a.auth))

ListShows(a, record) == RuleShows(a, record, a.others.rows) /\ FilterShows(a, record, a.others.rows)

ListRecords ==
    /\ listed = "unasked"
    /\ listed' = IF ListShows(ask, row) THEN "shown" ELSE "hidden"
    /\ UNCHANGED <<ask, row, got, patched>>

GetShows(a, record) == evaluateRule(a.rule, Context(a, record, NoBody, record))

GetRecord ==
    /\ got = "unasked"
    /\ got' = IF GetShows(ask, row) THEN "shown" ELSE "hidden"
    /\ UNCHANGED <<ask, row, listed, patched>>

\* What the body leaves out keeps its value.
Merged(record, body) == [f \in DOMAIN record |-> IF f \in DOMAIN body THEN body[f] ELSE record[f]]

\* Mutant: only the record as it is is checked.
CheckBefore(a, record) == evaluateRule(a.rule, Context(a, record, a.body, record))

\* Asked of the record as it is and as it would become.
checkUpdateRule(a, record) ==
    \A r \in {record, Merged(record, a.body)} : evaluateRule(a.rule, Context(a, r, a.body, record))

PatchRecord ==
    /\ ~patched
    /\ ask.body # NoBody
    /\ checkUpdateRule(ask, row)
    /\ row' = Merged(row, ask.body)
    /\ patched' = TRUE
    /\ listed' = "unasked"
    /\ got' = "unasked"
    /\ UNCHANGED ask

InitRules ==
    /\ ask \in Asks
    /\ row = ask.row
    /\ listed = "unasked"
    /\ got = "unasked"
    /\ patched = FALSE

RulesStep == ListRecords \/ GetRecord \/ PatchRecord

RulesSpec == InitRules /\ [][RulesStep]_ruleVars

-----------------------------------------------------------------------------
(* Properties. *)

\* A modifier of a value it isn't meant for, which the column holds as text;
\* and the lower case, in the process, of a letter that isn't ASCII.
ReadDifferently(o, ctx) ==
    \/ /\ o.kind = "field"
       /\ \/ o.modifier = "lower" /\ Is("list", readField(o, ctx))
          \/ /\ o.modifier = "length" /\ ~JsonPath(o, ctx)
             /\ readField(o, ctx) # Null
             /\ ~Is("text", readField(o, ctx)) /\ ~Is("list", readField(o, ctx))
    \/ /\ o.kind = "requestMap" /\ o.modifier = "lower"
       /\ LET v == requestMapValue(RequestMap(o, ctx), o.key)
          IN  Is("text", v) /\ asciiLower(v[2]) # toLowerCase(v[2])

\* What is null: another collection's value, and what is made of the request's.
NullDifferently(o) ==
    Elsewhere(o) \/ (o.kind = "requestMap" /\ o.modifier \in {"isset", "changed", "length"})

\* In a list: an element of another type than what it is compared with (a
\* missing one included), a list or an object where types are checked, and a
\* wildcard in what nothing must be like.
ListDifferently(c, o, ctx) ==
    LET target == resolveOperand(OtherSide(c, o), ctx)
        values == Elements(IF c.any THEN resolveOperand(o, ctx) ELSE readField(o, ctx))
        inItems == {walkPath(i, o.path) : i \in {i \in Items(o, ctx) : Is("obj", i)}}
    IN  \/ ctx.item = Null /\ \E v \in values : ~SameType(v, target)
        \/ ctx.item # Null /\ \E v \in values \cup {target} : Compound(v)
        \/ itemPath(o) /\ \E v \in inItems \cup {target} : Compound(v)
        \/ c.op = "!~" /\ OtherSide(c, o).kind = "literal" /\ Pattern(target)

\* What is asked of the request next to x:each, which the query compares with
\* the whole list; and two such questions of different kinds, of which the query
\* asks one.
AskedDifferently(c) ==
    /\ AsksRequest(c)
    /\ \/ Each(c.left) \/ Each(c.right)
       \/ \E o, p \in {c.left, c.right} :
             /\ Asked(p) /\ o.kind = "requestMap" /\ o.modifier \in {"isset", "changed"}
             /\ ~Asked(o) \/ o.modifier # p.modifier

DecidedDifferently(c, ctx) ==
    \/ AskedDifferently(c)
    \/ \E o \in {c.left, c.right} : ReadDifferently(o, ctx)
    \/ (NullLiteral(c.left) \/ NullLiteral(c.right)) /\ (NullDifferently(c.left) \/ NullDifferently(c.right))
    \/ c.op = "!~" /\ \E o \in {c.left, c.right} : o.kind = "requestMap" /\ o.modifier = "length"
    \/ IF c.any THEN ListSide(c).kind = "field" /\ ListDifferently(c, ListSide(c), ctx)
       ELSE IF Each(c.left) \/ Each(c.right)
       THEN EachSide(c).kind = "field" /\ ListDifferently(c, EachSide(c), ctx)
       ELSE ctx.item # Null /\ \E o \in {c.left, c.right} : Compound(resolveOperand(o, ctx))

AnyDifferently(c, ctx) ==
    \/ ReadDifferently(c.target, ctx)
    \/ \E i \in Elements(resolveOperand(c.target, ctx)) :
          Is("obj", i) /\ \E d \in UNION c.where : DecidedDifferently(d, InItem(ctx, i))

\* The query is not refused, and the two programs say the same of every
\* condition of the rule.
SameInBoth(a, record) ==
    LET ctx == Context(a, record, NoBody, record)
    IN  a.rule \in {Public, AdminOnly} \/
            /\ \A c \in Comparisons(a.rule) : ~Refused(c)
            /\ \A c \in UNION a.rule :
                  IF c.kind = "any" THEN ~AnyDifferently(c, ctx) ELSE ~DecidedDifferently(c, ctx)

\* Whoever may read a record by its id finds it in the list under the same
\* rule: the check of one record (rules.ts) can only deny more than the query
\* (filter.ts).
ByIdOnlyWhatIsListed ==
    SameInBoth(ask, row) /\ ask.filter = NoFilter /\ got = "shown" => listed # "hidden"

ReadsBody(e) == \E o \in Operands(e) : o.kind = "requestMap" /\ o.map = "body"

\* A rule that doesn't read the request's body still admits the caller to the
\* record after a change it let the caller make, by id and in the list: an
\* owner can't hand a record to somebody else (checkUpdateRule).
PatchKeepsItVisible ==
    patched /\ SameInBoth(ask, row) /\ ask.filter = NoFilter
        /\ (ask.rule \in {Public, AdminOnly} \/ ~ReadsBody(ask.rule))
    => got # "hidden" /\ listed # "hidden"

\* The rows of another collection the caller may see, under the rule and in
\* the caller's own filter.
SeenByRule == joinedCollectionGuard(ask, ask.others.rows, FALSE)
SeenByFilter == joinedCollectionGuard(ask, ask.others.rows, ~IsAdmin(ask.auth))

\* No row of the other collection is the one that c says there is none of.
NoSuchRow(c) ==
    \A x \in ask.others.rows :
        ~MatchesRow(c, x, Context(ask, row, NoBody, row), [joined |-> <<>>, seen |-> {}, view |-> AdminOnly])

\* Rows of another collection that the caller may not see don't change what a
\* list shows; and what it shows because no row of the other collection says
\* otherwise, no row says, the hidden ones included (compileCollectionRef).
HiddenRowsDontDecide ==
    /\ listed # "unasked" =>
        (listed = "shown" <=> RuleShows(ask, row, SeenByRule) /\ FilterShows(ask, row, SeenByFilter))
    /\ listed = "shown" /\ ~IsAdmin(ask.auth) /\ ask.rule \notin {Public, AdminOnly} =>
        \E alternative \in ask.rule :
            \A c \in alternative : c.kind # "any" /\ Negated(c) /\ ~Elsewhere(OtherSide(c, CollectionSide(c))) => NoSuchRow(c)

=============================================================================
