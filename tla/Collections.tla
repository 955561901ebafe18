----------------------------- MODULE Collections -----------------------------
(***************************************************************************)
(* Collections: how their rules are decided, and how they are created,     *)
(* changed and deleted.  A rule is decided on a record and a parsed        *)
(* expression, which a schema change does not touch, so a behaviour has    *)
(* requests under a rule or changes of the schema.                         *)
(***************************************************************************)
EXTENDS Rules, SchemaChange

CONSTANT Quiet    \* a request nobody makes, where the schema changes

ASSUME QuietAssumption == Quiet \in Asks

collectionsVars == <<ask, row, listed, got, patched, base, tx, stage, wish, my, cached, mishaps, torn>>

InitCollections == InitRules /\ InitSchema

Request == ask # Quiet /\ RulesStep /\ UNCHANGED schemaVars

Change == ask = Quiet /\ SchemaStep /\ UNCHANGED ruleVars

NextCollections == Request \/ Change

SpecCollections == InitCollections /\ [][NextCollections]_collectionsVars

=============================================================================
