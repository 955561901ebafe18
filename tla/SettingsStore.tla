----------------------------- MODULE SettingsStore -----------------------------
(***************************************************************************)
(* The settings store (src/src/api/settings.ts): one setting, its row in   *)
(* vaultbase_settings, and the value one process holds in memory.  What    *)
(* the other processes and the CLI do to it they do to the row.            *)
(*                                                                         *)
(* The process writes through (setSetting), reads everything again every   *)
(* two seconds (_reloadSettings), and reads one key again when a message   *)
(* says it changed (invalidateSetting).  Each of them awaits a statement,  *)
(* so they pass each other.  A message may be late, doubled or lost, so    *)
(* that a re-read may come at any time.  Left out: encryption, and a       *)
(* driver that is closed or opened again.                                  *)
(***************************************************************************)
EXTENDS Naturals, Sequences, FiniteSets

CONSTANTS MaxSets,    \* bound: how often the setting is set, here or elsewhere
          MaxRereads    \* bound: reloads and re-reads under way, of each

ASSUME SettingsAssumption == MaxSets \in Nat /\ MaxRereads \in Nat

VARIABLES rows,      \* the values the row has had, up to the one it has
          store,     \* the process's value
          calls,     \* its calls under way
          sets,      \* how many values were set; a value is its number
          own,       \* history: what the process set last, 0 if that failed
          beside     \* history: whether a re-read was under way beside that

settings == <<rows, store, calls, sets, own, beside>>

Stored == rows[Len(rows)]

InitSettings == /\ rows = <<0>>
                /\ store = 0
                /\ calls = {}
                /\ sets = 0
                /\ own = 0
                /\ beside = FALSE

\* A call: its value is what it writes, or what it has read.  A reload is
\* marked when it is to keep what the process holds (the key is in its
\* "written"), a re-read when the map it took has been replaced.
Call(kind, val, marked) == [kind |-> kind, stage |-> "ask", val |-> val, marked |-> marked]

Under(kind) == {c \in calls : c.kind = kind}

Marked(kind) == {IF c.kind = kind THEN [c EXCEPT !.marked = TRUE] ELSE c : c \in calls}

\* A statement of c is answered.
StatementEnds(c, val) == calls' = (calls \ {c}) \cup {[c EXCEPT !.stage = "answered", !.val = val]}

\* A process comes up after a crash and loads its settings.
Restart == /\ calls # {}
           /\ calls' = {}
           /\ store' = Stored
           /\ own' = 0
           /\ UNCHANGED <<rows, sets, beside>>

\* Another process, or the CLI.
SetElsewhere == /\ sets < MaxSets
                /\ sets' = sets + 1
                /\ rows' = Append(rows, sets')
                /\ UNCHANGED <<store, calls, own, beside>>

-----------------------------------------------------------------------------
(* setSetting *)

\* The store is written before the row.
SetSetting ==
    /\ sets < MaxSets
    /\ sets' = sets + 1
    /\ store' = sets'
    /\ own' = sets'
    /\ calls' = Marked("reload") \cup {Call("set", sets', FALSE)}
    /\ beside' = (Under("reread") # {})
    /\ UNCHANGED rows

\* The row is written, or the statement fails.
WriteRow(c) ==
    /\ c.kind = "set" /\ c.stage = "ask"
    /\ StatementEnds(c, c.val)
    /\ \/ rows' = Append(rows, c.val) /\ UNCHANGED own
       \/ UNCHANGED rows /\ own' = IF own = c.val THEN 0 ELSE own
    /\ UNCHANGED <<store, sets, beside>>

SetEnds(c) == /\ c.kind = "set" /\ c.stage = "answered"
              /\ calls' = calls \ {c}
              /\ UNCHANGED <<rows, store, sets, own, beside>>

-----------------------------------------------------------------------------
(* _reloadSettings *)

\* Mutant: writes under way are not looked at.
ReloadBlindly == /\ Cardinality(Under("reload")) < MaxRereads
                 /\ calls' = calls \cup {Call("reload", 0, FALSE)}
                 /\ UNCHANGED <<rows, store, sets, own, beside>>

\* A reload keeps what is being written (writesInFlight).
Reload == /\ Cardinality(Under("reload")) < MaxRereads
          /\ calls' = calls \cup {Call("reload", 0, Under("set") # {})}
          /\ UNCHANGED <<rows, store, sets, own, beside>>

\* The row is read; a statement that fails ends the call.
ReadRow(c) == /\ c.kind \in {"reload", "reread"} /\ c.stage = "ask"
              /\ \/ StatementEnds(c, Stored)
                 \/ calls' = calls \ {c}
              /\ UNCHANGED <<rows, store, sets, own, beside>>

\* A new map takes the old one's place; a re-read is left with the old one.
ReloadEnds(c) == /\ c.kind = "reload" /\ c.stage = "answered"
                 /\ store' = IF c.marked THEN store ELSE c.val
                 /\ calls' = Marked("reread") \ {c}
                 /\ UNCHANGED <<rows, sets, own, beside>>

-----------------------------------------------------------------------------
(* invalidateSetting *)

Reread == /\ Cardinality(Under("reread")) < MaxRereads
          /\ calls' = calls \cup {Call("reread", 0, FALSE)}
          /\ beside' = (beside \/ Under("set") # {})
          /\ UNCHANGED <<rows, store, sets, own>>

\* What was read goes into the map it took; reloads under way keep it.
RereadEnds(c) == /\ c.kind = "reread" /\ c.stage = "answered"
                 /\ store' = IF c.marked THEN store ELSE c.val
                 /\ calls' = Marked("reload") \ {c}
                 /\ UNCHANGED <<rows, sets, own, beside>>

-----------------------------------------------------------------------------
SettingsStep == \/ SetSetting \/ SetElsewhere \/ Reload \/ Reread \/ Restart
                \/ \E c \in calls : \/ WriteRow(c) \/ SetEnds(c) \/ ReadRow(c)
                                    \/ ReloadEnds(c) \/ RereadEnds(c)

-----------------------------------------------------------------------------
(* Properties *)

Written(v) == \E i \in 1 .. Len(rows) : rows[i] = v
At(v) == CHOOSE i \in 1 .. Len(rows) : rows[i] = v

\* What a process has set it goes on to see, or something written after it,
\* whatever reloads and re-reads pass the write: the store never goes back to
\* an older value (api/settings.ts:144-148, 179-191).  Unless the key is read
\* again at the very time it is written.
OwnSettingStays ==
    own # 0 /\ ~beside =>
        \/ store = own
        \/ Written(own) /\ Written(store) /\ At(store) > At(own)

=============================================================================
