------------------------------- MODULE FileSweep -------------------------------
(***************************************************************************)
(* Uploads and the sweep of orphaned files (src/src/core/file-sweep.ts,    *)
(* api/files.ts): the files of one record, the fields that name them, and  *)
(* the sweeps that remove what nothing names.                              *)
(*                                                                         *)
(* A sweep reads the collections, then a batch of files past their grace,  *)
(* then one field of the table at a time, and decides by what it read;     *)
(* records and schema change meanwhile.  Every server sweeps.  Left out:   *)
(* collections with history and views, which a sweep passes over, further  *)
(* batches, thumbnails, the setting that turns sweeps off, maintenance     *)
(* mode, and DELETE /files, which takes a file out of its record first.    *)
(***************************************************************************)
EXTENDS Clock, FiniteSets

CONSTANTS Files,        \* the uploads
          Fields,       \* names of file fields
          FirstFields,  \* those of the collection at first
          Grace,        \* GRACE_SECONDS, in ticks
          MaxChanges,   \* bound: edits of the record and changes of the schema
          Nothing

ASSUME FileSweepAssumption == /\ FirstFields \subseteq Fields
                              /\ Grace \in Nat
                              /\ MaxChanges \in Nat
                              /\ Nothing \notin Files \cup Fields

VARIABLES fields,    \* the collection's file fields, or {} once it is dropped
          names,     \* the files each column of the record names
          file,      \* vaultbase_files: field_name and created_at, and whether
                     \* the row and the stored object are there
          sweeps,    \* sweeps under way, one of a process
          changes,   \* how many edits and schema changes there were
          moved      \* history: the files whose field was renamed

stored == <<fields, names, file, sweeps, changes, moved>>

InitFiles == /\ fields = FirstFields
             /\ names = [c \in Fields |-> {}]
             /\ file = [f \in Files |-> [row |-> FALSE, object |-> FALSE, field |-> Nothing, at |-> 0]]
             /\ sweeps = {}
             /\ changes = 0
             /\ moved = {}

Uploaded == {f \in Files : file[f].field # Nothing}

Named == UNION {names[c] : c \in Fields}

\* POST /files/:collection/:recordId/:field.  Nobody knows the name before it
\* is answered, so the object and the row are one step.
Upload(f) ==
    /\ f \notin Uploaded
    /\ \E c \in fields : file' = [file EXCEPT ![f] = [row |-> TRUE, object |-> TRUE, field |-> c, at |-> now]]
    /\ UNCHANGED <<fields, names, sweeps, changes, moved>>

\* A sweep that began while a file was named, and has gone on since, spares it.
Changes == /\ changes < MaxChanges
           /\ changes' = changes + 1
           /\ sweeps' = {[s EXCEPT !.spares = @ \cap UNION {names'[c] : c \in Fields}] : s \in sweeps}
           /\ UNCHANGED file

\* A PATCH of the record: a field names what it held, or what was uploaded to
\* it (checkFileOwnership).  An empty field stands for a deleted record, too.
Edit(c) ==
    /\ c \in fields
    /\ \E S \in SUBSET (names[c] \cup {f \in Files : file[f].row /\ file[f].field = c}) :
         S # names[c] /\ names' = [names EXCEPT ![c] = S]
    /\ UNCHANGED <<fields, moved>>
    /\ Changes

AddField(c) == /\ c \notin fields /\ fields # {}
               /\ fields' = fields \cup {c}
               /\ UNCHANGED <<names, moved>>
               /\ Changes

\* A field is dropped, or with the last one the collection.
DropField(c) == /\ c \in fields
                /\ fields' = fields \ {c}
                /\ names' = [names EXCEPT ![c] = {}]
                /\ UNCHANGED moved
                /\ Changes

\* renamedFrom: the column keeps its data; vaultbase_files is not touched.
RenameField(c, d) == /\ c \in fields /\ d \notin fields
                     /\ fields' = (fields \ {c}) \cup {d}
                     /\ names' = [names EXCEPT ![d] = names[c], ![c] = {}]
                     /\ moved' = moved \cup names[c]
                     /\ Changes

-----------------------------------------------------------------------------
(* sweepOrphanFiles *)

Steps(s, t) == sweeps' = (sweeps \ {s}) \cup {t}

\* The collections and their fields.
SweepBegins(p) ==
    /\ ~ \E s \in sweeps : s.proc = p
    /\ Uploaded # {}  \* else it would find nothing
    /\ sweeps' = sweeps \cup {[proc |-> p, fields |-> fields, began |-> now, stage |-> "rows",
                               todo |-> {}, seen |-> [c \in {} |-> {}], cutting |-> Nothing,
                               spares |-> Named]}
    /\ UNCHANGED <<fields, names, file, changes, moved>>

\* The files past their grace.
ReadRows(s) ==
    /\ s.stage = "rows"
    /\ Steps(s, [s EXCEPT !.stage = "values",
                          !.todo = {f \in Files : file[f].row /\ file[f].at + Grace < s.began}])
    /\ UNCHANGED <<fields, names, file, changes, moved>>

\* The columns to be read: those of the sweep's fields that some file is for.
Groups(s) == {file[f].field : f \in s.todo} \cap s.fields

Failed == {Nothing}

\* One column: the query fails if it is gone, or for some other reason.
ReadValues(s) ==
    /\ s.stage = "values"
    /\ \E c \in Groups(s) \ DOMAIN s.seen :
       \E v \in {Failed} \cup (IF c \in fields THEN {names[c]} ELSE {}) :
          Steps(s, [s EXCEPT !.seen = [d \in DOMAIN @ \cup {c} |-> IF d = c THEN v ELSE @[d]]])
    /\ UNCHANGED <<fields, names, file, changes, moved>>

\* Mutant: a column that could not be read names nothing.
OrphansIfUnread(s) == {f \in s.todo : \/ file[f].field \notin s.fields
                                      \/ f \notin s.seen[file[f].field]}

\* By what the sweep read: the field is gone, or does not name the file.
Orphans(s) == {f \in s.todo : \/ file[f].field \notin s.fields
                              \/ s.seen[file[f].field] # Failed /\ f \notin s.seen[file[f].field]}

Decides(s) == s.stage = "values" /\ Groups(s) \subseteq DOMAIN s.seen

\* deleteFile of one orphan, which may fail; the others are passed over.
DeleteObject(s) ==
    /\ Decides(s) /\ s.cutting = Nothing
    /\ \E f \in Orphans(s) :
         \/ /\ file' = [file EXCEPT ![f].object = FALSE]
            /\ Steps(s, [s EXCEPT !.cutting = f])
         \/ /\ Steps(s, [s EXCEPT !.todo = @ \ {f}])
            /\ UNCHANGED file
    /\ UNCHANGED <<fields, names, changes, moved>>

\* Then its row.
DeleteRow(s) ==
    /\ s.cutting # Nothing
    /\ file' = [file EXCEPT ![s.cutting].row = FALSE]
    /\ Steps(s, [s EXCEPT !.todo = @ \ {s.cutting}, !.cutting = Nothing])
    /\ UNCHANGED <<fields, names, changes, moved>>

SweepEnds(s) == /\ Decides(s) /\ s.cutting = Nothing
                /\ Orphans(s) = {}
                /\ sweeps' = sweeps \ {s}
                /\ UNCHANGED <<fields, names, file, changes, moved>>

StopSweep(p) == /\ sweeps' = {s \in sweeps : s.proc # p}
                /\ UNCHANGED <<fields, names, file, changes, moved>>

FileStep == \/ \E c \in Fields : Edit(c) \/ AddField(c) \/ DropField(c)
            \/ \E c, d \in Fields : RenameField(c, d)
            \/ \E p \in Procs : SweepBegins(p)
            \/ \E s \in sweeps : \/ ReadRows(s) \/ ReadValues(s)
                                 \/ DeleteObject(s) \/ DeleteRow(s) \/ SweepEnds(s)

-----------------------------------------------------------------------------
(* Properties *)

\* A sweep removes a file once it is unreferenced (core/file-sweep.ts:7-11),
\* whatever it reads before, between and after changes of the record and the
\* schema: never one the record names, and has named since the sweep began.
\* But for files whose field was renamed.
NamedFilesStay == \A s \in sweeps : s.cutting \notin s.spares \ moved

\* Nor one of a renamed field, which keeps its data
\* (src/CHANGELOG.md:1984, src/src/core/collections.ts:157).
RenamedFilesStay == \A s \in sweeps : s.cutting \notin s.spares

=============================================================================
