------------------------------- MODULE Restore -------------------------------
(***************************************************************************)
(* Restoring a SQLite backup while the server runs (src/src/api/backup.ts, *)
(* core/restore-credentials.ts): the file is staged and checked, writes    *)
(* are held off (module WriteGate, whose exclusive lock is gate here), the *)
(* read workers are stopped, the database file is replaced, what ended     *)
(* sessions since the backup is carried over, and the workers start again. *)
(*                                                                         *)
(* Backups hold none of the endings: they were taken before.  A sign-out   *)
(* does not pass the write gate (core/sec.ts revokeToken), so one may come *)
(* at any step.  From the capture to the swap nothing else runs: what is   *)
(* awaited in between is at hand.  Left out: Postgres, the checkpointer    *)
(* (suspended and resumed like the workers), a restore's options, and      *)
(* what the credentials' step consists of.                                 *)
(***************************************************************************)
EXTENDS ReadPool

CONSTANTS Restores,  \* POST /admin/backups/:name/restore
          Endings    \* bound: the kinds of endings of a behaviour

\* What ends sessions, in the order it is carried over.
Kinds == {"revocations", "stamps", "credentials"}

\* The gate is free.
Free == "free"

ASSUME RestoreAssumption == /\ Free \notin Restores
                            /\ Endings \subseteq Kinds

VARIABLES at,        \* where each restore is
          gate,      \* who holds the write gate
          late,      \* whether drainMs have passed
          resumes,   \* whether the pool ran and is to be started again
          staged,    \* whether there is a file at the staging path
          file,      \* the database: "live", "restored", "blank"
          ended,     \* endings in the database
          captured,  \* the restore's copy of them
          failed,    \* the kinds it could not carry over, as it has noted them so far
          lastSummary, \* of the process: those of the last restore that was done
          promised,  \* history: endings that were answered
          told,      \* history: kinds an answer said were not carried over, or lost
                     \* in a restore that was answered as failed
          unread     \* history: kinds of a summary that another took the place of

\* What a restore has to say of what it lost.
notes == <<failed, lastSummary, told, unread>>

steps == <<at, gate, late, resumes, staged, file, ended, captured, promised, notes>>

vars == <<pool, steps>>

Init == /\ InitPool
        /\ at = [c \in Restores |-> "start"]
        /\ gate = Free
        /\ late = FALSE
        /\ resumes = FALSE
        /\ staged = FALSE
        /\ file = "live"
        /\ ended = {}
        /\ captured = {}
        /\ failed = {}
        /\ lastSummary = {}
        /\ promised = {}
        /\ told = {}
        /\ unread = {}

Goto(c, stage) == at' = [at EXCEPT ![c] = stage]

-----------------------------------------------------------------------------

\* A sign-out, a reset of sessions or a change of credentials.
EndSession(k) == /\ k \notin promised
                 /\ file # "blank"
                 /\ ended' = ended \cup {k}
                 /\ promised' = promised \cup {k}
                 /\ UNCHANGED <<pool, at, gate, late, resumes, staged, file, captured, notes>>

\* The backup is copied to the staging path and checked.
Stage(c) == /\ at[c] = "start"
            /\ staged' = TRUE
            /\ Goto(c, "waiting")
            /\ UNCHANGED <<pool, gate, late, resumes, file, ended, captured, promised, notes>>

\* ... and is damaged, or no Vaultbase database.
Refuse(c) == /\ at[c] = "start"
             /\ staged' = FALSE
             /\ Goto(c, "error")
             /\ UNCHANGED <<pool, gate, late, resumes, file, ended, captured, promised, notes>>

\* withExclusiveWrite lets the restore in, and it suspends the read workers.
Enter(c) == /\ at[c] = "waiting"
            /\ gate = Free
            /\ gate' = c
            /\ resumes' = spec
            /\ IF spec THEN suspendReadPool /\ Goto(c, "drain")
                       ELSE UNCHANGED pool /\ Goto(c, "swap")
            /\ UNCHANGED <<late, staged, file, ended, captured, promised, notes>>

DrainTime == /\ \E c \in Restores : at[c] = "drain"
             /\ ~late
             /\ late' = TRUE
             /\ UNCHANGED <<pool, at, gate, resumes, staged, file, ended, captured,
                            promised, notes>>

\* Mutant: waits for the reads however long it takes.
UntilDrained == Drained

DrainOver == Drained \/ late

StopReaders(c) == /\ at[c] = "drain"
                  /\ DrainOver
                  /\ stopReadPool
                  /\ late' = FALSE
                  /\ Goto(c, "swap")
                  /\ UNCHANGED <<gate, resumes, staged, file, ended, captured, promised, notes>>

\* swapInDb: the old file is moved away, then the staged one into its place.
\* If that fails, the database at the path is opened, which makes one.
Swap(c) ==
    /\ at[c] = "swap"
    /\ captured' = ended
    /\ \/ /\ Goto(c, "failed")
          /\ UNCHANGED <<pool, staged, file, ended, failed>>
       \/ /\ FileReplaced
          /\ ended' = {}
          /\ staged' = FALSE
          /\ IF staged THEN file' = "restored" /\ Goto(c, "migrate") /\ UNCHANGED failed
                       ELSE file' = "blank" /\ Goto(c, "failed") /\ failed' = ended
    /\ UNCHANGED <<gate, late, resumes, lastSummary, promised, told, unread>>

\* runMigrations on the restored database; what it throws ends the restore.
Migrate(c) == /\ at[c] = "migrate"
              /\ \/ Goto(c, "revocations") /\ UNCHANGED failed
                 \/ Goto(c, "failed") /\ failed' = captured
              /\ UNCHANGED <<pool, gate, late, resumes, staged, file, ended, captured,
                             lastSummary, promised, told, unread>>

After == [k \in Kinds |-> CASE k = "revocations" -> "stamps"
                            [] k = "stamps"      -> "credentials"
                            [] OTHER             -> "done"]

\* The process keeps one summary: that of an answer to come is lost here.
noteCarry(lost) == /\ lastSummary' = lost
                   /\ unread' = unread \cup lastSummary
                   /\ failed' = {}

\* Mutant: a step that fails skips the others.
CarryOrSkip(c, k) ==
    /\ at[c] = k
    /\ \/ /\ ended' = ended \cup (captured \cap {k})
          /\ Goto(c, After[k])
          /\ IF k = "credentials" THEN noteCarry(failed)
                                  ELSE UNCHANGED <<failed, lastSummary, unread>>
       \/ /\ k \in captured
          /\ noteCarry(failed \cup {k})
          /\ Goto(c, "done")
          /\ UNCHANGED ended
    /\ UNCHANGED <<pool, gate, late, resumes, staged, file, captured, promised, told>>

\* One kind is written into the restored database, or can't be, which is noted;
\* after the last one the notes become the summary.
Carry(c, k) ==
    /\ at[c] = k
    /\ \E lost \in {{}, captured \cap {k}} :
          /\ ended' = ended \cup ((captured \cap {k}) \ lost)
          /\ IF k = "credentials" THEN noteCarry(failed \cup lost)
             ELSE failed' = failed \cup lost /\ UNCHANGED <<lastSummary, unread>>
    /\ Goto(c, After[k])
    /\ UNCHANGED <<pool, gate, late, resumes, staged, file, captured, promised, told>>

\* The finally of swapRestored: the workers start again on the file in place.
Resume(c) ==
    /\ at[c] \in {"done", "failed"}
    /\ resumes
    /\ startReadPool
    /\ Goto(c, IF at[c] = "done" THEN "starting" ELSE "starting after failure")
    /\ resumes' = FALSE
    /\ UNCHANGED <<gate, late, staged, file, ended, captured, promised, notes>>

Started(c) ==
    /\ at[c] \in {"starting", "starting after failure"}
    /\ Launched
    /\ Goto(c, IF at[c] = "starting" THEN "done" ELSE "failed")
    /\ UNCHANGED <<gate, late, resumes, staged, file, ended, captured, promised, notes>>

\* The gate is left.  A restore that is done has its record and its files to put
\* in place before it answers; one that failed answers so.
Leave(c) == /\ at[c] \in {"done", "failed"}
            /\ ~resumes
            /\ gate' = Free
            /\ captured' = {}
            /\ Goto(c, IF at[c] = "done" THEN "following" ELSE "error")
            /\ failed' = {}
            /\ told' = told \cup failed
            /\ UNCHANGED <<pool, late, resumes, staged, file, ended, lastSummary, promised,
                           unread>>

\* takeCarryMessage: the answer says what the summary holds by now.
Answer(c) == /\ at[c] = "following"
             /\ told' = told \cup lastSummary
             /\ lastSummary' = {}
             /\ Goto(c, "ok")
             /\ UNCHANGED <<pool, gate, late, resumes, staged, file, ended, captured, failed,
                            promised, unread>>

RestoreStep(c) == \/ Enter(c) \/ StopReaders(c) \/ Swap(c) \/ Migrate(c)
                  \/ \E k \in Kinds : Carry(c, k)
                  \/ Resume(c) \/ Started(c) \/ Leave(c) \/ Answer(c)

Next == \/ PoolStep /\ UNCHANGED steps
        \/ \E k \in Endings : EndSession(k)
        \/ \E c \in Restores : Stage(c) \/ Refuse(c) \/ RestoreStep(c)
        \/ DrainTime

Spec == Init /\ [][Next]_vars

\* A restore under way goes on; its timers fire; a worker that starts gets
\* ready or is given up after START_TIMEOUT_MS.  Nobody owes a read.
FairSpec == /\ Spec
            /\ \A c \in Restores : WF_vars(RestoreStep(c))
            /\ WF_vars(DrainTime)
            /\ \A w \in Workers : /\ WF_vars(StartFails(w) /\ thread[w] # "up" /\ UNCHANGED steps)
                                  /\ WF_vars(RestartFails(w) /\ UNCHANGED steps)

-----------------------------------------------------------------------------

\* A restore is between the swap and the end of the carry-over.
Carrying == \E c \in Restores : at[c] \in Kinds \cup {"migrate"}

\* What the answers to come will say.
ToBeTold ==
    UNION {(IF at[c] \in {"failed", "starting after failure"} THEN failed ELSE {})
             \cup (IF at[c] \in {"done", "starting", "following"} THEN lastSummary ELSE {}) :
           c \in Restores}

\* A session that was ended stays ended in the restored database, however the
\* steps of the carry-over fail, unless an answer says that its kind was not
\* carried over or that the restore failed (backup.ts:78-80, 152-155), or the
\* note of it was overwritten by another restore's before it was answered.
EndedStaysEnded == Carrying \/ promised \subseteq ended \cup told \cup ToBeTold \cup unread

\* A restore that waits for the write gate or holds it is answered, whatever
\* reads keep the workers busy and however their restarts fail, and record
\* writes with it (read-pool.ts:400-402).
RestoreEnds == \A c \in Restores : (at[c] = "waiting") ~> (at[c] \in {"ok", "error"})

-----------------------------------------------------------------------------
(* What the comments promise and the code does not do. *)

\* "Re-init the original DB to keep the server alive" (backup.ts:63): a restore
\* that fails leaves the server on the database it had.
FailedRestoreKeepsTheDatabase == file # "blank"

=============================================================================
