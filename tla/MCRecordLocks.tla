---------------------------- MODULE MCRecordLocks ----------------------------
(***************************************************************************)
(* A small instance of RecordLocks: a parent and a child of each mode.     *)
(***************************************************************************)
EXTENDS RecordLocks, TLC

CONSTANTS w1, w2, b1, b2, p, k1, k2, k3

MCCascade == k1 :> "setNull" @@ k2 :> "cascade" @@ k3 :> "restrict"

update(r) == [op |-> "update", rec |-> r]
point(r) == [op |-> "point", rec |-> r]
delete(r) == [op |-> "delete", rec |-> r]

asks(w, guarded, hook) == [write |-> w, guarded |-> guarded, hook |-> hook]

\* Hooks that write each other's record, or the same one, or delete it; an If-Match
\* on an update and on a delete; a child pointed at the parent, by a request and by
\* the hook of the parent's delete; a hook that deletes the parent.
MCAsks == w1 :> {asks(update(k1), FALSE, update(k2)), asks(update(k1), TRUE, update(k1)),
                 asks(update(k3), FALSE, delete(k3))}
       @@ w2 :> {asks(update(k2), FALSE, update(k1)), asks(point(k3), FALSE, None),
                 asks(update(k3), FALSE, delete(p))}
       @@ b1 :> {asks(delete(p), TRUE, update(k1))}
       @@ b2 :> {asks(delete(p), FALSE, point(k3))}

=============================================================================
