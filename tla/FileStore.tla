----------------------------- MODULE FileStore -----------------------------
(***************************************************************************)
(* What the file-system interface of fs/mod.rs promises, whichever driver  *)
(* is mounted behind it: a map from paths to what they name, changed by    *)
(* one operation at a time, each of which takes effect at a single instant *)
(* or not at all, also when a disk request fails or power is lost.         *)
(***************************************************************************)
EXTENDS Sequences

CONSTANTS
    Paths,       \* the paths the clients use
    Idle         \* no operation is under way

VARIABLES
    files,       \* path -> a file's contents, Directory or Absent
    pending,     \* the operation under way, a record, or Idle
    before,      \* the files when it began, or the files
    result       \* "ok" or "err": what the last operation returned

storeVars == <<files, pending, before, result>>

\* Contents are sequences; what is no file is written as a sequence that no
\* file has.
Absent == <<"absent">>
Directory == <<"directory">>

\* The files after operation o on the files m.
Apply(o, m) ==
    [m EXCEPT ![o.path] =
        CASE o.kind \in {"create", "write"} -> o.data
          [] o.kind = "append" -> IF @ = Absent THEN o.data ELSE @ \o o.data
          [] o.kind = "mkdir" -> Directory
          [] o.kind = "delete" -> Absent]

Begin(o) ==
    /\ pending = Idle
    /\ pending' = o
    /\ before' = files
    /\ UNCHANGED <<files, result>>

\* The operation takes effect.
Commit ==
    /\ pending # Idle
    /\ files = before
    /\ files' = Apply(pending, before)
    /\ UNCHANGED <<pending, before, result>>

\* The operation returns.  One that reports success has taken effect; one that
\* reports an error may have, at the latest now.
Return(r) ==
    /\ pending # Idle
    /\ \/ files' = files
       \/ r = "err" /\ files = before /\ files' = Apply(pending, before)
    /\ r = "ok" => files = Apply(pending, before)
    /\ pending' = Idle
    /\ result' = r
    /\ before' = files'

\* Power fails.
Crash ==
    /\ pending' = Idle
    /\ before' = files
    /\ UNCHANGED <<files, result>>

StoreNext ==
    \/ pending' # Idle /\ Begin(pending')
    \/ Commit
    \/ \E r \in {"ok", "err"} : Return(r)
    \/ Crash

StoreSpec == pending = Idle /\ [][StoreNext]_storeVars
=============================================================================
