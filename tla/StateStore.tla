----------------------------- MODULE StateStore -----------------------------
(* What the lock of STATE.md gives its users: every version of the file is   *)
(* whole, and was made by one command from a version it read, or from the    *)
(* blank file a reader may meet.  It does not promise that the version read  *)
(* is still the last one.  Once a lock is forced nothing is promised.        *)

CONSTANTS Procs,      \* the commands that run
          Versions,   \* the contents STATE.md may have at first
          Blank,      \* the content of an empty file
          Edits(_),   \* what a command may make of a content
          Saves(_)    \* the forms in which an edited content may be stored

VARIABLES file,       \* the last version
          pending,    \* for each process the set of its edit, or nothing
          trusted
vars == <<file, pending, trusted>>

Init == /\ file \in Versions
        /\ pending = [p \in Procs |-> {}]
        /\ trusted = TRUE

\* A command reads a version, or the blank of a write it meets, and edits it.
Begin(p) == /\ pending[p] = {} /\ pending'[p] # {}
            /\ \E base \in {file, Blank} : \E e \in Edits(base) :
                  pending' = [pending EXCEPT ![p] = {e}]
            /\ UNCHANGED <<file, trusted>>

Commit(p) == /\ \E e \in pending[p] : file' \in Saves(e)
             /\ UNCHANGED <<pending, trusted>>

Finish(p) == /\ pending' = [pending EXCEPT ![p] = {}]
             /\ UNCHANGED <<file, trusted>>

\* A command that dies in its write leaves an empty file.
Die(p) == /\ pending[p] # {}
          /\ pending' = [pending EXCEPT ![p] = {}]
          /\ file' = Blank
          /\ UNCHANGED trusted

\* From here on the file may be anything.
Forced == trusted' = FALSE

Next == \/ \E p \in Procs : Begin(p) \/ Commit(p) \/ Finish(p) \/ Die(p)
        \/ Forced

Spec == Init /\ [][Next]_vars
=============================================================================
