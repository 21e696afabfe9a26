--------------------------- MODULE WriteOnceStore ---------------------------
(***************************************************************************)
(* What callers of save_artifact may rely on: a name stands for one        *)
(* content, and once the store keeps it under its name it does so for      *)
(* good; a writer is answered once, with a name whose content is kept.     *)
(* Only a name that other services write to is out of the promise.         *)
(***************************************************************************)

CONSTANTS Writers, Names, None

VARIABLES
    kept,       \* names under which the store has what they stand for
    replies,    \* the name each writer was answered, or None
    shared      \* names that other services have written to

promiseVars == <<kept, replies, shared>>

PromiseInit == kept = {} /\ replies = [w \in Writers |-> None] /\ shared = {}

\* A write that is not answered may be kept all the same.
Keep(n) == kept' = kept \cup ({n} \ shared) /\ UNCHANGED <<replies, shared>>

\* The content is there already or is put now.
Answer(w, n) ==
    /\ replies[w] = None
    /\ kept' = kept \cup ({n} \ shared)
    /\ replies' = [replies EXCEPT ![w] = n]
    /\ UNCHANGED shared

Share(n) ==
    /\ shared' = shared \cup {n}
    /\ kept' = kept \ {n}
    /\ UNCHANGED replies

PromiseNext ==
    \E n \in Names : Keep(n) \/ Share(n) \/ \E w \in Writers : Answer(w, n)

PromiseSpec == PromiseInit /\ [][PromiseNext]_promiseVars

=============================================================================
