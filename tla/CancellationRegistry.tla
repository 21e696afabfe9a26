------------------------ MODULE CancellationRegistry ------------------------
(***************************************************************************)
(* The in-process cancel channel of the compute service:                   *)
(* app/orchestration/cancellation.py (CancellationRegistry,                *)
(* CancellationToken) together with the way the job handlers of            *)
(* app/api/main.py and the launchers use it.                               *)
(*                                                                         *)
(* A run is one launch request (analyze-dataset or execute-approved): it   *)
(* registers a token, checks it before and after materialization, and      *)
(* discards it in a finally block.  A cancel request finds or creates the  *)
(* token under the registry lock and triggers it after releasing the lock. *)
(* Token objects are named after the caller that created them.             *)
(***************************************************************************)

CONSTANTS
    Jobs,       \* platform job ids
    Runs,       \* launch requests; two runs of one job are a retry
    Cancels,    \* cancel requests
    None,       \* absent job or token
    Threaded,   \* TRUE: callers interleave between any two registry calls;
                \* FALSE: one event loop, a handler body is never interrupted
    Overlap     \* TRUE: a job may be launched again while a run of it is live

Callers == Runs \cup Cancels

ASSUME RegistryAssumption ==
    /\ Runs \cap Cancels = {}
    /\ None \notin Callers \cup Jobs
    /\ Threaded \in BOOLEAN
    /\ Overlap \in BOOLEAN

VARIABLES
    tokens,     \* registry._tokens: the token registered for each job
    discarded,  \* registry._discarded_job_ids
    triggered,  \* tokens whose _cancelled flag is set
    run,        \* each launch request's position, job, token and outcome
    req,        \* each cancel request's position, job and token
    waiting,    \* history: cancels made while no run of the job was
                \* registered, and not yet seen by a registration
    doomed      \* history: runs a cancel reached before their last check

registry == <<tokens, discarded, triggered>>
regVars == <<tokens, discarded, triggered, run, req, waiting, doomed>>

RunPcs == {"new", "registered", "running", "leaving", "responding", "done"}
Outcomes == {"none", "cancelled", "refused", "failed", "succeeded"}
CancelPcs == {"new", "found", "accepted", "refused"}

\* A run holds a registry entry from register to discard; it is live while
\* one of the launcher's two cancellation checks is still ahead of it.
Registered(r) == run[r].pc \in {"registered", "running", "leaving"}
Live(r) == run[r].pc \in {"registered", "running"}
RegisteredFor(j) == {r \in Runs : Registered(r) /\ run[r].job = j}

Busy(x) ==
    \/ x \in Runs /\ run[x].pc \notin {"new", "done"}
    \/ x \in Cancels /\ req[x].pc = "found"

\* The handlers are coroutines without an await after the body is parsed:
\* on one event loop a started handler runs to its end.
Turn(x) == Threaded \/ \A y \in Callers \ {x} : ~Busy(y)

RegInit ==
    /\ tokens = [j \in Jobs |-> None]
    /\ discarded = {}
    /\ triggered = {}
    /\ run = [r \in Runs |->
                [pc |-> "new", job |-> None, token |-> None, outcome |-> "none"]]
    /\ req = [c \in Cancels |-> [pc |-> "new", job |-> None, token |-> None]]
    /\ waiting = {}
    /\ doomed = {}

-----------------------------------------------------------------------------
(* A launch request.                                                       *)

\* Variants of register's token choice and of register itself that the runs
\* must tell apart from the code: a pending token overwritten, the job id
\* stored as its own token, the discarded mark left in place.
OverwritePending(r, j) == r
JobAsToken(r, j) == j

RegisterKeepsDiscarded(r, j) ==
    /\ Turn(r)
    /\ run[r].pc = "new"
    /\ Overlap \/ RegisteredFor(j) = {}
    /\ tokens' = [tokens EXCEPT ![j] = IF @ # None THEN @ ELSE r]
    /\ run' = [run EXCEPT ![r] = [pc |-> "registered", job |-> j,
                                  token |-> tokens'[j], outcome |-> "none"]]
    /\ waiting' = {c \in waiting : req[c].job # j}
    /\ doomed' = IF \E c \in waiting : req[c].job = j /\ req[c].pc = "accepted"
                 THEN doomed \cup {r} ELSE doomed
    /\ UNCHANGED <<discarded, triggered, req>>

\* register: a token already present, pre-cancelled or not, is reused.
TokenFor(r, j) == IF tokens[j] # None THEN tokens[j] ELSE r

Register(r, j) ==
    /\ Turn(r)
    /\ run[r].pc = "new"
    /\ Overlap \/ RegisteredFor(j) = {}
    /\ tokens' = [tokens EXCEPT ![j] = TokenFor(r, j)]
    /\ discarded' = discarded \ {j}
    /\ run' = [run EXCEPT ![r] = [pc |-> "registered", job |-> j,
                                  token |-> TokenFor(r, j), outcome |-> "none"]]
    /\ waiting' = {c \in waiting : req[c].job # j}
    /\ doomed' = IF \E c \in waiting : req[c].job = j /\ req[c].pc = "accepted"
                 THEN doomed \cup {r} ELSE doomed
    /\ UNCHANGED <<triggered, req>>

\* Variant: the launcher never looks at its token.
NeverCancelled(r) == FALSE

IsCancelled(r) == run[r].token \in triggered

Move(r, from, to, outcome) ==
    /\ Turn(r)
    /\ run[r].pc = from
    /\ run' = [run EXCEPT ![r] = [@ EXCEPT !.pc = to, !.outcome = outcome]]
    /\ UNCHANGED <<tokens, discarded, triggered, req, waiting, doomed>>

\* Variant: a refused launch answers without the finally block.
RefuseWithoutDiscard(r) == Move(r, "registered", "responding", "refused")

\* The launcher raises before its first check (missing approval metadata,
\* unresolvable service configuration).
Refuse(r) == Move(r, "registered", "leaving", "refused")

PreCheckCancelled(r) ==
    IsCancelled(r) /\ Move(r, "registered", "leaving", "cancelled")

PreCheckPasses(r) ==
    ~IsCancelled(r) /\ Move(r, "registered", "running", "none")

\* An exception between the two checks: nothing looks at the token again.
Raise(r) == Move(r, "running", "leaving", "failed")

\* The check after materialization precedes the test of result.success.
PostCheckCancelled(r) ==
    IsCancelled(r) /\ Move(r, "running", "leaving", "cancelled")

PostCheckPasses(r) ==
    /\ ~IsCancelled(r)
    /\ \E o \in {"failed", "succeeded"} : Move(r, "running", "leaving", o)

\* Variant: discard marks the job and forgets to pop its token.
DiscardKeepsToken(r) ==
    /\ Turn(r)
    /\ run[r].pc = "leaving"
    /\ discarded' = discarded \cup {run[r].job}
    /\ run' = [run EXCEPT ![r].pc = "responding"]
    /\ UNCHANGED <<tokens, triggered, req, waiting, doomed>>

\* discard, from the handler's finally block.
Discard(r) ==
    /\ Turn(r)
    /\ run[r].pc = "leaving"
    /\ tokens' = [tokens EXCEPT ![run[r].job] = None]
    /\ discarded' = discarded \cup {run[r].job}
    /\ run' = [run EXCEPT ![r].pc = "responding"]
    /\ UNCHANGED <<triggered, req, waiting, doomed>>

Respond(r) == Move(r, "responding", "done", run[r].outcome)

-----------------------------------------------------------------------------
(* A cancel request.                                                       *)

Unknown(j) == tokens[j] = None /\ j \in discarded

CancelRefused(c, j) ==
    /\ Turn(c)
    /\ req[c].pc = "new"
    /\ Unknown(j)
    /\ req' = [req EXCEPT ![c] = [pc |-> "refused", job |-> j, token |-> None]]
    /\ UNCHANGED <<registry, run, waiting, doomed>>

\* Under the registry lock: find the job's token or create a pending one.
CancelLookup(c, j) ==
    /\ Turn(c)
    /\ req[c].pc = "new"
    /\ ~Unknown(j)
    /\ LET t == IF tokens[j] # None THEN tokens[j] ELSE c
       IN  /\ tokens' = [tokens EXCEPT ![j] = t]
           /\ req' = [req EXCEPT ![c] = [pc |-> "found", job |-> j, token |-> t]]
    /\ waiting' = IF RegisteredFor(j) = {} THEN waiting \cup {c} ELSE waiting
    /\ UNCHANGED <<discarded, triggered, run, doomed>>

\* After the lock is released: token.cancel, then return True.
CancelTrigger(c) ==
    /\ Turn(c)
    /\ req[c].pc = "found"
    /\ triggered' = triggered \cup {req[c].token}
    /\ req' = [req EXCEPT ![c].pc = "accepted"]
    /\ doomed' = doomed \cup
                   {r \in Runs : Live(r) /\ run[r].token = req[c].token}
    /\ UNCHANGED <<tokens, discarded, run, waiting>>

-----------------------------------------------------------------------------

RunStep(r) ==
    \/ \E j \in Jobs : Register(r, j)
    \/ Refuse(r)
    \/ PreCheckCancelled(r)
    \/ PreCheckPasses(r)
    \/ Raise(r)
    \/ PostCheckCancelled(r)
    \/ PostCheckPasses(r)
    \/ Discard(r)
    \/ Respond(r)

CancelStep(c) ==
    \/ \E j \in Jobs : CancelRefused(c, j) \/ CancelLookup(c, j)
    \/ CancelTrigger(c)

RegNext == (\E r \in Runs : RunStep(r)) \/ (\E c \in Cancels : CancelStep(c))

RegSpec == RegInit /\ [][RegNext]_regVars

-----------------------------------------------------------------------------
(* Properties.                                                             *)

RegTypeOK ==
    /\ tokens \in [Jobs -> Callers \cup {None}]
    /\ discarded \subseteq Jobs
    /\ triggered \subseteq Callers
    /\ run \in [Runs -> [pc : RunPcs, job : Jobs \cup {None},
                         token : Callers \cup {None}, outcome : Outcomes]]
    /\ req \in [Cancels -> [pc : CancelPcs, job : Jobs \cup {None},
                            token : Callers \cup {None}]]
    /\ waiting \subseteq Cancels
    /\ doomed \subseteq Runs

\* A cancel that was acknowledged before a run was launched, or that
\* triggered the run's token before its last check, keeps that run from
\* succeeding, whatever the interleaving of register, cancel and discard.
DoomedNeverSucceed == \A r \in doomed : run[r].outcome # "succeeded"

\* Every run that has yet to pass a check can be reached: its own token is
\* the one cancel() will find, and the job is not marked discarded.
LiveRunsCancellable ==
    \A r \in Runs : Live(r) =>
        tokens[run[r].job] = run[r].token /\ run[r].job \notin discarded

\* A retry never starts on a token an earlier run has used up: no two runs
\* ever hold the same token, so an old cancel cannot kill the retry.
RetryGetsFreshToken ==
    \A r1, r2 \in Runs :
        r1 # r2 /\ run[r1].token # None => run[r1].token # run[r2].token

\* The registry keeps a token only for a run between register and discard or
\* for a cancel no launch has seen yet: finished runs leave nothing behind.
TokensAreOwned ==
    \A j \in Jobs : tokens[j] # None =>
        \/ RegisteredFor(j) # {}
        \/ \E c \in waiting : tokens[j] = c /\ req[c].job = j

\* CancelJobResponse: a cancel accepted with the token a run holds keeps that
\* run from succeeding.  Needs handlers that are not interleaved: on threads
\* the token may be triggered after the launcher's last check.
AcceptedRunsDoNotSucceed ==
    \A r \in Runs, c \in Cancels :
        req[c].pc = "accepted" /\ req[c].token = run[r].token
            => run[r].outcome # "succeeded"

-----------------------------------------------------------------------------
(* Inductive strengthening used by ApplyRunProofs.                         *)

\* A launch that has registered names its job and has no outcome before its
\* last check; a cancel between its two steps names the job and token it found.
CallerInv ==
    /\ \A r \in Runs : run[r].pc # "new" => run[r].job \in Jobs
    /\ \A r \in Runs : Live(r) => run[r].outcome = "none"
    /\ \A c \in Cancels : req[c].pc = "found" =>
          req[c].job \in Jobs /\ req[c].token \in Callers

\* What an acknowledged or recorded cancel guarantees about the token.
CancelInv ==
    /\ \A c \in Cancels : req[c].pc = "accepted" => req[c].token \in triggered
    /\ \A c \in waiting :
        /\ req[c].pc \in {"found", "accepted"}
        /\ req[c].job \in Jobs
        /\ req[c].token # None
        /\ tokens[req[c].job] = req[c].token
        /\ RegisteredFor(req[c].job) = {}
    /\ \A r \in doomed :
        run[r].pc # "new" /\ run[r].token \in triggered

\* Two runs of a job are never registered at once: on one event loop because a
\* handler runs to its end, on threads when launches of a job do not overlap.
Exclusive == ~Threaded \/ ~Overlap

\* With at most one registered run per job, the registry entry of a job and
\* the token its run holds are the same object, created by a started caller.
ExclusiveInv ==
    /\ \A r \in Runs : Registered(r) =>
        /\ run[r].token # None
        /\ tokens[run[r].job] = run[r].token
        /\ run[r].job \notin discarded
    /\ \A r1, r2 \in Runs :
        r1 # r2 /\ Registered(r1) /\ Registered(r2) => run[r1].job # run[r2].job
    /\ \A r \in Runs, j \in Jobs :
        tokens[j] # None /\ run[r].token = tokens[j]
            => Registered(r) /\ run[r].job = j
    /\ \A j1, j2 \in Jobs :
        tokens[j1] # None /\ tokens[j1] = tokens[j2] => j1 = j2
    /\ \A r \in Runs : run[r].pc = "new" =>
        /\ run[r].token = None
        /\ \A j \in Jobs : tokens[j] # r
        /\ \A r2 \in Runs : run[r2].token # r
    /\ \A c \in Cancels : req[c].pc = "new" =>
        /\ \A j \in Jobs : tokens[j] # c
        /\ \A r \in Runs : run[r].token # c

RegInv ==
    /\ RegTypeOK
    /\ CallerInv
    /\ CancelInv
    /\ DoomedNeverSucceed
    /\ Exclusive => ExclusiveInv /\ RetryGetsFreshToken

=============================================================================
