----------------------------- MODULE JobContract -----------------------------
(***************************************************************************)
(* What the platform is promised about the events of an apply job, as the  *)
(* vocabulary of app/orchestration/status_bridge.py allows: an attempt     *)
(* begins, its progress only grows, it ends once, and references to final  *)
(* artifacts come with its end and nothing else.  A job may be attempted   *)
(* again once an attempt has ended, or be cancelled before it begins.      *)
(***************************************************************************)
EXTENDS Naturals

CONSTANTS Jobs, Refs

VARIABLE view       \* the latest event of each job

Terminal == {"completed", "failed", "cancelled"}
Statuses == {"none", "queued", "running"} \cup Terminal

Event(status, progress, refs) ==
    [status |-> status, progress |-> progress, refs |-> refs]

Quiet(j) == view[j].status \in {"none"} \cup Terminal
Active(j) == view[j].status \in {"queued", "running"}
Show(j, event) == view' = [view EXCEPT ![j] = event]

ContractInit == view = [j \in Jobs |-> Event("none", 0, {})]

Begin(j) == Quiet(j) /\ Show(j, Event("queued", 0, {}))

Advance(j) ==
    /\ Active(j)
    /\ \E p \in (view[j].progress + 1) .. 99 : Show(j, Event("running", p, {}))

Complete(j) ==
    /\ view[j].status = "running"
    /\ \E refs \in SUBSET Refs : Show(j, Event("completed", 100, refs))

Fail(j) == Active(j) /\ Show(j, Event("failed", 0, {}))

CancelBegun(j) == Active(j) /\ Show(j, Event("cancelled", 50, {}))

CancelUnbegun(j) == Quiet(j) /\ Show(j, Event("cancelled", 0, {}))

ContractNext ==
    \E j \in Jobs :
        \/ Begin(j) \/ Advance(j) \/ Complete(j)
        \/ Fail(j) \/ CancelBegun(j) \/ CancelUnbegun(j)

ContractSpec == ContractInit /\ [][ContractNext]_view

=============================================================================
