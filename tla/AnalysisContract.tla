-------------------------- MODULE AnalysisContract --------------------------
(***************************************************************************)
(* What the platform is promised about the events and outputs of an        *)
(* analyze job: an output is shown once, after the outputs it is made of   *)
(* and with more progress than they had; the job ends once; and it         *)
(* completes with every output that was asked for, all of one origin.      *)
(***************************************************************************)
EXTENDS Naturals

CONSTANTS
    Outputs,
    Needs       \* pairs of an output and one that is made of it

VARIABLES
    asked,      \* the outputs of the request
    shown,      \* the latest event
    reached,    \* the progress each output was shown with, if it was
    origin      \* where the published outputs come from

contractVars == <<asked, shown, reached, origin>>

Event(status, progress) == [status |-> status, progress |-> progress]

Ongoing == shown.status \in {"none", "running"}

NeededFor(o) == {d \in Outputs : <<d, o>> \in Needs}

ContractInit ==
    /\ asked \in SUBSET Outputs
    /\ shown = Event("none", 0)
    /\ reached = [o \in {} |-> 0]
    /\ origin = "none"

ShowOutput(o) ==
    /\ Ongoing
    /\ o \in asked \ DOMAIN reached
    /\ NeededFor(o) \subseteq DOMAIN reached
    /\ \E p \in 1 .. 99 :
          /\ \A d \in NeededFor(o) : reached[d] < p
          /\ reached' = [q \in DOMAIN reached \cup {o} |-> IF q = o THEN p ELSE reached[q]]
          /\ shown' = Event("running", p)
    /\ UNCHANGED <<asked, origin>>

Publish ==
    /\ Ongoing
    /\ DOMAIN reached = asked
    /\ shown' = Event("completed", 100)
    /\ origin' \in {"build", "references"}
    /\ UNCHANGED <<asked, reached>>

Fail ==
    Ongoing /\ shown' = Event("failed", 0) /\ UNCHANGED <<asked, reached, origin>>

\* A cancel that is heard before the job begins shows no progress.
Cancel ==
    /\ Ongoing
    /\ \/ shown' = Event("cancelled", 0) /\ DOMAIN reached = {}
       \/ shown' = Event("cancelled", 50)
    /\ UNCHANGED <<asked, reached, origin>>

ContractNext == (\E o \in Outputs : ShowOutput(o)) \/ Publish \/ Fail \/ Cancel

ContractSpec == ContractInit /\ [][ContractNext]_contractVars

=============================================================================
